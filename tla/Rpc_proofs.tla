----------------------------- MODULE Rpc_proofs -----------------------------
(***************************************************************************)
(* What a call reports is true, for every number of calls, servers, loops  *)
(* and inputs, every size of the buffer and every way to cut messages.     *)
(* The invariant relates the locals of a call with those of its            *)
(* connection; nothing in it is about two calls, or about who is alive.    *)
(***************************************************************************)
EXTENDS Rpc, TLAPS

CallPCs == {"idle", "select", "connect", "send", "recv", "done", "hung"}
ConnPCs == {"none", "backlog", "read", "reply", "closed"}
Responses == [status : 0 .. 2, message : {Empty, Text}, args_size : {0, 1}]

CallRecords ==
    [pc : CallPCs, service : Services \cup {Empty},
     method : Methods \cup {Empty}, args : {0} \cup {i[3] : i \in Inputs},
     server : Servers \cup {None}, sent : Nat, got : Nat, status : 0 .. 2,
     size : {0, 1}]
ConnRecords ==
    [pc : ConnPCs, loop : Nat, read : Nat, seen : Nat, ran : Int,
     answer : Responses, ready : Nat]

(* The records of the calls and of their connections. *)
RecordTypes ==
    /\ call \in [Calls -> CallRecords]
    /\ conn \in [Calls -> ConnRecords]

(* What the servers' processes and the client's map of balancers look like. *)
ServerTypes ==
    /\ managed \in [Services -> Methods \cup {Empty}]
    /\ registered \subseteq Servers
    /\ server \in [Servers -> {"down", "starting", "started"}]
    /\ loops \in [Servers -> Nat]
    /\ deaths \in 0 .. MaxDeaths
    /\ \A s \in Servers :
        /\ loops[s] <= Loops[s]
        /\ server[s] = "down" => loops[s] = 0
        /\ server[s] = "starting" => loops[s] < Loops[s]

(* No more has been read than sent, on both ways. *)
Counted(c) ==
    /\ call[c].sent <= RequestLen(c)
    /\ conn[c].seen <= conn[c].read /\ conn[c].read <= call[c].sent
    /\ conn[c].ready <= AnswerLen(c)
    /\ call[c].got <= conn[c].ready

(* A connection is there when the call has been sent, and its answer is that
   to what the server has seen. *)
Connected(c) ==
    /\ call[c].pc \in {"idle", "select", "connect", "hung"}
        => conn[c] = NoConn /\ call[c].sent = 0
    /\ call[c].pc = "connect" => call[c].server \in Servers
    /\ conn[c].pc = "none" => conn[c] = NoConn
    /\ conn[c].pc = "reply" => conn[c].seen > 0
    /\ conn[c].seen = 0 => conn[c].read = 0 /\ conn[c].ready = 0
    /\ conn[c].seen > 0 => /\ conn[c].answer = Answer(c, conn[c].seen)
                           /\ conn[c].ran = Args(c, conn[c].seen)

(* What a call reports is what it has read of the answer. *)
Reported(c) ==
    call[c].pc = "done" =>
        \/ conn[c] = NoConn /\ call[c].status = UnknownError
        \/ /\ call[c].status = Answered(c, call[c].got).status
           /\ call[c].size = Answered(c, call[c].got).args_size
           /\ call[c].got = 0 => conn[c].pc = "closed"

CallInv(c) == Counted(c) /\ Connected(c) /\ Reported(c)

(* The inductive invariant. *)
IInv == RecordTypes /\ ServerTypes /\ \A c \in Calls : CallInv(c)

-----------------------------------------------------------------------------
(* Headers *)

(* A request of which the whole header is there is read as it was written. *)
LEMMA WholeRequest ==
  ASSUME NEW v, NEW m, NEW a, NEW n \in Int,
         n >= RequestSize([service_name |-> v, method_name |-> m,
                           args_size |-> a])
  PROVE  ParseRequest([service_name |-> v, method_name |-> m,
                       args_size |-> a], n)
            = [service_name |-> v, method_name |-> m, args_size |-> a]
  BY DEF ParseRequest, RequestSize, SerializeRequest, Units

(* And so is a response. *)
LEMMA WholeResponse ==
  ASSUME NEW h \in Responses, NEW n \in Int, n >= ResponseSize(h)
  PROVE  ParseResponse(h, n) = h
  BY DEF ParseResponse, ResponseSize, SerializeResponse, Units, Responses

(* Of a response of which a part is there, the status is its own or SUCCESS,
   and every field has a type. *)
LEMMA PartOfResponse ==
  ASSUME NEW h \in Responses, NEW n \in Int
  PROVE  /\ ParseResponse(h, n) \in Responses
         /\ ParseResponse(h, n).status \in {h.status, Success}
  BY DEF ParseResponse, SerializeResponse, Units, Responses, NoResponse, Success

LEMMA Sizes ==
  /\ \A h : RequestSize(h) \in 0 .. 3
  /\ \A h : ResponseSize(h) \in 0 .. 3
  BY DEF RequestSize, ResponseSize, SerializeRequest, SerializeResponse, Units

-----------------------------------------------------------------------------
(* What is computed from a call *)

LEMMA ArgsTypes ==
  ASSUME RecordTypes, NEW c \in Calls
  PROVE  /\ call[c].args \in Nat
         /\ call[c] \in CallRecords /\ conn[c] \in ConnRecords
  BY RpcAssumption DEF RecordTypes, CallRecords

LEMMA RequestTypes ==
  ASSUME RecordTypes, NEW c \in Calls
  PROVE  HeaderLen(c) \in 0 .. 3 /\ RequestLen(c) \in Nat \ {0}
<1>1. call[c].args \in Nat
  BY ArgsTypes
<1>2. HeaderLen(c) \in 0 .. 3
  BY Sizes DEF HeaderLen
<1> QED
  BY <1>1, <1>2 DEF RequestLen

LEMMA AnswerTypes ==
  ASSUME RecordTypes, NEW c \in Calls
  PROVE  /\ conn[c].answer \in Responses
         /\ ResponseSize(conn[c].answer) \in 0 .. 3
         /\ AnswerLen(c) \in Nat \ {0}
<1>1. conn[c].answer \in Responses
  BY ArgsTypes DEF ConnRecords
<1>2. ResponseSize(conn[c].answer) \in 0 .. 3
  BY Sizes
<1>3. conn[c].answer.args_size \in {0, 1}
  BY <1>1 DEF Responses
<1> QED
  BY <1>1, <1>2, <1>3 DEF AnswerLen

LEMMA AnswersAreTyped ==
  ASSUME RecordTypes, NEW c \in Calls, NEW n \in Nat
  PROVE  Answer(c, n) \in Responses /\ Args(c, n) \in Int
<1>1. Answer(c, n) \in Responses
  BY DEF Answer, Responses, Success, InvalidRequest
<1>2. HeaderLen(c) \in Int /\ call[c].args \in Nat
  BY RequestTypes, ArgsTypes
<1>3. Header(c, n).args_size \in {0, call[c].args}
  BY DEF Header, ParseRequest, Request, NoRequest
<1>4. Args(c, n) \in Int
  BY <1>2, <1>3 DEF Args, Smaller, NotRun
<1> QED
  BY <1>1, <1>4

LEMMA AnsweredTypes ==
  ASSUME RecordTypes, NEW c \in Calls, NEW n \in Nat
  PROVE  Answered(c, n) \in Responses
<1>1. CASE n = 0
  BY <1>1 DEF Answered, NoResponse, Responses, Success
<1>2. CASE n > 0
  <2> DEFINE k == Smaller(n - 1, ResponseSize(conn[c].answer))
  <2>1. k \in Int
    BY AnswerTypes DEF Smaller
  <2> HIDE DEF k
  <2>2. ParseResponse(conn[c].answer, k) \in Responses
    BY <2>1, AnswerTypes, PartOfResponse
  <2> QED
    BY <1>2, <2>2 DEF Answered, k
<1> QED
  BY <1>1, <1>2

(* The call's and the connection's records are all that CallInv is about. *)
LEMMA CallKept ==
  ASSUME NEW c \in Calls, CallInv(c), call'[c] = call[c], conn'[c] = conn[c]
  PROVE  CallInv(c)'
<1>1. /\ Request(c)' = Request(c) /\ HeaderLen(c)' = HeaderLen(c)
      /\ RequestLen(c)' = RequestLen(c) /\ AnswerLen(c)' = AnswerLen(c)
  BY DEF Request, HeaderLen, RequestLen, AnswerLen
<1>2. \A n : Header(c, n)' = Header(c, n)
  BY <1>1 DEF Header
<1>3. \A n : Answer(c, n)' = Answer(c, n) /\ Args(c, n)' = Args(c, n)
  BY <1>1, <1>2 DEF Answer, Args
<1>4. \A n : Answered(c, n)' = Answered(c, n)
  BY DEF Answered
<1>5. Counted(c)'
  BY <1>1 DEF CallInv, Counted
<1>6. Connected(c)'
  BY <1>3 DEF CallInv, Connected
<1>7. Reported(c)'
  BY <1>4 DEF CallInv, Reported
<1> QED
  BY <1>5, <1>6, <1>7 DEF CallInv

(* The same of the state after a step. *)
LEMMA LensNext ==
  ASSUME RecordTypes', NEW c \in Calls
  PROVE  RequestLen(c)' \in Nat \ {0} /\ AnswerLen(c)' \in Nat \ {0}
<1>1. call'[c].args \in Nat /\ conn'[c].answer.args_size \in {0, 1}
  BY RpcAssumption DEF RecordTypes, CallRecords, ConnRecords, Responses
<1>2. /\ RequestSize(Request(c)') \in 0 .. 3
      /\ ResponseSize(conn'[c].answer) \in 0 .. 3
  BY Sizes
<1> QED
  BY <1>1, <1>2 DEF RequestLen, HeaderLen, AnswerLen

(* A step of one call leaves the others alone. *)
LEMMA OneCall ==
  ASSUME \A d \in Calls : CallInv(d), NEW c \in Calls, CallInv(c)',
         \A d \in Calls \ {c} : call'[d] = call[d] /\ conn'[d] = conn[d]
  PROVE  \A d \in Calls : CallInv(d)'
<1> SUFFICES ASSUME NEW d \in Calls, d # c
             PROVE  CallInv(d)'
  OBVIOUS
<1> QED
  BY CallKept

(* A call that has no connection has sent and read nothing. *)
LEMMA NotConnected ==
  ASSUME RecordTypes', NEW c \in Calls, conn'[c] = NoConn,
         call'[c].sent = 0, call'[c].got = 0,
         call'[c].pc = "done" => call'[c].status = UnknownError,
         call'[c].pc = "connect" => call'[c].server \in Servers
  PROVE  CallInv(c)'
<1>1. RequestLen(c)' \in Nat /\ AnswerLen(c)' \in Nat
  BY LensNext
<1>2. Counted(c)'
  BY <1>1 DEF Counted, NoConn
<1>3. Connected(c)'
  BY DEF Connected, NoConn
<1>4. Reported(c)'
  BY DEF Reported
<1> QED
  BY <1>2, <1>3, <1>4 DEF CallInv

-----------------------------------------------------------------------------
(* The steps of a call *)

LEMMA NoCallTypes == NoCall \in CallRecords /\ NoConn \in ConnRecords
<1>1. NoResponse \in Responses
  BY DEF NoResponse, Responses, Success
<1> QED
  BY <1>1 DEF NoCall, NoConn, CallRecords, ConnRecords, CallPCs, ConnPCs,
              Success, NotRun

LEMMA InitIInv == Init => IInv
<1> SUFFICES ASSUME Init PROVE IInv
  OBVIOUS
<1>1. RecordTypes
  BY NoCallTypes DEF Init, RecordTypes
<1>2. ServerTypes
  BY RpcAssumption DEF Init, ServerTypes
<1>3. ASSUME NEW c \in Calls PROVE CallInv(c)
  <2>1. call[c] = NoCall /\ conn[c] = NoConn
    BY <1>3 DEF Init
  <2>2. RequestLen(c) \in Nat /\ AnswerLen(c) \in Nat
    BY <1>1, RequestTypes, AnswerTypes
  <2> QED
    BY <2>1, <2>2 DEF CallInv, Counted, Connected, Reported, NoCall, NoConn
<1> QED
  BY <1>1, <1>2, <1>3 DEF IInv

(* Once a call has sent something it has a connection, and until then it has
   read nothing. *)
LEMMA Unconnected ==
  ASSUME RecordTypes, NEW c \in Calls, CallInv(c),
         call[c].pc \in {"idle", "select", "connect", "hung"}
  PROVE  conn[c] = NoConn /\ call[c].sent = 0 /\ call[c].got = 0
<1>1. conn[c] = NoConn /\ call[c].sent = 0
  BY DEF CallInv, Connected
<1>2. call[c].got \in Nat /\ call[c].got <= 0
  BY <1>1, ArgsTypes DEF CallInv, Counted, NoConn, CallRecords
<1> QED
  BY <1>1, <1>2

LEMMA BeginCallIInv ==
  ASSUME IInv, NEW c \in Calls, BeginCall(c)
  PROVE  IInv'
<1> USE DEF IInv
<1>1. PICK i \in Inputs :
        /\ call' = [call EXCEPT ![c] = [@ EXCEPT !.pc = "select",
                        !.service = i[1], !.method = i[2], !.args = i[3]]]
        /\ managed' = IF managed[i[1]] = Empty
                      THEN [managed EXCEPT ![i[1]] = i[2]] ELSE managed
  BY DEF BeginCall
<1>2. i[1] \in Services /\ i[2] \in Methods
  BY DEF Services, Methods
<1> DEFINE r == [call[c] EXCEPT !.pc = "select", !.service = i[1],
                                !.method = i[2], !.args = i[3]]
<1>3. r \in CallRecords
  BY <1>2, ArgsTypes DEF CallRecords, CallPCs
<1>4. r.pc = "select" /\ r.sent = 0 /\ r.got = 0 /\ conn[c] = NoConn
  BY Unconnected, ArgsTypes DEF BeginCall, CallRecords
<1>5. call' = [call EXCEPT ![c] = r]
  BY <1>1 DEF RecordTypes
<1> HIDE DEF r
<1>6. RecordTypes' /\ ServerTypes'
  BY <1>1, <1>2, <1>3, <1>5 DEF BeginCall, serverVars, RecordTypes, ServerTypes
<1>7. CallInv(c)'
  BY <1>4, <1>5, <1>6, NotConnected DEF BeginCall, RecordTypes
<1> QED
  BY <1>5, <1>6, <1>7, OneCall DEF BeginCall, RecordTypes

LEMMA AgainIInv ==
  ASSUME IInv, NEW c \in Calls, Again(c)
  PROVE  IInv'
<1> USE DEF IInv
<1>1. RecordTypes' /\ ServerTypes'
  BY NoCallTypes DEF Again, serverVars, RecordTypes, ServerTypes
<1>2. CallInv(c)'
  BY <1>1, NotConnected DEF Again, RecordTypes, NoCall
<1> QED
  BY <1>1, <1>2, OneCall DEF Again, RecordTypes

LEMMA SelectServerIInv ==
  ASSUME IInv, NEW c \in Calls, SelectServer(c)
  PROVE  IInv'
<1> USE DEF IInv
<1>1. PICK r \in CallRecords :
        /\ call' = [call EXCEPT ![c] = r]
        /\ r.sent = 0 /\ r.got = 0
        /\ r.pc = "done" => r.status = UnknownError
        /\ r.pc \in {"connect", "done"}
        /\ r.pc = "connect" => r.server \in Servers
  <2>1. call[c] \in CallRecords /\ call[c].sent = 0 /\ call[c].got = 0
    BY Unconnected, ArgsTypes DEF SelectServer
  <2>2. CASE \E s \in Listed(call[c].service) :
                call' = [call EXCEPT ![c].pc = "connect", ![c].server = s]
    <3>1. PICK s \in Servers :
            call' = [call EXCEPT ![c].pc = "connect", ![c].server = s]
      BY <2>2 DEF Listed, ServerTypes
    <3> DEFINE r == [call[c] EXCEPT !.pc = "connect", !.server = s]
    <3>2. /\ r \in CallRecords /\ r.sent = 0 /\ r.got = 0 /\ r.pc = "connect"
          /\ r.server = s
      BY <2>1 DEF CallRecords, CallPCs
    <3>3. call' = [call EXCEPT ![c] = r]
      BY <3>1 DEF RecordTypes
    <3> QED
      BY <3>2, <3>3
  <2>3. CASE call' = [call EXCEPT ![c].pc = "done", ![c].status = UnknownError]
    <3> DEFINE r == [call[c] EXCEPT !.pc = "done", !.status = UnknownError]
    <3>1. UnknownError \in 0 .. 2
      BY DEF UnknownError
    <3>2. /\ r \in CallRecords /\ r.sent = 0 /\ r.got = 0
          /\ r.status = UnknownError /\ r.pc = "done"
      BY <2>1, <3>1 DEF CallRecords, CallPCs
    <3>3. call' = [call EXCEPT ![c] = r]
      BY <2>3 DEF RecordTypes
    <3> QED
      BY <3>2, <3>3
  <2> QED
    BY <2>2, <2>3 DEF SelectServer
<1>2. conn[c] = NoConn
  BY Unconnected DEF SelectServer
<1>3. RecordTypes' /\ ServerTypes'
  BY <1>1 DEF SelectServer, serverVars, RecordTypes, ServerTypes
<1>4. CallInv(c)'
  BY <1>1, <1>2, <1>3, NotConnected DEF SelectServer, RecordTypes
<1> QED
  BY <1>1, <1>3, <1>4, OneCall DEF SelectServer, RecordTypes

LEMMA ConnectIInv ==
  ASSUME IInv, NEW c \in Calls, Connect(c)
  PROVE  IInv'
<1> USE DEF IInv
<1>1. call[c] \in CallRecords /\ call[c].sent = 0 /\ call[c].got = 0
  BY Unconnected, ArgsTypes DEF Connect
<1>2. conn[c] = NoConn /\ NoConn \in ConnRecords
  BY Unconnected, NoCallTypes DEF Connect
<1>3. PICK l \in 1 .. loops[call[c].server] :
        conn' = [conn EXCEPT ![c].pc = "backlog", ![c].loop = l]
  BY DEF Connect
<1>4. l \in Nat
  <2>1. call[c].server \in Servers
    BY DEF Connect, CallInv, Connected
  <2>2. loops[call[c].server] \in Nat
    BY <2>1 DEF ServerTypes
  <2> QED
    BY <2>2
<1> DEFINE k == [call[c] EXCEPT !.pc = "send"]
           n == [NoConn EXCEPT !.pc = "backlog", !.loop = l]
<1>5. k \in CallRecords /\ k.sent = 0 /\ k.got = 0 /\ k.pc = "send"
  BY <1>1 DEF CallRecords, CallPCs
<1>6. /\ n \in ConnRecords /\ n.pc = "backlog" /\ n.read = 0 /\ n.seen = 0
      /\ n.ready = 0
  BY <1>2, <1>4 DEF ConnRecords, ConnPCs, NoConn
<1>7. call' = [call EXCEPT ![c] = k] /\ conn' = [conn EXCEPT ![c] = n]
  BY <1>2, <1>3 DEF Connect, RecordTypes
<1> HIDE DEF k, n
<1>8. RecordTypes' /\ ServerTypes'
  <2>1. RecordTypes'
    BY <1>5, <1>6, <1>7 DEF RecordTypes
  <2>2. ServerTypes'
    BY DEF Connect, serverVars, ServerTypes
  <2> QED
    BY <2>1, <2>2
<1>9. call'[c] = k /\ conn'[c] = n
  BY <1>7 DEF RecordTypes
<1>10. CallInv(c)'
  <2>1. RequestLen(c)' \in Nat /\ AnswerLen(c)' \in Nat
    BY <1>8, LensNext
  <2> QED
    BY <1>5, <1>6, <1>9, <2>1 DEF CallInv, Counted, Connected, Reported
<1> QED
  BY <1>7, <1>8, <1>10, OneCall DEF RecordTypes

LEMMA UnreachableIInv ==
  ASSUME IInv, NEW c \in Calls, Unreachable(c)
  PROVE  IInv'
<1> USE DEF IInv
<1> DEFINE r == [call[c] EXCEPT !.pc = "hung"]
<1>1. call[c] \in CallRecords /\ call[c].sent = 0 /\ call[c].got = 0
  BY Unconnected, ArgsTypes DEF Unreachable
<1>2. r \in CallRecords /\ r.sent = 0 /\ r.got = 0 /\ r.pc = "hung"
  BY <1>1 DEF CallRecords, CallPCs
<1>3. call' = [call EXCEPT ![c] = r] /\ conn[c] = NoConn
  BY Unconnected DEF Unreachable, RecordTypes
<1> HIDE DEF r
<1>4. RecordTypes' /\ ServerTypes'
  BY <1>2, <1>3 DEF Unreachable, serverVars, RecordTypes, ServerTypes
<1>5. CallInv(c)'
  BY <1>2, <1>3, <1>4, NotConnected DEF Unreachable, RecordTypes
<1> QED
  BY <1>3, <1>4, <1>5, OneCall DEF Unreachable, RecordTypes

(* What is computed from a call depends on what it asked for, and of whom, *)
LEMMA SameRequest ==
  ASSUME NEW c,
         call'[c].service = call[c].service, call'[c].method = call[c].method,
         call'[c].args = call[c].args, call'[c].server = call[c].server
  PROVE  /\ HeaderLen(c)' = HeaderLen(c) /\ RequestLen(c)' = RequestLen(c)
         /\ \A n : Answer(c, n)' = Answer(c, n) /\ Args(c, n)' = Args(c, n)
<1>1. /\ Request(c)' = Request(c) /\ HeaderLen(c)' = HeaderLen(c)
      /\ RequestLen(c)' = RequestLen(c)
  BY DEF Request, HeaderLen, RequestLen
<1>2. \A n : Header(c, n)' = Header(c, n)
  BY <1>1 DEF Header
<1>3. \A n : Answer(c, n)' = Answer(c, n) /\ Args(c, n)' = Args(c, n)
  BY <1>1, <1>2 DEF Answer, Args
<1> QED
  BY <1>1, <1>3

(* and on the answer. *)
LEMMA SameAnswer ==
  ASSUME NEW c, conn'[c].answer = conn[c].answer
  PROVE  /\ AnswerLen(c)' = AnswerLen(c)
         /\ \A n : Answered(c, n)' = Answered(c, n)
  BY DEF AnswerLen, Answered

(* A step of one call and of its connection. *)
LEMMA StepOfOne ==
  ASSUME IInv, NEW c \in Calls, NEW r \in CallRecords, NEW n \in ConnRecords,
         call' = [call EXCEPT ![c] = r], conn' = [conn EXCEPT ![c] = n],
         UNCHANGED <<managed, serverVars>>,
         CallInv(c)'
  PROVE  IInv'
<1>1. RecordTypes' /\ ServerTypes'
  BY DEF IInv, RecordTypes, ServerTypes, serverVars
<1>2. \A d \in Calls : CallInv(d)'
  BY OneCall DEF IInv, RecordTypes
<1> QED
  BY <1>1, <1>2 DEF IInv

(* Of a call and its connection, only the pc and what has been sent change. *)
LEMMA SendStep ==
  ASSUME IInv, NEW c \in Calls, UNCHANGED <<managed, serverVars, conn>>,
         NEW r \in CallRecords, call' = [call EXCEPT ![c] = r],
         call[c].sent <= r.sent, r.sent <= RequestLen(c),
         r.pc \in {"send", "recv"}, r.got = call[c].got,
         r.service = call[c].service, r.method = call[c].method,
         r.args = call[c].args, r.server = call[c].server
  PROVE  IInv'
<1>1. call[c] \in CallRecords /\ conn[c] \in ConnRecords /\ CallInv(c)
  BY ArgsTypes DEF IInv
<1>2. call'[c] = r /\ conn'[c] = conn[c] /\ conn' = [conn EXCEPT ![c] = conn[c]]
  BY DEF IInv, RecordTypes
<1>3. /\ RequestLen(c)' = RequestLen(c) /\ AnswerLen(c)' = AnswerLen(c)
      /\ \A n : Answer(c, n)' = Answer(c, n) /\ Args(c, n)' = Args(c, n)
  BY <1>2, SameRequest, SameAnswer
<1>4. Counted(c)'
  <2>1. /\ conn[c].read \in Nat /\ conn[c].read <= call[c].sent
        /\ call[c].sent \in Nat /\ r.sent \in Nat
    BY <1>1 DEF CallInv, Counted, ConnRecords, CallRecords
  <2>2. conn[c].read <= r.sent
    BY <2>1
  <2> QED
    BY <1>1, <1>2, <1>3, <2>2 DEF CallInv, Counted
<1>5. Connected(c)'
  BY <1>1, <1>2, <1>3 DEF CallInv, Connected
<1>6. Reported(c)'
  BY <1>2 DEF Reported
<1>7. CallInv(c)'
  BY <1>4, <1>5, <1>6 DEF CallInv
<1> QED
  BY <1>1, <1>2, <1>7, StepOfOne

LEMMA SendIInv ==
  ASSUME IInv, NEW c \in Calls, Send(c)
  PROVE  IInv'
<1>1. call[c] \in CallRecords /\ RequestLen(c) \in Nat /\ CallInv(c)
  BY ArgsTypes, RequestTypes DEF IInv
<1>2. call[c].sent \in Nat /\ call[c].sent <= RequestLen(c)
  BY <1>1 DEF CallRecords, CallInv, Counted
<1>3. UNCHANGED <<managed, serverVars, conn>> /\ call \in [Calls -> CallRecords]
  BY DEF Send, IInv, RecordTypes
<1>4. CASE call' = [call EXCEPT ![c].pc = "recv"]
  <2> DEFINE r == [call[c] EXCEPT !.pc = "recv"]
  <2>1. /\ r \in CallRecords /\ r.pc = "recv" /\ r.sent = call[c].sent
        /\ r.got = call[c].got
        /\ r.service = call[c].service /\ r.method = call[c].method
        /\ r.args = call[c].args /\ r.server = call[c].server
    BY <1>1 DEF CallRecords, CallPCs
  <2>2. call' = [call EXCEPT ![c] = r]
    BY <1>3, <1>4
  <2> HIDE DEF r
  <2>3. call[c].sent <= r.sent /\ r.sent <= RequestLen(c)
    BY <1>2, <2>1
  <2> QED
    BY <1>3, <2>1, <2>2, <2>3, SendStep
<1>5. ASSUME NEW k \in 1 .. RequestLen(c) - call[c].sent,
             call' = [call EXCEPT ![c].sent = @ + k,
                          ![c].pc = IF call[c].sent + k = RequestLen(c)
                                    THEN "recv" ELSE "send"]
      PROVE  IInv'
  <2> DEFINE p == IF call[c].sent + k = RequestLen(c) THEN "recv" ELSE "send"
             s == call[c].sent + k
             r == [call[c] EXCEPT !.sent = s, !.pc = p]
  <2>1. call' = [call EXCEPT ![c] = r]
    BY <1>3, <1>5
  <2>2. p \in {"send", "recv"}
    OBVIOUS
  <2>3. s \in Nat /\ call[c].sent <= s /\ s <= RequestLen(c)
    BY <1>1, <1>2
  <2> HIDE DEF p, s
  <2>4. /\ r \in CallRecords /\ r.sent = s /\ r.pc = p /\ r.got = call[c].got
        /\ r.service = call[c].service /\ r.method = call[c].method
        /\ r.args = call[c].args /\ r.server = call[c].server
    BY <1>1, <2>2, <2>3 DEF CallRecords, CallPCs
  <2> HIDE DEF r
  <2> QED
    BY <1>3, <2>1, <2>2, <2>3, <2>4, SendStep
<1> QED
  BY <1>4, <1>5 DEF Send

LEMMA RecvIInv ==
  ASSUME IInv, NEW c \in Calls, Recv(c)
  PROVE  IInv'
<1> DEFINE n == Smaller(conn[c].ready, Buffer)
           a == Answered(c, n)
           r == [call[c] EXCEPT !.pc = "done", !.got = n,
                                !.status = a.status, !.size = a.args_size]
<1>1. call[c] \in CallRecords /\ conn[c] \in ConnRecords /\ CallInv(c)
  BY ArgsTypes DEF IInv
<1>2. UNCHANGED <<managed, serverVars, conn>> /\ call' = [call EXCEPT ![c] = r]
  BY DEF Recv, IInv, RecordTypes
<1>3. conn[c].ready \in Nat /\ Buffer \in Nat \ {0}
  BY <1>1, RpcAssumption DEF ConnRecords
<1>4. n \in Nat /\ n <= conn[c].ready /\ (n = 0 => conn[c].ready = 0)
  BY <1>3 DEF Smaller
<1>5. n = 0 => conn[c].pc = "closed"
  BY <1>3, <1>4 DEF Recv
<1> HIDE DEF n
<1>6. a \in Responses
  BY <1>4, AnsweredTypes DEF IInv
<1>7. a.status \in 0 .. 2 /\ a.args_size \in {0, 1}
  BY <1>6 DEF Responses
<1> HIDE DEF a
<1>8. /\ r \in CallRecords /\ r.pc = "done" /\ r.got = n /\ r.sent = call[c].sent
      /\ r.status = a.status /\ r.size = a.args_size
      /\ r.service = call[c].service /\ r.method = call[c].method
      /\ r.args = call[c].args /\ r.server = call[c].server
  BY <1>1, <1>4, <1>7 DEF CallRecords, CallPCs
<1> HIDE DEF r
<1>9. call'[c] = r /\ conn'[c] = conn[c] /\ conn' = [conn EXCEPT ![c] = conn[c]]
  BY <1>2 DEF IInv, RecordTypes
<1>10. /\ RequestLen(c)' = RequestLen(c) /\ AnswerLen(c)' = AnswerLen(c)
       /\ \A k : Answer(c, k)' = Answer(c, k) /\ Args(c, k)' = Args(c, k)
       /\ \A k : Answered(c, k)' = Answered(c, k)
  BY <1>8, <1>9, SameRequest, SameAnswer
<1>11. CallInv(c)'
  <2>1. Counted(c)'
    BY <1>1, <1>4, <1>8, <1>9, <1>10 DEF CallInv, Counted
  <2>2. Connected(c)'
    BY <1>1, <1>8, <1>9, <1>10 DEF CallInv, Connected
  <2>3. Reported(c)'
    BY <1>5, <1>8, <1>9, <1>10 DEF Reported, a
  <2> QED
    BY <2>1, <2>2, <2>3 DEF CallInv
<1> QED
  BY <1>1, <1>2, <1>8, <1>9, <1>11, StepOfOne

-----------------------------------------------------------------------------
(* The steps of a connection *)

(* Where a connection is changes, and nothing else of it. *)
LEMMA Moved ==
  ASSUME RecordTypes, NEW c \in Calls, CallInv(c), NEW p \in {"read", "closed"},
         conn[c].pc # "none", conn[c].pc = "closed" => p = "closed",
         call'[c] = call[c], conn'[c] = [conn[c] EXCEPT !.pc = p]
  PROVE  CallInv(c)' /\ conn'[c] \in ConnRecords
<1>1. conn[c] \in ConnRecords
  BY ArgsTypes
<1>2. /\ conn'[c] \in ConnRecords /\ conn'[c].pc = p
      /\ conn'[c].answer = conn[c].answer /\ conn'[c].read = conn[c].read
      /\ conn'[c].seen = conn[c].seen /\ conn'[c].ready = conn[c].ready
      /\ conn'[c].ran = conn[c].ran
  BY <1>1 DEF ConnRecords, ConnPCs
<1>3. /\ RequestLen(c)' = RequestLen(c) /\ AnswerLen(c)' = AnswerLen(c)
      /\ \A k : Answer(c, k)' = Answer(c, k) /\ Args(c, k)' = Args(c, k)
      /\ \A k : Answered(c, k)' = Answered(c, k)
  BY <1>2, SameRequest, SameAnswer
<1>4. Counted(c)'
  BY <1>2, <1>3 DEF CallInv, Counted
<1>5. Connected(c)'
  BY <1>2, <1>3 DEF CallInv, Connected, NoConn
<1>6. Reported(c)'
  BY <1>2, <1>3 DEF CallInv, Reported, NoConn
<1> QED
  BY <1>2, <1>4, <1>5, <1>6 DEF CallInv

LEMMA MovedIInv ==
  ASSUME IInv, NEW c \in Calls, NEW p \in {"read", "closed"},
         conn[c].pc \in {"backlog", "read", "reply"},
         UNCHANGED <<clientVars, serverVars>>,
         conn' = [conn EXCEPT ![c].pc = p]
  PROVE  IInv'
<1>1. /\ call'[c] = call[c] /\ conn'[c] = [conn[c] EXCEPT !.pc = p]
      /\ conn' = [conn EXCEPT ![c] = conn'[c]]
      /\ call' = [call EXCEPT ![c] = call[c]]
  BY DEF IInv, RecordTypes, clientVars
<1>2. CallInv(c)' /\ conn'[c] \in ConnRecords
  BY <1>1, Moved DEF IInv
<1>3. call[c] \in CallRecords
  BY ArgsTypes DEF IInv
<1> QED
  BY <1>1, <1>2, <1>3, StepOfOne DEF clientVars

LEMMA AcceptIInv ==
  ASSUME IInv, NEW c \in Calls, NEW l, Accept(c, l)
  PROVE  IInv'
  BY MovedIInv DEF Accept

LEMMA EndConnectionIInv ==
  ASSUME IInv, NEW c \in Calls, EndConnection(c)
  PROVE  IInv'
  BY MovedIInv DEF EndConnection

(* The process of a server ends, by itself, by Stop or by an exception. *)
LEMMA EndsIInv ==
  ASSUME IInv, NEW s, conn' = Broken(s), Ends(s), UNCHANGED clientVars,
         registered' \subseteq registered, deaths' \in 0 .. MaxDeaths
  PROVE  IInv'
<1>1. ServerTypes'
  <2>1. /\ server' = [server EXCEPT ![s] = "down"]
        /\ loops' = [loops EXCEPT ![s] = 0]
        /\ server \in [Servers -> {"down", "starting", "started"}]
        /\ loops \in [Servers -> Nat] /\ Loops \in [Servers -> Nat \ {0}]
    BY RpcAssumption DEF IInv, ServerTypes, Ends
  <2>2. ASSUME NEW t \in Servers
        PROVE  /\ loops'[t] <= Loops[t]
               /\ server'[t] = "down" => loops'[t] = 0
               /\ server'[t] = "starting" => loops'[t] < Loops[t]
    <3>1. CASE t = s
      BY <2>1, <3>1
    <3>2. CASE t # s
      <4>1. server'[t] = server[t] /\ loops'[t] = loops[t]
        BY <2>1, <3>2
      <4> QED
        BY <4>1 DEF IInv, ServerTypes
    <3> QED
      BY <3>1, <3>2
  <2>3. /\ server' \in [Servers -> {"down", "starting", "started"}]
        /\ loops' \in [Servers -> Nat]
    BY <2>1
  <2>4. /\ managed' \in [Services -> Methods \cup {Empty}]
        /\ registered' \subseteq Servers
    BY DEF IInv, ServerTypes, clientVars
  <2> QED
    BY <2>2, <2>3, <2>4 DEF ServerTypes
<1>2. ASSUME NEW c \in Calls
      PROVE  CallInv(c)' /\ conn'[c] \in ConnRecords
  <2>1. call'[c] = call[c] /\ CallInv(c) /\ conn[c] \in ConnRecords /\ RecordTypes
    BY ArgsTypes DEF IInv, clientVars
  <2>2. CASE call[c].server = s /\ conn[c].pc # "none"
    <3>1. conn'[c] = [conn[c] EXCEPT !.pc = "closed"]
      BY <2>2 DEF Broken
    <3> QED
      BY <2>1, <2>2, <3>1, Moved
  <2>3. CASE ~(call[c].server = s /\ conn[c].pc # "none")
    <3>1. conn'[c] = conn[c]
      BY <2>3 DEF Broken
    <3> QED
      BY <2>1, <3>1, CallKept
  <2> QED
    BY <2>2, <2>3
<1>3. RecordTypes'
  BY <1>2 DEF RecordTypes, IInv, clientVars, Broken
<1> QED
  BY <1>1, <1>2, <1>3 DEF IInv

LEMMA ReadRequestIInv ==
  ASSUME IInv, NEW c \in Calls, ReadRequest(c)
  PROVE  IInv'
<1>1. /\ call[c] \in CallRecords /\ conn[c] \in ConnRecords /\ CallInv(c)
      /\ conn[c].pc = "read" /\ conn[c].read = 0 /\ Unread(c) > 0
  BY ArgsTypes DEF IInv, ReadRequest
<1>2. /\ call[c].sent \in Nat /\ conn[c].seen \in Nat /\ conn[c].ready \in Nat
      /\ call[c].got \in Nat /\ Buffer \in Nat \ {0} /\ RecordTypes
  BY <1>1, RpcAssumption DEF CallRecords, ConnRecords, IInv
<1>3. PICK n \in Nat : n = Smaller(Unread(c), Buffer)
  BY <1>1, <1>2 DEF Smaller, Unread
<1>4. CASE conn' = Broken(call[c].server) /\ Ends(call[c].server)
  BY <1>4, EndsIInv DEF ReadRequest, IInv, ServerTypes
<1>5. CASE /\ conn' = [conn EXCEPT ![c] = [@ EXCEPT !.pc = "reply",
                            !.read = n, !.seen = n, !.ran = Args(c, n),
                            !.answer = Answer(c, n)]]
           /\ UNCHANGED <<server, loops>>
  <2> DEFINE m == [conn[c] EXCEPT !.pc = "reply", !.read = n, !.seen = n,
                        !.ran = Args(c, n), !.answer = Answer(c, n)]
  <2>1. n > 0 /\ n <= call[c].sent
    BY <1>1, <1>2, <1>3 DEF Smaller, Unread
  <2>2. conn[c].seen = 0 /\ conn[c].ready = 0
    BY <1>1, <1>2 DEF CallInv, Counted, Connected
  <2>3. call[c].got = 0
    BY <1>1, <1>2, <2>2 DEF CallInv, Counted
  <2>4. call[c].pc \notin {"idle", "select", "connect", "hung", "done"}
    BY <1>1, <2>3 DEF CallInv, Connected, Reported, NoConn
  <2>5. conn' = [conn EXCEPT ![c] = m] /\ call' = [call EXCEPT ![c] = call[c]]
    BY <1>5 DEF IInv, RecordTypes, ReadRequest, clientVars
  <2>6. Answer(c, n) \in Responses /\ Args(c, n) \in Int
    BY <1>2, AnswersAreTyped
  <2>7. /\ m \in ConnRecords /\ m.pc = "reply" /\ m.read = n /\ m.seen = n
        /\ m.ran = Args(c, n) /\ m.answer = Answer(c, n) /\ m.ready = 0
    BY <1>1, <2>2, <2>6 DEF ConnRecords, ConnPCs
  <2> HIDE DEF m
  <2>8. conn'[c] = m /\ call'[c] = call[c] /\ RecordTypes'
    BY <1>1, <1>2, <2>5, <2>7 DEF RecordTypes
  <2>9. /\ RequestLen(c)' = RequestLen(c) /\ AnswerLen(c)' \in Nat
        /\ Answer(c, n)' = Answer(c, n) /\ Args(c, n)' = Args(c, n)
    BY <2>8, SameRequest, LensNext
  <2>10. CallInv(c)'
    <3>1. Counted(c)'
      BY <1>1, <2>1, <2>3, <2>7, <2>8, <2>9 DEF CallInv, Counted
    <3>2. Connected(c)'
      BY <2>1, <2>4, <2>7, <2>8, <2>9 DEF Connected
    <3>3. Reported(c)'
      BY <2>4, <2>8 DEF Reported
    <3> QED
      BY <3>1, <3>2, <3>3 DEF CallInv
  <2> QED
    BY <1>1, <1>5, <2>5, <2>7, <2>10, StepOfOne
       DEF ReadRequest, clientVars, serverVars
<1> QED
  BY <1>3, <1>4, <1>5 DEF ReadRequest

LEMMA ReadRestIInv ==
  ASSUME IInv, NEW c \in Calls, ReadRest(c)
  PROVE  IInv'
<1> DEFINE n == conn[c].read + Smaller(Unread(c), Buffer)
           m == [conn[c] EXCEPT !.read = n]
<1>1. CASE conn' = Broken(call[c].server) /\ Ends(call[c].server)
  BY <1>1, EndsIInv DEF ReadRest, IInv, ServerTypes
<1>2. CASE /\ conn' = [conn EXCEPT ![c].read = @ + Smaller(Unread(c), Buffer)]
           /\ UNCHANGED <<server, loops>>
  <2>1. /\ call[c] \in CallRecords /\ conn[c] \in ConnRecords /\ CallInv(c)
        /\ conn[c].pc = "read" /\ conn[c].read > 0 /\ Unread(c) > 0
    BY ArgsTypes DEF IInv, ReadRest
  <2>2. /\ call[c].sent \in Nat /\ conn[c].seen \in Nat /\ conn[c].read \in Nat
        /\ Buffer \in Nat \ {0}
    BY <2>1, RpcAssumption DEF CallRecords, ConnRecords
  <2>3. n \in Nat /\ n > conn[c].read /\ n <= call[c].sent
    BY <2>1, <2>2 DEF Smaller, Unread
  <2>4. conn' = [conn EXCEPT ![c] = m] /\ call' = [call EXCEPT ![c] = call[c]]
    BY <1>2 DEF IInv, RecordTypes, ReadRest, clientVars
  <2> HIDE DEF n
  <2>5. /\ m \in ConnRecords /\ m.pc = conn[c].pc /\ m.read = n
        /\ m.seen = conn[c].seen /\ m.ran = conn[c].ran
        /\ m.answer = conn[c].answer /\ m.ready = conn[c].ready
    BY <2>1, <2>3 DEF ConnRecords
  <2> HIDE DEF m
  <2>6. conn'[c] = m /\ call'[c] = call[c]
    BY <2>4, <2>5 DEF IInv, RecordTypes
  <2>7. /\ RequestLen(c)' = RequestLen(c) /\ AnswerLen(c)' = AnswerLen(c)
        /\ \A k : Answer(c, k)' = Answer(c, k) /\ Args(c, k)' = Args(c, k)
        /\ \A k : Answered(c, k)' = Answered(c, k)
    BY <2>5, <2>6, SameRequest, SameAnswer
  <2>8. CallInv(c)'
    <3>1. Counted(c)'
      BY <2>1, <2>2, <2>3, <2>5, <2>6, <2>7 DEF CallInv, Counted
    <3>2. Connected(c)'
      BY <2>1, <2>2, <2>5, <2>6, <2>7 DEF CallInv, Connected, NoConn
    <3>3. Reported(c)'
      BY <2>1, <2>5, <2>6, <2>7 DEF CallInv, Reported, NoConn
    <3> QED
      BY <3>1, <3>2, <3>3 DEF CallInv
  <2> QED
    BY <1>2, <2>1, <2>4, <2>5, <2>8, StepOfOne
       DEF ReadRest, clientVars, serverVars
<1> QED
  BY <1>1, <1>2 DEF ReadRest

LEMMA ReplyIInv ==
  ASSUME IInv, NEW c \in Calls, Reply(c)
  PROVE  IInv'
<1>1. CASE conn' = [conn EXCEPT ![c].pc = "read"]
  BY <1>1, MovedIInv DEF Reply
<1>2. ASSUME NEW k \in 1 .. AnswerLen(c) - conn[c].ready,
             conn' = [conn EXCEPT ![c].ready = @ + k,
                        ![c].pc = IF conn[c].ready + k = AnswerLen(c)
                                  THEN "read" ELSE "reply"]
      PROVE  IInv'
  <2> DEFINE n == conn[c].ready + k
             p == IF n = AnswerLen(c) THEN "read" ELSE "reply"
             m == [conn[c] EXCEPT !.ready = n, !.pc = p]
  <2>1. /\ call[c] \in CallRecords /\ conn[c] \in ConnRecords /\ CallInv(c)
        /\ conn[c].pc = "reply" /\ AnswerLen(c) \in Nat
    BY ArgsTypes, AnswerTypes DEF IInv, Reply
  <2>2. /\ conn[c].ready \in Nat /\ call[c].got \in Nat
        /\ call[c].got <= conn[c].ready
    BY <2>1 DEF CallRecords, ConnRecords, CallInv, Counted
  <2>3. n \in Nat /\ n > conn[c].ready /\ n <= AnswerLen(c) /\ call[c].got <= n
    BY <2>1, <2>2
  <2>4. p \in {"read", "reply"}
    OBVIOUS
  <2>5. conn' = [conn EXCEPT ![c] = m] /\ call' = [call EXCEPT ![c] = call[c]]
    BY <1>2 DEF IInv, RecordTypes, Reply, clientVars
  <2> HIDE DEF n, p
  <2>6. /\ m \in ConnRecords /\ m.pc = p /\ m.read = conn[c].read
        /\ m.seen = conn[c].seen /\ m.ran = conn[c].ran
        /\ m.answer = conn[c].answer /\ m.ready = n
    BY <2>1, <2>3, <2>4 DEF ConnRecords, ConnPCs
  <2> HIDE DEF m
  <2>7. conn'[c] = m /\ call'[c] = call[c]
    BY <2>5, <2>6 DEF IInv, RecordTypes
  <2>8. /\ RequestLen(c)' = RequestLen(c) /\ AnswerLen(c)' = AnswerLen(c)
        /\ \A l : Answer(c, l)' = Answer(c, l) /\ Args(c, l)' = Args(c, l)
        /\ \A l : Answered(c, l)' = Answered(c, l)
    BY <2>6, <2>7, SameRequest, SameAnswer
  <2>9. CallInv(c)'
    <3>1. Counted(c)'
      BY <2>1, <2>2, <2>3, <2>6, <2>7, <2>8 DEF CallInv, Counted
    <3>2. conn[c].seen > 0 /\ conn[c].seen # 0
      BY <2>1 DEF CallInv, Connected, ConnRecords
    <3>3. Connected(c)'
      BY <2>1, <2>4, <2>6, <2>7, <2>8, <3>2 DEF CallInv, Connected, NoConn
    <3>4. Reported(c)'
      BY <2>1, <2>6, <2>7, <2>8 DEF CallInv, Reported, NoConn
    <3> QED
      BY <3>1, <3>3, <3>4 DEF CallInv
  <2> QED
    BY <2>1, <2>5, <2>6, <2>9, StepOfOne DEF Reply, clientVars, serverVars
<1> QED
  BY <1>1, <1>2 DEF Reply

-----------------------------------------------------------------------------
(* The steps of a server *)

(* One that leaves calls and connections alone. *)
LEMMA ServerStep ==
  ASSUME IInv, UNCHANGED <<call, conn>>, ServerTypes'
  PROVE  IInv'
<1>1. \A c \in Calls : CallInv(c)'
  BY CallKept DEF IInv
<1> QED
  BY <1>1 DEF IInv, RecordTypes

LEMMA StartsIInv ==
  ASSUME IInv, NEW s \in Servers, Starts(s)
  PROVE  IInv'
<1>1. /\ registered' = registered \cup {s}
      /\ server' = [server EXCEPT ![s] = "starting"]
      /\ UNCHANGED <<managed, loops, deaths>>
  BY DEF Starts, registerAllService, clientVars
<1>2. loops[s] = 0 /\ Loops[s] \in Nat \ {0}
  BY RpcAssumption DEF IInv, ServerTypes, Starts
<1>3. ServerTypes'
  BY <1>1, <1>2 DEF IInv, ServerTypes
<1> QED
  BY <1>3, ServerStep DEF Starts, clientVars

LEMMA ListenIInv ==
  ASSUME IInv, NEW s \in Servers, Listen(s)
  PROVE  IInv'
<1>1. bind(0) = {0, 1}
  BY DEF bind
<1>2. PICK n \in {0, 1} : loops' = [loops EXCEPT ![s] = n]
  BY <1>1 DEF Listen
<1>3. ServerTypes'
  BY <1>2, RpcAssumption DEF IInv, ServerTypes, Listen, clientVars
<1> QED
  BY <1>3, ServerStep DEF Listen, clientVars

LEMMA ListenMultiIInv ==
  ASSUME IInv, NEW s \in Servers, ListenMulti(s)
  PROVE  IInv'
<1>1. PICK n \in {loops[s], loops[s] + 1} :
        /\ loops' = [loops EXCEPT ![s] = n]
        /\ server' = IF n = loops[s] \/ n = Loops[s]
                     THEN [server EXCEPT ![s] = "started"] ELSE server
  BY DEF ListenMulti, bind
<1>2. /\ server[s] = "starting" /\ loops[s] \in Nat /\ loops[s] < Loops[s]
      /\ Loops[s] \in Nat
  BY RpcAssumption DEF ListenMulti, IInv, ServerTypes
<1>3. n \in Nat /\ n <= Loops[s] /\ (n # loops[s] /\ n # Loops[s] => n < Loops[s])
  BY <1>1, <1>2
<1>4. ServerTypes'
  <2>1. CASE n = loops[s] \/ n = Loops[s]
    <3>1. server' = [server EXCEPT ![s] = "started"]
      BY <1>1, <2>1
    <3> QED
      BY <1>1, <1>2, <1>3, <3>1 DEF IInv, ServerTypes, ListenMulti, clientVars
  <2>2. CASE ~(n = loops[s] \/ n = Loops[s])
    <3>1. server' = server
      BY <1>1, <2>2
    <3> QED
      BY <1>1, <1>2, <1>3, <2>2, <3>1
         DEF IInv, ServerTypes, ListenMulti, clientVars
  <2> QED
    BY <2>1, <2>2
<1> QED
  BY <1>4, ServerStep DEF ListenMulti, clientVars

LEMMA RunningIInv ==
  ASSUME IInv, NEW s \in Servers, Running(s)
  PROVE  IInv'
<1>1. CASE start(s) \/ start_multi(s)
  BY <1>1, StartsIInv DEF start, start_multi
<1>2. CASE Listen(s)
  BY <1>2, ListenIInv
<1>3. CASE ListenMulti(s)
  BY <1>3, ListenMultiIInv
<1>4. CASE server_loop(s)
  BY <1>4, AcceptIInv DEF server_loop
<1>5. CASE \E l \in 1 .. Loops[s] : multi_server_loop(s, l)
  BY <1>5, AcceptIInv DEF multi_server_loop
<1>6. deaths < MaxDeaths /\ deaths' = deaths + 1 => deaths' \in 0 .. MaxDeaths
  BY RpcAssumption DEF IInv, ServerTypes
<1>7. CASE Stop(s)
  BY <1>6, <1>7, EndsIInv DEF Stop, UnregisterAll
<1>8. CASE Crash(s)
  BY <1>6, <1>8, EndsIInv DEF Crash
<1>9. CASE Expire(s)
  <2>1. ServerTypes'
    BY <1>9 DEF Expire, IInv, ServerTypes, clientVars
  <2> QED
    BY <1>9, <2>1, ServerStep DEF Expire, clientVars
<1> QED
  BY <1>1, <1>2, <1>3, <1>4, <1>5, <1>7, <1>8, <1>9 DEF Running

-----------------------------------------------------------------------------
(* The theorems *)

LEMMA NextIInv == IInv /\ [Next]_vars => IInv'
<1> SUFFICES ASSUME IInv, [Next]_vars
             PROVE  IInv'
  OBVIOUS
<1>1. ASSUME NEW c \in Calls, Calling(c)
      PROVE  IInv'
  BY <1>1, BeginCallIInv, AgainIInv, SelectServerIInv, ConnectIInv,
     UnreachableIInv, SendIInv, RecvIInv DEF Calling
<1>2. ASSUME NEW c \in Calls, Serving(c)
      PROVE  IInv'
  BY <1>2, ReadRequestIInv, ReadRestIInv, EndConnectionIInv, ReplyIInv
     DEF Serving
<1>3. ASSUME NEW s \in Servers, Running(s)
      PROVE  IInv'
  BY <1>3, RunningIInv
<1>4. CASE UNCHANGED vars
  <2>1. ServerTypes'
    BY <1>4 DEF vars, IInv, ServerTypes
  <2> QED
    BY <1>4, <2>1, ServerStep DEF vars
<1> QED
  BY <1>1, <1>2, <1>3, <1>4 DEF Next

(* The invariant that relates a call to its connection is one. *)
THEOREM Inductive == Spec => []IInv
  BY InitIInv, NextIInv, PTL DEF Spec

(* Every variable keeps its type, however many units are sent at a time and
   however small the buffers are: what multi_server_loop listens with, what
   has been sent, and what has been read of it. *)
THEOREM TypeCorrect == Spec => []TypeOK
<1>1. ASSUME IInv
      PROVE  TypeOK
  <2>1. ServerTypes
    BY <1>1 DEF IInv
  <2>2. ASSUME NEW s \in Servers
        PROVE  loops[s] \in 0 .. Loops[s]
    BY <2>1, RpcAssumption DEF ServerTypes
  <2>3. ASSUME NEW c \in Calls
        PROVE  /\ call[c].pc \in {"idle", "select", "connect", "send", "recv",
                                  "done", "hung"}
               /\ call[c].args \in {0} \cup {i[3] : i \in Inputs}
               /\ call[c].server \in Servers \cup {None}
               /\ call[c].sent \in 0 .. RequestLen(c)
               /\ conn[c].pc \in {"none", "backlog", "read", "reply", "closed"}
               /\ conn[c].read \in 0 .. call[c].sent
               /\ conn[c].ready \in 0 .. AnswerLen(c)
               /\ call[c].got \in 0 .. conn[c].ready
    <3>1. /\ call[c] \in CallRecords /\ conn[c] \in ConnRecords /\ Counted(c)
          /\ RequestLen(c) \in Nat /\ AnswerLen(c) \in Nat
      BY <1>1, ArgsTypes, RequestTypes, AnswerTypes DEF IInv, CallInv
    <3>2. /\ call[c].sent \in Nat /\ call[c].got \in Nat
          /\ conn[c].read \in Nat /\ conn[c].ready \in Nat
      BY <3>1 DEF CallRecords, ConnRecords
    <3>3. /\ call[c].sent \in 0 .. RequestLen(c)
          /\ conn[c].read \in 0 .. call[c].sent
          /\ conn[c].ready \in 0 .. AnswerLen(c)
          /\ call[c].got \in 0 .. conn[c].ready
      BY <3>1, <3>2 DEF Counted
    <3> QED
      BY <3>1, <3>3 DEF CallRecords, ConnRecords, CallPCs, ConnPCs
  <2> QED
    BY <2>1, <2>2, <2>3 DEF ServerTypes, TypeOK
<1> QED
  BY <1>1, Inductive, PTL

(* A server that has seen the header whole reads what was asked for. *)
LEMMA HeaderWhole ==
  ASSUME RecordTypes, NEW c \in Calls, NEW n \in Nat, n >= 1 + HeaderLen(c)
  PROVE  Header(c, n) = Request(c)
<1>1. HeaderLen(c) \in Int
  BY RequestTypes
<1>2. Smaller(n - 1, HeaderLen(c)) = HeaderLen(c)
  BY <1>1 DEF Smaller
<1>3. ParseRequest(Request(c), HeaderLen(c)) = Request(c)
  BY <1>1, WholeRequest DEF HeaderLen, Request
<1> QED
  BY <1>2, <1>3 DEF Header

(* A SUCCESS of which both messages came in one piece is the truth: the method
   that was asked for has run with the arguments it was called with. *)
THEOREM SuccessTrue == Spec => []SuccessIsTrue
<1>1. ASSUME IInv, NEW c \in Calls,
             call[c].pc = "done", call[c].status = Success,
             conn[c].seen = RequestLen(c), call[c].got = AnswerLen(c)
      PROVE  /\ <<call[c].service, call[c].method>> \in Offers[call[c].server]
             /\ conn[c].ran = call[c].args
             /\ call[c].size = 1
  <2>1. /\ RecordTypes /\ Connected(c) /\ Reported(c)
        /\ call[c].args \in Nat /\ HeaderLen(c) \in Nat
        /\ RequestLen(c) \in Nat \ {0} /\ AnswerLen(c) \in Nat \ {0}
    BY <1>1, ArgsTypes, RequestTypes, AnswerTypes DEF IInv, CallInv
  <2>2. /\ conn[c].seen = 1 + HeaderLen(c) + call[c].args /\ conn[c].seen > 0
        /\ conn[c].seen \in Nat
    BY <1>1, <2>1 DEF RequestLen
  <2>3. Header(c, conn[c].seen) = Request(c)
    BY <2>1, <2>2, HeaderWhole
  <2>4. /\ conn[c].answer = Answer(c, conn[c].seen)
        /\ conn[c].ran = Args(c, conn[c].seen)
    BY <2>1, <2>2 DEF Connected
  <2>5. /\ call[c].status = Answered(c, call[c].got).status
        /\ call[c].size = Answered(c, call[c].got).args_size
    BY <1>1, <2>1, <2>2 DEF Reported, NoConn
  <2>6. Answered(c, call[c].got) = conn[c].answer
    <3>1. /\ conn[c].answer \in Responses
          /\ ResponseSize(conn[c].answer) \in Nat
          /\ conn[c].answer.args_size \in Nat
      BY <2>1, AnswerTypes DEF Responses
    <3>2. Smaller(call[c].got - 1, ResponseSize(conn[c].answer))
            = ResponseSize(conn[c].answer)
      BY <1>1, <3>1 DEF AnswerLen, Smaller
    <3>3. ParseResponse(conn[c].answer, ResponseSize(conn[c].answer))
            = conn[c].answer
      BY <3>1, WholeResponse
    <3> QED
      BY <1>1, <2>1, <3>2, <3>3 DEF Answered
  <2>7. Found(call[c].server, Request(c))
    BY <1>1, <2>3, <2>4, <2>5, <2>6 DEF Answer, Success, InvalidRequest
  <2>8. <<call[c].service, call[c].method>> \in Offers[call[c].server]
    BY <2>7 DEF Found, has_method, Request
  <2>9. call[c].size = 1
    BY <2>3, <2>4, <2>5, <2>6, <2>7 DEF Answer
  <2>10. conn[c].ran = call[c].args
    <3>1. conn[c].ran = Smaller(call[c].args, conn[c].seen - 1 - HeaderLen(c))
      BY <2>3, <2>4, <2>7 DEF Args, Request
    <3> QED
      BY <2>1, <2>2, <3>1 DEF Smaller
  <2> QED
    BY <2>8, <2>9, <2>10
<1>2. IInv => SuccessIsTrue
  BY <1>1 DEF SuccessIsTrue
<1> QED
  BY <1>2, Inductive, PTL

(* A call that is refused has run nothing, and its server does not offer what
   was asked for, or has read only a part of the header. *)
THEOREM RefusedOnlyForCause == Spec => []RefusedForCause
<1>1. ASSUME IInv, NEW c \in Calls,
             call[c].pc = "done", call[c].status = InvalidRequest
      PROVE  /\ conn[c].ran = NotRun
             /\ \/ <<call[c].service, call[c].method>>
                        \notin Offers[call[c].server]
                \/ conn[c].seen < 1 + HeaderLen(c)
  <2>1. /\ RecordTypes /\ Counted(c) /\ Connected(c) /\ Reported(c)
        /\ call[c] \in CallRecords /\ conn[c] \in ConnRecords
        /\ HeaderLen(c) \in Nat
    BY <1>1, ArgsTypes, RequestTypes DEF IInv, CallInv
  <2>2. /\ call[c].got \in Nat /\ conn[c].ready \in Nat /\ conn[c].seen \in Nat
        /\ call[c].got <= conn[c].ready
    BY <2>1 DEF CallRecords, ConnRecords, Counted
  <2>3. call[c].status = Answered(c, call[c].got).status
    BY <1>1, <2>1 DEF Reported, InvalidRequest, UnknownError
  <2>4. call[c].got # 0
    BY <1>1, <2>3 DEF Answered, NoResponse, Success, InvalidRequest
  <2>5. conn[c].seen > 0
    BY <2>1, <2>2, <2>4 DEF Connected
  <2>6. /\ conn[c].answer = Answer(c, conn[c].seen)
        /\ conn[c].ran = Args(c, conn[c].seen)
    BY <2>1, <2>5 DEF Connected
  <2>7. conn[c].answer.status = InvalidRequest
    <3>1. /\ conn[c].answer \in Responses
          /\ ResponseSize(conn[c].answer) \in Int
      BY <2>1, AnswerTypes
    <3> DEFINE k == Smaller(call[c].got - 1, ResponseSize(conn[c].answer))
    <3>2. k \in Int
      BY <2>2, <3>1 DEF Smaller
    <3>3. Answered(c, call[c].got) = ParseResponse(conn[c].answer, k)
      BY <2>4 DEF Answered
    <3> HIDE DEF k
    <3>4. Answered(c, call[c].got).status \in {conn[c].answer.status, Success}
      BY <3>1, <3>2, <3>3, PartOfResponse
    <3> QED
      BY <1>1, <2>3, <3>4 DEF Success, InvalidRequest
  <2>8. ~Found(call[c].server, Header(c, conn[c].seen))
    BY <2>6, <2>7 DEF Answer, Success, InvalidRequest
  <2>9. conn[c].ran = NotRun
    BY <2>6, <2>8 DEF Args
  <2>10. CASE conn[c].seen >= 1 + HeaderLen(c)
    <3>1. Header(c, conn[c].seen) = Request(c)
      BY <2>1, <2>2, <2>10, HeaderWhole
    <3> QED
      BY <2>8, <2>9, <3>1 DEF Found, has_method, Request
  <2> QED
    BY <2>1, <2>2, <2>9, <2>10
<1>2. IInv => RefusedForCause
  BY <1>1 DEF RefusedForCause
<1> QED
  BY <1>2, Inductive, PTL
=============================================================================
