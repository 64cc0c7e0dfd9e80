-------------------------------- MODULE Rpc --------------------------------
(***************************************************************************)
(* A remote call, from RpcClientStub::call (src/rpc_proto/                 *)
(* rpc_client_stub.cc) over a ShortSocketChannel and Socket to TcpServer,  *)
(* RpcServer and RpcServerStub::process_request, and back.                 *)
(*                                                                         *)
(* A request is {header_len}{header}{args} and an answer is                *)
(* {header_len}{header}{answer}; both are counted in units: header_len is  *)
(* one, each field of the header that is written is one (RpcHeaders), and  *)
(* so is each piece of the arguments; an answer is one unit.  TCP keeps    *)
(* the order of the units, and cuts a message anywhere: what has been sent *)
(* and has not arrived counts as not sent yet.  A read takes what is there *)
(* and at most Buffer units (4096 bytes in the code).                      *)
(*                                                                         *)
(* A server offers fixed pairs of a service and a method.  It registers    *)
(* them, listens, may fail to, may be stopped, and may die: on its own, or *)
(* by an exception that nobody catches.  The list of a load balancer is    *)
(* what is registered (Discovery says how it gets there).  How it chooses  *)
(* is WeightedRandom's and left open here; it may also choose nobody.      *)
(*                                                                         *)
(* Three ways in which the client's process may end are not here: that     *)
(* Feedback divides by zero or uses a node that is gone, which is in       *)
(* WeightedRandom; that one call looks into m_load_balancer_map without    *)
(* the lock (lines 34 and 58) while another puts a balancer into it, which *)
(* is a data race; and that connect and read, which try again by calling   *)
(* themselves, use up the coroutine's stack.                               *)
(***************************************************************************)
EXTENDS RpcHeaders

CONSTANTS
    Calls,      \* the calls that are in flight, by coroutines of a client
    Servers,    \* addresses of servers
    Offers,     \* the pairs of a service and a method, by server
    Loops,      \* 1 for a server run by start, more for start_multi
    None,       \* no server
    Text,       \* a message of an answer
    Inputs,     \* bound: services, methods and units of arguments asked for
    Buffer,     \* units that fit into the buffer of a read
    MaxDeaths   \* bound: servers that stop or die on their own

Services == {i[1] : i \in Inputs}
Methods == {i[2] : i \in Inputs}

ASSUME RpcAssumption ==
    /\ Loops \in [Servers -> Nat \ {0}]
    /\ None \notin Servers /\ Text # Empty
    /\ \A s \in Servers : \A p \in Offers[s] : Empty \notin {p[1], p[2]}
    /\ \A i \in Inputs : i[3] \in Nat /\ Empty \notin {i[1], i[2]}
    /\ MaxDeaths \in Nat /\ Buffer \in Nat \ {0}

VARIABLES
    managed,     \* m_load_balancer_map: the method that each service's
                 \* balancer is kept up to date for; Empty if it has none
    registered,  \* the servers that have a node in ZooKeeper
    server,      \* the state of each server's process
    loops,       \* how many of its loops accept connections
    call,        \* the locals of each call
    conn,        \* the connection of each call, and its server's locals
    deaths

vars == <<managed, registered, server, loops, call, conn, deaths>>
clientVars == <<managed, call>>
serverVars == <<registered, server, loops, deaths>>

NotRun == -1
NoCall == [pc |-> "idle", service |-> Empty, method |-> Empty, args |-> 0,
           server |-> None, sent |-> 0, got |-> 0, status |-> Success,
           size |-> 0]
NoConn == [pc |-> "none", loop |-> 0, read |-> 0, seen |-> 0, ran |-> NotRun,
           answer |-> NoResponse, ready |-> 0]

Smaller(a, b) == IF a < b THEN a ELSE b

Init ==
    /\ managed = [v \in Services |-> Empty]
    /\ registered = {}
    /\ server = [s \in Servers |-> "down"]
    /\ loops = [s \in Servers |-> 0]
    /\ call = [c \in Calls |-> NoCall]
    /\ conn = [c \in Calls |-> NoConn]
    /\ deaths = 0

-----------------------------------------------------------------------------
(* RpcClientStub::call *)

(* The request, lines 42-51, and its size in units. *)
Request(c) == [service_name |-> call[c].service, method_name |-> call[c].method,
               args_size |-> call[c].args]
HeaderLen(c) == RequestSize(Request(c))
RequestLen(c) == 1 + HeaderLen(c) + call[c].args

(* The first call to a service makes its load balancer.  The lock is held for
   that, but not for looking it up again in lines 34 and 58. *)
BeginCall(c) ==
    /\ call[c].pc = "idle"
    /\ \E i \in Inputs :
        /\ call' = [call EXCEPT ![c] = [@ EXCEPT !.pc = "select",
                        !.service = i[1], !.method = i[2], !.args = i[3]]]
        /\ managed' = IF managed[i[1]] = Empty
                      THEN [managed EXCEPT ![i[1]] = i[2]] ELSE managed
    /\ UNCHANGED <<serverVars, conn>>

(* The caller calls again; of calls whose connections a server has not ended
   yet there are as many as there are Calls. *)
Again(c) ==
    /\ call[c].pc = "done" /\ conn[c].pc \in {"none", "closed"}
    /\ call' = [call EXCEPT ![c] = NoCall]
    /\ conn' = [conn EXCEPT ![c] = NoConn]
    /\ UNCHANGED <<managed, serverVars>>

has_method(s, service, method) == <<service, method>> \in Offers[s]

(* The servers in the list of a service's load balancer: those whose methods
   have nodes in ZooKeeper. *)
Listed(service) ==
    {s \in registered : has_method(s, service, managed[service])}

SelectServer(c) ==
    /\ call[c].pc = "select"
    /\ \/ \E s \in Listed(call[c].service) :
            call' = [call EXCEPT ![c].pc = "connect", ![c].server = s]
       \/ call' = [call EXCEPT ![c].pc = "done", ![c].status = UnknownError]
    /\ UNCHANGED <<managed, serverVars, conn>>

(* Socket::connect: a server that refuses is tried again and again, which
   changes nothing but the depth of the stack (line 187 of socket.cc calls
   connect again): how deep it may be is not modelled. *)
Connect(c) ==
    /\ call[c].pc = "connect"
    /\ \E l \in 1 .. loops[call[c].server] :
        conn' = [conn EXCEPT ![c].pc = "backlog", ![c].loop = l]
    /\ call' = [call EXCEPT ![c].pc = "send"]
    /\ UNCHANGED <<managed, serverVars>>

(* The network is not there: connect returns -1, and nobody looks at it.  Of a
   socket that has no connection read gets an error, waits, is woken by
   EPOLLHUP at once and calls itself, again and again: the call never returns,
   and what it does meanwhile changes nothing but the depth of its stack. *)
Unreachable(c) ==
    /\ call[c].pc = "connect"
    /\ call' = [call EXCEPT ![c].pc = "hung"]
    /\ UNCHANGED <<managed, serverVars, conn>>

(* Socket::send, until everything is sent.  The -1 of a broken connection is
   the largest size_t, and is taken for that. *)
Send(c) ==
    /\ call[c].pc = "send"
    /\ \/ /\ conn[c].pc = "closed"
          /\ call' = [call EXCEPT ![c].pc = "recv"]
       \/ /\ conn[c].pc # "closed"
          /\ \E k \in 1 .. RequestLen(c) - call[c].sent :
                call' = [call EXCEPT ![c].sent = @ + k,
                            ![c].pc = IF call[c].sent + k = RequestLen(c)
                                      THEN "recv" ELSE "send"]
    /\ UNCHANGED <<managed, serverVars, conn>>

(* The header of the answer as call finds it in its zeroed buffer, n units of
   which have been read into: where nothing was read there is a 0, which is an
   empty header at the beginning and the end of one further on. *)
Answered(c, n) ==
    IF n = 0 THEN NoResponse
    ELSE ParseResponse(conn[c].answer,
                       Smaller(n - 1, ResponseSize(conn[c].answer)))

(* Socket::read, once; with the call the channel ends.  Feedback comes between
   the read and the parser, with the status that the caller passed in: what it
   does to the balancer, and that it may end the process, is in WeightedRandom.
   The code then copies args_size bytes from behind the header, however many
   were read: more than there are units of them in got are the zeroes of the
   buffer or, behind its 4096 bytes, whatever is in memory (line 62), so only
   the size of the response is kept here. *)
Recv(c) ==
    /\ call[c].pc = "recv"
    /\ conn[c].ready > 0 \/ conn[c].pc = "closed"
    /\ LET n == Smaller(conn[c].ready, Buffer) IN
        call' = [call EXCEPT ![c] = [@ EXCEPT !.pc = "done", !.got = n,
                        !.status = Answered(c, n).status,
                        !.size = Answered(c, n).args_size]]
    /\ UNCHANGED <<managed, serverVars, conn>>

-----------------------------------------------------------------------------
(* The server: start and start_multi *)

registerAllService(s) == registered' = registered \cup {s}
UnregisterAll(s) == registered' = registered \ {s}

Starts(s) ==
    /\ server[s] = "down"
    /\ server' = [server EXCEPT ![s] = "starting"]
    /\ registerAllService(s)
    /\ UNCHANGED <<clientVars, loops, conn, deaths>>

(* RpcServerStub registers what the server will listen for, and listens. *)
start(s) == Loops[s] = 1 /\ Starts(s)
start_multi(s) == Loops[s] > 1 /\ Starts(s)

(* Socket::bind and listen: after n sockets there are n or one more. *)
bind(n) == {n, n + 1}

(* TcpServer::start: the one socket, *)
Listen(s) ==
    /\ server[s] = "starting" /\ Loops[s] = 1
    /\ server' = [server EXCEPT ![s] = "started"]
    /\ \E n \in bind(0) : loops' = [loops EXCEPT ![s] = n]
    /\ UNCHANGED <<clientVars, registered, conn, deaths>>

(* Mutant: one socket more than there are loops. *)
ListenMulti_one_more(s) ==
    /\ server[s] = "starting" /\ Loops[s] > 1
    /\ \E n \in bind(loops[s]) :
        /\ loops' = [loops EXCEPT ![s] = n]
        /\ server' = IF n = loops[s] \/ n > Loops[s]
                     THEN [server EXCEPT ![s] = "started"] ELSE server
    /\ UNCHANGED <<clientVars, registered, conn, deaths>>

(* and start_multi: one socket after the other.  If bind fails, the rest is
   left out, and nobody is told. *)
ListenMulti(s) ==
    /\ server[s] = "starting" /\ Loops[s] > 1
    /\ \E n \in bind(loops[s]) :
        /\ loops' = [loops EXCEPT ![s] = n]
        /\ server' = IF n = loops[s] \/ n = Loops[s]
                     THEN [server EXCEPT ![s] = "started"] ELSE server
    /\ UNCHANGED <<clientVars, registered, conn, deaths>>

(* Socket::accept, and a coroutine for the connection. *)
Accept(c, l) ==
    /\ conn[c].pc = "backlog" /\ conn[c].loop = l
    /\ conn' = [conn EXCEPT ![c].pc = "read"]
    /\ UNCHANGED <<clientVars, serverVars>>

server_loop(s) ==
    /\ Loops[s] = 1
    /\ \E c \in Calls : call[c].server = s /\ Accept(c, 1)

multi_server_loop(s, l) ==
    /\ Loops[s] > 1
    /\ \E c \in Calls : call[c].server = s /\ Accept(c, l)

(* The process of s ends, and with it its connections. *)
Broken(s) ==
    [c \in Calls |-> IF call[c].server = s /\ conn[c].pc # "none"
                     THEN [conn[c] EXCEPT !.pc = "closed"] ELSE conn[c]]
Ends(s) ==
    /\ server' = [server EXCEPT ![s] = "down"]
    /\ loops' = [loops EXCEPT ![s] = 0]

(* ~RpcServerStub: the server takes its names back. *)
Stop(s) ==
    /\ server[s] = "started"
    /\ deaths < MaxDeaths
    /\ deaths' = deaths + 1
    /\ UnregisterAll(s)
    /\ conn' = Broken(s) /\ Ends(s)
    /\ UNCHANGED clientVars

Crash(s) ==
    /\ server[s] # "down"
    /\ deaths < MaxDeaths
    /\ deaths' = deaths + 1
    /\ conn' = Broken(s) /\ Ends(s)
    /\ UNCHANGED <<clientVars, registered>>

(* ZooKeeper drops the session of a server that is not there. *)
Expire(s) ==
    /\ server[s] = "down" /\ s \in registered
    /\ registered' = registered \ {s}
    /\ UNCHANGED <<clientVars, server, loops, conn, deaths>>

-----------------------------------------------------------------------------
(* RpcServer::on_connection and RpcServerStub::process_request *)

(* What process_request reads of a request of which it has n units. *)
Header(c, n) == ParseRequest(Request(c), Smaller(n - 1, HeaderLen(c)))

(* Mutant: a request without arguments is taken for one without a method. *)
Found_nonempty(s, h) ==
    h.args_size > 0 /\ has_method(s, h.service_name, h.method_name)

Found(s, h) == has_method(s, h.service_name, h.method_name)

(* substr throws when the arguments would begin after the end, or the header
   would: of a first unit alone, header_len, there may be a part only. *)
Throws(c, n) ==
    Found(call[c].server, Header(c, n)) /\ n < 1 + HeaderLen(c)

(* Mutant: the status of a request that nobody serves is not set. *)
Answer_unset(c, n) ==
    [status |-> Success, message |-> Text,
     args_size |-> IF Found(call[c].server, Header(c, n)) THEN 1 ELSE 0]

Answer(c, n) ==
    IF Found(call[c].server, Header(c, n))
    THEN [status |-> Success, message |-> Text, args_size |-> 1]
    ELSE [status |-> InvalidRequest, message |-> Text, args_size |-> 0]

(* The arguments the method is called with: substr takes what there is. *)
Args(c, n) ==
    IF Found(call[c].server, Header(c, n))
    THEN Smaller(Header(c, n).args_size, n - 1 - HeaderLen(c)) ELSE NotRun

AnswerLen(c) == 1 + ResponseSize(conn[c].answer) + conn[c].answer.args_size

Unread(c) == call[c].sent - conn[c].read
Gone(c) == call[c].pc = "done"

(* A read is taken for a request. *)
ReadRequest(c) ==
    /\ conn[c].pc = "read" /\ conn[c].read = 0 /\ Unread(c) > 0
    /\ LET n == Smaller(Unread(c), Buffer) IN
        \/ /\ Throws(c, n) \/ n = 1
           /\ conn' = Broken(call[c].server) /\ Ends(call[c].server)
        \/ /\ ~Throws(c, n)
           /\ conn' = [conn EXCEPT ![c] = [@ EXCEPT !.pc = "reply",
                            !.read = n, !.seen = n, !.ran = Args(c, n),
                            !.answer = Answer(c, n)]]
           /\ UNCHANGED <<server, loops>>
    /\ UNCHANGED <<clientVars, registered, deaths>>

(* And so is a read of what the first one left.  It may be too short for a
   header_len; else it is answered, and nobody reads the answer.  Arguments are
   units without content here, so that a rest which, taken for a request, names
   a service by chance and runs its method is left out: ran and seen are what
   the first read came to, which is the one that the client is answered. *)
ReadRest(c) ==
    /\ conn[c].pc = "read" /\ conn[c].read > 0 /\ Unread(c) > 0
    /\ \/ /\ conn' = [conn EXCEPT ![c].read = @ + Smaller(Unread(c), Buffer)]
          /\ UNCHANGED <<server, loops>>
       \/ /\ conn' = Broken(call[c].server) /\ Ends(call[c].server)
    /\ UNCHANGED <<clientVars, registered, deaths>>

(* read returns 0: the client has gone, and the socket is closed.  A client
   that leaves a part of the answer resets the connection. *)
EndConnection(c) ==
    /\ conn[c].pc = "read"
    /\ Gone(c) /\ (Unread(c) = 0 \/ call[c].got < conn[c].ready)
    /\ conn' = [conn EXCEPT ![c].pc = "closed"]
    /\ UNCHANGED <<clientVars, serverVars>>

(* Mutant: the answer stays in write_buf. *)
Reply_lost(c) ==
    /\ conn[c].pc = "reply"
    /\ conn' = [conn EXCEPT ![c].pc = "read"]
    /\ UNCHANGED <<clientVars, serverVars>>

(* Socket::send of the answer. *)
Reply(c) ==
    /\ conn[c].pc = "reply"
    /\ \/ \E k \in 1 .. AnswerLen(c) - conn[c].ready :
            conn' = [conn EXCEPT ![c].ready = @ + k,
                        ![c].pc = IF conn[c].ready + k = AnswerLen(c)
                                  THEN "read" ELSE "reply"]
       \/ Gone(c) /\ conn' = [conn EXCEPT ![c].pc = "read"]
    /\ UNCHANGED <<clientVars, serverVars>>

-----------------------------------------------------------------------------
Calling(c) ==
    \/ BeginCall(c) \/ Again(c) \/ SelectServer(c)
    \/ Connect(c) \/ Unreachable(c) \/ Send(c) \/ Recv(c)
Serving(c) == ReadRequest(c) \/ ReadRest(c) \/ EndConnection(c) \/ Reply(c)
Running(s) ==
    \/ start(s) \/ start_multi(s) \/ Listen(s) \/ ListenMulti(s)
    \/ server_loop(s) \/ (\E l \in 1 .. Loops[s] : multi_server_loop(s, l))
    \/ Stop(s) \/ Crash(s) \/ Expire(s)

Next ==
    \/ \E c \in Calls : Calling(c) \/ Serving(c)
    \/ \E s \in Servers : Running(s)

(* A coroutine that can go on is resumed, and a loop takes the connection that
   waits for it.  Nobody has to start a server, or to begin a call, and no
   network has to fail. *)
Fairness ==
    /\ \A c \in Calls :
        /\ WF_vars(SelectServer(c) \/ Connect(c) \/ Send(c) \/ Recv(c))
        /\ WF_vars(Serving(c))
    /\ \A s \in Servers :
        /\ WF_vars(server_loop(s))
        /\ \A l \in 1 .. Loops[s] : WF_vars(multi_server_loop(s, l))

Spec == Init /\ [][Next]_vars
FairSpec == Spec /\ Fairness

-----------------------------------------------------------------------------
InCall(c) == call[c].pc \notin {"idle", "done", "hung"}

(* Every variable keeps its type: no server listens with more loops than it is
   told to start, and no more is sent or read than there is. *)
TypeOK ==
    /\ managed \in [Services -> Methods \cup {Empty}]
    /\ registered \subseteq Servers
    /\ server \in [Servers -> {"down", "starting", "started"}]
    /\ \A s \in Servers : loops[s] \in 0 .. Loops[s]
    /\ deaths \in 0 .. MaxDeaths
    /\ \A c \in Calls :
        /\ call[c].pc \in {"idle", "select", "connect", "send", "recv",
                           "done", "hung"}
        /\ call[c].args \in {0} \cup {i[3] : i \in Inputs}
        /\ call[c].server \in Servers \cup {None}
        /\ call[c].sent \in 0 .. RequestLen(c)
        /\ conn[c].pc \in {"none", "backlog", "read", "reply", "closed"}
        /\ conn[c].read \in 0 .. call[c].sent
        /\ conn[c].ready \in 0 .. AnswerLen(c)
        /\ call[c].got \in 0 .. conn[c].ready

(* An answer that says SUCCESS is true if the messages came in one piece: the
   server read the whole request, the client the whole answer.  Then the method
   that was asked for has run, with the arguments it was called with. *)
SuccessIsTrue ==
    \A c \in Calls :
        /\ call[c].pc = "done" /\ call[c].status = Success
        /\ conn[c].seen = RequestLen(c) /\ call[c].got = AnswerLen(c)
        => /\ <<call[c].service, call[c].method>> \in Offers[call[c].server]
           /\ conn[c].ran = call[c].args
           /\ call[c].size = 1

(* A call is refused as INVALID_REQUEST only for a cause: the server that was
   chosen does not offer the method, or it read only a part of the header.
   The read that was refused has run no method. *)
RefusedForCause ==
    \A c \in Calls :
        call[c].pc = "done" /\ call[c].status = InvalidRequest
        => /\ conn[c].ran = NotRun
           /\ \/ <<call[c].service, call[c].method>>
                    \notin Offers[call[c].server]
              \/ conn[c].seen < 1 + HeaderLen(c)

(* Where servers in the end run with all their loops, a call that has begun
   returns, whatever connections were refused, cut or closed before; unless
   there was no network, from which it never returns.  (As far as the stack of
   its coroutine is deep enough for the times that it was refused.) *)
CallReturns ==
    (\A s \in Servers : <>[](server[s] = "started" /\ loops[s] = Loops[s]))
    => \A c \in Calls : InCall(c) ~> call[c].pc \in {"done", "hung"}

(* A server holds no connection for ever: each is closed in the end, and the
   coroutine that serves it with it. *)
ConnectionsEnd ==
    \A c \in Calls :
        conn[c].pc \in {"backlog", "read", "reply"} ~> conn[c].pc = "closed"

(* Both: calls end at the client, and connections at the server. *)
CallsEnd == CallReturns /\ ConnectionsEnd

(* What README.md says of RpcClient::call: it invokes the remote method.  A
   call that reports SUCCESS has run it, with its arguments. *)
SuccessMeansExecuted ==
    \A c \in Calls :
        call[c].pc = "done" /\ call[c].status = Success
        => conn[c].ran = call[c].args
=============================================================================
