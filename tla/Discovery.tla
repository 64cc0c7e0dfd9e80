----------------------------- MODULE Discovery -----------------------------
(***************************************************************************)
(* How a client learns which servers offer a method: the servers'          *)
(* registration (include/rpc_proto/zk_name_service_register.h), ZooKeeper, *)
(* the client's naming service (src/rpc_proto/zk_naming_service.cc) and    *)
(* the load balancer that it feeds.  There is one method.                  *)
(*                                                                         *)
(* ZooKeeper keeps a node for each registered server, owned by a session   *)
(* of that server's process, and tells a client once of a change of the    *)
(* children it has listed.  In the client the user's thread and            *)
(* ZooKeeper's watch thread each list the children and install what they   *)
(* have read.  Servers crash and start again.                              *)
(***************************************************************************)
EXTENDS Integers, SequencesExt, FiniteSets

CONSTANTS
    Servers,       \* addresses of servers, ordered
    Users,         \* threads of the client that call RpcClientStub::call
    Watcher,       \* the thread on which ZooKeeper's client runs callbacks
    None,          \* no thread
    MaxStarts      \* bound: starts of all servers together

Threads == Users \cup {Watcher}

ASSUME NamesAssumption ==
    /\ Servers \subseteq Nat /\ IsFiniteSet(Servers)
    /\ Watcher \notin Users /\ None \notin Threads
    /\ MaxStarts \in Nat

VARIABLES
    \* ZooKeeper
    sessions,  \* the sessions that have not ended: <<server, start>>
    node,      \* the start whose session owns the server's node, 0 if none
    watched,   \* whether the client has a watch on the children
    events,    \* child events that the client has still to handle
    \* the servers' processes
    server,    \* how far each is in its start, or "down"
    starts,    \* how often each has been started
    \* the client
    managed,   \* whether _actions has an action for the method
    copy,      \* _servers_data: its two copies
    index,     \* which copy is in the foreground
    toAdd,     \* _servers_to_add
    toRemove,  \* _servers_to_remove
    changed,   \* _servers_list_changed
    balancer,  \* the servers that the load balancer has
    modifying, \* the owner of _servers_data's _modify_mutex
    pc,        \* how far each thread is in RunNS
    rest,      \* the children whose data it has still to get
    seen,      \* presence_servers, or new_servers
    phase,     \* which of the two calls of ResetFn comes next
    balancing, \* what is left of LoadBalancerReset
    dead,      \* the process has been terminated by an exception
    \* which list is in the foreground (history)
    latest,    \* the thread that listed the children last
    current    \* whether it is that list

zkVars == <<sessions, node, watched, events>>
serverVars == <<server, starts>>
actionVars == <<copy, toAdd, toRemove, changed>>
threadVars == <<pc, rest, seen, phase, balancing>>
historyVars == <<latest, current>>
clientVars == <<managed, actionVars, index, balancer, modifying, threadVars,
                dead, historyVars>>
vars == <<zkVars, serverVars, clientVars>>

Init ==
    /\ sessions = {} /\ node = [s \in Servers |-> 0]
    /\ watched = FALSE /\ events = 0
    /\ server = [s \in Servers |-> "down"] /\ starts = [s \in Servers |-> 0]
    /\ managed = FALSE
    /\ copy = [b \in {0, 1} |-> << >>] /\ index = 0
    /\ toAdd = << >> /\ toRemove = << >> /\ changed = FALSE
    /\ balancer = {}
    /\ modifying = None
    /\ pc = [t \in Threads |-> "idle"]
    /\ rest = [t \in Threads |-> {}] /\ seen = [t \in Threads |-> {}]
    /\ phase = [t \in Threads |-> 0]
    /\ balancing = [t \in Threads |-> << >>]
    /\ dead = FALSE
    /\ latest = None /\ current = FALSE

-----------------------------------------------------------------------------
(* ZooKeeper *)

Children == {s \in Servers : node[s] # 0}

(* A watch is good for one event. *)
TriggerWatch ==
    IF watched /\ node' # node
    THEN watched' = FALSE /\ events' = events + 1
    ELSE UNCHANGED <<watched, events>>

(* An ephemeral node goes with the session that created it. *)
EndSession(s, n) ==
    /\ sessions' = sessions \ {<<s, n>>}
    /\ node' = [node EXCEPT ![s] = IF @ = n THEN 0 ELSE @]
    /\ TriggerWatch

(* Nobody keeps the session alive any more. *)
Expire(s, n) ==
    /\ <<s, n>> \in sessions
    /\ server[s] = "down" \/ n # starts[s]
    /\ EndSession(s, n)
    /\ UNCHANGED <<serverVars, clientVars>>

-----------------------------------------------------------------------------
(* The servers *)

(* ZkClient's constructor has its session; an older one may not have ended. *)
StartServer(s) ==
    /\ server[s] = "down"
    /\ SumFunction(starts) < MaxStarts
    /\ starts' = [starts EXCEPT ![s] = @ + 1]
    /\ sessions' = sessions \cup {<<s, starts'[s]>>}
    /\ server' = [server EXCEPT ![s] = "exists"]
    /\ UNCHANGED <<node, watched, events, clientVars>>

(* create asks first, and leaves alone a node that exists, *)
CheckExists(s) ==
    /\ server[s] = "exists"
    /\ server' = [server EXCEPT ![s] =
                    IF node[s] = 0 THEN "create" ELSE "running"]
    /\ UNCHANGED <<zkVars, starts, clientVars>>

(* then creates it. *)
CreateNode(s) ==
    /\ server[s] = "create"
    /\ node' = [node EXCEPT ![s] = IF @ = 0 THEN starts[s] ELSE @]
    /\ TriggerWatch
    /\ server' = [server EXCEPT ![s] = "running"]
    /\ UNCHANGED <<sessions, starts, clientVars>>

(* UnregisterMethod, from the stub's destructor: whoever owns the node. *)
UnregisterMethod(s) ==
    /\ server[s] = "running"
    /\ node' = [node EXCEPT ![s] = 0]
    /\ TriggerWatch
    /\ server' = [server EXCEPT ![s] = "leaving"]
    /\ UNCHANGED <<sessions, starts, clientVars>>

(* ZkClient's destructor closes the session. *)
Close(s) ==
    /\ server[s] = "leaving"
    /\ EndSession(s, starts[s])
    /\ server' = [server EXCEPT ![s] = "down"]
    /\ UNCHANGED <<starts, clientVars>>

(* The process ends; its session does not, yet. *)
Crash(s) ==
    /\ server[s] # "down"
    /\ server' = [server EXCEPT ![s] = "down"]
    /\ UNCHANGED <<zkVars, starts, clientVars>>

-----------------------------------------------------------------------------
(* The client: who runs RunNS *)

Stage(t, stage) == pc[t] = stage /\ ~dead
Goto(t, stage) == pc' = [pc EXCEPT ![t] = stage]

(* The first call of the method, under m_balancer_map_mutex: the action is
   there before its list is. *)
ManageLoadBalancer(t) ==
    /\ t \in Users
    /\ Stage(t, "idle")
    /\ ~managed
    /\ managed' = TRUE
    /\ Goto(t, "list")
    /\ UNCHANGED <<zkVars, serverVars, actionVars, index, balancer, modifying,
                   rest, seen, phase, balancing, dead, historyVars>>

(* Mutant: the callback does not ask for the type of the event. *)
child_watch_cb_any ==
    /\ Stage(Watcher, "idle")
    /\ watched \/ events > 0
    /\ events' = events - 1
    /\ Goto(Watcher, "list")
    /\ UNCHANGED <<sessions, node, watched, serverVars, managed, actionVars,
                   index, balancer, modifying, rest, seen, phase, balancing,
                   dead, historyVars>>

child_watch_cb ==
    /\ Stage(Watcher, "idle")
    /\ events > 0
    /\ events' = events - 1
    /\ Goto(Watcher, "list")
    /\ UNCHANGED <<sessions, node, watched, serverVars, managed, actionVars,
                   index, balancer, modifying, rest, seen, phase, balancing,
                   dead, historyVars>>

-----------------------------------------------------------------------------
(* RunNS *)

(* Mutant: the children are listed without a watch, except at first. *)
ListChildren_unwatched(t) ==
    /\ Stage(t, "list")
    /\ seen' = [seen EXCEPT ![t] = Children]
    /\ rest' = [rest EXCEPT ![t] = Children]
    /\ watched' = IF t = Watcher THEN watched ELSE TRUE
    /\ latest' = t /\ current' = FALSE
    /\ Goto(t, "get")
    /\ UNCHANGED <<sessions, node, events, serverVars, managed, actionVars,
                   index, balancer, modifying, phase, balancing, dead>>

(* GetServers: the children and a new watch, in one request; *)
ListChildren(t) ==
    /\ Stage(t, "list")
    /\ seen' = [seen EXCEPT ![t] = Children]
    /\ rest' = [rest EXCEPT ![t] = Children]
    /\ watched' = TRUE
    /\ latest' = t /\ current' = FALSE
    /\ Goto(t, "get")
    /\ UNCHANGED <<sessions, node, events, serverVars, managed, actionVars,
                   index, balancer, modifying, phase, balancing, dead>>

(* the data of each child, which nobody uses.  For a node that has gone, get
   makes a std::string of a null pointer, and nobody catches the exception. *)
GetData(t) ==
    /\ Stage(t, "get")
    /\ \E s \in rest[t] :
        /\ rest' = [rest EXCEPT ![t] = @ \ {s}]
        /\ dead' = (node[s] = 0)
    /\ UNCHANGED <<zkVars, serverVars, managed, actionVars, index, balancer,
                   modifying, pc, seen, phase, balancing, historyVars>>

(* ResetServers calls Modify. *)
BeginModify(t) ==
    /\ Stage(t, "get")
    /\ rest[t] = {}
    /\ modifying = None
    /\ modifying' = t
    /\ Goto(t, "reset")
    /\ UNCHANGED <<zkVars, serverVars, managed, actionVars, index, balancer,
                   rest, seen, phase, balancing, dead, historyVars>>

(* std::sort, and std::set_difference of sorted ranges *)
Sorted(S) ==
    CHOOSE seq \in [1 .. Cardinality(S) -> S] :
        \A i, j \in 1 .. Cardinality(S) : i < j => seq[i] < seq[j]
Minus(a, b) == Sorted(ToSet(a) \ ToSet(b))

(* Mutant: the whole last list is replaced. *)
Gone_all(last, new) == last
Gone(last, new) == Minus(last, new)

AddServers(last, add) == last \o add

(* The first one found is overwritten by the last one, which is popped. *)
RemoveServer(last, s) ==
    IF Contains(last, s)
    THEN LET i == CHOOSE j \in 1 .. Len(last) :
                    last[j] = s /\ \A k \in 1 .. j - 1 : last[k] # s
         IN  Front([last EXCEPT ![i] = Last(last)])
    ELSE last

(* left[n]: what n turns of the loop have left. *)
RemoveServers(last, remove) ==
    LET left[n \in 0 .. Len(remove)] ==
            IF n = 0 THEN last ELSE RemoveServer(left[n - 1], remove[n])
    IN  left[Len(remove)]

LoadBalancerReset ==
    [i \in DOMAIN toAdd' |-> <<"add", toAdd'[i]>>]
        \o [i \in DOMAIN toRemove' |-> <<"remove", toRemove'[i]>>]

Pending == toAdd # << >> \/ toRemove # << >> \/ changed
Clear == toAdd' = << >> /\ toRemove' = << >> /\ changed' = FALSE

(* Mutant: what was added is not cleared. *)
SecondBuffer_kept(t, b) ==
    /\ Pending
    /\ copy' = [copy EXCEPT ![b] =
                RemoveServers(AddServers(@, toAdd), toRemove)]
    /\ UNCHANGED toAdd /\ toRemove' = << >> /\ changed' = FALSE
    /\ UNCHANGED balancing

(* The second call repeats what the first one did, and clears the lists. *)
SecondBuffer(t, b) ==
    /\ Pending
    /\ copy' = [copy EXCEPT ![b] =
                RemoveServers(AddServers(@, toAdd), toRemove)]
    /\ Clear
    /\ UNCHANGED balancing

(* The first call, known by the lists being empty, computes them. *)
FirstBuffer(t, b) ==
    LET last == Sorted(ToSet(copy[b]))
        new == Sorted(seen[t]) IN
    /\ ~Pending
    /\ toRemove' = Gone(last, new)
    /\ toAdd' = Minus(new, last)
    /\ changed' = (toAdd' # << >> \/ toRemove' # << >>)
    /\ copy' = [copy EXCEPT ![b] =
                RemoveServers(AddServers(last, toAdd'), toRemove')]
    /\ balancing' = [balancing EXCEPT ![t] = LoadBalancerReset]

ResetFn(t) ==
    /\ Stage(t, "reset")
    /\ FirstBuffer(t, 1 - index) \/ SecondBuffer(t, 1 - index)
    /\ Goto(t, "balance")
    /\ UNCHANGED <<zkVars, serverVars, managed, index, balancer, modifying,
                   rest, seen, phase, dead, historyVars>>

(* One call of add_server or remove_server. *)
BalanceNext(t) ==
    /\ Stage(t, "balance")
    /\ balancing[t] # << >>
    /\ LET op == Head(balancing[t]) IN
        balancer' = IF op[1] = "add" THEN balancer \cup {op[2]}
                    ELSE balancer \ {op[2]}
    /\ balancing' = [balancing EXCEPT ![t] = Tail(@)]
    /\ UNCHANGED <<zkVars, serverVars, managed, actionVars, index, modifying,
                   pc, rest, seen, phase, dead, historyVars>>

Publish(t) ==
    /\ Stage(t, "balance")
    /\ balancing[t] = << >> /\ phase[t] = 0
    /\ index' = 1 - index
    /\ current' = (latest = t)
    /\ phase' = [phase EXCEPT ![t] = 1]
    /\ Goto(t, "reset")
    /\ UNCHANGED <<zkVars, serverVars, managed, actionVars, balancer,
                   modifying, rest, seen, balancing, dead, latest>>

EndModify(t) ==
    /\ Stage(t, "balance")
    /\ balancing[t] = << >> /\ phase[t] = 1
    /\ modifying' = None
    /\ seen' = [seen EXCEPT ![t] = {}]
    /\ phase' = [phase EXCEPT ![t] = 0]
    /\ Goto(t, "idle")
    /\ UNCHANGED <<zkVars, serverVars, managed, actionVars, index, balancer,
                   rest, balancing, dead, historyVars>>

-----------------------------------------------------------------------------
Register(s) == StartServer(s) \/ CheckExists(s) \/ CreateNode(s) \/ Close(s)

RunNS(t) ==
    \/ ListChildren(t) \/ GetData(t) \/ BeginModify(t) \/ ResetFn(t)
    \/ BalanceNext(t) \/ Publish(t) \/ EndModify(t)

Next ==
    \/ \E s \in Servers :
        \/ Register(s) \/ UnregisterMethod(s) \/ Crash(s)
        \/ \E n \in 1 .. MaxStarts : Expire(s, n)
    \/ \E t \in Users : ManageLoadBalancer(t)
    \/ child_watch_cb
    \/ \E t \in Threads : RunNS(t)

Spec == Init /\ [][Next]_vars

(* Processes and threads that are doing something go on; sessions of dead
   processes expire; the user calls the method; an event is delivered; the
   mutex is obtained at some time by each thread that waits for it.  Nobody
   has to start a server, to stop it or to crash. *)
Fairness ==
    /\ \A s \in Servers :
        /\ WF_vars(CheckExists(s) \/ CreateNode(s) \/ Close(s))
        /\ \A n \in 1 .. MaxStarts : WF_vars(Expire(s, n))
    /\ WF_vars(\E t \in Users : ManageLoadBalancer(t))
    /\ WF_vars(child_watch_cb)
    /\ \A t \in Threads : WF_vars(RunNS(t)) /\ SF_vars(BeginModify(t))

FairSpec == Spec /\ Fairness

-----------------------------------------------------------------------------
(* Properties *)

(* Every variable has its type. *)
TypeOK ==
    /\ sessions \in SUBSET (Servers \X (Nat \ {0}))
    /\ node \in [Servers -> Nat]
    /\ watched \in BOOLEAN /\ events \in Nat
    /\ server \in [Servers -> {"down", "exists", "create", "running",
                               "leaving"}]
    /\ starts \in [Servers -> Nat]
    /\ managed \in BOOLEAN /\ changed \in BOOLEAN /\ dead \in BOOLEAN
    /\ copy \in [{0, 1} -> Seq(Servers)] /\ index \in {0, 1}
    /\ toAdd \in Seq(Servers) /\ toRemove \in Seq(Servers)
    /\ balancer \in SUBSET Servers
    /\ modifying \in Threads \cup {None}
    /\ pc \in [Threads -> {"idle", "list", "get", "reset", "balance"}]
    /\ rest \in [Threads -> SUBSET Servers]
    /\ seen \in [Threads -> SUBSET Servers]
    /\ phase \in [Threads -> {0, 1}]
    /\ latest \in Threads \cup {None} /\ current \in BOOLEAN

(* Between modifications both copies hold the same servers, each of them once,
   and nothing is left in the lists by which ResetFn tells its second call from
   its first. *)
ListsAgree ==
    modifying = None =>
        /\ ToSet(copy[0]) = ToSet(copy[1])
        /\ IsInjective(copy[0]) /\ IsInjective(copy[1])
        /\ ~Pending

(* Between modifications the load balancer has the servers of the list. *)
BalancerFollows == modifying = None => balancer = ToSet(copy[index])

(* Both: the copies and the load balancer hold the same servers. *)
BalancerFollowsList == ListsAgree /\ BalancerFollows

(* A server leaves the load balancer only if the list being installed does not
   have it: one that stays is not missing in between. *)
StaysOffered ==
    [][\A s \in balancer :
        s \notin balancer' =>
            \E t \in Threads : modifying = t /\ s \notin seen[t]]_vars

(* When the client has nothing left to do, its list is that of ZooKeeper and a
   watch will tell it of the next change, unless a list has been overtaken by an
   older one. *)
Quiet == managed /\ ~dead /\ events = 0 /\ \A t \in Threads : pc[t] = "idle"
QuietIsCurrent ==
    Quiet => watched /\ (current => ToSet(copy[index]) = Children)

(* End to end: in the end a server that runs, and keeps its node, is chosen
   from, and one that has gone is not, unless the client is dead or an old list
   is left. *)
Stuck == <>dead \/ <>[]~current
RunningIsOffered ==
    \A s \in Servers :
        <>[](server[s] = "running" /\ node[s] # 0) =>
            Stuck \/ <>[](s \in balancer)
GoneLeaves ==
    \A s \in Servers :
        <>[](server[s] = "down") => Stuck \/ <>[](s \notin balancer)

(* Both: the balancer ends up with the servers that run, and only with them. *)
OfferedWhileRunning == RunningIsOffered /\ GoneLeaves

-----------------------------------------------------------------------------
(* What comments say, and the code does not do *)

(* zk_naming_service.h:58: RunNS updates the server list of the method: when
   nothing is left to do, the list is ZooKeeper's. *)
ListIsCurrent == Quiet => ToSet(copy[index]) = Children

(* README.md:16: servers register with ZooKeeper: one that runs, and all of
   whose older sessions have ended, has its node. *)
RunningIsRegistered ==
    \A s \in Servers :
        server[s] = "running"
            /\ (\A n \in 1 .. starts[s] - 1 : <<s, n>> \notin sessions)
            => node[s] # 0
=============================================================================
