----------------------------- MODULE WeightTree -----------------------------
(***************************************************************************)
(* The weight tree of LocalityAwareLoadBalancer                            *)
(* (src/rpc_proto/locality_aware_load_balancer.cc): a complete binary tree *)
(* of servers in an array, two copies of it in a DoublyBufferedData, and,  *)
(* shared by the copies, the weight of each server, the sum of the weights *)
(* to the left of each position and the total.                             *)
(*                                                                         *)
(* Callers select a server, call it and feed the outcome back; updaters    *)
(* add and remove servers.  Every load and every fetch_add of a shared     *)
(* number is a step of its own; a critical section of Weight::_mutex is    *)
(* one step.  Of DoublyBufferedData there is what DoublyBuffered proves:   *)
(* a reader holds the copy that is current when it begins, and a writer    *)
(* changes the other one when nobody holds it.                             *)
(*                                                                         *)
(* What a weight becomes depends on clocks and latencies: it is any member *)
(* of Weights.  A thread that reads past the end of the array, or from the *)
(* end of the map, is lost: its further behaviour is undefined.            *)
(***************************************************************************)
EXTENDS Integers, SequencesExt, FiniteSets, FiniteSetsExt

CONSTANTS
    Servers,   \* names of servers
    Start,     \* the servers in the tree at first, all of weight Scale
    Callers,   \* threads that select servers and feed back
    Updaters,  \* threads that add and remove servers
    None,      \* no server, no thread, no copy
    Weights,   \* what ResetWeight may set a weight to
    Scale,     \* WEIGHT_SCALE: the weight of the first server
    MaxOps,    \* bound: calls of add_server and remove_server
    MaxCalls   \* bound: calls of select_server

Positions == 0 .. Cardinality(Servers) - 1

ASSUME ServersAssumption ==
    IsFiniteSet(Servers) /\ Start \in Seq(Servers) /\ IsInjective(Start)
ASSUME WeightsAssumption ==
    /\ Scale \in Weights /\ Weights \subseteq Nat \ {0}
    /\ MaxOps \in Nat /\ MaxCalls \in Nat
ASSUME NoneAssumption ==
    /\ None \notin Servers \cup Updaters \cup Positions \cup {0, 1}
    /\ Callers \cap Updaters = {}

VARIABLES
    known,         \* the keys of server_map_
    tree,          \* weight_tree of each copy, as names of servers
    server_map,    \* server_map of each copy
    index,         \* which copy is in the foreground
    left,          \* ServerInfo::left, by position
    total_weight,  \* total_weight_
    weight,        \* Weight::_weight
    disabled,      \* Weight::Disabled()
    old,           \* Weight::_old_index, _old_diff_sum and _old_weight
    inflight,      \* Weight::_begin_time_count
    call,          \* the locals of each caller
    update,        \* the locals of each updater
    adds,          \* the additions that each thread has still to make
    modifying,     \* the owner of _modify_mutex
    ops, calls     \* calls so far

treeVars == <<tree, server_map, index>>
weightVars == <<weight, disabled, old, inflight>>
sumVars == <<left, total_weight>>
vars == <<known, treeVars, sumVars, weightVars, call, update, adds, modifying,
          ops, calls>>

NotOld == [index |-> None, diff |-> 0, weight |-> 0]
NoCall == [pc |-> "idle", buf |-> None, tries |-> 0, dice |-> 0, at |-> 0,
           left |-> 0, node |-> None]
NoUpdate == [pc |-> "idle", op |-> "add", server |-> None, phase |-> 0,
             at |-> 0, rm |-> 0]

-----------------------------------------------------------------------------
(* Positions: the children of i are 2i + 1 and 2i + 2. *)

WithAncestors(i) ==
    {a \in 0 .. i : \E k \in 0 .. i + 1 : a = ((i + 1) \div 2^k) - 1}

(* The positions whose left subtree i is in. *)
LeftParents(i) == {p \in 0 .. i : 2 * p + 1 \in WithAncestors(i)}

SumOf(t, S) == MapThenSumSet(LAMBDA i : weight[t[i + 1]], S)
Places(t) == 0 .. Len(t) - 1

(* UpdateParentWeight: a fetch_add at each such position, from i upwards. *)
Total == -1
UpdateParentWeight(diff, i) ==
    IF diff = 0 \/ LeftParents(i) = {} THEN << >>
    ELSE << <<LeftParents(i), diff>> >>
UpdateTotal(diff) == IF diff = 0 THEN << >> ELSE << <<{Total}, diff>> >>
UpdateSums(diff, i) == UpdateParentWeight(diff, i) \o UpdateTotal(diff)

(* A thread's additions without one at position p, which is the next. *)
WithoutNext(more, p) ==
    LET rest == Head(more)[1] \ {p} IN
    IF rest = {} THEN Tail(more)
    ELSE << <<rest, Head(more)[2]>> >> \o Tail(more)

(* The next of a thread's additions. *)
AddNext(t) ==
    /\ adds[t] # << >>
    /\ LET diff == Head(adds[t])[2] IN
        \E p \in Head(adds[t])[1] :
            /\ \A q \in Head(adds[t])[1] : q <= p
            /\ \/ p = Total /\ total_weight' = total_weight + diff
                    /\ UNCHANGED left
               \/ p # Total /\ left' = [left EXCEPT ![p] = @ + diff]
                    /\ UNCHANGED total_weight
            /\ adds' = [adds EXCEPT ![t] = WithoutNext(@, p)]
    /\ UNCHANGED <<known, treeVars, weightVars, call, update, modifying, ops,
                   calls>>

Init ==
    /\ known = ToSet(Start)
    /\ tree = [b \in {0, 1} |-> Start]
    /\ server_map = [b \in {0, 1} |->
                        [s \in ToSet(Start) |->
                            CHOOSE i \in Places(Start) : Start[i + 1] = s]]
    /\ index = 0
    /\ weight = [s \in Servers |-> IF s \in ToSet(Start) THEN Scale ELSE 0]
    /\ left = [p \in Positions |->
                Scale * Cardinality({i \in Places(Start) :
                                        p \in LeftParents(i)})]
    /\ total_weight = Scale * Len(Start)
    /\ disabled = [s \in Servers |-> FALSE]
    /\ old = [s \in Servers |-> NotOld]
    /\ inflight = [s \in Servers |-> 0]
    /\ call = [c \in Callers |-> NoCall]
    /\ update = [u \in Updaters |-> NoUpdate]
    /\ adds = [t \in Callers \cup Updaters |-> << >>]
    /\ modifying = None
    /\ ops = 0 /\ calls = 0

-----------------------------------------------------------------------------
(* Weight.  A thread that uses the server's place before its move, while the
   move is under way, notes the change for the updater that makes it. *)

(* Mutant: the change is not noted. *)
ResetWeight_unnoted(s, i, w) ==
    /\ weight' = [weight EXCEPT ![s] = w]
    /\ UNCHANGED old

ResetWeight(s, i, w) ==
    LET diff == w - weight[s] IN
    /\ weight' = [weight EXCEPT ![s] = w]
    /\ old' = IF old[s].index = i
              THEN [old EXCEPT ![s].diff = @ + diff] ELSE old

(* Mutant: the place is marked as if the last node had not been popped. *)
MarkOld_before_pop(s, i) ==
    /\ old' = [old EXCEPT ![s] =
                [index |-> i + 1, diff |-> 0, weight |-> weight[s]]]
    /\ UNCHANGED <<weight, disabled, inflight>>

MarkOld(s, i) ==
    /\ old' = [old EXCEPT ![s] =
                [index |-> i, diff |-> 0, weight |-> weight[s]]]
    /\ UNCHANGED <<weight, disabled, inflight>>

ClearOld(s) ==
    /\ old' = [old EXCEPT ![s] = NotOld]
    /\ UNCHANGED <<weight, disabled, inflight>>

Disable(s) ==
    /\ weight' = [weight EXCEPT ![s] = 0]
    /\ disabled' = [disabled EXCEPT ![s] = TRUE]
    /\ UNCHANGED <<old, inflight>>

(* Weight::Weight; a negative initial weight is a disabled one. *)
NewWeight(s, w) ==
    /\ weight' = [weight EXCEPT ![s] = w]
    /\ disabled' = [disabled EXCEPT ![s] = w < 0]
    /\ old' = [old EXCEPT ![s] = NotOld]
    /\ inflight' = [inflight EXCEPT ![s] = 0]

-----------------------------------------------------------------------------
(* select_server *)

At(c, pc) == call[c].pc = pc /\ adds[c] = << >>
Goto(c, pc) == call' = [call EXCEPT ![c].pc = pc]
Buffer(c) == tree[call[c].buf]

BeginSelect(c) ==
    /\ At(c, "idle")
    /\ calls < MaxCalls
    /\ calls' = calls + 1
    /\ call' = [call EXCEPT ![c] = [NoCall EXCEPT !.pc = "draw", !.buf = index]]
    /\ UNCHANGED <<known, treeVars, sumVars, weightVars, update, adds,
                   modifying, ops>>

(* The total is loaded, and the dice is between 1 and it.  Below 1 the
   distribution of getRand has no range and its number may be any; nobody uses
   it, as the loop's condition is false. *)
Draw(c) ==
    /\ At(c, "draw")
    /\ \/ \E dice \in 1 .. total_weight :
            call' = [call EXCEPT ![c] =
                        [@ EXCEPT !.pc = "left", !.dice = dice, !.at = 0]]
       \/ total_weight <= 0 /\ call' = [call EXCEPT ![c] = NoCall]
    /\ UNCHANGED <<known, treeVars, sumVars, weightVars, update, adds,
                   modifying, ops, calls>>

(* node.left: past the end of the array there is no node. *)
LoadLeft(c) ==
    /\ At(c, "left")
    /\ IF call[c].at < Len(Buffer(c))
       THEN call' = [call EXCEPT ![c].pc = "self",
                                 ![c].left = left[call[c].at]]
       ELSE Goto(c, "lost")
    /\ UNCHANGED <<known, treeVars, sumVars, weightVars, update, adds,
                   modifying, ops, calls>>

(* Mutant: failed tries are not counted. *)
Retry_uncounted(c, n) ==
    [call EXCEPT ![c] = [NoCall EXCEPT !.pc = "draw", !.buf = call[c].buf]]

(* One more failed try, or n of them; then another draw. *)
Retry(c, n) ==
    IF call[c].tries + n >= Len(Buffer(c))
    THEN [call EXCEPT ![c] = NoCall]
    ELSE [call EXCEPT ![c] = [NoCall EXCEPT !.pc = "draw",
                                !.buf = call[c].buf,
                                !.tries = call[c].tries + n]]

(* node.weight->volatile_value(), and the branch that the dice takes. *)
LoadSelf(c) ==
    LET i == call[c].at
        dice == call[c].dice
        upTo == call[c].left + weight[Buffer(c)[i + 1]] IN
    /\ At(c, "self")
    /\ \/ /\ dice < call[c].left
          /\ call' = [call EXCEPT ![c].pc = "left", ![c].at = 2 * i + 1]
       \/ /\ dice >= call[c].left /\ dice >= upTo
          /\ call' = IF 2 * i + 2 < Len(Buffer(c))
                     THEN [call EXCEPT ![c].pc = "left", ![c].at = 2 * i + 2,
                                       ![c].dice = dice - upTo]
                     ELSE Retry(c, 1)
       \/ /\ call[c].left <= dice /\ dice < upTo
          /\ call' = [call EXCEPT ![c].pc = "inflight",
                                  ![c].dice = dice - call[c].left]
    /\ UNCHANGED <<known, treeVars, sumVars, weightVars, update, adds,
                   modifying, ops, calls>>

(* AddInflight, under Weight::_mutex: the weight is brought up to date, and
   may have become too small for the dice. *)
AddInflight(c) ==
    LET i == call[c].at
        s == Buffer(c)[i + 1] IN
    /\ At(c, "inflight")
    /\ \/ /\ disabled[s]
          /\ Goto(c, "refused")
          /\ UNCHANGED <<weightVars, adds>>
       \/ \E w \in Weights :
            /\ ~disabled[s]
            /\ ResetWeight(s, i, w)
            /\ adds' = [adds EXCEPT ![c] = UpdateSums(w - weight[s], i)]
            /\ \/ /\ w < call[c].dice
                  /\ Goto(c, "refused")
                  /\ UNCHANGED inflight
               \/ /\ w >= call[c].dice
                  /\ inflight' = [inflight EXCEPT ![s] = @ + 1]
                  /\ call' = [call EXCEPT ![c].pc = "chosen", ![c].node = s]
            /\ UNCHANGED disabled
    /\ UNCHANGED <<known, treeVars, sumVars, update, modifying, ops, calls>>

(* The sums are up to date: select_server returns, or tries again. *)
EndInflight(c) ==
    /\ \/ At(c, "refused") /\ call' = Retry(c, 2)
       \/ At(c, "chosen")
            /\ call' = [call EXCEPT ![c] =
                        [NoCall EXCEPT !.pc = "calling", !.node = call[c].node]]
    /\ UNCHANGED <<known, treeVars, sumVars, weightVars, update, adds,
                   modifying, ops, calls>>

-----------------------------------------------------------------------------
(* Feedback, after the call *)

(* Line 331, without server_map_mutex_. *)
Feedback(c) ==
    /\ At(c, "calling")
    /\ IF call[c].node \in known
       THEN Goto(c, "feedback")
       ELSE call' = [call EXCEPT ![c] = NoCall]
    /\ UNCHANGED <<known, treeVars, sumVars, weightVars, update, adds,
                   modifying, ops, calls>>

(* Lines 335-340: find may return the end of the map. *)
FindServer(c) ==
    LET m == server_map[index]
        s == call[c].node IN
    /\ At(c, "feedback")
    /\ IF s \in DOMAIN m /\ m[s] < Len(tree[index])
       THEN call' = [call EXCEPT ![c].pc = "update", ![c].buf = index,
                                 ![c].at = m[s]]
       ELSE call' = [call EXCEPT ![c].pc = "lost", ![c].buf = index]
    /\ UNCHANGED <<known, treeVars, sumVars, weightVars, update, adds,
                   modifying, ops, calls>>

(* Weight::Update, under its mutex; it may leave the weight as it is.  An error
   that is fed back finds the window empty (line 285) or with one sample (the
   division of line 300): then the caller is lost. *)
Update(c) ==
    LET i == call[c].at
        s == Buffer(c)[i + 1] IN
    /\ At(c, "update")
    /\ \/ disabled[s] /\ UNCHANGED <<weightVars, adds>> /\ Goto(c, "fed")
       \/ \E w \in Weights \cup {weight[s]} :
            /\ ~disabled[s]
            /\ ResetWeight(s, i, w)
            /\ adds' = [adds EXCEPT ![c] = UpdateSums(w - weight[s], i)]
            /\ inflight' = [inflight EXCEPT ![s] = @ - 1]
            /\ UNCHANGED disabled
            /\ Goto(c, "fed") \/ (w = weight[s] /\ Goto(c, "lost"))
    /\ UNCHANGED <<known, treeVars, sumVars, update, modifying, ops, calls>>

EndFeedback(c) ==
    /\ At(c, "fed")
    /\ call' = [call EXCEPT ![c] = NoCall]
    /\ UNCHANGED <<known, treeVars, sumVars, weightVars, update, adds,
                   modifying, ops, calls>>

-----------------------------------------------------------------------------
(* add_server and remove_server *)

Doing(u, pc) == update[u].pc = pc /\ adds[u] = << >>

(* The lookup in server_map_, under its mutex; a server that is there already,
   or not there any more, is left alone. *)
AddServer(u, s) ==
    /\ Doing(u, "idle")
    /\ ops < MaxOps
    /\ s \notin known
    /\ known' = known \cup {s}
    /\ ops' = ops + 1
    /\ update' = [update EXCEPT ![u] =
                    [NoUpdate EXCEPT !.pc = "wait", !.op = "add", !.server = s]]
    /\ UNCHANGED <<treeVars, sumVars, weightVars, call, adds, modifying, calls>>

RemoveServer(u, s) ==
    /\ Doing(u, "idle")
    /\ ops < MaxOps
    /\ s \in known
    /\ known' = known \ {s}
    /\ ops' = ops + 1
    /\ update' = [update EXCEPT ![u] =
                    [NoUpdate EXCEPT !.pc = "wait", !.op = "remove",
                                     !.server = s]]
    /\ UNCHANGED <<treeVars, sumVars, weightVars, call, adds, modifying, calls>>

BeginModify(u) ==
    /\ Doing(u, "wait")
    /\ modifying = None
    /\ modifying' = u
    /\ update' = [update EXCEPT ![u].pc = "apply"]
    /\ UNCHANGED <<known, treeVars, sumVars, weightVars, call, adds, ops, calls>>

(* Division of C++ truncates. *)
Quotient(a, n) == IF a < 0 THEN -((-a) \div n) ELSE a \div n

(* Mutant: a new server weighs nothing as long as nobody has selected it. *)
InitialWeight_unset(n) == IF n = 0 THEN Scale ELSE 0

(* The weight of a new server: the average of the n that are there, if the
   total is that of their weights. *)
InitialWeight(n) == IF n = 0 THEN Scale ELSE Quotient(total_weight, n)

(* The map with s at position i. *)
Put(m, s, i) == [x \in DOMAIN m \cup {s} |-> IF x = s THEN i ELSE m[x]]

(* Add: a new node in the first copy, the same node in the second. *)
AddNode(u) ==
    LET bg == 1 - index
        s == update[u].server
        n == Len(tree[bg])
        isNew == s \notin DOMAIN server_map[index] IN
    /\ Doing(u, "apply") /\ update[u].op = "add"
    /\ tree' = [tree EXCEPT ![bg] = Append(@, s)]
    /\ server_map' = [server_map EXCEPT ![bg] =
                        Put(@, s, IF isNew THEN n ELSE server_map[index][s])]
    /\ IF isNew
       THEN /\ NewWeight(s, InitialWeight(n))
            /\ left' = [left EXCEPT ![n] = 0]
            /\ adds' = [adds EXCEPT ![u] = UpdateSums(InitialWeight(n), n)]
       ELSE UNCHANGED <<left, weightVars, adds>>
    /\ update' = [update EXCEPT ![u].pc = "applied"]
    /\ UNCHANGED <<known, index, total_weight, call, modifying, ops, calls>>

(* Mutant: the map still has the moved server at its old place. *)
Without_unmoved(m, s, t, i) == Restrict(m, DOMAIN m \ {s})

(* The map without s, t having moved to i. *)
Without(m, s, t, i) == Put(Restrict(m, DOMAIN m \ {s}), t, i)

(* Remove, lines 50-68: operator[] takes a missing server to be at 0.  If the
   node is not the last one, the last one moves to its place. *)
RemoveNode(u) ==
    LET bg == 1 - index
        s == update[u].server
        m == server_map[bg]
        i == IF s \in DOMAIN m THEN m[s] ELSE 0
        end == Len(tree[bg]) - 1
        rm == weight[tree[bg][i + 1]] IN
    /\ Doing(u, "apply") /\ update[u].op = "remove"
    /\ i <= end
    /\ Disable(tree[bg][i + 1])
    /\ \/ /\ i = end
          /\ tree' = [tree EXCEPT ![bg] = Front(@)]
          /\ server_map' = [server_map EXCEPT ![bg] =
                                Restrict(m, DOMAIN m \ {s})]
          /\ adds' = [adds EXCEPT ![u] = UpdateSums(-rm, i)]
          /\ update' = [update EXCEPT ![u].pc = "applied"]
       \/ /\ i < end
          /\ tree' = [tree EXCEPT ![bg] =
                        Front([@ EXCEPT ![i + 1] = Last(tree[bg])])]
          /\ server_map' = [server_map EXCEPT ![bg] =
                                Without(m, s, Last(tree[bg]), i)]
          /\ update' = [update EXCEPT ![u] = [@ EXCEPT !.pc = "move",
                                            !.at = i, !.rm = rm]]
          /\ UNCHANGED adds
    /\ UNCHANGED <<known, index, sumVars, call, modifying, ops, calls>>

(* Undefined behaviour: there is no node at all. *)
RemoveFromNothing(u) ==
    /\ Doing(u, "apply") /\ update[u].op = "remove"
    /\ tree[1 - index] = << >>
    /\ update' = [update EXCEPT ![u].pc = "lost"]
    /\ UNCHANGED <<known, treeVars, sumVars, weightVars, call, adds, modifying,
                   ops, calls>>

(* Lines 69-95.  The weight just removed tells the first copy from the second:
   in the second one it is 0 already.  At the first, the moved weight is also
   counted at its new place; at the second, what callers changed meanwhile is
   carried over, and the old place is cleared. *)
MoveLast(u) ==
    LET bg == 1 - index
        i == update[u].at
        end == Len(tree[bg])
        s == tree[bg][i + 1]
        rm == update[u].rm IN
    /\ Doing(u, "move")
    /\ \/ /\ rm # 0
          /\ MarkOld(s, end)
          /\ adds' = [adds EXCEPT ![u] = UpdateSums(weight[s] - rm, i)]
       \/ /\ rm = 0
          /\ ClearOld(s)
          /\ adds' = [adds EXCEPT ![u] =
                UpdateParentWeight(old[s].diff, i)
                \o UpdateParentWeight(-old[s].weight - old[s].diff, end)
                \o UpdateTotal(-old[s].weight)]
    /\ update' = [update EXCEPT ![u].pc = "applied"]
    /\ UNCHANGED <<known, treeVars, sumVars, call, modifying, ops, calls>>

(* Modify: the other copy becomes the current one, *)
Publish(u) ==
    /\ Doing(u, "applied") /\ update[u].phase = 0
    /\ index' = 1 - index
    /\ update' = [update EXCEPT ![u].pc = "readers"]
    /\ UNCHANGED <<known, tree, server_map, sumVars, weightVars, call, adds,
                   modifying, ops, calls>>

(* Mutant: the other copy is changed under its readers. *)
WaitReaders_not(u) ==
    /\ Doing(u, "readers")
    /\ update' = [update EXCEPT ![u].pc = "apply", ![u].phase = 1]
    /\ UNCHANGED <<known, treeVars, sumVars, weightVars, call, adds, modifying,
                   ops, calls>>

(* nobody holds the old one any more, *)
WaitReaders(u) ==
    /\ Doing(u, "readers")
    /\ \A c \in Callers : call[c].buf # 1 - index
    /\ update' = [update EXCEPT ![u].pc = "apply", ![u].phase = 1]
    /\ UNCHANGED <<known, treeVars, sumVars, weightVars, call, adds, modifying,
                   ops, calls>>

(* and, both changed, the mutex is released. *)
EndModify(u) ==
    /\ Doing(u, "applied") /\ update[u].phase = 1
    /\ modifying' = None
    /\ update' = [update EXCEPT ![u] = NoUpdate]
    /\ UNCHANGED <<known, treeVars, sumVars, weightVars, call, adds, ops, calls>>

-----------------------------------------------------------------------------
Caller(c) ==
    \/ BeginSelect(c) \/ Draw(c) \/ LoadLeft(c) \/ LoadSelf(c)
    \/ AddInflight(c) \/ EndInflight(c) \/ AddNext(c)
    \/ Feedback(c) \/ FindServer(c) \/ Update(c) \/ EndFeedback(c)

Updater(u) ==
    \/ \E s \in Servers : AddServer(u, s) \/ RemoveServer(u, s)
    \/ BeginModify(u) \/ AddNode(u) \/ RemoveNode(u) \/ RemoveFromNothing(u)
    \/ MoveLast(u) \/ Publish(u) \/ WaitReaders(u) \/ EndModify(u)
    \/ AddNext(u)

Next == (\E c \in Callers : Caller(c)) \/ (\E u \in Updaters : Updater(u))

Spec == Init /\ [][Next]_vars

(* A thread that is in one of the four calls is scheduled, and obtains
   _modify_mutex at some time if it is free again and again.  Nobody has to
   begin a call or to get an answer. *)
Fairness ==
    /\ \A c \in Callers :
        WF_vars(Caller(c) /\ call[c].pc \notin {"idle", "calling"})
    /\ \A u \in Updaters :
        /\ WF_vars(Updater(u) /\ update[u].pc # "idle")
        /\ SF_vars(BeginModify(u))

FairSpec == Spec /\ Fairness

-----------------------------------------------------------------------------
(* Properties *)

(* Every variable has its type. *)
Lookups == UNION {[S -> Positions] : S \in SUBSET Servers}
TypeOK ==
    /\ known \in SUBSET Servers
    /\ tree \in [{0, 1} -> Seq(Servers)]
    /\ server_map \in [{0, 1} -> Lookups]
    /\ index \in {0, 1}
    /\ left \in [Positions -> Int] /\ total_weight \in Int
    /\ weight \in [Servers -> Int]
    /\ disabled \in [Servers -> BOOLEAN]
    /\ old \in [Servers -> [index : Positions \cup {None}, diff : Int,
                            weight : Int]]
    /\ inflight \in [Servers -> Int]
    /\ \A t \in DOMAIN adds : \A k \in DOMAIN adds[t] :
            adds[t][k] \in (SUBSET (Positions \cup {Total})) \X (Int \ {0})
    /\ modifying \in Updaters \cup {None}

(* Nobody is inside select_server, Feedback, add_server or remove_server. *)
Quiet ==
    /\ \A c \in Callers : call[c].pc \in {"idle", "calling"}
    /\ \A u \in Updaters : update[u].pc = "idle"

(* Whatever was interleaved, when nobody is at work the sums are right again:
   each left sum is that of the weights in the left subtree, and the total is
   that of all. *)
SumsSettle ==
    Quiet =>
        /\ total_weight = SumOf(tree[index], Places(tree[index]))
        /\ \A p \in Places(tree[index]) :
            left[p] = SumOf(tree[index],
                        {i \in Places(tree[index]) : p \in LeftParents(i)})

(* Line 69 tells the first pass of Remove from the second by the weight that it
   takes away: a server that is to be removed weighs something, also one that
   was added while callers moved the total from which line 35 computes its
   weight, and that nobody, or somebody, has selected since. *)
RemovedWeigh ==
    \A u \in Updaters :
        update[u].pc = "apply" /\ update[u].op = "remove" /\ update[u].phase = 0
            => weight[update[u].server] # 0

(* While nobody changes the tree, both copies hold the known servers, each
   once and where its map says. *)
TreeIsKnown ==
    (\A u \in Updaters : update[u].pc = "idle") =>
        /\ tree[0] = tree[1] /\ server_map[0] = server_map[1]
        /\ IsInjective(tree[0]) /\ ToSet(tree[0]) = known
        /\ DOMAIN server_map[0] = known
        /\ \A s \in known :
            /\ server_map[0][s] \in Places(tree[0])
            /\ tree[0][server_map[0][s] + 1] = s

(* A caller's copy of the tree does not change in its hands. *)
HeldCopyStands ==
    [][\A c \in Callers :
        call[c].buf # None => tree'[call[c].buf] = tree[call[c].buf]
                              /\ server_map'[call[c].buf]
                                    = server_map[call[c].buf]]_vars

(* A selection ends, however often the dice misses because weights move, and so
   does the feedback after the call; with a caller that is lost they have ended
   too. *)
Selecting == {"draw", "left", "self", "inflight", "refused", "chosen"}
Feeding == {"feedback", "update", "fed"}
CallerEnds ==
    \A c \in Callers :
        /\ call[c].pc \in Selecting ~> call[c].pc \notin Selecting
        /\ call[c].pc \in Feeding ~> call[c].pc \notin Feeding

(* add_server and remove_server return, whatever the callers do, unless
   somebody is lost. *)
UpdateEnds ==
    \A u \in Updaters :
        update[u].pc # "idle" ~>
            \/ update[u].pc = "idle"
            \/ \E v \in Updaters : update[v].pc = "lost"
            \/ \E c \in Callers : call[c].pc = "lost"

(* Both: every call of the balancer ends, or somebody is lost in it. *)
CallsEnd == CallerEnds /\ UpdateEnds

-----------------------------------------------------------------------------
(* What comments and docs say, and the code does not do *)

(* locality_aware_load_balancer.h:19: the search copes with sums that are out
   of step, and the tree is safe to read: the walk stays in the tree. *)
WalkStaysInTree ==
    \A c \in Callers : call[c].pc = "left" => call[c].at < Len(Buffer(c))
=============================================================================
