--------------------------- MODULE WeightedRandom ---------------------------
(***************************************************************************)
(* WeightedRandomLoadBalancer (src/rpc_proto/                              *)
(* weighted_random_load_balancer.cc), which RpcClientStub::call uses: the  *)
(* tree of LocalityAwareLoadBalancer (WeightTree), whose add_server and    *)
(* remove_server it repeats line by line, with a simpler selection and a   *)
(* Feedback that computes a weight and does not use it.                    *)
(*                                                                         *)
(* A selection takes the node that the dice hits.  Feedback keeps a window *)
(* of the latest answers (_time_q), of which there is here the number: an  *)
(* answer with an error is not entered, but the window is read all the     *)
(* same.                                                                   *)
(***************************************************************************)
EXTENDS WeightTree

CONSTANT Window  \* RECV_QUEUE_SIZE

ASSUME WindowAssumption == Window \in Nat \ {0}

VARIABLES
    answers,   \* the number of entries in _time_q of each server's Weight
    failed     \* history: some Feedback was given an error

varsW == <<vars, answers, failed>>
unfed == <<answers, failed>>

(* The constructor, and the servers of Start added. *)
InitW ==
    /\ Init
    /\ answers = [s \in Servers |-> 0]
    /\ failed = FALSE

-----------------------------------------------------------------------------
(* select_server *)

Begin(c) == BeginSelect(c) /\ UNCHANGED unfed
Cast(c) == Draw(c) /\ UNCHANGED unfed
Left(c) == LoadLeft(c) /\ UNCHANGED unfed

(* The walk goes down to position i with what is left of the dice. *)
Down(c, i, dice) ==
    [call EXCEPT ![c].pc = "left", ![c].at = i, ![c].dice = dice]

(* Mutant: the right child is entered without a look at the end. *)
Right_unchecked(c, i, dice) == Down(c, i, dice)

(* Mutant: failed tries are not counted. *)
Right_uncounted(c, i, dice) ==
    IF i < Len(Buffer(c)) THEN Down(c, i, dice) ELSE Retry_uncounted(c, 1)

(* Past the end of the array on the right, the dice is cast again. *)
Right(c, i, dice) ==
    IF i < Len(Buffer(c)) THEN Down(c, i, dice) ELSE Retry(c, 1)

(* The dice falls to the left of the node, to its right, or on it. *)
Visit(c) ==
    LET i == call[c].at
        dice == call[c].dice
        upTo == call[c].left + weight[Buffer(c)[i + 1]] IN
    /\ At(c, "self")
    /\ \/ dice < call[c].left /\ call' = Down(c, 2 * i + 1, dice)
       \/ /\ dice >= call[c].left /\ dice >= upTo
          /\ call' = Right(c, 2 * i + 2, dice - upTo)
       \/ /\ call[c].left <= dice /\ dice < upTo
          /\ call' = [call EXCEPT ![c] = [NoCall EXCEPT !.pc = "calling",
                                            !.node = Buffer(c)[i + 1]]]
    /\ UNCHANGED <<known, treeVars, sumVars, weightVars, update, adds,
                   modifying, ops, calls, unfed>>

-----------------------------------------------------------------------------
(* Feedback *)

IsKnown(c) == Feedback(c) /\ UNCHANGED unfed
Find(c) == FindServer(c) /\ UNCHANGED unfed

(* elim_push: the latest answer takes the place of the oldest. *)
Enter(n) == IF n < Window THEN n + 1 ELSE n

(* Weight::Update.  A disabled Weight is left alone; an answer that took no
   time is not entered.  An answer with an error is not entered either: there
   may then be no oldest entry to read, or, as it is older than now, a
   division by the number of entries less one. *)
UpdateWeight(c) ==
    LET s == Buffer(c)[call[c].at + 1] IN
    /\ At(c, "update")
    /\ \/ /\ disabled[s]
          /\ call' = [call EXCEPT ![c] = NoCall]
          /\ UNCHANGED <<inflight, unfed>>
       \/ /\ ~disabled[s]
          /\ inflight' = [inflight EXCEPT ![s] = @ - 1]
          /\ \/ /\ call' = [call EXCEPT ![c] = NoCall]
                /\ UNCHANGED unfed
             \/ /\ answers' = [answers EXCEPT ![s] = Enter(@)]
                /\ call' = [call EXCEPT ![c] = NoCall]
                /\ UNCHANGED failed
             \/ /\ failed' = TRUE
                /\ \/ answers[s] < 2 /\ Goto(c, "lost")
                   \/ answers[s] > 0 /\ call' = [call EXCEPT ![c] = NoCall]
                /\ UNCHANGED answers
    /\ UNCHANGED <<known, treeVars, sumVars, weight, disabled, old, update, adds,
                   modifying, ops, calls>>

-----------------------------------------------------------------------------
(* add_server and remove_server: see WeightTree *)

add_server(u, s) == AddServer(u, s) /\ UNCHANGED unfed
remove_server(u, s) == RemoveServer(u, s) /\ UNCHANGED unfed

(* Add: a new Weight has an empty window. *)
Add(u) ==
    LET s == update[u].server IN
    /\ AddNode(u)
    /\ answers' = IF s \in DOMAIN server_map[index] THEN answers
                  ELSE [answers EXCEPT ![s] = 0]
    /\ UNCHANGED failed

RemoveFrom(u) == (RemoveNode(u) \/ RemoveFromNothing(u)) /\ UNCHANGED unfed
SwapLast(u) == MoveLast(u) /\ UNCHANGED unfed

(* The additions of UpdateParentWeight and to the total, one by one. *)
AddUp(u) == AddNext(u) /\ UNCHANGED unfed

(* Mutant: the second copy is left as it is. *)
Modify_once(u) ==
    /\ \/ BeginModify(u)
       \/ /\ Doing(u, "applied")
          /\ index' = 1 - index
          /\ modifying' = None
          /\ update' = [update EXCEPT ![u] = NoUpdate]
          /\ UNCHANGED <<known, tree, server_map, sumVars, weightVars, call,
                         adds, ops, calls>>
    /\ UNCHANGED unfed

(* Modify: both copies are changed, one after the other. *)
Modify(u) ==
    /\ BeginModify(u) \/ Publish(u) \/ WaitReaders(u) \/ EndModify(u)
    /\ UNCHANGED unfed

-----------------------------------------------------------------------------
Calling(c) ==
    \/ Begin(c) \/ Cast(c) \/ Left(c) \/ Visit(c)
    \/ IsKnown(c) \/ Find(c) \/ UpdateWeight(c)

Updating(u) ==
    \/ \E s \in Servers : add_server(u, s) \/ remove_server(u, s)
    \/ Add(u) \/ RemoveFrom(u) \/ SwapLast(u) \/ AddUp(u) \/ Modify(u)

NextW == (\E c \in Callers : Calling(c)) \/ (\E u \in Updaters : Updating(u))

SpecW == InitW /\ [][NextW]_varsW

(* As in WeightTree: threads inside a call are scheduled. *)
FairSpecW ==
    /\ SpecW
    /\ \A c \in Callers :
        WF_varsW(Calling(c) /\ call[c].pc \notin {"idle", "calling"})
    /\ \A u \in Updaters :
        /\ WF_varsW(Updating(u) /\ update[u].pc # "idle")
        /\ SF_varsW(BeginModify(u) /\ UNCHANGED unfed)

-----------------------------------------------------------------------------
(* Properties *)

(* Every variable has its type. *)
TypeOKW ==
    /\ TypeOK
    /\ answers \in [Servers -> 0 .. Window]
    /\ failed \in BOOLEAN

(* Weights are never brought up to date, and a new server gets the quotient of
   the total: whenever nobody changes the tree, all servers have the same
   weight, and the sums are exact also while selections are under way. *)
EqualShares ==
    (modifying = None) =>
        LET t == tree[index] IN
        /\ \A s \in ToSet(t) : weight[s] = Scale
        /\ total_weight = Scale * Len(t)
        /\ \A p \in Places(t) :
            left[p] = Scale * Cardinality({i \in Places(t) :
                                                p \in LeftParents(i)})

(* A thread leaves the array or divides by zero only if servers came and went,
   or if a failed answer was fed back. *)
NobodyIsLost ==
    ops = 0 /\ ~failed => \A c \in Callers : call[c].pc # "lost"

(* Selections, feedbacks and updates return, as long as nobody is lost. *)
CallsReturn ==
    /\ \A c \in Callers :
        call[c].pc \notin {"idle", "calling"} ~>
            call[c].pc \in {"idle", "calling", "lost"}
    /\ \A u \in Updaters :
        update[u].pc # "idle" ~>
            \/ update[u].pc = "idle"
            \/ \E c \in Callers : call[c].pc = "lost"
=============================================================================
