--------------------------- MODULE WeightTree_proofs --------------------------
(***************************************************************************)
(* What WeightTree and WeightedRandom state, for every number of servers   *)
(* and callers and every set of weights: what a caller holds of the tree   *)
(* stands still, both copies are again the known servers after every       *)
(* operation, a server that got a weight weighs something until it is      *)
(* removed, the sums are right when everybody has returned, and            *)
(* WeightedRandom gives each server the same share.                        *)
(***************************************************************************)
EXTENDS WeightedRandom, SequenceTheorems, FiniteSetTheorems,
        WellFoundedInduction, TLAPS

(* The hypothesis of what is said about add_server and remove_server: one
   thread calls them.  In the program it is the one that has the
   _modify_mutex_ of the naming service (Discovery). *)
OneUpdater == \E u : Updaters = {u}

CallFields == {"pc", "buf", "tries", "dice", "at", "left", "node"}
UpdateFields == {"pc", "op", "server", "phase", "at", "rm"}

(* The updater that changes a copy owns the mutex, and the copy that it
   changes is held by nobody: one that is held is in the foreground, or has
   just left it. *)
HeldInv ==
    /\ index \in {0, 1} /\ modifying \in Updaters \cup {None}
    /\ DOMAIN tree = {0, 1} /\ DOMAIN server_map = {0, 1}
    /\ DOMAIN call = Callers /\ DOMAIN update = Updaters
    /\ \A c \in Callers :
        /\ DOMAIN call[c] = CallFields
        /\ call[c].buf \in {0, 1, None}
        /\ call[c].buf # None /\ call[c].buf = 1 - index =>
            \E u \in Updaters : update[u].pc = "readers"
    /\ \A u \in Updaters :
        /\ DOMAIN update[u] = UpdateFields
        /\ update[u].pc \in {"apply", "move", "applied", "readers", "lost"}
            => modifying = u

-----------------------------------------------------------------------------
(* What a caller's step does to what it holds. *)
CallerStep(c) ==
    /\ UNCHANGED <<known, tree, server_map, index, update, modifying>>
    /\ DOMAIN call' = Callers
    /\ \A d \in Callers \ {c} : call'[d] = call[d]
    /\ DOMAIN call'[c] = CallFields
    /\ call'[c].buf \in {call[c].buf, index, None}

LEMMA NoCallFields ==
  /\ DOMAIN NoCall = CallFields /\ NoCall.buf = None /\ NoCall.pc = "idle"
  /\ NoCall.at = 0
  BY DEF NoCall, CallFields

(* A call that ends, or tries again. *)
LEMMA RetryStep ==
  ASSUME HeldInv, NEW c \in Callers, NEW n, call' = Retry(c, n)
  PROVE  /\ DOMAIN call' = Callers
         /\ \A d \in Callers \ {c} : call'[d] = call[d]
         /\ DOMAIN call'[c] = CallFields
         /\ call'[c].buf \in {call[c].buf, None}
         /\ call'[c].pc \in {"idle", "draw"} /\ call'[c].at = 0
<1>1. CASE call[c].tries + n >= Len(Buffer(c))
  BY <1>1, NoCallFields DEF Retry, HeldInv
<1>2. CASE ~(call[c].tries + n >= Len(Buffer(c)))
  <2> DEFINE r == [NoCall EXCEPT !.pc = "draw", !.buf = call[c].buf,
                                 !.tries = call[c].tries + n]
  <2>1. /\ DOMAIN r = CallFields /\ r.buf = call[c].buf /\ r.pc = "draw"
        /\ r.at = 0
    BY DEF NoCall, CallFields
  <2>2. call' = [call EXCEPT ![c] = r]
    BY <1>2 DEF Retry
  <2> HIDE DEF r
  <2> QED
    BY <2>1, <2>2 DEF HeldInv
<1> QED
  BY <1>1, <1>2

LEMMA CallerSteps ==
  ASSUME HeldInv, NEW c \in Callers, Caller(c)
  PROVE  CallerStep(c)
<1> USE DEF CallerStep, treeVars
<1>1. CASE BeginSelect(c)
  BY <1>1, NoCallFields DEF BeginSelect, HeldInv, NoCall, CallFields
<1>2. CASE Draw(c)
  <2>1. CASE call' = [call EXCEPT ![c] = NoCall]
    BY <1>2, <2>1, NoCallFields DEF Draw, HeldInv
  <2>2. ASSUME NEW dice, call' = [call EXCEPT ![c] =
                    [@ EXCEPT !.pc = "left", !.dice = dice, !.at = 0]]
        PROVE  CallerStep(c)
    BY <1>2, <2>2 DEF Draw, HeldInv, CallFields
  <2> QED
    BY <1>2, <2>1, <2>2 DEF Draw
<1>3. CASE LoadLeft(c)
  BY <1>3 DEF LoadLeft, Goto, HeldInv, CallFields
<1>4. CASE LoadSelf(c)
  <2>1. CASE call' = Retry(c, 1)
    BY <1>4, <2>1, RetryStep DEF LoadSelf
  <2>2. CASE call' # Retry(c, 1)
    BY <1>4, <2>2 DEF LoadSelf, HeldInv, CallFields
  <2> QED
    BY <2>1, <2>2
<1>5. CASE AddInflight(c)
  BY <1>5 DEF AddInflight, Goto, HeldInv, CallFields
<1>6. CASE EndInflight(c)
  <2>1. CASE call' = Retry(c, 2)
    BY <1>6, <2>1, RetryStep DEF EndInflight
  <2>2. CASE call' # Retry(c, 2)
    <3> DEFINE r == [NoCall EXCEPT !.pc = "calling", !.node = call[c].node]
    <3>1. DOMAIN r = CallFields /\ r.buf = None
      BY DEF NoCall, CallFields
    <3>2. call' = [call EXCEPT ![c] = r]
      BY <1>6, <2>2 DEF EndInflight
    <3> HIDE DEF r
    <3> QED
      BY <1>6, <3>1, <3>2 DEF EndInflight, HeldInv
  <2> QED
    BY <2>1, <2>2
<1>7. CASE AddNext(c)
  BY <1>7 DEF AddNext, HeldInv
<1>8. CASE Feedback(c) \/ FindServer(c) \/ Update(c) \/ EndFeedback(c)
  BY <1>8, NoCallFields DEF Feedback, FindServer, Update, EndFeedback, Goto,
                            HeldInv, CallFields
<1> QED
  BY <1>1, <1>2, <1>3, <1>4, <1>5, <1>6, <1>7, <1>8 DEF Caller

(* What an updater's step does to the copies. *)
LEMMA CallerHeld ==
  ASSUME HeldInv, NEW c \in Callers, CallerStep(c)
  PROVE  /\ HeldInv'
         /\ \A d \in Callers : call[d].buf # None =>
                /\ tree'[call[d].buf] = tree[call[d].buf]
                /\ server_map'[call[d].buf] = server_map[call[d].buf]
<1>1. ASSUME NEW d \in Callers
      PROVE  /\ DOMAIN call'[d] = CallFields /\ call'[d].buf \in {0, 1, None}
             /\ call'[d].buf # None /\ call'[d].buf = 1 - index' =>
                    \E u \in Updaters : update'[u].pc = "readers"
  BY DEF HeldInv, CallerStep
<1> QED
  BY <1>1 DEF HeldInv, CallerStep

(* A copy in the background that nobody holds is changed, or none is. *)
UpdaterStep(u) ==
    /\ UNCHANGED call
    /\ DOMAIN update' = Updaters
    /\ \A v \in Updaters \ {u} : update'[v] = update[v]
    /\ DOMAIN update'[u] = UpdateFields
    /\ UNCHANGED <<index, modifying>>
    /\ DOMAIN tree' = {0, 1} /\ DOMAIN server_map' = {0, 1}
    /\ \/ update[u].pc = update'[u].pc /\ UNCHANGED <<tree, server_map>>
       \/ /\ update[u].pc = "idle" /\ update'[u].pc = "wait"
          /\ UNCHANGED <<tree, server_map>>
       \/ /\ update[u].pc \in {"apply", "move"} /\ update'[u].pc # "readers"
          /\ tree'[index] = tree[index]
          /\ server_map'[index] = server_map[index]

LEMMA NoUpdateFields ==
  DOMAIN NoUpdate = UpdateFields /\ NoUpdate.pc = "idle"
  BY DEF NoUpdate, UpdateFields

(* RemoveNode, of the copy t with the map m: server s is at i. *)
Removing(u, t, m, s, i, rm) ==
    /\ Doing(u, "apply") /\ update[u].op = "remove" /\ i <= Len(t) - 1
    /\ Disable(t[i + 1])
    /\ \/ /\ i = Len(t) - 1
          /\ tree' = [tree EXCEPT ![1 - index] = Front(t)]
          /\ server_map' = [server_map EXCEPT ![1 - index] =
                                Restrict(m, DOMAIN m \ {s})]
          /\ adds' = [adds EXCEPT ![u] = UpdateSums(-rm, i)]
          /\ update' = [update EXCEPT ![u].pc = "applied"]
       \/ /\ i < Len(t) - 1
          /\ tree' = [tree EXCEPT ![1 - index] =
                        Front([t EXCEPT ![i + 1] = Last(t)])]
          /\ server_map' = [server_map EXCEPT ![1 - index] =
                                Without(m, s, Last(t), i)]
          /\ update' = [update EXCEPT ![u] = [@ EXCEPT !.pc = "move",
                                                    !.at = i, !.rm = rm]]
          /\ UNCHANGED adds
    /\ UNCHANGED <<known, index, total_weight, left, call, modifying, ops,
                   calls>>

RemovedAt(u) ==
    LET m == server_map[1 - index]
        s == update[u].server IN
    IF s \in DOMAIN m THEN m[s] ELSE 0

LEMMA RemoveNodeIs ==
  ASSUME NEW u, RemoveNode(u)
  PROVE  \E t, m, s, i, rm :
            /\ Removing(u, t, m, s, i, rm)
            /\ t = tree[1 - index] /\ m = server_map[1 - index]
            /\ s = update[u].server /\ i = RemovedAt(u)
            /\ rm = weight[t[i + 1]]
<1>1. Removing(u, tree[1 - index], server_map[1 - index], update[u].server,
               RemovedAt(u), weight[tree[1 - index][RemovedAt(u) + 1]])
  <2>1. /\ Doing(u, "apply") /\ update[u].op = "remove"
        /\ RemovedAt(u) <= Len(tree[1 - index]) - 1
        /\ Disable(tree[1 - index][RemovedAt(u) + 1])
    BY DEF RemoveNode, RemovedAt
  <2>2. UNCHANGED <<known, index, total_weight, left, call, modifying, ops,
                    calls>>
    BY DEF RemoveNode, sumVars
  <2> DEFINE t == tree[1 - index]
             m == server_map[1 - index]
             s == update[u].server
             i == RemovedAt(u)
             rm == weight[t[i + 1]]
  <2>3. \/ /\ i = Len(t) - 1
           /\ tree' = [tree EXCEPT ![1 - index] = Front(t)]
           /\ server_map' = [server_map EXCEPT ![1 - index] =
                                Restrict(m, DOMAIN m \ {s})]
           /\ adds' = [adds EXCEPT ![u] = UpdateSums(-rm, i)]
           /\ update' = [update EXCEPT ![u].pc = "applied"]
        \/ /\ i < Len(t) - 1
           /\ tree' = [tree EXCEPT ![1 - index] =
                        Front([t EXCEPT ![i + 1] = Last(t)])]
           /\ server_map' = [server_map EXCEPT ![1 - index] =
                                Without(m, s, Last(t), i)]
           /\ update' = [update EXCEPT ![u] = [@ EXCEPT !.pc = "move",
                                                    !.at = i, !.rm = rm]]
           /\ UNCHANGED adds
    BY DEF RemoveNode, RemovedAt
  <2> QED
    BY <2>1, <2>2, <2>3 DEF Removing
<1> QED
  BY <1>1

LEMMA UpdaterSteps ==
  ASSUME HeldInv, NEW u \in Updaters,
         \/ \E s \in Servers : AddServer(u, s) \/ RemoveServer(u, s)
         \/ AddNode(u) \/ RemoveNode(u) \/ RemoveFromNothing(u) \/ MoveLast(u)
         \/ AddNext(u)
  PROVE  UpdaterStep(u)
<1> USE DEF UpdaterStep, treeVars
<1>1. ASSUME NEW s \in Servers, AddServer(u, s) \/ RemoveServer(u, s)
      PROVE  UpdaterStep(u)
  <2>1. PICK op : update' = [update EXCEPT ![u] =
                    [NoUpdate EXCEPT !.pc = "wait", !.op = op, !.server = s]]
    BY <1>1 DEF AddServer, RemoveServer, NoUpdate
  <2> DEFINE r == [NoUpdate EXCEPT !.pc = "wait", !.op = op, !.server = s]
  <2>2. DOMAIN r = UpdateFields /\ r.pc = "wait"
    BY DEF NoUpdate, UpdateFields
  <2> HIDE DEF r
  <2> QED
    BY <1>1, <2>1, <2>2 DEF AddServer, RemoveServer, Doing, HeldInv, r
<1>2. CASE AddNode(u)
  BY <1>2 DEF AddNode, Doing, HeldInv, UpdateFields
<1>3. CASE RemoveNode(u)
  <2>1. PICK t, m, s, i, rm : Removing(u, t, m, s, i, rm)
    BY <1>3, RemoveNodeIs
  <2>2. PICK x, y : /\ tree' = [tree EXCEPT ![1 - index] = x]
                    /\ server_map' = [server_map EXCEPT ![1 - index] = y]
    BY <2>1 DEF Removing
  <2>3. /\ UNCHANGED <<call, index, modifying>>
        /\ update[u].pc = "apply"
        /\ \E r : /\ DOMAIN r = DOMAIN update[u] /\ r.pc \in {"applied", "move"}
                  /\ update' = [update EXCEPT ![u] = r]
    BY <2>1 DEF Removing, Doing, HeldInv, UpdateFields
  <2>4. /\ DOMAIN update' = Updaters
        /\ \A v \in Updaters \ {u} : update'[v] = update[v]
        /\ DOMAIN update'[u] = UpdateFields
        /\ update'[u].pc \in {"applied", "move"}
    BY <2>3 DEF HeldInv, UpdateFields
  <2> QED
    BY <2>2, <2>3, <2>4 DEF HeldInv
<1>4. CASE RemoveFromNothing(u)
  BY <1>4 DEF RemoveFromNothing, Doing, HeldInv, UpdateFields
<1>5. CASE MoveLast(u)
  BY <1>5 DEF MoveLast, Doing, HeldInv, UpdateFields
<1>6. CASE AddNext(u)
  BY <1>6 DEF AddNext, HeldInv
<1> QED
  BY <1>1, <1>2, <1>3, <1>4, <1>5, <1>6

LEMMA UpdaterHeld ==
  ASSUME HeldInv, NEW u \in Updaters, UpdaterStep(u)
  PROVE  /\ HeldInv'
         /\ \A d \in Callers : call[d].buf # None =>
                /\ tree'[call[d].buf] = tree[call[d].buf]
                /\ server_map'[call[d].buf] = server_map[call[d].buf]
<1>1. ASSUME update[u].pc \in {"apply", "move"}, NEW d \in Callers,
             call[d].buf # None
      PROVE  call[d].buf = index
  BY <1>1 DEF HeldInv
<1>2. ASSUME NEW d \in Callers, call[d].buf # None
      PROVE  /\ tree'[call[d].buf] = tree[call[d].buf]
             /\ server_map'[call[d].buf] = server_map[call[d].buf]
  BY <1>1, <1>2 DEF UpdaterStep
<1>3. ASSUME NEW d \in Callers, call'[d].buf # None,
             call'[d].buf = 1 - index'
      PROVE  \E v \in Updaters : update'[v].pc = "readers"
  BY <1>3 DEF HeldInv, UpdaterStep
<1>4. ASSUME NEW v \in Updaters
      PROVE  /\ DOMAIN update'[v] = UpdateFields
             /\ update'[v].pc \in {"apply", "move", "applied", "readers", "lost"}
                    => modifying' = v
  BY DEF HeldInv, UpdaterStep
<1> QED
  BY <1>2, <1>3, <1>4 DEF HeldInv, UpdaterStep

(* The mutex is taken and released, and the copies change places. *)
LEMMA ModifyHeld ==
  ASSUME HeldInv, NEW u \in Updaters,
         BeginModify(u) \/ Publish(u) \/ WaitReaders(u) \/ EndModify(u)
  PROVE  HeldInv' /\ UNCHANGED <<tree, server_map>>
<1>1. CASE BeginModify(u)
  <2>1. /\ UNCHANGED <<tree, server_map, index, call>>
        /\ DOMAIN update' = Updaters /\ DOMAIN update'[u] = UpdateFields
        /\ \A v \in Updaters \ {u} : update'[v] = update[v]
        /\ update[u].pc = "wait" /\ modifying = None /\ modifying' = u
    BY <1>1 DEF BeginModify, Doing, HeldInv, UpdateFields, treeVars
  <2>2. \A v \in Updaters : update[v].pc \notin {"apply", "move", "applied",
                                                 "readers", "lost"}
    BY <2>1, NoneAssumption DEF HeldInv
  <2> QED
    BY <2>1, <2>2 DEF HeldInv
<1>2. CASE Publish(u)
  <2>1. /\ UNCHANGED <<tree, server_map, modifying, call>>
        /\ index' = 1 - index
        /\ DOMAIN update' = Updaters /\ DOMAIN update'[u] = UpdateFields
        /\ \A v \in Updaters \ {u} : update'[v] = update[v]
        /\ update[u].pc = "applied" /\ update'[u].pc = "readers"
        /\ modifying = u
    BY <1>2 DEF Publish, Doing, HeldInv, UpdateFields
  <2> QED
    BY <2>1 DEF HeldInv
<1>3. CASE WaitReaders(u)
  <2>1. /\ UNCHANGED <<tree, server_map, modifying, call, index>>
        /\ DOMAIN update' = Updaters /\ DOMAIN update'[u] = UpdateFields
        /\ \A v \in Updaters \ {u} : update'[v] = update[v]
        /\ update[u].pc = "readers" /\ modifying = u
        /\ \A c \in Callers : call[c].buf # 1 - index
    BY <1>3 DEF WaitReaders, Doing, HeldInv, UpdateFields, treeVars
  <2> QED
    BY <2>1 DEF HeldInv
<1>4. CASE EndModify(u)
  <2>1. /\ UNCHANGED <<tree, server_map, call, index>>
        /\ DOMAIN update' = Updaters /\ DOMAIN update'[u] = UpdateFields
        /\ \A v \in Updaters \ {u} : update'[v] = update[v]
        /\ update[u].pc = "applied" /\ update'[u].pc = "idle"
        /\ modifying = u /\ modifying' = None
    BY <1>4, NoUpdateFields DEF EndModify, Doing, HeldInv, treeVars
  <2> QED
    BY <2>1 DEF HeldInv
<1> QED
  BY <1>1, <1>2, <1>3, <1>4

(* The copies that are held stay as they are. *)
HeldStep ==
    \A c \in Callers :
        call[c].buf # None => tree'[call[c].buf] = tree[call[c].buf]
                              /\ server_map'[call[c].buf]
                                    = server_map[call[c].buf]

LEMMA InitHeld == Init => HeldInv
<1> SUFFICES ASSUME Init PROVE HeldInv
  OBVIOUS
<1>1. /\ index = 0 /\ modifying = None
      /\ DOMAIN tree = {0, 1} /\ DOMAIN server_map = {0, 1}
      /\ call = [c \in Callers |-> NoCall]
      /\ update = [u \in Updaters |-> NoUpdate]
  BY DEF Init
<1> QED
  BY <1>1, NoCallFields, NoUpdateFields DEF HeldInv

LEMMA NextHeld == HeldInv /\ [Next]_vars => HeldInv' /\ HeldStep
<1> SUFFICES ASSUME HeldInv, [Next]_vars PROVE HeldInv' /\ HeldStep
  OBVIOUS
<1>1. ASSUME NEW c \in Callers, Caller(c) PROVE HeldInv' /\ HeldStep
  BY <1>1, CallerSteps, CallerHeld DEF HeldStep
<1>2. ASSUME NEW u \in Updaters, Updater(u) PROVE HeldInv' /\ HeldStep
  BY <1>2, UpdaterSteps, UpdaterHeld, ModifyHeld DEF Updater, HeldStep
<1>3. CASE UNCHANGED vars
  BY <1>3 DEF vars, treeVars, HeldInv, HeldStep
<1> QED
  BY <1>1, <1>2, <1>3 DEF Next

(* However many threads add and remove servers: what select_server has in its
   ScopedPtr is neither changed nor replaced while it searches, as Modify
   changes the copy in the background alone, and the one that it has replaced
   only when nobody reads it any more. *)
THEOREM HeldCopies == Spec => HeldCopyStands
<1>1. Spec => [][HeldStep]_vars
  BY InitHeld, NextHeld, PTL DEF Spec
<1> QED
  BY <1>1 DEF HeldCopyStands, HeldStep

-----------------------------------------------------------------------------
(* A copy: each server once, and where the map says. *)
WellFormed(t, m) ==
    /\ t \in Seq(Servers) /\ IsInjective(t)
    /\ m \in [ToSet(t) -> Nat]
    /\ \A s \in ToSet(t) : m[s] \in Places(t) /\ t[m[s] + 1] = s

(* The last server of t takes the place of s. *)
Removed(t, s) ==
    [k \in 1 .. Len(t) - 1 |-> IF t[k] = s THEN t[Len(t)] ELSE t[k]]

(* t2 is t1 after the operation of updater u. *)
Changed(t1, t2, u) ==
    LET s == update[u].server IN
    \/ update[u].op = "add" /\ s \notin ToSet(t1) /\ t2 = Append(t1, s)
    \/ update[u].op = "remove" /\ s \in ToSet(t1) /\ t2 = Removed(t1, s)

(* How the two copies differ at each point of an operation. *)
Stage(u) ==
    LET fg == tree[index]
        bg == tree[1 - index]
        s == update[u].server
        pc == update[u].pc
        first == update[u].phase = 0 IN
    /\ update[u].op \in {"add", "remove"} /\ update[u].phase \in {0, 1}
    /\ update[u].at \in Nat
    /\ \/ /\ pc = "idle" /\ first
          /\ fg = bg /\ ToSet(fg) = known
       \/ /\ pc \in {"wait", "apply"} /\ first
          /\ s \in Servers /\ fg = bg
          /\ \/ /\ update[u].op = "add" /\ s \notin ToSet(fg)
                /\ known = ToSet(fg) \cup {s}
             \/ /\ update[u].op = "remove" /\ s \in ToSet(fg)
                /\ known = ToSet(fg) \ {s}
       \/ /\ pc \in {"move", "applied"} /\ first
          /\ s \in Servers /\ Changed(fg, bg, u) /\ ToSet(bg) = known
       \/ /\ (pc = "readers" /\ first) \/ (pc = "apply" /\ ~first)
          /\ s \in Servers /\ Changed(bg, fg, u) /\ ToSet(fg) = known
       \/ /\ pc \in {"move", "applied"} /\ ~first
          /\ s \in Servers /\ fg = bg /\ ToSet(fg) = known
    /\ pc = "move" => /\ update[u].op = "remove" /\ s \notin ToSet(bg)
                      /\ update[u].at \in Places(bg)

(* The inductive invariant of the copies, for one updater. *)
TreeInv ==
    /\ known \subseteq Servers
    /\ \A b \in {0, 1} : WellFormed(tree[b], server_map[b])
    /\ \A u \in Updaters : Stage(u)

-----------------------------------------------------------------------------
(* Trees and maps *)

LEMMA Elements ==
  ASSUME NEW t \in Seq(Servers)
  PROVE  /\ ToSet(t) \subseteq Servers
         /\ \A x : x \in ToSet(t) <=> \E k \in 1 .. Len(t) : t[k] = x
         /\ DOMAIN t = 1 .. Len(t) /\ Len(t) \in Nat
  BY DEF ToSet

LEMMA AppendIs ==
  ASSUME NEW t \in Seq(Servers), NEW s \in Servers
  PROVE  /\ Append(t, s) \in Seq(Servers)
         /\ Len(Append(t, s)) = Len(t) + 1
         /\ \A k \in 1 .. Len(t) : Append(t, s)[k] = t[k]
         /\ Append(t, s)[Len(t) + 1] = s
         /\ ToSet(Append(t, s)) = ToSet(t) \cup {s}
<1>1. /\ Append(t, s) \in Seq(Servers)
      /\ Len(Append(t, s)) = Len(t) + 1 /\ Len(t) \in Nat
      /\ \A k \in 1 .. Len(t) : Append(t, s)[k] = t[k]
      /\ Append(t, s)[Len(t) + 1] = s
  OBVIOUS
<1>2. PICK a : a = Append(t, s)
  OBVIOUS
<1>3. \A x : x \in ToSet(a) <=> x \in ToSet(t) \cup {s}
  <2>1. \A x : x \in ToSet(a) <=> \E k \in 1 .. Len(t) + 1 : a[k] = x
    <3>1. a \in Seq(Servers) /\ Len(a) = Len(t) + 1
      BY <1>1, <1>2
    <3> QED
      BY <3>1, Elements
  <2>2. \A x : x \in ToSet(t) <=> \E k \in 1 .. Len(t) : a[k] = x
    BY <1>1, <1>2, Elements
  <2>3. \A k \in 1 .. Len(t) + 1 : k \in 1 .. Len(t) \/ k = Len(t) + 1
    BY <1>1
  <2>4. a[Len(t) + 1] = s /\ Len(t) + 1 \in 1 .. Len(t) + 1
        /\ 1 .. Len(t) \subseteq 1 .. Len(t) + 1
    BY <1>1, <1>2
  <2> QED
    BY <2>1, <2>2, <2>3, <2>4
<1>4. ToSet(a) = ToSet(t) \cup {s}
  BY <1>3
<1> QED
  BY <1>1, <1>2, <1>4

(* The copy with one more. *)
LEMMA AppendWell ==
  ASSUME NEW t, NEW m, WellFormed(t, m), NEW s \in Servers, s \notin ToSet(t)
  PROVE  WellFormed(Append(t, s), Put(m, s, Len(t)))
<1>1. t \in Seq(Servers) /\ IsInjective(t) /\ m \in [ToSet(t) -> Nat]
  BY DEF WellFormed
<1>2. PICK a : a = Append(t, s)
  OBVIOUS
<1>3. /\ a \in Seq(Servers) /\ Len(a) = Len(t) + 1 /\ a[Len(t) + 1] = s
      /\ \A k \in 1 .. Len(t) : a[k] = t[k]
      /\ ToSet(a) = ToSet(t) \cup {s}
  BY <1>1, <1>2, AppendIs
<1>4. Len(t) \in Nat /\ DOMAIN a = 1 .. Len(t) + 1 /\ DOMAIN t = 1 .. Len(t)
  BY <1>1, <1>3, Elements
<1>5. IsInjective(a)
  <2> SUFFICES ASSUME NEW j \in 1 .. Len(t) + 1, NEW k \in 1 .. Len(t) + 1,
                      a[j] = a[k]
               PROVE  j = k
    BY <1>4 DEF IsInjective
  <2>1. \A x \in 1 .. Len(t) : t[x] # s
    BY <1>1, Elements
  <2> QED
    BY <1>1, <1>3, <1>4, <2>1 DEF IsInjective
<1>6. PICK n : n = Put(m, s, Len(t))
  OBVIOUS
<1>7. /\ n \in [ToSet(t) \cup {s} -> Nat]
      /\ n[s] = Len(t) /\ \A x \in ToSet(t) : n[x] = m[x]
  <2>1. n = [x \in ToSet(t) \cup {s} |-> IF x = s THEN Len(t) ELSE m[x]]
    BY <1>1, <1>6 DEF Put
  <2> QED
    BY <1>1, <1>4, <2>1
<1>8. ASSUME NEW x \in ToSet(a)
      PROVE  n[x] \in Places(a) /\ a[n[x] + 1] = x
  <2>1. CASE x = s
    BY <1>3, <1>4, <1>7, <2>1 DEF Places
  <2>2. CASE x # s
    <3>1. x \in ToSet(t)
      BY <1>3, <1>8, <2>2
    <3>2. n[x] = m[x] /\ m[x] \in 0 .. Len(t) - 1 /\ t[m[x] + 1] = x
      BY <1>7, <3>1 DEF WellFormed, Places
    <3> QED
      BY <1>3, <1>4, <3>2 DEF Places
  <2> QED
    BY <2>1, <2>2
<1> QED
  BY <1>2, <1>3, <1>5, <1>6, <1>7, <1>8 DEF WellFormed

(* What is removed, whichever way. *)
LEMMA RemovedIs ==
  ASSUME NEW t, NEW m, WellFormed(t, m), NEW s \in ToSet(t)
  PROVE  /\ Removed(t, s) \in Seq(Servers)
         /\ Len(Removed(t, s)) = Len(t) - 1 /\ Len(t) \in Nat /\ Len(t) > 0
         /\ IsInjective(Removed(t, s))
         /\ ToSet(Removed(t, s)) = ToSet(t) \ {s}
         /\ m[s] \in 0 .. Len(t) - 1
         /\ m[s] = Len(t) - 1 => Removed(t, s) = Front(t)
         /\ m[s] < Len(t) - 1 =>
                Removed(t, s) = Front([t EXCEPT ![m[s] + 1] = Last(t)])
<1>1. /\ t \in Seq(Servers) /\ Len(t) \in Nat /\ DOMAIN t = 1 .. Len(t)
      /\ \A j, k \in 1 .. Len(t) : t[j] = t[k] => j = k
      /\ m[s] \in 0 .. Len(t) - 1 /\ t[m[s] + 1] = s
  BY Elements DEF WellFormed, Places, IsInjective
<1>2. PICK r : r = Removed(t, s)
  OBVIOUS
<1>3. PICK n \in Nat : n = Len(t) - 1 /\ \A k : k \in 1 .. n => k \in 1 .. Len(t)
  <2>1. Len(t) - 1 \in Nat /\ \A k \in 1 .. Len(t) - 1 : k \in 1 .. Len(t)
    BY <1>1
  <2> QED
    BY <2>1
<1>4. r = [k \in 1 .. n |-> IF t[k] = s THEN t[Len(t)] ELSE t[k]]
  BY <1>2, <1>3 DEF Removed
<1>5. \A k \in 1 .. n : k \in 1 .. Len(t) /\ r[k] \in Servers
  BY <1>1, <1>3, <1>4
<1>6. r \in Seq(Servers) /\ Len(r) = n /\ DOMAIN r = 1 .. n
  BY <1>4, <1>5
<1>7. IsInjective(r)
  <2> SUFFICES ASSUME NEW j \in 1 .. n, NEW k \in 1 .. n, r[j] = r[k]
               PROVE  j = k
    BY <1>6 DEF IsInjective
  <2>1. j \in 1 .. Len(t) /\ k \in 1 .. Len(t) /\ j # Len(t) /\ k # Len(t)
    BY <1>3
  <2>2. Len(t) \in 1 .. Len(t)
    BY <1>1
  <2>3. /\ r[j] = IF t[j] = s THEN t[Len(t)] ELSE t[j]
        /\ r[k] = IF t[k] = s THEN t[Len(t)] ELSE t[k]
    BY <1>4
  <2> QED
    BY <1>1, <2>1, <2>2, <2>3
<1>8. ToSet(r) = ToSet(t) \ {s}
  <2>1. ASSUME NEW x \in ToSet(r) PROVE x \in ToSet(t) \ {s}
    <3>1. PICK k \in 1 .. n : r[k] = x
      BY <1>6, Elements
    <3>2. CASE t[k] = s
      <4>1. x = t[Len(t)] /\ k # Len(t) /\ Len(t) \in 1 .. Len(t)
        BY <1>1, <1>3, <1>4, <3>1, <3>2
      <4> QED
        BY <1>1, <1>5, <3>2, <4>1, Elements
    <3>3. CASE t[k] # s
      BY <1>1, <1>4, <1>5, <3>1, <3>3, Elements
    <3> QED
      BY <3>2, <3>3
  <2>2. ASSUME NEW x \in ToSet(t) \ {s} PROVE x \in ToSet(r)
    <3>1. PICK k \in 1 .. Len(t) : t[k] = x
      BY <1>1, Elements
    <3>2. CASE k = Len(t)
      <4>1. m[s] + 1 \in 1 .. n /\ r[m[s] + 1] = x
        BY <1>1, <1>3, <1>4, <2>2, <3>1, <3>2
      <4> QED
        BY <1>6, <4>1, Elements
    <3>3. CASE k # Len(t)
      <4>1. k \in 1 .. n
        <5>1. n = Len(t) - 1 /\ Len(t) \in Nat
          BY <1>1, <1>3
        <5> QED
          BY <3>3, <5>1
      <4>2. r[k] = x
        BY <1>4, <2>2, <3>1, <4>1
      <4> QED
        BY <1>6, <4>1, <4>2, Elements
    <3> QED
      BY <3>2, <3>3
  <2> QED
    BY <2>1, <2>2
<1>9. ASSUME m[s] = Len(t) - 1 PROVE r = Front(t)
  <2>1. Front(t) = [k \in 1 .. n |-> t[k]]
    BY <1>1, <1>3 DEF Front
  <2>2. \A k \in 1 .. n : t[k] # s
    BY <1>1, <1>3, <1>9
  <2> QED
    BY <1>4, <2>1, <2>2
<1>10. ASSUME m[s] < Len(t) - 1
       PROVE  r = Front([t EXCEPT ![m[s] + 1] = Last(t)])
  <2>1. PICK e : e = [t EXCEPT ![m[s] + 1] = Last(t)]
    OBVIOUS
  <2>2. Last(t) = t[Len(t)] /\ t[Len(t)] \in Servers
    BY <1>1 DEF Last
  <2>3. /\ e \in Seq(Servers) /\ Len(e) = Len(t)
        /\ \A k \in 1 .. Len(t) : e[k] = IF k = m[s] + 1 THEN t[Len(t)] ELSE t[k]
    BY <1>1, <2>1, <2>2
  <2>4. Front(e) = [k \in 1 .. n |-> e[k]]
    BY <1>3, <2>3 DEF Front
  <2>5. \A k \in 1 .. n : t[k] = s <=> k = m[s] + 1
    BY <1>1, <1>3
  <2> QED
    BY <1>4, <1>5, <2>1, <2>3, <2>4, <2>5
<1> QED
  BY <1>1, <1>2, <1>3, <1>6, <1>7, <1>8, <1>9, <1>10

(* The maps that go with it. *)
LEMMA RemovedWell ==
  ASSUME NEW t, NEW m, WellFormed(t, m), NEW s \in ToSet(t)
  PROVE  /\ m[s] = Len(t) - 1 =>
                WellFormed(Removed(t, s), Restrict(m, DOMAIN m \ {s}))
         /\ m[s] < Len(t) - 1 =>
                WellFormed(Removed(t, s), Without(m, s, Last(t), m[s]))
<1>1. /\ t \in Seq(Servers) /\ Len(t) \in Nat /\ DOMAIN t = 1 .. Len(t)
      /\ \A j, k \in 1 .. Len(t) : t[j] = t[k] => j = k
      /\ \A x \in ToSet(t) : m[x] \in 0 .. Len(t) - 1 /\ t[m[x] + 1] = x
      /\ m \in [ToSet(t) -> Nat]
  BY Elements DEF WellFormed, Places, IsInjective
<1>2. PICK r : r = Removed(t, s)
  OBVIOUS
<1>3. PICK n \in Nat : n = Len(t) - 1
  <2>1. Len(t) - 1 \in Nat
    BY <1>1
  <2> QED
    BY <2>1
<1>4. /\ r \in Seq(Servers) /\ IsInjective(r) /\ Len(r) = n
      /\ ToSet(r) = ToSet(t) \ {s}
  BY <1>2, <1>3, RemovedIs
<1>5. r = [k \in 1 .. n |-> IF t[k] = s THEN t[Len(t)] ELSE t[k]]
  BY <1>2, <1>3 DEF Removed
<1>6. PICK q : q = Restrict(m, DOMAIN m \ {s})
  OBVIOUS
<1>7. q = [x \in ToSet(t) \ {s} |-> m[x]]
  BY <1>1, <1>6 DEF Restrict
<1>8. ASSUME m[s] = Len(t) - 1 PROVE WellFormed(r, q)
  <2>1. ASSUME NEW x \in ToSet(t) \ {s}
        PROVE  q[x] \in 0 .. n - 1 /\ r[q[x] + 1] = x
    BY <1>1, <1>3, <1>5, <1>7, <1>8, <2>1
  <2> QED
    BY <1>1, <1>4, <1>7, <2>1 DEF WellFormed, Places
<1>9. ASSUME m[s] < Len(t) - 1
      PROVE  WellFormed(r, Without(m, s, Last(t), m[s]))
  <2>1. PICK l : l = t[Len(t)]
    OBVIOUS
  <2>2. Last(t) = l /\ l \in ToSet(t) /\ l # s
    BY <1>1, <1>3, <1>9, <2>1, Elements DEF Last
  <2>3. PICK p : p = Without(m, s, l, m[s])
    OBVIOUS
  <2>4. p = [x \in (ToSet(t) \ {s}) \cup {l} |->
                IF x = l THEN m[s] ELSE q[x]]
    BY <1>6, <1>7, <2>3 DEF Without, Put
  <2>5. p = [x \in ToSet(t) \ {s} |-> IF x = l THEN m[s] ELSE m[x]]
    BY <1>7, <2>2, <2>4
  <2>6. ASSUME NEW x \in ToSet(t) \ {s}
        PROVE  p[x] \in 0 .. n - 1 /\ r[p[x] + 1] = x
    <3>1. CASE x = l
      BY <1>1, <1>3, <1>5, <1>9, <2>1, <2>5, <3>1
    <3>2. CASE x # l
      <4>1. /\ p[x] = m[x] /\ m[x] \in 0 .. Len(t) - 1 /\ t[m[x] + 1] = x
            /\ m[x] # Len(t) - 1
        BY <1>1, <2>1, <2>5, <3>2
      <4> QED
        BY <1>1, <1>3, <1>5, <4>1
    <3> QED
      BY <3>1, <3>2
  <2> QED
    BY <1>1, <1>4, <2>2, <2>3, <2>5, <2>6 DEF WellFormed, Places
<1> QED
  BY <1>2, <1>6, <1>8, <1>9

-----------------------------------------------------------------------------
(* TreeInv *)

LEMMA InitTree == HeldInv /\ Init => TreeInv
<1> SUFFICES ASSUME HeldInv, Init PROVE TreeInv
  OBVIOUS
<1>1. Start \in Seq(Servers) /\ IsInjective(Start)
  BY ServersAssumption
<1>2. PICK m : m = [s \in ToSet(Start) |->
                        CHOOSE i \in Places(Start) : Start[i + 1] = s]
  OBVIOUS
<1>3. ASSUME NEW s \in ToSet(Start)
      PROVE  m[s] \in Places(Start) /\ Start[m[s] + 1] = s /\ m[s] \in Nat
  <2>1. PICK k \in 1 .. Len(Start) : Start[k] = s
    BY <1>1, Elements
  <2>2. k - 1 \in Places(Start) /\ Start[(k - 1) + 1] = s
    BY <1>1, <2>1 DEF Places
  <2>3. m[s] \in Places(Start) /\ Start[m[s] + 1] = s
    BY <1>2, <2>2
  <2> QED
    BY <1>1, <2>3 DEF Places
<1>4. WellFormed(Start, m)
  BY <1>1, <1>2, <1>3 DEF WellFormed
<1>5. /\ known = ToSet(Start) /\ tree[0] = Start /\ tree[1] = Start
      /\ server_map[0] = m /\ server_map[1] = m /\ index = 0
      /\ \A u \in Updaters : update[u] = NoUpdate
  BY <1>2 DEF Init
<1>6. known \subseteq Servers
  BY <1>1, <1>5, Elements
<1>7. \A u \in Updaters : Stage(u)
  BY <1>5 DEF Stage, NoUpdate
<1> QED
  BY <1>4, <1>5, <1>6, <1>7 DEF TreeInv

(* A step that leaves the copies and the point of the operation as they are. *)
LEMMA SameTree ==
  ASSUME TreeInv, UNCHANGED <<known, tree, server_map, index, update>>
  PROVE  TreeInv'
<1>1. \A u \in Updaters : Stage(u)'
  BY DEF TreeInv, Stage, Changed
<1> QED
  BY <1>1 DEF TreeInv

(* The operation is begun, and the mutex taken. *)
LEMMA ServerTree ==
  ASSUME OneUpdater, HeldInv, TreeInv, NEW u \in Updaters, NEW s \in Servers,
         AddServer(u, s) \/ RemoveServer(u, s)
  PROVE  TreeInv'
<1>1. /\ UNCHANGED <<tree, server_map, index>>
      /\ update[u].pc = "idle"
  BY DEF AddServer, RemoveServer, Doing, treeVars
<1>2. PICK op : /\ update' = [update EXCEPT ![u] =
                    [NoUpdate EXCEPT !.pc = "wait", !.op = op, !.server = s]]
                /\ \/ op = "add" /\ s \notin known /\ known' = known \cup {s}
                   \/ op = "remove" /\ s \in known /\ known' = known \ {s}
  BY DEF AddServer, RemoveServer, NoUpdate
<1>3. /\ update'[u].pc = "wait" /\ update'[u].op = op
      /\ update'[u].server = s /\ update'[u].phase = 0 /\ update'[u].at = 0
  BY <1>2 DEF NoUpdate, HeldInv
<1>4. tree[index] = tree[1 - index] /\ ToSet(tree[index]) = known
  BY <1>1 DEF TreeInv, Stage
<1>5. Stage(u)'
  BY <1>1, <1>2, <1>3, <1>4 DEF Stage
<1>6. known' \subseteq Servers
  BY <1>2 DEF TreeInv
<1> QED
  BY <1>1, <1>5, <1>6 DEF TreeInv, OneUpdater

LEMMA PointTree ==
  ASSUME OneUpdater, HeldInv, TreeInv, NEW u \in Updaters,
         BeginModify(u) \/ WaitReaders(u) \/ EndModify(u) \/ Publish(u)
         \/ MoveLast(u)
  PROVE  TreeInv'
<1>1. UNCHANGED <<known, tree, server_map>>
  BY DEF BeginModify, WaitReaders, EndModify, Publish, MoveLast, treeVars
<1>2. Stage(u) /\ DOMAIN update = Updaters /\ DOMAIN update[u] = UpdateFields
      /\ index \in {0, 1}
  BY DEF TreeInv, HeldInv
<1>3. CASE BeginModify(u)
  <2>1. /\ update[u].pc = "wait" /\ index' = index
        /\ update'[u] = [update[u] EXCEPT !.pc = "apply"]
    BY <1>2, <1>3 DEF BeginModify, Doing, treeVars
  <2>2. Stage(u)'
    BY <1>1, <1>2, <2>1 DEF Stage, UpdateFields
  <2> QED
    BY <1>1, <2>1, <2>2 DEF TreeInv, OneUpdater
<1>4. CASE WaitReaders(u)
  <2>1. /\ update[u].pc = "readers" /\ index' = index
        /\ update'[u] = [update[u] EXCEPT !.pc = "apply", !.phase = 1]
    BY <1>2, <1>4 DEF WaitReaders, Doing, treeVars
  <2>2. Stage(u)'
    BY <1>1, <1>2, <2>1 DEF Stage, Changed, UpdateFields
  <2> QED
    BY <1>1, <2>1, <2>2 DEF TreeInv, OneUpdater
<1>5. CASE EndModify(u)
  <2>1. /\ update[u].pc = "applied" /\ update[u].phase = 1 /\ index' = index
        /\ update'[u] = NoUpdate
    BY <1>2, <1>5 DEF EndModify, Doing, treeVars
  <2>2. Stage(u)'
    BY <1>1, <1>2, <2>1 DEF Stage, NoUpdate
  <2> QED
    BY <1>1, <2>1, <2>2 DEF TreeInv, OneUpdater
<1>6. CASE Publish(u)
  <2>1. /\ update[u].pc = "applied" /\ update[u].phase = 0
        /\ index' = 1 - index /\ 1 - index' = index
        /\ update'[u] = [update[u] EXCEPT !.pc = "readers"]
    BY <1>2, <1>6 DEF Publish, Doing
  <2>2. Stage(u)'
    BY <1>1, <1>2, <2>1 DEF Stage, Changed, UpdateFields
  <2> QED
    BY <1>1, <2>1, <2>2 DEF TreeInv, OneUpdater
<1>7. CASE MoveLast(u)
  <2>1. /\ update[u].pc = "move" /\ index' = index
        /\ update'[u] = [update[u] EXCEPT !.pc = "applied"]
    BY <1>2, <1>7 DEF MoveLast, Doing, treeVars
  <2>2. Stage(u)'
    BY <1>1, <1>2, <2>1 DEF Stage, Changed, UpdateFields
  <2> QED
    BY <1>1, <2>1, <2>2 DEF TreeInv, OneUpdater
<1> QED
  BY <1>3, <1>4, <1>5, <1>6, <1>7

(* The copy in the background becomes t, by the operation: in the first pass
   what the other one will be, in the second what that one is. *)
LEMMA ApplyTree ==
  ASSUME OneUpdater, HeldInv, TreeInv, NEW u \in Updaters,
         update[u].pc = "apply",
         NEW t, NEW m, WellFormed(t, m), Changed(tree[1 - index], t, u),
         tree' = [tree EXCEPT ![1 - index] = t],
         server_map' = [server_map EXCEPT ![1 - index] = m],
         UNCHANGED <<known, index>>,
         NEW r, update' = [update EXCEPT ![u] = r],
         r.op = update[u].op, r.server = update[u].server,
         r.phase = update[u].phase, r.at \in Nat,
         \/ r.pc = "applied"
         \/ /\ r.pc = "move" /\ r.op = "remove"
            /\ r.at \in Places(t)
  PROVE  TreeInv'
<1>1. /\ Stage(u) /\ index \in {0, 1} /\ update'[u] = r
      /\ DOMAIN tree = {0, 1} /\ DOMAIN server_map = {0, 1}
  BY DEF TreeInv, HeldInv
<1>2. /\ tree'[1 - index] = t /\ tree'[index] = tree[index]
      /\ server_map'[1 - index] = m /\ server_map'[index] = server_map[index]
  BY <1>1
<1>3. \A b \in {0, 1} : WellFormed(tree'[b], server_map'[b])
  <2>1. \A b \in {0, 1} : b = index \/ b = 1 - index
    BY <1>1
  <2> QED
    BY <1>1, <1>2, <2>1 DEF TreeInv
<1>4. PICK s, fg, bg : /\ s = update[u].server /\ fg = tree[index]
                       /\ bg = tree[1 - index]
  OBVIOUS
<1>5. /\ s \in Servers /\ ToSet(t) = IF update[u].op = "add"
                                     THEN ToSet(bg) \cup {s}
                                     ELSE ToSet(bg) \ {s}
  <2>1. WellFormed(bg, server_map[1 - index]) /\ s \in Servers
    BY <1>1, <1>4 DEF TreeInv, Stage
  <2>2. CASE t = Append(bg, s) /\ update[u].op = "add"
    BY <2>1, <2>2, AppendIs DEF WellFormed
  <2>3. CASE /\ t = Removed(bg, s) /\ s \in ToSet(bg)
             /\ update[u].op = "remove"
    BY <2>1, <2>3, RemovedIs
  <2> QED
    BY <1>4, <2>2, <2>3 DEF Changed
<1>6. r.pc = "move" => s \notin ToSet(t)
  BY <1>5
<1>7. CASE update[u].phase = 0
  <2>1. /\ fg = bg
        /\ known = ToSet(t)
    BY <1>1, <1>4, <1>5, <1>7 DEF Stage
  <2>2. Changed(fg, t, u)'
    BY <1>1, <1>2, <1>4, <2>1 DEF Changed
  <2>3. Stage(u)'
    BY <1>1, <1>2, <1>4, <1>5, <1>6, <1>7, <2>1, <2>2 DEF Stage, Changed
  <2> QED
    BY <1>3, <2>3 DEF TreeInv, OneUpdater
<1>8. CASE update[u].phase # 0
  <2>1. Changed(bg, fg, u) /\ ToSet(fg) = known
    BY <1>1, <1>4, <1>8 DEF Stage
  <2>2. t = fg
    BY <1>4, <2>1 DEF Changed
  <2>3. Stage(u)'
    BY <1>1, <1>2, <1>4, <1>5, <1>6, <1>8, <2>1, <2>2 DEF Stage
  <2> QED
    BY <1>3, <2>3 DEF TreeInv, OneUpdater
<1> QED
  BY <1>7, <1>8

LEMMA AddNodeTree ==
  ASSUME OneUpdater, HeldInv, TreeInv, NEW u \in Updaters, AddNode(u)
  PROVE  TreeInv'
<1>1. PICK s, fg, bg, m : /\ s = update[u].server /\ fg = tree[index]
                          /\ bg = tree[1 - index] /\ m = server_map[1 - index]
  OBVIOUS
<1>2. PICK p : p = IF s \notin DOMAIN server_map[index] THEN Len(bg)
                   ELSE server_map[index][s]
  OBVIOUS
<1>3. /\ update[u].pc = "apply" /\ update[u].op = "add"
      /\ tree' = [tree EXCEPT ![1 - index] = Append(bg, s)]
      /\ server_map' = [server_map EXCEPT ![1 - index] = Put(m, s, p)]
      /\ update' = [update EXCEPT ![u].pc = "applied"]
      /\ UNCHANGED <<known, index>>
  BY <1>1, <1>2 DEF AddNode, Doing
<1>4. /\ WellFormed(bg, m) /\ WellFormed(fg, server_map[index])
      /\ Stage(u) /\ index \in {0, 1}
  BY <1>1 DEF TreeInv, HeldInv
<1>5. s \in Servers /\ s \notin ToSet(bg) /\ (fg = bg \/ fg = Append(bg, s))
  BY <1>1, <1>3, <1>4 DEF Stage, Changed
<1>6. p = Len(bg)
  <2>1. CASE fg = bg
    BY <1>2, <1>4, <1>5, <2>1 DEF WellFormed
  <2>2. CASE fg = Append(bg, s)
    <3>1. /\ bg \in Seq(Servers) /\ fg \in Seq(Servers)
          /\ Len(fg) = Len(bg) + 1 /\ fg[Len(bg) + 1] = s /\ s \in ToSet(fg)
      BY <1>4, <1>5, <2>2, AppendIs DEF WellFormed
    <3>2. p \in 0 .. Len(fg) - 1 /\ fg[p + 1] = s
      BY <1>2, <1>4, <3>1 DEF WellFormed, Places
    <3>3. Len(bg) \in Nat /\ DOMAIN fg = 1 .. Len(bg) + 1
      BY <3>1
    <3>4. p + 1 = Len(bg) + 1
      BY <1>4, <3>1, <3>2, <3>3 DEF WellFormed, IsInjective
    <3> QED
      BY <3>1, <3>2, <3>3, <3>4
  <2> QED
    BY <1>5, <2>1, <2>2
<1>7. WellFormed(Append(bg, s), Put(m, s, p))
  BY <1>4, <1>5, <1>6, AppendWell
<1>8. PICK r : r = [update[u] EXCEPT !.pc = "applied"]
  OBVIOUS
<1>9. /\ r.op = update[u].op /\ r.server = update[u].server
      /\ r.phase = update[u].phase /\ r.at \in Nat /\ r.pc = "applied"
      /\ update' = [update EXCEPT ![u] = r]
  BY <1>3, <1>4, <1>8 DEF HeldInv, UpdateFields, Stage
<1>10. Changed(tree[1 - index], Append(bg, s), u)
  BY <1>1, <1>3, <1>5 DEF Changed
<1> QED
  BY <1>3, <1>7, <1>9, <1>10, ApplyTree

LEMMA RemoveNodeTree ==
  ASSUME OneUpdater, HeldInv, TreeInv, NEW u \in Updaters, RemoveNode(u)
  PROVE  TreeInv'
<1>1. PICK t, m, s, i, rm :
        /\ Removing(u, t, m, s, i, rm)
        /\ t = tree[1 - index] /\ m = server_map[1 - index]
        /\ s = update[u].server /\ i = RemovedAt(u)
  BY RemoveNodeIs
<1>2. WellFormed(t, m) /\ Stage(u) /\ index \in {0, 1}
  BY <1>1 DEF TreeInv, HeldInv
<1>3. update[u].pc = "apply" /\ update[u].op = "remove"
  BY <1>1 DEF Removing, Doing
<1>4. s \in ToSet(t)
  BY <1>1, <1>2, <1>3 DEF Stage, Changed
<1>5. i = m[s]
  BY <1>1, <1>2, <1>4 DEF RemovedAt, WellFormed
<1>6. Changed(tree[1 - index], Removed(t, s), u)
  BY <1>1, <1>3, <1>4 DEF Changed
<1>7. UNCHANGED <<known, index>>
  BY <1>1 DEF Removing
<1>8. CASE i = Len(t) - 1
  <2>1. /\ Front(t) = Removed(t, s)
        /\ WellFormed(Removed(t, s), Restrict(m, DOMAIN m \ {s}))
    BY <1>2, <1>4, <1>5, <1>8, RemovedIs, RemovedWell
  <2>2. PICK r : r = [update[u] EXCEPT !.pc = "applied"]
    OBVIOUS
  <2>3. ~(i < Len(t) - 1)
    BY <1>2, <1>4, <1>8, RemovedIs
  <2>4. /\ tree' = [tree EXCEPT ![1 - index] = Removed(t, s)]
        /\ server_map' = [server_map EXCEPT ![1 - index] =
                                Restrict(m, DOMAIN m \ {s})]
        /\ update' = [update EXCEPT ![u] = r]
    BY <1>1, <2>1, <2>2, <2>3 DEF Removing
  <2>5. /\ r.op = update[u].op /\ r.server = update[u].server
        /\ r.phase = update[u].phase /\ r.at \in Nat /\ r.pc = "applied"
    BY <1>2, <2>2 DEF HeldInv, UpdateFields, Stage
  <2> QED
    BY <1>3, <1>6, <1>7, <2>1, <2>4, <2>5, ApplyTree
<1>9. CASE i # Len(t) - 1
  <2>1. /\ i < Len(t) - 1 /\ i \in Nat
        /\ i \in Places(Removed(t, s))
    <3>1. /\ m[s] \in 0 .. Len(t) - 1 /\ Len(t) \in Nat
          /\ Len(Removed(t, s)) = Len(t) - 1
      BY <1>2, <1>4, RemovedIs
    <3> QED
      BY <1>5, <1>9, <3>1 DEF Places
  <2>2. /\ Front([t EXCEPT ![i + 1] = Last(t)]) = Removed(t, s)
        /\ WellFormed(Removed(t, s), Without(m, s, Last(t), i))
    <3>1. m[s] < Len(t) - 1
      BY <1>5, <2>1
    <3>2. Front([t EXCEPT ![m[s] + 1] = Last(t)]) = Removed(t, s)
      BY <1>2, <1>4, <3>1, RemovedIs
    <3>3. WellFormed(Removed(t, s), Without(m, s, Last(t), m[s]))
      BY <1>2, <1>4, <3>1, RemovedWell
    <3> QED
      BY <1>5, <3>2, <3>3
  <2>3. PICK r : r = [update[u] EXCEPT !.pc = "move", !.at = i, !.rm = rm]
    OBVIOUS
  <2>4. /\ tree' = [tree EXCEPT ![1 - index] = Removed(t, s)]
        /\ server_map' = [server_map EXCEPT ![1 - index] =
                                Without(m, s, Last(t), i)]
        /\ update' = [update EXCEPT ![u] = r]
    BY <1>1, <1>9, <2>2, <2>3 DEF Removing
  <2>5. /\ r.op = update[u].op /\ r.server = update[u].server
        /\ r.phase = update[u].phase /\ r.at \in Nat /\ r.pc = "move"
        /\ r.op = "remove" /\ r.at \in Places(Removed(t, s))
    BY <1>2, <1>3, <2>1, <2>3 DEF HeldInv, UpdateFields, Stage
  <2> QED
    BY <1>3, <1>6, <1>7, <2>2, <2>4, <2>5, ApplyTree
<1> QED
  BY <1>8, <1>9

(* There is always a node to remove. *)
LEMMA RemoveFromNothingNot ==
  ASSUME TreeInv, HeldInv, NEW u \in Updaters
  PROVE  ~RemoveFromNothing(u)
<1> SUFFICES ASSUME RemoveFromNothing(u) PROVE FALSE
  OBVIOUS
<1>1. /\ update[u].pc = "apply" /\ update[u].op = "remove"
      /\ tree[1 - index] = << >>
  BY DEF RemoveFromNothing, Doing
<1>2. update[u].server \in ToSet(tree[1 - index])
  BY <1>1 DEF TreeInv, Stage, Changed
<1> QED
  BY <1>1, <1>2 DEF ToSet

LEMMA UpdaterTree ==
  ASSUME OneUpdater, HeldInv, TreeInv, NEW u \in Updaters, Updater(u)
  PROVE  TreeInv'
<1>1. AddNext(u) => TreeInv'
  BY SameTree DEF AddNext, treeVars
<1> QED
  BY <1>1, ServerTree, PointTree, AddNodeTree, RemoveNodeTree,
     RemoveFromNothingNot DEF Updater

LEMMA NextTree ==
  OneUpdater /\ HeldInv /\ TreeInv /\ [Next]_vars => TreeInv'
<1> SUFFICES ASSUME OneUpdater, HeldInv, TreeInv, [Next]_vars PROVE TreeInv'
  OBVIOUS
<1>1. ASSUME NEW c \in Callers, Caller(c) PROVE TreeInv'
  BY <1>1, CallerSteps, SameTree DEF CallerStep
<1>2. CASE UNCHANGED vars
  BY <1>2, SameTree DEF vars, treeVars
<1> QED
  BY <1>1, <1>2, UpdaterTree DEF Next

(* A tree has one map. *)
LEMMA OneMap ==
  ASSUME NEW t, NEW m, NEW n, WellFormed(t, m), WellFormed(t, n)
  PROVE  m = n
<1>1. ASSUME NEW s \in ToSet(t) PROVE m[s] = n[s]
  BY DEF WellFormed, IsInjective, Places
<1> QED
  BY <1>1 DEF WellFormed

LEMMA TreeKnown == OneUpdater /\ HeldInv /\ TreeInv => TreeIsKnown
<1> SUFFICES ASSUME OneUpdater, HeldInv, TreeInv,
                    \A u \in Updaters : update[u].pc = "idle"
             PROVE  /\ tree[0] = tree[1] /\ server_map[0] = server_map[1]
                    /\ IsInjective(tree[0]) /\ ToSet(tree[0]) = known
                    /\ DOMAIN server_map[0] = known
                    /\ \A s \in known :
                        /\ server_map[0][s] \in Places(tree[0])
                        /\ tree[0][server_map[0][s] + 1] = s
  BY DEF TreeIsKnown
<1>1. PICK u \in Updaters : update[u].pc = "idle"
  BY DEF OneUpdater
<1>2. tree[index] = tree[1 - index] /\ ToSet(tree[index]) = known
  BY <1>1 DEF TreeInv, Stage
<1>3. tree[0] = tree[1] /\ ToSet(tree[0]) = known
  BY <1>2 DEF HeldInv
<1>4. WellFormed(tree[0], server_map[0]) /\ WellFormed(tree[1], server_map[1])
  BY DEF TreeInv
<1>5. server_map[0] = server_map[1]
  BY <1>3, <1>4, OneMap
<1> QED
  BY <1>3, <1>4, <1>5 DEF WellFormed

LEMMA SpecTree == ASSUME OneUpdater PROVE Spec => [](HeldInv /\ TreeInv)
<1>1. Init => HeldInv /\ TreeInv
  BY InitHeld, InitTree
<1>2. HeldInv /\ TreeInv /\ [Next]_vars => (HeldInv /\ TreeInv)'
  BY NextHeld, NextTree
<1> QED
  BY <1>1, <1>2, PTL DEF Spec

(* Whatever servers are added and removed, in whatever order, both copies of
   the tree are again the same when add_server or remove_server has returned,
   each known server is in it once and nothing else is, and its map says where:
   the last node that takes the place of a removed one is not lost in either
   copy. *)
THEOREM KnownServers == ASSUME OneUpdater PROVE Spec => []TreeIsKnown
<1>1. HeldInv /\ TreeInv => TreeIsKnown
  BY TreeKnown
<1> QED
  BY <1>1, SpecTree, PTL

-----------------------------------------------------------------------------
(* Types, for one updater. *)

Additions == (SUBSET (Positions \cup {Total})) \X (Int \ {0})

(* A caller that searches has a copy, and at a node it is inside of it. *)
Inside(c) ==
    /\ call[c].at \in Nat
    /\ call[c].pc \in {"draw", "left", "self", "inflight", "refused", "update"}
        => call[c].buf \in {0, 1}
    /\ call[c].pc \in {"self", "inflight", "update"} =>
        call[c].at \in Places(tree[call[c].buf])
CallerInv == \A c \in Callers : Inside(c)

WeightsInv ==
    /\ weight \in [Servers -> Int] /\ disabled \in [Servers -> BOOLEAN]
    /\ old \in [Servers -> [index : Positions \cup {None}, diff : Int,
                            weight : Int]]
    /\ inflight \in [Servers -> Int]

NumberInv ==
    /\ left \in [Positions -> Int] /\ total_weight \in Int
    /\ adds \in [Callers \cup Updaters -> Seq(Additions)]
    /\ \A u \in Updaters : update[u].rm \in Int
    /\ tree \in [{0, 1} -> Seq(Servers)]
    /\ server_map = [b \in {0, 1} |-> server_map[b]]

TypeInv == CallerInv /\ WeightsInv /\ NumberInv

(* There are no more nodes than servers, and fewer if one has none. *)
LEMMA SizeIs ==
  ASSUME NEW t, NEW m, WellFormed(t, m)
  PROVE  /\ Len(t) \in Nat /\ Cardinality(Servers) \in Nat
         /\ Len(t) <= Cardinality(Servers)
         /\ \A s \in Servers \ ToSet(t) : Len(t) < Cardinality(Servers)
<1>1. /\ t \in Seq(Servers) /\ Len(t) \in Nat /\ DOMAIN t = 1 .. Len(t)
      /\ \A j, k \in 1 .. Len(t) : t[j] = t[k] => j = k
      /\ \A x : x \in ToSet(t) <=> \E k \in 1 .. Len(t) : t[k] = x
  BY Elements DEF WellFormed, IsInjective
<1>2. Cardinality(Servers) \in Nat /\ IsFiniteSet(Servers)
  BY ServersAssumption, FS_CardinalityType
<1>3. Cardinality(1 .. Len(t)) = Len(t)
  BY <1>1, FS_Interval
<1>4. t \in [1 .. Len(t) -> Servers]
  BY <1>1
<1>5. t \in Injection(1 .. Len(t), Servers)
  BY <1>1, <1>4 DEF Injection, IsInjective
<1>6. /\ Len(t) <= Cardinality(Servers)
      /\ Len(t) = Cardinality(Servers) => t \in Surjection(1 .. Len(t), Servers)
  BY <1>2, <1>3, <1>5, FS_Injection
<1>7. ASSUME NEW s \in Servers, s \notin ToSet(t)
      PROVE  Len(t) # Cardinality(Servers)
  BY <1>1, <1>6, <1>7 DEF Surjection
<1> QED
  BY <1>1, <1>2, <1>6, <1>7

(* So a node of a copy is at a position. *)
LEMMA PlaceIs ==
  ASSUME NEW t, NEW m, WellFormed(t, m)
  PROVE  /\ Places(t) \subseteq Positions
         /\ \A i \in Places(t) : t[i + 1] \in Servers
         /\ \A s \in Servers \ ToSet(t) : Len(t) \in Positions
<1>1. t \in Seq(Servers)
  BY DEF WellFormed
<1> QED
  BY <1>1, SizeIs DEF Places, Positions

LEMMA SumsTyped ==
  ASSUME NEW i \in Positions, NEW diff \in Int
  PROVE  /\ UpdateParentWeight(diff, i) \in Seq(Additions)
         /\ UpdateTotal(diff) \in Seq(Additions)
         /\ UpdateSums(diff, i) \in Seq(Additions)
<1>1. LeftParents(i) \subseteq Positions
  BY ServersAssumption, FS_CardinalityType DEF LeftParents, Positions
<1>2. diff # 0 => <<LeftParents(i), diff>> \in Additions
                  /\ <<{Total}, diff>> \in Additions
  BY <1>1 DEF Additions
<1>3. /\ UpdateParentWeight(diff, i) \in Seq(Additions)
      /\ UpdateTotal(diff) \in Seq(Additions)
  <2>1. PICK S, q, r : /\ S = Additions
                       /\ q = <<LeftParents(i), diff>> /\ r = <<{Total}, diff>>
    OBVIOUS
  <2>2. << >> \in Seq(S) /\ (diff # 0 => <<q>> \in Seq(S) /\ <<r>> \in Seq(S))
    BY <1>2, <2>1
  <2> QED
    BY <2>1, <2>2 DEF UpdateParentWeight, UpdateTotal
<1> QED
  BY <1>3 DEF UpdateSums

LEMMA StartTyped == Init => TypeInv
<1> SUFFICES ASSUME Init PROVE TypeInv
  OBVIOUS
<1>1. Start \in Seq(Servers) /\ IsFiniteSet(Servers) /\ Scale \in Int
  BY ServersAssumption, WeightsAssumption
<1>2. \A p \in Positions : Cardinality({i \in Places(Start) :
                                            p \in LeftParents(i)}) \in Int
  <2> TAKE p \in Positions
  <2>1. PICK S : S = {i \in Places(Start) : p \in LeftParents(i)}
    OBVIOUS
  <2>2. IsFiniteSet(Places(Start))
    BY <1>1, FS_Interval DEF Places
  <2>3. S \in SUBSET Places(Start)
    BY <2>1
  <2>4. IsFiniteSet(S)
    BY <2>2, <2>3, FS_Subset
  <2> QED
    BY <2>1, <2>4, FS_CardinalityType
<1>3. left \in [Positions -> Int]
  <2>1. \A x, y \in Int : x * y \in Int
    OBVIOUS
  <2>2. \A p \in Positions : Scale * Cardinality({i \in Places(Start) :
                                            p \in LeftParents(i)}) \in Int
    BY <1>1, <1>2, <2>1
  <2> QED
    BY <2>2 DEF Init
<1>4. total_weight \in Int
  BY <1>1 DEF Init
<1>5. WeightsInv
  BY <1>1 DEF Init, WeightsInv, NotOld
<1>6. /\ adds \in [Callers \cup Updaters -> Seq(Additions)]
      /\ tree \in [{0, 1} -> Seq(Servers)]
      /\ server_map = [b \in {0, 1} |-> server_map[b]]
      /\ \A u \in Updaters : update[u].rm \in Int
      /\ \A c \in Callers : call[c].at = 0 /\ call[c].pc = "idle"
  BY <1>1 DEF Init, NoUpdate, NoCall
<1>7. CallerInv
  BY <1>6 DEF CallerInv, Inside
<1> QED
  BY <1>3, <1>4, <1>5, <1>6, <1>7 DEF TypeInv, NumberInv

(* Where a caller is, after a step of its own. *)
LEMMA CallerInside ==
  ASSUME HeldInv, TreeInv, TypeInv, NEW c \in Callers, Caller(c)
  PROVE  CallerInv'
<1>1. CallerStep(c)
  BY CallerSteps
<1>2. /\ UNCHANGED <<tree, server_map, index>>
      /\ \A d \in Callers \ {c} : call'[d] = call[d]
      /\ index \in {0, 1}
  BY <1>1 DEF CallerStep, HeldInv
<1>3. Inside(c) /\ DOMAIN call = Callers /\ DOMAIN call[c] = CallFields
  BY DEF TypeInv, CallerInv, HeldInv
<1> SUFFICES Inside(c)'
  BY <1>2 DEF CallerInv, TypeInv, Inside
<1>4. CASE BeginSelect(c)
  BY <1>2, <1>3, <1>4 DEF BeginSelect, NoCall, Inside
<1>5. CASE Draw(c)
  <2>1. /\ call'[c].at = 0 /\ call'[c].pc \in {"idle", "left"}
        /\ call'[c].pc = "left" => call'[c].buf = call[c].buf
    <3>1. CASE call' = [call EXCEPT ![c] = NoCall]
      BY <1>3, <3>1, NoCallFields
    <3>2. ASSUME NEW dice, call' = [call EXCEPT ![c] =
                        [@ EXCEPT !.pc = "left", !.dice = dice, !.at = 0]]
          PROVE  /\ call'[c].at = 0 /\ call'[c].pc = "left"
                 /\ call'[c].buf = call[c].buf
      BY <1>3, <3>2 DEF CallFields
    <3> QED
      BY <1>5, <3>1, <3>2 DEF Draw
  <2>2. call[c].buf \in {0, 1}
    BY <1>3, <1>5 DEF Draw, At, Inside
  <2> QED
    BY <1>2, <2>1, <2>2 DEF Inside
<1>6. CASE LoadLeft(c)
  <2>1. call[c].buf \in {0, 1}
    BY <1>3, <1>6 DEF LoadLeft, At, Inside
  <2>2. tree[call[c].buf] \in Seq(Servers)
    BY <2>1 DEF TypeInv, NumberInv
  <2> QED
    BY <1>2, <1>3, <1>6, <2>1, <2>2 DEF LoadLeft, At, Goto, Inside, CallFields,
                                        Buffer, Places
<1>7. CASE LoadSelf(c)
  <2>1. call[c].buf \in {0, 1} /\ call[c].at \in Nat
    BY <1>3, <1>7 DEF LoadSelf, At, Inside
  <2>2. CASE call' = Retry(c, 1)
    <3>1. /\ call'[c].buf \in {call[c].buf, None} /\ call'[c].at = 0
          /\ call'[c].pc \in {"idle", "draw"}
          /\ call'[c].pc = "draw" => call'[c].buf = call[c].buf
      BY <2>2, RetryStep DEF Retry, NoCall, HeldInv
    <3> QED
      BY <1>2, <2>1, <3>1 DEF Inside
  <2>3. CASE call' # Retry(c, 1)
    BY <1>2, <1>3, <1>7, <2>1, <2>3 DEF LoadSelf, At, Inside, CallFields
  <2> QED
    BY <2>2, <2>3
<1>8. CASE AddInflight(c)
  BY <1>2, <1>3, <1>8 DEF AddInflight, At, Goto, Inside, CallFields
<1>9. CASE EndInflight(c)
  <2>1. CASE call' = Retry(c, 2) /\ call[c].pc = "refused"
    <3>1. /\ call'[c].buf \in {call[c].buf, None} /\ call'[c].at = 0
          /\ call'[c].pc \in {"idle", "draw"}
          /\ call'[c].pc = "draw" => call'[c].buf = call[c].buf
      BY <2>1, RetryStep DEF Retry, NoCall, HeldInv
    <3> QED
      BY <1>2, <1>3, <2>1, <3>1 DEF Inside
  <2>2. CASE call' = [call EXCEPT ![c] =
                        [NoCall EXCEPT !.pc = "calling", !.node = call[c].node]]
    BY <1>2, <1>3, <2>2 DEF NoCall, Inside
  <2> QED
    BY <1>9, <2>1, <2>2 DEF EndInflight, At
<1>10. CASE AddNext(c)
  BY <1>2, <1>3, <1>10 DEF AddNext, Inside
<1>11. CASE FindServer(c)
  <2>1. WellFormed(tree[index], server_map[index])
    BY <1>2 DEF TreeInv
  <2>2. PICK m, s : m = server_map[index] /\ s = call[c].node
    OBVIOUS
  <2>3. CASE s \in DOMAIN m /\ m[s] < Len(tree[index])
    <3>1. m[s] \in Nat /\ m[s] \in Places(tree[index])
      BY <2>1, <2>2, <2>3 DEF WellFormed
    <3>2. call' = [call EXCEPT ![c].pc = "update", ![c].buf = index,
                               ![c].at = m[s]]
      BY <1>11, <2>2, <2>3 DEF FindServer
    <3> QED
      BY <1>2, <1>3, <3>1, <3>2 DEF Inside, CallFields
  <2>4. CASE ~(s \in DOMAIN m /\ m[s] < Len(tree[index]))
    <3>1. call' = [call EXCEPT ![c].pc = "lost", ![c].buf = index]
      BY <1>11, <2>2, <2>4 DEF FindServer
    <3> QED
      BY <1>2, <1>3, <3>1 DEF Inside, CallFields
  <2> QED
    BY <2>3, <2>4
<1>12. CASE Feedback(c) \/ Update(c) \/ EndFeedback(c)
  BY <1>2, <1>3, <1>12, NoCallFields DEF Feedback, Update, EndFeedback, At,
     Goto, Inside, CallFields
<1> QED
  BY <1>4, <1>5, <1>6, <1>7, <1>8, <1>9, <1>10, <1>11, <1>12 DEF Caller

LEMMA AddNextTyped ==
  ASSUME TypeInv, NEW t \in Callers \cup Updaters, AddNext(t)
  PROVE  WeightsInv' /\ NumberInv'
<1>1. /\ UNCHANGED <<tree, server_map, update>> /\ UNCHANGED weightVars
      /\ adds[t] # << >>
  BY DEF AddNext, treeVars
<1>2. PICK a, S : a = adds[t] /\ S = Additions /\ a \in Seq(S) /\ a # << >>
  BY <1>1 DEF TypeInv, NumberInv
<1>3. Head(a) \in S /\ Tail(a) \in Seq(S)
  BY <1>2
<1>4. PICK h, d : h = Head(a)[1] /\ d = Head(a)[2]
  OBVIOUS
<1>5. h \subseteq Positions \cup {Total} /\ d \in Int \ {0}
  BY <1>2, <1>3, <1>4 DEF Additions
<1>6. PICK p \in h :
            /\ \/ p = Total /\ total_weight' = total_weight + d
                    /\ UNCHANGED left
               \/ p # Total /\ left' = [left EXCEPT ![p] = @ + d]
                    /\ UNCHANGED total_weight
            /\ adds' = [adds EXCEPT ![t] = WithoutNext(adds[t], p)]
  BY <1>2, <1>4 DEF AddNext
<1>7. left' \in [Positions -> Int] /\ total_weight' \in Int
  BY <1>5, <1>6 DEF TypeInv, NumberInv
<1>8. PICK x : x = <<h \ {p}, d>>
  OBVIOUS
<1>9. x \in S
  BY <1>2, <1>5, <1>8 DEF Additions
<1>10. WithoutNext(a, p) \in Seq(S)
  <2>1. WithoutNext(a, p) \in {Tail(a), <<x>> \o Tail(a)}
    BY <1>4, <1>8 DEF WithoutNext
  <2> QED
    BY <1>3, <1>9, <2>1
<1>11. adds' \in [Callers \cup Updaters -> Seq(Additions)]
  BY <1>2, <1>6, <1>10 DEF TypeInv, NumberInv
<1> QED
  BY <1>1, <1>7, <1>11 DEF TypeInv, WeightsInv, NumberInv, weightVars

LEMMA ResetTyped ==
  ASSUME WeightsInv, NEW s \in Servers, NEW i, NEW w \in Int,
         ResetWeight(s, i, w)
  PROVE  /\ weight' \in [Servers -> Int]
         /\ old' \in [Servers -> [index : Positions \cup {None}, diff : Int,
                                  weight : Int]]
         /\ w - weight[s] \in Int
<1>1. weight[s] \in Int /\ weight' = [weight EXCEPT ![s] = w]
  BY DEF WeightsInv, ResetWeight
<1>2. CASE old' = old
  BY <1>1, <1>2 DEF WeightsInv
<1>3. CASE old' = [old EXCEPT ![s].diff = @ + (w - weight[s])]
  BY <1>1, <1>3 DEF WeightsInv
<1> QED
  BY <1>1, <1>2, <1>3 DEF ResetWeight, WeightsInv

LEMMA CallerNumbers ==
  ASSUME HeldInv, TreeInv, TypeInv, NEW c \in Callers, Caller(c)
  PROVE  WeightsInv' /\ NumberInv'
<1>1. UNCHANGED <<tree, server_map, update>>
  BY CallerSteps DEF CallerStep
<1>2. WeightsInv /\ NumberInv /\ Inside(c)
  BY DEF TypeInv, CallerInv
<1>3. CASE UNCHANGED <<sumVars, weightVars, adds>>
  BY <1>1, <1>2, <1>3 DEF WeightsInv, NumberInv, weightVars, sumVars
<1>4. CASE AddInflight(c) \/ Update(c)
  <2>1. PICK i, s : i = call[c].at /\ s = Buffer(c)[i + 1]
    OBVIOUS
  <2>2. s \in Servers /\ i \in Positions
    <3>1. call[c].buf \in {0, 1} /\ i \in Places(tree[call[c].buf])
      BY <1>2, <1>4, <2>1 DEF AddInflight, Update, At, Inside
    <3> QED
      BY <2>1, <3>1, PlaceIs DEF TreeInv, Buffer
  <2>3. UNCHANGED sumVars
    BY <1>4 DEF AddInflight, Update
  <2>4. ASSUME NEW w \in Int, ResetWeight(s, i, w), UNCHANGED disabled,
               adds' = [adds EXCEPT ![c] = UpdateSums(w - weight[s], i)],
               \E d \in Int : inflight' = [inflight EXCEPT ![s] = d]
        PROVE  WeightsInv' /\ NumberInv'
    <3>1. UpdateSums(w - weight[s], i) \in Seq(Additions)
      BY <1>2, <2>2, <2>4, ResetTyped, SumsTyped
    <3>2. adds' \in [Callers \cup Updaters -> Seq(Additions)]
      BY <1>2, <2>4, <3>1 DEF NumberInv
    <3>3. WeightsInv'
      BY <1>2, <2>2, <2>4, ResetTyped DEF WeightsInv
    <3> QED
      BY <1>1, <1>2, <2>3, <3>2, <3>3 DEF NumberInv, sumVars
  <2>5. \A w \in Weights \cup {weight[s]} : w \in Int
    BY <1>2, <2>2, WeightsAssumption DEF WeightsInv
  <2>6. CASE UNCHANGED <<weightVars, adds>>
    BY <1>3, <2>3, <2>6
  <2>7. CASE AddInflight(c) /\ ~disabled[s]
    <3>1. PICK w \in Weights :
            /\ ResetWeight(s, i, w)
            /\ adds' = [adds EXCEPT ![c] = UpdateSums(w - weight[s], i)]
            /\ \/ UNCHANGED inflight
               \/ inflight' = [inflight EXCEPT ![s] = @ + 1]
            /\ UNCHANGED disabled
      BY <2>1, <2>7 DEF AddInflight
    <3>2. inflight[s] \in Int /\ inflight = [inflight EXCEPT ![s] = inflight[s]]
      BY <1>2, <2>2 DEF WeightsInv
    <3>3. \E d \in Int : inflight' = [inflight EXCEPT ![s] = d]
      BY <3>1, <3>2
    <3> QED
      BY <2>4, <2>5, <3>1, <3>3
  <2>8. CASE Update(c) /\ ~disabled[s]
    <3>1. PICK w \in Weights \cup {weight[s]} :
            /\ ResetWeight(s, i, w)
            /\ adds' = [adds EXCEPT ![c] = UpdateSums(w - weight[s], i)]
            /\ inflight' = [inflight EXCEPT ![s] = @ - 1]
            /\ UNCHANGED disabled
      BY <2>1, <2>8 DEF Update
    <3>2. inflight[s] - 1 \in Int
      BY <1>2, <2>2 DEF WeightsInv
    <3> QED
      BY <2>4, <2>5, <3>1, <3>2
  <2> QED
    BY <1>4, <2>1, <2>6, <2>7, <2>8 DEF AddInflight, Update
<1>5. CASE AddNext(c)
  BY <1>5, AddNextTyped
<1> QED
  BY <1>3, <1>4, <1>5 DEF Caller, BeginSelect, Draw, LoadLeft, LoadSelf,
     EndInflight, Feedback, FindServer, EndFeedback

(* The steps of an updater that are about neither weights nor sums. *)
LEMMA PointNumbers ==
  ASSUME HeldInv, TypeInv, NEW u \in Updaters,
         \/ \E s \in Servers : AddServer(u, s) \/ RemoveServer(u, s)
         \/ BeginModify(u) \/ Publish(u) \/ WaitReaders(u) \/ EndModify(u)
  PROVE  WeightsInv' /\ NumberInv'
<1>1. UNCHANGED <<tree, server_map, sumVars, weightVars, adds>>
  BY DEF AddServer, RemoveServer, BeginModify, Publish, WaitReaders, EndModify,
         treeVars
<1>2. /\ DOMAIN update = Updaters /\ DOMAIN update[u] = UpdateFields
      /\ \A v \in Updaters : update[v].rm \in Int
  BY DEF HeldInv, TypeInv, NumberInv
<1>3. \A v \in Updaters : update'[v].rm \in {0, update[v].rm}
  <2>1. ASSUME NEW s \in Servers, AddServer(u, s) \/ RemoveServer(u, s)
        PROVE  \A v \in Updaters : update'[v].rm \in {0, update[v].rm}
    <3>1. PICK op : update' = [update EXCEPT ![u] =
                    [NoUpdate EXCEPT !.pc = "wait", !.op = op, !.server = s]]
      BY <2>1 DEF AddServer, RemoveServer, NoUpdate
    <3>2. [NoUpdate EXCEPT !.pc = "wait", !.op = op, !.server = s].rm = 0
      BY DEF NoUpdate
    <3> QED
      BY <1>2, <3>1, <3>2
  <2>2. CASE EndModify(u)
    BY <1>2, <2>2 DEF EndModify, NoUpdate
  <2>3. CASE BeginModify(u)
    BY <1>2, <2>3 DEF BeginModify, UpdateFields
  <2>4. CASE Publish(u)
    BY <1>2, <2>4 DEF Publish, UpdateFields
  <2>5. CASE WaitReaders(u)
    BY <1>2, <2>5 DEF WaitReaders, UpdateFields
  <2> QED
    BY <2>1, <2>2, <2>3, <2>4, <2>5
<1>4. \A v \in Updaters : update'[v].rm \in Int
  BY <1>2, <1>3
<1> QED
  BY <1>1, <1>4 DEF TypeInv, WeightsInv, NumberInv, weightVars, sumVars

(* The copies, after a change of one of them. *)
LEMMA CopyTyped ==
  ASSUME HeldInv, TypeInv, TreeInv', NEW x, NEW y,
         tree' = [tree EXCEPT ![1 - index] = x],
         server_map' = [server_map EXCEPT ![1 - index] = y]
  PROVE  /\ tree' \in [{0, 1} -> Seq(Servers)]
         /\ server_map' = [b \in {0, 1} |-> server_map'[b]]
<1>1. 1 - index \in {0, 1} /\ tree \in [{0, 1} -> Seq(Servers)]
      /\ server_map = [b \in {0, 1} |-> server_map[b]]
  BY DEF HeldInv, TypeInv, NumberInv
<1>2. tree'[1 - index] \in Seq(Servers)
  BY <1>1 DEF TreeInv, WellFormed
<1> QED
  BY <1>1, <1>2

LEMMA QuotientTyped ==
  ASSUME NEW a \in Int, NEW n \in Nat \ {0}
  PROVE  Quotient(a, n) \in Int
<1>1. \A b \in Int : b \div n \in Int
  OBVIOUS
<1> QED
  BY <1>1 DEF Quotient

LEMMA AddNodeNumbers ==
  ASSUME OneUpdater, HeldInv, TreeInv, TypeInv, NEW u \in Updaters, AddNode(u)
  PROVE  WeightsInv' /\ NumberInv'
<1>1. PICK s, bg, n : /\ s = update[u].server /\ bg = tree[1 - index]
                      /\ n = Len(bg)
  OBVIOUS
<1>2. PICK x, y : /\ tree' = [tree EXCEPT ![1 - index] = x]
                  /\ server_map' = [server_map EXCEPT ![1 - index] = y]
  BY DEF AddNode
<1>3. /\ tree' \in [{0, 1} -> Seq(Servers)]
      /\ server_map' = [b \in {0, 1} |-> server_map'[b]]
  BY <1>2, AddNodeTree, CopyTyped
<1>4. /\ DOMAIN update = Updaters /\ DOMAIN update[u] = UpdateFields
      /\ \A v \in Updaters : update[v].rm \in Int
      /\ WeightsInv /\ NumberInv
  BY DEF HeldInv, TypeInv, NumberInv
<1>5. \A v \in Updaters : update'[v].rm \in Int
  BY <1>4 DEF AddNode, UpdateFields
<1>6. CASE s \notin DOMAIN server_map[index]
  <2>1. PICK w : w = InitialWeight(n)
    OBVIOUS
  <2>2. /\ NewWeight(s, w) /\ left' = [left EXCEPT ![n] = 0]
        /\ adds' = [adds EXCEPT ![u] = UpdateSums(w, n)]
        /\ UNCHANGED total_weight
    BY <1>1, <1>6, <2>1 DEF AddNode
  <2>3. s \in Servers /\ n \in Positions /\ n \in Nat
    <3>1. WellFormed(bg, server_map[1 - index]) /\ Stage(u)
      BY <1>1 DEF TreeInv, HeldInv
    <3>2. s \in Servers /\ s \notin ToSet(bg)
      <4>1. update[u].pc = "apply" /\ update[u].op = "add"
        BY DEF AddNode, Doing
      <4> QED
        BY <1>1, <3>1, <4>1 DEF Stage, Changed
    <3> QED
      BY <1>1, <3>1, <3>2, PlaceIs, SizeIs
  <2>4. w \in Int
    BY <1>4, <2>1, <2>3, WeightsAssumption, QuotientTyped
       DEF NumberInv, InitialWeight
  <2>5. /\ left' \in [Positions -> Int] /\ total_weight' \in Int
        /\ adds' \in [Callers \cup Updaters -> Seq(Additions)]
    <3>1. UpdateSums(w, n) \in Seq(Additions)
      BY <2>3, <2>4, SumsTyped
    <3>2. adds' \in [Callers \cup Updaters -> Seq(Additions)]
      BY <1>4, <2>2, <3>1 DEF NumberInv
    <3> QED
      BY <1>4, <2>2, <2>3, <3>2 DEF NumberInv
  <2>6. WeightsInv'
    <3>1. NotOld \in [index : Positions \cup {None}, diff : Int, weight : Int]
      BY DEF NotOld
    <3>2. /\ weight' = [weight EXCEPT ![s] = w]
          /\ disabled' = [disabled EXCEPT ![s] = w < 0]
          /\ old' = [old EXCEPT ![s] = NotOld]
          /\ inflight' = [inflight EXCEPT ![s] = 0]
      BY <2>2 DEF NewWeight
    <3>3. (w < 0) \in BOOLEAN
      OBVIOUS
    <3>4. disabled' \in [Servers -> BOOLEAN]
      BY <1>4, <2>3, <3>2, <3>3 DEF WeightsInv
    <3> QED
      BY <1>4, <2>3, <2>4, <3>1, <3>2, <3>4 DEF WeightsInv
  <2> QED
    BY <1>3, <1>5, <2>5, <2>6 DEF NumberInv
<1>7. CASE s \in DOMAIN server_map[index]
  <2>1. UNCHANGED <<left, total_weight, weight, disabled, old, inflight, adds>>
    BY <1>1, <1>7 DEF AddNode, weightVars
  <2> QED
    BY <1>3, <1>4, <1>5, <2>1 DEF NumberInv, WeightsInv
<1> QED
  BY <1>6, <1>7

LEMMA RemoveNodeNumbers ==
  ASSUME OneUpdater, HeldInv, TreeInv, TypeInv, NEW u \in Updaters,
         RemoveNode(u)
  PROVE  WeightsInv' /\ NumberInv'
<1>1. PICK t, m, s, i, rm :
        /\ Removing(u, t, m, s, i, rm)
        /\ t = tree[1 - index] /\ m = server_map[1 - index]
        /\ s = update[u].server /\ i = RemovedAt(u)
        /\ rm = weight[t[i + 1]]
  BY RemoveNodeIs
<1>2. PICK x, y : /\ tree' = [tree EXCEPT ![1 - index] = x]
                  /\ server_map' = [server_map EXCEPT ![1 - index] = y]
  BY <1>1 DEF Removing
<1>3. /\ tree' \in [{0, 1} -> Seq(Servers)]
      /\ server_map' = [b \in {0, 1} |-> server_map'[b]]
  BY <1>2, RemoveNodeTree, CopyTyped
<1>4. /\ DOMAIN update = Updaters /\ DOMAIN update[u] = UpdateFields
      /\ \A v \in Updaters : update[v].rm \in Int
      /\ WeightsInv /\ NumberInv
  BY DEF HeldInv, TypeInv, NumberInv
<1>5. /\ i \in Positions /\ t[i + 1] \in Servers
  <2>1. WellFormed(t, m)
    BY <1>1 DEF TreeInv, HeldInv
  <2>2. i \in Nat /\ i <= Len(t) - 1
    BY <1>1, <2>1 DEF RemovedAt, WellFormed, Removing
  <2>3. i \in Places(t)
    BY <2>1, <2>2, SizeIs DEF Places
  <2> QED
    BY <2>1, <2>3, PlaceIs
<1>6. rm \in Int
  BY <1>1, <1>4, <1>5 DEF WeightsInv
<1>7. WeightsInv'
  BY <1>1, <1>4, <1>5 DEF Removing, Disable, WeightsInv
<1>8. adds' \in [Callers \cup Updaters -> Seq(Additions)]
  <2>1. adds' = adds \/ adds' = [adds EXCEPT ![u] = UpdateSums(-rm, i)]
    BY <1>1 DEF Removing
  <2>2. UpdateSums(-rm, i) \in Seq(Additions)
    BY <1>5, <1>6, SumsTyped
  <2> QED
    BY <1>4, <2>1, <2>2 DEF NumberInv
<1>9. \A v \in Updaters : update'[v].rm \in Int
  <2>1. \E r : /\ update' = [update EXCEPT ![u] = r]
               /\ r.rm \in {rm, update[u].rm}
    <3>1. CASE update' = [update EXCEPT ![u].pc = "applied"]
      <4>1. [update[u] EXCEPT !.pc = "applied"].rm = update[u].rm
        BY <1>4 DEF UpdateFields
      <4> QED
        BY <3>1, <4>1
    <3>2. CASE update' = [update EXCEPT ![u] = [@ EXCEPT !.pc = "move",
                                                    !.at = i, !.rm = rm]]
      <4>1. [update[u] EXCEPT !.pc = "move", !.at = i, !.rm = rm].rm = rm
        BY <1>4 DEF UpdateFields
      <4> QED
        BY <3>2, <4>1
    <3> QED
      BY <1>1, <3>1, <3>2 DEF Removing
  <2> QED
    BY <1>4, <1>6, <2>1
<1>10. UNCHANGED <<left, total_weight>>
  BY <1>1 DEF Removing
<1> QED
  BY <1>3, <1>4, <1>7, <1>8, <1>9, <1>10 DEF NumberInv

LEMMA MoveLastNumbers ==
  ASSUME HeldInv, TreeInv, TypeInv, NEW u \in Updaters, MoveLast(u)
  PROVE  WeightsInv' /\ NumberInv'
<1>1. PICK t, i, n, s, rm :
        /\ t = tree[1 - index] /\ i = update[u].at /\ n = Len(t)
        /\ s = t[i + 1] /\ rm = update[u].rm
  OBVIOUS
<1>2. /\ UNCHANGED <<tree, server_map, left, total_weight>>
      /\ update[u].pc = "move"
      /\ update' = [update EXCEPT ![u].pc = "applied"]
  BY DEF MoveLast, Doing, treeVars, sumVars
<1>3. /\ DOMAIN update = Updaters /\ DOMAIN update[u] = UpdateFields
      /\ \A v \in Updaters : update[v].rm \in Int
      /\ WeightsInv /\ NumberInv
  BY DEF HeldInv, TypeInv, NumberInv
<1>4. /\ i \in Positions /\ n \in Positions /\ s \in Servers
  <2>1. WellFormed(t, server_map[1 - index]) /\ Stage(u)
    BY <1>1 DEF TreeInv, HeldInv
  <2>2. /\ i \in Places(t) /\ update[u].server \in Servers
        /\ update[u].server \notin ToSet(t)
    BY <1>1, <1>2, <2>1 DEF Stage
  <2> QED
    BY <1>1, <2>1, <2>2, PlaceIs
<1>5. rm \in Int /\ weight[s] \in Int /\ old[s].diff \in Int
      /\ old[s].weight \in Int
  BY <1>1, <1>3, <1>4 DEF WeightsInv
<1>6. WeightsInv'
  <2>1. CASE MarkOld(s, n)
    BY <1>3, <1>4, <1>5, <2>1 DEF MarkOld, WeightsInv
  <2>2. CASE ClearOld(s)
    <3>1. NotOld \in [index : Positions \cup {None}, diff : Int, weight : Int]
      BY DEF NotOld
    <3> QED
      BY <1>3, <1>4, <2>2, <3>1 DEF ClearOld, WeightsInv
  <2> QED
    BY <1>1, <2>1, <2>2 DEF MoveLast
<1>7. adds' \in [Callers \cup Updaters -> Seq(Additions)]
  <2>0. /\ weight[s] - rm \in Int /\ old[s].diff \in Int
        /\ -old[s].weight - old[s].diff \in Int /\ -old[s].weight \in Int
    BY <1>5
  <2>1. UpdateSums(weight[s] - rm, i) \in Seq(Additions)
    BY <1>4, <2>0, SumsTyped
  <2>2. /\ UpdateParentWeight(old[s].diff, i) \in Seq(Additions)
        /\ UpdateParentWeight(-old[s].weight - old[s].diff, n) \in Seq(Additions)
        /\ UpdateTotal(-old[s].weight) \in Seq(Additions)
    BY <1>4, <2>0, SumsTyped
  <2>3. UpdateParentWeight(old[s].diff, i)
        \o UpdateParentWeight(-old[s].weight - old[s].diff, n)
        \o UpdateTotal(-old[s].weight) \in Seq(Additions)
    BY <2>2
  <2>4. \E x \in Seq(Additions) : adds' = [adds EXCEPT ![u] = x]
    BY <1>1, <2>1, <2>3 DEF MoveLast
  <2> QED
    BY <1>3, <2>4 DEF NumberInv
<1>8. \A v \in Updaters : update'[v].rm \in Int
  BY <1>2, <1>3 DEF UpdateFields
<1> QED
  BY <1>2, <1>3, <1>6, <1>7, <1>8 DEF NumberInv

LEMMA UpdaterTypes ==
  ASSUME OneUpdater, HeldInv, TreeInv, TypeInv, NEW u \in Updaters, Updater(u)
  PROVE  TypeInv'
<1>1. WeightsInv' /\ NumberInv'
  BY AddNextTyped, PointNumbers, AddNodeNumbers, RemoveNodeNumbers,
     MoveLastNumbers, RemoveFromNothingNot DEF Updater
<1>2. UNCHANGED call
  BY DEF Updater, AddServer, RemoveServer, BeginModify, AddNode, RemoveNode,
         RemoveFromNothing, MoveLast, Publish, WaitReaders, EndModify, AddNext
<1>3. HeldStep
  BY NextHeld DEF Next
<1>4. ASSUME NEW c \in Callers PROVE Inside(c)'
  <2>2. call[c].buf = None => Inside(c)'
    BY <1>2, NoneAssumption DEF TypeInv, CallerInv, Inside
  <2>3. call[c].buf # None => Inside(c)'
    BY <1>2, <1>3 DEF TypeInv, CallerInv, Inside, HeldStep
  <2> QED
    BY <2>2, <2>3
<1> QED
  BY <1>1, <1>4 DEF TypeInv, CallerInv

LEMMA NextTypes ==
  OneUpdater /\ HeldInv /\ TreeInv /\ TypeInv /\ [Next]_vars => TypeInv'
<1> SUFFICES ASSUME OneUpdater, HeldInv, TreeInv, TypeInv, [Next]_vars
             PROVE  TypeInv'
  OBVIOUS
<1>1. ASSUME NEW c \in Callers, Caller(c) PROVE TypeInv'
  BY <1>1, CallerInside, CallerNumbers DEF TypeInv
<1>2. CASE UNCHANGED vars
  BY <1>2 DEF vars, treeVars, sumVars, weightVars, TypeInv, CallerInv, Inside,
              WeightsInv, NumberInv
<1> QED
  BY <1>1, <1>2, UpdaterTypes DEF Next

LEMMA TypesFollow == HeldInv /\ TreeInv /\ TypeInv => TypeOK
<1> SUFFICES ASSUME HeldInv, TreeInv, TypeInv PROVE TypeOK
  OBVIOUS
<1>1. /\ known \in SUBSET Servers /\ index \in {0, 1}
      /\ modifying \in Updaters \cup {None}
      /\ tree \in [{0, 1} -> Seq(Servers)]
      /\ left \in [Positions -> Int] /\ total_weight \in Int
      /\ WeightsInv
  BY DEF HeldInv, TreeInv, TypeInv, NumberInv
<1>2. server_map \in [{0, 1} -> Lookups]
  <2>1. ASSUME NEW b \in {0, 1} PROVE server_map[b] \in Lookups
    <3>1. PICK t, m : /\ t = tree[b] /\ m = server_map[b] /\ WellFormed(t, m)
      BY DEF TreeInv
    <3>2. ToSet(t) \in SUBSET Servers
      BY <3>1, Elements DEF WellFormed
    <3>3. m \in [ToSet(t) -> Positions]
      BY <3>1, PlaceIs DEF WellFormed
    <3> QED
      BY <3>1, <3>2, <3>3 DEF Lookups
  <2> QED
    BY <2>1 DEF TypeInv, NumberInv
<1>3. \A t \in DOMAIN adds : \A k \in DOMAIN adds[t] : adds[t][k] \in Additions
  <2>1. ASSUME NEW t \in Callers \cup Updaters, NEW k \in DOMAIN adds[t]
        PROVE  adds[t][k] \in Additions
    <3>1. PICK a, S : a = adds[t] /\ S = Additions /\ a \in Seq(S)
      BY DEF TypeInv, NumberInv
    <3> QED
      BY <3>1
  <2> QED
    BY <2>1 DEF TypeInv, NumberInv
<1> QED
  BY <1>1, <1>2, <1>3 DEF TypeOK, WeightsInv, Additions

LEMMA SpecTypes ==
  ASSUME OneUpdater PROVE Spec => [](HeldInv /\ TreeInv /\ TypeInv)
<1>1. Init => HeldInv /\ TreeInv /\ TypeInv
  BY InitHeld, InitTree, StartTyped
<1>2. HeldInv /\ TreeInv /\ TypeInv /\ [Next]_vars
        => (HeldInv /\ TreeInv /\ TypeInv)'
  BY NextHeld, NextTree, NextTypes
<1> QED
  BY <1>1, <1>2, PTL DEF Spec

(* Every variable of the balancer keeps its type.  With as many nodes as there
   are servers, no sum is ever added to past the end of the array: each of the
   additions that a thread has still to make is to a position or the total, of
   an amount that is not 0, although it was computed from a copy of the tree
   and a place in it that may have changed since. *)
THEOREM TypeCorrect == ASSUME OneUpdater PROVE Spec => []TypeOK
<1>1. HeldInv /\ TreeInv /\ TypeInv => TypeOK
  BY TypesFollow
<1> QED
  BY <1>1, SpecTypes, PTL

-----------------------------------------------------------------------------
(* WeightedRandom: its own steps of callers leave the tree, the weights and
   the sums as they are. *)
LEMMA RightStep ==
  ASSUME HeldInv, NEW c \in Callers, NEW i, NEW dice,
         call' = Right(c, i, dice)
  PROVE  /\ DOMAIN call' = Callers
         /\ \A d \in Callers \ {c} : call'[d] = call[d]
         /\ DOMAIN call'[c] = CallFields
         /\ call'[c].buf \in {call[c].buf, None} /\ call'[c].at \in {0, i}
         /\ call'[c].pc \in {"idle", "draw", "left"}
         /\ call'[c].pc # "idle" => call'[c].buf = call[c].buf
         /\ call'[c].pc = "left" =>
                /\ call'[c].at = i /\ call'[c].dice = dice
                /\ i < Len(Buffer(c))
<1>1. CASE i < Len(Buffer(c))
  <2>1. call' = [call EXCEPT ![c].pc = "left", ![c].at = i, ![c].dice = dice]
    BY <1>1 DEF Right, Down
  <2>2. DOMAIN call = Callers /\ DOMAIN call[c] = CallFields
    BY DEF HeldInv
  <2> QED
    BY <1>1, <2>1, <2>2 DEF CallFields
<1>2. CASE ~(i < Len(Buffer(c)))
  <2>1. call' = Retry(c, 1)
    BY <1>2 DEF Right
  <2>2. /\ DOMAIN call' = Callers
        /\ \A d \in Callers \ {c} : call'[d] = call[d]
        /\ DOMAIN call'[c] = CallFields
        /\ call'[c].buf \in {call[c].buf, None}
        /\ call'[c].pc \in {"idle", "draw"} /\ call'[c].at = 0
    BY <2>1, RetryStep
  <2>3. call'[c].pc # "idle" => call'[c].buf = call[c].buf
    BY <2>1 DEF Retry, NoCall, HeldInv
  <2> QED
    BY <2>2, <2>3
<1> QED
  BY <1>1, <1>2

LEMMA VisitStep ==
  ASSUME HeldInv, NEW c \in Callers, Visit(c)
  PROVE  /\ CallerStep(c)
         /\ call[c].at \in Nat => call'[c].at \in Nat
         /\ call'[c].pc \in {"idle", "draw", "left", "calling"}
         /\ call'[c].pc \in {"draw", "left"} => call'[c].buf = call[c].buf
         /\ UNCHANGED <<sumVars, weightVars, adds, unfed>>
<1>1. /\ UNCHANGED <<known, tree, server_map, index, update, modifying>>
      /\ UNCHANGED <<sumVars, weightVars, adds, unfed>>
      /\ DOMAIN call = Callers /\ DOMAIN call[c] = CallFields
  BY DEF Visit, HeldInv, treeVars
<1>2. PICK i, dice, upTo :
        /\ i = call[c].at /\ dice = call[c].dice
        /\ \/ call' = Down(c, 2 * i + 1, dice)
           \/ call' = Right(c, 2 * i + 2, dice - upTo)
           \/ call' = [call EXCEPT ![c] = [NoCall EXCEPT !.pc = "calling",
                                            !.node = Buffer(c)[i + 1]]]
  BY DEF Visit
<1>3. CASE call' = Down(c, 2 * i + 1, dice)
  BY <1>1, <1>2, <1>3 DEF Down, CallFields, CallerStep
<1>4. CASE call' = Right(c, 2 * i + 2, dice - upTo)
  <2>1. i \in Nat => 2 * i + 2 \in Nat
    OBVIOUS
  <2> QED
    BY <1>1, <1>2, <1>4, <2>1, RightStep DEF CallerStep
<1>5. CASE call' = [call EXCEPT ![c] = [NoCall EXCEPT !.pc = "calling",
                                            !.node = Buffer(c)[i + 1]]]
  BY <1>1, <1>5 DEF NoCall, CallFields, CallerStep
<1> QED
  BY <1>2, <1>3, <1>4, <1>5

LEMMA UpdateWeightStep ==
  ASSUME HeldInv, NEW c \in Callers, UpdateWeight(c)
  PROVE  /\ CallerStep(c)
         /\ call'[c].at \in {0, call[c].at} /\ call'[c].pc \in {"idle", "lost"}
         /\ call'[c].pc = "lost" => failed'
         /\ UNCHANGED <<sumVars, weight, disabled, old, adds>>
<1>1. /\ UNCHANGED <<known, tree, server_map, index, update, modifying>>
      /\ UNCHANGED <<sumVars, weight, disabled, old, adds>>
      /\ DOMAIN call = Callers /\ DOMAIN call[c] = CallFields
  BY DEF UpdateWeight, HeldInv, treeVars
<1>2. \/ call' = [call EXCEPT ![c] = NoCall]
      \/ failed' = TRUE /\ call' = [call EXCEPT ![c].pc = "lost"]
  BY DEF UpdateWeight, Goto
<1> QED
  BY <1>1, <1>2, NoCallFields DEF CallerStep, CallFields

LEMMA CallingSteps ==
  ASSUME HeldInv, NEW c \in Callers, Calling(c)
  PROVE  CallerStep(c)
<1>1. Begin(c) \/ Cast(c) \/ Left(c) \/ IsKnown(c) \/ Find(c) => Caller(c)
  BY DEF Begin, Cast, Left, IsKnown, Find, Caller
<1> QED
  BY <1>1, CallerSteps, VisitStep, UpdateWeightStep DEF Calling

LEMMA UpdatingSteps ==
  ASSUME NEW u \in Updaters, Updating(u)
  PROVE  Updater(u)
  BY DEF Updating, Updater, add_server, remove_server, Add, RemoveFrom,
         SwapLast, AddUp, Modify

(* The invariants of the tree are kept in WeightedRandom too. *)
LEMMA CallingTypes ==
  ASSUME HeldInv, TreeInv, TypeInv, NEW c \in Callers, Calling(c)
  PROVE  HeldInv' /\ TreeInv' /\ TypeInv'
<1>1. call[c].at \in Nat /\ Inside(c)
  BY DEF TypeInv, CallerInv, Inside
<1>2. CallerStep(c)
  BY <1>1, CallingSteps
<1>3. HeldInv' /\ TreeInv'
  BY <1>2, CallerHeld, SameTree DEF CallerStep
<1>4. TypeInv'
  <2>1. CASE Begin(c) \/ Cast(c) \/ Left(c) \/ IsKnown(c) \/ Find(c)
    <3>1. Caller(c)
      BY <2>1 DEF Begin, Cast, Left, IsKnown, Find, Caller
    <3> QED
      BY <3>1, CallerInside, CallerNumbers DEF TypeInv
  <2>2. CASE Visit(c)
    <3>1. /\ call'[c].at \in Nat
          /\ call'[c].pc \in {"idle", "draw", "left", "calling"}
          /\ call'[c].pc \in {"draw", "left"} => call'[c].buf = call[c].buf
          /\ UNCHANGED <<sumVars, weightVars, adds, unfed>>
      BY <1>1, <2>2, VisitStep
    <3>2. call[c].pc = "self"
      BY <2>2 DEF Visit, At
    <3>3. CallerInv'
      BY <1>1, <1>2, <3>1, <3>2 DEF TypeInv, CallerInv, Inside, CallerStep
    <3> QED
      BY <1>2, <3>1, <3>3 DEF TypeInv, WeightsInv, NumberInv, CallerStep,
                              sumVars, weightVars
  <2>3. CASE UpdateWeight(c)
    <3>1. /\ call'[c].at \in {0, call[c].at} /\ call'[c].pc \in {"idle", "lost"}
          /\ UNCHANGED <<sumVars, weight, disabled, old, adds>>
      BY <2>3, UpdateWeightStep
    <3>2. CallerInv'
      BY <1>1, <1>2, <3>1 DEF TypeInv, CallerInv, Inside, CallerStep
    <3>3. inflight' \in [Servers -> Int]
      <4>1. PICK s : \/ UNCHANGED inflight
                     \/ inflight' = [inflight EXCEPT ![s] = @ - 1]
        BY <2>3 DEF UpdateWeight
      <4> QED
        BY <4>1 DEF TypeInv, WeightsInv
    <3> QED
      BY <1>2, <3>1, <3>2, <3>3 DEF TypeInv, WeightsInv, NumberInv, CallerStep,
                                    sumVars
  <2> QED
    BY <2>1, <2>2, <2>3 DEF Calling
<1> QED
  BY <1>3, <1>4

TypeInvW ==
    /\ answers \in [Servers -> 0 .. Window]
    /\ failed \in BOOLEAN

LEMMA NextTypesW ==
  ASSUME OneUpdater, HeldInv, TreeInv, TypeInv, TypeInvW, [NextW]_varsW
  PROVE  (HeldInv /\ TreeInv /\ TypeInv /\ TypeInvW)'
<1>1. ASSUME NEW c \in Callers, Calling(c) PROVE TypeInvW'
  <2>1. CASE UNCHANGED unfed
    BY <2>1 DEF TypeInvW, unfed
  <2>2. CASE UpdateWeight(c)
    <3>1. PICK s : \/ UNCHANGED answers
                   \/ answers' = [answers EXCEPT ![s] = Enter(@)]
      BY <2>2 DEF UpdateWeight, unfed
    <3>2. failed' \in {failed, TRUE}
      BY <2>2 DEF UpdateWeight, unfed
    <3>3. \A n \in 0 .. Window : Enter(n) \in 0 .. Window
      BY WindowAssumption DEF Enter
    <3> QED
      BY <3>1, <3>2, <3>3 DEF TypeInvW
  <2> QED
    BY <1>1, <2>1, <2>2 DEF Calling, Begin, Cast, Left, Visit, IsKnown, Find
<1>2. ASSUME NEW u \in Updaters, Updating(u) PROVE TypeInvW'
  <2>1. CASE UNCHANGED unfed
    BY <2>1 DEF TypeInvW, unfed
  <2>2. CASE Add(u)
    <3>1. PICK s : answers' \in {answers, [answers EXCEPT ![s] = 0]}
      BY <2>2 DEF Add
    <3>2. 0 \in 0 .. Window /\ failed' = failed
      BY <2>2, WindowAssumption DEF Add
    <3>3. answers' \in [Servers -> 0 .. Window]
      BY <3>1, <3>2 DEF TypeInvW
    <3> QED
      BY <3>2, <3>3 DEF TypeInvW
  <2> QED
    BY <1>2, <2>1, <2>2 DEF Updating, add_server, remove_server, RemoveFrom,
                            SwapLast, AddUp, Modify
<1>3. ASSUME NEW u \in Updaters, Updating(u)
      PROVE  HeldInv' /\ TreeInv' /\ TypeInv'
  <2>1. Updater(u)
    BY <1>3, UpdatingSteps
  <2> QED
    BY <2>1, NextHeld, UpdaterTree, UpdaterTypes DEF Next
<1>4. CASE UNCHANGED varsW
  <2>1. UNCHANGED vars /\ UNCHANGED <<answers, failed>>
    BY <1>4 DEF varsW
  <2> QED
    BY <2>1, NextHeld, NextTree, NextTypes DEF TypeInvW
<1> QED
  BY <1>1, <1>2, <1>3, <1>4, CallingTypes DEF NextW

LEMMA SpecTypesW ==
  ASSUME OneUpdater
  PROVE  SpecW => [](HeldInv /\ TreeInv /\ TypeInv /\ TypeInvW)
<1>1. InitW => HeldInv /\ TreeInv /\ TypeInv /\ TypeInvW
  <2>1. 0 \in 0 .. Window
    BY WindowAssumption
  <2>2. InitW => TypeInvW
    BY <2>1 DEF InitW, TypeInvW
  <2> QED
    BY <2>2, InitHeld, InitTree, StartTyped DEF InitW
<1>2. HeldInv /\ TreeInv /\ TypeInv /\ TypeInvW /\ [NextW]_varsW
        => (HeldInv /\ TreeInv /\ TypeInv /\ TypeInvW)'
  BY NextTypesW
<1> QED
  BY <1>1, <1>2, PTL DEF SpecW

(* The same for WeightedRandomLoadBalancer, whose window of answers never has
   more than RECV_QUEUE_SIZE entries. *)
THEOREM TypeCorrectW == ASSUME OneUpdater PROVE SpecW => []TypeOKW
<1>1. HeldInv /\ TreeInv /\ TypeInv /\ TypeInvW => TypeOKW
  BY TypesFollow DEF TypeOKW, TypeInvW
<1> QED
  BY <1>1, SpecTypesW, PTL

LEMMA NextHeldW ==
  ASSUME HeldInv, [NextW]_varsW
  PROVE  HeldInv'
<1>1. ASSUME NEW c \in Callers, Calling(c) PROVE HeldInv'
  BY <1>1, CallingSteps, CallerHeld
<1>2. ASSUME NEW u \in Updaters, Updating(u) PROVE HeldInv'
  BY <1>2, UpdatingSteps, NextHeld DEF Next
<1>3. CASE UNCHANGED varsW
  BY <1>3, NextHeld DEF varsW
<1> QED
  BY <1>1, <1>2, <1>3 DEF NextW

-----------------------------------------------------------------------------
(* The left sum of position p in a tree of n nodes of weight Scale. *)
Share(n, p) == Scale * Cardinality({i \in 0 .. n - 1 : p \in LeftParents(i)})

(* A node with something to its left has a left child. *)
LEMMA LeftChild ==
  ASSUME NEW n \in Nat, NEW p \in Nat, Share(n, p) > 0
  PROVE  2 * p + 1 < n
<1>1. PICK S : S = {i \in 0 .. n - 1 : p \in LeftParents(i)}
  OBVIOUS
<1>2. S # {}
  <2> SUFFICES ASSUME S = {} PROVE FALSE
    OBVIOUS
  <2>1. Cardinality(S) = 0
    BY FS_EmptySet
  <2>2. Share(n, p) = 0
    BY <1>1, <2>1, WeightsAssumption DEF Share
  <2> QED
    BY <2>2
<1>3. PICK i \in 0 .. n - 1 : p \in LeftParents(i)
  BY <1>1, <1>2
<1>4. 2 * p + 1 \in 0 .. i
  BY <1>3 DEF LeftParents, WithAncestors
<1> QED
  BY <1>3, <1>4

(* Nothing has been added or removed yet. *)
AtStart ==
    /\ \A b \in {0, 1} : tree[b] = Start /\ WellFormed(Start, server_map[b])
    /\ \A p \in Positions : left[p] = Share(Len(Start), p)
    /\ total_weight = Scale * Len(Start)
    /\ \A s \in ToSet(Start) : weight[s] = Scale
    /\ \A u \in Updaters : update[u].pc = "idle" /\ adds[u] = << >>

(* A caller's walk in that tree: what is left of the dice is not negative, and
   a node's left sum is the one that was read. *)
Walking(c) ==
    /\ call[c].pc # "lost"
    /\ call[c].pc \in {"draw", "left", "self"} => call[c].buf \in {0, 1}
    /\ call[c].pc \in {"left", "self"} =>
        call[c].at \in Places(Start) /\ call[c].dice \in Nat
    /\ call[c].pc = "self" => call[c].left = left[call[c].at]
    /\ call[c].pc \in {"calling", "feedback"} =>
        call[c].node \in ToSet(Start)

LostInv ==
    /\ ops \in Nat
    /\ ops = 0 => AtStart /\ (failed # TRUE => \A c \in Callers : Walking(c))

LEMMA InitLost == HeldInv /\ InitW => LostInv
<1> SUFFICES ASSUME HeldInv, InitW PROVE LostInv
  OBVIOUS
<1>1. TreeInv /\ Init
  BY InitTree DEF InitW
<1>2. /\ \A b \in {0, 1} : tree[b] = Start /\ WellFormed(Start, server_map[b])
      /\ \A u \in Updaters : update[u].pc = "idle" /\ adds[u] = << >>
      /\ \A c \in Callers : call[c].pc = "idle"
      /\ ops = 0 /\ total_weight = Scale * Len(Start)
  BY <1>1 DEF Init, TreeInv, NoUpdate, NoCall
<1>3. \A p \in Positions : left[p] = Share(Len(Start), p)
  BY <1>1 DEF Init, Share, Places
<1>4. \A s \in ToSet(Start) : weight[s] = Scale
  BY <1>1, ServersAssumption, Elements DEF Init
<1> QED
  BY <1>2, <1>3, <1>4 DEF LostInv, AtStart, Walking

LEMMA StartPlaces ==
  ASSUME AtStart
  PROVE  /\ Len(Start) \in Nat /\ Places(Start) \subseteq Positions
         /\ \A i \in Places(Start) :
                /\ i \in Nat /\ i < Len(Start) /\ Start[i + 1] \in ToSet(Start)
                /\ left[i] \in Int
                /\ left[i] > 0 => 2 * i + 1 \in Places(Start)
         /\ Scale \in Nat \ {0}
<1>1. PICK m : WellFormed(Start, m)
  BY DEF AtStart
<1>2. Len(Start) \in Nat /\ Places(Start) \subseteq Positions
  BY <1>1, SizeIs, PlaceIs
<1>3. Scale \in Nat \ {0}
  BY WeightsAssumption
<1>4. ASSUME NEW i \in Places(Start)
      PROVE  /\ i \in Nat /\ i < Len(Start) /\ Start[i + 1] \in ToSet(Start)
             /\ left[i] \in Int
             /\ left[i] > 0 => 2 * i + 1 \in Places(Start)
  <2>1. i \in Nat /\ i < Len(Start) /\ i + 1 \in 1 .. Len(Start)
    BY <1>2 DEF Places
  <2>2. Start[i + 1] \in ToSet(Start)
    BY <2>1, ServersAssumption, Elements
  <2>3. left[i] = Share(Len(Start), i)
    BY <1>2 DEF AtStart
  <2>4. left[i] \in Int
    <3>1. PICK S : S = {j \in 0 .. Len(Start) - 1 : i \in LeftParents(j)}
      OBVIOUS
    <3>2. IsFiniteSet(0 .. Len(Start) - 1) /\ S \in SUBSET (0 .. Len(Start) - 1)
      BY <1>2, <3>1, FS_Interval
    <3>3. IsFiniteSet(S)
      BY <3>2, FS_Subset
    <3>4. Cardinality(S) \in Nat
      BY <3>3, FS_CardinalityType
    <3> QED
      BY <1>3, <2>3, <3>1, <3>4 DEF Share
  <2>5. left[i] > 0 => 2 * i + 1 < Len(Start)
    BY <1>2, <2>1, <2>3, LeftChild
  <2> QED
    BY <1>2, <2>1, <2>2, <2>4, <2>5 DEF Places
<1> QED
  BY <1>2, <1>3, <1>4

LEMMA VisitWalking ==
  ASSUME HeldInv, AtStart, NEW c \in Callers, Walking(c), Visit(c),
         UNCHANGED left
  PROVE  Walking(c)'
<1>1. PICK i, dice, upTo :
        /\ i = call[c].at /\ dice = call[c].dice
        /\ upTo = call[c].left + weight[Buffer(c)[i + 1]]
        /\ \/ dice < call[c].left /\ call' = Down(c, 2 * i + 1, dice)
           \/ /\ dice >= call[c].left /\ dice >= upTo
              /\ call' = Right(c, 2 * i + 2, dice - upTo)
           \/ /\ call[c].left <= dice /\ dice < upTo
              /\ call' = [call EXCEPT ![c] = [NoCall EXCEPT !.pc = "calling",
                                                !.node = Buffer(c)[i + 1]]]
  BY DEF Visit
<1>2. /\ call[c].buf \in {0, 1} /\ i \in Places(Start) /\ dice \in Nat
      /\ call[c].left = left[i]
  BY <1>1 DEF Visit, At, Walking
<1>3. /\ Buffer(c) = Start /\ i \in Nat /\ i < Len(Start)
      /\ Start[i + 1] \in ToSet(Start)
      /\ left[i] \in Int /\ weight[Start[i + 1]] \in Nat
      /\ left[i] > 0 => 2 * i + 1 \in Places(Start)
      /\ Len(Start) \in Nat
  BY <1>2, StartPlaces DEF AtStart, Buffer
<1>4. DOMAIN call = Callers /\ DOMAIN call[c] = CallFields
  BY DEF HeldInv
<1>5. CASE dice < call[c].left /\ call' = Down(c, 2 * i + 1, dice)
  <2>1. 2 * i + 1 \in Places(Start)
    BY <1>2, <1>3, <1>5
  <2>2. /\ call'[c].pc = "left" /\ call'[c].at = 2 * i + 1
        /\ call'[c].buf = call[c].buf /\ call'[c].dice = dice
    BY <1>4, <1>5 DEF Down, CallFields
  <2> QED
    BY <1>2, <2>1, <2>2 DEF Walking
<1>6. CASE /\ dice >= call[c].left /\ dice >= upTo
           /\ call' = Right(c, 2 * i + 2, dice - upTo)
  <2>1. dice - upTo \in Nat /\ 2 * i + 2 \in Nat
    BY <1>1, <1>2, <1>3, <1>6
  <2>2. /\ call'[c].pc \in {"idle", "draw", "left"}
        /\ call'[c].pc # "idle" => call'[c].buf = call[c].buf
        /\ call'[c].pc = "left" =>
            /\ call'[c].at = 2 * i + 2 /\ call'[c].dice = dice - upTo
            /\ 2 * i + 2 < Len(Buffer(c))
    BY <1>6, RightStep
  <2>3. 2 * i + 2 < Len(Buffer(c)) => 2 * i + 2 \in Places(Start)
    BY <1>3, <2>1 DEF Places
  <2> QED
    BY <1>2, <2>1, <2>2, <2>3 DEF Walking
<1>7. CASE call' = [call EXCEPT ![c] = [NoCall EXCEPT !.pc = "calling",
                                                !.node = Buffer(c)[i + 1]]]
  BY <1>3, <1>4, <1>7 DEF NoCall, Walking
<1> QED
  BY <1>1, <1>5, <1>6, <1>7

LEMMA CallingWalking ==
  ASSUME HeldInv, AtStart, NEW c \in Callers, Walking(c), Calling(c),
         failed' # TRUE
  PROVE  Walking(c)'
<1>1. /\ UNCHANGED left /\ index \in {0, 1}
      /\ DOMAIN call = Callers /\ DOMAIN call[c] = CallFields
  BY DEF Calling, Begin, Cast, Left, Visit, IsKnown, Find, UpdateWeight,
         BeginSelect, Draw, LoadLeft, Feedback, FindServer, sumVars, HeldInv
<1>2. CASE Begin(c)
  BY <1>1, <1>2 DEF Begin, BeginSelect, NoCall, Walking
<1>3. CASE Cast(c)
  <2>1. CASE call' = [call EXCEPT ![c] = NoCall]
    BY <1>1, <2>1, NoCallFields DEF Walking
  <2>2. ASSUME NEW dice \in 1 .. total_weight,
               call' = [call EXCEPT ![c] =
                        [@ EXCEPT !.pc = "left", !.dice = dice, !.at = 0]]
        PROVE  Walking(c)'
    <3>1. call[c].buf \in {0, 1}
      BY <1>3 DEF Cast, Draw, At, Walking
    <3>2. Len(Start) \in Nat /\ Scale \in Nat
      BY StartPlaces
    <3>3. Len(Start) # 0 /\ dice \in Nat
      BY <2>2, <3>2 DEF AtStart
    <3>4. 0 \in Places(Start)
      BY <3>2, <3>3 DEF Places
    <3>5. /\ call'[c].pc = "left" /\ call'[c].dice = dice /\ call'[c].at = 0
          /\ call'[c].buf = call[c].buf
      BY <1>1, <2>2 DEF CallFields
    <3> QED
      BY <3>1, <3>3, <3>4, <3>5 DEF Walking
  <2> QED
    BY <1>3, <2>1, <2>2 DEF Cast, Draw
<1>4. CASE Left(c)
  <2>1. /\ call[c].buf \in {0, 1} /\ call[c].at \in Places(Start)
        /\ call[c].dice \in Nat
    BY <1>4 DEF Left, LoadLeft, At, Walking
  <2>2. call[c].at < Len(Buffer(c))
    BY <2>1, StartPlaces DEF AtStart, Buffer
  <2>3. call' = [call EXCEPT ![c].pc = "self", ![c].left = left[call[c].at]]
    BY <1>4, <2>2 DEF Left, LoadLeft
  <2> QED
    BY <1>1, <2>1, <2>3 DEF Walking, CallFields
<1>5. CASE IsKnown(c)
  BY <1>1, <1>5, NoCallFields DEF IsKnown, Feedback, Goto, At, Walking,
                                  CallFields
<1>6. CASE Find(c)
  <2>1. call[c].node \in ToSet(Start)
    BY <1>6 DEF Find, FindServer, At, Walking
  <2>2. /\ call[c].node \in DOMAIN server_map[index]
        /\ server_map[index][call[c].node] < Len(tree[index])
    BY <1>1, <2>1, StartPlaces DEF AtStart, WellFormed
  <2>3. \E i : call' = [call EXCEPT ![c].pc = "update", ![c].buf = index,
                                    ![c].at = i]
    BY <1>6, <2>2 DEF Find, FindServer
  <2> QED
    BY <1>1, <2>3 DEF Walking, CallFields
<1>7. CASE UpdateWeight(c)
  <2>1. call'[c].pc = "idle"
    BY <1>7, UpdateWeightStep
  <2> QED
    BY <2>1 DEF Walking
<1>8. CASE Visit(c)
  BY <1>1, <1>8, VisitWalking
<1> QED
  BY <1>2, <1>3, <1>4, <1>5, <1>6, <1>7, <1>8 DEF Calling

LEMMA CallingLost ==
  ASSUME HeldInv, LostInv, NEW c \in Callers, Calling(c)
  PROVE  LostInv'
<1>1. /\ UNCHANGED <<ops, left, total_weight, weight, adds>>
      /\ failed' \in {failed, TRUE}
  BY DEF Calling, Begin, Cast, Left, Visit, IsKnown, Find, UpdateWeight,
         BeginSelect, Draw, LoadLeft, Feedback, FindServer, sumVars,
         weightVars, unfed
<1>2. /\ UNCHANGED <<tree, server_map, update>>
      /\ \A d \in Callers \ {c} : call'[d] = call[d]
  BY CallingSteps DEF CallerStep
<1>3. AtStart => AtStart'
  BY <1>1, <1>2 DEF AtStart
<1>4. ASSUME ops' = 0, failed' # TRUE, NEW d \in Callers
      PROVE  Walking(d)'
  <2>1. AtStart /\ Walking(d) /\ Walking(c)
    BY <1>1, <1>4 DEF LostInv
  <2>2. CASE d = c
    BY <1>4, <2>1, <2>2, CallingWalking
  <2>3. CASE d # c
    BY <1>1, <1>2, <2>1, <2>3 DEF Walking
  <2> QED
    BY <2>2, <2>3
<1> QED
  BY <1>1, <1>3, <1>4 DEF LostInv

LEMMA UpdatingLost ==
  ASSUME HeldInv, LostInv, NEW u \in Updaters, Updating(u)
  PROVE  LostInv'
<1>1. CASE \E s \in Servers : AddServer(u, s) \/ RemoveServer(u, s)
  <2>1. ops' = ops + 1
    BY <1>1 DEF AddServer, RemoveServer
  <2>2. ops \in Nat
    BY DEF LostInv
  <2>3. ops' \in Nat /\ ops' # 0
    BY <2>1, <2>2
  <2> QED
    BY <2>3 DEF LostInv
<1>2. CASE ~ \E s \in Servers : AddServer(u, s) \/ RemoveServer(u, s)
  <2>1. \/ AddNode(u) \/ RemoveNode(u) \/ RemoveFromNothing(u) \/ MoveLast(u)
        \/ AddNext(u) \/ BeginModify(u) \/ Publish(u) \/ WaitReaders(u)
        \/ EndModify(u)
    BY <1>2, UpdatingSteps DEF Updater
  <2>2. UNCHANGED ops /\ (update[u].pc # "idle" \/ adds[u] # << >>)
    BY <2>1 DEF AddNode, RemoveNode, RemoveFromNothing, MoveLast, AddNext,
                BeginModify, Publish, WaitReaders, EndModify, Doing
  <2> QED
    BY <2>2 DEF LostInv, AtStart
<1> QED
  BY <1>1, <1>2

LEMMA NextLost ==
  ASSUME HeldInv, LostInv, [NextW]_varsW
  PROVE  LostInv'
<1>1. CASE UNCHANGED varsW
  BY <1>1 DEF varsW, vars, treeVars, sumVars, weightVars, LostInv, AtStart,
              Walking
<1> QED
  BY <1>1, CallingLost, UpdatingLost DEF NextW

(* However many threads select, feed back and change the tree: as long as no
   server has come or gone and no failed answer was fed back, no caller walks
   out of the array, finds no entry in the map, or divides by zero.  The dice
   goes to the left only if it is below the left sum, which is then that of a
   node in the tree. *)
THEOREM NobodyLost == SpecW => []NobodyIsLost
<1>1. InitW => HeldInv /\ LostInv
  BY InitHeld, InitLost DEF InitW
<1>2. HeldInv /\ LostInv /\ [NextW]_varsW => (HeldInv /\ LostInv)'
  BY NextHeldW, NextLost
<1>3. LostInv => NobodyIsLost
  BY DEF LostInv, NobodyIsLost, Walking
<1> QED
  BY <1>1, <1>2, <1>3, PTL DEF SpecW

-----------------------------------------------------------------------------
(* Equal shares *)

LEMMA ShareNext ==
  ASSUME NEW n \in Nat, NEW p
  PROVE  /\ Share(n, p) \in Nat
         /\ Share(n + 1, p) = Share(n, p)
                                + (IF p \in LeftParents(n) THEN Scale ELSE 0)
<1>1. PICK S, T : /\ S = {i \in 0 .. n - 1 : p \in LeftParents(i)}
                  /\ T = {i \in 0 .. (n + 1) - 1 : p \in LeftParents(i)}
  OBVIOUS
<1>2. /\ T = IF p \in LeftParents(n) THEN S \cup {n} ELSE S
      /\ n \notin S
  <2>1. \A i : i \in 0 .. (n + 1) - 1 <=> i \in 0 .. n - 1 \/ i = n
    OBVIOUS
  <2>2. n \notin 0 .. n - 1
    OBVIOUS
  <2> QED
    BY <1>1, <2>1, <2>2
<1>3. IsFiniteSet(S)
  <2>1. IsFiniteSet(0 .. n - 1) /\ S \in SUBSET (0 .. n - 1)
    BY <1>1, FS_Interval
  <2> QED
    BY <2>1, FS_Subset
<1>4. PICK k, l : k = Cardinality(S) /\ l = Cardinality(T)
  OBVIOUS
<1>5. k \in Nat /\ l = IF p \in LeftParents(n) THEN k + 1 ELSE k
  BY <1>2, <1>3, <1>4, FS_CardinalityType, FS_AddElement
<1>6. Scale \in Nat /\ \A x, y \in Nat : x * y \in Nat /\ x * (y + 1) = x * y + x
  BY WeightsAssumption
<1>7. Share(n, p) = Scale * k /\ Share(n + 1, p) = Scale * l
  BY <1>1, <1>4 DEF Share
<1> QED
  BY <1>5, <1>6, <1>7

(* A position after the last has nothing to its left. *)
LEMMA ShareBeyond ==
  ASSUME NEW n \in Nat
  PROVE  Share(n, n) = 0
<1>1. Share(n, n) \in Nat
  BY ShareNext
<1>2. ~(2 * n + 1 < n)
  OBVIOUS
<1> QED
  BY <1>1, <1>2, LeftChild

LEMMA ScaleQuotient ==
  ASSUME NEW n \in Nat \ {0}
  PROVE  Quotient(Scale * n, n) = Scale
<1>1. Scale \in Nat
  BY WeightsAssumption
<1>2. \A x, y \in Nat : x * y \in Nat
  OBVIOUS
<1>3. \A x \in Nat : (x * n) \div n = x
  OBVIOUS
<1> QED
  BY <1>1, <1>2, <1>3 DEF Quotient

(* The additions of d at the positions of S and, last, to the total. *)
AddsOf(S, d) ==
    IF S = {} THEN << >>
    ELSE IF S = {Total} THEN << <<{Total}, d>> >>
    ELSE << <<S \ {Total}, d>>, <<{Total}, d>> >>

(* The sums are those of n nodes once d has been added at the members of S. *)
SumsFor(n, S, d) ==
    /\ total_weight + (IF Total \in S THEN d ELSE 0) = Scale * n
    /\ \A p \in Positions :
        left[p] + (IF p \in S THEN d ELSE 0) = Share(n, p)

(* An updater's additions lead to the sums of n nodes. *)
Pending(u, n) ==
    \E S \in SUBSET (Positions \cup {Total}), d \in Int \ {0} :
        /\ S = {} \/ Total \in S
        /\ adds[u] = AddsOf(S, d)
        /\ SumsFor(n, S, d)

LEMMA NotAPosition ==
  /\ Total \notin Positions /\ Total \in Int
  /\ \A i \in Positions : i \in Nat /\ LeftParents(i) \subseteq Positions
<1>1. Cardinality(Servers) \in Nat
  BY ServersAssumption, FS_CardinalityType
<1> QED
  BY <1>1 DEF Positions, Total, LeftParents

LEMMA TwoOnes ==
  ASSUME NEW x, NEW y
  PROVE  <<x>> \o <<y>> = <<x, y>>
<1>1. PICK S : S = {x, y}
  OBVIOUS
<1>2. PICK a, b, c, e : /\ a = <<x>> /\ b = <<y>> /\ c = <<x, y>>
                        /\ e = a \o b
  OBVIOUS
<1>3. /\ a \in Seq(S) /\ b \in Seq(S) /\ c \in Seq(S)
      /\ Len(a) = 1 /\ Len(b) = 1 /\ Len(c) = 2
      /\ a[1] = x /\ b[1] = y /\ c[1] = x /\ c[2] = y
  BY <1>1, <1>2
<1>4. e \in Seq(S) /\ Len(e) = 2 /\ e[1] = x /\ e[2] = y
  <2>1. /\ a \o b \in Seq(S) /\ Len(a \o b) = Len(a) + Len(b)
        /\ \A i \in 1 .. Len(a) + Len(b) :
            (a \o b)[i] = IF i <= Len(a) THEN a[i] ELSE b[i - Len(a)]
    BY <1>3, ConcatProperties
  <2>2. e = a \o b
    BY <1>2
  <2> QED
    BY <1>3, <2>1, <2>2
<1>5. \A k \in 1 .. Len(e) : e[k] = c[k]
  BY <1>3, <1>4
<1> QED
  BY <1>2, <1>3, <1>4, <1>5, SeqEqual

LEMMA SumsAre ==
  ASSUME NEW i \in Positions, NEW d \in Int \ {0}
  PROVE  UpdateSums(d, i) = AddsOf(LeftParents(i) \cup {Total}, d)
<1>1. Total \notin LeftParents(i)
  BY NotAPosition
<1>2. (LeftParents(i) \cup {Total}) \ {Total} = LeftParents(i)
  BY <1>1
<1>3. CASE LeftParents(i) = {}
  BY <1>3 DEF UpdateSums, UpdateParentWeight, UpdateTotal, AddsOf
<1>4. CASE LeftParents(i) # {}
  <2>1. LeftParents(i) \cup {Total} # {Total}
    BY <1>1, <1>4
  <2>2. PICK x, y : x = <<LeftParents(i), d>> /\ y = <<{Total}, d>>
    OBVIOUS
  <2>3. UpdateSums(d, i) = <<x>> \o <<y>>
    BY <1>4, <2>2 DEF UpdateSums, UpdateParentWeight, UpdateTotal
  <2>4. AddsOf(LeftParents(i) \cup {Total}, d) = <<x, y>>
    BY <1>2, <2>1, <2>2 DEF AddsOf
  <2>5. <<x>> \o <<y>> = <<x, y>>
    BY TwoOnes
  <2> QED
    BY <2>3, <2>4, <2>5
<1> QED
  BY <1>3, <1>4

LEMMA NoSums ==
  ASSUME NEW i
  PROVE  UpdateSums(0, i) = << >> /\ UpdateParentWeight(0, i) = << >>
  BY DEF UpdateSums, UpdateParentWeight, UpdateTotal

(* Nothing is pending: the sums are exact. *)
LEMMA NonePending ==
  ASSUME NumberInv, NEW u, NEW n, Pending(u, n), adds[u] = << >>
  PROVE  /\ total_weight = Scale * n
         /\ \A p \in Positions : left[p] = Share(n, p)
<1>1. PICK S \in SUBSET (Positions \cup {Total}), d \in Int \ {0} :
        adds[u] = AddsOf(S, d) /\ SumsFor(n, S, d)
  BY DEF Pending
<1>2. S = {}
  <2>1. \A x, y : <<x>> # << >> /\ <<x, y>> # << >>
    OBVIOUS
  <2> QED
    BY <1>1, <2>1 DEF AddsOf
<1>3. total_weight \in Int /\ \A p \in Positions : left[p] \in Int
  BY DEF NumberInv
<1> QED
  BY <1>1, <1>2, <1>3 DEF SumsFor

LEMMA PendingSame ==
  ASSUME NEW u, NEW n, Pending(u, n), adds'[u] = adds[u],
         UNCHANGED <<left, total_weight>>
  PROVE  Pending(u, n)'
  BY DEF Pending, SumsFor

(* One of the additions is made. *)
LEMMA PendingNext ==
  ASSUME TypeInv, NEW u \in Updaters, NEW n, Pending(u, n), AddNext(u)
  PROVE  Pending(u, n)'
<1>1. PICK S \in SUBSET (Positions \cup {Total}), d \in Int \ {0} :
        /\ S = {} \/ Total \in S
        /\ adds[u] = AddsOf(S, d)
        /\ SumsFor(n, S, d)
  BY DEF Pending
<1>2. PICK more : more = adds[u]
  OBVIOUS
<1>3. PICK p \in Head(more)[1] :
        /\ \/ /\ p = Total /\ total_weight' = total_weight + Head(more)[2]
              /\ UNCHANGED left
           \/ /\ p # Total /\ left' = [left EXCEPT ![p] = @ + Head(more)[2]]
              /\ UNCHANGED total_weight
        /\ adds' = [adds EXCEPT ![u] = WithoutNext(adds[u], p)]
  BY <1>2 DEF AddNext
<1>4. S # {}
  BY <1>1 DEF AddNext, AddsOf
<1>5. Total \in S
  BY <1>1, <1>4
<1>6. /\ total_weight \in Int /\ left \in [Positions -> Int]
      /\ u \in DOMAIN adds
  BY DEF TypeInv, NumberInv
<1>7. /\ p \in S /\ Head(more)[2] = d
      /\ WithoutNext(more, p) = AddsOf(S \ {p}, d)
      /\ S \ {p} = {} \/ Total \in S \ {p}
  <2>1. CASE S = {Total}
    <3>1. PICK x : x = <<{Total}, d>>
      OBVIOUS
    <3>2. more = <<x>>
      BY <1>1, <1>2, <2>1, <3>1 DEF AddsOf
    <3>3. Head(more) = x /\ Tail(more) = << >>
      BY <3>2
    <3>4. p = Total /\ S \ {p} = {} /\ Head(more)[1] \ {p} = {}
      BY <1>3, <2>1, <3>1, <3>3
    <3> QED
      BY <2>1, <3>1, <3>3, <3>4 DEF WithoutNext, AddsOf
  <2>2. CASE S # {Total}
    <3>1. PICK x, y : x = <<S \ {Total}, d>> /\ y = <<{Total}, d>>
      OBVIOUS
    <3>2. more = <<x, y>>
      BY <1>1, <1>2, <1>4, <2>2, <3>1 DEF AddsOf
    <3>3. Head(more) = x /\ Tail(more) = <<y>>
      BY <3>2
    <3>4. p \in S /\ p # Total /\ Total \in S \ {p} /\ Head(more)[2] = d
      BY <1>3, <1>5, <3>1, <3>3
    <3>5. Head(more)[1] \ {p} = (S \ {p}) \ {Total}
      BY <3>1, <3>3
    <3>6. CASE S \ {p} = {Total}
      <4>1. Head(more)[1] \ {p} = {}
        BY <3>5, <3>6
      <4> QED
        BY <3>1, <3>3, <3>4, <3>6, <4>1 DEF WithoutNext, AddsOf
    <3>7. CASE S \ {p} # {Total}
      <4>1. Head(more)[1] \ {p} # {}
        BY <3>4, <3>5, <3>7
      <4>2. PICK z : z = <<(S \ {p}) \ {Total}, d>>
        OBVIOUS
      <4>3. WithoutNext(more, p) = <<z>> \o <<y>>
        BY <3>3, <3>4, <3>5, <4>1, <4>2 DEF WithoutNext
      <4>4. AddsOf(S \ {p}, d) = <<z, y>>
        BY <3>1, <3>4, <3>7, <4>2 DEF AddsOf
      <4>5. <<z>> \o <<y>> = <<z, y>>
        BY TwoOnes
      <4> QED
        BY <3>4, <4>3, <4>4, <4>5
    <3> QED
      BY <3>6, <3>7
  <2> QED
    BY <2>1, <2>2
<1>8. adds'[u] = AddsOf(S \ {p}, d)
  BY <1>2, <1>3, <1>6, <1>7
<1>9. SumsFor(n, S \ {p}, d)'
  <2>1. /\ total_weight + d = Scale * n
        /\ \A q \in Positions :
            left[q] + (IF q \in S THEN d ELSE 0) = Share(n, q)
    BY <1>1, <1>5 DEF SumsFor
  <2>2. Total \notin Positions
    BY NotAPosition
  <2>3. CASE p = Total
    <3>1. left' = left /\ total_weight' = total_weight + d
      BY <1>3, <1>7, <2>3
    <3> QED
      BY <1>6, <2>1, <2>2, <2>3, <3>1 DEF SumsFor, Share
  <2>4. CASE p # Total
    <3>1. left' = [left EXCEPT ![p] = @ + d] /\ total_weight' = total_weight
      BY <1>3, <1>7, <2>4
    <3>2. \A q \in Positions :
            left'[q] + (IF q \in S \ {p} THEN d ELSE 0)
                = left[q] + (IF q \in S THEN d ELSE 0)
      BY <1>6, <1>7, <3>1
    <3> QED
      BY <1>5, <2>1, <2>4, <3>1, <3>2 DEF SumsFor, Share
  <2> QED
    BY <2>3, <2>4
<1> QED
  BY <1>7, <1>8, <1>9 DEF Pending

(* The additions for a node more, or for one less. *)
LEMMA PendingStart ==
  ASSUME NumberInv, NEW u, NEW n, NEW m \in Nat, Pending(u, n),
         adds[u] = << >>, m \in Positions,
         NEW d \in Int, adds'[u] = UpdateSums(d, m),
         \A p \in Positions : left'[p] = left[p],
         total_weight' = total_weight,
         \/ n = m /\ d = Scale
         \/ n = m + 1 /\ d = -Scale
  PROVE  IF d = Scale THEN Pending(u, m + 1)' ELSE Pending(u, m)'
<1>1. /\ total_weight = Scale * n
      /\ \A p \in Positions : left[p] = Share(n, p)
  BY NonePending
<1>2. /\ Scale \in Nat \ {0} /\ d # 0 /\ d \in Int \ {0}
      /\ Scale * (m + 1) = Scale * m + Scale
      /\ Scale * m \in Nat
  BY WeightsAssumption
<1>3. PICK S : S = LeftParents(m) \cup {Total}
  OBVIOUS
<1>4. /\ S \in SUBSET (Positions \cup {Total}) /\ Total \in S
      /\ \A p \in Positions : p \in S <=> p \in LeftParents(m)
  BY <1>3, NotAPosition
<1>5. adds'[u] = AddsOf(S, d)
  BY <1>2, <1>3, SumsAre
<1>6. \A p \in Positions :
        /\ Share(m, p) \in Nat
        /\ Share(m + 1, p) = Share(m, p)
                                + (IF p \in LeftParents(m) THEN Scale ELSE 0)
  BY ShareNext
<1>7. PICK k : k = IF d = Scale THEN m + 1 ELSE m
  OBVIOUS
<1>8. /\ total_weight' + d = Scale * k
      /\ \A p \in Positions :
            left'[p] + (IF p \in S THEN d ELSE 0) = Share(k, p)
  <2>1. CASE n = m /\ d = Scale
    BY <1>1, <1>2, <1>4, <1>6, <1>7, <2>1
  <2>2. CASE n = m + 1 /\ d = -Scale
    <3>1. k = m
      BY <1>2, <1>7, <2>2
    <3>2. total_weight' + d = Scale * k
      BY <1>1, <1>2, <2>2, <3>1
    <3>3. ASSUME NEW p \in Positions
          PROVE  left'[p] + (IF p \in S THEN d ELSE 0) = Share(k, p)
      <4>1. left'[p] = Share(m + 1, p)
        BY <1>1, <2>2
      <4> QED
        BY <1>2, <1>4, <1>6, <2>2, <3>1, <4>1
    <3> QED
      BY <3>2, <3>3
  <2> QED
    BY <2>1, <2>2
<1>9. SumsFor(k, S, d)'
  BY <1>4, <1>8 DEF SumsFor, Share
<1>10. Pending(u, k)'
  BY <1>2, <1>4, <1>5, <1>9 DEF Pending
<1> QED
  BY <1>7, <1>10

(* Server s has its whole weight, and no caller has changed it since its move
   began. *)
Kept(s) == old[s].weight = Scale /\ old[s].diff = 0
LastOf(t) == t[Len(t)]

(* The updater has taken its server's weight away. *)
Gone(u) ==
    /\ update[u].op = "remove"
    /\ ~(update[u].pc \in {"idle", "wait", "apply"} /\ update[u].phase = 0)

(* Its server is not the last of t, which takes its place. *)
Moves(t, u) == update[u].op = "remove" /\ LastOf(t) # update[u].server

(* What the servers of the copies weigh. *)
Weighs(u) ==
    \A x \in ToSet(tree[0]) \cup ToSet(tree[1]) :
        weight[x] = IF Gone(u) /\ x = update[u].server THEN 0 ELSE Scale

(* What the updater has still to add to the sums, at each point of an
   operation.  A node that moves is counted at its new place in the first
   pass, which changes nothing as all weigh the same, and no longer at its old
   one in the second. *)
Owes(u) ==
    LET fg == tree[index]
        bg == tree[1 - index]
        pc == update[u].pc
        first == update[u].phase = 0 IN
    /\ pc # "applied" => adds[u] = << >>
    /\ \/ /\ pc \in {"idle", "wait"} \/ (pc = "apply" /\ first)
          /\ Pending(u, Len(fg))
       \/ /\ pc = "move" /\ first
          /\ Moves(fg, u) /\ bg[update[u].at + 1] = LastOf(fg)
          /\ update[u].rm = Scale
          /\ Pending(u, Len(fg))
       \/ /\ pc = "applied" /\ first
          /\ IF Moves(fg, u) THEN Kept(LastOf(fg)) /\ Pending(u, Len(fg))
             ELSE Pending(u, Len(bg))
       \/ /\ (pc = "readers" /\ first) \/ (pc = "apply" /\ ~first)
          /\ IF Moves(bg, u) THEN Kept(LastOf(bg)) /\ Pending(u, Len(bg))
             ELSE Pending(u, Len(fg))
       \/ /\ pc = "move" /\ ~first
          /\ update[u].rm = 0 /\ Kept(bg[update[u].at + 1])
          /\ Pending(u, Len(fg) + 1)
       \/ /\ pc = "applied" /\ ~first
          /\ update[u].op = "remove" => update[u].server \notin ToSet(fg)
          /\ Pending(u, Len(fg))

(* The inductive invariant of the weights and sums. *)
ShareInv == \A u \in Updaters : Weighs(u) /\ Owes(u)

LEMMA InitShares == HeldInv /\ InitW => ShareInv
<1> SUFFICES ASSUME HeldInv, InitW, NEW u \in Updaters
             PROVE  Weighs(u) /\ Owes(u)
  BY DEF ShareInv
<1>1. /\ tree[0] = Start /\ tree[1] = Start /\ index = 0
      /\ weight = [s \in Servers |-> IF s \in ToSet(Start) THEN Scale ELSE 0]
      /\ update[u] = NoUpdate /\ adds[u] = << >>
      /\ total_weight = Scale * Len(Start)
      /\ left = [p \in Positions |->
                    Scale * Cardinality({i \in Places(Start) :
                                            p \in LeftParents(i)})]
  BY DEF InitW, Init
<1>2. Start \in Seq(Servers) /\ ToSet(Start) \subseteq Servers
  BY ServersAssumption, Elements
<1>3. Weighs(u)
  BY <1>1, <1>2 DEF Weighs, Gone, NoUpdate
<1>4. Len(Start) \in Nat /\ Scale \in Nat
  BY <1>2, WeightsAssumption
<1>5. \A p \in Positions : left[p] = Share(Len(Start), p)
  BY <1>1 DEF Share, Places
<1>6. SumsFor(Len(Start), {}, 1)
  <2>1. \A x \in Nat : \A y \in Nat : x * y \in Int /\ x * y + 0 = x * y
    OBVIOUS
  <2>2. \A p \in Positions : left[p] \in Int
    BY <1>4, <1>5, ShareNext
  <2>3. \A p \in Positions : left[p] + 0 = Share(Len(Start), p)
    BY <1>5, <2>2
  <2>4. total_weight + 0 = Scale * Len(Start)
    BY <1>1, <1>4, <2>1
  <2> QED
    BY <2>3, <2>4 DEF SumsFor
<1>7. Pending(u, Len(Start))
  <2>1. {} \in SUBSET (Positions \cup {Total}) /\ 1 \in Int \ {0}
    OBVIOUS
  <2>2. adds[u] = AddsOf({}, 1)
    BY <1>1 DEF AddsOf
  <2> QED
    BY <1>6, <2>1, <2>2 DEF Pending
<1>8. Owes(u)
  BY <1>1, <1>7 DEF Owes, NoUpdate
<1> QED
  BY <1>3, <1>8

(* A caller changes none of it. *)
LEMMA CallingShares ==
  ASSUME HeldInv, TypeInv, ShareInv, NEW c \in Callers, Calling(c)
  PROVE  ShareInv'
<1>1. /\ UNCHANGED <<tree, index, update>>
      /\ UNCHANGED <<weight, old, left, total_weight, adds>>
  <2>1. UNCHANGED <<tree, index, update>>
    BY CallingSteps DEF CallerStep
  <2>2. UNCHANGED <<weight, old, left, total_weight, adds>>
    BY DEF Calling, Begin, Cast, Left, Visit, IsKnown, Find, UpdateWeight,
           BeginSelect, Draw, LoadLeft, Feedback, FindServer, sumVars,
           weightVars
  <2> QED
    BY <2>1, <2>2
<1>2. \A u, n : Pending(u, n) => Pending(u, n)'
  BY <1>1, PendingSame
<1> QED
  BY <1>1, <1>2 DEF ShareInv, Weighs, Owes, Gone, Moves, Kept

(* The operation begins and ends, and the copies change places. *)
LEMMA PointShares ==
  ASSUME OneUpdater, HeldInv, TreeInv, ShareInv, NEW u \in Updaters,
         \/ \E s \in Servers : AddServer(u, s) \/ RemoveServer(u, s)
         \/ BeginModify(u) \/ Publish(u) \/ WaitReaders(u) \/ EndModify(u)
  PROVE  ShareInv'
<1>1. /\ UNCHANGED tree
      /\ UNCHANGED <<weight, old, left, total_weight, adds>>
      /\ adds[u] = << >>
  BY DEF AddServer, RemoveServer, BeginModify, Publish, WaitReaders, EndModify,
         Doing, treeVars, sumVars, weightVars
<1>2. \A n : Pending(u, n) => Pending(u, n)'
  BY <1>1, PendingSame
<1>3. /\ Weighs(u) /\ Owes(u) /\ Stage(u) /\ index \in {0, 1}
      /\ DOMAIN update = Updaters /\ DOMAIN update[u] = UpdateFields
  BY DEF ShareInv, TreeInv, HeldInv
<1> SUFFICES Weighs(u)' /\ Owes(u)'
  BY DEF ShareInv, OneUpdater
<1>4. ASSUME NEW s \in Servers, AddServer(u, s) \/ RemoveServer(u, s)
      PROVE  Weighs(u)' /\ Owes(u)'
  <2>1. /\ update[u].pc = "idle" /\ index' = index
        /\ update'[u].pc = "wait" /\ update'[u].phase = 0
    <3>1. PICK op : update' = [update EXCEPT ![u] =
                    [NoUpdate EXCEPT !.pc = "wait", !.op = op, !.server = s]]
      BY <1>4 DEF AddServer, RemoveServer, NoUpdate
    <3>2. /\ [NoUpdate EXCEPT !.pc = "wait", !.op = op, !.server = s].pc = "wait"
          /\ [NoUpdate EXCEPT !.pc = "wait", !.op = op, !.server = s].phase = 0
      BY DEF NoUpdate
    <3> QED
      BY <1>3, <1>4, <3>1, <3>2 DEF AddServer, RemoveServer, Doing, treeVars
  <2>2. update[u].phase = 0 /\ ~Gone(u) /\ ~Gone(u)'
    BY <1>3, <2>1 DEF Stage, Gone
  <2>3. Weighs(u)'
    BY <1>1, <1>3, <2>2 DEF Weighs
  <2>4. Owes(u)'
    BY <1>1, <1>2, <1>3, <2>1 DEF Owes
  <2> QED
    BY <2>3, <2>4
<1>5. CASE BeginModify(u)
  <2>1. /\ update[u].pc = "wait" /\ index' = index
        /\ update'[u] = [update[u] EXCEPT !.pc = "apply"]
    BY <1>3, <1>5 DEF BeginModify, Doing, treeVars
  <2>2. /\ update'[u].pc = "apply" /\ update'[u].phase = update[u].phase
        /\ update[u].phase = 0
    BY <1>3, <2>1 DEF UpdateFields, Stage
  <2>3. ~Gone(u) /\ ~Gone(u)'
    BY <2>1, <2>2 DEF Gone
  <2>4. Weighs(u)'
    BY <1>1, <1>3, <2>3 DEF Weighs
  <2>5. Owes(u)'
    BY <1>1, <1>2, <1>3, <2>1, <2>2 DEF Owes
  <2> QED
    BY <2>4, <2>5
<1>6. CASE Publish(u)
  <2>1. /\ update[u].pc = "applied" /\ update[u].phase = 0
        /\ index' = 1 - index /\ 1 - index' = index
        /\ update'[u] = [update[u] EXCEPT !.pc = "readers"]
    BY <1>3, <1>6 DEF Publish, Doing
  <2>2. /\ update'[u].pc = "readers" /\ update'[u].phase = 0
        /\ update'[u].op = update[u].op
        /\ update'[u].server = update[u].server
    BY <1>3, <2>1 DEF UpdateFields
  <2>3. Gone(u)' <=> Gone(u)
    BY <2>1, <2>2 DEF Gone
  <2>4. Weighs(u)'
    BY <1>1, <1>3, <2>2, <2>3 DEF Weighs
  <2>5. Owes(u)'
    BY <1>1, <1>2, <1>3, <2>1, <2>2 DEF Owes, Moves, LastOf, Kept
  <2> QED
    BY <2>4, <2>5
<1>7. CASE WaitReaders(u)
  <2>1. /\ update[u].pc = "readers" /\ index' = index
        /\ update'[u] = [update[u] EXCEPT !.pc = "apply", !.phase = 1]
    BY <1>3, <1>7 DEF WaitReaders, Doing, treeVars
  <2>2. /\ update'[u].pc = "apply" /\ update'[u].phase = 1
        /\ update'[u].op = update[u].op
        /\ update'[u].server = update[u].server
    BY <1>3, <2>1 DEF UpdateFields
  <2>3. Gone(u)' <=> Gone(u)
    BY <2>1, <2>2 DEF Gone
  <2>4. Weighs(u)'
    BY <1>1, <1>3, <2>2, <2>3 DEF Weighs
  <2>5. Owes(u)'
    BY <1>1, <1>2, <1>3, <2>1, <2>2 DEF Owes, Moves, LastOf, Kept
  <2> QED
    BY <2>4, <2>5
<1>8. CASE EndModify(u)
  <2>1. /\ update[u].pc = "applied" /\ update[u].phase = 1 /\ index' = index
        /\ update'[u] = NoUpdate
    BY <1>3, <1>8 DEF EndModify, Doing, treeVars
  <2>2. /\ Pending(u, Len(tree[index])) /\ tree[index] = tree[1 - index]
        /\ update[u].op = "remove" =>
                update[u].server \notin ToSet(tree[index])
    BY <1>3, <2>1 DEF Owes, Stage
  <2>3. update'[u].pc = "idle" /\ update'[u].phase = 0 /\ ~Gone(u)'
    BY <2>1 DEF NoUpdate, Gone
  <2>4. \A x \in ToSet(tree[index]) : weight[x] = Scale
    BY <1>3, <2>2 DEF Weighs, Gone
  <2>5. Weighs(u)'
    BY <1>1, <1>3, <2>2, <2>3, <2>4 DEF Weighs
  <2>6. Owes(u)'
    BY <1>1, <1>2, <2>1, <2>2, <2>3 DEF Owes
  <2> QED
    BY <2>5, <2>6
<1> QED
  BY <1>4, <1>5, <1>6, <1>7, <1>8

(* An addition is made. *)
LEMMA AddUpShares ==
  ASSUME OneUpdater, HeldInv, TypeInv, ShareInv, NEW u \in Updaters, AddNext(u)
  PROVE  ShareInv'
<1>1. /\ UNCHANGED <<tree, index, update, weight, old>>
      /\ adds[u] # << >>
  BY DEF AddNext, treeVars, weightVars
<1>2. \A n : Pending(u, n) => Pending(u, n)'
  BY PendingNext
<1>3. Weighs(u) /\ Owes(u)
  BY DEF ShareInv
<1>4. update[u].pc = "applied"
  BY <1>1, <1>3 DEF Owes
<1>5. Weighs(u)' /\ Owes(u)'
  BY <1>1, <1>2, <1>3, <1>4 DEF Weighs, Owes, Gone, Moves, Kept
<1> QED
  BY <1>5 DEF ShareInv, OneUpdater

LEMMA BothCopies ==
  ASSUME NEW f, NEW b \in {0, 1}
  PROVE  /\ ToSet(f[0]) \cup ToSet(f[1]) = ToSet(f[b]) \cup ToSet(f[1 - b])
         /\ 1 - b \in {0, 1} /\ 1 - b # b
<1>1. CASE b = 0
  BY <1>1
<1>2. CASE b = 1
  BY <1>2
<1> QED
  BY <1>1, <1>2

(* The new node weighs what all others do, the quotient of the total. *)
LEMMA AddNodeShares ==
  ASSUME OneUpdater, HeldInv, TreeInv, TypeInv, ShareInv, NEW u \in Updaters,
         AddNode(u)
  PROVE  ShareInv'
<1>1. PICK s, fg, bg, n : /\ s = update[u].server /\ fg = tree[index]
                          /\ bg = tree[1 - index] /\ n = Len(bg)
  OBVIOUS
<1>2. /\ Weighs(u) /\ Owes(u) /\ Stage(u) /\ index \in {0, 1}
      /\ DOMAIN update = Updaters /\ DOMAIN update[u] = UpdateFields
      /\ WellFormed(fg, server_map[index])
      /\ WellFormed(bg, server_map[1 - index])
      /\ NumberInv /\ DOMAIN tree = {0, 1} /\ weight \in [Servers -> Int]
  BY <1>1 DEF ShareInv, TreeInv, HeldInv, TypeInv, WeightsInv, NumberInv
<1>3. /\ update[u].pc = "apply" /\ update[u].op = "add" /\ adds[u] = << >>
      /\ tree' = [tree EXCEPT ![1 - index] = Append(bg, s)]
      /\ update'[u] = [update[u] EXCEPT !.pc = "applied"]
      /\ UNCHANGED <<index, total_weight>>
  BY <1>1, <1>2 DEF AddNode, Doing
<1>4. /\ s \in Servers /\ s \notin ToSet(bg)
      /\ n \in Nat /\ n \in Positions
      /\ Len(Append(bg, s)) = n + 1 /\ ToSet(Append(bg, s)) = ToSet(bg) \cup {s}
  <2>1. s \in Servers /\ s \notin ToSet(bg)
    BY <1>1, <1>2, <1>3 DEF Stage, Changed
  <2>2. n \in Nat /\ n \in Positions
    BY <1>1, <1>2, <2>1, PlaceIs, SizeIs
  <2>3. bg \in Seq(Servers)
    BY <1>2 DEF WellFormed
  <2> QED
    BY <1>1, <2>1, <2>2, <2>3, AppendIs
<1>5. /\ tree'[1 - index] = Append(bg, s) /\ tree'[index] = fg
      /\ update'[u].pc = "applied" /\ update'[u].op = "add"
      /\ update'[u].server = s /\ update'[u].phase = update[u].phase
      /\ ~Gone(u) /\ ~Gone(u)'
  BY <1>1, <1>2, <1>3 DEF UpdateFields, Gone
<1> SUFFICES Weighs(u)' /\ Owes(u)'
  BY DEF ShareInv, OneUpdater
<1>6. CASE update[u].phase = 0
  <2>1. fg = bg /\ Pending(u, n) /\ s \notin DOMAIN server_map[index]
    BY <1>1, <1>2, <1>3, <1>4, <1>6 DEF Stage, Owes, WellFormed
  <2>2. /\ total_weight = Scale * n /\ left[n] = 0
    BY <1>2, <1>3, <1>4, <2>1, NonePending, ShareBeyond
  <2>3. InitialWeight(n) = Scale
    BY <1>4, <2>2, ScaleQuotient DEF InitialWeight
  <2>4. /\ NewWeight(s, Scale) /\ left' = [left EXCEPT ![n] = 0]
        /\ adds' = [adds EXCEPT ![u] = UpdateSums(Scale, n)]
    BY <1>1, <2>1, <2>3 DEF AddNode
  <2>5. \A p \in Positions : left'[p] = left[p]
    BY <1>2, <2>2, <2>4 DEF NumberInv
  <2>6. adds'[u] = UpdateSums(Scale, n)
    BY <1>2, <2>4 DEF NumberInv
  <2>7. Pending(u, n + 1)'
    BY <1>2, <1>3, <1>4, <2>1, <2>5, <2>6, WeightsAssumption, PendingStart
  <2>8. Owes(u)'
    BY <1>3, <1>4, <1>5, <1>6, <2>7 DEF Owes, Moves
  <2>9. weight' = [weight EXCEPT ![s] = Scale]
    BY <2>4 DEF NewWeight
  <2>10. \A x \in ToSet(bg) \cup {s} : weight'[x] = Scale
    <3>1. \A x \in ToSet(bg) : weight[x] = Scale /\ x \in Servers
      BY <1>1, <1>2, <1>5, Elements DEF Weighs, WellFormed
    <3> QED
      BY <1>2, <1>4, <2>9, <3>1
  <2>11. Weighs(u)'
    <3>1. ToSet(tree'[0]) \cup ToSet(tree'[1]) = ToSet(bg) \cup {s}
      BY <1>2, <1>4, <1>5, <2>1, BothCopies
    <3> QED
      BY <1>5, <2>10, <3>1 DEF Weighs
  <2> QED
    BY <2>8, <2>11
<1>7. CASE update[u].phase # 0
  <2>1. fg = Append(bg, s) /\ Pending(u, Len(fg))
    BY <1>1, <1>2, <1>3, <1>7 DEF Stage, Changed, Owes, Moves
  <2>2. s \in DOMAIN server_map[index]
    BY <1>2, <1>4, <2>1 DEF WellFormed
  <2>3. UNCHANGED <<left, weight, adds>>
    BY <1>1, <2>2 DEF AddNode, weightVars
  <2>4. Pending(u, Len(fg))'
    BY <1>3, <2>1, <2>3, PendingSame
  <2>5. Owes(u)'
    BY <1>3, <1>5, <1>7, <2>4 DEF Owes
  <2>6. Weighs(u)'
    <3>1. ToSet(tree'[0]) \cup ToSet(tree'[1])
            \subseteq ToSet(tree[0]) \cup ToSet(tree[1])
      BY <1>1, <1>2, <1>5, <2>1, BothCopies
    <3> QED
      BY <1>2, <1>5, <2>3, <3>1 DEF Weighs
  <2> QED
    BY <2>5, <2>6
<1> QED
  BY <1>6, <1>7

(* The node goes, and its weight with it; when another takes its place, that
   is still to be done. *)
LEMMA RemoveNodeShares ==
  ASSUME OneUpdater, HeldInv, TreeInv, TypeInv, ShareInv, NEW u \in Updaters,
         RemoveNode(u)
  PROVE  ShareInv'
<1>1. PICK t, m, s, i, rm :
        /\ Removing(u, t, m, s, i, rm)
        /\ t = tree[1 - index] /\ m = server_map[1 - index]
        /\ s = update[u].server /\ i = RemovedAt(u)
        /\ rm = weight[t[i + 1]]
  BY RemoveNodeIs
<1>2. PICK fg : fg = tree[index]
  OBVIOUS
<1>3. /\ Weighs(u) /\ Owes(u) /\ Stage(u) /\ index \in {0, 1}
      /\ DOMAIN update = Updaters /\ DOMAIN update[u] = UpdateFields
      /\ WellFormed(t, m)
      /\ NumberInv /\ DOMAIN tree = {0, 1} /\ weight \in [Servers -> Int]
  <2>1. /\ index \in {0, 1} /\ DOMAIN tree = {0, 1}
        /\ DOMAIN update = Updaters /\ DOMAIN update[u] = UpdateFields
    BY DEF HeldInv
  <2>2. WellFormed(t, m) /\ Stage(u)
    BY <1>1, <2>1 DEF TreeInv
  <2> QED
    BY <2>1, <2>2 DEF ShareInv, TypeInv, WeightsInv
<1>4. /\ update[u].pc = "apply" /\ update[u].op = "remove" /\ adds[u] = << >>
      /\ UNCHANGED <<index, left, total_weight>>
      /\ Disable(t[i + 1])
  BY <1>1 DEF Removing, Doing
<1>5. s \in ToSet(t) /\ s \in Servers
  <2>1. s \in ToSet(t)
    BY <1>1, <1>3, <1>4 DEF Stage, Changed
  <2> QED
    BY <1>3, <2>1, Elements DEF WellFormed
<1>6. /\ i = m[s] /\ t[i + 1] = s /\ i \in Nat /\ i \in Positions
      /\ i <= Len(t) - 1 /\ Len(t) \in Nat /\ DOMAIN t = 1 .. Len(t)
      /\ \A j, k \in 1 .. Len(t) : t[j] = t[k] => j = k
  <2>1. i = m[s]
    BY <1>1, <1>3, <1>5 DEF RemovedAt, WellFormed
  <2>2. i \in Places(t) /\ t[i + 1] = s
    BY <1>3, <1>5, <2>1 DEF WellFormed
  <2>3. Len(t) \in Nat /\ DOMAIN t = 1 .. Len(t)
    BY <1>3, Elements DEF WellFormed
  <2>4. i \in Positions
    BY <1>3, <2>2, PlaceIs
  <2>5. i \in Nat /\ i <= Len(t) - 1
    BY <2>2, <2>3 DEF Places
  <2>6. \A j, k \in 1 .. Len(t) : t[j] = t[k] => j = k
    BY <1>3, <2>3 DEF WellFormed, IsInjective
  <2> QED
    BY <2>1, <2>2, <2>3, <2>4, <2>5, <2>6
<1>7. PICK r : r = Removed(t, s)
  OBVIOUS
<1>8. /\ Len(r) = Len(t) - 1 /\ ToSet(r) = ToSet(t) \ {s}
      /\ r = [k \in 1 .. Len(t) - 1 |-> IF t[k] = s THEN t[Len(t)] ELSE t[k]]
      /\ tree'[1 - index] = r /\ tree'[index] = fg
  <2>1. /\ Len(r) = Len(t) - 1 /\ ToSet(r) = ToSet(t) \ {s}
        /\ m[s] = Len(t) - 1 => r = Front(t)
        /\ m[s] < Len(t) - 1 => r = Front([t EXCEPT ![m[s] + 1] = Last(t)])
    BY <1>3, <1>5, <1>7, RemovedIs
  <2>2. tree' = [tree EXCEPT ![1 - index] = r]
    BY <1>1, <1>6, <2>1 DEF Removing
  <2>3. tree'[1 - index] = r /\ tree'[index] = fg
    BY <1>2, <1>3, <2>2, BothCopies
  <2> QED
    BY <1>7, <2>1, <2>3 DEF Removed
<1>9. weight' = [weight EXCEPT ![s] = 0] /\ UNCHANGED old
  BY <1>4, <1>6 DEF Disable
<1>10. /\ update'[u].op = "remove" /\ update'[u].server = s
       /\ update'[u].phase = update[u].phase
       /\ \/ /\ LastOf(t) = s /\ i = Len(t) - 1
             /\ update'[u].pc = "applied" /\ adds'[u] = UpdateSums(-rm, i)
          \/ /\ LastOf(t) # s /\ i < Len(t) - 1
             /\ update'[u].pc = "move" /\ adds'[u] = << >>
             /\ update'[u].at = i /\ update'[u].rm = rm
  <2>1. CASE i = Len(t) - 1
    <3>1. /\ adds' = [adds EXCEPT ![u] = UpdateSums(-rm, i)]
          /\ update' = [update EXCEPT ![u].pc = "applied"]
      BY <1>1, <1>6, <2>1 DEF Removing
    <3>2. adds'[u] = UpdateSums(-rm, i)
      BY <1>3, <3>1 DEF NumberInv
    <3>3. LastOf(t) = s
      BY <1>6, <2>1 DEF LastOf
    <3> QED
      BY <1>1, <1>3, <1>4, <2>1, <3>1, <3>2, <3>3 DEF UpdateFields
  <2>2. CASE i # Len(t) - 1
    <3>1. i < Len(t) - 1 /\ i + 1 \in 1 .. Len(t) /\ Len(t) \in 1 .. Len(t)
      BY <1>6, <2>2
    <3>2. /\ UNCHANGED adds
          /\ update' = [update EXCEPT ![u] = [@ EXCEPT !.pc = "move",
                                                    !.at = i, !.rm = rm]]
      BY <1>1, <2>2 DEF Removing
    <3>3. LastOf(t) # s
      BY <1>6, <2>2, <3>1 DEF LastOf
    <3> QED
      BY <1>1, <1>3, <1>4, <3>1, <3>2, <3>3 DEF UpdateFields
  <2> QED
    BY <2>1, <2>2
<1>11. \A n : Pending(u, n) /\ adds'[u] = << >> => Pending(u, n)'
  BY <1>4, PendingSame
<1> SUFFICES Weighs(u)' /\ Owes(u)'
  BY DEF ShareInv, OneUpdater
<1>12. ToSet(tree'[0]) \cup ToSet(tree'[1])
        \subseteq ToSet(tree[0]) \cup ToSet(tree[1])
  BY <1>1, <1>2, <1>3, <1>8
<1>13. CASE update[u].phase = 0
  <2>1. fg = t /\ Pending(u, Len(t))
    BY <1>1, <1>2, <1>3, <1>4, <1>13 DEF Stage, Owes
  <2>2. ~Gone(u) /\ Gone(u)'
    BY <1>4, <1>10, <1>13 DEF Gone
  <2>3. \A x \in ToSet(t) : weight[x] = Scale /\ x \in Servers
    BY <1>1, <1>3, <2>2, Elements DEF Weighs, WellFormed
  <2>4. Weighs(u)'
    <3>1. ToSet(tree'[0]) \cup ToSet(tree'[1]) \subseteq ToSet(t)
      BY <1>3, <1>8, <2>1
    <3>2. \A x \in ToSet(t) : weight'[x] = IF x = s THEN 0 ELSE Scale
      BY <1>3, <1>9, <2>3
    <3> QED
      BY <1>10, <2>2, <3>1, <3>2 DEF Weighs
  <2>5. rm = Scale
    BY <1>1, <1>5, <1>6, <2>3
  <2>6. Owes(u)'
    <3>1. CASE LastOf(t) = s
      <4>1. adds'[u] = UpdateSums(-Scale, i) /\ Len(t) = i + 1
        BY <1>6, <1>10, <2>5, <3>1
      <4>2. -Scale \in Int /\ -Scale # Scale
        BY WeightsAssumption
      <4>3. Pending(u, i)'
        BY <1>3, <1>4, <1>6, <2>1, <4>1, <4>2, PendingStart
      <4>4. update'[u].pc = "applied" /\ Len(r) = i /\ ~Moves(tree[index], u)'
        BY <1>4, <1>6, <1>8, <1>10, <2>1, <3>1, <4>1 DEF Moves, LastOf
      <4> QED
        BY <1>2, <1>4, <1>8, <1>10, <1>13, <4>3, <4>4 DEF Owes
    <3>2. CASE LastOf(t) # s
      <4>1. /\ update'[u].pc = "move" /\ update'[u].at = i
            /\ update'[u].rm = Scale /\ adds'[u] = << >>
        BY <1>10, <2>5, <3>2
      <4>2. r[i + 1] = LastOf(t)
        <5>1. i + 1 \in 1 .. Len(t) - 1
          BY <1>6, <1>10, <3>2
        <5> QED
          BY <1>6, <1>8, <5>1 DEF LastOf
      <4>3. Moves(tree[index], u)' /\ LastOf(tree'[index]) = LastOf(t)
        BY <1>8, <1>4, <1>10, <2>1, <3>2 DEF Moves, LastOf
      <4> QED
        BY <1>4, <1>8, <1>10, <1>11, <1>13, <2>1, <4>1, <4>2, <4>3
        DEF Owes, LastOf
    <3> QED
      BY <3>1, <3>2
  <2> QED
    BY <2>4, <2>6
<1>14. CASE update[u].phase # 0
  <2>1. /\ fg = r
        /\ IF LastOf(t) # s THEN Kept(LastOf(t)) /\ Pending(u, Len(t))
           ELSE Pending(u, Len(fg))
    BY <1>1, <1>2, <1>3, <1>4, <1>7, <1>14 DEF Stage, Changed, Owes, Moves
  <2>2. Gone(u) /\ Gone(u)'
    BY <1>4, <1>10, <1>14 DEF Gone
  <2>3. rm = 0 /\ weight' = weight
    <3>1. weight[s] = 0
      BY <1>1, <1>3, <1>5, <2>2 DEF Weighs
    <3> QED
      BY <1>1, <1>3, <1>6, <1>9, <3>1
  <2>4. Weighs(u)'
    BY <1>1, <1>3, <1>10, <1>12, <2>2, <2>3 DEF Weighs
  <2>5. Owes(u)'
    <3>1. CASE LastOf(t) = s
      <4>1. adds'[u] = << >>
        BY <1>10, <2>3, <3>1, NoSums
      <4>2. Pending(u, Len(fg))' /\ s \notin ToSet(fg)
        BY <1>8, <1>11, <2>1, <3>1, <4>1
      <4> QED
        BY <1>4, <1>8, <1>10, <1>14, <3>1, <4>2 DEF Owes
    <3>2. CASE LastOf(t) # s
      <4>1. /\ update'[u].pc = "move" /\ update'[u].at = i
            /\ update'[u].rm = 0 /\ adds'[u] = << >>
        BY <1>10, <2>3, <3>2
      <4>2. r[i + 1] = LastOf(t)
        <5>1. i + 1 \in 1 .. Len(t) - 1
          BY <1>6, <1>10, <3>2
        <5> QED
          BY <1>6, <1>8, <5>1 DEF LastOf
      <4>3. Kept(LastOf(t))' /\ Len(fg) + 1 = Len(t)
        <5>1. Kept(LastOf(t)) /\ Len(fg) = Len(t) - 1
          BY <1>8, <2>1, <3>2
        <5>2. \A x : Kept(x) => Kept(x)'
          BY <1>9 DEF Kept
        <5>3. UNCHANGED t
          OBVIOUS
        <5> QED
          BY <1>6, <1>9, <5>1 DEF Kept, LastOf
      <4>4. Pending(u, Len(fg) + 1)'
        BY <1>11, <2>1, <3>2, <4>1, <4>3
      <4> QED
        BY <1>4, <1>8, <1>10, <1>14, <4>1, <4>2, <4>3, <4>4
        DEF Owes, Kept, LastOf
    <3> QED
      BY <3>1, <3>2
  <2> QED
    BY <2>4, <2>5
<1> QED
  BY <1>13, <1>14

(* The moved node is counted where it is now, and not where it was. *)
LEMMA MoveLastShares ==
  ASSUME OneUpdater, HeldInv, TreeInv, TypeInv, ShareInv, NEW u \in Updaters,
         MoveLast(u)
  PROVE  ShareInv'
<1>1. PICK fg, bg, i, n, s, rm :
        /\ fg = tree[index] /\ bg = tree[1 - index] /\ i = update[u].at
        /\ n = Len(bg) /\ s = bg[i + 1] /\ rm = update[u].rm
  OBVIOUS
<1>2. /\ index \in {0, 1} /\ 1 - index \in {0, 1}
      /\ DOMAIN update = Updaters /\ DOMAIN update[u] = UpdateFields
  BY BothCopies DEF HeldInv
<1>3. WellFormed(bg, server_map[1 - index]) /\ Stage(u)
  BY <1>1, <1>2 DEF TreeInv
<1>4. /\ Weighs(u) /\ Owes(u) /\ NumberInv /\ WeightsInv
  BY DEF ShareInv, TypeInv
<1>5. /\ update[u].pc = "move" /\ adds[u] = << >>
      /\ update'[u] = [update[u] EXCEPT !.pc = "applied"]
      /\ UNCHANGED <<tree, index, left, total_weight>>
  BY <1>2 DEF MoveLast, Doing, treeVars, sumVars
<1>6. /\ update[u].op = "remove" /\ update[u].server \notin ToSet(bg)
      /\ update[u].server \in Servers /\ i \in Places(bg)
  BY <1>1, <1>3, <1>5 DEF Stage
<1>7. /\ update'[u].pc = "applied" /\ update'[u].op = "remove"
      /\ update'[u].phase = update[u].phase
      /\ update'[u].server = update[u].server
      /\ Gone(u) /\ Gone(u)'
  BY <1>2, <1>5, <1>6 DEF UpdateFields, Gone
<1>8. UNCHANGED weight
  BY DEF MoveLast, MarkOld, ClearOld
<1>9. Weighs(u)'
  BY <1>4, <1>5, <1>7, <1>8 DEF Weighs
<1>10. /\ i \in Positions /\ n \in Positions /\ n \in Nat
       /\ s \in Servers /\ s \in ToSet(bg)
  <2>1. i \in Positions /\ n \in Positions /\ n \in Nat /\ s \in Servers
    BY <1>1, <1>3, <1>6, PlaceIs, SizeIs
  <2>2. bg \in Seq(Servers) /\ i + 1 \in 1 .. Len(bg)
    BY <1>1, <1>3, <1>6, <2>1 DEF WellFormed, Places
  <2> QED
    BY <1>1, <2>1, <2>2, Elements
<1>11. weight[s] = Scale /\ Scale \in Nat \ {0}
  <2>1. s \in ToSet(tree[0]) \cup ToSet(tree[1])
    BY <1>1, <1>2, <1>10, BothCopies
  <2> QED
    BY <1>4, <1>6, <1>10, <2>1, WeightsAssumption DEF Weighs
<1> SUFFICES Owes(u)'
  BY <1>9 DEF ShareInv, OneUpdater
<1>12. CASE update[u].phase = 0
  <2>1. /\ Moves(fg, u) /\ s = LastOf(fg) /\ rm = Scale /\ Pending(u, Len(fg))
    BY <1>1, <1>4, <1>5, <1>12 DEF Owes
  <2>2. /\ MarkOld(s, n)
        /\ adds' = [adds EXCEPT ![u] = UpdateSums(weight[s] - rm, i)]
    BY <1>1, <1>11, <2>1 DEF MoveLast
  <2>3. weight[s] - rm = 0
    BY <1>11, <2>1
  <2>4. adds'[u] = << >>
    <3>1. adds'[u] = UpdateSums(0, i)
      BY <1>4, <2>2, <2>3 DEF NumberInv
    <3> QED
      BY <3>1, NoSums
  <2>5. old'[s].weight = Scale /\ old'[s].diff = 0
    BY <1>4, <1>10, <1>11, <2>2 DEF MarkOld, WeightsInv
  <2>6. Pending(u, Len(fg))'
    BY <1>5, <2>1, <2>4, PendingSame
  <2>7. tree'[index'] = fg
    BY <1>1, <1>5
  <2>8. Moves(tree[index], u)' /\ Kept(LastOf(tree[index]))'
    BY <1>6, <1>7, <2>1, <2>5, <2>7 DEF Moves, Kept, LastOf
  <2> QED
    BY <1>7, <1>12, <2>6, <2>7, <2>8 DEF Owes
<1>13. CASE update[u].phase # 0
  <2>1. rm = 0 /\ Kept(s) /\ Pending(u, n + 1) /\ fg = bg
    BY <1>1, <1>3, <1>4, <1>5, <1>13 DEF Owes, Stage
  <2>2. adds' = [adds EXCEPT ![u] =
                    UpdateParentWeight(old[s].diff, i)
                    \o UpdateParentWeight(-old[s].weight - old[s].diff, n)
                    \o UpdateTotal(-old[s].weight)]
    BY <1>1, <2>1 DEF MoveLast
  <2>3. /\ old[s].diff = 0 /\ -old[s].weight - old[s].diff = -Scale
        /\ -old[s].weight = -Scale /\ -Scale \in Int
    BY <1>11, <2>1 DEF Kept
  <2>4. adds'[u] = UpdateSums(-Scale, n)
    <3>1. adds'[u] = (<< >> \o UpdateParentWeight(-Scale, n))
                     \o UpdateTotal(-Scale)
      BY <1>4, <2>2, <2>3, NoSums DEF NumberInv
    <3>2. UpdateParentWeight(-Scale, n) \in Seq(Additions)
      BY <1>10, <2>3, SumsTyped
    <3>3. \A q \in Seq(Additions) : << >> \o q = q
      OBVIOUS
    <3> QED
      BY <3>1, <3>2, <3>3 DEF UpdateSums
  <2>5. Pending(u, n)'
    <3>1. -Scale # Scale
      BY <1>11
    <3> QED
      BY <1>4, <1>5, <1>10, <2>1, <2>3, <2>4, <3>1, PendingStart
  <2>6. tree'[index'] = bg /\ n = Len(bg)
    BY <1>1, <1>5, <2>1
  <2> QED
    BY <1>6, <1>7, <1>13, <2>5, <2>6 DEF Owes
<1> QED
  BY <1>12, <1>13

LEMMA UpdatingShares ==
  ASSUME OneUpdater, HeldInv, TreeInv, TypeInv, ShareInv, NEW u \in Updaters,
         Updating(u)
  PROVE  ShareInv'
<1>1. ~RemoveFromNothing(u)
  BY RemoveFromNothingNot
<1> QED
  BY <1>1, PointShares, AddUpShares, AddNodeShares, RemoveNodeShares,
     MoveLastShares
  DEF Updating, add_server, remove_server, Add, RemoveFrom, SwapLast, AddUp,
      Modify

LEMMA NextShares ==
  ASSUME OneUpdater, HeldInv, TreeInv, TypeInv, ShareInv, [NextW]_varsW
  PROVE  ShareInv'
<1>1. CASE UNCHANGED varsW
  <2>1. /\ UNCHANGED <<tree, index, update>>
        /\ UNCHANGED <<weight, old, left, total_weight, adds>>
    BY <1>1 DEF varsW, vars, treeVars, sumVars, weightVars
  <2>2. \A u, n : Pending(u, n) => Pending(u, n)'
    BY <2>1, PendingSame
  <2> QED
    BY <2>1, <2>2 DEF ShareInv, Weighs, Owes, Gone, Moves, Kept
<1> QED
  BY <1>1, CallingShares, UpdatingShares DEF NextW

LEMMA SharesEqual ==
  ASSUME OneUpdater, HeldInv, TreeInv, TypeInv, ShareInv
  PROVE  EqualShares
<1> SUFFICES ASSUME modifying = None, NEW t, t = tree[index]
             PROVE  /\ \A s \in ToSet(t) : weight[s] = Scale
                    /\ total_weight = Scale * Len(t)
                    /\ \A p \in Places(t) :
                        left[p] = Scale * Cardinality({i \in Places(t) :
                                                        p \in LeftParents(i)})
  BY DEF EqualShares
<1>1. PICK u \in Updaters : TRUE
  BY DEF OneUpdater
<1>2. /\ Weighs(u) /\ Owes(u) /\ Stage(u) /\ NumberInv /\ index \in {0, 1}
      /\ WellFormed(t, server_map[index])
  BY DEF ShareInv, TreeInv, TypeInv, HeldInv
<1>3. update[u].pc \in {"idle", "wait"} /\ update[u].phase = 0
  <2>1. None \notin Updaters
    BY NoneAssumption
  <2> QED
    BY <1>2, <2>1 DEF HeldInv, Stage
<1>4. Pending(u, Len(t)) /\ adds[u] = << >>
  BY <1>2, <1>3 DEF Owes
<1>5. /\ total_weight = Scale * Len(t)
      /\ \A p \in Positions : left[p] = Share(Len(t), p)
  BY <1>2, <1>4, NonePending
<1>6. \A s \in ToSet(t) : weight[s] = Scale
  BY <1>2, <1>3, BothCopies DEF Weighs, Gone
<1>7. Places(t) \subseteq Positions
  BY <1>2, PlaceIs
<1> QED
  BY <1>5, <1>6, <1>7 DEF Share, Places

(* The balancer that RpcClientStub uses keeps every server at the weight that
   the first one was given.  When no server is being added or removed, the
   total and the left sums are exactly those of equal weights, whatever was
   fed back, whatever servers came and went in the meantime, and whoever is
   just then selecting. *)
THEOREM SharesStayEqual == ASSUME OneUpdater PROVE SpecW => []EqualShares
<1>1. HeldInv /\ InitW => ShareInv
  BY InitShares
<1>2. HeldInv /\ TreeInv /\ TypeInv /\ ShareInv /\ [NextW]_varsW => ShareInv'
  BY NextShares
<1>3. HeldInv /\ TreeInv /\ TypeInv /\ ShareInv => EqualShares
  BY SharesEqual
<1>4. SpecW => [](HeldInv /\ TreeInv /\ TypeInv /\ TypeInvW)
  BY SpecTypesW
<1> QED
  BY <1>1, <1>2, <1>3, <1>4, PTL DEF SpecW

-----------------------------------------------------------------------------
(* Sums *)

Sum(f, S) == MapThenSumSet(LAMBDA x : f[x], S)

LEMMA LeastNumber ==
  ASSUME NEW S \in SUBSET Nat, S # {}
  PROVE  \E m \in S : \A n \in S : m <= n
<1>1. PICK m \in S : \A n \in S : ~(<<n, m>> \in OpToRel(<, Nat))
  BY NatLessThanWellFounded, WFMin
<1>2. ASSUME NEW n \in S, n < m PROVE FALSE
  <2>1. <<n, m>> \in Nat \X Nat /\ <<n, m>>[1] < <<n, m>>[2]
    BY <1>2
  <2>2. <<n, m>> \in OpToRel(<, Nat)
    BY <2>1 DEF OpToRel
  <2> QED
    BY <2>2, <1>1
<1> QED
  BY <1>2

(* What holds of a finite set if it holds of all sets with one element less
   holds of all finite sets. *)
LEMMA SubsetInduction ==
  ASSUME NEW U, IsFiniteSet(U), NEW T,
         \A s \in SUBSET U : (\A x \in s : s \ {x} \in T) => s \in T
  PROVE  SUBSET U \subseteq T
<1> SUFFICES ASSUME NEW r \in SUBSET U, r \notin T PROVE FALSE
  OBVIOUS
<1> DEFINE N == {n \in Nat : \E s \in SUBSET U : s \notin T
                                                /\ Cardinality(s) = n}
<1>1. \A s \in SUBSET U : IsFiniteSet(s) /\ Cardinality(s) \in Nat
  BY FS_Subset, FS_CardinalityType
<1>2. N # {} /\ N \in SUBSET Nat
  BY <1>1
<1>3. PICK m \in N : \A n \in N : m <= n
  BY <1>2, LeastNumber
<1>4. PICK s \in SUBSET U : s \notin T /\ Cardinality(s) = m
  BY <1>3
<1>5. PICK x \in s : s \ {x} \notin T
  BY <1>4
<1>6. s \ {x} \in SUBSET U /\ Cardinality(s \ {x}) = m - 1
  BY <1>1, <1>4, FS_RemoveElement
<1>7. m - 1 \in N
  BY <1>1, <1>5, <1>6
<1> QED
  BY <1>3, <1>7

(* The function on the subsets of S that the fold defines. *)
First(s) == CHOOSE x \in s : TRUE
Adding(f, S, g) ==
    [s \in SUBSET S |-> IF s = {} THEN 0 ELSE f[First(s)] + g[s \ {First(s)}]]
Adds(f, S, g) == g = Adding(f, S, g)

LEMMA AddsExists ==
  ASSUME NEW f, NEW S, IsFiniteSet(S)
  PROVE  \E g : Adds(f, S, g)
<1> DEFINE Recurs(g, n) == \A s \in SUBSET S : Cardinality(s) <= n =>
                            g[s] = Adding(f, S, g)[s]
           T == {n \in Nat : \E g : g = [s \in SUBSET S |-> g[s]] /\ Recurs(g, n)}
<1>1. \A s \in SUBSET S : /\ IsFiniteSet(s) /\ Cardinality(s) \in Nat
                          /\ Cardinality(s) <= Cardinality(S)
  BY FS_Subset, FS_CardinalityType
<1>2. \A s \in SUBSET S : s # {} => /\ First(s) \in s
                                    /\ Cardinality(s \ {First(s)})
                                        = Cardinality(s) - 1
                                    /\ Cardinality(s) # 0
  <2> TAKE s \in SUBSET S
  <2> HAVE s # {}
  <2>1. First(s) \in s
    BY DEF First
  <2> QED
    BY <1>1, <2>1, FS_RemoveElement, FS_EmptySet
<1>3. 0 \in T
  <2>1. PICK g : g = [s \in SUBSET S |-> 0]
    OBVIOUS
  <2>2. \A s \in SUBSET S : Cardinality(s) <= 0 => s = {}
    BY <1>1, FS_EmptySet
  <2> QED
    BY <2>1, <2>2 DEF Adding
<1>4. ASSUME NEW n \in Nat, n \in T PROVE n + 1 \in T
  <2>1. PICK g : g = [s \in SUBSET S |-> g[s]] /\ Recurs(g, n)
    BY <1>4
  <2>2. PICK h : h = [s \in SUBSET S |-> IF Cardinality(s) <= n THEN g[s]
                                         ELSE Adding(f, S, g)[s]]
    OBVIOUS
  <2>3. ASSUME NEW s \in SUBSET S, Cardinality(s) <= n + 1
        PROVE  h[s] = Adding(f, S, h)[s]
    <3>1. CASE s = {}
      <4>1. Cardinality(s) = 0
        BY <3>1, FS_EmptySet
      <4> QED
        BY <2>1, <2>2, <3>1, <4>1 DEF Adding
    <3>2. CASE s # {}
      <4>1. PICK r : r = s \ {First(s)}
        OBVIOUS
      <4>2. r \in SUBSET S /\ Cardinality(r) <= n
        BY <1>1, <1>2, <2>3, <3>2, <4>1
      <4>3. h[r] = g[r]
        BY <2>2, <4>2
      <4>4. h[s] = Adding(f, S, g)[s]
        BY <2>1, <2>2
      <4>5. /\ Adding(f, S, g)[s] = f[First(s)] + g[r]
            /\ Adding(f, S, h)[s] = f[First(s)] + h[r]
        BY <3>2, <4>1 DEF Adding
      <4> QED
        BY <4>3, <4>4, <4>5
    <3> QED
      BY <3>1, <3>2
  <2>4. h = [s \in SUBSET S |-> h[s]] /\ Recurs(h, n + 1)
    BY <2>2, <2>3
  <2> HIDE DEF Recurs
  <2> QED
    BY <2>4
<1>5. Nat \subseteq T
  <2> HIDE DEF T
  <2> SUFFICES ASSUME Nat \ T # {} PROVE FALSE
    OBVIOUS
  <2>1. PICK m \in Nat \ T : \A n \in Nat \ T : m <= n
    BY LeastNumber
  <2>2. m - 1 \in Nat /\ ~(m <= m - 1)
    BY <1>3, <2>1
  <2>3. m - 1 \in T
    BY <2>1, <2>2
  <2> QED
    BY <1>4, <2>1, <2>2, <2>3
<1>6. Cardinality(S) \in T
  BY <1>1, <1>5
<1>7. PICK g : g = [s \in SUBSET S |-> g[s]] /\ Recurs(g, Cardinality(S))
  BY <1>6
<1>8. \A s \in SUBSET S : g[s] = Adding(f, S, g)[s]
  BY <1>1, <1>7
<1>9. g = Adding(f, S, g)
  BY <1>7, <1>8 DEF Adding
<1> QED
  BY <1>9 DEF Adds

(* Any such function gives the same sums, also on a larger set. *)
LEMMA AddsSame ==
  ASSUME NEW f, NEW S, NEW R, IsFiniteSet(R), R \subseteq S,
         NEW g, Adds(f, S, g), NEW h, Adds(f, R, h)
  PROVE  \A s \in SUBSET R : g[s] = h[s]
<1> DEFINE T == {s \in SUBSET R : g[s] = h[s]}
<1>1. ASSUME NEW s \in SUBSET R, \A x \in s : s \ {x} \in T PROVE s \in T
  <2>1. s \in SUBSET S
    OBVIOUS
  <2>2. /\ g[s] = IF s = {} THEN 0 ELSE f[First(s)] + g[s \ {First(s)}]
        /\ h[s] = IF s = {} THEN 0 ELSE f[First(s)] + h[s \ {First(s)}]
    BY <2>1 DEF Adds, Adding
  <2>3. s # {} => First(s) \in s
    BY DEF First
  <2> QED
    BY <1>1, <2>2, <2>3
<1> HIDE DEF T
<1>2. SUBSET R \subseteq T
  BY <1>1, SubsetInduction
<1> QED
  BY <1>2 DEF T

LEMMA SumIs ==
  ASSUME NEW f, NEW S, IsFiniteSet(S)
  PROVE  \E g : Adds(f, S, g) /\ Sum(f, S) = g[S]
<1>1. Sum(f, S) = (CHOOSE g : Adds(f, S, g))[S]
  BY DEF Sum, MapThenSumSet, MapThenFoldSet, Adds, Adding, First
<1>2. PICK g : g = CHOOSE h : Adds(f, S, h)
  OBVIOUS
<1>3. Adds(f, S, g)
  BY <1>2, AddsExists
<1> QED
  BY <1>1, <1>2, <1>3

LEMMA SumEmpty == ASSUME NEW f PROVE Sum(f, {}) = 0
<1>1. PICK g : Adds(f, {}, g) /\ Sum(f, {}) = g[{}]
  BY SumIs, FS_EmptySet
<1>2. {} \in SUBSET {}
  OBVIOUS
<1> QED
  BY <1>1, <1>2 DEF Adds, Adding

LEMMA SumFirst ==
  ASSUME NEW f, NEW S, IsFiniteSet(S), S # {}
  PROVE  /\ First(S) \in S
         /\ Sum(f, S) = f[First(S)] + Sum(f, S \ {First(S)})
<1>1. PICK R : R = S \ {First(S)}
  OBVIOUS
<1>2. First(S) \in S /\ R \in SUBSET S /\ IsFiniteSet(R)
  BY <1>1, FS_Subset DEF First
<1>3. PICK g : Adds(f, S, g) /\ Sum(f, S) = g[S]
  BY SumIs
<1>4. PICK h : Adds(f, R, h) /\ Sum(f, R) = h[R]
  BY <1>2, SumIs
<1>5. g[R] = h[R]
  BY <1>2, <1>3, <1>4, AddsSame
<1>6. g[S] = f[First(S)] + g[R]
  BY <1>1, <1>3 DEF Adds, Adding
<1> QED
  BY <1>1, <1>2, <1>3, <1>4, <1>5, <1>6

(* A sum of numbers is a number. *)
LEMMA SumTyped ==
  ASSUME NEW U, IsFiniteSet(U), NEW f, \A x \in U : f[x] \in Int
  PROVE  \A s \in SUBSET U : Sum(f, s) \in Int
<1> DEFINE T == {s \in SUBSET U : Sum(f, s) \in Int}
<1>1. ASSUME NEW s \in SUBSET U, \A x \in s : s \ {x} \in T PROVE s \in T
  <2>1. CASE s = {}
    BY <2>1, SumEmpty
  <2>2. CASE s # {}
    <3>1. First(s) \in s /\ Sum(f, s) = f[First(s)] + Sum(f, s \ {First(s)})
      BY <2>2, SumFirst, FS_Subset
    <3> QED
      BY <1>1, <3>1
  <2> QED
    BY <2>1, <2>2
<1> HIDE DEF T
<1>2. SUBSET U \subseteq T
  BY <1>1, SubsetInduction
<1> QED
  BY <1>2 DEF T

(* It does not matter which summand is taken first. *)
LEMMA SumRemove ==
  ASSUME NEW U, IsFiniteSet(U), NEW f, \A x \in U : f[x] \in Int
  PROVE  \A x \in U : Sum(f, U) = f[x] + Sum(f, U \ {x})
<1> DEFINE T == {s \in SUBSET U :
                    \A x \in s : Sum(f, s) = f[x] + Sum(f, s \ {x})}
<1>1. ASSUME NEW s \in SUBSET U, \A x \in s : s \ {x} \in T PROVE s \in T
  <2> SUFFICES ASSUME NEW x \in s PROVE Sum(f, s) = f[x] + Sum(f, s \ {x})
    OBVIOUS
  <2>1. PICK y : y = First(s)
    OBVIOUS
  <2>2. y \in s /\ Sum(f, s) = f[y] + Sum(f, s \ {y})
    BY <2>1, SumFirst, FS_Subset
  <2>3. CASE x # y
    <3>1. PICK r : r = (s \ {x}) \ {y} /\ r = (s \ {y}) \ {x}
      OBVIOUS
    <3>2. /\ Sum(f, s \ {x}) = f[y] + Sum(f, r)
          /\ Sum(f, s \ {y}) = f[x] + Sum(f, r)
      BY <1>1, <2>2, <2>3, <3>1
    <3>3. r \in SUBSET U /\ x \in U /\ y \in U
      BY <2>2, <3>1
    <3>4. f[x] \in Int /\ f[y] \in Int /\ Sum(f, r) \in Int
      BY <3>3, SumTyped
    <3> QED
      BY <2>2, <3>2, <3>4
  <2> QED
    BY <2>2, <2>3
<1> HIDE DEF T
<1>2. U \in T
  BY <1>1, SubsetInduction
<1> QED
  BY <1>2 DEF T

(* Equal summands have equal sums. *)
LEMMA SumSame ==
  ASSUME NEW U, IsFiniteSet(U), NEW f, NEW g, \A x \in U : f[x] = g[x]
  PROVE  Sum(f, U) = Sum(g, U)
<1> DEFINE T == {s \in SUBSET U : Sum(f, s) = Sum(g, s)}
<1>1. ASSUME NEW s \in SUBSET U, \A x \in s : s \ {x} \in T PROVE s \in T
  <2>1. CASE s = {}
    BY <2>1, SumEmpty
  <2>2. CASE s # {}
    <3>1. /\ First(s) \in s
          /\ Sum(f, s) = f[First(s)] + Sum(f, s \ {First(s)})
          /\ Sum(g, s) = g[First(s)] + Sum(g, s \ {First(s)})
      BY <2>2, SumFirst, FS_Subset
    <3> QED
      BY <1>1, <3>1
  <2> QED
    BY <2>1, <2>2
<1> HIDE DEF T
<1>2. U \in T
  BY <1>1, SubsetInduction
<1> QED
  BY <1>2 DEF T

(* One summand is replaced. *)
LEMMA SumExcept ==
  ASSUME NEW U, IsFiniteSet(U), NEW x \in U,
         NEW f, \A y \in U : f[y] \in Int,
         NEW g, \A y \in U : g[y] \in Int,
         \A y \in U \ {x} : f[y] = g[y]
  PROVE  Sum(g, U) = Sum(f, U) - f[x] + g[x]
<1>1. Sum(f, U \ {x}) = Sum(g, U \ {x})
  BY SumSame, FS_Subset
<1>2. Sum(f, U) = f[x] + Sum(f, U \ {x}) /\ Sum(g, U) = g[x] + Sum(g, U \ {x})
  BY SumRemove
<1>3. Sum(f, U \ {x}) \in Int
  BY SumTyped
<1> QED
  BY <1>1, <1>2, <1>3

LEMMA SumZero ==
  ASSUME NEW U, IsFiniteSet(U), NEW f, \A x \in U : f[x] = 0
  PROVE  Sum(f, U) = 0
<1> DEFINE T == {s \in SUBSET U : Sum(f, s) = 0}
<1>1. ASSUME NEW s \in SUBSET U, \A x \in s : s \ {x} \in T PROVE s \in T
  <2>1. CASE s = {}
    BY <2>1, SumEmpty
  <2>2. CASE s # {}
    <3>1. First(s) \in s /\ Sum(f, s) = f[First(s)] + Sum(f, s \ {First(s)})
      BY <2>2, SumFirst, FS_Subset
    <3> QED
      BY <1>1, <3>1
  <2> QED
    BY <2>1, <2>2
<1> HIDE DEF T
<1>2. U \in T
  BY <1>1, SubsetInduction
<1> QED
  BY <1>2 DEF T

-----------------------------------------------------------------------------
(* What the sums must be *)

(* Position i counts for the total and for the sums to whose left it is. *)
Counts(i, p) == p = Total \/ p \in LeftParents(i)
In(i, p, d) == IF Counts(i, p) THEN d ELSE 0

(* The sum at p for a tree t of servers that weigh w. *)
Loads(w, t) == [i \in Places(t) |-> w[t[i + 1]]]
Counted(n, p) == {i \in 0 .. n - 1 : Counts(i, p)}
Load(w, t, p) == Sum(Loads(w, t), Counted(Len(t), p))

Tree(t) == t \in Seq(Servers)
Weighing(w) == w \in [Servers -> Int]

LEMMA LoadsAre ==
  ASSUME NEW t, Tree(t), NEW w, Weighing(w), NEW p
  PROVE  /\ Len(t) \in Nat /\ DOMAIN t = 1 .. Len(t)
         /\ \A i \in 0 .. Len(t) - 1 : /\ t[i + 1] \in Servers
                                       /\ Loads(w, t)[i] = w[t[i + 1]]
                                       /\ Loads(w, t)[i] \in Int
         /\ IsFiniteSet(Counted(Len(t), p))
         /\ Counted(Len(t), p) \subseteq 0 .. Len(t) - 1
         /\ Load(w, t, p) \in Int
<1>1. /\ Len(t) \in Nat /\ DOMAIN t = 1 .. Len(t)
      /\ \A i \in 0 .. Len(t) - 1 : t[i + 1] \in Servers
  BY DEF Tree
<1>2. \A i \in 0 .. Len(t) - 1 : /\ Loads(w, t)[i] = w[t[i + 1]]
                                 /\ Loads(w, t)[i] \in Int
  BY <1>1 DEF Loads, Places, Weighing
<1>3. PICK S : S = Counted(Len(t), p)
  OBVIOUS
<1>4. S \in SUBSET (0 .. Len(t) - 1) /\ IsFiniteSet(0 .. Len(t) - 1)
  BY <1>1, <1>3, FS_Interval DEF Counted
<1>5. IsFiniteSet(S)
  BY <1>4, FS_Subset
<1>6. Sum(Loads(w, t), S) \in Int
  BY <1>2, <1>4, <1>5, SumTyped
<1> QED
  BY <1>1, <1>2, <1>3, <1>4, <1>5, <1>6 DEF Load

(* Two trees of one size whose nodes weigh the same but for the one at a. *)
LEMMA LoadDiffer ==
  ASSUME NEW q, Tree(q), NEW r, Tree(r), Len(r) = Len(q),
         NEW w, Weighing(w), NEW v, Weighing(v), NEW p,
         NEW a \in Places(q),
         \A i \in Places(q) \ {a} : v[r[i + 1]] = w[q[i + 1]]
  PROVE  Load(v, r, p) = Load(w, q, p) + In(a, p, v[r[a + 1]] - w[q[a + 1]])
<1>1. PICK S, f, g : /\ S = Counted(Len(q), p) /\ f = Loads(w, q)
                     /\ g = Loads(v, r)
  OBVIOUS
<1>2. /\ IsFiniteSet(S) /\ S \subseteq Places(q)
      /\ \A i \in Places(q) : /\ f[i] = w[q[i + 1]] /\ f[i] \in Int
                              /\ g[i] = v[r[i + 1]] /\ g[i] \in Int
  BY <1>1, LoadsAre DEF Places
<1>3. /\ Load(w, q, p) = Sum(f, S) /\ Load(v, r, p) = Sum(g, S)
      /\ Load(w, q, p) \in Int
  BY <1>1, LoadsAre DEF Load
<1>4. a \in S <=> Counts(a, p)
  BY <1>1 DEF Counted, Places
<1>5. CASE a \in S
  <2>1. Sum(g, S) = Sum(f, S) - f[a] + g[a]
    BY <1>2, <1>5, SumExcept
  <2> QED
    BY <1>2, <1>3, <1>4, <1>5, <2>1 DEF In
<1>6. CASE a \notin S
  <2>1. Sum(g, S) = Sum(f, S)
    BY <1>2, <1>6, SumSame
  <2> QED
    BY <1>2, <1>3, <1>4, <1>6, <2>1 DEF In
<1> QED
  BY <1>5, <1>6

(* Two trees whose nodes weigh the same. *)
LEMMA LoadSame ==
  ASSUME NEW q, Tree(q), NEW r, Tree(r), Len(r) = Len(q),
         NEW w, Weighing(w), NEW v, Weighing(v), NEW p,
         \A i \in Places(q) : v[r[i + 1]] = w[q[i + 1]]
  PROVE  Load(v, r, p) = Load(w, q, p)
<1>1. PICK S, f, g : /\ S = Counted(Len(q), p) /\ f = Loads(w, q)
                     /\ g = Loads(v, r)
  OBVIOUS
<1>2. /\ IsFiniteSet(S) /\ S \subseteq Places(q)
      /\ \A i \in Places(q) : f[i] = w[q[i + 1]] /\ g[i] = v[r[i + 1]]
  BY <1>1, LoadsAre DEF Places
<1>3. Sum(g, S) = Sum(f, S)
  BY <1>2, SumSame
<1> QED
  BY <1>1, <1>3 DEF Load

(* t has a node more than r. *)
LEMMA LoadLonger ==
  ASSUME NEW r, Tree(r), NEW t, Tree(t), Len(t) = Len(r) + 1,
         \A k \in 1 .. Len(r) : t[k] = r[k], NEW w, Weighing(w), NEW p
  PROVE  Load(w, t, p) = Load(w, r, p) + In(Len(r), p, w[t[Len(r) + 1]])
<1>1. PICK n, S, R, f, g : /\ n = Len(r) /\ S = Counted(Len(t), p)
                           /\ R = Counted(n, p) /\ f = Loads(w, r)
                           /\ g = Loads(w, t)
  OBVIOUS
<1>2. /\ n \in Nat /\ IsFiniteSet(S) /\ IsFiniteSet(R)
      /\ \A i \in 0 .. n - 1 : f[i] = w[r[i + 1]] /\ f[i] \in Int
      /\ \A i \in 0 .. n : g[i] = w[t[i + 1]] /\ g[i] \in Int
      /\ Load(w, r, p) = Sum(f, R) /\ Load(w, t, p) = Sum(g, S)
      /\ Load(w, r, p) \in Int
  <2>1. n \in Nat /\ Len(t) - 1 = n
    BY <1>1, LoadsAre
  <2>2. /\ IsFiniteSet(R) /\ Load(w, r, p) \in Int
        /\ \A i \in 0 .. n - 1 : f[i] = w[r[i + 1]] /\ f[i] \in Int
    BY <1>1, LoadsAre
  <2>3. /\ IsFiniteSet(S)
        /\ \A i \in 0 .. n : g[i] = w[t[i + 1]] /\ g[i] \in Int
    BY <1>1, <2>1, LoadsAre
  <2>4. Load(w, r, p) = Sum(f, R) /\ Load(w, t, p) = Sum(g, S)
    BY <1>1 DEF Load
  <2> QED
    BY <2>1, <2>2, <2>3, <2>4
<1>3. S = IF Counts(n, p) THEN R \cup {n} ELSE R
  <2>1. \A i : i \in 0 .. (n + 1) - 1 <=> i \in 0 .. n - 1 \/ i = n
    BY <1>2
  <2> QED
    BY <1>1, <2>1 DEF Counted
<1>4. n \notin R /\ R \subseteq 0 .. n - 1 /\ S \subseteq 0 .. n
  BY <1>1, <1>2 DEF Counted
<1>5. \A i \in R : g[i] = f[i]
  <2> TAKE i \in R
  <2>1. i \in 0 .. n - 1 /\ i \in 0 .. n /\ i + 1 \in 1 .. n
    BY <1>2, <1>4
  <2>2. t[i + 1] = r[i + 1]
    BY <1>1, <2>1
  <2> QED
    BY <1>2, <2>1, <2>2
<1>6. Sum(g, R) = Sum(f, R)
  BY <1>2, <1>5, SumSame
<1>7. CASE Counts(n, p)
  <2>1. n \in S /\ S \ {n} = R
    BY <1>3, <1>4, <1>7
  <2>2. \A i \in S : g[i] \in Int
    BY <1>2, <1>4
  <2>3. Sum(g, S) = g[n] + Sum(g, S \ {n})
    BY <1>2, <2>1, <2>2, SumRemove
  <2>4. g[n] = w[t[n + 1]] /\ g[n] \in Int
    BY <1>2
  <2>5. Sum(g, S \ {n}) = Sum(f, R)
    BY <1>6, <2>1, Zenon
  <2>6. Load(w, t, p) = Load(w, r, p) + w[t[n + 1]]
    BY <1>2, <2>3, <2>4, <2>5
  <2> QED
    BY <1>1, <1>7, <2>6 DEF In
<1>8. CASE ~Counts(n, p)
  BY <1>1, <1>2, <1>3, <1>6, <1>8 DEF In
<1> QED
  BY <1>7, <1>8

(* The weight of one server is changed. *)
LEMMA LoadReset ==
  ASSUME NEW t, Tree(t), IsInjective(t), NEW i \in Places(t),
         NEW w, Weighing(w), NEW d \in Int, NEW p
  PROVE  Load([w EXCEPT ![t[i + 1]] = d], t, p)
            = Load(w, t, p) + In(i, p, d - w[t[i + 1]])
<1>1. PICK s, v : s = t[i + 1] /\ v = [w EXCEPT ![s] = d]
  OBVIOUS
<1>2. /\ Len(t) \in Nat /\ DOMAIN t = 1 .. Len(t)
      /\ \A j \in Places(t) : t[j + 1] \in Servers
  BY LoadsAre DEF Places
<1>3. Weighing(v) /\ v[s] = d
  BY <1>1, <1>2 DEF Weighing
<1>4. \A j \in Places(t) \ {i} : t[j + 1] # s
  BY <1>1, <1>2 DEF IsInjective, Places
<1>5. \A j \in Places(t) \ {i} : v[t[j + 1]] = w[t[j + 1]]
  BY <1>1, <1>2, <1>4 DEF Weighing
<1>6. Load(v, t, p) = Load(w, t, p) + In(i, p, v[t[i + 1]] - w[t[i + 1]])
  BY <1>3, <1>5, LoadDiffer
<1> QED
  BY <1>1, <1>3, <1>6

(* It is not in the tree. *)
LEMMA LoadElsewhere ==
  ASSUME NEW t, Tree(t), NEW s, s \notin ToSet(t), NEW w, Weighing(w),
         NEW v, Weighing(v), \A x \in Servers \ {s} : v[x] = w[x], NEW p
  PROVE  Load(v, t, p) = Load(w, t, p)
<1>1. \A i \in Places(t) : t[i + 1] \in Servers /\ t[i + 1] # s
  BY LoadsAre DEF Places, ToSet
<1> QED
  BY <1>1, LoadSame

-----------------------------------------------------------------------------
(* What the threads have still to add at p.  Nobody has more than three
   additions. *)
Part(a, k, p) == IF k <= Len(a) /\ p \in a[k][1] THEN a[k][2] ELSE 0
Owed(a, p) == Part(a, 1, p) + Part(a, 2, p) + Part(a, 3, p)
Short(a) == a \in Seq(Additions) /\ Len(a) <= 3

Threads == Callers \cup Updaters
Debts(a, p) == [t \in Threads |-> Owed(a[t], p)]
Debt(a, p) == Sum(Debts(a, p), Threads)

LEMMA PartTyped ==
  ASSUME NEW a \in Seq(Additions), NEW p, NEW k \in Nat \ {0}
  PROVE  Part(a, k, p) \in Int
<1>1. CASE k <= Len(a)
  <2>1. k \in 1 .. Len(a)
    BY <1>1
  <2>2. a[k] \in Additions
    BY <2>1, ElementOfSeq
  <2> QED
    BY <2>2 DEF Part, Additions
<1> QED
  BY <1>1 DEF Part

LEMMA OwedTyped ==
  ASSUME NEW a \in Seq(Additions), NEW p
  PROVE  Owed(a, p) \in Int
<1>1. Part(a, 1, p) \in Int /\ Part(a, 2, p) \in Int /\ Part(a, 3, p) \in Int
  BY PartTyped
<1> QED
  BY <1>1 DEF Owed

LEMMA OwedNone ==
  ASSUME NEW p
  PROVE  Owed(<< >>, p) = 0 /\ Short(<< >>)
<1>1. Len(<< >>) = 0 /\ << >> \in Seq(Additions)
  OBVIOUS
<1> QED
  BY <1>1 DEF Owed, Part, Short

(* One addition, and none if there is nothing to add. *)
LEMMA OwedOne ==
  ASSUME NEW x \in Additions, NEW p
  PROVE  /\ Owed(<<x>>, p) = IF p \in x[1] THEN x[2] ELSE 0
         /\ Short(<<x>>) /\ Len(<<x>>) = 1
<1>1. <<x>> \in Seq(Additions) /\ Len(<<x>>) = 1 /\ <<x>>[1] = x
  OBVIOUS
<1>2. x[2] \in Int
  BY DEF Additions
<1> QED
  BY <1>1, <1>2 DEF Owed, Part, Short

(* Two of the threads' lists of additions in a row. *)
LEMMA OwedConcat ==
  ASSUME NEW a \in Seq(Additions), NEW b \in Seq(Additions),
         Len(a) + Len(b) <= 3, NEW p
  PROVE  /\ Owed(a \o b, p) = Owed(a, p) + Owed(b, p)
         /\ Short(a \o b) /\ Len(a \o b) = Len(a) + Len(b)
<1>1. PICK c : c = a \o b
  OBVIOUS
<1>2. /\ c \in Seq(Additions) /\ Len(c) = Len(a) + Len(b)
      /\ \A i \in 1 .. Len(a) + Len(b) :
            c[i] = IF i <= Len(a) THEN a[i] ELSE b[i - Len(a)]
  BY <1>1, ConcatProperties
<1>3. Len(a) \in Nat /\ Len(b) \in Nat
  OBVIOUS
<1>4. \A k \in {1, 2, 3} : /\ Part(a, k, p) \in Int /\ Part(b, k, p) \in Int
                           /\ Part(c, k, p) \in Int
  BY <1>2, PartTyped
<1>5. \A k \in {1, 2, 3} :
        /\ k > Len(a) => Part(a, k, p) = 0
        /\ k > Len(b) => Part(b, k, p) = 0
        /\ k > Len(c) => Part(c, k, p) = 0
        /\ k <= Len(a) => Part(c, k, p) = Part(a, k, p)
  BY <1>2, <1>3 DEF Part
<1>6. \A k \in {1, 2, 3} : k + Len(a) <= 3 =>
        Part(c, k + Len(a), p) = Part(b, k, p)
  <2> TAKE k \in {1, 2, 3}
  <2> HAVE k + Len(a) <= 3
  <2>1. k + Len(a) <= Len(c) <=> k <= Len(b)
    BY <1>2, <1>3
  <2>2. k <= Len(b) => c[k + Len(a)] = b[k]
    <3>1. k <= Len(b) => /\ k + Len(a) \in 1 .. Len(a) + Len(b)
                         /\ ~(k + Len(a) <= Len(a))
                         /\ (k + Len(a)) - Len(a) = k
      BY <1>3
    <3> QED
      BY <1>2, <3>1
  <2> QED
    BY <2>1, <2>2 DEF Part
<1>7. Owed(c, p) = Owed(a, p) + Owed(b, p)
  <2>1. CASE Len(a) = 0
    <3>1. \A k \in {1, 2, 3} : k + Len(a) = k /\ k > Len(a)
      BY <2>1
    <3> QED
      BY <1>4, <1>5, <1>6, <2>1, <3>1 DEF Owed
  <2>2. CASE Len(a) = 1
    BY <1>3, <1>4, <1>5, <1>6, <2>2 DEF Owed
  <2>3. CASE Len(a) = 2
    BY <1>3, <1>4, <1>5, <1>6, <2>3 DEF Owed
  <2>4. CASE Len(a) = 3
    BY <1>3, <1>4, <1>5, <1>6, <2>4 DEF Owed
  <2>5. \A j, k \in Nat : j + k <= 3 => j = 0 \/ j = 1 \/ j = 2 \/ j = 3
    OBVIOUS
  <2> QED
    BY <1>3, <2>1, <2>2, <2>3, <2>4, <2>5
<1>8. Len(c) <= 3
  BY <1>2
<1> QED
  BY <1>1, <1>2, <1>7, <1>8 DEF Short

LEMMA OwedParts ==
  ASSUME NEW i \in Positions, NEW d \in Int, NEW p \in Positions \cup {Total}
  PROVE  /\ UpdateParentWeight(d, i) \in Seq(Additions)
         /\ UpdateTotal(d) \in Seq(Additions)
         /\ Len(UpdateParentWeight(d, i)) <= 1 /\ Len(UpdateTotal(d)) <= 1
         /\ Owed(UpdateParentWeight(d, i), p) = IF p = Total THEN 0
                                                ELSE In(i, p, d)
         /\ Owed(UpdateTotal(d), p) = IF p = Total THEN d ELSE 0
<1>1. /\ UpdateParentWeight(d, i) \in Seq(Additions)
      /\ UpdateTotal(d) \in Seq(Additions)
  BY SumsTyped
<1>2. Total \notin LeftParents(i) /\ LeftParents(i) \subseteq Positions
      /\ Total \notin Positions
  BY NotAPosition
<1>3. PICK a : a = UpdateParentWeight(d, i)
  OBVIOUS
<1>4. Len(a) <= 1 /\ Owed(a, p) = IF p = Total THEN 0 ELSE In(i, p, d)
  <2>1. CASE d = 0 \/ LeftParents(i) = {}
    <3>1. a = << >>
      BY <1>3, <2>1 DEF UpdateParentWeight
    <3> QED
      BY <2>1, <3>1, OwedNone DEF In, Counts
  <2>2. CASE d # 0 /\ LeftParents(i) # {}
    <3>1. PICK x : x = <<LeftParents(i), d>>
      OBVIOUS
    <3>2. x \in Additions /\ x[1] = LeftParents(i) /\ x[2] = d
      BY <1>2, <2>2, <3>1 DEF Additions
    <3>3. a = <<x>>
      BY <1>3, <2>2, <3>1 DEF UpdateParentWeight
    <3> QED
      BY <1>2, <3>2, <3>3, OwedOne DEF In, Counts
  <2> QED
    BY <2>1, <2>2
<1>5. PICK b : b = UpdateTotal(d)
  OBVIOUS
<1>6. Len(b) <= 1 /\ Owed(b, p) = IF p = Total THEN d ELSE 0
  <2>1. CASE d = 0
    <3>1. b = << >>
      BY <1>5, <2>1 DEF UpdateTotal
    <3> QED
      BY <2>1, <3>1, OwedNone
  <2>2. CASE d # 0
    <3>1. PICK x : x = <<{Total}, d>>
      OBVIOUS
    <3>2. x \in Additions /\ x[1] = {Total} /\ x[2] = d
      BY <2>2, <3>1 DEF Additions
    <3>3. b = <<x>>
      BY <1>5, <2>2, <3>1 DEF UpdateTotal
    <3> QED
      BY <3>2, <3>3, OwedOne
  <2> QED
    BY <2>1, <2>2
<1> QED
  BY <1>1, <1>3, <1>4, <1>5, <1>6

(* A change by d at position i, to be added to the sums. *)
LEMMA OwedSums ==
  ASSUME NEW i \in Positions, NEW d \in Int, NEW p \in Positions \cup {Total}
  PROVE  Owed(UpdateSums(d, i), p) = In(i, p, d) /\ Short(UpdateSums(d, i))
<1>1. PICK a, b : a = UpdateParentWeight(d, i) /\ b = UpdateTotal(d)
  OBVIOUS
<1>2. /\ a \in Seq(Additions) /\ b \in Seq(Additions)
      /\ Len(a) <= 1 /\ Len(b) <= 1
      /\ Owed(a, p) = IF p = Total THEN 0 ELSE In(i, p, d)
      /\ Owed(b, p) = IF p = Total THEN d ELSE 0
  BY <1>1, OwedParts
<1>3. Len(a) + Len(b) <= 3
  <2>1. Len(a) \in Nat /\ Len(b) \in Nat
    BY <1>2
  <2> QED
    BY <1>2, <2>1
<1>4. Owed(a \o b, p) = Owed(a, p) + Owed(b, p) /\ Short(a \o b)
  BY <1>2, <1>3, OwedConcat
<1> QED
  BY <1>1, <1>2, <1>4 DEF UpdateSums, In, Counts

(* What ends a move: d is to be added at i, v taken away at e, and w from the
   total. *)
LEMMA OwedMove ==
  ASSUME NEW i \in Positions, NEW e \in Positions, NEW d \in Int,
         NEW v \in Int, NEW w \in Int, NEW p \in Positions \cup {Total}
  PROVE  /\ Owed(UpdateParentWeight(d, i) \o UpdateParentWeight(v, e)
                    \o UpdateTotal(w), p)
              = IF p = Total THEN w ELSE In(i, p, d) + In(e, p, v)
         /\ Short(UpdateParentWeight(d, i) \o UpdateParentWeight(v, e)
                    \o UpdateTotal(w))
<1>1. PICK x, y, z : /\ x = UpdateParentWeight(d, i)
                     /\ y = UpdateParentWeight(v, e) /\ z = UpdateTotal(w)
  OBVIOUS
<1>2. /\ x \in Seq(Additions) /\ y \in Seq(Additions) /\ z \in Seq(Additions)
      /\ Len(x) <= 1 /\ Len(y) <= 1 /\ Len(z) <= 1
      /\ Owed(x, p) = IF p = Total THEN 0 ELSE In(i, p, d)
      /\ Owed(y, p) = IF p = Total THEN 0 ELSE In(e, p, v)
      /\ Owed(z, p) = IF p = Total THEN w ELSE 0
  BY <1>1, OwedParts
<1>3. Len(x) \in Nat /\ Len(y) \in Nat /\ Len(z) \in Nat
  BY <1>2
<1>4. PICK b : b = x \o y
  OBVIOUS
<1>5. Len(x) + Len(y) <= 3 /\ Len(x) + Len(y) + Len(z) <= 3
  BY <1>2, <1>3
<1>6. /\ Owed(b, p) = Owed(x, p) + Owed(y, p) /\ b \in Seq(Additions)
      /\ Len(b) = Len(x) + Len(y)
  BY <1>2, <1>4, <1>5, OwedConcat DEF Short
<1>7. Len(b) + Len(z) <= 3
  BY <1>6, <1>5
<1>8. Owed(b \o z, p) = Owed(b, p) + Owed(z, p) /\ Short(b \o z)
  BY <1>2, <1>6, <1>7, OwedConcat
<1>9. In(i, p, d) \in Int /\ In(e, p, v) \in Int
  BY DEF In
<1> QED
  BY <1>1, <1>2, <1>4, <1>6, <1>8, <1>9

(* The next addition is made, and no longer owed. *)
LEMMA OwedNext ==
  ASSUME NEW a, Short(a), a # << >>, NEW q \in Head(a)[1],
         NEW b, b = WithoutNext(a, q)
  PROVE  /\ Short(b)
         /\ \A p : Owed(b, p) = Owed(a, p) - (IF p = q THEN Head(a)[2] ELSE 0)
<1>1. PICK h, z : h = Head(a) /\ z = Tail(a)
  OBVIOUS
<1>2. /\ a \in Seq(Additions) /\ Len(a) \in Nat /\ Len(a) <= 3 /\ Len(a) >= 1
      /\ h \in Additions /\ z \in Seq(Additions) /\ Len(z) = Len(a) - 1
      /\ \A i \in 1 .. Len(z) : z[i] = a[i + 1]
  <2>1. a \in Seq(Additions) /\ Len(a) <= 3
    BY DEF Short
  <2>2. Len(a) \in Nat /\ Len(a) >= 1
    BY <2>1
  <2> QED
    BY <1>1, <2>1, <2>2, HeadTailProperties
<1>3. h = a[1]
  BY <1>1, <1>2
<1>4. h[1] \subseteq Positions \cup {Total} /\ h[2] \in Int \ {0}
  BY <1>2 DEF Additions
<1>5. /\ Part(z, 1, q) = Part(a, 2, q) /\ Part(z, 2, q) = Part(a, 3, q)
      /\ \A p : /\ Part(a, 1, p) = IF p \in h[1] THEN h[2] ELSE 0
                /\ Part(z, 1, p) = Part(a, 2, p)
                /\ Part(z, 2, p) = Part(a, 3, p)
                /\ Part(z, 3, p) = 0
                /\ Part(z, 1, p) \in Int /\ Part(z, 2, p) \in Int
  <2>1. 1 <= Len(z) <=> 2 <= Len(a)
    BY <1>2
  <2>2. 2 <= Len(z) <=> 3 <= Len(a)
    BY <1>2
  <2>3. ~(3 <= Len(z))
    BY <1>2
  <2>4. 1 <= Len(z) => z[1] = a[2]
    BY <1>2
  <2>5. 2 <= Len(z) => z[2] = a[3]
    BY <1>2
  <2>6. 1 <= Len(a)
    BY <1>2
  <2>7. \A p : Part(z, 1, p) \in Int /\ Part(z, 2, p) \in Int
    BY <1>2, PartTyped
  <2> QED
    BY <1>3, <2>1, <2>2, <2>3, <2>4, <2>5, <2>6, <2>7 DEF Part
<1>6. PICK rest : rest = h[1] \ {q}
  OBVIOUS
<1>7. CASE rest = {}
  <2>1. b = z
    BY <1>1, <1>6, <1>7 DEF WithoutNext
  <2>2. h[1] = {q}
    BY <1>1, <1>6, <1>7
  <2>3. Short(z)
    BY <1>2 DEF Short
  <2>4. \A p : Owed(z, p) = Owed(a, p) - (IF p = q THEN h[2] ELSE 0)
    BY <1>4, <1>5, <2>2 DEF Owed
  <2> QED
    BY <1>1, <2>1, <2>3, <2>4
<1>8. CASE rest # {}
  <2>1. PICK x : x = <<rest, h[2]>>
    OBVIOUS
  <2>2. x \in Additions /\ x[1] = rest /\ x[2] = h[2]
    BY <1>4, <1>6, <2>1 DEF Additions
  <2>3. b = <<x>> \o z
    BY <1>1, <1>6, <1>8, <2>1 DEF WithoutNext
  <2>4. <<x>> \in Seq(Additions) /\ Len(<<x>>) = 1
        /\ Len(<<x>>) + Len(z) <= 3
    BY <1>2, <2>2
  <2>5. \A p : /\ Owed(b, p) = Owed(<<x>>, p) + Owed(z, p)
               /\ Owed(<<x>>, p) = IF p \in rest THEN h[2] ELSE 0
    BY <1>2, <2>2, <2>3, <2>4, OwedConcat, OwedOne
  <2>6. Short(b)
    BY <1>2, <2>3, <2>4, OwedConcat
  <2>7. ASSUME NEW p
        PROVE  Owed(b, p) = Owed(a, p) - (IF p = q THEN h[2] ELSE 0)
    <3>1. p \in h[1] <=> p \in rest \/ p = q
      BY <1>1, <1>6
    <3>2. p \in rest => p # q
      BY <1>6
    <3>3. /\ Owed(a, p) = (IF p \in h[1] THEN h[2] ELSE 0)
                          + Part(z, 1, p) + Part(z, 2, p)
          /\ Owed(z, p) = Part(z, 1, p) + Part(z, 2, p)
      BY <1>4, <1>5 DEF Owed
    <3>4. /\ Owed(b, p) = (IF p \in rest THEN h[2] ELSE 0) + Owed(z, p)
          /\ Part(z, 1, p) \in Int /\ Part(z, 2, p) \in Int /\ h[2] \in Int
      BY <1>4, <1>5, <2>5
    <3>5. CASE p = q
      BY <3>1, <3>2, <3>3, <3>4, <3>5
    <3>6. CASE p # q
      BY <3>1, <3>3, <3>4, <3>6
    <3> QED
      BY <3>5, <3>6
  <2> QED
    BY <1>1, <2>6, <2>7
<1> QED
  BY <1>7, <1>8

(* One thread's additions are others. *)
LEMMA DebtChange ==
  ASSUME IsFiniteSet(Threads), NEW x, \A t \in Threads : Short(x[t]),
         NEW t \in Threads, NEW b, Short(b),
         NEW y, y[t] = b, \A r \in Threads \ {t} : y[r] = x[r], NEW p
  PROVE  Debt(x, p) \in Int
         /\ Debt(y, p) = Debt(x, p) - Owed(x[t], p) + Owed(b, p)
<1>1. PICK f, g : f = Debts(x, p) /\ g = Debts(y, p)
  OBVIOUS
<1>2. \A r \in Threads : f[r] = Owed(x[r], p) /\ f[r] \in Int
  BY <1>1, OwedTyped DEF Debts, Short
<1>3. \A r \in Threads : g[r] = Owed(y[r], p) /\ g[r] \in Int
  <2>1. \A r \in Threads : Short(y[r])
    OBVIOUS
  <2> QED
    BY <1>1, <2>1, OwedTyped DEF Debts, Short
<1>4. Sum(f, Threads) \in Int
  BY <1>2, SumTyped
<1>5. Sum(g, Threads) = Sum(f, Threads) - f[t] + g[t]
  <2>1. \A r \in Threads \ {t} : f[r] = g[r]
    BY <1>2, <1>3
  <2> QED
    BY <1>2, <1>3, <2>1, SumExcept
<1> QED
  BY <1>1, <1>2, <1>3, <1>4, <1>5 DEF Debt

LEMMA NoDebt ==
  ASSUME IsFiniteSet(Threads), NEW x, \A t \in Threads : x[t] = << >>, NEW p
  PROVE  Debt(x, p) = 0
<1>1. PICK f : f = Debts(x, p)
  OBVIOUS
<1>2. \A t \in Threads : f[t] = 0
  BY <1>1, OwedNone DEF Debts
<1>3. Sum(f, Threads) = 0
  BY <1>2, SumZero
<1> QED
  BY <1>1, <1>3 DEF Debt

(* A node is removed from t: the last one takes its place, if it is another. *)
LEMMA LoadRemoved ==
  ASSUME NEW t, NEW m, WellFormed(t, m), NEW s \in ToSet(t),
         NEW a \in Places(t), t[a + 1] = s, NEW r, r = Removed(t, s),
         NEW w, Weighing(w), NEW p,
         NEW e, e = Len(t) - 1, NEW x, x = LastOf(t)
  PROVE  /\ e \in Nat /\ Len(r) = e /\ Tree(r) /\ Tree(t)
         /\ x = s => /\ a = e /\ \A k \in 1 .. e : r[k] = t[k]
                     /\ Load(w, t, p) = Load(w, r, p) + In(e, p, w[s])
         /\ x # s => /\ a \in Places(r) /\ r[a + 1] = x
                     /\ \A k \in 1 .. e : k # a + 1 => r[k] = t[k]
                     /\ Load(w, t, p) + In(a, p, w[x])
                          = Load(w, r, p) + In(e, p, w[x]) + In(a, p, w[s])
<1>1. /\ Tree(t) /\ t \in Seq(Servers) /\ Len(t) \in Nat /\ DOMAIN t = 1 .. Len(t)
      /\ \A j, k \in 1 .. Len(t) : t[j] = t[k] => j = k
      /\ \A k \in 1 .. Len(t) : t[k] \in Servers
  <2>1. t \in Seq(Servers) /\ IsInjective(t)
    BY DEF WellFormed
  <2>2. DOMAIN t = 1 .. Len(t) /\ Len(t) \in Nat
    BY <2>1
  <2>3. \A k \in 1 .. Len(t) : t[k] \in Servers
    BY <2>1, ElementOfSeq
  <2> QED
    BY <2>1, <2>2, <2>3 DEF Tree, IsInjective
<1>2. Tree(r) /\ Len(r) = e /\ e \in Nat
  <2>1. /\ r \in Seq(Servers) /\ Len(r) = Len(t) - 1
        /\ Len(t) \in Nat /\ Len(t) > 0
    BY RemovedIs
  <2> QED
    BY <2>1 DEF Tree
<1>3. /\ a \in 0 .. e /\ a \in Nat /\ a + 1 \in 1 .. Len(t)
      /\ e + 1 = Len(t) /\ Len(t) \in 1 .. Len(t) /\ x = t[e + 1]
  BY <1>1, <1>2 DEF Places, LastOf
<1>4. \A k \in 1 .. e : /\ k \in 1 .. Len(t) /\ k # Len(t)
                        /\ r[k] = IF t[k] = s THEN x ELSE t[k]
  BY <1>1, <1>2, <1>3 DEF Removed, LastOf
<1>5. ASSUME x = s
      PROVE  /\ a = e /\ \A k \in 1 .. e : r[k] = t[k]
             /\ Load(w, t, p) = Load(w, r, p) + In(e, p, w[s])
  <2>1. a = e
    <3>1. a + 1 = e + 1
      BY <1>1, <1>3, <1>5
    <3> QED
      BY <1>2, <1>3, <3>1
  <2>2. \A k \in 1 .. e : r[k] = t[k]
    BY <1>4, <1>5
  <2>3. Load(w, t, p) = Load(w, r, p) + In(Len(r), p, w[t[Len(r) + 1]])
    BY <1>1, <1>2, <1>3, <2>2, LoadLonger
  <2> QED
    BY <1>2, <1>3, <1>5, <2>1, <2>2, <2>3
<1>6. ASSUME x # s
      PROVE  /\ a \in Places(r) /\ r[a + 1] = x
             /\ \A k \in 1 .. e : k # a + 1 => r[k] = t[k]
             /\ Load(w, t, p) + In(a, p, w[x])
                    = Load(w, r, p) + In(e, p, w[x]) + In(a, p, w[s])
  <2>1. a # e /\ a + 1 \in 1 .. e
    BY <1>3, <1>6
  <2>2. r[a + 1] = x /\ \A k \in 1 .. e : k # a + 1 => r[k] = t[k]
    BY <1>1, <1>3, <1>4, <2>1
  <2>3. PICK q : q = [k \in 1 .. e |-> t[k]]
    OBVIOUS
  <2>4. Tree(q) /\ Len(q) = e /\ \A k \in 1 .. e : q[k] = t[k]
    BY <1>1, <1>2, <1>4, <2>3 DEF Tree
  <2>5. Load(w, t, p) = Load(w, q, p) + In(e, p, w[x])
    BY <1>1, <1>3, <2>4, LoadLonger
  <2>6. a \in Places(q) /\ a \in Places(r)
    BY <1>2, <1>3, <2>1, <2>4 DEF Places
  <2>7. \A i \in Places(q) \ {a} : w[r[i + 1]] = w[q[i + 1]]
    <3> TAKE i \in Places(q) \ {a}
    <3>1. i + 1 \in 1 .. e /\ i + 1 # a + 1
      BY <1>2, <1>3, <2>4 DEF Places
    <3> QED
      BY <2>2, <2>4, <3>1
  <2>8. Load(w, r, p) = Load(w, q, p) + In(a, p, w[r[a + 1]] - w[q[a + 1]])
    BY <1>2, <2>4, <2>6, <2>7, LoadDiffer
  <2>9. w[r[a + 1]] = w[x] /\ w[q[a + 1]] = w[s]
    BY <2>1, <2>2, <2>4
  <2>10. /\ w[x] \in Int /\ w[s] \in Int
         /\ Load(w, q, p) \in Int
    BY <1>1, <1>3, <2>4, LoadsAre DEF Weighing
  <2>11. /\ In(a, p, w[x] - w[s]) = In(a, p, w[x]) - In(a, p, w[s])
         /\ In(a, p, w[x]) \in Int /\ In(a, p, w[s]) \in Int
         /\ In(e, p, w[x]) \in Int
    BY <2>10 DEF In
  <2> QED
    BY <2>2, <2>5, <2>6, <2>8, <2>9, <2>10, <2>11
<1> QED
  BY <1>1, <1>2, <1>5, <1>6

-----------------------------------------------------------------------------
(* The accounts of the weight tree *)

(* A sum with all that threads have still to add to it. *)
Slots == Positions \cup {Total}
Ledger(p) == (IF p = Total THEN total_weight ELSE left[p]) + Debt(adds, p)

(* The sums are those of t, with v more at e and k more at a. *)
Balance(t, e, v, a, k) ==
    \A p \in Slots :
        Ledger(p) = Load(weight, t, p) + In(e, p, v) + In(a, p, k)

(* No node is being moved. *)
Settled == \A y \in Servers : old[y].index = None
Exact(t) == Settled /\ Balance(t, 0, 0, 0, 0)

(* The node that has moved to a is counted at its old place too, with the
   weight it had and what was noted of its changes since; those are missing at
   its new place. *)
Moving(t, a) ==
    /\ a \in Places(t) /\ old[t[a + 1]].index = Len(t)
    /\ \A y \in Servers \ {t[a + 1]} : old[y].index = None
    /\ Balance(t, Len(t), old[t[a + 1]].weight + old[t[a + 1]].diff,
               a, -old[t[a + 1]].diff)

Below(a, n) == \A k \in 1 .. Len(a) : \A p \in a[k][1] : p < n

(* What a caller has still to add belongs to the copy that it holds. *)
CallerOwes(c) ==
    adds[c] # << >> =>
        /\ call[c].pc \in {"refused", "chosen", "fed"}
        /\ call[c].buf \in {0, 1}
        /\ Below(adds[c], Len(tree[call[c].buf]))

Account(u) ==
    LET fg == tree[index]
        bg == tree[1 - index]
        pc == update[u].pc
        first == update[u].phase = 0
        a == update[u].at
        s == update[u].server IN
    /\ pc # "applied" => adds[u] = << >>
    /\ Gone(u) => weight[s] = 0 /\ disabled[s] = TRUE
    /\ \/ /\ pc \in {"idle", "wait"} \/ (pc = "apply" /\ first)
          /\ Exact(fg)
       \/ /\ pc = "move" /\ first
          /\ Moves(fg, u) /\ bg[a + 1] = LastOf(fg)
          /\ a \in Places(fg) /\ fg[a + 1] = s
          /\ update[u].rm # 0 /\ Settled /\ Balance(fg, 0, 0, a, update[u].rm)
       \/ /\ pc = "applied" /\ first
          /\ IF Moves(fg, u) THEN bg[a + 1] = LastOf(fg) /\ Moving(bg, a)
             ELSE Exact(bg)
       \/ /\ (pc = "readers" /\ first) \/ (pc = "apply" /\ ~first)
          /\ IF Moves(bg, u) THEN fg[a + 1] = LastOf(bg) /\ Moving(fg, a)
             ELSE Exact(fg)
       \/ /\ pc = "move" /\ ~first
          /\ update[u].rm = 0 /\ Moving(fg, a)
       \/ /\ pc = "applied" /\ ~first
          /\ Exact(fg)

(* The inductive invariant of the sums. *)
DebtsInv == (\A t \in Threads : Short(adds[t])) /\ \A c \in Callers : CallerOwes(c)
AccountInv == DebtsInv /\ \A u \in Updaters : Account(u)

LEMMA ThreadsFinite ==
  ASSUME OneUpdater, IsFiniteSet(Callers)
  PROVE  IsFiniteSet(Threads)
<1>1. IsFiniteSet(Updaters)
  BY FS_Singleton DEF OneUpdater
<1> QED
  BY <1>1, FS_Union DEF Threads

LEMMA InIs ==
  ASSUME NEW i, NEW p, NEW x \in Int, NEW y \in Int
  PROVE  /\ In(i, p, x) \in Int /\ In(i, p, 0) = 0
         /\ In(i, p, x + y) = In(i, p, x) + In(i, p, y)
         /\ In(i, p, x - y) = In(i, p, x) - In(i, p, y)
         /\ In(i, p, -x) = -In(i, p, x)
  BY DEF In

LEMMA BelowNext ==
  ASSUME NEW a \in Seq(Additions), a # << >>, NEW n, Below(a, n),
         NEW q \in Head(a)[1]
  PROVE  Below(WithoutNext(a, q), n)
<1>1. PICK h, z, rest : h = Head(a) /\ z = Tail(a) /\ rest = h[1] \ {q}
  OBVIOUS
<1>2. /\ Len(a) \in Nat /\ Len(a) >= 1 /\ h \in Additions
      /\ z \in Seq(Additions) /\ Len(z) = Len(a) - 1
      /\ \A i \in 1 .. Len(z) : z[i] = a[i + 1]
  <2>1. Len(a) \in Nat /\ Len(a) >= 1
    OBVIOUS
  <2> QED
    BY <1>1, <2>1, HeadTailProperties
<1>3. Below(z, n)
  <2> SUFFICES ASSUME NEW k \in 1 .. Len(z), NEW p \in z[k][1] PROVE p < n
    BY DEF Below
  <2>1. k + 1 \in 1 .. Len(a) /\ z[k] = a[k + 1]
    BY <1>2
  <2> QED
    BY <2>1 DEF Below
<1>4. \A p \in rest : p < n
  <2>1. 1 \in 1 .. Len(a) /\ h = a[1]
    BY <1>1, <1>2
  <2> QED
    BY <1>1, <2>1 DEF Below
<1>5. CASE rest = {}
  BY <1>1, <1>3, <1>5 DEF WithoutNext
<1>6. CASE rest # {}
  <2>1. PICK x, y : x = <<rest, h[2]>> /\ y = <<x>>
    OBVIOUS
  <2>2. x \in Additions /\ x[1] = rest
    BY <1>1, <1>2, <2>1 DEF Additions
  <2>3. y \in Seq(Additions) /\ Len(y) = 1 /\ y[1] = x
    BY <2>1, <2>2
  <2>4. PICK b : b = y \o z
    OBVIOUS
  <2>5. /\ Len(b) = 1 + Len(z)
        /\ \A i \in 1 .. 1 + Len(z) : b[i] = IF i <= 1 THEN y[i] ELSE z[i - 1]
    <3>1. PICK S : S = Additions
      OBVIOUS
    <3>2. y \in Seq(S) /\ z \in Seq(S)
      BY <1>2, <2>3, <3>1
    <3>3. /\ Len(b) = Len(y) + Len(z)
          /\ \A i \in 1 .. Len(y) + Len(z) :
                b[i] = IF i <= Len(y) THEN y[i] ELSE z[i - Len(y)]
      BY <2>4, <3>2, ConcatProperties
    <3> QED
      BY <2>3, <3>3
  <2>6. WithoutNext(a, q) = b
    BY <1>1, <1>6, <2>1, <2>4 DEF WithoutNext
  <2>7. ASSUME NEW k \in 1 .. Len(b), NEW p \in b[k][1] PROVE p < n
    <3>1. CASE k = 1
      BY <1>4, <2>2, <2>3, <2>5, <2>7, <3>1
    <3>2. CASE k # 1
      <4>1. k - 1 \in 1 .. Len(z) /\ b[k] = z[k - 1]
        BY <1>2, <2>5, <2>7, <3>2
      <4> QED
        BY <1>3, <2>7, <4>1 DEF Below
    <3> QED
      BY <3>1, <3>2
  <2> QED
    BY <2>6, <2>7 DEF Below
<1> QED
  BY <1>5, <1>6

(* Making an addition leaves the ledger as it is. *)
LEMMA LedgerNext ==
  ASSUME IsFiniteSet(Threads), TypeInv, \A x \in Threads : Short(adds[x]),
         NEW t \in Threads, AddNext(t)
  PROVE  /\ \A p \in Slots : Ledger(p)' = Ledger(p)
         /\ \A x \in Threads : Short(adds[x])'
         /\ \A x \in Threads \ {t} : adds'[x] = adds[x]
         /\ \A n : Below(adds[t], n) => Below(adds'[t], n)
<1>1. PICK a, d : a = adds[t] /\ d = Head(a)[2]
  OBVIOUS
<1>2. PICK q \in Head(a)[1] :
        /\ \/ q = Total /\ total_weight' = total_weight + d /\ UNCHANGED left
           \/ /\ q # Total /\ left' = [left EXCEPT ![q] = @ + d]
              /\ UNCHANGED total_weight
        /\ adds' = [adds EXCEPT ![t] = WithoutNext(adds[t], q)]
  BY <1>1 DEF AddNext
<1>3. /\ a # << >> /\ a \in Seq(Additions) /\ Short(a)
      /\ left \in [Positions -> Int] /\ total_weight \in Int
      /\ DOMAIN adds = Threads
  BY <1>1 DEF AddNext, Short, TypeInv, NumberInv, Threads
<1>4. Head(a) \in Additions
  BY <1>3, HeadTailProperties
<1>5. d \in Int /\ q \in Slots
  BY <1>1, <1>2, <1>4 DEF Additions, Slots
<1>6. PICK b : b = WithoutNext(a, q)
  OBVIOUS
<1>7. /\ Short(b) /\ \A n : Below(a, n) => Below(b, n)
      /\ \A p : Owed(b, p) = Owed(a, p) - (IF p = q THEN d ELSE 0)
  BY <1>1, <1>2, <1>3, <1>6, OwedNext, BelowNext
<1>8. /\ adds'[t] = b /\ \A x \in Threads \ {t} : adds'[x] = adds[x]
  BY <1>1, <1>2, <1>3, <1>6
<1>9. \A p : /\ Debt(adds, p) \in Int
             /\ Debt(adds', p) = Debt(adds, p) - Owed(a, p) + Owed(b, p)
  BY <1>1, <1>7, <1>8, DebtChange
<1>10. \A p : Owed(a, p) \in Int
  BY <1>3, OwedTyped
<1>11. ASSUME NEW p \in Slots PROVE Ledger(p)' = Ledger(p)
  <2>1. Debt(adds', p) = Debt(adds, p) - (IF p = q THEN d ELSE 0)
    BY <1>5, <1>7, <1>9, <1>10
  <2>2. Debt(adds, p) \in Int
    BY <1>9
  <2>3. Total \notin Positions
    BY NotAPosition
  <2>4. CASE q = Total
    <3>1. total_weight' = total_weight + d /\ left' = left
      BY <1>2, <2>4
    <3> QED
      BY <1>3, <1>5, <2>1, <2>2, <2>4, <3>1 DEF Ledger, Slots
  <2>5. CASE q # Total
    <3>1. left' = [left EXCEPT ![q] = @ + d] /\ total_weight' = total_weight
      BY <1>2, <2>5
    <3>2. p # Total => p \in Positions
      BY DEF Slots
    <3>3. p # Total => /\ left[p] \in Int
                       /\ left'[p] = left[p] + (IF p = q THEN d ELSE 0)
      BY <1>3, <1>5, <3>1, <3>2
    <3> QED
      BY <1>3, <1>5, <2>1, <2>2, <2>5, <3>1, <3>3 DEF Ledger
  <2> QED
    BY <2>4, <2>5
<1> QED
  BY <1>1, <1>7, <1>8, <1>11

(* A thread has something to add. *)
LEMMA LedgerSet ==
  ASSUME IsFiniteSet(Threads), TypeInv, \A x \in Threads : Short(adds[x]),
         NEW t \in Threads, adds[t] = << >>, NEW b, Short(b),
         adds' = [adds EXCEPT ![t] = b],
         \A p \in Positions : left'[p] = left[p], total_weight' = total_weight
  PROVE  /\ \A p \in Slots : /\ Ledger(p) \in Int
                             /\ Ledger(p)' = Ledger(p) + Owed(b, p)
         /\ \A x \in Threads : Short(adds[x])'
         /\ \A x \in Threads \ {t} : adds'[x] = adds[x]
         /\ adds'[t] = b
<1>1. DOMAIN adds = Threads /\ left \in [Positions -> Int] /\ total_weight \in Int
  BY DEF TypeInv, NumberInv, Threads
<1>2. adds'[t] = b /\ \A x \in Threads \ {t} : adds'[x] = adds[x]
  BY <1>1
<1>3. \A p : /\ Debt(adds, p) \in Int
             /\ Debt(adds', p) = Debt(adds, p) - Owed(adds[t], p) + Owed(b, p)
  <2>1. PICK x, y : x = adds /\ y = adds'
    OBVIOUS
  <2>2. /\ \A z \in Threads : Short(x[z])
        /\ y[t] = b /\ \A z \in Threads \ {t} : y[z] = x[z]
    BY <1>2, <2>1
  <2>3. \A p : /\ Debt(x, p) \in Int
               /\ Debt(y, p) = Debt(x, p) - Owed(x[t], p) + Owed(b, p)
    BY <2>2, DebtChange
  <2> QED
    BY <2>1, <2>3
<1>4. \A p : Owed(adds[t], p) = 0 /\ Owed(b, p) \in Int
  <2>1. \A p : Owed(<< >>, p) = 0
    BY OwedNone
  <2>2. \A p : Owed(b, p) \in Int
    BY OwedTyped DEF Short
  <2> QED
    BY <2>1, <2>2
<1>5. ASSUME NEW p \in Slots
      PROVE  Ledger(p) \in Int /\ Ledger(p)' = Ledger(p) + Owed(b, p)
  <2>1. /\ Debt(adds, p) \in Int /\ Owed(b, p) \in Int
        /\ Debt(adds', p) = Debt(adds, p) + Owed(b, p)
    <3>1. PICK z : z = Owed(adds[t], p)
      OBVIOUS
    <3>2. z = 0 /\ Owed(b, p) \in Int
      BY <1>4, <3>1
    <3>3. /\ Debt(adds, p) \in Int
          /\ Debt(adds', p) = Debt(adds, p) - z + Owed(b, p)
      BY <1>3, <3>1
    <3> QED
      BY <3>2, <3>3
  <2>2. p # Total => left[p] \in Int /\ left'[p] = left[p]
    BY <1>1 DEF Slots
  <2> QED
    BY <1>1, <2>1, <2>2 DEF Ledger
<1> QED
  BY <1>2, <1>5

-----------------------------------------------------------------------------
(* A weight is changed by d, which is to be added for the place i *)

LEMMA BalanceReset ==
  ASSUME NEW t, Tree(t), IsInjective(t), NEW i \in Places(t),
         Weighing(weight), NEW w \in Int,
         weight' = [weight EXCEPT ![t[i + 1]] = w],
         \A p \in Slots : Ledger(p)' = Ledger(p) + In(i, p, w - weight[t[i + 1]]),
         NEW e, NEW v \in Int, NEW a, NEW k \in Int, Balance(t, e, v, a, k)
  PROVE  Balance(t, e, v, a, k)'
<1>1. ASSUME NEW p \in Slots
      PROVE  Ledger(p)' = Load(weight', t, p) + In(e, p, v) + In(a, p, k)
  <2>1. PICK d : d = In(i, p, w - weight[t[i + 1]])
    OBVIOUS
  <2>2. Load(weight', t, p) = Load(weight, t, p) + d
    BY <2>1, LoadReset
  <2>3. weight[t[i + 1]] \in Int
    BY LoadsAre DEF Places, Weighing
  <2>4. /\ Load(weight, t, p) \in Int /\ d \in Int
        /\ In(e, p, v) \in Int /\ In(a, p, k) \in Int
    BY <2>1, <2>3, LoadsAre DEF In
  <2>5. Ledger(p) = Load(weight, t, p) + In(e, p, v) + In(a, p, k)
    BY DEF Balance
  <2>6. Ledger(p)' = Ledger(p) + d
    BY <2>1
  <2> QED
    BY <2>2, <2>4, <2>5, <2>6
<1> QED
  BY <1>1 DEF Balance

(* The node at a is changed by one that has it at e. *)
LEMMA BalanceNoted ==
  ASSUME NEW t, Tree(t), IsInjective(t), NEW a \in Places(t),
         Weighing(weight), NEW w \in Int,
         weight' = [weight EXCEPT ![t[a + 1]] = w],
         NEW d, d = w - weight[t[a + 1]], NEW e,
         \A p \in Slots : Ledger(p)' = Ledger(p) + In(e, p, d),
         NEW v \in Int, NEW k \in Int, Balance(t, e, v, a, k)
  PROVE  Balance(t, e, v + d, a, k - d)'
<1>1. d \in Int
  BY LoadsAre DEF Places, Weighing
<1>2. ASSUME NEW p \in Slots
      PROVE  Ledger(p)' = Load(weight', t, p) + In(e, p, v + d)
                            + In(a, p, k - d)
  <2>1. Load(weight', t, p) = Load(weight, t, p) + In(a, p, d)
    BY LoadReset
  <2>2. Load(weight, t, p) \in Int
    BY LoadsAre
  <2>3. /\ In(e, p, v + d) = In(e, p, v) + In(e, p, d)
        /\ In(a, p, k - d) = In(a, p, k) - In(a, p, d)
        /\ In(e, p, v) \in Int /\ In(e, p, d) \in Int
        /\ In(a, p, k) \in Int /\ In(a, p, d) \in Int
    BY <1>1 DEF In
  <2>4. Ledger(p) = Load(weight, t, p) + In(e, p, v) + In(a, p, k)
    BY DEF Balance
  <2>5. Ledger(p)' = Ledger(p) + In(e, p, d)
    OBVIOUS
  <2> QED
    BY <2>1, <2>2, <2>3, <2>4, <2>5
<1> QED
  BY <1>2 DEF Balance

LEMMA SettledReset ==
  ASSUME Settled, WeightsInv, NEW y \in Servers, NEW i \in Positions, NEW w,
         ResetWeight(y, i, w)
  PROVE  Settled' /\ weight' = [weight EXCEPT ![y] = w]
<1>1. old[y].index # i
  BY NoneAssumption DEF Settled
<1> QED
  BY <1>1 DEF ResetWeight, Settled

LEMMA MovingReset ==
  ASSUME WeightsInv, NEW t, Tree(t), IsInjective(t), NEW a, Moving(t, a),
         NEW y \in Servers, NEW i \in Positions, NEW w \in Int,
         ResetWeight(y, i, w),
         \A p \in Slots : Ledger(p)' = Ledger(p) + In(i, p, w - weight[y]),
         \/ i \in Places(t) /\ t[i + 1] = y
         \/ i = Len(t) /\ y = t[a + 1]
  PROVE  Moving(t, a)'
<1>1. PICK x : x = t[a + 1]
  OBVIOUS
<1>2. PICK e, v, k : e = Len(t) /\ v = old[x].weight + old[x].diff
                     /\ k = -old[x].diff
  OBVIOUS
<1>3. /\ a \in Places(t) /\ old[x].index = e /\ Balance(t, e, v, a, k)
      /\ \A z \in Servers \ {x} : old[z].index = None
  BY <1>1, <1>2 DEF Moving
<1>4. /\ e \in Nat /\ x \in Servers /\ a \in Nat /\ a < e
      /\ \A j \in Places(t) : j # e /\ (t[j + 1] = x => j = a)
      /\ DOMAIN t = 1 .. e
  <2>1. /\ e \in Nat /\ DOMAIN t = 1 .. e
        /\ \A j \in 0 .. e - 1 : t[j + 1] \in Servers
    BY <1>2 DEF Tree
  <2>2. a \in 0 .. e - 1 /\ Places(t) = 0 .. e - 1
    BY <1>2, <1>3 DEF Places
  <2>3. \A j \in 0 .. e - 1 : j # e /\ j + 1 \in 1 .. e
    BY <2>1
  <2>4. \A j \in 0 .. e - 1 : t[j + 1] = x => j + 1 = a + 1
    BY <1>1, <2>1, <2>2, <2>3 DEF IsInjective
  <2> QED
    BY <1>1, <2>1, <2>2, <2>3, <2>4
<1>5. /\ old[x].weight \in Int /\ old[x].diff \in Int /\ v \in Int /\ k \in Int
      /\ Weighing(weight) /\ DOMAIN old = Servers
      /\ DOMAIN old[x] = {"index", "diff", "weight"}
  BY <1>2, <1>4 DEF WeightsInv, Weighing
<1>6. /\ weight' = [weight EXCEPT ![y] = w] /\ weight[y] \in Int
      /\ old' = IF old[y].index = i
                THEN [old EXCEPT ![y].diff = @ + (w - weight[y])] ELSE old
  BY <1>5 DEF ResetWeight, Weighing
<1>7. CASE i \in Places(t) /\ t[i + 1] = y
  <2>1. old[y].index # i
    <3>1. CASE y = x
      BY <1>3, <1>4, <1>7, <3>1
    <3>2. CASE y # x
      BY <1>3, <3>2, NoneAssumption
    <3> QED
      BY <3>1, <3>2
  <2>2. old' = old
    BY <1>6, <2>1
  <2>3. Balance(t, e, v, a, k)'
    BY <1>3, <1>5, <1>6, <1>7, BalanceReset
  <2> QED
    BY <1>1, <1>2, <1>3, <2>2, <2>3 DEF Moving
<1>8. CASE i = Len(t) /\ y = t[a + 1]
  <2>1. PICK d : d = w - weight[x]
    OBVIOUS
  <2>2. old' = [old EXCEPT ![x].diff = @ + d]
    BY <1>1, <1>2, <1>3, <1>6, <1>8, <2>1
  <2>3. /\ old'[x].index = old[x].index /\ old'[x].weight = old[x].weight
        /\ old'[x].diff = old[x].diff + d
        /\ \A z \in Servers \ {x} : old'[z] = old[z]
    BY <1>4, <1>5, <2>2
  <2>4. Balance(t, e, v + d, a, k - d)'
    BY <1>1, <1>2, <1>3, <1>5, <1>6, <1>8, <2>1, BalanceNoted
  <2>5. d \in Int
    BY <1>1, <1>6, <1>8, <2>1
  <2>6. /\ v + d = old'[x].weight + old'[x].diff
        /\ k - d = -old'[x].diff
    BY <1>2, <1>5, <2>3, <2>5
  <2> QED
    BY <1>1, <1>2, <1>3, <2>3, <2>4, <2>6 DEF Moving
<1> QED
  BY <1>7, <1>8

(* The node of o with y is where it was, or the one that moved. *)
LEMMA PlaceKept ==
  ASSUME NEW o, NEW m, WellFormed(o, m), NEW u, NEW t, Changed(o, t, u),
         NEW i \in Places(o), NEW y, y = o[i + 1],
         update[u].op = "add" \/ y # update[u].server
  PROVE  \/ i \in Places(t) /\ t[i + 1] = y
         \/ Moves(o, u) /\ y = LastOf(o) /\ i = Len(t)
<1>1. PICK s : s = update[u].server
  OBVIOUS
<1>2. o \in Seq(Servers) /\ Len(o) \in Nat /\ i \in Nat /\ i + 1 \in 1 .. Len(o)
  <2>1. o \in Seq(Servers) /\ i \in 0 .. Len(o) - 1
    BY DEF WellFormed, Places
  <2> QED
    BY <2>1
<1>3. CASE update[u].op = "add" /\ s \in Servers /\ t = Append(o, s)
  BY <1>2, <1>3, AppendIs DEF Places
<1>4. CASE update[u].op = "add" /\ s \notin Servers /\ t = Append(o, s)
  <2>1. Len(t) = Len(o) + 1 /\ t[i + 1] = o[i + 1]
    BY <1>2, <1>4, AppendProperties
  <2> QED
    BY <1>2, <2>1 DEF Places
<1>5. CASE update[u].op = "remove" /\ s \in ToSet(o) /\ t = Removed(o, s)
  <2>1. Len(t) = Len(o) - 1 /\ y # s
    BY <1>1, <1>5, RemovedIs
  <2>2. CASE i + 1 = Len(o)
    <3>1. i = Len(t) /\ y = LastOf(o)
      BY <1>2, <2>1, <2>2 DEF LastOf
    <3> QED
      BY <1>1, <1>5, <2>1, <3>1 DEF Moves
  <2>3. CASE i + 1 # Len(o)
    <3>1. i + 1 \in 1 .. Len(o) - 1
      BY <1>2, <2>3
    <3>2. t[i + 1] = y
      BY <1>5, <2>1, <3>1 DEF Removed
    <3> QED
      BY <1>2, <2>1, <3>1, <3>2 DEF Places
  <2> QED
    BY <2>2, <2>3
<1> QED
  BY <1>1, <1>3, <1>4, <1>5 DEF Changed

(* What a caller's change of a weight leaves as it is. *)
LEMMA ExactReset ==
  ASSUME WeightsInv, NEW t, NEW m, WellFormed(t, m), Exact(t),
         NEW y \in Servers, NEW i \in Positions, NEW w \in Int,
         ResetWeight(y, i, w), i \in Places(t), t[i + 1] = y,
         \A p \in Slots : Ledger(p)' = Ledger(p) + In(i, p, w - weight[y])
  PROVE  Exact(t)'
<1>1. Settled' /\ weight' = [weight EXCEPT ![t[i + 1]] = w]
  BY SettledReset DEF Exact
<1>2. Tree(t) /\ IsInjective(t) /\ Weighing(weight)
  BY DEF Tree, WellFormed, Weighing, WeightsInv
<1>3. Balance(t, 0, 0, 0, 0)'
  <2>1. \A p \in Slots : Ledger(p)' = Ledger(p) + In(i, p, w - weight[t[i + 1]])
    OBVIOUS
  <2>2. PICK z \in Int : z = 0
    OBVIOUS
  <2>3. Balance(t, z, z, z, z)
    BY <2>2 DEF Exact
  <2>4. Balance(t, z, z, z, z)'
    BY <1>1, <1>2, <2>1, <2>3, BalanceReset
  <2> QED
    BY <2>2, <2>4
<1> QED
  BY <1>1, <1>3 DEF Exact

LEMMA CallerReset ==
  ASSUME OneUpdater, HeldInv, TreeInv, TypeInv, NEW u \in Updaters, Account(u),
         NEW c \in Callers, call[c].buf \in {0, 1},
         NEW i, i = call[c].at, i \in Places(Buffer(c)),
         NEW y, y = Buffer(c)[i + 1], disabled[y] # TRUE,
         NEW w \in Int, ResetWeight(y, i, w),
         UNCHANGED <<tree, index, update, disabled>>, adds'[u] = adds[u],
         \A p \in Slots : Ledger(p)' = Ledger(p) + In(i, p, w - weight[y])
  PROVE  Account(u)'
<1>1. PICK fg, bg, s, a, o, m, n :
        /\ fg = tree[index] /\ bg = tree[1 - index] /\ s = update[u].server
        /\ a = update[u].at /\ o = Buffer(c)
        /\ m = server_map[index] /\ n = server_map[1 - index]
  OBVIOUS
<1>2. /\ index \in {0, 1} /\ 1 - index \in {0, 1} /\ o \in {fg, bg}
      /\ WellFormed(fg, m) /\ WellFormed(bg, n) /\ Stage(u)
      /\ update[u].pc # "readers" => o = fg
      /\ WeightsInv
  <2>1. index \in {0, 1} /\ 1 - index \in {0, 1}
    BY DEF HeldInv
  <2>2. o \in {fg, bg}
    BY <1>1, <2>1 DEF Buffer
  <2>3. call[c].buf = 1 - index => update[u].pc = "readers"
    <3>1. call[c].buf = 1 - index => \E v \in Updaters : update[v].pc = "readers"
      <4>1. call[c].buf # None
        BY NoneAssumption
      <4> QED
        BY <4>1 DEF HeldInv
    <3> QED
      BY <3>1 DEF OneUpdater
  <2>4. update[u].pc # "readers" => o = fg
    BY <1>1, <2>1, <2>3 DEF Buffer
  <2> QED
    BY <1>1, <2>1, <2>2, <2>4 DEF TreeInv, TypeInv
<1>3. /\ i \in Places(o) /\ y = o[i + 1] /\ y \in Servers /\ i \in Positions
  BY <1>1, <1>2, PlaceIs
<1>4. weight' = [weight EXCEPT ![y] = w]
  BY DEF ResetWeight
<1>5. Gone(u) => /\ y # s /\ weight'[s] = 0 /\ disabled'[s] = TRUE
  <2> SUFFICES ASSUME Gone(u) PROVE y # s /\ weight'[s] = 0 /\ disabled'[s] = TRUE
    OBVIOUS
  <2>1. weight[s] = 0 /\ disabled[s] = TRUE
    BY <1>1 DEF Account
  <2>2. y # s
    BY <2>1
  <2>3. s \in Servers
    BY <1>1, <1>2 DEF Stage, Gone
  <2>4. weight'[s] = 0
    BY <1>2, <1>4, <2>1, <2>2, <2>3 DEF WeightsInv
  <2>5. disabled'[s] = TRUE
    BY <2>1
  <2> QED
    BY <2>2, <2>4, <2>5
<1>6. /\ Gone(u)' <=> Gone(u)
      /\ fg = tree'[index'] /\ bg = tree'[1 - index'] /\ update' = update
      /\ \A x : Moves(x, u)' <=> Moves(x, u)
      /\ adds'[u] = adds[u] /\ index' = index
  BY <1>1 DEF Gone, Moves
<1>7. ASSUME NEW t \in {fg, bg}, i \in Places(t), t[i + 1] = y
      PROVE  /\ Exact(t) => Exact(t)'
             /\ Moving(t, a) => Moving(t, a)'
  <2>1. PICK k : WellFormed(t, k)
    BY <1>2
  <2>2. Exact(t) => Exact(t)'
    BY <1>2, <1>3, <1>7, <2>1, ExactReset
  <2>3. Moving(t, a) => Moving(t, a)'
    BY <1>2, <1>3, <1>7, <2>1, MovingReset DEF WellFormed, Tree
  <2> QED
    BY <2>2, <2>3
<1>8. ASSUME NEW t \in {fg, bg}, i = Len(t), t[a + 1] = y
      PROVE  Moving(t, a) => Moving(t, a)'
  <2>1. PICK k : WellFormed(t, k)
    BY <1>2
  <2> QED
    BY <1>2, <1>3, <1>8, <2>1, MovingReset DEF WellFormed, Tree
<1>9. ASSUME NEW t \in {fg, bg}, Changed(o, t, u), Gone(u) \/ update[u].op = "add",
             IF Moves(o, u) THEN t[a + 1] = LastOf(o) /\ Moving(t, a)
             ELSE Exact(t)
      PROVE  IF Moves(o, u) THEN Moving(t, a)' ELSE Exact(t)'
  <2>1. PICK k : WellFormed(o, k)
    BY <1>2
  <2>2. \/ i \in Places(t) /\ t[i + 1] = y
        \/ Moves(o, u) /\ y = LastOf(o) /\ i = Len(t)
    BY <1>1, <1>3, <1>5, <1>9, <2>1, PlaceKept
  <2> QED
    BY <1>7, <1>8, <1>9, <2>2
<1>10. CASE update[u].pc \in {"idle", "wait"}
            \/ (update[u].pc = "apply" /\ update[u].phase = 0)
  <2>1. Exact(fg) /\ o = fg /\ (update[u].pc # "applied" => adds[u] = << >>)
    BY <1>1, <1>2, <1>10 DEF Account
  <2>2. Exact(fg)'
    BY <1>3, <1>7, <2>1
  <2> QED
    BY <1>1, <1>5, <1>6, <1>10, <2>1, <2>2 DEF Account
<1>11. CASE update[u].pc = "move" /\ update[u].phase = 0
  <2>1. /\ Moves(fg, u) /\ bg[a + 1] = LastOf(fg) /\ adds[u] = << >>
        /\ a \in Places(fg) /\ fg[a + 1] = s
        /\ update[u].rm # 0 /\ Settled /\ Balance(fg, 0, 0, a, update[u].rm)
    BY <1>1, <1>11 DEF Account
  <2>2. Settled' /\ weight' = [weight EXCEPT ![fg[i + 1]] = w]
    BY <1>2, <1>3, <1>11, <2>1, SettledReset
  <2>3. PICK r : r = update[u].rm
    OBVIOUS
  <2>4. r \in Int /\ Balance(fg, 0, 0, a, r)
    BY <2>1, <2>3 DEF TypeInv, NumberInv
  <2>5. Balance(fg, 0, 0, a, r)'
    <3>1. \A p \in Slots : Ledger(p)' = Ledger(p) + In(i, p, w - weight[fg[i + 1]])
      BY <1>2, <1>3, <1>11
    <3>2. Tree(fg) /\ IsInjective(fg) /\ Weighing(weight) /\ i \in Places(fg)
      BY <1>2, <1>3, <1>11 DEF Tree, WellFormed, Weighing, WeightsInv
    <3>3. PICK z \in Int : z = 0
      OBVIOUS
    <3>4. Balance(fg, z, z, a, r)
      BY <2>4, <3>3
    <3>5. Balance(fg, z, z, a, r)'
      BY <2>2, <2>4, <3>1, <3>2, <3>4, BalanceReset
    <3> QED
      BY <3>3, <3>5
  <2>6. update'[u].rm = r
    BY <1>6, <2>3
  <2> QED
    BY <1>1, <1>5, <1>6, <1>11, <2>1, <2>2, <2>5, <2>6 DEF Account
<1>12. CASE update[u].pc = "applied" /\ update[u].phase = 0
  <2>1. /\ IF Moves(fg, u) THEN bg[a + 1] = LastOf(fg) /\ Moving(bg, a)
           ELSE Exact(bg)
        /\ o = fg /\ Changed(fg, bg, u)
    BY <1>1, <1>2, <1>12 DEF Account, Stage
  <2>2. Gone(u) \/ update[u].op = "add"
    BY <1>2, <1>12 DEF Gone, Stage
  <2>3. IF Moves(fg, u) THEN Moving(bg, a)' ELSE Exact(bg)'
    BY <1>9, <2>1, <2>2
  <2> QED
    BY <1>1, <1>5, <1>6, <1>12, <2>1, <2>3 DEF Account
<1>13. CASE \/ update[u].pc = "readers" /\ update[u].phase = 0
            \/ update[u].pc = "apply" /\ update[u].phase # 0
  <2>1. /\ IF Moves(bg, u) THEN fg[a + 1] = LastOf(bg) /\ Moving(fg, a)
           ELSE Exact(fg)
        /\ Changed(bg, fg, u) /\ adds[u] = << >>
    BY <1>1, <1>2, <1>13 DEF Account, Stage
  <2>2. Gone(u) \/ update[u].op = "add"
    BY <1>2, <1>13 DEF Gone, Stage
  <2>3. IF Moves(bg, u) THEN Moving(fg, a)' ELSE Exact(fg)'
    BY <1>2, <1>3, <1>7, <1>9, <2>1, <2>2
  <2> QED
    BY <1>1, <1>5, <1>6, <1>13, <2>1, <2>3 DEF Account
<1>14. CASE update[u].pc = "move" /\ update[u].phase # 0
  <2>1. update[u].rm = 0 /\ Moving(fg, a) /\ o = fg /\ adds[u] = << >>
    BY <1>1, <1>2, <1>14 DEF Account
  <2>2. Moving(fg, a)'
    BY <1>3, <1>7, <2>1
  <2> QED
    BY <1>1, <1>5, <1>6, <1>14, <2>1, <2>2 DEF Account
<1>15. CASE update[u].pc = "applied" /\ update[u].phase # 0
  <2>1. Exact(fg) /\ o = fg
    BY <1>1, <1>2, <1>15 DEF Account
  <2>2. Exact(fg)'
    BY <1>3, <1>7, <2>1
  <2> QED
    BY <1>1, <1>5, <1>6, <1>15, <2>2 DEF Account
<1>16. \/ update[u].pc \in {"idle", "wait", "apply", "readers"}
       \/ update[u].pc \in {"move", "applied"}
  BY DEF Account
<1>17. update[u].pc = "readers" => update[u].phase = 0
  BY DEF Account
<1> QED
  BY <1>10, <1>11, <1>12, <1>13, <1>14, <1>15, <1>16, <1>17

(* Neither weights nor moves have changed, nor what the sums and the threads
   have together. *)
LEMMA BookSame ==
  ASSUME UNCHANGED <<weight, old>>, \A p \in Slots : Ledger(p)' = Ledger(p)
  PROVE  /\ Settled => Settled'
         /\ \A t : Exact(t) => Exact(t)'
         /\ \A t, a : Moving(t, a) => Moving(t, a)'
         /\ \A t, e, v, a, k : Balance(t, e, v, a, k) => Balance(t, e, v, a, k)'
<1>1. ASSUME NEW t, NEW e, NEW v, NEW a, NEW k, Balance(t, e, v, a, k)
      PROVE  Balance(t, e, v, a, k)'
  BY <1>1 DEF Balance
<1>2. Settled => Settled'
  BY DEF Settled
<1>3. \A t : Exact(t) => Exact(t)'
  BY <1>1, <1>2 DEF Exact
<1>4. ASSUME NEW t, NEW a, Moving(t, a) PROVE Moving(t, a)'
  <2>1. PICK v, k : v = old[t[a + 1]].weight + old[t[a + 1]].diff
                    /\ k = -old[t[a + 1]].diff
    OBVIOUS
  <2>2. Balance(t, Len(t), v, a, k)'
    BY <1>1, <1>4, <2>1 DEF Moving
  <2> QED
    BY <1>4, <2>1, <2>2 DEF Moving
<1> QED
  BY <1>1, <1>2, <1>3, <1>4

-----------------------------------------------------------------------------
(* Steps of the callers *)

(* A step that changes neither trees nor weights, nor what the sums and the
   threads have together. *)
LEMMA AccountSame ==
  ASSUME NEW u \in Updaters, Account(u),
         UNCHANGED <<tree, index, update, weight, disabled, old>>,
         update[u].pc # "applied" => adds'[u] = << >>,
         \A p \in Slots : Ledger(p)' = Ledger(p)
  PROVE  Account(u)'
<1>1. /\ Settled => Settled'
      /\ \A t : Exact(t) => Exact(t)'
      /\ \A t, a : Moving(t, a) => Moving(t, a)'
      /\ \A t, e, v, a, k : Balance(t, e, v, a, k) => Balance(t, e, v, a, k)'
  BY BookSame
<1>2. /\ tree' = tree /\ index' = index /\ update' = update
      /\ weight' = weight /\ disabled' = disabled /\ old' = old
  OBVIOUS
<1>3. Settled => Settled'
  BY <1>1
<1>4. PICK fg, bg, a, rm : /\ fg = tree[index] /\ bg = tree[1 - index]
                           /\ a = update[u].at /\ rm = update[u].rm
  OBVIOUS
<1>5. /\ fg = tree'[index'] /\ bg = tree'[1 - index']
      /\ a = update'[u].at /\ rm = update'[u].rm
  BY <1>2, <1>4
<1>6. Gone(u)' <=> Gone(u)
  BY <1>2 DEF Gone
<1>7. \A t : Moves(t, u)' <=> Moves(t, u)
  BY <1>2 DEF Moves
<1>8. Balance(fg, 0, 0, a, rm) => Balance(fg, 0, 0, a, rm)'
  BY <1>1
<1>9. Exact(fg) => Exact(fg)'
  BY <1>1
<1>10. Exact(bg) => Exact(bg)'
  BY <1>1
<1>11. /\ Moving(fg, a) => Moving(fg, a)'
       /\ Moving(bg, a) => Moving(bg, a)'
  BY <1>1
<1> QED
  BY <1>2, <1>3, <1>4, <1>5, <1>6, <1>7, <1>8, <1>9, <1>10, <1>11 DEF Account

(* A change of a node is added at places of its tree. *)
LEMMA BelowSums ==
  ASSUME NEW i \in Nat, NEW n \in Nat, i < n, NEW d
  PROVE  Below(UpdateSums(d, i), n)
<1>1. PICK x, y, a, b : /\ x = <<LeftParents(i), d>> /\ y = <<{Total}, d>>
                        /\ a = UpdateParentWeight(d, i) /\ b = UpdateTotal(d)
  OBVIOUS
<1>2. a \in {<< >>, <<x>>} /\ b \in {<< >>, <<y>>}
  BY <1>1 DEF UpdateParentWeight, UpdateTotal
<1>3. (\A p \in x[1] : p < n) /\ (\A p \in y[1] : p < n)
  <2>1. \A p \in LeftParents(i) : p \in Nat /\ p <= i
    BY DEF LeftParents
  <2> QED
    BY <1>1, <2>1 DEF Total
<1>4. Below(<< >>, n) /\ Below(<<x>>, n) /\ Below(<<y>>, n)
  BY <1>3 DEF Below
<1>5. Below(a, n) /\ Below(b, n)
  BY <1>2, <1>4
<1>6. PICK S : S = {x, y}
  OBVIOUS
<1>7. << >> \in Seq(S) /\ <<x>> \in Seq(S) /\ <<y>> \in Seq(S)
  BY <1>6
<1>8. a \in Seq(S) /\ b \in Seq(S)
  BY <1>2, <1>7
<1>9. PICK c : c = a \o b
  OBVIOUS
<1>10. /\ Len(c) = Len(a) + Len(b)
       /\ \A k \in 1 .. Len(a) + Len(b) :
            c[k] = IF k <= Len(a) THEN a[k] ELSE b[k - Len(a)]
  BY <1>8, <1>9, ConcatProperties
<1>11. Len(a) \in Nat /\ Len(b) \in Nat
  BY <1>8
<1>12. ASSUME NEW k \in 1 .. Len(c), NEW p \in c[k][1] PROVE p < n
  <2>1. CASE k <= Len(a)
    BY <1>5, <1>10, <1>11, <1>12, <2>1 DEF Below
  <2>2. CASE k > Len(a)
    <3>1. k - Len(a) \in 1 .. Len(b) /\ c[k] = b[k - Len(a)]
      BY <1>10, <1>11, <2>2
    <3> QED
      BY <1>5, <1>12, <3>1 DEF Below
  <2> QED
    BY <1>10, <1>11, <2>1, <2>2
<1> QED
  BY <1>1, <1>9, <1>12 DEF UpdateSums, Below

LEMMA CallerAccount ==
  ASSUME OneUpdater, IsFiniteSet(Callers), HeldInv, TreeInv, TypeInv, AccountInv,
         NEW c \in Callers, Caller(c)
  PROVE  AccountInv'
<1>1. /\ UNCHANGED <<tree, index, update>>
      /\ \A d \in Callers \ {c} : call'[d] = call[d]
      /\ IsFiniteSet(Threads) /\ Inside(c)
      /\ \A x \in Threads : Short(adds[x])
      /\ \A u \in Updaters : /\ Account(u) /\ u \in Threads \ {c}
                             /\ update[u].pc # "applied" => adds[u] = << >>
      /\ c \in Threads /\ DOMAIN call = Callers /\ DOMAIN call[c] = CallFields
  <2>1. UNCHANGED <<tree, index, update>>
        /\ \A d \in Callers \ {c} : call'[d] = call[d]
    BY CallerSteps DEF CallerStep
  <2>2. IsFiniteSet(Threads) /\ Inside(c)
    BY ThreadsFinite DEF TypeInv, CallerInv
  <2>3. \A u \in Updaters : u \in Threads \ {c}
    BY NoneAssumption DEF Threads
  <2>4. \A u \in Updaters : Account(u)
                            /\ (update[u].pc # "applied" => adds[u] = << >>)
    BY DEF AccountInv, Account
  <2> QED
    BY <2>1, <2>2, <2>3, <2>4 DEF AccountInv, DebtsInv, HeldInv, Threads
<1>2. ASSUME \A x \in Threads \ {c} : adds'[x] = adds[x], Short(adds'[c]),
             adds'[c] # << >> =>
                /\ call'[c].pc \in {"refused", "chosen", "fed"}
                /\ call'[c].buf \in {0, 1}
                /\ Below(adds'[c], Len(tree[call'[c].buf]))
      PROVE  DebtsInv'
  <2>1. \A d \in Callers \ {c} : CallerOwes(d)'
    BY <1>1, <1>2 DEF CallerOwes, AccountInv, DebtsInv, Threads
  <2>2. CallerOwes(c)'
    BY <1>1, <1>2 DEF CallerOwes
  <2> QED
    BY <1>1, <1>2, <2>1, <2>2 DEF DebtsInv
<1>3. ASSUME UNCHANGED <<sumVars, weightVars, adds>>, adds[c] = << >>
      PROVE  AccountInv'
  <2>1. \A p \in Slots : Ledger(p)' = Ledger(p)
    BY <1>3 DEF Ledger, sumVars
  <2>2. \A u \in Updaters : Account(u)'
    BY <1>1, <1>3, <2>1, AccountSame DEF weightVars
  <2>3. DebtsInv'
    BY <1>1, <1>2, <1>3
  <2> QED
    BY <2>2, <2>3 DEF AccountInv
<1>4. CASE AddNext(c)
  <2>1. /\ \A p \in Slots : Ledger(p)' = Ledger(p)
        /\ \A x \in Threads : Short(adds[x])'
        /\ \A x \in Threads \ {c} : adds'[x] = adds[x]
        /\ \A n : Below(adds[c], n) => Below(adds'[c], n)
    BY <1>1, <1>4, LedgerNext
  <2>2. UNCHANGED <<weight, disabled, old, call>> /\ adds[c] # << >>
    BY <1>4 DEF AddNext, weightVars
  <2>3. \A u \in Updaters : Account(u)'
    BY <1>1, <2>1, <2>2, AccountSame
  <2>4. CallerOwes(c)
    BY DEF AccountInv, DebtsInv
  <2>5. DebtsInv'
    BY <1>1, <1>2, <2>1, <2>2, <2>4 DEF CallerOwes
  <2> QED
    BY <2>3, <2>5 DEF AccountInv
<1>5. CASE AddInflight(c) \/ Update(c)
  <2>1. PICK i, y, b : i = call[c].at /\ y = Buffer(c)[i + 1] /\ b = call[c].buf
    OBVIOUS
  <2>2. /\ b \in {0, 1} /\ i \in Places(Buffer(c)) /\ i \in Positions
        /\ y \in Servers /\ adds[c] = << >> /\ i \in Nat
        /\ Len(Buffer(c)) \in Nat /\ i < Len(Buffer(c)) /\ Buffer(c) = tree[b]
        /\ UNCHANGED sumVars
    <3>1. b \in {0, 1} /\ i \in Places(tree[b]) /\ Buffer(c) = tree[b]
      BY <1>1, <1>5, <2>1 DEF AddInflight, Update, At, Inside, Buffer
    <3>2. WellFormed(tree[b], server_map[b])
      BY <3>1 DEF TreeInv
    <3>3. /\ i \in Positions /\ y \in Servers /\ Len(tree[b]) \in Nat
      BY <2>1, <3>1, <3>2, PlaceIs, SizeIs
    <3>4. i \in Nat /\ i < Len(tree[b])
      BY <3>1, <3>3 DEF Places
    <3> QED
      BY <1>5, <3>1, <3>3, <3>4 DEF AddInflight, Update, At
  <2>3. /\ call'[c].buf = b
        /\ adds'[c] # << >> => call'[c].pc \in {"refused", "chosen", "fed"}
    <3>1. CASE AddInflight(c)
      BY <1>1, <2>1, <3>1 DEF AddInflight, Goto, CallFields
    <3>2. CASE Update(c) /\ Goto(c, "fed")
      BY <1>1, <2>1, <3>2 DEF Goto, CallFields
    <3>3. CASE Update(c) /\ ~Goto(c, "fed")
      <4>1. PICK w : /\ w = weight[y] /\ Goto(c, "lost")
                     /\ adds' = [adds EXCEPT ![c] = UpdateSums(w - weight[y], i)]
        BY <2>1, <3>3 DEF Update
      <4>2. weight \in [Servers -> Int] /\ DOMAIN adds = Threads
        BY DEF TypeInv, WeightsInv, NumberInv, Threads
      <4>3. weight[y] - weight[y] = 0
        BY <2>2, <4>2
      <4>4. adds'[c] = UpdateSums(0, i)
        BY <1>1, <4>1, <4>2, <4>3
      <4>5. UpdateSums(0, i) = << >>
        BY DEF UpdateSums, UpdateParentWeight, UpdateTotal
      <4> QED
        BY <1>1, <2>1, <4>1, <4>4, <4>5 DEF Goto, CallFields
    <3> QED
      BY <1>5, <3>1, <3>2, <3>3
  <2>4. CASE UNCHANGED <<weightVars, adds>>
    BY <1>3, <2>2, <2>4
  <2>5. ASSUME NEW w \in Int, ResetWeight(y, i, w), ~disabled[y],
               UNCHANGED disabled,
               adds' = [adds EXCEPT ![c] = UpdateSums(w - weight[y], i)]
        PROVE  AccountInv'
    <3>1. PICK d, x : d = w - weight[y] /\ x = UpdateSums(d, i)
      OBVIOUS
    <3>2. d \in Int
      BY <2>2, <2>5, <3>1, ResetTyped DEF TypeInv
    <3>3. /\ Short(x) /\ \A p \in Slots : Owed(x, p) = In(i, p, d)
          /\ Below(x, Len(tree[b]))
      <4>1. Total \in Slots
        BY DEF Slots
      <4> QED
        BY <2>2, <3>1, <3>2, <4>1, OwedSums, BelowSums DEF Slots
    <3>4. adds' = [adds EXCEPT ![c] = x]
      BY <2>5, <3>1
    <3>5. /\ \A p \in Slots : Ledger(p)' = Ledger(p) + Owed(x, p)
          /\ \A z \in Threads \ {c} : adds'[z] = adds[z]
          /\ adds'[c] = x
      <4>1. (\A p \in Positions : left'[p] = left[p]) /\ total_weight' = total_weight
        BY <2>2 DEF sumVars
      <4> QED
        BY <1>1, <2>2, <3>3, <3>4, <4>1, LedgerSet
    <3>6. \A p \in Slots : Ledger(p)' = Ledger(p) + In(i, p, w - weight[y])
      BY <3>1, <3>3, <3>5
    <3>7. disabled[y] # TRUE
      BY <2>5
    <3>8. ASSUME NEW u \in Updaters PROVE Account(u)'
      <4>1. adds'[u] = adds[u] /\ Account(u) /\ call[c].buf \in {0, 1}
        BY <1>1, <2>1, <2>2, <3>5
      <4>2. UNCHANGED <<tree, index, update, disabled>>
        BY <1>1, <2>5
      <4> QED
        BY <2>1, <2>2, <2>5, <3>6, <3>7, <4>1, <4>2, CallerReset
    <3>9. DebtsInv'
      BY <1>2, <2>2, <2>3, <3>3, <3>5
    <3> QED
      BY <3>8, <3>9 DEF AccountInv
  <2>6. \A w \in Weights \cup {weight[y]} : w \in Int
    <3>1. \A w \in Weights : w \in Int
      BY WeightsAssumption
    <3>2. weight \in [Servers -> Int] /\ y \in Servers
      BY <2>2 DEF TypeInv, WeightsInv
    <3>3. weight[y] \in Int
      BY <3>2
    <3> QED
      BY <3>1, <3>3
  <2>7. CASE AddInflight(c) /\ ~disabled[y]
    <3>1. PICK w \in Weights :
            /\ ResetWeight(y, i, w)
            /\ adds' = [adds EXCEPT ![c] = UpdateSums(w - weight[y], i)]
            /\ UNCHANGED disabled
      BY <2>1, <2>7 DEF AddInflight
    <3> QED
      BY <2>5, <2>6, <2>7, <3>1
  <2>8. CASE Update(c) /\ ~disabled[y]
    <3>1. PICK w \in Weights \cup {weight[y]} :
            /\ ResetWeight(y, i, w)
            /\ adds' = [adds EXCEPT ![c] = UpdateSums(w - weight[y], i)]
            /\ UNCHANGED disabled
      BY <2>1, <2>8 DEF Update
    <3> QED
      BY <2>5, <2>6, <2>8, <3>1
  <2> QED
    BY <1>5, <2>1, <2>4, <2>7, <2>8 DEF AddInflight, Update
<1>6. CASE \/ BeginSelect(c) \/ Draw(c) \/ LoadLeft(c) \/ LoadSelf(c)
           \/ EndInflight(c) \/ Feedback(c) \/ FindServer(c) \/ EndFeedback(c)
  <2>1. UNCHANGED <<sumVars, weightVars, adds>> /\ adds[c] = << >>
    BY <1>6 DEF BeginSelect, Draw, LoadLeft, LoadSelf, EndInflight, Feedback,
       FindServer, EndFeedback, At
  <2> QED
    BY <1>3, <2>1
<1> QED
  BY <1>4, <1>5, <1>6 DEF Caller

-----------------------------------------------------------------------------
(* Steps of the updater *)

(* Unless the updater waits for readers, the callers hold the copy that is in
   the foreground. *)
LEMMA CallersBelow ==
  ASSUME OneUpdater, HeldInv, DebtsInv, NEW u \in Updaters,
         update[u].pc # "readers", NEW c \in Callers
  PROVE  /\ adds[c] # << >> => call[c].buf = index
         /\ Below(adds[c], Len(tree[index]))
<1>1. CallerOwes(c)
  BY DEF DebtsInv
<1>2. CASE adds[c] = << >>
  <2>1. Below(<< >>, Len(tree[index]))
    BY DEF Below
  <2> QED
    BY <1>2, <2>1
<1>3. CASE adds[c] # << >>
  <2>1. call[c].buf \in {0, 1} /\ index \in {0, 1}
    BY <1>1, <1>3 DEF CallerOwes, HeldInv
  <2>2. call[c].buf # None
    BY <2>1, NoneAssumption
  <2>3. call[c].buf = 1 - index => \E v \in Updaters : update[v].pc = "readers"
    BY <2>2 DEF HeldInv
  <2>4. call[c].buf # 1 - index
    BY <2>3 DEF OneUpdater
  <2>5. call[c].buf = index
    BY <2>1, <2>4
  <2> QED
    BY <1>1, <1>3, <2>5 DEF CallerOwes
<1> QED
  BY <1>2, <1>3

(* What they have to add is as it was, and the updater has something to add. *)
LEMMA DebtsSame ==
  ASSUME OneUpdater, HeldInv, DebtsInv, NEW u \in Updaters,
         update[u].pc # "readers", tree'[index] = tree[index], UNCHANGED call,
         \A c \in Callers : adds'[c] = adds[c], Short(adds'[u])
  PROVE  DebtsInv'
<1>1. \A t \in Threads : Short(adds'[t])
  BY DEF DebtsInv, Threads, OneUpdater
<1>2. ASSUME NEW c \in Callers PROVE CallerOwes(c)'
  <2>1. CallerOwes(c) /\ (adds[c] # << >> => call[c].buf = index)
    BY CallersBelow DEF DebtsInv
  <2> QED
    BY <2>1 DEF CallerOwes
<1> QED
  BY <1>1, <1>2 DEF DebtsInv

LEMMA PointAccount ==
  ASSUME OneUpdater, HeldInv, TreeInv, AccountInv, NEW u \in Updaters,
         \/ \E s \in Servers : AddServer(u, s) \/ RemoveServer(u, s)
         \/ BeginModify(u) \/ WaitReaders(u) \/ EndModify(u) \/ Publish(u)
  PROVE  AccountInv'
<1>1. /\ UNCHANGED <<tree, sumVars, weightVars, adds, call>>
      /\ adds[u] = << >>
  BY DEF AddServer, RemoveServer, BeginModify, WaitReaders, EndModify, Publish,
         Doing, treeVars
<1>2. /\ Stage(u) /\ DOMAIN update = Updaters /\ DOMAIN update[u] = UpdateFields
      /\ index \in {0, 1} /\ Account(u) /\ DebtsInv
  BY DEF TreeInv, HeldInv, AccountInv
<1>3. /\ Settled => Settled'
      /\ \A t : Exact(t) => Exact(t)'
      /\ \A t, a : Moving(t, a) => Moving(t, a)'
  <2>1. \A p \in Slots : Ledger(p)' = Ledger(p)
    BY <1>1 DEF Ledger, sumVars
  <2>2. UNCHANGED <<weight, old>>
    BY <1>1 DEF weightVars
  <2> QED
    BY <2>1, <2>2, BookSame
<1>4. DebtsInv'
  BY <1>1, <1>2 DEF DebtsInv, CallerOwes
<1>5. /\ tree' = tree /\ weight' = weight /\ disabled' = disabled
      /\ adds'[u] = << >>
  BY <1>1 DEF weightVars
<1> SUFFICES Account(u)'
  BY <1>4 DEF AccountInv, OneUpdater
<1>6. PICK fg, bg, a, q : /\ fg = tree[index] /\ bg = tree[1 - index]
                          /\ a = update[u].at /\ q = update'[u]
  OBVIOUS
<1>7. ASSUME NEW s \in Servers, AddServer(u, s) \/ RemoveServer(u, s)
      PROVE  Account(u)'
  <2>1. /\ update[u].pc = "idle" /\ index' = index
        /\ q.pc = "wait" /\ q.phase = 0
    BY <1>2, <1>6, <1>7 DEF AddServer, RemoveServer, Doing, treeVars, NoUpdate
  <2>2. Exact(fg)'
    BY <1>2, <1>3, <1>6, <2>1 DEF Account
  <2> QED
    BY <1>5, <1>6, <2>1, <2>2 DEF Account, Gone
<1>8. CASE BeginModify(u)
  <2>1. /\ update[u].pc = "wait" /\ index' = index /\ update[u].phase = 0
        /\ q.pc = "apply" /\ q.phase = 0
    BY <1>2, <1>6, <1>8 DEF BeginModify, Doing, treeVars, UpdateFields, Stage
  <2>2. Exact(fg)'
    BY <1>2, <1>3, <1>6, <2>1 DEF Account
  <2> QED
    BY <1>5, <1>6, <2>1, <2>2 DEF Account, Gone
<1>9. CASE EndModify(u)
  <2>1. /\ update[u].pc = "applied" /\ index' = index /\ update[u].phase = 1
        /\ q.pc = "idle" /\ q.phase = 0 /\ q.op = "add"
    BY <1>2, <1>6, <1>9 DEF EndModify, Doing, treeVars, NoUpdate
  <2>2. Exact(fg)'
    BY <1>2, <1>3, <1>6, <2>1 DEF Account
  <2> QED
    BY <1>5, <1>6, <2>1, <2>2 DEF Account, Gone
<1>10. CASE WaitReaders(u)
  <2>1. /\ update[u].pc = "readers" /\ index' = index /\ update[u].phase = 0
        /\ q.pc = "apply" /\ q.phase = 1 /\ q.op = update[u].op
        /\ q.server = update[u].server /\ q.at = a
    BY <1>2, <1>6, <1>10 DEF WaitReaders, Doing, treeVars, UpdateFields, Account
  <2>2. IF Moves(bg, u) THEN fg[a + 1] = LastOf(bg) /\ Moving(fg, a)
        ELSE Exact(fg)
    BY <1>2, <1>6, <2>1 DEF Account
  <2>3. IF Moves(bg, u) THEN fg[a + 1] = LastOf(bg) /\ Moving(fg, a)'
        ELSE Exact(fg)'
    BY <1>3, <2>2
  <2>4. Moves(bg, u)' <=> Moves(bg, u)
    BY <1>6, <2>1 DEF Moves
  <2>5. Gone(u)' => weight'[q.server] = 0 /\ disabled'[q.server] = TRUE
    BY <1>2, <1>5, <1>6, <2>1 DEF Account, Gone
  <2> QED
    BY <1>5, <1>6, <2>1, <2>3, <2>4, <2>5 DEF Account
<1>11. CASE Publish(u)
  <2>1. /\ update[u].pc = "applied" /\ index' = 1 - index /\ update[u].phase = 0
        /\ q.pc = "readers" /\ q.phase = 0 /\ q.op = update[u].op
        /\ q.server = update[u].server /\ q.at = a /\ 1 - index' = index
    BY <1>2, <1>6, <1>11 DEF Publish, Doing, UpdateFields
  <2>2. IF Moves(fg, u) THEN bg[a + 1] = LastOf(fg) /\ Moving(bg, a)
        ELSE Exact(bg)
    BY <1>2, <1>6, <2>1 DEF Account
  <2>3. IF Moves(fg, u) THEN bg[a + 1] = LastOf(fg) /\ Moving(bg, a)'
        ELSE Exact(bg)'
    BY <1>3, <2>2
  <2>4. Moves(fg, u)' <=> Moves(fg, u)
    BY <1>6, <2>1 DEF Moves
  <2>5. Gone(u)' => weight'[q.server] = 0 /\ disabled'[q.server] = TRUE
    BY <1>2, <1>5, <1>6, <2>1 DEF Account, Gone
  <2>6. tree'[index'] = bg /\ tree'[1 - index'] = fg
    BY <1>5, <1>6, <2>1
  <2> QED
    BY <1>5, <1>6, <2>1, <2>3, <2>4, <2>5, <2>6 DEF Account
<1> QED
  BY <1>7, <1>8, <1>9, <1>10, <1>11

(* The updater makes one of its additions. *)
LEMMA AddUpAccount ==
  ASSUME OneUpdater, IsFiniteSet(Callers), TypeInv, AccountInv,
         NEW u \in Updaters, AddNext(u)
  PROVE  AccountInv'
<1>1. /\ IsFiniteSet(Threads) /\ \A x \in Threads : Short(adds[x])
      /\ u \in Threads /\ Account(u) /\ DebtsInv
      /\ \A c \in Callers : c \in Threads \ {u}
  BY ThreadsFinite, NoneAssumption DEF AccountInv, DebtsInv, Threads
<1>2. /\ \A p \in Slots : Ledger(p)' = Ledger(p)
      /\ \A x \in Threads : Short(adds[x])'
      /\ \A x \in Threads \ {u} : adds'[x] = adds[x]
  BY <1>1, LedgerNext
<1>3. /\ UNCHANGED <<tree, index, update, weight, disabled, old, call>>
      /\ adds[u] # << >>
  BY DEF AddNext, weightVars, treeVars
<1>4. update[u].pc = "applied"
  BY <1>1, <1>3 DEF Account
<1>5. Account(u)'
  BY <1>1, <1>2, <1>3, <1>4, AccountSame
<1>6. \A c \in Callers : adds'[c] = adds[c]
  BY <1>1, <1>2
<1>7. DebtsInv'
  BY <1>1, <1>2, <1>3, <1>6 DEF DebtsInv, CallerOwes
<1> QED
  BY <1>5, <1>7 DEF AccountInv, OneUpdater

(* Nothing is counted at a position with nothing below. *)
LEMMA LoadNothing ==
  ASSUME NEW t, NEW n \in Nat, Len(t) <= n, Len(t) \in Nat, NEW w
  PROVE  Load(w, t, n) = 0
<1>1. PICK S : S = Counted(Len(t), n)
  OBVIOUS
<1>2. S = {}
  <2> SUFFICES ASSUME NEW i \in S PROVE FALSE
    OBVIOUS
  <2>1. i \in 0 .. Len(t) - 1 /\ Counts(i, n)
    BY <1>1 DEF Counted
  <2>2. n \in 0 .. i
    BY <2>1 DEF Counts, Total, LeftParents
  <2> QED
    BY <2>1, <2>2
<1> QED
  BY <1>1, <1>2, SumEmpty DEF Load

LEMMA OwedBelow ==
  ASSUME NEW n \in Nat, NEW a, Short(a), Below(a, n)
  PROVE  Owed(a, n) = 0
<1>1. \A k \in {1, 2, 3} : k <= Len(a) => k \in 1 .. Len(a)
  BY DEF Short
<1>2. \A k \in {1, 2, 3} : k <= Len(a) => n \notin a[k][1]
  BY <1>1 DEF Below
<1>3. \A k \in {1, 2, 3} : Part(a, k, n) = 0
  BY <1>2 DEF Part
<1> QED
  BY <1>3 DEF Owed

LEMMA DebtZero ==
  ASSUME IsFiniteSet(Threads), NEW a, NEW p, \A t \in Threads : Owed(a[t], p) = 0
  PROVE  Debt(a, p) = 0
<1>1. PICK f : f = Debts(a, p)
  OBVIOUS
<1>2. \A t \in Threads : f[t] = 0
  BY <1>1 DEF Debts
<1> QED
  BY <1>1, <1>2, SumZero DEF Debt

LEMMA AddNodeAccount ==
  ASSUME OneUpdater, IsFiniteSet(Callers), HeldInv, TreeInv, TypeInv, AccountInv,
         NEW u \in Updaters, AddNode(u)
  PROVE  AccountInv'
<1>1. PICK s, fg, bg, n, new, r :
        /\ s = update[u].server /\ fg = tree[index] /\ bg = tree[1 - index]
        /\ n = Len(bg) /\ new = (s \notin DOMAIN server_map[index])
        /\ r = Append(bg, s)
  OBVIOUS
<1>2. /\ update[u].pc = "apply" /\ update[u].op = "add" /\ adds[u] = << >>
      /\ tree' = [tree EXCEPT ![1 - index] = r]
      /\ update' = [update EXCEPT ![u].pc = "applied"]
      /\ UNCHANGED <<index, total_weight, call>>
  BY <1>1 DEF AddNode, Doing
<1>3. /\ index \in {0, 1} /\ 1 - index # index /\ DOMAIN tree = {0, 1}
      /\ WellFormed(bg, server_map[1 - index]) /\ WellFormed(fg, server_map[index])
      /\ Stage(u) /\ Account(u) /\ DebtsInv /\ u \in Threads
      /\ IsFiniteSet(Threads) /\ \A x \in Threads : Short(adds[x])
      /\ \A c \in Callers : c \in Threads \ {u}
  BY <1>1, ThreadsFinite, NoneAssumption
     DEF HeldInv, TreeInv, AccountInv, DebtsInv, Threads
<1>4. tree'[index'] = fg /\ tree'[1 - index'] = r
  BY <1>1, <1>2, <1>3
<1>5. PICK q : q = update'[u]
  OBVIOUS
<1>6. /\ q.pc = "applied" /\ q.op = "add" /\ q.phase = update[u].phase
      /\ DOMAIN update = Updaters
  BY <1>2, <1>5 DEF HeldInv, UpdateFields
<1>7. ~Gone(u)' /\ \A t : ~Moves(t, u)'
  BY <1>5, <1>6 DEF Gone, Moves
<1>8. s \in Servers /\ s \notin ToSet(bg)
  BY <1>1, <1>2, <1>3 DEF Stage, Changed
<1>9. \A c \in Callers : Below(adds[c], Len(fg))
  BY <1>1, <1>2, <1>3, CallersBelow
<1>10. CASE update[u].phase = 0
  <2>1. fg = bg /\ Exact(fg) /\ new
    <3>1. fg = bg
      BY <1>1, <1>2, <1>3, <1>10 DEF Stage
    <3>2. Exact(fg)
      BY <1>1, <1>2, <1>3, <1>10 DEF Account
    <3> QED
      BY <1>1, <1>3, <1>8, <3>1, <3>2 DEF WellFormed
  <2>2. n \in Nat /\ n \in Positions /\ n \in Slots /\ n # Total /\ Total \in Slots
    BY <1>1, <1>3, <1>8, PlaceIs, SizeIs DEF Total, Slots
  <2>3. PICK w : w = InitialWeight(n)
    OBVIOUS
  <2>4. w \in Int
    <3>1. total_weight \in Int /\ Scale \in Int
      BY WeightsAssumption DEF TypeInv, NumberInv
    <3> QED
      BY <2>2, <2>3, <3>1, QuotientTyped DEF InitialWeight
  <2>5. /\ NewWeight(s, w) /\ left' = [left EXCEPT ![n] = 0]
        /\ adds' = [adds EXCEPT ![u] = UpdateSums(w, n)]
    BY <1>1, <2>1, <2>3 DEF AddNode
  <2>6. left[n] = 0
    <3>1. Load(weight, fg, n) = 0
      BY <1>1, <2>1, <2>2, LoadNothing
    <3>2. Ledger(n) = Load(weight, fg, n) + In(0, n, 0) + In(0, n, 0)
      BY <2>1, <2>2 DEF Exact, Balance
    <3>3. In(0, n, 0) = 0
      BY DEF In
    <3>4. \A t \in Threads : Owed(adds[t], n) = 0
      <4>1. Owed(adds[u], n) = 0
        BY <1>2, OwedNone
      <4>2. \A c \in Callers : Owed(adds[c], n) = 0
        BY <1>1, <1>3, <1>9, <2>1, <2>2, OwedBelow DEF Threads
      <4> QED
        BY <4>1, <4>2 DEF Threads, OneUpdater
    <3>5. Debt(adds, n) = 0
      BY <1>3, <3>4, DebtZero
    <3>6. left[n] \in Int
      BY <2>2 DEF TypeInv, NumberInv
    <3> QED
      BY <2>2, <3>1, <3>2, <3>3, <3>5, <3>6 DEF Ledger
  <2>7. \A p \in Positions : left'[p] = left[p]
    BY <2>2, <2>5, <2>6 DEF TypeInv, NumberInv
  <2>8. PICK x : x = UpdateSums(w, n)
    OBVIOUS
  <2>9. Short(x) /\ \A p \in Slots : Owed(x, p) = In(n, p, w)
    BY <2>2, <2>4, <2>8, OwedSums DEF Slots
  <2>10. /\ \A p \in Slots : Ledger(p)' = Ledger(p) + Owed(x, p)
         /\ \A t \in Threads \ {u} : adds'[t] = adds[t]
         /\ adds'[u] = x
    <3>1. adds' = [adds EXCEPT ![u] = x] /\ total_weight' = total_weight
      BY <1>2, <2>5, <2>8
    <3>2. /\ IsFiniteSet(Threads) /\ \A y \in Threads : Short(adds[y])
          /\ u \in Threads /\ adds[u] = << >> /\ Short(x)
      BY <1>2, <1>3, <2>9
    <3> QED
      BY <2>7, <3>1, <3>2, LedgerSet
  <2>11. PICK v : v = weight'
    OBVIOUS
  <2>12. /\ Weighing(weight) /\ Weighing(v) /\ v[s] = w
         /\ \A y \in Servers \ {s} : v[y] = weight[y]
    BY <1>8, <2>4, <2>5, <2>11 DEF NewWeight, TypeInv, WeightsInv, Weighing
  <2>13. /\ Tree(bg) /\ Tree(r) /\ Len(r) = Len(bg) + 1 /\ r[Len(bg) + 1] = s
         /\ \A k \in 1 .. Len(bg) : r[k] = bg[k]
    BY <1>1, <1>3, <1>8, AppendIs DEF WellFormed, Tree
  <2>14. ASSUME NEW p \in Slots
         PROVE  Ledger(p)' = Load(v, r, p) + In(0, p, 0) + In(0, p, 0)
    <3>1. Load(v, r, p) = Load(v, bg, p) + In(n, p, w)
      <4>1. Load(v, r, p) = Load(v, bg, p)
                                + In(Len(bg), p, v[r[Len(bg) + 1]])
        BY <2>12, <2>13, LoadLonger
      <4> QED
        BY <1>1, <2>12, <2>13, <4>1
    <3>2. Load(v, bg, p) = Load(weight, bg, p)
      BY <1>8, <2>12, <2>13, LoadElsewhere
    <3>3. Ledger(p) = Load(weight, bg, p) + In(0, p, 0) + In(0, p, 0)
      BY <2>1 DEF Exact, Balance
    <3>4. In(0, p, 0) = 0 /\ In(n, p, w) \in Int
      BY <2>4 DEF In
    <3>5. Load(weight, bg, p) \in Int
      BY <2>12, <2>13, LoadsAre
    <3>6. Ledger(p)' = Ledger(p) + In(n, p, w)
      BY <2>9, <2>10
    <3> QED
      BY <3>1, <3>2, <3>3, <3>4, <3>5, <3>6
  <2>15. Balance(r, 0, 0, 0, 0)'
    BY <2>11, <2>14 DEF Balance
  <2>16. Settled'
    <3>1. \A y \in Servers : old'[y].index = None
      BY <1>8, <2>1, <2>5 DEF NewWeight, NotOld, Exact, Settled, TypeInv,
         WeightsInv
    <3> QED
      BY <3>1 DEF Settled
  <2>17. Account(u)'
    BY <1>4, <1>5, <1>6, <1>7, <1>10, <2>15, <2>16 DEF Account, Exact
  <2>18. DebtsInv'
    <3>1. \A c \in Callers : adds'[c] = adds[c]
      BY <1>3, <2>10
    <3>2. tree'[index] = tree[index]
      BY <1>1, <1>2, <1>4
    <3> QED
      BY <1>2, <1>3, <2>9, <2>10, <3>1, <3>2, DebtsSame
  <2> QED
    BY <2>17, <2>18 DEF AccountInv, OneUpdater
<1>11. CASE update[u].phase # 0
  <2>1. fg = r /\ Exact(fg)
    <3>1. Changed(bg, fg, u) /\ ~Moves(bg, u)
      BY <1>1, <1>2, <1>3, <1>11 DEF Stage, Moves
    <3>2. Exact(fg)
      BY <1>1, <1>2, <1>3, <1>11, <3>1 DEF Account
    <3> QED
      BY <1>1, <1>2, <3>1, <3>2 DEF Changed
  <2>2. ~new
    <3>1. s \in ToSet(r)
      BY <1>1, <1>3, <1>8, AppendIs DEF WellFormed
    <3> QED
      BY <1>1, <1>3, <2>1, <3>1 DEF WellFormed
  <2>3. UNCHANGED <<left, weightVars, adds>>
    BY <1>1, <2>2 DEF AddNode
  <2>4. \A p \in Slots : Ledger(p)' = Ledger(p)
    BY <1>2, <2>3 DEF Ledger
  <2>5. Exact(fg)'
    BY <2>1, <2>3, <2>4, BookSame DEF weightVars
  <2>6. Account(u)'
    BY <1>4, <1>5, <1>6, <1>7, <1>11, <2>5 DEF Account
  <2>7. DebtsInv'
    <3>1. tree'[index] = tree[index] /\ Short(adds'[u])
      BY <1>1, <1>2, <1>3, <1>4, <2>3
    <3> QED
      BY <1>2, <1>3, <2>3, <3>1, DebtsSame
  <2> QED
    BY <2>6, <2>7 DEF AccountInv, OneUpdater
<1> QED
  BY <1>10, <1>11

(* RemovedWeigh, of one updater. *)
RemovesWeight(u) ==
    update[u].pc = "apply" /\ update[u].op = "remove" /\ update[u].phase = 0
        => weight[update[u].server] # 0

(* The first pass: the server's weight is to be taken away at its place i, and
   the one that moves there comes with its own. *)
LEMMA FirstRemoved ==
  ASSUME NEW t, NEW m, WellFormed(t, m), NEW s \in ToSet(t),
         NEW i \in Places(t), t[i + 1] = s, NEW r, r = Removed(t, s),
         Weighing(weight), weight' = [weight EXCEPT ![s] = 0], Exact(t),
         UNCHANGED old, NEW rm, rm = weight[s]
  PROVE  /\ Settled'
         /\ LastOf(t) = s =>
                ((\A p \in Slots : Ledger(p)' = Ledger(p) + In(i, p, -rm))
                    => Exact(r)')
         /\ (\A p \in Slots : Ledger(p)' = Ledger(p))
                => Balance(t, 0, 0, i, rm)'
<1>1. PICK v, e : v = weight' /\ e = Len(t) - 1
  OBVIOUS
<1>2. /\ Tree(t) /\ IsInjective(t) /\ s \in Servers /\ rm \in Int
      /\ Weighing(v) /\ v[s] = 0 /\ \A y \in Servers \ {s} : v[y] = weight[y]
  BY <1>1, Elements DEF WellFormed, Tree, Weighing
<1>3. Tree(r) /\ s \notin ToSet(r)
  BY RemovedIs DEF Tree
<1>4. Settled'
  BY DEF Exact, Settled
<1>5. \A p \in Slots : /\ Ledger(p) = Load(weight, t, p)
                       /\ Load(weight, t, p) \in Int
  BY <1>2, LoadsAre DEF Exact, Balance, In
<1>6. ASSUME LastOf(t) = s,
             \A p \in Slots : Ledger(p)' = Ledger(p) + In(i, p, -rm)
      PROVE  Exact(r)'
  <2>1. ASSUME NEW p \in Slots
        PROVE  Ledger(p)' = Load(v, r, p) + In(0, p, 0) + In(0, p, 0)
    <3>1. i = e /\ Load(weight, t, p) = Load(weight, r, p) + In(e, p, rm)
      BY <1>1, <1>2, <1>6, LoadRemoved
    <3>2. Load(v, r, p) = Load(weight, r, p)
      BY <1>2, <1>3, LoadElsewhere
    <3>3. Load(weight, r, p) \in Int
      BY <1>2, <1>3, LoadsAre
    <3>4. In(0, p, 0) = 0 /\ In(e, p, -rm) = -In(e, p, rm) /\ In(e, p, rm) \in Int
      BY <1>2 DEF In
    <3>5. Ledger(p)' = Ledger(p) + In(e, p, -rm)
      BY <1>6, <3>1
    <3> QED
      BY <1>5, <3>1, <3>2, <3>3, <3>4, <3>5
  <2> QED
    BY <1>1, <1>4, <2>1 DEF Exact, Balance
<1>7. ASSUME \A p \in Slots : Ledger(p)' = Ledger(p)
      PROVE  Balance(t, 0, 0, i, rm)'
  <2>1. ASSUME NEW p \in Slots
        PROVE  Ledger(p)' = Load(v, t, p) + In(0, p, 0) + In(i, p, rm)
    <3>1. Load(v, t, p) = Load(weight, t, p) + In(i, p, 0 - rm)
      <4>1. \A j \in Places(t) \ {i} : t[j + 1] \in Servers /\ t[j + 1] # s
        BY <1>2 DEF Tree, Places, IsInjective
      <4>2. Load(v, t, p)
                = Load(weight, t, p) + In(i, p, v[t[i + 1]] - weight[t[i + 1]])
        BY <1>2, <4>1, LoadDiffer
      <4> QED
        BY <1>2, <4>2
    <3>2. /\ In(0, p, 0) = 0 /\ In(i, p, 0 - rm) = -In(i, p, rm)
          /\ In(i, p, rm) \in Int
      BY <1>2 DEF In
    <3> QED
      BY <1>5, <1>7, <3>1, <3>2
  <2> QED
    BY <1>1, <2>1 DEF Balance
<1> QED
  BY <1>1, <1>4, <1>6, <1>7

LEMMA RemoveNodeAccount ==
  ASSUME OneUpdater, IsFiniteSet(Callers), HeldInv, TreeInv, TypeInv, AccountInv,
         NEW u \in Updaters, RemovesWeight(u), RemoveNode(u)
  PROVE  AccountInv'
<1>1. PICK t, m, s, i, rm :
        /\ Removing(u, t, m, s, i, rm)
        /\ t = tree[1 - index] /\ m = server_map[1 - index]
        /\ s = update[u].server /\ i = RemovedAt(u) /\ rm = weight[t[i + 1]]
  BY RemoveNodeIs
<1>2. PICK fg, r, q, a : /\ fg = tree[index] /\ r = Removed(t, s)
                         /\ q = update'[u] /\ a = update[u].at
  OBVIOUS
<1>3. /\ update[u].pc = "apply" /\ update[u].op = "remove" /\ adds[u] = << >>
      /\ UNCHANGED <<index, total_weight, left, call>>
  BY <1>1 DEF Removing, Doing
<1>4. /\ index \in {0, 1} /\ 1 - index # index /\ DOMAIN tree = {0, 1}
      /\ WellFormed(t, m) /\ WellFormed(fg, server_map[index])
      /\ Stage(u) /\ Account(u) /\ DebtsInv /\ u \in Threads
      /\ IsFiniteSet(Threads) /\ \A x \in Threads : Short(adds[x])
      /\ \A c \in Callers : c \in Threads \ {u}
  BY <1>1, <1>2, ThreadsFinite, NoneAssumption
     DEF HeldInv, TreeInv, AccountInv, DebtsInv, Threads
<1>5. s \in ToSet(t) /\ s \in Servers
  BY <1>1, <1>3, <1>4, Elements DEF Stage, Changed, WellFormed
<1>6. /\ i \in Places(t) /\ t[i + 1] = s /\ i \in Positions /\ i \in Nat
      /\ Len(t) \in Nat /\ i <= Len(t) - 1 /\ i + 1 \in 1 .. Len(t)
      /\ Len(t) \in 1 .. Len(t) /\ i = m[s]
  <2>1. i = m[s]
    BY <1>1, <1>4, <1>5 DEF RemovedAt, WellFormed
  <2>2. i \in Places(t) /\ t[i + 1] = s
    BY <1>4, <1>5, <2>1 DEF WellFormed
  <2>3. i \in Positions /\ Len(t) \in Nat
    BY <1>4, <2>2, PlaceIs, SizeIs
  <2> QED
    BY <2>1, <2>2, <2>3 DEF Places
<1>7. i = Len(t) - 1 <=> LastOf(t) = s
  <2>1. \A j, k \in 1 .. Len(t) : t[j] = t[k] => j = k
    BY <1>4 DEF WellFormed, IsInjective
  <2>2. LastOf(t) = s => i + 1 = Len(t)
    BY <1>6, <2>1 DEF LastOf
  <2>3. i + 1 = Len(t) => LastOf(t) = s
    BY <1>6 DEF LastOf
  <2> QED
    BY <1>6, <2>2, <2>3
<1>8. tree'[index'] = fg /\ tree'[1 - index'] = r
  <2>1. i = Len(t) - 1 => Front(t) = r
    <3>1. m[s] = Len(t) - 1 => Removed(t, s) = Front(t)
      BY <1>4, <1>5, RemovedIs
    <3> QED
      BY <1>2, <1>6, <3>1
  <2>2. i < Len(t) - 1 => Front([t EXCEPT ![i + 1] = Last(t)]) = r
    BY <1>2, <1>4, <1>5, <1>6, RemovedIs
  <2>3. tree' = [tree EXCEPT ![1 - index] = r]
    BY <1>1, <2>1, <2>2 DEF Removing
  <2> QED
    BY <1>2, <1>3, <1>4, <2>3
<1>9. /\ weight' = [weight EXCEPT ![s] = 0]
      /\ disabled' = [disabled EXCEPT ![s] = TRUE] /\ UNCHANGED old
  BY <1>1, <1>6 DEF Removing, Disable
<1>10. weight'[s] = 0 /\ disabled'[s] = TRUE /\ WeightsInv /\ Weighing(weight)
       /\ rm = weight[s] /\ rm \in Int
  BY <1>1, <1>5, <1>6, <1>9 DEF TypeInv, WeightsInv, Weighing
<1>11. /\ i = Len(t) - 1 => /\ q.pc = "applied"
                            /\ adds' = [adds EXCEPT ![u] = UpdateSums(-rm, i)]
       /\ i < Len(t) - 1 => /\ q.pc = "move" /\ q.at = i /\ q.rm = rm
                            /\ adds' = adds
       /\ q.op = "remove" /\ q.phase = update[u].phase /\ q.server = s
  <2>1. DOMAIN update = Updaters /\ DOMAIN update[u] = UpdateFields
    BY DEF HeldInv
  <2>2. CASE i = Len(t) - 1
    <3>1. /\ update' = [update EXCEPT ![u].pc = "applied"]
          /\ adds' = [adds EXCEPT ![u] = UpdateSums(-rm, i)]
      BY <1>1, <1>6, <2>2 DEF Removing
    <3>2. /\ q.pc = "applied" /\ q.op = "remove" /\ q.phase = update[u].phase
          /\ q.server = s
      BY <1>1, <1>2, <1>3, <2>1, <3>1 DEF UpdateFields
    <3>3. ~(i < Len(t) - 1)
      BY <1>6, <2>2
    <3> QED
      BY <3>1, <3>2, <3>3
  <2>3. CASE i < Len(t) - 1
    <3>1. /\ update' = [update EXCEPT ![u] = [@ EXCEPT !.pc = "move",
                                                !.at = i, !.rm = rm]]
          /\ adds' = adds
      BY <1>1, <1>6, <2>3 DEF Removing
    <3>2. /\ q.pc = "move" /\ q.op = "remove" /\ q.phase = update[u].phase
          /\ q.server = s /\ q.at = i /\ q.rm = rm
      BY <1>1, <1>2, <1>3, <2>1, <3>1 DEF UpdateFields
    <3>3. ~(i = Len(t) - 1)
      BY <1>6, <2>3
    <3> QED
      BY <3>1, <3>2, <3>3
  <2> QED
    BY <1>6, <2>2, <2>3
<1>12. /\ \A c \in Callers : adds'[c] = adds[c]
       /\ Short(adds'[u])
       /\ i = Len(t) - 1 => \A p \in Slots : Ledger(p)' = Ledger(p) + In(i, p, -rm)
       /\ i < Len(t) - 1 => \A p \in Slots : Ledger(p)' = Ledger(p)
  <2>1. CASE i = Len(t) - 1
    <3>1. PICK x : x = UpdateSums(-rm, i)
      OBVIOUS
    <3>2. -rm \in Int
      BY <1>10
    <3>3. Short(x) /\ \A p \in Slots : Owed(x, p) = In(i, p, -rm)
      <4>1. Total \in Slots
        BY DEF Slots
      <4> QED
        BY <1>6, <3>1, <3>2, <4>1, OwedSums DEF Slots
    <3>4. /\ \A p \in Slots : Ledger(p)' = Ledger(p) + Owed(x, p)
          /\ \A z \in Threads \ {u} : adds'[z] = adds[z]
          /\ adds'[u] = x
      <4>1. adds' = [adds EXCEPT ![u] = x] /\ total_weight' = total_weight
            /\ \A p \in Positions : left'[p] = left[p]
        BY <1>3, <1>11, <2>1, <3>1
      <4>2. /\ IsFiniteSet(Threads) /\ \A y \in Threads : Short(adds[y])
            /\ u \in Threads /\ adds[u] = << >> /\ Short(x)
        BY <1>3, <1>4, <3>3
      <4> QED
        BY <4>1, <4>2, LedgerSet
    <3> QED
      BY <1>4, <2>1, <3>3, <3>4
  <2>2. CASE i < Len(t) - 1
    BY <1>3, <1>4, <1>6, <1>11, <2>2 DEF Ledger
  <2> QED
    BY <1>6, <2>1, <2>2
<1>13. DebtsInv'
  BY <1>2, <1>3, <1>4, <1>8, <1>12, DebtsSame
<1>14. CASE update[u].phase = 0
  <2>1. fg = t /\ Exact(t)
    BY <1>1, <1>2, <1>3, <1>4, <1>14 DEF Stage, Account
  <2>2. /\ Settled'
        /\ i = Len(t) - 1 => Exact(r)'
        /\ i < Len(t) - 1 => Balance(t, 0, 0, i, rm)'
    <3>1. /\ Settled'
          /\ LastOf(t) = s =>
                ((\A p \in Slots : Ledger(p)' = Ledger(p) + In(i, p, -rm))
                    => Exact(r)')
          /\ (\A p \in Slots : Ledger(p)' = Ledger(p))
                => Balance(t, 0, 0, i, rm)'
      <4>1. /\ WellFormed(t, m) /\ s \in ToSet(t) /\ i \in Places(t)
            /\ t[i + 1] = s /\ r = Removed(t, s) /\ rm = weight[s]
            /\ Weighing(weight) /\ Exact(t)
        BY <1>2, <1>4, <1>5, <1>6, <1>10, <2>1
      <4>2. weight' = [weight EXCEPT ![s] = 0] /\ UNCHANGED old
        BY <1>9
      <4> QED
        BY <4>1, <4>2, FirstRemoved
    <3> QED
      BY <1>7, <1>12, <3>1
  <2>3. CASE i = Len(t) - 1
    <3>1. ~Moves(fg, u)'
      BY <1>2, <1>7, <1>11, <2>1, <2>3 DEF Moves
    <3> QED
      BY <1>2, <1>8, <1>10, <1>11, <1>13, <1>14, <2>2, <2>3, <3>1
         DEF AccountInv, Account, OneUpdater
  <2>4. CASE i < Len(t) - 1
    <3>1. Moves(fg, u)'
      BY <1>2, <1>6, <1>7, <1>11, <2>1, <2>4 DEF Moves
    <3>2. r[i + 1] = LastOf(t)
      <4>1. i + 1 \in 1 .. Len(t) - 1
        BY <1>6, <2>4
      <4> QED
        BY <1>2, <1>6, <4>1 DEF Removed, LastOf
    <3>3. rm # 0
      BY <1>1, <1>3, <1>10, <1>14 DEF RemovesWeight
    <3>4. adds'[u] = << >>
      BY <1>3, <1>11, <2>4
    <3>5. Account(u)'
      BY <1>2, <1>6, <1>8, <1>10, <1>11, <1>14, <2>1, <2>2, <2>4, <3>1, <3>2,
         <3>3, <3>4 DEF Account
    <3> QED
      BY <1>13, <3>5 DEF AccountInv, OneUpdater
  <2> QED
    BY <1>6, <2>3, <2>4
<1>15. CASE update[u].phase # 0
  <2>1. /\ fg = r /\ weight[s] = 0 /\ rm = 0
        /\ IF LastOf(t) # s THEN fg[a + 1] = LastOf(t) /\ Moving(fg, a)
           ELSE Exact(fg)
    <3>1. Changed(t, fg, u) /\ Gone(u)
      BY <1>1, <1>2, <1>3, <1>4, <1>15 DEF Stage, Gone
    <3>2. weight[s] = 0
      BY <1>1, <1>4, <3>1 DEF Account
    <3>3. IF LastOf(t) # s THEN fg[a + 1] = LastOf(t) /\ Moving(fg, a)
          ELSE Exact(fg)
      BY <1>1, <1>2, <1>3, <1>4, <1>15 DEF Account, Moves
    <3>4. fg = r
      BY <1>1, <1>2, <1>3, <3>1 DEF Changed
    <3> QED
      BY <1>10, <3>2, <3>3, <3>4
  <2>2. weight' = weight /\ UNCHANGED old
    BY <1>9, <1>10, <2>1 DEF Weighing
  <2>3. \A p \in Slots : Ledger(p)' = Ledger(p)
    <3>1. CASE i = Len(t) - 1
      <4> TAKE p \in Slots
      <4>1. Ledger(p)' = Ledger(p) + In(i, p, -rm)
        BY <1>12, <3>1
      <4>2. In(i, p, -rm) = 0
        <5>1. -rm = 0
          <6>1. -rm = 0 - rm
            BY <1>10
          <6> QED
            BY <2>1, <6>1
        <5> QED
          BY <5>1 DEF In
      <4>3. Ledger(p) \in Int
        <5>1. CASE Exact(fg)
          <6>1. Ledger(p) = Load(weight, fg, p) + In(0, p, 0) + In(0, p, 0)
            BY <5>1 DEF Exact, Balance
          <6>2. Load(weight, fg, p) \in Int
            BY <1>4, <1>10, LoadsAre DEF WellFormed, Tree
          <6> QED
            BY <6>1, <6>2 DEF In
        <5> QED
          BY <1>7, <2>1, <3>1, <5>1
      <4> QED
        BY <4>1, <4>2, <4>3
    <3>2. CASE i < Len(t) - 1
      BY <1>12, <3>2
    <3> QED
      BY <1>6, <3>1, <3>2
  <2>4. /\ Exact(fg) => Exact(fg)'
        /\ Moving(fg, a) => Moving(fg, a)'
    BY <2>2, <2>3, BookSame
  <2>5. CASE i = Len(t) - 1
    <3>1. Account(u)'
      BY <1>2, <1>7, <1>8, <1>10, <1>11, <1>15, <2>1, <2>4, <2>5 DEF Account
    <3> QED
      BY <1>13, <3>1 DEF AccountInv, OneUpdater
  <2>6. CASE i < Len(t) - 1
    <3>1. Moving(fg, a) /\ fg[a + 1] = LastOf(t)
      BY <1>6, <1>7, <2>1, <2>6
    <3>2. i = a
      <4>1. r[i + 1] = LastOf(t) /\ i + 1 \in 1 .. Len(r)
        <5>1. i + 1 \in 1 .. Len(t) - 1
          BY <1>6, <2>6
        <5> QED
          BY <1>2, <1>4, <1>5, <1>6, <5>1, RemovedIs DEF Removed, LastOf
      <4>2. a + 1 \in 1 .. Len(r) /\ a \in Nat
        <5>1. a \in Places(r) /\ Len(r) \in Nat
          BY <1>4, <2>1, <3>1, SizeIs DEF Moving
        <5> QED
          BY <5>1 DEF Places
      <4>3. \A j, k \in 1 .. Len(r) : r[j] = r[k] => j = k
        BY <1>4, <2>1 DEF WellFormed, IsInjective
      <4>4. i + 1 = a + 1
        BY <2>1, <3>1, <4>1, <4>2, <4>3
      <4> QED
        BY <1>6, <4>2, <4>4
    <3>3. Moving(fg, a)' /\ q.pc = "move" /\ q.at = a /\ q.rm = 0
      BY <1>11, <2>1, <2>4, <2>6, <3>1, <3>2
    <3>4. adds'[u] = << >>
      BY <1>3, <1>11, <2>6
    <3>5. Account(u)'
      BY <1>2, <1>8, <1>10, <1>11, <1>15, <3>3, <3>4 DEF Account
    <3> QED
      BY <1>13, <3>5 DEF AccountInv, OneUpdater
  <2> QED
    BY <1>6, <2>5, <2>6
<1> QED
  BY <1>14, <1>15

LEMMA MoveLastAccount ==
  ASSUME OneUpdater, IsFiniteSet(Callers), HeldInv, TreeInv, TypeInv, AccountInv,
         NEW u \in Updaters, MoveLast(u)
  PROVE  AccountInv'
<1>1. PICK fg, t, a, e, x, rm, s, q, w, d, b :
        /\ fg = tree[index] /\ t = tree[1 - index] /\ a = update[u].at
        /\ e = Len(t) /\ x = t[a + 1] /\ rm = update[u].rm
        /\ s = update[u].server /\ q = update'[u]
        /\ w = old[x].weight /\ d = old[x].diff /\ b = adds'[u]
  OBVIOUS
<1>2. /\ update[u].pc = "move" /\ adds[u] = << >>
      /\ update' = [update EXCEPT ![u].pc = "applied"]
      /\ UNCHANGED <<tree, index, left, total_weight, call, weight, disabled>>
  BY DEF MoveLast, Doing, treeVars, sumVars, MarkOld, ClearOld
<1>3. /\ WellFormed(t, server_map[1 - index])
      /\ WellFormed(fg, server_map[index])
      /\ Stage(u) /\ Account(u) /\ DebtsInv /\ u \in Threads
      /\ IsFiniteSet(Threads) /\ \A y \in Threads : Short(adds[y])
      /\ \A c \in Callers : c \in Threads \ {u}
      /\ WeightsInv /\ Weighing(weight)
  BY <1>1, ThreadsFinite, NoneAssumption
     DEF HeldInv, TreeInv, AccountInv, DebtsInv, Threads, TypeInv, WeightsInv,
         Weighing
<1>4. /\ update[u].op = "remove" /\ a \in Places(t) /\ s \in Servers
      /\ s \notin ToSet(t) /\ Gone(u) /\ weight[s] = 0 /\ disabled[s] = TRUE
      /\ update[u].phase \in {0, 1}
  <2>1. /\ update[u].op = "remove" /\ a \in Places(t) /\ s \in Servers
        /\ s \notin ToSet(t) /\ Gone(u) /\ update[u].phase \in {0, 1}
    BY <1>1, <1>2, <1>3 DEF Stage, Gone
  <2>2. weight[s] = 0 /\ disabled[s] = TRUE
    BY <1>1, <1>3, <2>1 DEF Account
  <2> QED
    BY <2>1, <2>2
<1>5. /\ a \in Positions /\ e \in Positions /\ x \in Servers /\ rm \in Int
      /\ w \in Int /\ d \in Int /\ weight[x] \in Int /\ e \in Nat
      /\ Tree(t) /\ Tree(fg)
  <2>1. a \in Positions /\ x \in Servers /\ e \in Positions /\ e \in Nat
    BY <1>1, <1>3, <1>4, PlaceIs, SizeIs
  <2>2. rm \in Int
    BY <1>1 DEF TypeInv, NumberInv
  <2> QED
    BY <1>1, <1>3, <2>1, <2>2 DEF WeightsInv, WellFormed, Tree
<1>6. /\ q.pc = "applied" /\ q.op = "remove" /\ q.phase = update[u].phase
      /\ q.at = a /\ q.server = s
  BY <1>1, <1>2, <1>4 DEF HeldInv, UpdateFields
<1>7. ASSUME Short(b), adds' = [adds EXCEPT ![u] = b]
      PROVE  /\ DebtsInv'
             /\ \A p \in Slots : /\ Ledger(p) \in Int
                                 /\ Ledger(p)' = Ledger(p) + Owed(b, p)
  <2>1. total_weight' = total_weight /\ \A p \in Positions : left'[p] = left[p]
    BY <1>2
  <2>2. /\ IsFiniteSet(Threads) /\ \A y \in Threads : Short(adds[y])
        /\ u \in Threads /\ adds[u] = << >>
    BY <1>2, <1>3
  <2>3. /\ \A p \in Slots : /\ Ledger(p) \in Int
                            /\ Ledger(p)' = Ledger(p) + Owed(b, p)
        /\ \A y \in Threads \ {u} : adds'[y] = adds[y]
    BY <1>7, <2>1, <2>2, LedgerSet
  <2>4. \A c \in Callers : adds'[c] = adds[c]
    BY <1>3, <2>3
  <2>5. tree'[index] = tree[index] /\ Short(adds'[u]) /\ UNCHANGED call
        /\ update[u].pc # "readers"
    BY <1>1, <1>2, <1>7
  <2>6. DebtsInv'
    BY <1>3, <2>4, <2>5, DebtsSame
  <2> QED
    BY <2>3, <2>6
<1>8. CASE update[u].phase = 0
  <2>1. /\ Moves(fg, u) /\ x = LastOf(fg) /\ a \in Places(fg) /\ fg[a + 1] = s
        /\ rm # 0 /\ Settled /\ Balance(fg, 0, 0, a, rm)
        /\ t = Removed(fg, s) /\ s \in ToSet(fg)
    BY <1>1, <1>2, <1>3, <1>4, <1>8 DEF Account, Stage, Changed
  <2>2. MarkOld(x, e) /\ adds' = [adds EXCEPT ![u] = UpdateSums(weight[x] - rm, a)]
    BY <1>1, <2>1 DEF MoveLast
  <2>3. b = UpdateSums(weight[x] - rm, a)
    BY <1>1, <1>3, <2>2 DEF TypeInv, NumberInv, Threads
  <2>4. Short(b) /\ \A p \in Slots : Owed(b, p) = In(a, p, weight[x] - rm)
    <3>1. weight[x] - rm \in Int
      BY <1>5
    <3> QED
      BY <1>5, <2>3, <3>1, OwedSums DEF Slots
  <2>5. /\ DebtsInv'
        /\ \A p \in Slots : /\ Ledger(p) \in Int
                            /\ Ledger(p)' = Ledger(p) + Owed(b, p)
    BY <1>7, <2>2, <2>3, <2>4
  <2>6. /\ old'[x].index = e /\ old'[x].diff = 0 /\ old'[x].weight = weight[x]
        /\ \A y \in Servers \ {x} : old'[y].index = None
    BY <1>3, <1>5, <2>1, <2>2 DEF MarkOld, Settled, WeightsInv
  <2>7. ASSUME NEW p \in Slots
        PROVE  Ledger(p)' = Load(weight, t, p) + In(e, p, weight[x]) + In(a, p, 0)
    <3>1. x # s
      BY <1>1, <2>1 DEF Moves
    <3>2. e = Len(fg) - 1
      BY <1>1, <1>3, <2>1, RemovedIs
    <3>3. Load(weight, fg, p) + In(a, p, weight[x])
            = Load(weight, t, p) + In(e, p, weight[x]) + In(a, p, weight[s])
      BY <1>3, <2>1, <3>1, <3>2, LoadRemoved
    <3>4. Load(weight, fg, p) \in Int /\ Load(weight, t, p) \in Int
      BY <1>3, <1>5, LoadsAre
    <3>5. Ledger(p) = Load(weight, fg, p) + In(0, p, 0) + In(a, p, rm)
      BY <2>1 DEF Balance
    <3>6. Ledger(p)' = Ledger(p) + In(a, p, weight[x] - rm)
      BY <2>4, <2>5
    <3>7. /\ In(a, p, weight[x] - rm) = In(a, p, weight[x]) - In(a, p, rm)
          /\ In(a, p, weight[x]) \in Int /\ In(a, p, rm) \in Int
          /\ In(e, p, weight[x]) \in Int
          /\ In(0, p, 0) = 0 /\ In(a, p, 0) = 0
      BY <1>5 DEF In
    <3>8. In(a, p, weight[s]) = 0
      BY <1>4, <3>7
    <3> QED
      BY <3>3, <3>4, <3>5, <3>6, <3>7, <3>8
  <2>8. Balance(t, e, weight[x], a, 0)'
    BY <1>2, <2>7 DEF Balance
  <2>9. Moving(t, a)'
    <3>1. \A y \in Int : -y = 0 - y
      OBVIOUS
    <3>2. -0 = 0 - 0 /\ 0 - 0 = 0 /\ weight[x] + 0 = weight[x]
      <4>1. 0 \in Int /\ 0 - 0 = 0 /\ weight[x] + 0 = weight[x]
        BY <1>5
      <4> QED
        BY <3>1, <4>1, Zenon
    <3>3. -0 = 0
      BY <3>2, Zenon
    <3>4. Balance(t, e, old[x].weight + old[x].diff, a, -old[x].diff)'
      <4>1. PICK c, k : /\ c = old'[x].weight + old'[x].diff
                        /\ k = -old'[x].diff
        OBVIOUS
      <4>2. c = weight[x] /\ k = 0
        BY <2>6, <3>2, <3>3, <4>1, Zenon
      <4>3. \A p \in Slots : Ledger(p)' = Load(weight', t, p) + In(e, p, weight[x])
                                           + In(a, p, 0)
        BY <1>2, <2>7
      <4>4. \A p \in Slots : Ledger(p)' = Load(weight', t, p) + In(e, p, c)
                                           + In(a, p, k)
        BY <4>2, <4>3, Zenon
      <4> QED
        BY <4>1, <4>4, Zenon DEF Balance
    <3>5. t[a + 1] = x /\ Len(t) = e
      BY <1>1
    <3>6. old'[t[a + 1]].index = Len(t)
      BY <2>6, <3>5, Zenon
    <3>7. \A y \in Servers \ {t[a + 1]} : old'[y].index = None
      BY <2>6, <3>5, Zenon
    <3>8. Balance(t, Len(t), old[t[a + 1]].weight + old[t[a + 1]].diff, a,
                  -old[t[a + 1]].diff)'
      BY <3>4, <3>5, Zenon
    <3> QED
      BY <1>4, <3>6, <3>7, <3>8, Zenon DEF Moving
  <2>10. Moves(fg, u)'
    BY <1>1, <1>6, <2>1 DEF Moves
  <2>11. tree'[index'] = fg /\ tree'[1 - index'] = t
    BY <1>1, <1>2
  <2>12. Account(u)'
    BY <1>1, <1>2, <1>4, <1>6, <1>8, <2>1, <2>9, <2>10, <2>11 DEF Account
  <2> QED
    BY <2>5, <2>12 DEF AccountInv, OneUpdater
<1>9. CASE update[u].phase = 1
  <2>1. rm = 0 /\ Moving(t, a) /\ t = fg
    BY <1>1, <1>2, <1>3, <1>9 DEF Account, Stage
  <2>2. PICK v, k : v = -w - d /\ k = -w
    OBVIOUS
  <2>3. /\ ClearOld(x)
        /\ adds' = [adds EXCEPT ![u] = UpdateParentWeight(d, a)
                        \o UpdateParentWeight(v, e) \o UpdateTotal(k)]
    BY <1>1, <2>1, <2>2 DEF MoveLast
  <2>4. /\ b = UpdateParentWeight(d, a) \o UpdateParentWeight(v, e)
                    \o UpdateTotal(k)
        /\ adds' = [adds EXCEPT ![u] = b]
    BY <1>1, <1>3, <2>3 DEF TypeInv, NumberInv, Threads
  <2>5. /\ Short(b)
        /\ \A p \in Slots : Owed(b, p) = IF p = Total THEN k
                                         ELSE In(a, p, d) + In(e, p, v)
    <3>1. v \in Int /\ k \in Int
      BY <1>5, <2>2
    <3>2. \A p \in Slots : p \in Positions \cup {Total}
      BY DEF Slots
    <3>3. ASSUME NEW p \in Slots
          PROVE  /\ Owed(b, p) = IF p = Total THEN k
                                 ELSE In(a, p, d) + In(e, p, v)
                 /\ Short(b)
      <4>1. p \in Positions \cup {Total}
        BY <3>2
      <4>2. b = UpdateParentWeight(d, a) \o UpdateParentWeight(v, e)
                    \o UpdateTotal(k)
        BY <2>4
      <4>3. a \in Positions /\ e \in Positions /\ d \in Int
        BY <1>5
      <4>4. /\ Owed(UpdateParentWeight(d, a) \o UpdateParentWeight(v, e)
                        \o UpdateTotal(k), p)
                  = IF p = Total THEN k ELSE In(a, p, d) + In(e, p, v)
            /\ Short(UpdateParentWeight(d, a) \o UpdateParentWeight(v, e)
                        \o UpdateTotal(k))
        BY <3>1, <4>1, <4>3, OwedMove
      <4> QED
        BY <4>2, <4>4, Zenon
    <3>4. Total \in Slots
      BY DEF Slots
    <3> QED
      BY <3>3, <3>4
  <2>6. /\ DebtsInv'
        /\ \A p \in Slots : /\ Ledger(p) \in Int
                            /\ Ledger(p)' = Ledger(p) + Owed(b, p)
    BY <1>7, <2>4, <2>5
  <2>7. ASSUME NEW p \in Slots
        PROVE  Ledger(p)' = Load(weight, t, p) + In(0, p, 0) + In(0, p, 0)
    <3>1. Ledger(p) = Load(weight, t, p) + In(e, p, w + d) + In(a, p, -d)
      BY <1>1, <2>1 DEF Moving, Balance
    <3>2. Load(weight, t, p) \in Int /\ In(0, p, 0) = 0
      BY <1>3, <1>5, LoadsAre DEF In
    <3>3. CASE p = Total
      <4>1. In(e, p, w + d) = w + d /\ In(a, p, -d) = -d /\ Owed(b, p) = -w
        BY <2>2, <2>5, <3>3 DEF In, Counts
      <4> QED
        BY <1>5, <2>6, <3>1, <3>2, <4>1
    <3>4. CASE p # Total
      <4>1. Owed(b, p) = In(a, p, d) + In(e, p, v)
        BY <2>5, <3>4
      <4>2. /\ In(a, p, -d) = -In(a, p, d) /\ In(e, p, v) = -In(e, p, w + d)
            /\ In(a, p, d) \in Int /\ In(e, p, w + d) \in Int
        BY <1>5, <2>2 DEF In
      <4> QED
        BY <2>6, <3>1, <3>2, <4>1, <4>2
    <3> QED
      BY <3>3, <3>4
  <2>8. Settled'
    <3>1. \A y \in Servers : old'[y].index = None
      BY <1>1, <1>3, <1>5, <2>1, <2>3 DEF ClearOld, Moving, NotOld, WeightsInv
    <3> QED
      BY <3>1 DEF Settled
  <2>9. Exact(fg)'
    BY <1>2, <2>1, <2>7, <2>8 DEF Exact, Balance
  <2>10. tree'[index'] = fg
    BY <1>1, <1>2
  <2>11. Account(u)'
    BY <1>1, <1>2, <1>4, <1>6, <1>9, <2>9, <2>10 DEF Account
  <2> QED
    BY <2>6, <2>11 DEF AccountInv, OneUpdater
<1> QED
  BY <1>4, <1>8, <1>9

-----------------------------------------------------------------------------
(* The sums of the first tree, and of every quiet one *)

(* Equal summands. *)
LEMMA SumConst ==
  ASSUME NEW U, IsFiniteSet(U), NEW f, \A x \in U : f[x] = Scale
  PROVE  Sum(f, U) = Scale * Cardinality(U)
<1> DEFINE T == {s \in SUBSET U : Sum(f, s) = Scale * Cardinality(s)}
<1>1. Scale \in Nat /\ \A x, y \in Nat : x * y \in Nat /\ x * (y + 1) = x * y + x
  BY WeightsAssumption
<1>2. ASSUME NEW s \in SUBSET U, \A x \in s : s \ {x} \in T
      PROVE  Sum(f, s) = Scale * Cardinality(s)
  <2>1. CASE s = {}
    <3>1. Sum(f, s) = 0 /\ Cardinality(s) = 0
      BY <2>1, SumEmpty, FS_EmptySet
    <3> QED
      BY <1>1, <3>1
  <2>2. CASE s # {}
    <3>1. IsFiniteSet(s)
      BY FS_Subset
    <3>2. PICK x \in s : x = First(s) /\ Sum(f, s) = f[x] + Sum(f, s \ {x})
      BY <2>2, <3>1, SumFirst
    <3>3. PICK n, k : n = Cardinality(s) /\ k = Cardinality(s \ {x})
      OBVIOUS
    <3>4. n \in Nat /\ k = n - 1 /\ k \in Nat
      BY <3>1, <3>2, <3>3, FS_RemoveElement, FS_CardinalityType
    <3>5. f[x] = Scale /\ Sum(f, s \ {x}) = Scale * k
      BY <1>2, <3>2, <3>3
    <3>6. n = k + 1 /\ Scale * (k + 1) = Scale * k + Scale /\ Scale * k \in Nat
      BY <1>1, <3>4
    <3> QED
      BY <1>1, <3>2, <3>3, <3>5, <3>6
  <2> QED
    BY <2>1, <2>2
<1>3. \A s \in SUBSET U : (\A x \in s : s \ {x} \in T) => s \in T
  BY <1>2
<1> HIDE DEF T
<1>4. SUBSET U \subseteq T
  BY <1>3, SubsetInduction
<1> QED
  BY <1>4 DEF T

(* A sum of weights in the tree is the sum of what its places load. *)
LEMMA SumOfIs ==
  ASSUME NEW t, NEW S \in SUBSET Places(t), IsFiniteSet(S)
  PROVE  SumOf(t, S) = Sum(Loads(weight, t), S)
<1> DEFINE Other(g) == g = [s \in SUBSET S |->
                    IF s = {} THEN 0
                    ELSE weight[t[First(s) + 1]] + g[s \ {First(s)}]]
           f == Loads(weight, t)
<1>1. SumOf(t, S) = (CHOOSE g : Other(g))[S]
  BY DEF SumOf, MapThenSumSet, MapThenFoldSet, First
<1>2. ASSUME NEW s \in SUBSET S, s # {}
      PROVE  f[First(s)] = weight[t[First(s) + 1]]
  <2>1. First(s) \in Places(t)
    BY <1>2 DEF First
  <2> QED
    BY <2>1 DEF Loads
<1>3. ASSUME NEW g PROVE Other(g) <=> Adds(f, S, g)
  BY <1>2, Zenon DEF Adds, Adding
<1>4. PICK h : h = CHOOSE g : Other(g)
  OBVIOUS
<1>5. Adds(f, S, h)
  <2>1. \E g : Adds(f, S, g)
    BY AddsExists
  <2>2. Other(h)
    BY <1>3, <1>4, <2>1
  <2> QED
    BY <1>3, <2>2
<1>6. PICK g : Adds(f, S, g) /\ Sum(f, S) = g[S]
  BY SumIs
<1>7. g[S] = h[S]
  BY <1>5, <1>6, AddsSame
<1> QED
  BY <1>1, <1>4, <1>6, <1>7

(* Every position counts for the total. *)
LEMMA CountedIs ==
  ASSUME NEW t, Tree(t), NEW p
  PROVE  /\ Counted(Len(t), Total) = Places(t)
         /\ p # Total => Counted(Len(t), p)
                            = {i \in Places(t) : p \in LeftParents(i)}
         /\ IsFiniteSet(Places(t)) /\ Cardinality(Places(t)) = Len(t)
<1>1. Len(t) \in Nat /\ Places(t) = 0 .. Len(t) - 1
  BY DEF Tree, Places
<1>2. IsFiniteSet(Places(t)) /\ Cardinality(Places(t)) = Len(t)
  <2>1. PICK n \in Nat : n = Len(t)
    BY <1>1
  <2>2. n - 1 \in Int /\ 0 \in Int /\ IF 0 > n - 1 THEN n = 0 ELSE (n - 1) - 0 + 1 = n
    OBVIOUS
  <2>3. /\ IsFiniteSet(0 .. n - 1)
        /\ Cardinality(0 .. n - 1) = IF 0 > n - 1 THEN 0 ELSE (n - 1) - 0 + 1
    BY <2>2, FS_Interval
  <2> QED
    BY <1>1, <2>1, <2>2, <2>3
<1> QED
  BY <1>1, <1>2 DEF Counted, Counts

(* The first tree's servers all weigh Scale. *)
LEMMA InitAccount ==
  ASSUME OneUpdater, IsFiniteSet(Callers), Init
  PROVE  AccountInv
<1>1. /\ Start \in Seq(Servers) /\ Tree(Start) /\ Len(Start) \in Nat
      /\ Scale \in Nat
  BY ServersAssumption, WeightsAssumption DEF Tree
<1>2. /\ tree[0] = Start /\ tree[1] = Start /\ index = 0
      /\ total_weight = Scale * Len(Start)
      /\ \A t \in Threads : adds[t] = << >>
      /\ \A u \in Updaters : update[u] = NoUpdate
      /\ \A y \in Servers : old[y].index = None
  BY DEF Init, Threads, NotOld
<1>3. \A p \in Positions :
        left[p] = Scale * Cardinality({i \in Places(Start) : p \in LeftParents(i)})
  BY DEF Init
<1>4. Weighing(weight)
  BY <1>1 DEF Init, Weighing
<1>5. \A i \in Places(Start) : weight[Start[i + 1]] = Scale
  <2> SUFFICES ASSUME NEW i \in Places(Start)
               PROVE  weight[Start[i + 1]] = Scale
    OBVIOUS
  <2>1. i + 1 \in 1 .. Len(Start)
    BY <1>1 DEF Places
  <2>2. Start[i + 1] \in Servers /\ Start[i + 1] \in ToSet(Start)
    BY <1>1, <2>1, Elements
  <2> QED
    BY <2>2 DEF Init
<1>6. ASSUME NEW p \in Slots
      PROVE  Ledger(p) = Load(weight, Start, p) + In(0, p, 0) + In(0, p, 0)
  <2>1. PICK C : C = Counted(Len(Start), p)
    OBVIOUS
  <2>2. IsFiniteSet(C) /\ C \subseteq Places(Start)
        /\ Load(weight, Start, p) \in Int
    BY <1>1, <1>4, <2>1, LoadsAre DEF Places
  <2>3. \A i \in C : Loads(weight, Start)[i] = Scale
    BY <1>5, <2>2 DEF Loads
  <2>4. Load(weight, Start, p) = Scale * Cardinality(C)
    BY <2>1, <2>2, <2>3, SumConst DEF Load
  <2>5. Debt(adds, p) = 0
    BY <1>2, ThreadsFinite, NoDebt
  <2>6. (IF p = Total THEN total_weight ELSE left[p]) = Scale * Cardinality(C)
    <3>1. CASE p = Total
      <4>1. C = Places(Start) /\ Cardinality(Places(Start)) = Len(Start)
        BY <1>1, <2>1, <3>1, CountedIs
      <4> QED
        BY <1>2, <3>1, <4>1
    <3>2. CASE p # Total
      <4>1. C = {i \in Places(Start) : p \in LeftParents(i)}
        BY <1>1, <2>1, <3>2, CountedIs
      <4>2. p \in Positions
        BY <3>2 DEF Slots
      <4> QED
        BY <1>3, <3>2, <4>1, <4>2
    <3> QED
      BY <3>1, <3>2
  <2>7. In(0, p, 0) = 0
    BY DEF In
  <2>8. Ledger(p) = Load(weight, Start, p) + 0
    BY <2>4, <2>5, <2>6 DEF Ledger
  <2> QED
    BY <2>2, <2>7, <2>8
<1>7. Exact(Start)
  BY <1>2, <1>6 DEF Exact, Settled, Balance
<1>8. DebtsInv
  <2>1. \A t \in Threads : Short(adds[t])
    BY <1>2, OwedNone
  <2>2. \A c \in Callers : adds[c] = << >>
    BY <1>2 DEF Threads
  <2> QED
    BY <2>1, <2>2 DEF DebtsInv, CallerOwes
<1>9. ASSUME NEW u \in Updaters PROVE Account(u)
  <2>1. /\ update[u].pc = "idle" /\ update[u].op = "add" /\ adds[u] = << >>
    BY <1>2 DEF NoUpdate, Threads
  <2>2. ~Gone(u)
    BY <2>1 DEF Gone
  <2>3. Exact(tree[index])
    BY <1>2, <1>7
  <2> QED
    BY <2>1, <2>2, <2>3 DEF Account
<1> QED
  BY <1>8, <1>9 DEF AccountInv

(* Every step keeps the accounts, *)
LEMMA NextAccount ==
  ASSUME OneUpdater, IsFiniteSet(Callers), HeldInv, TreeInv, TypeInv, AccountInv,
         \A u \in Updaters : RemovesWeight(u), [Next]_vars
  PROVE  AccountInv'
<1>1. ASSUME NEW c \in Callers, Caller(c) PROVE AccountInv'
  BY <1>1, CallerAccount
<1>2. ASSUME NEW u \in Updaters, Updater(u) PROVE AccountInv'
  <2>1. CASE AddNext(u)
    BY <2>1, AddUpAccount
  <2>2. CASE AddNode(u)
    BY <2>2, AddNodeAccount
  <2>3. CASE RemoveNode(u)
    BY <2>3, RemoveNodeAccount
  <2>4. CASE MoveLast(u)
    BY <2>4, MoveLastAccount
  <2> QED
    BY <1>2, <2>1, <2>2, <2>3, <2>4, PointAccount, RemoveFromNothingNot
       DEF Updater
<1>3. CASE UNCHANGED vars
  <2>1. /\ UNCHANGED <<tree, index, update, weight, disabled, old>>
        /\ UNCHANGED <<adds, call, left, total_weight>>
    BY <1>3 DEF vars, treeVars, weightVars, sumVars
  <2>2. \A p \in Slots : Ledger(p)' = Ledger(p)
    BY <2>1 DEF Ledger
  <2>3. \A u \in Updaters : Account(u)'
    <3> SUFFICES ASSUME NEW u \in Updaters PROVE Account(u)'
      OBVIOUS
    <3>1. Account(u)
      BY DEF AccountInv
    <3>2. update[u].pc # "applied" => adds'[u] = << >>
      BY <2>1, <3>1 DEF Account
    <3> QED
      BY <2>1, <2>2, <3>1, <3>2, AccountSame
  <2>4. DebtsInv'
    BY <2>1 DEF AccountInv, DebtsInv, CallerOwes, Below
  <2> QED
    BY <2>3, <2>4 DEF AccountInv
<1> QED
  BY <1>1, <1>2, <1>3 DEF Next

(* and when nobody has anything to add any more they are the sums. *)
LEMMA AccountsSettle ==
  ASSUME OneUpdater, IsFiniteSet(Callers), HeldInv, TreeInv, TypeInv, AccountInv
  PROVE  SumsSettle
<1> SUFFICES ASSUME Quiet
             PROVE  /\ total_weight = SumOf(tree[index], Places(tree[index]))
                    /\ \A p \in Places(tree[index]) :
                        left[p] = SumOf(tree[index],
                                    {i \in Places(tree[index]) :
                                        p \in LeftParents(i)})
  BY DEF SumsSettle
<1>1. PICK u, t : u \in Updaters /\ Updaters = {u} /\ t = tree[index]
  BY DEF OneUpdater
<1>2. update[u].pc = "idle" /\ adds[u] = << >>
  BY <1>1 DEF Quiet, AccountInv, Account
<1>3. \A c \in Callers : adds[c] = << >>
  BY DEF Quiet, AccountInv, DebtsInv, CallerOwes
<1>4. \A x \in Threads : adds[x] = << >>
  BY <1>1, <1>2, <1>3 DEF Threads
<1>5. Exact(t)
  BY <1>1, <1>2 DEF AccountInv, Account
<1>6. Tree(t) /\ Weighing(weight) /\ WellFormed(t, server_map[index])
  BY <1>1 DEF HeldInv, TreeInv, WellFormed, Tree, TypeInv, WeightsInv, Weighing
<1>7. ASSUME NEW p \in Slots
      PROVE  (IF p = Total THEN total_weight ELSE left[p])
                = SumOf(t, Counted(Len(t), p))
  <2>1. PICK C : C = Counted(Len(t), p)
    OBVIOUS
  <2>2. /\ IsFiniteSet(C) /\ C \subseteq Places(t)
        /\ Load(weight, t, p) \in Int
        /\ Load(weight, t, p) = Sum(Loads(weight, t), C)
    BY <1>6, <2>1, LoadsAre DEF Places, Load
  <2>3. SumOf(t, C) = Load(weight, t, p)
    BY <2>2, SumOfIs
  <2>4. Debt(adds, p) = 0
    BY <1>4, ThreadsFinite, NoDebt
  <2>5. Ledger(p) = Load(weight, t, p)
    <3>1. Ledger(p) = Load(weight, t, p) + In(0, p, 0) + In(0, p, 0)
      BY <1>5 DEF Exact, Balance
    <3>2. In(0, p, 0) = 0
      BY DEF In
    <3> QED
      BY <2>2, <3>1, <3>2
  <2>6. (IF p = Total THEN total_weight ELSE left[p]) \in Int
    BY DEF Slots, TypeInv, NumberInv
  <2>7. Ledger(p) = IF p = Total THEN total_weight ELSE left[p]
    <3>1. Ledger(p) = (IF p = Total THEN total_weight ELSE left[p]) + 0
      BY <2>4 DEF Ledger
    <3> QED
      BY <2>6, <3>1
  <2> QED
    BY <2>1, <2>3, <2>5, <2>7
<1>8. total_weight = SumOf(t, Places(t))
  <2>1. Total \in Slots
    BY DEF Slots
  <2>2. Counted(Len(t), Total) = Places(t)
    BY <1>6, CountedIs
  <2> QED
    BY <1>7, <2>1, <2>2
<1>9. ASSUME NEW p \in Places(t)
      PROVE  left[p] = SumOf(t, {i \in Places(t) : p \in LeftParents(i)})
  <2>1. p \in Positions /\ p # Total
    BY <1>6, PlaceIs, NotAPosition
  <2>2. Counted(Len(t), p) = {i \in Places(t) : p \in LeftParents(i)}
    BY <1>6, <2>1, CountedIs
  <2>3. p \in Slots
    BY <2>1 DEF Slots
  <2> QED
    BY <1>7, <2>1, <2>2, <2>3
<1> QED
  BY <1>1, <1>8, <1>9

(* Whatever callers note, add and load while the two copies are changed one
   after the other, and wherever a moved node stands by then: when everybody
   has returned, each left sum is that of the weights in the left subtree and
   total_weight_ is that of all.  It takes that every server that is removed
   weighs something, for the second pass of Remove is told from the first by
   the weight that the first one found (line 69): that is RemovedWeigh. *)
THEOREM SumsAreRestored ==
  ASSUME OneUpdater, IsFiniteSet(Callers)
  PROVE  Spec /\ []RemovedWeigh => []SumsSettle
<1>1. Spec => [](HeldInv /\ TreeInv /\ TypeInv)
  BY SpecTypes
<1>2. Init => AccountInv
  BY InitAccount
<1>3. HeldInv /\ TreeInv /\ TypeInv /\ AccountInv /\ RemovedWeigh /\ [Next]_vars
        => AccountInv'
  <2> SUFFICES ASSUME HeldInv, TreeInv, TypeInv, AccountInv, RemovedWeigh,
                      [Next]_vars
               PROVE  AccountInv'
    OBVIOUS
  <2>1. \A u \in Updaters : RemovesWeight(u)
    BY DEF RemovedWeigh, RemovesWeight
  <2> QED
    BY <2>1, NextAccount
<1>4. HeldInv /\ TreeInv /\ TypeInv /\ AccountInv => SumsSettle
  BY AccountsSettle
<1> QED
  BY <1>1, <1>2, <1>3, <1>4, PTL DEF Spec
-----------------------------------------------------------------------------
(* What a removed server weighs *)

(* A new server gets a weight: the total that its weight is computed from is
   not so far behind that the quotient is zero. *)
GetsWeight ==
    \A u \in Updaters :
        AddNode(u) /\ update[u].server \notin DOMAIN server_map[index]
            => weight'[update[u].server] # 0
AddedWeigh == [][GetsWeight]_vars

(* The server whose weight an updater has taken away. *)
Disabling(u, s) ==
    /\ update[u].op = "remove" /\ update[u].server = s
    /\ ~(update[u].pc \in {"wait", "apply"} /\ update[u].phase = 0)

(* Every server of a copy weighs something, except the one that is still to be
   removed from the other copy as well; that one is not known any more. *)
AllWeigh(t) ==
    \A s \in ToSet(t) : weight[s] # 0 \/ \E u \in Updaters : Disabling(u, s)
WeighInv ==
    /\ \A b \in {0, 1} : AllWeigh(tree[b])
    /\ \A u \in Updaters : update[u].op = "remove" =>
            update[u].pc # "idle" /\ update[u].server \notin known

LEMMA InitWeigh == HeldInv /\ TreeInv /\ Init => WeighInv
<1> SUFFICES ASSUME HeldInv, TreeInv, Init PROVE WeighInv
  OBVIOUS
<1>1. \A b \in {0, 1} : tree[b] = Start
  BY DEF Init
<1>2. Start \in Seq(Servers) /\ Scale # 0
  BY ServersAssumption, WeightsAssumption
<1>3. \A s \in ToSet(Start) : weight[s] = Scale
  BY <1>2, Elements DEF Init
<1>4. \A u \in Updaters : update[u].op = "add"
  BY DEF Init, NoUpdate
<1> QED
  BY <1>1, <1>2, <1>3, <1>4 DEF WeighInv, AllWeigh

(* No step takes a weight away, except the removal. *)
Keeping == \A s \in Servers : weight[s] # 0 => weight'[s] # 0

LEMMA ResetKeeps ==
  ASSUME TypeInv, NEW s, NEW i, NEW w, ResetWeight(s, i, w),
         w \in Weights \/ w = weight[s]
  PROVE  Keeping
<1>1. weight \in [Servers -> Int] /\ weight' = [weight EXCEPT ![s] = w]
  BY DEF TypeInv, WeightsInv, ResetWeight
<1>2. w \in Weights => w # 0
  BY WeightsAssumption
<1> QED
  BY <1>1, <1>2 DEF Keeping

LEMMA CallerKeeps ==
  ASSUME TypeInv, NEW c \in Callers, Caller(c)
  PROVE  Keeping
<1>1. CASE weight' = weight
  BY <1>1 DEF Keeping
<1>2. CASE AddInflight(c)
  <2>1. PICK s : s = Buffer(c)[call[c].at + 1]
    OBVIOUS
  <2>2. CASE disabled[s]
    BY <1>1, <1>2, <2>1, <2>2 DEF AddInflight, weightVars
  <2>3. CASE ~disabled[s]
    <3>1. PICK w \in Weights : ResetWeight(s, call[c].at, w)
      BY <1>2, <2>1, <2>3 DEF AddInflight
    <3> QED
      BY <3>1, ResetKeeps
  <2> QED
    BY <2>2, <2>3
<1>3. CASE Update(c)
  <2>1. PICK s : s = Buffer(c)[call[c].at + 1]
    OBVIOUS
  <2>2. CASE disabled[s]
    BY <1>1, <1>3, <2>1, <2>2 DEF Update, weightVars
  <2>3. CASE ~disabled[s]
    <3>1. PICK w \in Weights \cup {weight[s]} : ResetWeight(s, call[c].at, w)
      BY <1>3, <2>1, <2>3 DEF Update
    <3> QED
      BY <3>1, ResetKeeps
  <2> QED
    BY <2>2, <2>3
<1>4. CASE \/ BeginSelect(c) \/ Draw(c) \/ LoadLeft(c) \/ LoadSelf(c)
           \/ EndInflight(c) \/ AddNext(c)
           \/ Feedback(c) \/ FindServer(c) \/ EndFeedback(c)
  BY <1>1, <1>4 DEF BeginSelect, Draw, LoadLeft, LoadSelf, EndInflight, AddNext,
                    Feedback, FindServer, EndFeedback, weightVars
<1> QED
  BY <1>2, <1>3, <1>4 DEF Caller

LEMMA SameWeigh ==
  ASSUME TreeInv, HeldInv, WeighInv, Keeping, UNCHANGED <<known, tree, update>>
  PROVE  WeighInv'
<1>1. ASSUME NEW b \in {0, 1} PROVE AllWeigh(tree[b])'
  <2>1. tree[b] \in Seq(Servers) /\ AllWeigh(tree[b])
    BY DEF TreeInv, WellFormed, WeighInv
  <2>2. ToSet(tree[b]) \subseteq Servers
    BY <2>1, Elements
  <2>3. ASSUME NEW s \in ToSet(tree[b]), \E u \in Updaters : Disabling(u, s)
        PROVE  \E u \in Updaters : Disabling(u, s)'
    BY <2>3 DEF Disabling
  <2> QED
    BY <2>1, <2>2, <2>3 DEF AllWeigh, Keeping
<1> QED
  BY <1>1 DEF WeighInv

(* The operation begins. *)
LEMMA ServerWeigh ==
  ASSUME OneUpdater, HeldInv, TreeInv, WeighInv, NEW u \in Updaters,
         NEW s \in Servers, AddServer(u, s) \/ RemoveServer(u, s)
  PROVE  WeighInv'
<1>1. UNCHANGED <<tree, weight>> /\ update[u].pc = "idle" /\ Updaters = {u}
  BY DEF AddServer, RemoveServer, Doing, treeVars, weightVars, OneUpdater
<1>2. PICK op : /\ update' = [update EXCEPT ![u] =
                    [NoUpdate EXCEPT !.pc = "wait", !.op = op, !.server = s]]
                /\ op = "remove" => known' = known \ {s}
  BY DEF AddServer, RemoveServer, NoUpdate
<1>3. /\ update'[u].pc = "wait" /\ update'[u].op = op
      /\ update'[u].server = s
  BY <1>2 DEF NoUpdate, HeldInv
<1>4. \A x : ~Disabling(u, x)
  BY <1>1 DEF WeighInv, Disabling
<1>5. \A b \in {0, 1} : \A x \in ToSet(tree[b]) : weight[x] # 0
  BY <1>1, <1>4 DEF WeighInv, AllWeigh
<1> QED
  BY <1>1, <1>2, <1>3, <1>5 DEF WeighInv, AllWeigh

LEMMA PointWeigh ==
  ASSUME OneUpdater, HeldInv, TreeInv, WeighInv, NEW u \in Updaters,
         BeginModify(u) \/ WaitReaders(u) \/ EndModify(u) \/ Publish(u)
         \/ MoveLast(u)
  PROVE  WeighInv'
<1>1. UNCHANGED <<known, tree, weight>> /\ Updaters = {u}
  BY DEF BeginModify, WaitReaders, EndModify, Publish, MoveLast, MarkOld,
         ClearOld, treeVars, weightVars, OneUpdater
<1>2. /\ DOMAIN update = Updaters /\ DOMAIN update[u] = UpdateFields
      /\ index \in {0, 1} /\ Stage(u)
  BY DEF HeldInv, TreeInv
<1>3. CASE ~EndModify(u)
  <2>1. /\ update'[u].op = update[u].op /\ update'[u].server = update[u].server
        /\ update'[u].pc # "idle"
        /\ ~(update[u].pc \in {"wait", "apply"} /\ update[u].phase = 0)
            => ~(update'[u].pc \in {"wait", "apply"} /\ update'[u].phase = 0)
    <3>1. CASE BeginModify(u)
      BY <1>2, <3>1 DEF BeginModify, Doing, Stage, UpdateFields
    <3>2. CASE WaitReaders(u)
      BY <1>2, <3>2 DEF WaitReaders, Doing, UpdateFields
    <3>3. CASE Publish(u)
      BY <1>2, <3>3 DEF Publish, UpdateFields
    <3>4. CASE MoveLast(u)
      BY <1>2, <3>4 DEF MoveLast, UpdateFields
    <3> QED
      BY <1>3, <3>1, <3>2, <3>3, <3>4
  <2>2. \A s : Disabling(u, s) => Disabling(u, s)'
    BY <2>1 DEF Disabling
  <2>3. ASSUME NEW b \in {0, 1} PROVE AllWeigh(tree[b])'
    <3>1. AllWeigh(tree[b])
      BY DEF WeighInv
    <3> QED
      BY <1>1, <2>2, <3>1 DEF AllWeigh
  <2> QED
    BY <1>1, <2>1, <2>3 DEF WeighInv
<1>4. CASE EndModify(u)
  <2>1. /\ update[u].pc = "applied" /\ update[u].phase = 1
        /\ update'[u] = NoUpdate
    BY <1>2, <1>4 DEF EndModify, Doing
  <2>2. \A b \in {0, 1} : ToSet(tree[b]) = known
    BY <1>2, <2>1 DEF Stage
  <2>3. \A s \in known : ~Disabling(u, s)
    BY DEF WeighInv, Disabling
  <2>4. \A b \in {0, 1} : \A s \in ToSet(tree[b]) : weight[s] # 0
    BY <1>1, <2>2, <2>3 DEF WeighInv, AllWeigh
  <2> QED
    BY <1>1, <2>1, <2>4 DEF WeighInv, AllWeigh, NoUpdate
<1> QED
  BY <1>3, <1>4

(* The server that is added weighs something in the first pass because the
   quotient is not zero, and keeps it in the second. *)
LEMMA AddNodeWeigh ==
  ASSUME OneUpdater, HeldInv, TreeInv, TypeInv, WeighInv, GetsWeight,
         NEW u \in Updaters, AddNode(u)
  PROVE  WeighInv'
<1>1. PICK s, fg, bg : /\ s = update[u].server /\ fg = tree[index]
                       /\ bg = tree[1 - index]
  OBVIOUS
<1>2. /\ update[u].pc = "apply" /\ update[u].op = "add"
      /\ tree' = [tree EXCEPT ![1 - index] = Append(bg, s)]
      /\ update' = [update EXCEPT ![u].pc = "applied"]
      /\ known' = known /\ Updaters = {u}
  BY <1>1 DEF AddNode, Doing, OneUpdater
<1>3. /\ WellFormed(bg, server_map[1 - index])
      /\ WellFormed(fg, server_map[index])
      /\ Stage(u) /\ index \in {0, 1} /\ DOMAIN tree = {0, 1}
      /\ DOMAIN update = Updaters /\ DOMAIN update[u] = UpdateFields
  BY <1>1 DEF TreeInv, HeldInv
<1>4. s \in Servers /\ fg \in Seq(Servers) /\ bg \in Seq(Servers)
  BY <1>1, <1>2, <1>3 DEF Stage, WellFormed
<1>5. /\ ToSet(Append(bg, s)) = ToSet(bg) \cup {s}
      /\ ToSet(fg) \subseteq Servers /\ ToSet(bg) \subseteq Servers
  BY <1>4, AppendIs, Elements
<1>6. /\ \A x \in ToSet(fg) \cup ToSet(bg) : weight[x] # 0
      /\ update'[u].op = "add"
  <2>1. \A x : ~Disabling(u, x)
    BY <1>2 DEF Disabling
  <2>2. AllWeigh(fg) /\ AllWeigh(bg)
    BY <1>1, <1>3 DEF WeighInv
  <2> QED
    BY <1>2, <1>3, <2>1, <2>2 DEF AllWeigh, UpdateFields
<1>7. /\ \A x \in Servers \ {s} : weight'[x] = weight[x]
      /\ weight'[s] # 0
  <2>1. CASE s \notin DOMAIN server_map[index]
    <3>1. PICK w : weight' = [weight EXCEPT ![s] = w]
      BY <1>1, <2>1 DEF AddNode, NewWeight
    <3>2. weight'[s] # 0
      BY <1>1, <2>1 DEF GetsWeight
    <3> QED
      BY <3>1, <3>2 DEF TypeInv, WeightsInv
  <2>2. CASE s \in DOMAIN server_map[index]
    <3>1. weight' = weight
      BY <1>1, <2>2 DEF AddNode, weightVars
    <3>2. s \in ToSet(fg)
      BY <1>3, <2>2 DEF WellFormed
    <3> QED
      BY <1>6, <3>1, <3>2
  <2> QED
    BY <2>1, <2>2
<1>8. \A b \in {0, 1} : ToSet(tree'[b]) \subseteq (ToSet(fg) \cup ToSet(bg)) \cup {s}
  <2>1. ASSUME NEW b \in {0, 1}
        PROVE  tree'[b] = fg \/ tree'[b] = Append(bg, s)
    BY <1>1, <1>2, <1>3, <2>1
  <2> QED
    BY <1>5, <2>1
<1>9. \A b \in {0, 1} : \A x \in ToSet(tree'[b]) : weight'[x] # 0
  <2>1. \A x \in (ToSet(fg) \cup ToSet(bg)) \cup {s} : weight'[x] # 0
    BY <1>4, <1>5, <1>6, <1>7
  <2> QED
    BY <1>8, <2>1
<1> QED
  BY <1>2, <1>6, <1>9 DEF WeighInv, AllWeigh

LEMMA RemoveNodeWeigh ==
  ASSUME OneUpdater, HeldInv, TreeInv, TypeInv, WeighInv,
         NEW u \in Updaters, RemoveNode(u)
  PROVE  WeighInv'
<1>1. PICK t, m, s, i, rm :
        /\ Removing(u, t, m, s, i, rm)
        /\ t = tree[1 - index] /\ m = server_map[1 - index]
        /\ s = update[u].server /\ i = RemovedAt(u)
  BY RemoveNodeIs
<1>2. WellFormed(t, m) /\ Stage(u) /\ index \in {0, 1} /\ Updaters = {u}
  BY <1>1 DEF TreeInv, HeldInv, OneUpdater
<1>3. update[u].pc = "apply" /\ update[u].op = "remove" /\ known' = known
  BY <1>1 DEF Removing, Doing
<1>4. s \in ToSet(t)
  BY <1>1, <1>2, <1>3 DEF Stage, Changed
<1>5. i = m[s] /\ t[i + 1] = s
  BY <1>1, <1>2, <1>4 DEF RemovedAt, WellFormed
<1>6. weight' = [weight EXCEPT ![s] = 0]
  BY <1>1, <1>5 DEF Removing, Disable
<1>7. /\ update'[u].op = "remove" /\ update'[u].server = s
      /\ update'[u].pc \in {"applied", "move"}
  <2>1. DOMAIN update = Updaters /\ DOMAIN update[u] = UpdateFields
    BY DEF HeldInv
  <2>2. \/ update' = [update EXCEPT ![u].pc = "applied"]
        \/ update' = [update EXCEPT ![u] = [@ EXCEPT !.pc = "move", !.at = i,
                                                    !.rm = rm]]
    BY <1>1 DEF Removing
  <2> QED
    BY <1>1, <1>3, <2>1, <2>2 DEF UpdateFields
<1>8. Disabling(u, s)'
  BY <1>7 DEF Disabling
<1>9. \A b \in {0, 1} : ToSet(tree'[b]) \subseteq ToSet(tree[0]) \cup ToSet(tree[1])
  <2>1. /\ DOMAIN tree = {0, 1}
        /\ \E x : /\ tree' = [tree EXCEPT ![1 - index] = x]
                  /\ ToSet(x) \subseteq ToSet(t)
    <3>1. ToSet(Removed(t, s)) = ToSet(t) \ {s} /\ Len(t) \in Nat
      BY <1>2, <1>4, RemovedIs
    <3>2. CASE i = Len(t) - 1
      <4>1. Front(t) = Removed(t, s)
        BY <1>2, <1>4, <1>5, <3>2, RemovedIs
      <4>2. ~(i < Len(t) - 1)
        BY <3>1, <3>2
      <4> QED
        BY <1>1, <3>1, <4>1, <4>2 DEF Removing, HeldInv
    <3>3. CASE i < Len(t) - 1
      <4>1. Front([t EXCEPT ![m[s] + 1] = Last(t)]) = Removed(t, s)
        BY <1>2, <1>4, <1>5, <3>3, RemovedIs
      <4>2. i # Len(t) - 1
        BY <1>5, <3>1, <3>3
      <4> QED
        BY <1>1, <1>5, <3>1, <4>1, <4>2 DEF Removing, HeldInv
    <3> QED
      BY <1>1, <3>2, <3>3 DEF Removing
  <2> QED
    BY <1>1, <1>2, <2>1
<1>10. ASSUME NEW x \in ToSet(tree[0]) \cup ToSet(tree[1])
       PROVE  weight'[x] # 0 \/ \E v \in Updaters : Disabling(v, x)'
  <2>1. CASE x = s
    BY <1>8, <2>1
  <2>2. CASE x # s
    <3>1. ~Disabling(u, x)
      BY <1>1, <2>2 DEF Disabling
    <3>2. weight[x] # 0
      BY <1>2, <3>1 DEF WeighInv, AllWeigh
    <3> QED
      BY <1>6, <2>2, <3>2 DEF TypeInv, WeightsInv
  <2> QED
    BY <2>1, <2>2
<1>11. \A b \in {0, 1} : AllWeigh(tree[b])'
  BY <1>9, <1>10 DEF AllWeigh
<1>12. s \notin known
  BY <1>1, <1>3 DEF WeighInv
<1> QED
  BY <1>2, <1>3, <1>7, <1>11, <1>12 DEF WeighInv

LEMMA NextWeigh ==
  ASSUME OneUpdater, HeldInv, TreeInv, TypeInv, WeighInv,
         [Next]_vars, [GetsWeight]_vars
  PROVE  WeighInv'
<1>1. CASE UNCHANGED vars
  BY <1>1, SameWeigh DEF vars, treeVars, weightVars, Keeping
<1>2. ASSUME NEW c \in Callers, Caller(c) PROVE WeighInv'
  BY <1>2, CallerSteps, CallerKeeps, SameWeigh DEF CallerStep
<1>3. ASSUME NEW u \in Updaters, AddNext(u) PROVE WeighInv'
  BY <1>3, SameWeigh DEF AddNext, treeVars, weightVars, Keeping
<1>4. ASSUME NEW u \in Updaters, AddNode(u) PROVE WeighInv'
  BY <1>1, <1>4, AddNodeWeigh
<1>5. ASSUME NEW u \in Updaters, Updater(u) PROVE WeighInv'
  BY <1>3, <1>4, <1>5, ServerWeigh, PointWeigh, RemoveNodeWeigh,
     RemoveFromNothingNot DEF Updater
<1> QED
  BY <1>1, <1>2, <1>5 DEF Next

(* A server that is removed weighs something, whatever the callers set its
   weight to and however often servers are added and removed, if each server
   got a weight when it was added: it weighs nothing only between its removal
   from the first copy and its removal from the second, and no call of
   AddInflight or Update can make it so. *)
THEOREM ServersWeigh ==
  ASSUME OneUpdater
  PROVE  Spec /\ AddedWeigh => []RemovedWeigh
<1>1. HeldInv /\ TreeInv /\ Init => WeighInv
  BY InitWeigh
<1>2. HeldInv /\ TreeInv /\ TypeInv /\ WeighInv /\ [Next]_vars
      /\ [GetsWeight]_vars => WeighInv'
  BY NextWeigh
<1>3. HeldInv /\ TreeInv /\ WeighInv => RemovedWeigh
  <2> SUFFICES ASSUME HeldInv, TreeInv, WeighInv, NEW u \in Updaters,
                      update[u].pc = "apply", update[u].op = "remove",
                      update[u].phase = 0
               PROVE  weight[update[u].server] # 0
    BY DEF RemovedWeigh
  <2>1. Updaters = {u} /\ index \in {0, 1} /\ Stage(u)
    BY DEF OneUpdater, HeldInv, TreeInv
  <2>2. update[u].server \in ToSet(tree[index])
    BY <2>1 DEF Stage
  <2>3. \A s : ~Disabling(u, s)
    BY DEF Disabling
  <2> QED
    BY <2>1, <2>2, <2>3 DEF WeighInv, AllWeigh
<1>4. Spec => [](HeldInv /\ TreeInv /\ TypeInv)
  BY SpecTypes
<1> QED
  BY <1>1, <1>2, <1>3, <1>4, PTL DEF Spec, AddedWeigh

(* The balancer as a whole: if no server is added with no weight, the sums are
   right whenever everybody has returned. *)
THEOREM SumsOfWeighed ==
  ASSUME OneUpdater, IsFiniteSet(Callers)
  PROVE  Spec /\ AddedWeigh => []SumsSettle
<1>1. Spec /\ AddedWeigh => []RemovedWeigh
  BY ServersWeigh
<1>2. Spec /\ []RemovedWeigh => []SumsSettle
  BY SumsAreRestored
<1> QED
  BY <1>1, <1>2, PTL
=============================================================================
