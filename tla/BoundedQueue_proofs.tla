------------------------- MODULE BoundedQueue_proofs -------------------------
(***************************************************************************)
(* For every capacity up to half of the range of uint32_t, BoundedQueue is *)
(* type correct, keeps objects in exactly the slots of its items, and      *)
(* implements BoundedSequence.                                             *)
(***************************************************************************)
EXTENDS BoundedQueue, SequenceTheorems, TLAPS

IndInv == TypeOK /\ LiveSlots

-----------------------------------------------------------------------------
(* The loop of _mod subtracts the capacity once at most. *)
LEMMA ModValue ==
  ASSUME Fits, NEW off \in 0 .. 2 * Cap - 2
  PROVE  _mod(off) = IF off < Cap THEN off ELSE off - Cap
<1>1. off % Word = off
  BY CapAssumption DEF Fits
<1>2. CASE off < Cap
  BY <1>1, <1>2, CapAssumption DEF _mod
<1>3. CASE off >= Cap
  <2>1. off = (off - Cap) + Cap * 1 /\ off - Cap \in 0 .. Cap - 1
    BY <1>3, CapAssumption
  <2>2. off % Cap = off - Cap
    BY <2>1, CapAssumption
  <2> QED
    BY <1>1, <1>3, <2>2, CapAssumption DEF _mod
<1> QED
  BY <1>2, <1>3, CapAssumption

(* An offset below the capacity leads from each slot to a slot, and two such
   offsets to different ones. *)
LEMMA SlotValue ==
  ASSUME Fits, NEW st \in Slots, NEW j \in 0 .. Cap - 1
  PROVE  /\ _mod(st + j) = IF st + j < Cap THEN st + j ELSE st + j - Cap
         /\ _mod(st + j) \in Slots
<1>1. st + j \in 0 .. 2 * Cap - 2
  BY CapAssumption DEF Slots
<1>2. _mod(st + j) = IF st + j < Cap THEN st + j ELSE st + j - Cap
  BY <1>1, ModValue, CapAssumption DEF Slots
<1> QED
  BY <1>1, <1>2, CapAssumption DEF Slots

LEMMA SlotInjective ==
  ASSUME Fits, NEW st \in Slots,
         NEW i \in 0 .. Cap - 1, NEW j \in 0 .. Cap - 1,
         _mod(st + i) = _mod(st + j)
  PROVE  i = j
<1> HIDE DEF _mod
<1> QED
  BY SlotValue, CapAssumption DEF Slots

(* The slot one further, as pop and elim_push compute it. *)
LEMMA StartMoves ==
  ASSUME Fits, NEW st \in Slots
  PROVE  /\ _mod(st + 1) = IF st + 1 < Cap THEN st + 1 ELSE 0
         /\ _mod(st + 1) \in Slots
<1>1. CASE Cap = 1
  <2>1. st + 1 = 1 /\ 1 % Word = 1 /\ 1 % 1 = 0
    BY <1>1, CapAssumption DEF Slots
  <2> QED
    BY <1>1, <2>1, CapAssumption DEF _mod, Slots
<1>2. CASE Cap > 1
  BY <1>2, SlotValue, CapAssumption DEF Slots
<1> QED
  BY <1>1, <1>2, CapAssumption

(* How far a slot is from the start of the ring. *)
Dist(s, st) == IF s >= st THEN s - st ELSE s - st + Cap

LEMMA Reach ==
  ASSUME Fits, NEW c \in 0 .. Cap, NEW st \in Slots, NEW s \in Slots
  PROVE  (\E j \in 0 .. c - 1 : s = _mod(st + j)) <=> Dist(s, st) < c
<1>1. \A j \in 0 .. c - 1 : s = _mod(st + j) => Dist(s, st) = j
  <2> TAKE j \in 0 .. c - 1
  <2>1. j \in 0 .. Cap - 1
    BY CapAssumption
  <2>2. _mod(st + j) = IF st + j < Cap THEN st + j ELSE st + j - Cap
    BY <2>1, SlotValue
  <2> QED
    BY <2>1, <2>2, CapAssumption DEF Slots, Dist
<1>2. /\ Dist(s, st) \in 0 .. Cap - 1
      /\ s = _mod(st + Dist(s, st))
  <2>1. Dist(s, st) \in 0 .. Cap - 1
    BY CapAssumption DEF Slots, Dist
  <2>2. _mod(st + Dist(s, st)) =
           IF st + Dist(s, st) < Cap THEN st + Dist(s, st)
           ELSE st + Dist(s, st) - Cap
    BY <2>1, SlotValue
  <2> QED
    BY <2>1, <2>2, CapAssumption DEF Slots, Dist
<1> QED
  BY <1>1, <1>2, CapAssumption

-----------------------------------------------------------------------------
(* The invariant: types, and objects in the slots in use and no others. *)
LEMMA LiveByDist ==
  ASSUME Fits, TypeOK
  PROVE  LiveSlots <=> \A s \in Slots : items[s] # Raw <=> Dist(s, start) < count
<1> USE DEF TypeOK, LiveSlots, InUse
<1>1. \A s \in Slots : InUse(s) <=> Dist(s, start) < count
  BY Reach
<1> QED
  BY <1>1

LEMMA IndInit == Fits /\ Init => IndInv
<1> SUFFICES ASSUME Fits, Init PROVE IndInv
  OBVIOUS
<1>1. TypeOK
  BY CapAssumption DEF Init, TypeOK, Slots
<1>2. LiveSlots
  BY CapAssumption DEF Init, LiveSlots, InUse
<1> QED
  BY <1>1, <1>2 DEF IndInv

(* What a store into the ring does to the invariant: the slots in use
   afterwards are those in use before, and the new one. *)
LEMMA IndStep == Fits /\ IndInv /\ [Next]_vars => IndInv'
<1> SUFFICES ASSUME Fits, IndInv, [Next]_vars PROVE IndInv'
  OBVIOUS
<1> USE CapAssumption, RawAssumption
<1> DEFINE Live(it, st, c) ==
             \A s \in Slots : it[s] # Raw <=> Dist(s, st) < c
           Good(it, st, c) ==
             /\ c \in 0 .. Cap /\ st \in Slots
             /\ it \in [Slots -> Items \cup {Raw}]
             /\ Live(it, st, c)
<1>1. Good(items, start, count) /\ ret \in Items \cup {Null, TRUE, FALSE}
  <2>1. TypeOK /\ LiveSlots
    BY DEF IndInv
  <2> QED
    BY <2>1, LiveByDist DEF TypeOK
<1>2. SUFFICES /\ Good(items', start', count')
               /\ ret' \in Items \cup {Null, TRUE, FALSE}
  <2>1. ASSUME NEW s \in Slots, Good(items', start', count')
        PROVE  InUse(s)' <=> Dist(s, start') < count'
    BY <2>1, Reach DEF InUse
  <2>2. ASSUME Good(items', start', count')
        PROVE  LiveSlots'
    BY <2>1, <2>2 DEF LiveSlots
  <2> HIDE DEF Live
  <2> QED
    BY <2>2 DEF IndInv, TypeOK
<1> USE DEF Dist, Slots
<1>3. ASSUME NEW x \in Items, PushRoom(x)
      PROVE  Good(items', start', count')
  <2>1. count < Cap /\ count' = count + 1 /\ start' = start
        /\ items' = [items EXCEPT ![_mod(start + count)] = x]
    BY <1>3 DEF PushRoom, HasRoom, Store
  <2>2. _mod(start + count) = IF start + count < Cap
                              THEN start + count ELSE start + count - Cap
    BY <1>1, <2>1, SlotValue
  <2> QED
    BY <1>1, <2>1, <2>2
<1>4. ASSUME NEW x \in Items, ElimPush(x), ~PushRoom(x) 
      PROVE  Good(items', start', count')
  <2>1. count = Cap /\ count' = count /\ start' = _mod(start + 1)
        /\ items' = [items EXCEPT ![start] = x]
    BY <1>1, <1>4 DEF ElimPush, HasRoom, Store
  <2>2. start' \in Slots
    BY <1>1, <2>1, StartMoves
  <2> QED
    BY <1>1, <2>1, <2>2
<1>5. ASSUME NEW x \in Items, PushTop(x), HasRoom
      PROVE  Good(items', start', count')
  <2>1. /\ count < Cap /\ count' = count + 1
        /\ start' = IF start # 0 THEN start - 1 ELSE Cap - 1
        /\ items' = [items EXCEPT ![start'] = x]
    BY <1>5 DEF PushTop, HasRoom, Store
  <2>2. start' \in Slots /\ count' \in 0 .. Cap
    BY <1>1, <2>1
  <2>3. ASSUME NEW s \in Slots
        PROVE  items'[s] # Raw <=> Dist(s, start') < count'
    <3>1. CASE s = start'
      BY <1>1, <2>1, <2>2, <3>1
    <3>2. CASE s # start'
      <4>1. Dist(s, start') = Dist(s, start) + 1
        BY <1>1, <2>1, <2>2, <3>2
      <4> QED
        BY <1>1, <2>1, <2>2, <3>2, <4>1
    <3> QED
      BY <3>1, <3>2
  <2> QED
    BY <1>1, <2>1, <2>2, <2>3
<1>6. ASSUME Pop, count # 0
      PROVE  Good(items', start', count') /\ ret' \in Items
  <2>1. count' = count - 1 /\ start' = _mod(start + 1)
        /\ items' = [items EXCEPT ![start] = Raw] /\ ret' = items[start]
    BY <1>6 DEF Pop, Destroy
  <2>2. start' = IF start + 1 < Cap THEN start + 1 ELSE 0
    BY <1>1, <2>1, StartMoves
  <2> QED
    BY <1>1, <1>6, <2>1, <2>2
<1>7. ASSUME PopBottom, count # 0
      PROVE  Good(items', start', count') /\ ret' \in Items
  <2> DEFINE b == _mod(start + count')
  <2>1. count' = count - 1 /\ start' = start
        /\ items' = [items EXCEPT ![b] = Raw] /\ ret' = items[b]
    BY <1>7 DEF PopBottom, Destroy
  <2>2. count' \in 0 .. Cap - 1
    BY <1>1, <1>7, <2>1
  <2>3. b = IF start + count' < Cap
            THEN start + count' ELSE start + count' - Cap
    BY <1>1, <2>2, SlotValue
  <2> HIDE DEF b
  <2> QED
    BY <1>1, <1>7, <2>1, <2>2, <2>3
<1>8. ASSUME Clear PROVE Good(items', start', count')
  <2>1. /\ count' = 0 /\ start' = 0
        /\ items' = [s \in Slots |->
                        IF \E i \in 0 .. count - 1 : s = _mod(start + i)
                        THEN Raw ELSE items[s]]
    BY <1>8 DEF Clear
  <2>2. \A s \in Slots :
           (\E j \in 0 .. count - 1 : s = _mod(start + j)) <=> items[s] # Raw
    BY <1>1, Reach
  <2>3. items' = [s \in Slots |-> Raw]
    BY <2>1, <2>2
  <2> QED
    BY <2>1, <2>3
<1>9. ASSUME NEW r, Refuse(r) PROVE Good(items', start', count') /\ ret' = r
  BY <1>1, <1>9 DEF Refuse
<1>10. ASSUME NEW x \in Items, Push(x) \/ ElimPush(x) \/ PushTop(x)
       PROVE  /\ Good(items', start', count')
              /\ ret' \in Items \cup {Null, TRUE, FALSE}
  BY <1>3, <1>4, <1>5, <1>9, <1>10 DEF Push, ElimPush, PushTop
<1>11. ASSUME Pop \/ PopBottom \/ Clear
       PROVE  /\ Good(items', start', count')
              /\ ret' \in Items \cup {Null, TRUE, FALSE}
  BY <1>6, <1>7, <1>8, <1>9, <1>11 DEF Pop, PopBottom, Clear
<1>12. ASSUME NEW i \in 0 .. Cap, Top(i) \/ Bottom(i)
       PROVE  /\ Good(items', start', count')
              /\ ret' \in Items \cup {Null, TRUE, FALSE}
  <2>1. ASSUME NEW j \in 0 .. Cap - 1, j < count
        PROVE  items[_mod(start + j)] \in Items
    <3>1. _mod(start + j) \in Slots /\ Dist(_mod(start + j), start) = j
      BY <1>1, SlotValue
    <3> QED
      BY <1>1, <2>1, <3>1
  <2>2. CASE Top(i)
    <3>1. CASE i < count
      <4>1. i \in 0 .. Cap - 1
        BY <1>1, <3>1
      <4>2. ret' = items[_mod(start + i)]
        BY <2>2, <3>1 DEF Top, Refuse
      <4> QED
        BY <1>1, <1>9, <2>1, <2>2, <3>1, <4>1, <4>2 DEF Top, Refuse
    <3>2. CASE ~(i < count)
      BY <1>1, <1>9, <2>2, <3>2 DEF Top, Refuse
    <3> QED
      BY <3>1, <3>2
  <2>3. CASE Bottom(i)
    <3>1. CASE i < count
      <4> DEFINE j == count - i - 1
      <4>1. j \in 0 .. Cap - 1 /\ j < count
            /\ start + count - i - 1 = start + j
        BY <1>1, <3>1
      <4>2. ret' = items[_mod(start + j)]
        BY <2>3, <3>1, <4>1 DEF Bottom, Refuse
      <4> HIDE DEF j
      <4> QED
        BY <1>1, <1>9, <2>1, <2>3, <4>1, <4>2 DEF Bottom, Refuse
    <3>2. CASE ~(i < count)
      BY <1>1, <1>9, <2>3, <3>2 DEF Bottom, Refuse
    <3> QED
      BY <3>1, <3>2
  <2> QED
    BY <1>12, <2>2, <2>3
<1> QED
  BY <1>1, <1>10, <1>11, <1>12 DEF Next, vars

(* Under Fits, every variable keeps its type. *)
THEOREM TypeCorrect == ASSUME Fits PROVE Spec => []TypeOK
<1>1. Init => IndInv
  BY IndInit
<1>2. IndInv /\ [Next]_vars => IndInv'
  BY IndStep
<1>3. IndInv => TypeOK
  BY DEF IndInv
<1> QED
  BY <1>1, <1>2, <1>3, PTL DEF Spec

(* Under Fits, objects live in exactly the slots of the queue's items: pop,
   elim_push and clear leak none and destroy none twice. *)
THEOREM SlotsAreLive == ASSUME Fits PROVE Spec => []LiveSlots
<1>1. Init => IndInv
  BY IndInit
<1>2. IndInv /\ [Next]_vars => IndInv'
  BY IndStep
<1>3. IndInv => LiveSlots
  BY DEF IndInv
<1> QED
  BY <1>1, <1>2, <1>3, PTL DEF Spec

-----------------------------------------------------------------------------
(* The refinement.  The ring read from its start is a sequence of items. *)
Pos(st, j) == IF st + j < Cap THEN st + j ELSE st + j - Cap

Ring(it, st, c) == [j \in 1 .. c |-> it[_mod(st + j - 1)]]

LEMMA RingIsSeq ==
  ASSUME Fits, NEW c \in 0 .. Cap, NEW st \in Slots,
         NEW it \in [Slots -> Items \cup {Raw}],
         \A s \in Slots : it[s] # Raw <=> Dist(s, st) < c
  PROVE  /\ Ring(it, st, c) \in Seq(Items) /\ Len(Ring(it, st, c)) = c
         /\ \A j \in 1 .. c : Ring(it, st, c)[j] = it[Pos(st, j - 1)]
<1> USE CapAssumption
<1> DEFINE r == Ring(it, st, c)
<1>0. r = [j \in 1 .. c |-> it[_mod(st + j - 1)]]
  BY DEF Ring
<1> HIDE DEF r
<1>1. ASSUME NEW j \in 1 .. c
      PROVE  r[j] = it[Pos(st, j - 1)] /\ r[j] \in Items
  <2>1. j - 1 \in 0 .. Cap - 1 /\ st + j - 1 = st + (j - 1)
    BY DEF Slots
  <2>2. _mod(st + (j - 1)) = Pos(st, j - 1) /\ Pos(st, j - 1) \in Slots
    BY <2>1, SlotValue DEF Pos
  <2>3. Dist(Pos(st, j - 1), st) = j - 1
    BY <2>1 DEF Pos, Dist, Slots
  <2>4. it[Pos(st, j - 1)] \in Items
    BY <2>2, <2>3
  <2> QED
    BY <1>0, <2>1, <2>2, <2>4
<1>2. r \in [1 .. c -> Items]
  BY <1>0, <1>1
<1>3. r \in Seq(Items) /\ Len(r) = c
  BY <1>2, SeqDef
<1> QED
  BY <1>1, <1>3 DEF r

LEMMA RefInit == ASSUME Init PROVE BoundedSeq!Init
  BY DEF Init, BoundedSeq!Init, queue

LEMMA RefStep ==
  ASSUME Fits, IndInv, [Next]_vars
  PROVE  [BoundedSeq!Next]_(BoundedSeq!vars)
<1> USE CapAssumption, RawAssumption
<1>1. IndInv'
  BY IndStep
<1>2. /\ count \in 0 .. Cap /\ start \in Slots
      /\ items \in [Slots -> Items \cup {Raw}]
  BY DEF IndInv, TypeOK
<1>3. /\ count' \in 0 .. Cap /\ start' \in Slots
      /\ items' \in [Slots -> Items \cup {Raw}]
  BY <1>1 DEF IndInv, TypeOK
<1>4. /\ queue \in Seq(Items) /\ Len(queue) = count
      /\ \A j \in 1 .. count : queue[j] = items[Pos(start, j - 1)]
  <2>1. \A s \in Slots : items[s] # Raw <=> Dist(s, start) < count
    BY LiveByDist DEF IndInv
  <2>2. queue = Ring(items, start, count)
    BY DEF queue, Ring
  <2> QED
    BY <1>2, <2>1, <2>2, RingIsSeq
<1>5. /\ queue' \in Seq(Items) /\ Len(queue') = count'
      /\ \A j \in 1 .. count' : queue'[j] = items'[Pos(start', j - 1)]
  <2>1. \A s \in Slots : items'[s] # Raw <=> Dist(s, start') < count'
    <3>1. ASSUME NEW s \in Slots
          PROVE  InUse(s)' <=> Dist(s, start') < count'
      <4>1. (\E j \in 0 .. count' - 1 : s = _mod(start' + j))
                <=> Dist(s, start') < count'
        BY <1>3, Reach
      <4> QED
        BY <4>1 DEF InUse, _mod
    <3>2. \A s \in Slots : items'[s] # Raw <=> InUse(s)'
      BY <1>1 DEF IndInv, LiveSlots
    <3> QED
      BY <3>1, <3>2
  <2>2. queue' = Ring(items', start', count')
    BY DEF queue, Ring
  <2> QED
    BY <1>3, <2>1, <2>2, RingIsSeq
<1>6. ASSUME NEW q \in Seq(Items), Len(q) = count',
             \A j \in 1 .. count' : q[j] = items'[Pos(start', j - 1)]
      PROVE  queue' = q
  BY <1>5, <1>6, SeqEqual
<1> HIDE DEF queue
<1> USE DEF Pos, Slots
<1>7. ASSUME NEW x \in Items, PushRoom(x)
      PROVE  count < Cap /\ queue' = Append(queue, x)
  <2>1. /\ count < Cap /\ count' = count + 1 /\ start' = start
        /\ items' = [items EXCEPT ![_mod(start + count)] = x]
    BY <1>7 DEF PushRoom, HasRoom, Store
  <2>2. _mod(start + count) = Pos(start, count)
    BY <1>2, <2>1, SlotValue
  <2>3. /\ Append(queue, x) \in Seq(Items)
        /\ Len(Append(queue, x)) = count + 1
        /\ \A j \in 1 .. count : Append(queue, x)[j] = queue[j]
        /\ Append(queue, x)[count + 1] = x
    BY <1>4, AppendProperties
  <2>4. \A j \in 1 .. count' :
           Append(queue, x)[j] = items'[Pos(start', j - 1)]
    BY <1>2, <1>4, <2>1, <2>2, <2>3
  <2> QED
    BY <1>6, <2>1, <2>3, <2>4
<1>8. ASSUME NEW x \in Items, ElimPush(x), ~HasRoom
      PROVE  /\ ~(count < Cap) /\ queue' = Append(Tail(queue), x)
             /\ ret' = Null
  <2>1. /\ count = Cap /\ count' = count /\ start' = _mod(start + 1)
        /\ items' = [items EXCEPT ![start] = x] /\ ret' = Null
    BY <1>2, <1>8 DEF ElimPush, PushRoom, HasRoom, Store
  <2>2. start' = IF start + 1 < Cap THEN start + 1 ELSE 0
    BY <1>2, <2>1, StartMoves
  <2>3. /\ Tail(queue) \in Seq(Items) /\ Len(Tail(queue)) = Cap - 1
        /\ \A j \in 1 .. Cap - 1 : Tail(queue)[j] = queue[j + 1]
    BY <1>2, <1>4, <2>1, HeadTailProperties, EmptySeq
  <2> DEFINE t == Tail(queue)
  <2> HIDE DEF t
  <2>4. /\ Append(t, x) \in Seq(Items) /\ Len(Append(t, x)) = Cap
        /\ \A j \in 1 .. Cap - 1 : Append(t, x)[j] = t[j]
        /\ Append(t, x)[Cap] = x
    BY <2>3, AppendProperties DEF t
  <2>5. \A j \in 1 .. Cap - 1 : Append(t, x)[j] = items'[Pos(start', j - 1)]
    <3>1. \A j \in 1 .. Cap - 1 :
             /\ Pos(start', j - 1) = Pos(start, j)
             /\ Pos(start', j - 1) # start
             /\ Pos(start', j - 1) \in Slots
      BY <1>2, <2>2
    <3>2. \A j \in 1 .. Cap - 1 : t[j] = items[Pos(start, j)]
      <4> TAKE j \in 1 .. Cap - 1
      <4>1. j + 1 \in 1 .. count /\ (j + 1) - 1 = j
        BY <2>1
      <4> QED
        BY <1>4, <2>3, <4>1 DEF t
    <3> QED
      BY <1>2, <2>1, <2>4, <3>1, <3>2
  <2>6. Pos(start', Cap - 1) = start /\ items'[start] = x
    BY <1>2, <2>1, <2>2
  <2>7. \A j \in 1 .. count' : Append(t, x)[j] = items'[Pos(start', j - 1)]
    BY <2>1, <2>4, <2>5, <2>6
  <2>8. queue' = Append(t, x)
    BY <1>6, <2>1, <2>4, <2>7
  <2> QED
    BY <2>1, <2>8 DEF t
<1>9. ASSUME NEW x \in Items, PushTop(x), HasRoom
      PROVE  /\ count < Cap /\ queue' = <<x>> \o queue
             /\ ret' = TRUE
  <2>1. /\ count < Cap /\ count' = count + 1 /\ ret' = TRUE
        /\ start' = IF start # 0 THEN start - 1 ELSE Cap - 1
        /\ items' = [items EXCEPT ![start'] = x]
    BY <1>9 DEF PushTop, HasRoom, Store
  <2>2. <<x>> \in Seq(Items) /\ Len(<<x>>) = 1 /\ <<x>>[1] = x
    OBVIOUS
  <2> DEFINE q == <<x>> \o queue
  <2>3. /\ q \in Seq(Items) /\ Len(q) = 1 + count
        /\ \A j \in 1 .. 1 + count :
              q[j] = IF j <= 1 THEN <<x>>[j] ELSE queue[j - 1]
    BY <1>4, <2>2, ConcatProperties
  <2> HIDE DEF q
  <2>4. \A j \in 2 .. count' :
           /\ Pos(start', j - 1) = Pos(start, j - 2)
           /\ Pos(start', j - 1) # start'
           /\ Pos(start', j - 1) \in Slots
    BY <1>2, <2>1
  <2>5. \A j \in 2 .. count' : q[j] = items'[Pos(start', j - 1)]
    BY <1>2, <1>4, <2>1, <2>3, <2>4
  <2>6. q[1] = items'[Pos(start', 0)]
    BY <1>2, <1>3, <2>1, <2>2, <2>3
  <2>7. \A j \in 1 .. count' : q[j] = items'[Pos(start', j - 1)]
    BY <1>2, <2>1, <2>5, <2>6
  <2>8. queue' = q
    BY <1>2, <1>6, <2>1, <2>3, <2>7
  <2> QED
    BY <2>1, <2>8 DEF q
<1>10. ASSUME Pop, count # 0
       PROVE  /\ queue # << >> /\ queue' = Tail(queue)
              /\ ret' = Head(queue)
  <2>1. /\ count' = count - 1 /\ start' = _mod(start + 1)
        /\ items' = [items EXCEPT ![start] = Raw] /\ ret' = items[start]
    BY <1>10 DEF Pop, Destroy
  <2>2. start' = IF start + 1 < Cap THEN start + 1 ELSE 0
    BY <1>2, <2>1, StartMoves
  <2>3. queue # << >> /\ Head(queue) = queue[1]
    BY <1>4, <1>10, EmptySeq
  <2> DEFINE q == Tail(queue)
  <2>4. /\ q \in Seq(Items) /\ Len(q) = count - 1
        /\ \A j \in 1 .. count - 1 : q[j] = queue[j + 1]
    BY <1>2, <1>4, <2>3, HeadTailProperties
  <2> HIDE DEF q
  <2>5. \A j \in 1 .. count' :
           /\ Pos(start', j - 1) = Pos(start, j)
           /\ Pos(start', j - 1) # start
           /\ Pos(start', j - 1) \in Slots
    BY <1>2, <1>10, <2>1, <2>2
  <2>6. \A j \in 1 .. count' : q[j] = items'[Pos(start', j - 1)]
    BY <1>2, <1>4, <2>1, <2>4, <2>5
  <2>7. ret' = queue[1]
    BY <1>2, <1>4, <1>10, <2>1
  <2> QED
    BY <1>6, <2>1, <2>3, <2>4, <2>6, <2>7 DEF q
<1>11. ASSUME PopBottom, count # 0
       PROVE  /\ queue # << >> /\ ret' = queue[Len(queue)]
              /\ queue' = SubSeq(queue, 1, Len(queue) - 1)
  <2> DEFINE b == _mod(start + count')
  <2>1. /\ count' = count - 1 /\ start' = start
        /\ items' = [items EXCEPT ![b] = Raw] /\ ret' = items[b]
    BY <1>11 DEF PopBottom, Destroy
  <2>2. count' \in 0 .. Cap - 1
    BY <1>2, <1>11, <2>1
  <2>3. b = Pos(start, count')
    BY <1>2, <2>2, SlotValue
  <2> HIDE DEF b
  <2>4. queue # << >>
    BY <1>4, <1>11, EmptySeq
  <2> DEFINE q == SubSeq(queue, 1, count - 1)
  <2>5. \A j \in 1 .. count - 1 : queue[j] \in Items
    BY <1>2, <1>4, ElementOfSeq
  <2>6. /\ q \in Seq(Items) /\ Len(q) = count - 1
        /\ \A j \in 1 .. count - 1 : q[j] = queue[j]
    BY <1>2, <1>11, <2>5, SubSeqProperties
  <2> HIDE DEF q
  <2>7. \A j \in 1 .. count' : q[j] = items'[Pos(start', j - 1)]
    BY <1>2, <1>4, <2>1, <2>2, <2>3, <2>6
  <2>8. ret' = queue[count]
    BY <1>2, <1>4, <1>11, <2>1, <2>2, <2>3
  <2> QED
    BY <1>4, <1>6, <2>1, <2>4, <2>6, <2>7, <2>8 DEF q
<1>12. ASSUME Clear PROVE queue' = << >> /\ ret' = Null
  <2>1. count' = 0 /\ ret' = Null
    BY <1>12 DEF Clear
  <2> QED
    BY <1>5, <2>1, EmptySeq
<1>13. ASSUME NEW r, Refuse(r) PROVE queue' = queue /\ ret' = r
  BY <1>13 DEF Refuse, queue
<1> USE DEF BoundedSeq!Becomes, BoundedSeq!HasRoom
<1>14. ASSUME NEW x \in Items, Push(x) PROVE BoundedSeq!Push(x)
  BY <1>4, <1>7, <1>13, <1>14 DEF Push, HasRoom, BoundedSeq!Push
<1>15. ASSUME NEW x \in Items, ElimPush(x) PROVE BoundedSeq!ElimPush(x)
  <2>1. CASE HasRoom
    BY <1>4, <1>7, <1>15, <2>1 DEF ElimPush, HasRoom, BoundedSeq!ElimPush
  <2>2. CASE ~HasRoom
    BY <1>4, <1>8, <1>15, <2>2 DEF BoundedSeq!ElimPush
  <2> QED
    BY <2>1, <2>2
<1>16. ASSUME NEW x \in Items, PushTop(x) PROVE BoundedSeq!PushTop(x)
  BY <1>4, <1>9, <1>13, <1>16 DEF PushTop, HasRoom, BoundedSeq!PushTop
<1>17. count = 0 => queue = << >>
  BY <1>4, EmptySeq
<1>18. ASSUME Pop PROVE BoundedSeq!Pop
  BY <1>10, <1>13, <1>17, <1>18 DEF Pop, BoundedSeq!Pop
<1>19. ASSUME PopBottom PROVE BoundedSeq!PopBottom
  BY <1>11, <1>13, <1>17, <1>19 DEF PopBottom, BoundedSeq!PopBottom
<1>20. ASSUME Clear PROVE BoundedSeq!Clear
  BY <1>12, <1>20 DEF BoundedSeq!Clear
<1>21. ASSUME NEW i \in 0 .. Cap, Top(i) PROVE BoundedSeq!Top(i)
  <2>1. CASE i < count
    <3>1. i + 1 \in 1 .. count /\ (i + 1) - 1 = i /\ i \in 0 .. Cap - 1
      BY <1>2, <2>1
    <3>2. _mod(start + i) = Pos(start, i)
      BY <1>2, <3>1, SlotValue
    <3> QED
      BY <1>4, <1>13, <1>21, <2>1, <3>1, <3>2 DEF Top, BoundedSeq!Top
  <2>2. CASE ~(i < count)
    BY <1>4, <1>13, <1>21, <2>2 DEF Top, BoundedSeq!Top
  <2> QED
    BY <2>1, <2>2
<1>22. ASSUME NEW i \in 0 .. Cap, Bottom(i) PROVE BoundedSeq!Bottom(i)
  <2>1. CASE i < count
    <3> DEFINE k == count - i - 1
    <3>1. /\ count - i \in 1 .. count /\ (count - i) - 1 = k
          /\ k \in 0 .. Cap - 1 /\ start + count - i - 1 = start + k
      BY <1>2, <2>1
    <3> HIDE DEF k
    <3>2. _mod(start + k) = Pos(start, k)
      BY <1>2, <3>1, SlotValue
    <3>3. queue[count - i] = items[_mod(start + count - i - 1)]
      BY <1>4, <3>1, <3>2
    <3> QED
      BY <1>4, <1>13, <1>22, <2>1, <3>3 DEF Bottom, BoundedSeq!Bottom
  <2>2. CASE ~(i < count)
    BY <1>4, <1>13, <1>22, <2>2 DEF Bottom, BoundedSeq!Bottom
  <2> QED
    BY <2>1, <2>2
<1>23. CASE UNCHANGED vars
  BY <1>23 DEF vars, queue, BoundedSeq!vars
<1>24. CASE Next
  BY <1>14, <1>15, <1>16, <1>18, <1>19, <1>20, <1>21, <1>22, <1>24
     DEF Next, BoundedSeq!Next
<1> QED
  BY <1>23, <1>24

(* Under Fits, BoundedQueue implements a bounded sequence: the ring, its
   wrapping in both directions and the life of its slots do not show. *)
THEOREM Refinement == ASSUME Fits PROVE Spec => ImplementsSequence
<1>1. Init => IndInv
  BY IndInit
<1>2. IndInv /\ [Next]_vars => IndInv'
  BY IndStep
<1>3. Init => BoundedSeq!Init
  BY RefInit
<1>4. IndInv /\ [Next]_vars => [BoundedSeq!Next]_(BoundedSeq!vars)
  BY RefStep
<1> QED
  BY <1>1, <1>2, <1>3, <1>4, PTL
     DEF Spec, ImplementsSequence, BoundedSeq!Spec
=============================================================================
