-------------------------- MODULE Processor_proofs --------------------------
(***************************************************************************)
(* Proofs about Processor, for every number of blocks, creators and        *)
(* descriptors: its types; that the main loop drains a queue that no       *)
(* creator is pushing to; that each block of the pool is in one place and  *)
(* goes through the stages of CoroutineLife; that what waits for the loop  *)
(* will wake it; and that a coroutine is resumed for what it waits for.    *)
(***************************************************************************)
EXTENDS Processor, SequenceTheorems, FiniteSetTheorems, TLAPS

-----------------------------------------------------------------------------
(* Sequences that the loop builds stay sequences of blocks. *)
LEMMA TailType ==
  ASSUME NEW S, NEW s \in Seq(S), s # << >>
  PROVE  Head(s) \in S /\ Tail(s) \in Seq(S)
  BY HeadTailProperties

LEMMA PushFrontType ==
  ASSUME NEW S, NEW s \in Seq(S), NEW x \in S
  PROVE  <<x>> \o s \in Seq(S)
<1>1. <<x>> \in Seq(S)
  OBVIOUS
<1> QED
  BY <1>1, ConcatProperties

LEMMA InsertAtType ==
  ASSUME NEW S, NEW s \in Seq(S), NEW x \in S, NEW k \in 1 .. Len(s) + 1
  PROVE  InsertAt(s, k, x) \in Seq(S)
<1>1. \A i \in 1 .. Len(s) : s[i] \in S
  BY ElementOfSeq
<1>2. Len(s) \in Nat
  BY LenProperties
<1>3. SubSeq(s, 1, k - 1) \in Seq(S) /\ SubSeq(s, k, Len(s)) \in Seq(S)
  BY <1>1, <1>2, SubSeqProperties
<1>4. <<x>> \in Seq(S)
  OBVIOUS
<1> QED
  BY <1>3, <1>4, ConcatProperties DEF InsertAt

LEMMA DueTypes ==
  ASSUME NEW S, NEW T, NEW h \in Seq(S \X T), NEW k \in 0 .. Len(h)
  PROVE  /\ [i \in 1 .. k |-> h[i][2]] \in Seq(T)
         /\ SubSeq(h, k + 1, Len(h)) \in Seq(S \X T)
<1>1. \A i \in 1 .. Len(h) : h[i] \in S \X T
  BY ElementOfSeq
<1>2. Len(h) \in Nat
  BY LenProperties
<1>3. [i \in 1 .. k |-> h[i][2]] \in [1 .. k -> T]
  BY <1>1, <1>2
<1>4. [i \in 1 .. k |-> h[i][2]] \in Seq(T)
  BY <1>2, <1>3, SeqDef
<1>5. SubSeq(h, k + 1, Len(h)) \in Seq(S \X T)
  BY <1>1, <1>2, SubSeqProperties
<1> QED
  BY <1>4, <1>5

(* What epoll_wait reports is a sequence: the set is finite. *)
LEMMA ActiveType ==
  ASSUME NEW S \in SUBSET Blocks, NEW active \in SetToSeqs(S)
  PROVE  active \in Seq(Blocks)
<1>1. IsFiniteSet(Blocks)
  BY FS_Interval, BoundsAssumption DEF Blocks
<1>2. Cardinality(S) \in Nat
  BY <1>1, FS_Subset, FS_CardinalityType
<1>3. active \in [1 .. Cardinality(S) -> S]
  BY DEF SetToSeqs
<1> QED
  BY <1>2, <1>3, SeqDef, SeqMonotonic

-----------------------------------------------------------------------------
(* The inductive invariant: besides the types, where the creators are.  A
   thread that is past new_obj has its block, and one inside a push holds the
   lock, so that the queues cannot have changed roles since it chose its own;
   the loop is between lines 176 and 181 only for a coroutine of its list. *)
HasBlock == \A t \in Threads : spawn[t].pc # "idle" => spawn[t].co \in Blocks
PushesElsewhere ==
    \A t \in Threads :
        spawn[t].pc = "push" =>
            newQueLock = t /\ spawn[t].que = 1 - runningNewQue
FreesOne == at = "free" => todo # << >>
IInv == TypeOK /\ HasBlock /\ PushesElsewhere /\ FreesOne

USE DEF poolVars, listVars, loopVars, coVars, timerVars, epollVars

LEMMA InitIInv == Init => IInv
<1> SUFFICES ASSUME Init PROVE IInv
  OBVIOUS
<1> USE BoundsAssumption, NamesAssumption DEF Init
<1>1. [i \in 1 .. NBlocks |-> i] \in Seq(Blocks)
  <2>1. [i \in 1 .. NBlocks |-> i] \in [1 .. NBlocks -> Blocks]
    BY DEF Blocks
  <2> QED
    BY <2>1, SeqDef
<1>2. PoolTypes
  BY <1>1 DEF PoolTypes, Idle
<1>3. LoopTypes /\ CoTypes /\ TimerTypes /\ EpollTypes
  BY DEF LoopTypes, CoTypes, TimerTypes, EpollTypes, Stages, Never
<1>4. HasBlock /\ PushesElsewhere /\ FreesOne
  BY DEF HasBlock, PushesElsewhere, FreesOne, Idle
<1> QED
  BY <1>2, <1>3, <1>4 DEF IInv, TypeOK

(* goNewCo.  What a creator changes of its own record. *)
LEMMA SpawnType ==
  ASSUME PoolTypes, NEW t \in Threads,
         NEW r \in [pc : {"idle", "lock", "push", "wake"},
                    co : Blocks \cup {None}, que : {0, 1}],
         spawn' = [spawn EXCEPT ![t] = r]
  PROVE  /\ spawn' \in [Threads -> [pc : {"idle", "lock", "push", "wake"},
                                    co : Blocks \cup {None}, que : {0, 1}]]
         /\ spawn'[t] = r
         /\ \A u \in Threads \ {t} : spawn'[u] = spawn[u]
  BY DEF PoolTypes

LEMMA CreateIInv ==
  ASSUME IInv, NEW t \in Threads, Create(t)
  PROVE  IInv'
<1> USE BoundsAssumption, NamesAssumption DEF IInv, TypeOK
<1>1. CASE NewObj(t)
  <2>1. freeList # << >> /\ freeList \in Seq(Blocks)
    BY <1>1 DEF NewObj, AllocAMemBlock, NewCoroutine, PoolTypes
  <2>2. Head(freeList) \in Blocks /\ Tail(freeList) \in Seq(Blocks)
    BY <2>1, TailType
  <2>3. PoolTypes'
    BY <1>1, <2>2 DEF NewObj, AllocAMemBlock, NewCoroutine, PoolTypes
  <2>4. LoopTypes' /\ TimerTypes' /\ EpollTypes'
    BY <1>1 DEF NewObj, AllocAMemBlock, NewCoroutine, LoopTypes, TimerTypes,
                EpollTypes
  <2>5. CoTypes'
    BY <1>1, <2>2 DEF NewObj, AllocAMemBlock, NewCoroutine, CoTypes
  <2>6. HasBlock' /\ PushesElsewhere' /\ FreesOne'
    BY <1>1, <2>2 DEF NewObj, AllocAMemBlock, NewCoroutine, PoolTypes,
                      HasBlock, PushesElsewhere, FreesOne
  <2> QED
    BY <2>3, <2>4, <2>5, <2>6
<1>2. CASE LockQueue(t)
  <2> DEFINE q == 1 - runningNewQue
  <2> DEFINE r == [spawn[t] EXCEPT !.pc = "push", !.que = q]
  <2>1. spawn' = [spawn EXCEPT ![t] = r]
    BY <1>2 DEF LockQueue, PoolTypes
  <2>2. /\ r \in [pc : {"idle", "lock", "push", "wake"},
                  co : Blocks \cup {None}, que : {0, 1}]
        /\ r.pc = "push" /\ r.co = spawn[t].co /\ r.que = q
    <3>1. q \in {0, 1}
      BY DEF PoolTypes
    <3>2. spawn[t] \in [pc : {"idle", "lock", "push", "wake"},
                        co : Blocks \cup {None}, que : {0, 1}]
      BY DEF PoolTypes
    <3> HIDE DEF q
    <3> QED
      BY <3>1, <3>2
  <2> HIDE DEF r
  <2>3. PoolTypes'
    BY <1>2, <2>1, <2>2, SpawnType DEF LockQueue, PoolTypes
  <2>4. LoopTypes' /\ CoTypes' /\ TimerTypes' /\ EpollTypes'
    BY <1>2 DEF LockQueue, LoopTypes, CoTypes, TimerTypes, EpollTypes
  <2>5. spawn'[t] = r /\ \A u \in Threads \ {t} : spawn'[u] = spawn[u]
    <3>1. t \in DOMAIN spawn /\ DOMAIN spawn = Threads
      BY DEF PoolTypes
    <3> QED
      BY <2>1, <3>1
  <2>6. HasBlock' /\ FreesOne'
    BY <1>2, <2>2, <2>5 DEF LockQueue, HasBlock, FreesOne
  <2>7. PushesElsewhere'
    BY <1>2, <2>2, <2>5 DEF LockQueue, PushesElsewhere
  <2> QED
    BY <2>3, <2>4, <2>6, <2>7
<1>3. CASE PushNew(t)
  <2> DEFINE r == [spawn[t] EXCEPT !.pc = "wake"]
  <2>1. spawn' = [spawn EXCEPT ![t] = r]
    BY <1>3 DEF PushNew, PoolTypes
  <2>2. /\ r \in [pc : {"idle", "lock", "push", "wake"},
                  co : Blocks \cup {None}, que : {0, 1}]
        /\ r.pc = "wake" /\ r.co = spawn[t].co
    BY DEF PoolTypes
  <2> HIDE DEF r
  <2>3. spawn[t].co \in Blocks /\ spawn[t].que \in {0, 1}
    BY <1>3 DEF PushNew, HasBlock, PoolTypes
  <2>4. newCoroutines' \in [{0, 1} -> Seq(Blocks)]
    <3>1. Append(newCoroutines[spawn[t].que], spawn[t].co) \in Seq(Blocks)
      BY <2>3, AppendProperties DEF PoolTypes
    <3> QED
      BY <1>3, <2>3, <3>1 DEF PushNew, PoolTypes
  <2>5. PoolTypes'
    BY <1>3, <2>1, <2>2, <2>4, SpawnType DEF PushNew, PoolTypes
  <2>6. LoopTypes' /\ CoTypes' /\ TimerTypes' /\ EpollTypes'
    BY <1>3 DEF PushNew, LoopTypes, CoTypes, TimerTypes, EpollTypes
  <2>7. spawn'[t] = r /\ \A u \in Threads \ {t} : spawn'[u] = spawn[u]
    BY <2>1, <2>2, SpawnType
  <2>8. HasBlock' /\ FreesOne'
    BY <1>3, <2>2, <2>7 DEF PushNew, HasBlock, FreesOne
  <2>9. PushesElsewhere'
    BY <1>3, <2>2, <2>7 DEF PushNew, PushesElsewhere
  <2> QED
    BY <2>5, <2>6, <2>8, <2>9
<1>4. CASE WakeUp(t)
  <2>1. PoolTypes' /\ TimerTypes'
    BY <1>4 DEF WakeUp, Arm, Idle, PoolTypes, TimerTypes
  <2>2. LoopTypes' /\ CoTypes' /\ EpollTypes'
    BY <1>4 DEF WakeUp, LoopTypes, CoTypes, EpollTypes
  <2>3. HasBlock' /\ PushesElsewhere' /\ FreesOne'
    BY <1>4 DEF WakeUp, Idle, PoolTypes, HasBlock, PushesElsewhere, FreesOne
  <2> QED
    BY <2>1, <2>2, <2>3
<1> QED
  BY <1>1, <1>2, <1>3, <1>4 DEF Create

(* Bodies.  They change nothing that belongs to creators, so that the parts of
   IInv about those are kept. *)
LEMMA OthersKeep ==
  ASSUME IInv, UNCHANGED <<spawn, newQueLock, runningNewQue>>
  PROVE  HasBlock' /\ PushesElsewhere'
  BY DEF IInv, HasBlock, PushesElsewhere

LEMMA RunAtTypes ==
  ASSUME TimerTypes, NEW time \in Nat, NEW c \in Blocks,
         RunAt(time, c), now' = now
  PROVE  TimerTypes'
<1>1. timerCoHeap' \in Seq(Nat \X Blocks)
  <2>1. PICK k \in 1 .. Len(timerCoHeap) + 1 :
            timerCoHeap' = InsertAt(timerCoHeap, k, <<time, c>>)
    BY DEF RunAt, HeapPush
  <2>2. <<time, c>> \in Nat \X Blocks
    OBVIOUS
  <2> QED
    BY <2>1, <2>2, InsertAtType DEF TimerTypes
<1>2. timerFd' \in Nat \cup {Never}
  BY DEF RunAt, Arm, TimerTypes
<1> QED
  BY <1>1, <1>2 DEF TimerTypes

LEMMA BodyIInv ==
  ASSUME IInv, Body
  PROVE  IInv'
<1> USE BoundsAssumption, NamesAssumption DEF IInv, TypeOK
<1>1. ASSUME NEW c \in Blocks, NEW d \in Naps, Wait(c, d) PROVE IInv'
  <2>1. TimerTypes'
    <3>1. now + d \in Nat
      BY DEF TimerTypes
    <3> QED
      BY <1>1, <3>1, RunAtTypes DEF Wait, runAfter
  <2>2. CoTypes'
    BY <1>1 DEF Wait, Suspend, CoTypes, TimerTypes
  <2>3. PoolTypes' /\ LoopTypes' /\ EpollTypes'
    BY <1>1 DEF Wait, PoolTypes, LoopTypes, EpollTypes
  <2>4. HasBlock' /\ PushesElsewhere' /\ FreesOne'
    BY <1>1, OthersKeep DEF Wait, FreesOne
  <2> QED
    BY <2>1, <2>2, <2>3, <2>4
<1>2. ASSUME NEW c \in Blocks, WaitEvent(c) PROVE IInv'
  <2>1. CoTypes'
    BY <1>2 DEF WaitEvent, Suspend, CoTypes
  <2>2. EpollTypes'
    BY <1>2 DEF WaitEvent, addEv, EpollTypes
  <2>3. PoolTypes' /\ LoopTypes' /\ TimerTypes'
    BY <1>2 DEF WaitEvent, PoolTypes, LoopTypes, TimerTypes
  <2>4. HasBlock' /\ PushesElsewhere' /\ FreesOne'
    BY <1>2, OthersKeep DEF WaitEvent, FreesOne
  <2> QED
    BY <2>1, <2>2, <2>3, <2>4
<1>3. ASSUME NEW c \in Blocks, WaitEventReturns(c) PROVE IInv'
  <2>1. CoTypes'
    BY <1>3 DEF WaitEventReturns, CoTypes
  <2>2. EpollTypes'
    BY <1>3 DEF WaitEventReturns, removeEv, EpollTypes
  <2>3. PoolTypes' /\ LoopTypes' /\ TimerTypes'
    BY <1>3 DEF WaitEventReturns, PoolTypes, LoopTypes, TimerTypes
  <2>4. HasBlock' /\ PushesElsewhere' /\ FreesOne'
    BY <1>3, OthersKeep DEF WaitEventReturns, FreesOne
  <2> QED
    BY <2>1, <2>2, <2>3, <2>4
<1>4. ASSUME NEW c \in Blocks, BlockedYield(c) PROVE IInv'
  <2>1. blockedCo' \in [{0, 1} -> Seq(Blocks)]
    <3>1. Append(blockedCo[blockingCoIdx], c) \in Seq(Blocks)
      BY AppendProperties DEF LoopTypes
    <3> QED
      BY <1>4, <3>1 DEF BlockedYield, LoopTypes
  <2>2. LoopTypes'
    BY <1>4, <2>1 DEF BlockedYield, LoopTypes
  <2>3. CoTypes'
    BY <1>4 DEF BlockedYield, Suspend, CoTypes
  <2>4. PoolTypes' /\ TimerTypes' /\ EpollTypes'
    BY <1>4 DEF BlockedYield, PoolTypes, TimerTypes, EpollTypes
  <2>5. HasBlock' /\ PushesElsewhere' /\ FreesOne'
    BY <1>4, OthersKeep DEF BlockedYield, FreesOne
  <2> QED
    BY <2>2, <2>3, <2>4, <2>5
<1>5. ASSUME NEW c \in Blocks, KillCurCo(c) PROVE IInv'
  <2>1. removedCo' \in Seq(Blocks)
    BY <1>5, AppendProperties DEF KillCurCo, LoopTypes
  <2>2. LoopTypes'
    BY <1>5, <2>1 DEF KillCurCo, LoopTypes
  <2>3. CoTypes' /\ PoolTypes' /\ TimerTypes' /\ EpollTypes'
    BY <1>5 DEF KillCurCo, CoTypes, PoolTypes, TimerTypes, EpollTypes
  <2>4. HasBlock' /\ PushesElsewhere' /\ FreesOne'
    BY <1>5, OthersKeep DEF KillCurCo, FreesOne
  <2> QED
    BY <2>2, <2>3, <2>4
<1> QED
  BY <1>1, <1>2, <1>3, <1>4, <1>5 DEF Body

(* The main loop. *)
LEMMA ResumeTypes ==
  ASSUME CoTypes, NEW c \in Blocks, NEW S, Resume(c, S),
         UNCHANGED <<doing, until, calls>>
  PROVE  CoTypes'
  BY DEF Resume, CoroutineResume, CoTypes

LEMMA LoopIInv ==
  ASSUME IInv, Loop
  PROVE  IInv'
<1> USE BoundsAssumption, NamesAssumption DEF IInv, TypeOK
<1>1. CASE Top
  <2>1. LoopTypes' /\ FreesOne'
    <3>1. CASE status = "running"
      BY <1>1, <3>1 DEF Top, LoopTypes, Stages, FreesOne
    <3>2. CASE status # "running"
      BY <1>1, <3>2 DEF Top, LoopTypes, Stages, FreesOne
    <3> QED
      BY <3>1, <3>2
  <2>2. PoolTypes' /\ CoTypes' /\ TimerTypes' /\ EpollTypes'
    BY <1>1 DEF Top, PoolTypes, CoTypes, TimerTypes, EpollTypes
  <2> QED
    BY <1>1, <2>1, <2>2, OthersKeep DEF Top
<1>2. CASE EpollWait
  <2>1. actCoroutines' \in Seq(Blocks)
    <3> DEFINE S == {registered[f] : f \in Reported}
    <3>1. S \in SUBSET Blocks
      BY DEF EpollTypes, Reported
    <3>2. PICK active \in SetToSeqs(S) : actCoroutines' = actCoroutines \o active
      BY <1>2 DEF EpollWait
    <3>3. active \in Seq(Blocks)
      BY <3>1, <3>2, ActiveType
    <3> QED
      BY <3>2, <3>3, ConcatProperties DEF LoopTypes
  <2>2. LoopTypes' /\ FreesOne'
    BY <1>2, <2>1 DEF EpollWait, LoopTypes, Stages, FreesOne
  <2>3. PoolTypes' /\ CoTypes' /\ TimerTypes' /\ EpollTypes'
    BY <1>2 DEF EpollWait, PoolTypes, CoTypes, TimerTypes, EpollTypes
  <2> QED
    BY <1>2, <2>2, <2>3, OthersKeep DEF EpollWait
<1>3. CASE ResumeNext
  <2>1. Head(todo) \in Blocks /\ Tail(todo) \in Seq(Blocks)
    BY <1>3, TailType DEF ResumeNext, LoopTypes
  <2>2. LoopTypes' /\ FreesOne'
    BY <1>3, <2>1 DEF ResumeNext, LoopAt, LoopTypes, FreesOne
  <2>3. CoTypes'
    BY <1>3, <2>1, ResumeTypes DEF ResumeNext
  <2>4. PoolTypes' /\ TimerTypes' /\ EpollTypes'
    BY <1>3 DEF ResumeNext, PoolTypes, TimerTypes, EpollTypes
  <2> QED
    BY <1>3, <2>2, <2>3, <2>4, OthersKeep DEF ResumeNext
<1>4. CASE GetExpired
  <2>1. todo' \in Seq(Blocks) /\ timerCoHeap' \in Seq(Nat \X Blocks)
    <3>1. PICK k \in 0 .. Len(timerCoHeap) :
              /\ todo' = [i \in 1 .. k |-> timerCoHeap[i][2]]
              /\ timerCoHeap' = SubSeq(timerCoHeap, k + 1, Len(timerCoHeap))
      BY <1>4 DEF GetExpired, PopDue
    <3> QED
      BY <3>1, DueTypes DEF TimerTypes
  <2>2. timerFd' \in Nat \cup {Never}
    <3>1. timerCoHeap' # << >> => Head(timerCoHeap')[1] \in Nat
      BY <2>1, HeadTailProperties
    <3> QED
      BY <1>4, <3>1 DEF GetExpired, Rearm, Arm, TimerTypes
  <2>3. TimerTypes'
    BY <1>4, <2>1, <2>2 DEF GetExpired, BlockedDone, TimerTypes
  <2>4. LoopTypes' /\ FreesOne'
    BY <1>4, <2>1
       DEF GetExpired, BlockedDone, LoopTypes, Stages, FreesOne
  <2>5. PoolTypes' /\ CoTypes' /\ EpollTypes'
    BY <1>4 DEF GetExpired, BlockedDone, PoolTypes, CoTypes, EpollTypes
  <2> QED
    BY <1>4, <2>3, <2>4, <2>5, OthersKeep DEF GetExpired, BlockedDone
<1>5. CASE SwapQueues
  <2>1. PoolTypes' /\ LoopTypes'
    BY <1>5 DEF SwapQueues, PoolTypes, LoopTypes, Stages
  <2>2. CoTypes' /\ TimerTypes' /\ EpollTypes'
    BY <1>5 DEF SwapQueues, CoTypes, TimerTypes, EpollTypes
  <2>3. HasBlock' /\ FreesOne'
    BY <1>5 DEF SwapQueues, HasBlock, FreesOne
  <2>4. PushesElsewhere'
    BY <1>5 DEF SwapQueues, PushesElsewhere
  <2> QED
    BY <2>1, <2>2, <2>3, <2>4
<1>6. CASE StartNew
  <2> DEFINE q == newCoroutines[runningNewQue]
  <2>1. q \in Seq(Blocks) /\ q # << >>
    BY <1>6 DEF StartNew, PoolTypes
  <2>2. Head(q) \in Blocks /\ Tail(q) \in Seq(Blocks)
    BY <2>1, TailType
  <2>3. PoolTypes'
    BY <1>6, <2>2 DEF StartNew, PoolTypes
  <2>4. LoopTypes' /\ FreesOne'
    BY <1>6, <2>2 DEF StartNew, LoopAt, LoopTypes, FreesOne
  <2>5. CoTypes'
    BY <1>6, <2>2, ResumeTypes DEF StartNew
  <2>6. TimerTypes' /\ EpollTypes'
    BY <1>6 DEF StartNew, TimerTypes, EpollTypes
  <2> QED
    BY <1>6, <2>3, <2>4, <2>5, <2>6, OthersKeep DEF StartNew
<1>7. CASE QueueDrained \/ ActDone
  <2>1. LoopTypes' /\ FreesOne'
    BY <1>7 DEF QueueDrained, ActDone, LoopTypes, Stages, FreesOne
  <2>2. PoolTypes' /\ CoTypes' /\ TimerTypes' /\ EpollTypes'
    BY <1>7 DEF QueueDrained, ActDone, PoolTypes, CoTypes, TimerTypes,
                EpollTypes
  <2> QED
    BY <1>7, <2>1, <2>2, OthersKeep DEF QueueDrained, ActDone
<1>8. CASE EraseDead \/ ClearRemoved
  <2>1. LoopTypes' /\ FreesOne'
    BY <1>8 DEF EraseDead, ClearRemoved, LoopTypes, Stages, FreesOne
  <2>2. PoolTypes' /\ CoTypes' /\ TimerTypes' /\ EpollTypes'
    BY <1>8 DEF EraseDead, ClearRemoved, PoolTypes, CoTypes, TimerTypes,
                EpollTypes
  <2> QED
    BY <1>8, <2>1, <2>2, OthersKeep DEF EraseDead, ClearRemoved
<1>9. CASE FreeDead
  <2>1. Head(todo) \in Blocks /\ Tail(todo) \in Seq(Blocks)
    BY <1>9, TailType DEF FreeDead, LoopAt, FreesOne, LoopTypes
  <2>2. PoolTypes'
    BY <1>9, <2>1, PushFrontType DEF FreeDead, FreeAMemBlock, PoolTypes
  <2>3. LoopTypes' /\ FreesOne'
    BY <1>9, <2>1 DEF FreeDead, LoopTypes, Stages, FreesOne
  <2>4. CoTypes' /\ TimerTypes' /\ EpollTypes'
    BY <1>9 DEF FreeDead, CoTypes, TimerTypes, EpollTypes
  <2> QED
    BY <1>9, <2>2, <2>3, <2>4, OthersKeep DEF FreeDead
<1> QED
  BY <1>1, <1>2, <1>3, <1>4, <1>5, <1>6, <1>7, <1>8, <1>9 DEF Loop

LEMMA RestIInv ==
  ASSUME IInv, Stop \/ Environment \/ UNCHANGED vars
  PROVE  IInv'
<1> USE NamesAssumption DEF IInv, TypeOK
<1>1. PoolTypes' /\ LoopTypes' /\ CoTypes'
  BY DEF Stop, Environment, Tick, FdReady, vars, PoolTypes, LoopTypes, CoTypes
<1>2. TimerTypes' /\ EpollTypes'
  BY DEF Stop, Environment, Tick, FdReady, vars, TimerTypes, EpollTypes
<1>3. FreesOne' /\ HasBlock' /\ PushesElsewhere'
  BY OthersKeep DEF Stop, Environment, Tick, FdReady, vars, FreesOne
<1> QED
  BY <1>1, <1>2, <1>3

LEMMA Invariance == Spec => []IInv
<1>1. IInv /\ [Next]_vars => IInv'
  BY CreateIInv, BodyIInv, LoopIInv, RestIInv DEF Next
<1> QED
  BY InitIInv, <1>1, PTL DEF Spec

-----------------------------------------------------------------------------
(* Every variable of the processor keeps its type, for pools, creators and
   descriptors of any number: no list of the loop ever holds anything but
   blocks of the pool. *)
THEOREM TypeCorrect == Spec => []TypeOK
<1>1. IInv => TypeOK
  BY DEF IInv
<1> QED
  BY Invariance, <1>1, PTL

(* The loop pops a queue without newQueLock_ (lines 152-155), and no creator
   is ever inside a push to it: the flip and the choice of a queue happen
   under the lock. *)
THEOREM DrainsAlone == Spec => []DrainedQueueIsPrivate
<1>1. IInv => DrainedQueueIsPrivate
  BY DEF IInv, TypeOK, PoolTypes, PushesElsewhere, DrainedQueueIsPrivate
<1> QED
  BY Invariance, <1>1, PTL
-----------------------------------------------------------------------------
(* Which blocks are on a list, and that none is on it twice. *)
In(s, b) == \E i \in 1 .. Len(s) : s[i] = b
Distinct(s) == \A i, j \in 1 .. Len(s) : s[i] = s[j] => i = j

LEMMA InEmpty ==
  ASSUME NEW b
  PROVE  ~In(<< >>, b) /\ Distinct(<< >>)
  BY DEF In, Distinct

LEMMA InSet ==
  ASSUME NEW S, NEW s \in Seq(S), NEW b
  PROVE  b \in ToSet(s) <=> In(s, b)
  BY LenProperties DEF In, ToSet

LEMMA InTail ==
  ASSUME NEW S, NEW s \in Seq(S), s # << >>
  PROVE  /\ \A b : In(s, b) <=> b = Head(s) \/ In(Tail(s), b)
         /\ Distinct(s) => Distinct(Tail(s)) /\ ~In(Tail(s), Head(s))
<1>1. /\ Len(s) \in Nat \ {0} /\ Len(Tail(s)) = Len(s) - 1
      /\ \A i \in 1 .. Len(Tail(s)) : Tail(s)[i] = s[i + 1]
      /\ Head(s) = s[1]
  BY EmptySeq, HeadTailProperties
<1>2. ASSUME NEW b PROVE In(s, b) <=> b = Head(s) \/ In(Tail(s), b)
  <2>1. ASSUME In(s, b) PROVE b = Head(s) \/ In(Tail(s), b)
    <3>1. PICK i \in 1 .. Len(s) : s[i] = b
      BY <2>1 DEF In
    <3>2. CASE i # 1
      <4>1. i - 1 \in 1 .. Len(Tail(s)) /\ Tail(s)[i - 1] = b
        BY <1>1, <3>1, <3>2
      <4> QED
        BY <4>1 DEF In
    <3> QED
      BY <1>1, <3>1, <3>2
  <2>2. ASSUME b = Head(s) PROVE In(s, b)
    BY <1>1, <2>2 DEF In
  <2>3. ASSUME In(Tail(s), b) PROVE In(s, b)
    <3>1. PICK i \in 1 .. Len(Tail(s)) : Tail(s)[i] = b
      BY <2>3 DEF In
    <3>2. i + 1 \in 1 .. Len(s) /\ s[i + 1] = b
      BY <1>1, <3>1
    <3> QED
      BY <3>2 DEF In
  <2> QED
    BY <2>1, <2>2, <2>3
<1>3. ASSUME Distinct(s) PROVE Distinct(Tail(s)) /\ ~In(Tail(s), Head(s))
  BY <1>1, <1>3 DEF Distinct, In
<1> QED
  BY <1>2, <1>3

LEMMA InConcat ==
  ASSUME NEW S, NEW s \in Seq(S), NEW t \in Seq(S)
  PROVE  \A b : In(s \o t, b) <=> In(s, b) \/ In(t, b)
<1>1. /\ Len(s) \in Nat /\ Len(t) \in Nat /\ Len(s \o t) = Len(s) + Len(t)
      /\ \A i \in 1 .. Len(s) : (s \o t)[i] = s[i]
      /\ \A i \in 1 .. Len(t) : (s \o t)[Len(s) + i] = t[i]
  BY LenProperties, ConcatProperties
<1>2. ASSUME NEW b, In(s \o t, b) PROVE In(s, b) \/ In(t, b)
  <2>1. PICK i \in 1 .. Len(s) + Len(t) : (s \o t)[i] = b
    BY <1>1, <1>2 DEF In
  <2>2. CASE i > Len(s)
    <3>1. i - Len(s) \in 1 .. Len(t) /\ i = Len(s) + (i - Len(s))
      BY <1>1, <2>2
    <3>2. t[i - Len(s)] = b
      BY <1>1, <2>1, <3>1
    <3> QED
      BY <3>1, <3>2 DEF In
  <2> QED
    BY <1>1, <2>1, <2>2 DEF In
<1>3. ASSUME NEW b, In(s, b) PROVE In(s \o t, b)
  BY <1>1, <1>3 DEF In
<1>4. ASSUME NEW b, In(t, b) PROVE In(s \o t, b)
  <2>1. PICK i \in 1 .. Len(t) : t[i] = b
    BY <1>4 DEF In
  <2>2. Len(s) + i \in 1 .. Len(s \o t) /\ (s \o t)[Len(s) + i] = b
    BY <1>1, <2>1
  <2> QED
    BY <2>2 DEF In
<1> QED
  BY <1>2, <1>3, <1>4

LEMMA InOne ==
  ASSUME NEW x
  PROVE  \A b : In(<<x>>, b) <=> b = x
  BY DEF In

LEMMA InAppend ==
  ASSUME NEW S, NEW s \in Seq(S), NEW x \in S
  PROVE  /\ \A b : In(Append(s, x), b) <=> In(s, b) \/ b = x
         /\ Distinct(s) /\ ~In(s, x) => Distinct(Append(s, x))
<1>1. Append(s, x) = s \o <<x>> /\ <<x>> \in Seq(S)
  BY AppendIsConcat
<1>2. \A b : In(Append(s, x), b) <=> In(s, b) \/ b = x
  <2>1. \A b : In(s \o <<x>>, b) <=> In(s, b) \/ In(<<x>>, b)
    BY <1>1, InConcat
  <2> QED
    BY <1>1, <2>1, InOne
<1>3. ASSUME Distinct(s), ~In(s, x) PROVE Distinct(Append(s, x))
  BY <1>3, AppendProperties, LenProperties DEF Distinct, In
<1> QED
  BY <1>2, <1>3

LEMMA InPushFront ==
  ASSUME NEW S, NEW s \in Seq(S), NEW x \in S
  PROVE  /\ \A b : In(<<x>> \o s, b) <=> In(s, b) \/ b = x
         /\ Distinct(s) /\ ~In(s, x) => Distinct(<<x>> \o s)
<1>1. <<x>> \in Seq(S) /\ Len(<<x>>) = 1 /\ <<x>>[1] = x
  OBVIOUS
<1>2. \A b : In(<<x>> \o s, b) <=> In(s, b) \/ b = x
  BY <1>1, InConcat, InOne
<1>3. ASSUME Distinct(s), ~In(s, x) PROVE Distinct(<<x>> \o s)
  <2>1. PICK r, n : r = <<x>> \o s /\ n = Len(s)
    OBVIOUS
  <2>2. /\ n \in Nat /\ Len(r) = 1 + n
        /\ \A i \in 1 .. 1 + n : r[i] = IF i = 1 THEN x ELSE s[i - 1]
    BY <1>1, <2>1, LenProperties, ConcatProperties
  <2>3. \A i \in 1 .. n : s[i] # x
    BY <1>3, <2>1 DEF In
  <2>4. \A i \in 2 .. 1 + n : i - 1 \in 1 .. n /\ r[i] = s[i - 1]
    BY <2>2
  <2>5. Distinct(r)
    <3> SUFFICES ASSUME NEW i \in 1 .. 1 + n, NEW j \in 1 .. 1 + n, r[i] = r[j]
                 PROVE  i = j
      BY <2>2 DEF Distinct
    <3>1. \A k \in 1 .. 1 + n : k = 1 \/ k \in 2 .. 1 + n
      BY <2>2
    <3>2. \A k, l \in 1 .. n : s[k] = s[l] => k = l
      BY <1>3, <2>1 DEF Distinct
    <3>3. \A k \in 2 .. 1 + n : r[k] # x
      BY <2>3, <2>4
    <3>4. r[1] = x
      BY <2>2
    <3>5. ASSUME i # 1, j # 1 PROVE i = j
      <4>1. i \in 2 .. 1 + n /\ j \in 2 .. 1 + n
        BY <3>1, <3>5
      <4>2. /\ i - 1 \in 1 .. n /\ j - 1 \in 1 .. n
            /\ s[i - 1] = s[j - 1]
        BY <2>4, <4>1
      <4>3. i - 1 = j - 1
        BY <3>2, <4>2
      <4> QED
        BY <4>1, <4>3
    <3> QED
      BY <3>1, <3>3, <3>4, <3>5
  <2> QED
    BY <2>1, <2>5
<1> QED
  BY <1>2, <1>3

-----------------------------------------------------------------------------
(* Where each block is, and what the loop knows of the coroutines that have
   ended.  Before the loop buries them they are on removedCo_ once each, alive,
   and left in the state in which they ended; while it does, its list holds
   those that are still to be given back. *)
Held(b) == \E t \in Threads : spawn[t].pc \in {"lock", "push"} /\ spawn[t].co = b
OneHolder ==
    \A t, u \in Threads :
        /\ spawn[t].pc \in {"lock", "push"} /\ spawn[u].pc \in {"lock", "push"}
        /\ spawn[t].co = spawn[u].co
        => t = u
NoDoubles ==
    Distinct(freeList) /\ Distinct(newCoroutines[0]) /\ Distinct(newCoroutines[1])
Placed ==
    \A b \in Blocks :
        LET free == In(freeList, b)
            held == Held(b)
            q0 == In(newCoroutines[0], b)
            q1 == In(newCoroutines[1], b)
            alive == Alive(b) IN
        /\ free \/ held \/ q0 \/ q1 \/ alive
        /\ free => ~held /\ ~q0 /\ ~q1 /\ ~alive
        /\ held => ~q0 /\ ~q1 /\ ~alive
        /\ q0 => ~q1 /\ ~alive
        /\ q1 => ~alive
Burying == at \in {"bury", "free"}
Finished ==
    /\ ~Burying =>
        /\ Distinct(removedCo)
        /\ \A b \in Blocks : In(removedCo, b) =>
            b \in coSet /\ state[b] = "running" /\ cur # b
    /\ Burying =>
        /\ Distinct(todo)
        /\ \A b \in Blocks :
            /\ In(todo, b) => In(removedCo, b)
            /\ In(removedCo, b) /\ b \in coSet => In(todo, b)
            /\ In(todo, b) /\ b \in coSet => state[b] = "running"
    /\ at = "bury" => \A b \in Blocks : In(todo, b) => b \in coSet
    /\ at = "free" => \A b \in Blocks : In(todo, b) => (b \in coSet <=> b # Head(todo))
Running ==
    cur # None =>
        /\ at \in {"blocked", "timers", "drain", "act"}
        /\ state[cur] = "running" /\ cur \in coSet
BlocksInv == OneHolder /\ NoDoubles /\ Placed /\ Finished /\ Running


USE DEF Burying

(* The part about places does not depend on the loop's lists. *)
LEMMA PlacesKept ==
  ASSUME OneHolder, NoDoubles, Placed,
         UNCHANGED <<freeList, newCoroutines, spawn>>,
         \A b \in Blocks : Alive(b)' <=> Alive(b)
  PROVE  OneHolder' /\ NoDoubles' /\ Placed'
<1>1. OneHolder' /\ NoDoubles'
  BY DEF OneHolder, NoDoubles
<1>2. \A b \in Blocks : Held(b)' <=> Held(b)
  BY DEF Held
<1> QED
  BY <1>1, <1>2 DEF Placed

LEMMA BlocksInit == Init => BlocksInv
<1> SUFFICES ASSUME Init PROVE BlocksInv
  OBVIOUS
<1> USE BoundsAssumption, NamesAssumption DEF Init
<1>1. OneHolder /\ \A b \in Blocks : ~Held(b)
  BY DEF OneHolder, Held, Idle
<1>2. /\ Distinct(freeList) /\ \A b \in Blocks : In(freeList, b)
      /\ freeList \in Seq(Blocks)
  <2>1. freeList \in Seq(Blocks)
    BY InitIInv DEF IInv, TypeOK, PoolTypes
  <2>2. Len(freeList) = NBlocks /\ \A i \in 1 .. NBlocks : freeList[i] = i
    BY <2>1, LenProperties
  <2> QED
    BY <2>1, <2>2 DEF Distinct, In, Blocks
<1>3. NoDoubles /\ \A b \in Blocks :
        ~In(newCoroutines[0], b) /\ ~In(newCoroutines[1], b)
  BY <1>2, InEmpty DEF NoDoubles
<1>4. Placed
  BY <1>1, <1>2, <1>3 DEF Placed, Alive
<1>5. Finished /\ Running
  BY InEmpty DEF Finished, Running
<1> QED
  BY <1>1, <1>3, <1>4, <1>5 DEF BlocksInv

(* goNewCo: a block goes from the free list to a creator, and from there to a
   queue. *)
LEMMA BlocksCreate ==
  ASSUME IInv, BlocksInv, NEW t \in Threads, Create(t)
  PROVE  BlocksInv'
<1> USE BoundsAssumption, NamesAssumption DEF IInv, TypeOK, BlocksInv
<1>1. CASE NewObj(t)
  <2> DEFINE c == Head(freeList)
  <2>1. /\ freeList # << >> /\ freeList' = Tail(freeList)
        /\ freeList \in Seq(Blocks)
    BY <1>1 DEF NewObj, AllocAMemBlock, NewCoroutine, PoolTypes
  <2>2. /\ c \in Blocks
        /\ \A b : In(freeList, b) <=> b = c \/ In(freeList', b)
        /\ Distinct(freeList') /\ ~In(freeList', c)
    BY <2>1, InTail, TailType DEF NoDoubles
  <2>4. /\ spawn'[t].pc = "lock" /\ spawn'[t].co = c /\ spawn[t].pc = "idle"
        /\ \A u \in Threads \ {t} : spawn'[u] = spawn[u]
    BY <1>1 DEF NewObj, PoolTypes
  <2>5. /\ \A b : Held(b)' <=> b = c \/ Held(b)
        /\ ~Held(c)
    BY <2>2, <2>4 DEF Held, Placed
  <2>6. OneHolder'
    BY <2>4, <2>5 DEF OneHolder, Held
  <2>7. UNCHANGED <<newCoroutines, at, todo, coSet, removedCo, cur>>
    BY <1>1 DEF NewObj
  <2>8. NoDoubles' /\ Placed'
    BY <2>2, <2>5, <2>7 DEF NoDoubles, Placed, Alive
  <2>9. c \notin coSet /\ \A b \in Blocks \ {c} : state'[b] = state[b]
    BY <1>1, <2>2 DEF NewObj, NewCoroutine, Placed, Alive, CoTypes
  <2>10. Finished' /\ Running'
    BY <2>7, <2>9 DEF Finished, Running, CoTypes
  <2> QED
    BY <2>6, <2>8, <2>10
<1>2. CASE LockQueue(t)
  <2>1. UNCHANGED <<freeList, newCoroutines, at, todo, coSet, removedCo, cur,
                    state>>
    BY <1>2 DEF LockQueue
  <2>2. /\ spawn'[t].pc = "push" /\ spawn'[t].co = spawn[t].co
        /\ spawn[t].pc = "lock"
        /\ \A u \in Threads \ {t} : spawn'[u] = spawn[u]
    BY <1>2 DEF LockQueue, PoolTypes
  <2>3. \A b : Held(b)' <=> Held(b)
    BY <2>2 DEF Held
  <2>4. OneHolder'
    BY <2>2 DEF OneHolder
  <2>5. NoDoubles' /\ Placed' /\ Finished' /\ Running'
    BY <2>1, <2>3 DEF NoDoubles, Placed, Alive, Finished, Running
  <2> QED
    BY <2>4, <2>5
<1>3. CASE PushNew(t)
  <2> DEFINE c == spawn[t].co
  <2>1. UNCHANGED <<freeList, at, todo, coSet, removedCo, cur, state>>
    BY <1>3 DEF PushNew
  <2>2. c \in Blocks /\ spawn[t].que \in {0, 1} /\ Held(c)
    BY <1>3 DEF PushNew, HasBlock, PoolTypes, Held
  <2>3. /\ spawn'[t].pc = "wake" /\ spawn[t].pc = "push"
        /\ \A u \in Threads \ {t} : spawn'[u] = spawn[u]
    BY <1>3 DEF PushNew, PoolTypes
  <2>4. \A b : Held(b)' <=> Held(b) /\ b # c
    BY <2>3 DEF Held, OneHolder
  <2>5. OneHolder'
    BY <2>3 DEF OneHolder
  <2>6. ASSUME spawn[t].que = 0 PROVE NoDoubles' /\ Placed'
    <3>1. /\ newCoroutines'[0] = Append(newCoroutines[0], c)
          /\ newCoroutines'[1] = newCoroutines[1]
          /\ newCoroutines[0] \in Seq(Blocks)
      BY <1>3, <2>6 DEF PushNew, PoolTypes
    <3>2. /\ \A b : In(newCoroutines'[0], b)
                    <=> In(newCoroutines[0], b) \/ b = c
          /\ Distinct(newCoroutines[0]) /\ ~In(newCoroutines[0], c)
             => Distinct(newCoroutines'[0])
      BY <2>2, <3>1, InAppend
    <3>3. ~In(newCoroutines[0], c)
      BY <2>2 DEF Placed
    <3>4. NoDoubles'
      BY <2>1, <3>1, <3>2, <3>3 DEF NoDoubles
    <3>5. Placed'
      BY <2>1, <2>2, <2>4, <3>1, <3>2 DEF Placed, Alive
    <3> QED
      BY <3>4, <3>5
  <2>7. ASSUME spawn[t].que = 1 PROVE NoDoubles' /\ Placed'
    <3>1. /\ newCoroutines'[1] = Append(newCoroutines[1], c)
          /\ newCoroutines'[0] = newCoroutines[0]
          /\ newCoroutines[1] \in Seq(Blocks)
      BY <1>3, <2>7 DEF PushNew, PoolTypes
    <3>2. /\ \A b : In(newCoroutines'[1], b)
                    <=> In(newCoroutines[1], b) \/ b = c
          /\ Distinct(newCoroutines[1]) /\ ~In(newCoroutines[1], c)
             => Distinct(newCoroutines'[1])
      BY <2>2, <3>1, InAppend
    <3>3. ~In(newCoroutines[1], c)
      BY <2>2 DEF Placed
    <3>4. NoDoubles'
      BY <2>1, <3>1, <3>2, <3>3 DEF NoDoubles
    <3>5. Placed'
      BY <2>1, <2>2, <2>4, <3>1, <3>2 DEF Placed, Alive
    <3> QED
      BY <3>4, <3>5
  <2>8. Finished' /\ Running'
    BY <2>1 DEF Finished, Running
  <2> QED
    BY <2>2, <2>5, <2>6, <2>7, <2>8
<1>4. CASE WakeUp(t)
  <2>1. UNCHANGED <<freeList, newCoroutines, at, todo, coSet, removedCo, cur,
                    state>>
    BY <1>4 DEF WakeUp
  <2>2. /\ spawn'[t].pc = "idle" /\ spawn[t].pc = "wake"
        /\ \A u \in Threads \ {t} : spawn'[u] = spawn[u]
    BY <1>4 DEF WakeUp, Idle, PoolTypes
  <2>3. OneHolder' /\ \A b : Held(b)' <=> Held(b)
    BY <2>2 DEF Held, OneHolder
  <2>4. NoDoubles' /\ Placed' /\ Finished' /\ Running'
    BY <2>1, <2>3 DEF NoDoubles, Placed, Alive, Finished, Running
  <2> QED
    BY <2>3, <2>4
<1> QED
  BY <1>1, <1>2, <1>3, <1>4 DEF Create

(* A body that suspends is no longer running; one that ends goes to the list
   of those to bury, where it was not yet. *)
LEMMA BlocksSuspend ==
  ASSUME IInv, BlocksInv, NEW c \in Blocks, NEW call, Suspend(c, call),
         UNCHANGED <<poolVars, at, todo, coSet, removedCo>>
  PROVE  BlocksInv'
<1> USE NamesAssumption DEF IInv, TypeOK, BlocksInv
<1>1. OneHolder' /\ NoDoubles' /\ Placed'
  BY PlacesKept DEF Alive
<1>2. /\ cur = c /\ cur' = None /\ ~Burying
      /\ \A b \in Blocks \ {c} : state'[b] = state[b]
  BY DEF Suspend, InBody, Running, CoTypes
<1>3. Finished' /\ Running'
  BY <1>2 DEF Finished, Running, CoTypes
<1> QED
  BY <1>1, <1>3

LEMMA BlocksBody ==
  ASSUME IInv, BlocksInv, Body
  PROVE  BlocksInv'
<1> USE NamesAssumption DEF IInv, TypeOK, BlocksInv
<1>1. ASSUME NEW c \in Blocks, NEW d \in Naps, Wait(c, d) PROVE BlocksInv'
  BY <1>1, BlocksSuspend DEF Wait
<1>2. ASSUME NEW c \in Blocks, WaitEvent(c) PROVE BlocksInv'
  BY <1>2, BlocksSuspend DEF WaitEvent
<1>3. ASSUME NEW c \in Blocks, WaitEventReturns(c) PROVE BlocksInv'
  <2>1. OneHolder' /\ NoDoubles' /\ Placed'
    BY <1>3, PlacesKept DEF WaitEventReturns, Alive
  <2>2. Finished' /\ Running'
    BY <1>3 DEF WaitEventReturns, Finished, Running
  <2> QED
    BY <2>1, <2>2
<1>4. ASSUME NEW c \in Blocks, BlockedYield(c) PROVE BlocksInv'
  BY <1>4, BlocksSuspend DEF BlockedYield
<1>5. ASSUME NEW c \in Blocks, KillCurCo(c) PROVE BlocksInv'
  <2>1. OneHolder' /\ NoDoubles' /\ Placed'
    BY <1>5, PlacesKept DEF KillCurCo, Alive
  <2>2. /\ \A b : In(removedCo', b) <=> In(removedCo, b) \/ b = c
        /\ Distinct(removedCo) /\ ~In(removedCo, c) => Distinct(removedCo')
    <3>1. removedCo \in Seq(Blocks) /\ removedCo' = Append(removedCo, c)
      BY <1>5 DEF KillCurCo, LoopTypes
    <3> QED
      BY <3>1, InAppend
  <2>3. /\ cur = c /\ cur' = None /\ ~Burying /\ state[c] = "running"
        /\ c \in coSet /\ UNCHANGED <<at, state, coSet>>
    BY <1>5 DEF KillCurCo, InBody, Running
  <2>4. Finished' /\ Running'
    BY <2>2, <2>3 DEF Finished, Running
  <2> QED
    BY <2>1, <2>4
<1> QED
  BY <1>1, <1>2, <1>3, <1>4, <1>5 DEF Body

(* What a resume does to the coroutine that it is given, and to no other. *)
LEMMA ResumeEffect ==
  ASSUME CoTypes, NEW c \in Blocks, NEW S, Resume(c, S), cur = None
  PROVE  /\ \A b \in Blocks \ {c} : state'[b] = state[b]
         /\ cur' = None => state' = state
         /\ cur' # None => /\ cur' = c /\ c \in S
                           /\ state[c] \in {"ready", "waiting"}
                           /\ state' = [state EXCEPT ![c] = "running"]
                           /\ state'[c] = "running"
  BY NamesAssumption DEF Resume, CoroutineResume, CoTypes

(* The stages between two burials hand nothing over. *)
LEMMA BlocksStage ==
  ASSUME BlocksInv, ~Burying, ~Burying', cur = None,
         UNCHANGED <<freeList, newCoroutines, spawn, coSet, removedCo, state, cur>>
  PROVE  BlocksInv'
<1> USE DEF BlocksInv
<1>1. OneHolder' /\ NoDoubles' /\ Placed'
  BY PlacesKept DEF Alive
<1>2. Finished' /\ Running'
  BY DEF Finished, Running
<1> QED
  BY <1>1, <1>2

LEMMA BlocksStarts ==
  ASSUME IInv, BlocksInv, ResumeNext \/ StartNew
  PROVE  BlocksInv'
<1> USE BoundsAssumption, NamesAssumption DEF IInv, TypeOK, BlocksInv
<1>1. CASE ResumeNext
  <2> DEFINE c == Head(todo)
  <2>1. c \in Blocks /\ cur = None
    BY <1>1, TailType DEF ResumeNext, LoopAt, LoopTypes
  <2>2. /\ at \in {"blocked", "timers", "act"} /\ at' = at
        /\ Resume(c, coSet)
        /\ UNCHANGED <<freeList, newCoroutines, spawn, coSet, removedCo>>
    BY <1>1 DEF ResumeNext, LoopAt
  <2>3. OneHolder' /\ NoDoubles' /\ Placed'
    BY <2>2, PlacesKept DEF Alive
  <2> HIDE DEF c
  <2>4. Finished' /\ Running'
    BY <2>1, <2>2, ResumeEffect DEF Finished, Running
  <2> QED
    BY <2>3, <2>4
<1>2. CASE StartNew
  <2> DEFINE q == newCoroutines[runningNewQue]
             c == Head(q)
  <2>1. q \in Seq(Blocks) /\ q # << >> /\ runningNewQue \in {0, 1}
    BY <1>2 DEF StartNew, PoolTypes
  <2>2. /\ c \in Blocks
        /\ \A b : In(q, b) <=> b = c \/ In(Tail(q), b)
        /\ Distinct(q) => Distinct(Tail(q)) /\ ~In(Tail(q), c)
    BY <2>1, InTail, TailType
  <2>3. /\ at = "drain" /\ at' = at /\ cur = None
        /\ newCoroutines' = [newCoroutines EXCEPT ![runningNewQue] = Tail(q)]
        /\ coSet' = coSet \cup {c} /\ Resume(c, coSet')
        /\ UNCHANGED <<freeList, spawn, removedCo>>
    BY <1>2 DEF StartNew, LoopAt
  <2> HIDE DEF c, q
  <2>4. /\ ~In(freeList, c) /\ ~Held(c) /\ c \notin coSet
        /\ \A b : Held(b)' <=> Held(b)
    BY <2>1, <2>2, <2>3 DEF Placed, Alive, Held, q
  <2>5. OneHolder'
    BY <2>3 DEF OneHolder
  <2>6. ASSUME runningNewQue = 0 PROVE NoDoubles' /\ Placed'
    <3>1. /\ q = newCoroutines[0] /\ newCoroutines'[0] = Tail(q)
          /\ newCoroutines'[1] = newCoroutines[1]
      BY <2>3, <2>6 DEF PoolTypes, q
    <3>2. NoDoubles'
      BY <2>2, <2>3, <3>1 DEF NoDoubles
    <3>3. Placed'
      BY <2>2, <2>3, <2>4, <3>1 DEF Placed, Alive, NoDoubles
    <3> QED
      BY <3>2, <3>3
  <2>7. ASSUME runningNewQue = 1 PROVE NoDoubles' /\ Placed'
    <3>1. /\ q = newCoroutines[1] /\ newCoroutines'[1] = Tail(q)
          /\ newCoroutines'[0] = newCoroutines[0]
      BY <2>3, <2>7 DEF PoolTypes, q
    <3>2. NoDoubles'
      BY <2>2, <2>3, <3>1 DEF NoDoubles
    <3>3. Placed'
      BY <2>2, <2>3, <2>4, <3>1 DEF Placed, Alive, NoDoubles
    <3> QED
      BY <3>2, <3>3
  <2>8. Finished' /\ Running'
    BY <2>2, <2>3, <2>4, ResumeEffect DEF Finished, Running
  <2> QED
    BY <2>1, <2>5, <2>6, <2>7, <2>8
<1> QED
  BY <1>1, <1>2

(* The burial: a block leaves coSet_, then goes back to the pool. *)
LEMMA BlocksBury ==
  ASSUME IInv, BlocksInv,
         ActDone \/ EraseDead \/ FreeDead \/ ClearRemoved
  PROVE  BlocksInv'
<1> USE BoundsAssumption, NamesAssumption DEF IInv, TypeOK, BlocksInv
<1>1. CASE ActDone
  <2>1. OneHolder' /\ NoDoubles' /\ Placed'
    BY <1>1, PlacesKept DEF ActDone, LoopAt, Alive
  <2>2. Finished' /\ Running'
    BY <1>1 DEF ActDone, LoopAt, Finished, Running
  <2> QED
    BY <2>1, <2>2
<1>2. CASE EraseDead
  <2> DEFINE h == Head(todo)
  <2>1. /\ at = "bury" /\ at' = "free" /\ coSet' = coSet \ {h} /\ cur = None
        /\ UNCHANGED <<freeList, newCoroutines, spawn, todo, removedCo, cur,
                       state>>
    BY <1>2 DEF EraseDead, LoopAt
  <2>2. In(todo, h) /\ h \in Blocks
    BY <1>2, InTail, TailType DEF EraseDead, LoopTypes
  <2>3. h \in coSet
    BY <2>1, <2>2 DEF Finished
  <2>4. OneHolder' /\ NoDoubles' /\ Placed'
    BY <2>1, <2>3, PlacesKept DEF Alive
  <2> HIDE DEF h
  <2>5. Finished'
    <3>1. \A b \in Blocks : In(todo, b)' <=> In(todo, b)
      BY <2>1
    <3> QED
      BY <2>1, <3>1 DEF Finished, h
  <2>6. Running'
    BY <2>1 DEF Running
  <2> QED
    BY <2>4, <2>5, <2>6
<1>3. CASE FreeDead
  <2> DEFINE h == Head(todo)
  <2>1. /\ at = "free" /\ at' = "bury" /\ cur = None
        /\ freeList' = <<h>> \o freeList /\ todo' = Tail(todo)
        /\ UNCHANGED <<newCoroutines, spawn, coSet, removedCo, cur, state>>
    BY <1>3 DEF FreeDead, LoopAt, FreeAMemBlock
  <2>2. /\ h \in Blocks /\ In(todo, h)
        /\ \A b : In(todo, b) <=> b = h \/ In(todo', b)
        /\ Distinct(todo) => Distinct(todo') /\ ~In(todo', h)
    BY <2>1, InTail, TailType DEF LoopTypes, FreesOne
  <2>3. /\ \A b : In(freeList', b) <=> In(freeList, b) \/ b = h
        /\ Distinct(freeList) /\ ~In(freeList, h) => Distinct(freeList')
    BY <2>1, <2>2, InPushFront DEF PoolTypes
  <2>4. /\ h \notin coSet /\ ~In(freeList, h) /\ ~Held(h)
        /\ ~In(newCoroutines[0], h) /\ ~In(newCoroutines[1], h)
    BY <2>1, <2>2 DEF Finished, Placed, Alive
  <2>5. OneHolder' /\ NoDoubles'
    BY <2>1, <2>3, <2>4 DEF OneHolder, NoDoubles
  <2>6. \A b : /\ Held(b)' <=> Held(b)
               /\ Alive(b)' <=> Alive(b) /\ b # h
    BY <2>1, <2>4 DEF Held, Alive
  <2> HIDE DEF h
  <2>7. Placed'
    BY <2>1, <2>3, <2>4, <2>6 DEF Placed
  <2>8. Finished' /\ Running'
    BY <2>1, <2>2, <2>4 DEF Finished, Running, h
  <2> QED
    BY <2>5, <2>7, <2>8
<1>4. CASE ClearRemoved
  <2>1. OneHolder' /\ NoDoubles' /\ Placed'
    BY <1>4, PlacesKept DEF ClearRemoved, LoopAt, Alive
  <2>2. Finished' /\ Running'
    BY <1>4, InEmpty DEF ClearRemoved, LoopAt, Finished, Running
  <2> QED
    BY <2>1, <2>2
<1> QED
  BY <1>1, <1>2, <1>3, <1>4

LEMMA BlocksLoop ==
  ASSUME IInv, BlocksInv, Loop
  PROVE  BlocksInv'
<1>1. CASE Top
  <2>1. at' \in {"poll", "stopped"} /\ at = "top" /\ cur = None
    BY <1>1 DEF Top, LoopAt
  <2> QED
    BY <1>1, <2>1, BlocksStage DEF Top
<1>2. CASE EpollWait
  BY <1>2, BlocksStage DEF EpollWait, LoopAt
<1>3. CASE GetExpired
  BY <1>3, BlocksStage DEF GetExpired, BlockedDone, LoopAt
<1>4. CASE SwapQueues
  BY <1>4, BlocksStage DEF SwapQueues, LoopAt
<1>5. CASE QueueDrained
  BY <1>5, BlocksStage DEF QueueDrained, LoopAt
<1> QED
  BY <1>1, <1>2, <1>3, <1>4, <1>5, BlocksStarts, BlocksBury DEF Loop

LEMMA BlocksRest ==
  ASSUME BlocksInv, Stop \/ Environment \/ UNCHANGED vars
  PROVE  BlocksInv'
<1> USE DEF BlocksInv
<1>1. UNCHANGED <<freeList, newCoroutines, spawn, coSet, removedCo, state, cur,
                  at, todo>>
  BY DEF Stop, Environment, Tick, FdReady, vars
<1>2. OneHolder' /\ NoDoubles' /\ Placed'
  BY <1>1, PlacesKept DEF Alive
<1>3. Finished' /\ Running'
  BY <1>1 DEF Finished, Running
<1> QED
  BY <1>2, <1>3

LEMMA BlocksInvariance == Spec => [](IInv /\ BlocksInv)
<1>1. IInv /\ BlocksInv /\ [Next]_vars => BlocksInv'
  BY BlocksCreate, BlocksBody, BlocksLoop, BlocksRest DEF Next
<1> QED
  BY Invariance, BlocksInit, <1>1, PTL DEF Spec

(* Counting the entries of a list that has no doubles. *)
LEMMA CountOne ==
  ASSUME NEW S, NEW s \in Seq(S), Distinct(s), NEW b
  PROVE  Occurrences(s, b) = IF In(s, b) THEN 1 ELSE 0
<1>1. DOMAIN s = 1 .. Len(s)
  BY LenProperties
<1>2. CASE In(s, b)
  <2>1. PICK i \in 1 .. Len(s) : s[i] = b
    BY <1>2 DEF In
  <2>2. {k \in DOMAIN s : s[k] = b} = {i}
    BY <1>1, <2>1 DEF Distinct
  <2> QED
    BY <1>2, <2>2, FS_Singleton DEF Occurrences
<1>3. CASE ~In(s, b)
  <2>1. {k \in DOMAIN s : s[k] = b} = {}
    BY <1>1, <1>3 DEF In
  <2> QED
    BY <1>3, <2>1, FS_EmptySet DEF Occurrences
<1> QED
  BY <1>2, <1>3

LEMMA CountHolders ==
  ASSUME OneHolder, NEW b
  PROVE  Cardinality(Holders(b)) = IF Held(b) THEN 1 ELSE 0
<1>1. CASE Held(b)
  <2>1. PICK t \in Threads : spawn[t].pc \in {"lock", "push"} /\ spawn[t].co = b
    BY <1>1 DEF Held
  <2>2. Holders(b) = {t}
    BY <2>1 DEF Holders, OneHolder
  <2> QED
    BY <1>1, <2>2, FS_Singleton
<1>2. CASE ~Held(b)
  <2>1. Holders(b) = {}
    BY <1>2 DEF Held, Holders
  <2> QED
    BY <1>2, <2>1, FS_EmptySet
<1> QED
  BY <1>1, <1>2

LEMMA SoundFromInv ==
  ASSUME IInv, BlocksInv
  PROVE  BlocksAreSound
<1> USE NamesAssumption DEF IInv, TypeOK, BlocksInv
<1>1. ASSUME NEW b \in Blocks
      PROVE  Occurrences(freeList, b) + Occurrences(newCoroutines[0], b)
                + Occurrences(newCoroutines[1], b) + Cardinality(Holders(b))
                + (IF Alive(b) THEN 1 ELSE 0) = 1
  <2>1. /\ freeList \in Seq(Blocks) /\ newCoroutines[0] \in Seq(Blocks)
        /\ newCoroutines[1] \in Seq(Blocks)
    BY DEF PoolTypes
  <2>2. Occurrences(freeList, b) = IF In(freeList, b) THEN 1 ELSE 0
    BY <2>1, CountOne DEF NoDoubles
  <2>3. Occurrences(newCoroutines[0], b) =
            IF In(newCoroutines[0], b) THEN 1 ELSE 0
    BY <2>1, CountOne DEF NoDoubles
  <2>4. Occurrences(newCoroutines[1], b) =
            IF In(newCoroutines[1], b) THEN 1 ELSE 0
    BY <2>1, CountOne DEF NoDoubles
  <2>5. Cardinality(Holders(b)) = IF Held(b) THEN 1 ELSE 0
    BY CountHolders
  <2>6. /\ In(freeList, b) \/ Held(b) \/ In(newCoroutines[0], b)
           \/ In(newCoroutines[1], b) \/ Alive(b)
        /\ In(freeList, b) => /\ ~Held(b) /\ ~In(newCoroutines[0], b)
                              /\ ~In(newCoroutines[1], b) /\ ~Alive(b)
        /\ Held(b) => /\ ~In(newCoroutines[0], b)
                      /\ ~In(newCoroutines[1], b) /\ ~Alive(b)
        /\ In(newCoroutines[0], b) => ~In(newCoroutines[1], b) /\ ~Alive(b)
        /\ In(newCoroutines[1], b) => ~Alive(b)
    BY DEF Placed
  <2> QED
    BY <2>2, <2>3, <2>4, <2>5, <2>6
<1>2. OnePlace
  BY <1>1 DEF OnePlace
<1>3. RunsOnlyTheLiving
  BY DEF RunsOnlyTheLiving, Running, Placed, Alive, Held, Holders, CoTypes
<1> QED
  BY <1>2, <1>3 DEF BlocksAreSound

(* No block of the pool is lost, handed out twice or given back twice, and the
   CPU goes only to coroutines that are alive: removedCo_ never holds a block
   twice, what it holds was left running and so is not resumed again, and the
   stale pointers of the loop's lists are looked up in coSet_, which a block
   leaves before it is free. *)
THEOREM BlocksSound == Spec => []BlocksAreSound
BY BlocksInvariance, SoundFromInv, PTL

-----------------------------------------------------------------------------

(* The refinement of CoroutineLife.  The stage of a block in terms of the
   invariant's predicates. *)
Created(b) == Held(b) \/ In(newCoroutines[0], b) \/ In(newCoroutines[1], b)
Stage(b) ==
    IF In(freeList, b) THEN "free"
    ELSE IF Created(b) THEN "created"
    ELSE IF In(removedCo, b) THEN "finished" ELSE "live"

LifeIsStage == life = [b \in Blocks |-> Stage(b)]

LEMMA LifeIs == IInv => life = [b \in Blocks |-> Stage(b)]
<1> SUFFICES ASSUME IInv, NEW b \in Blocks PROVE life[b] = Stage(b)
  BY DEF life
<1>1. /\ freeList \in Seq(Blocks) /\ removedCo \in Seq(Blocks)
      /\ newCoroutines[0] \in Seq(Blocks) /\ newCoroutines[1] \in Seq(Blocks)
  BY DEF IInv, TypeOK, PoolTypes, LoopTypes
<1>2. /\ b \in ToSet(freeList) <=> In(freeList, b)
      /\ b \in ToSet(removedCo) <=> In(removedCo, b)
      /\ b \in ToSet(newCoroutines[0]) <=> In(newCoroutines[0], b)
      /\ b \in ToSet(newCoroutines[1]) <=> In(newCoroutines[1], b)
  BY <1>1, InSet
<1>3. Holders(b) # {} <=> Held(b)
  BY DEF Holders, Held
<1>4. Queued(b) <=> In(newCoroutines[0], b) \/ In(newCoroutines[1], b)
  BY <1>2 DEF Queued
<1> QED
  BY <1>2, <1>3, <1>4 DEF life, Stage, Created

(* A step that moves one block, and one that moves none. *)
LEMMA LifeMoves ==
  ASSUME life = [b \in Blocks |-> Stage(b)],
         life' = [b \in Blocks |-> Stage(b)'],
         NEW c \in Blocks,
         \A b \in Blocks \ {c} : Stage(b)' = Stage(b),
         \/ Stage(c) = "free" /\ Stage(c)' = "created"
         \/ Stage(c) = "created" /\ Stage(c)' = "live"
         \/ Stage(c) = "live" /\ Stage(c)' = "finished"
         \/ Stage(c) = "finished" /\ Stage(c)' = "free"
  PROVE  Life!Next
<1> HIDE DEF life
<1>1. life[c] = Stage(c) /\ life' = [life EXCEPT ![c] = Stage(c)']
  OBVIOUS
<1> QED
  BY <1>1 DEF Life!Next, Life!Pass

LEMMA LifeKept ==
  ASSUME life = [b \in Blocks |-> Stage(b)],
         life' = [b \in Blocks |-> Stage(b)'],
         UNCHANGED <<freeList, newCoroutines, removedCo>>,
         \A b \in Blocks : Held(b)' <=> Held(b)
  PROVE  life' = life
<1> HIDE DEF life
<1>1. \A b \in Blocks : Stage(b)' = Stage(b)
  BY DEF Stage, Created
<1> QED
  BY <1>1

LEMMA LifeStep ==
  ASSUME IInv, BlocksInv, [Next]_vars,
         life = [b \in Blocks |-> Stage(b)],
         life' = [b \in Blocks |-> Stage(b)']
  PROVE  [Life!Next]_life
<1> USE BoundsAssumption, NamesAssumption DEF IInv, TypeOK, BlocksInv
<1> HIDE DEF life
<1>1. ASSUME NEW t \in Threads, NewObj(t) PROVE Life!Next
  <2>1. freeList # << >> /\ freeList' = Tail(freeList)
    BY <1>1 DEF NewObj, AllocAMemBlock, NewCoroutine
  <2>. PICK c \in Blocks : c = Head(freeList)
    BY <2>1, TailType DEF PoolTypes
  <2>2. /\ \A b : In(freeList, b) <=> b = c \/ In(freeList', b)
        /\ ~In(freeList', c)
    BY <2>1, InTail, TailType DEF NoDoubles, PoolTypes
  <2>3. /\ spawn'[t].pc = "lock" /\ spawn'[t].co = c /\ spawn[t].pc = "idle"
        /\ \A u \in Threads \ {t} : spawn'[u] = spawn[u]
    BY <1>1 DEF NewObj, PoolTypes
  <2>4. \A b : Held(b)' <=> b = c \/ Held(b)
    BY <2>3 DEF Held
  <2>5. UNCHANGED <<newCoroutines, removedCo>>
    BY <1>1 DEF NewObj
  <2>6. /\ Stage(c) = "free" /\ Stage(c)' = "created"
        /\ \A b \in Blocks \ {c} : Stage(b)' = Stage(b)
    BY <2>2, <2>4, <2>5 DEF Stage, Created
  <2> QED
    BY <2>6, LifeMoves
<1>2. ASSUME NEW t \in Threads, LockQueue(t) PROVE life' = life
  <2>1. /\ spawn'[t].pc = "push" /\ spawn'[t].co = spawn[t].co
        /\ spawn[t].pc = "lock"
        /\ \A u \in Threads \ {t} : spawn'[u] = spawn[u]
    BY <1>2 DEF LockQueue, PoolTypes
  <2>2. \A b \in Blocks : Held(b)' <=> Held(b)
    BY <2>1 DEF Held
  <2> QED
    BY <1>2, <2>2, LifeKept DEF LockQueue
<1>3. ASSUME NEW t \in Threads, PushNew(t) PROVE life' = life
  <2> DEFINE c == spawn[t].co
             q == spawn[t].que
  <2>1. /\ c \in Blocks /\ q \in {0, 1} /\ Held(c)
        /\ newCoroutines' =
            [newCoroutines EXCEPT ![q] = Append(newCoroutines[q], c)]
        /\ UNCHANGED <<freeList, removedCo>>
    BY <1>3 DEF PushNew, HasBlock, PoolTypes, Held
  <2>2. \A b : In(Append(newCoroutines[q], c), b)
                <=> In(newCoroutines[q], b) \/ b = c
    BY <2>1, InAppend DEF PoolTypes
  <2>3. /\ spawn'[t].pc = "wake" /\ spawn[t].pc = "push"
        /\ \A u \in Threads \ {t} : spawn'[u] = spawn[u]
    BY <1>3 DEF PushNew, PoolTypes
  <2>4. \A b : Held(b)' <=> Held(b) /\ b # c
    BY <2>3 DEF Held, OneHolder
  <2> HIDE DEF c, q
  <2>5. \A b \in Blocks :
            In(newCoroutines'[0], b) \/ In(newCoroutines'[1], b)
            <=> In(newCoroutines[0], b) \/ In(newCoroutines[1], b) \/ b = c
    <3>1. CASE q = 0
      BY <2>1, <2>2, <3>1 DEF PoolTypes
    <3>2. CASE q = 1
      BY <2>1, <2>2, <3>2 DEF PoolTypes
    <3> QED
      BY <2>1, <3>1, <3>2
  <2>6. \A b \in Blocks : Created(b)' <=> Created(b)
    BY <2>1, <2>4, <2>5 DEF Created
  <2>7. \A b \in Blocks : Stage(b)' = Stage(b)
    BY <2>1, <2>6 DEF Stage
  <2> QED
    BY <2>7
<1>4. ASSUME NEW t \in Threads, WakeUp(t) PROVE life' = life
  <2>1. /\ spawn'[t].pc = "idle" /\ spawn[t].pc = "wake"
        /\ \A u \in Threads \ {t} : spawn'[u] = spawn[u]
    BY <1>4 DEF WakeUp, Idle, PoolTypes
  <2>2. \A b \in Blocks : Held(b)' <=> Held(b)
    BY <2>1 DEF Held
  <2> QED
    BY <1>4, <2>2, LifeKept DEF WakeUp
<1>5. ASSUME NEW c \in Blocks, KillCurCo(c) PROVE Life!Next
  <2>1. /\ removedCo' = Append(removedCo, c)
        /\ UNCHANGED <<freeList, newCoroutines, spawn>>
    BY <1>5 DEF KillCurCo
  <2>2. \A b : In(removedCo', b) <=> In(removedCo, b) \/ b = c
    BY <2>1, InAppend DEF LoopTypes
  <2>3. cur = c /\ ~Burying /\ Alive(c)
    BY <1>5 DEF KillCurCo, InBody, Running, Alive
  <2>4. ~In(removedCo, c) /\ ~In(freeList, c) /\ ~Created(c)
    BY <2>3 DEF Finished, Placed, Created
  <2>5. \A b \in Blocks : Created(b)' <=> Created(b)
    BY <2>1 DEF Created, Held
  <2>6. /\ Stage(c) = "live" /\ Stage(c)' = "finished"
        /\ \A b \in Blocks \ {c} : Stage(b)' = Stage(b)
    BY <2>1, <2>2, <2>4, <2>5 DEF Stage
  <2> QED
    BY <2>6, LifeMoves
<1>6. CASE StartNew
  <2> DEFINE q == newCoroutines[runningNewQue]
  <2>1. q \in Seq(Blocks) /\ q # << >> /\ runningNewQue \in {0, 1}
    BY <1>6 DEF StartNew, PoolTypes
  <2>. PICK c \in Blocks : c = Head(q)
    BY <2>1, TailType
  <2>2. /\ \A b : In(q, b) <=> b = c \/ In(Tail(q), b)
        /\ Distinct(q) => ~In(Tail(q), c)
    BY <2>1, InTail, TailType
  <2>3. /\ at = "drain"
        /\ newCoroutines' = [newCoroutines EXCEPT ![runningNewQue] = Tail(q)]
        /\ UNCHANGED <<freeList, spawn, removedCo>>
    BY <1>6 DEF StartNew, LoopAt
  <2>4. In(newCoroutines[0], c) \/ In(newCoroutines[1], c)
    BY <2>1, <2>2
  <2>5. /\ ~In(freeList, c) /\ ~Held(c) /\ ~Alive(c) /\ Created(c)
        /\ ~(In(newCoroutines[0], c) /\ In(newCoroutines[1], c))
    BY <2>2, <2>4 DEF Placed, Created
  <2>6. ~In(removedCo, c)
    BY <2>2, <2>3, <2>5 DEF Finished, Alive
  <2>7. \A b : Held(b)' <=> Held(b)
    BY <2>3 DEF Held
  <2>8. \A b \in Blocks : Created(b)' <=> Created(b) /\ b # c
    <3>1. CASE runningNewQue = 0
      <4>1. newCoroutines'[0] = Tail(q) /\ newCoroutines'[1] = newCoroutines[1]
        BY <2>3, <3>1 DEF PoolTypes
      <4> QED
        BY <2>2, <2>5, <2>7, <3>1, <4>1 DEF Created, NoDoubles
    <3>2. CASE runningNewQue = 1
      <4>1. newCoroutines'[1] = Tail(q) /\ newCoroutines'[0] = newCoroutines[0]
        BY <2>3, <3>2 DEF PoolTypes
      <4> QED
        BY <2>2, <2>5, <2>7, <3>2, <4>1 DEF Created, NoDoubles
    <3> QED
      BY <2>1, <3>1, <3>2
  <2>9. /\ Stage(c) = "created" /\ Stage(c)' = "live"
        /\ \A b \in Blocks \ {c} : Stage(b)' = Stage(b)
    BY <2>2, <2>3, <2>5, <2>6, <2>8 DEF Stage
  <2> QED
    BY <2>9, LifeMoves
<1>7. CASE FreeDead
  <2>. PICK h \in Blocks : h = Head(todo)
    BY <1>7, TailType DEF FreeDead, LoopAt, FreesOne, LoopTypes
  <2>1. /\ at = "free" /\ freeList' = <<h>> \o freeList
        /\ UNCHANGED <<newCoroutines, spawn, removedCo>>
    BY <1>7 DEF FreeDead, LoopAt, FreeAMemBlock
  <2>2. In(todo, h)
    BY <2>1, InTail, TailType DEF LoopTypes, FreesOne
  <2>3. \A b : In(freeList', b) <=> In(freeList, b) \/ b = h
    BY <2>1, <2>2, InPushFront DEF PoolTypes
  <2>4. Alive(h)
    BY <2>1 DEF Alive
  <2>5. In(removedCo, h) /\ ~In(freeList, h) /\ ~Created(h)
    BY <2>1, <2>2, <2>4 DEF Finished, Placed, Created
  <2>6. \A b : Created(b)' <=> Created(b)
    BY <2>1 DEF Created, Held
  <2>7. /\ Stage(h) = "finished" /\ Stage(h)' = "free"
        /\ \A b \in Blocks \ {h} : Stage(b)' = Stage(b)
    BY <2>1, <2>3, <2>5, <2>6 DEF Stage
  <2> QED
    BY <2>7, LifeMoves
<1>8. CASE ClearRemoved
  <2>1. /\ at = "bury" /\ todo = << >> /\ removedCo' = << >>
        /\ UNCHANGED <<freeList, newCoroutines, spawn>>
    BY <1>8 DEF ClearRemoved, LoopAt
  <2>2. \A b \in Blocks : In(removedCo, b) => In(freeList, b) \/ Created(b)
    BY <2>1, InEmpty DEF Finished, Placed, Alive, Created
  <2>3. \A b \in Blocks : Created(b)' <=> Created(b)
    BY <2>1 DEF Created, Held
  <2>4. \A b \in Blocks : Stage(b)' = Stage(b)
    BY <2>1, <2>2, <2>3, InEmpty DEF Stage
  <2> QED
    BY <2>4
<1>9. ASSUME UNCHANGED <<freeList, newCoroutines, spawn, removedCo>>
      PROVE life' = life
  BY <1>9, LifeKept DEF Held
<1>10. ASSUME Body PROVE [Life!Next]_life
  <2>1. ASSUME NEW c \in Blocks,
               \/ \E d \in Naps : Wait(c, d)
               \/ WaitEvent(c) \/ WaitEventReturns(c) \/ BlockedYield(c)
        PROVE  life' = life
    BY <1>9, <2>1 DEF Wait, WaitEvent, WaitEventReturns, BlockedYield
  <2> QED
    BY <1>5, <1>10, <2>1 DEF Body
<1>11. ASSUME Loop PROVE [Life!Next]_life
  <2>1. ASSUME Top \/ EpollWait \/ ResumeNext \/ GetExpired \/ SwapQueues
               \/ QueueDrained \/ ActDone \/ EraseDead
        PROVE  life' = life
    BY <1>9, <2>1 DEF Top, EpollWait, ResumeNext, GetExpired, BlockedDone,
                      SwapQueues, QueueDrained, ActDone, EraseDead
  <2> QED
    BY <1>6, <1>7, <1>8, <1>11, <2>1 DEF Loop
<1>12. ASSUME Stop \/ Environment \/ UNCHANGED vars PROVE life' = life
  BY <1>9, <1>12 DEF Stop, Environment, Tick, FdReady, vars
<1> QED
  BY <1>1, <1>2, <1>3, <1>4, <1>10, <1>11, <1>12 DEF Next, Create

(* The processor implements the life of a coroutine's block: handed out,
   started once, ended, destroyed once, and only then used again. *)
THEOREM LifeImplemented == Spec => ImplementsLife
<1>1. Init => Life!Init
  <2> SUFFICES ASSUME Init PROVE life = [b \in Blocks |-> "free"]
    BY DEF Life!Init
  <2>1. IInv /\ freeList = [i \in 1 .. NBlocks |-> i]
    BY InitIInv DEF Init
  <2>2. Len(freeList) = NBlocks
    BY <2>1, LenProperties, BoundsAssumption DEF IInv, TypeOK, PoolTypes
  <2>3. \A b \in Blocks : In(freeList, b)
    BY <2>1, <2>2 DEF In, Blocks
  <2>4. life = [b \in Blocks |-> Stage(b)]
    BY <2>1, LifeIs
  <2> HIDE DEF life
  <2> QED
    BY <2>3, <2>4 DEF Stage
<1>2. IInv => LifeIsStage
  BY LifeIs DEF LifeIsStage
<1>3. IInv /\ BlocksInv /\ [Next]_vars /\ LifeIsStage /\ LifeIsStage'
      => [Life!Next]_life
  BY LifeStep DEF LifeIsStage
<1> QED
  BY BlocksInvariance, <1>1, <1>2, <1>3, PTL DEF Spec, ImplementsLife, Life!Spec

-----------------------------------------------------------------------------
(* The timer heap.  Where the entries are after an insertion, and after those
   that are due were taken off. *)
LEMMA InsertAtIs ==
  ASSUME NEW S, NEW s \in Seq(S), NEW x \in S, NEW k \in 1 .. Len(s) + 1
  PROVE  /\ Len(s) \in Nat
         /\ Len(InsertAt(s, k, x)) = Len(s) + 1
         /\ \A i \in 1 .. Len(s) + 1 :
                InsertAt(s, k, x)[i] = IF i < k THEN s[i]
                                       ELSE IF i = k THEN x ELSE s[i - 1]
<1> DEFINE a == SubSeq(s, 1, k - 1)
           b == SubSeq(s, k, Len(s))
<1>1. Len(s) \in Nat /\ \A i \in 1 .. Len(s) : s[i] \in S
  BY LenProperties, ElementOfSeq
<1>2. /\ a \in Seq(S) /\ Len(a) = k - 1
      /\ \A i \in 1 .. k - 1 : a[i] = s[i]
  BY <1>1, SubSeqProperties
<1>3. /\ b \in Seq(S) /\ Len(b) = Len(s) - k + 1
      /\ \A i \in 1 .. Len(s) - k + 1 : b[i] = s[k + i - 1]
  BY <1>1, SubSeqProperties
<1>4. <<x>> \in Seq(S) /\ Len(<<x>>) = 1 /\ <<x>>[1] = x
  OBVIOUS
<1> HIDE DEF a, b
<1> DEFINE p == a \o <<x>>
<1>5. /\ p \in Seq(S) /\ Len(p) = k
      /\ \A i \in 1 .. k : p[i] = IF i < k THEN s[i] ELSE x
  BY <1>1, <1>2, <1>4, ConcatProperties
<1>6. InsertAt(s, k, x) = p \o b
  BY DEF InsertAt, a, b
<1> HIDE DEF p
<1>7. /\ Len(p \o b) = Len(p) + Len(b)
      /\ \A i \in 1 .. Len(p) + Len(b) : (p \o b)[i] =
            IF i <= Len(p) THEN p[i] ELSE b[i - Len(p)]
  BY <1>3, <1>5, ConcatProperties
<1>8. ASSUME NEW i \in 1 .. Len(s) + 1
      PROVE  (p \o b)[i] = IF i < k THEN s[i]
                           ELSE IF i = k THEN x ELSE s[i - 1]
  <2>1. CASE i <= k
    BY <1>1, <1>3, <1>5, <1>7, <2>1
  <2>2. CASE i > k
    <3>1. i - k \in 1 .. Len(s) - k + 1 /\ k + (i - k) - 1 = i - 1
      BY <1>1, <2>2
    <3>2. b[i - k] = s[i - 1]
      BY <1>3, <3>1
    <3> QED
      BY <1>1, <1>3, <1>5, <1>7, <2>2, <3>2
  <2>3. i <= k \/ i > k
    BY <1>1
  <2> QED
    BY <2>1, <2>2, <2>3
<1> QED
  BY <1>1, <1>3, <1>5, <1>6, <1>7, <1>8

LEMMA InsertKeeps ==
  ASSUME NEW S, NEW s \in Seq(S), NEW x \in S, NEW k \in 1 .. Len(s) + 1
  PROVE  /\ InsertAt(s, k, x) \in Seq(S) /\ InsertAt(s, k, x) # << >>
         /\ \A y : In(InsertAt(s, k, x), y) <=> In(s, y) \/ y = x
         /\ \/ Head(InsertAt(s, k, x)) = x
            \/ s # << >> /\ Head(InsertAt(s, k, x)) = Head(s)
         /\ Distinct(s) /\ ~In(s, x) => Distinct(InsertAt(s, k, x))
<1> DEFINE t == InsertAt(s, k, x)
<1>1. /\ Len(s) \in Nat /\ Len(t) = Len(s) + 1
      /\ \A i \in 1 .. Len(s) + 1 :
            t[i] = IF i < k THEN s[i] ELSE IF i = k THEN x ELSE s[i - 1]
  BY InsertAtIs
<1>2. t \in Seq(S) /\ t # << >>
  BY <1>1, InsertAtType, EmptySeq
<1> HIDE DEF t
<1>3. ASSUME NEW y, In(t, y) PROVE In(s, y) \/ y = x
  <2>1. PICK i \in 1 .. Len(s) + 1 : t[i] = y
    BY <1>1, <1>3 DEF In
  <2>2. CASE i < k
    BY <1>1, <2>1, <2>2 DEF In
  <2>3. CASE i > k
    <3>1. i - 1 \in 1 .. Len(s) /\ s[i - 1] = y
      BY <1>1, <2>1, <2>3
    <3> QED
      BY <3>1 DEF In
  <2> QED
    BY <1>1, <2>1, <2>2, <2>3
<1>4. In(t, x)
  BY <1>1 DEF In
<1>5. ASSUME NEW y, In(s, y) PROVE In(t, y)
  <2>1. PICK i \in 1 .. Len(s) : s[i] = y
    BY <1>5 DEF In
  <2>2. CASE i < k
    BY <1>1, <2>1, <2>2 DEF In
  <2>3. CASE i >= k
    <3>1. i + 1 \in 1 .. Len(s) + 1 /\ t[i + 1] = y
      BY <1>1, <2>1, <2>3
    <3> QED
      BY <1>1, <3>1 DEF In
  <2> QED
    BY <1>1, <2>1, <2>2, <2>3
<1>6. Head(t) = x \/ (s # << >> /\ Head(t) = Head(s))
  <2>1. Head(t) = t[1]
    BY <1>2, HeadTailProperties
  <2>2. CASE k = 1
    BY <1>1, <2>1, <2>2
  <2>3. CASE k # 1
    <3>1. t[1] = s[1] /\ Len(s) # 0
      BY <1>1, <2>3
    <3>2. s # << >> /\ Head(s) = s[1]
      BY <3>1, EmptySeq, HeadTailProperties
    <3> QED
      BY <2>1, <3>1, <3>2
  <2> QED
    BY <2>2, <2>3
<1>7. ASSUME Distinct(s), ~In(s, x) PROVE Distinct(t)
  <2>1. SUFFICES ASSUME NEW i \in 1 .. Len(s) + 1, NEW j \in 1 .. Len(s) + 1,
                        t[i] = t[j], i < j
                 PROVE  FALSE
    BY <1>1 DEF Distinct
  <2> DEFINE m == IF i < k THEN i ELSE i - 1
             n == IF j < k THEN j ELSE j - 1
  <2>2. i # k => m \in 1 .. Len(s) /\ t[i] = s[m]
    BY <1>1
  <2>3. j # k => n \in 1 .. Len(s) /\ t[j] = s[n]
    BY <1>1
  <2>4. CASE i = k
    BY <1>1, <1>7, <2>1, <2>3, <2>4 DEF In
  <2>5. CASE j = k
    BY <1>1, <1>7, <2>1, <2>2, <2>5 DEF In
  <2>6. CASE i # k /\ j # k
    <3>1. m = n
      BY <1>7, <2>1, <2>2, <2>3, <2>6 DEF Distinct
    <3> QED
      BY <1>1, <2>1, <2>6, <3>1
  <2> QED
    BY <2>4, <2>5, <2>6
<1> QED
  BY <1>2, <1>3, <1>4, <1>5, <1>6, <1>7 DEF t

LEMMA PushKeeps ==
  ASSUME NEW e \in Nat \X Blocks, timerCoHeap \in Seq(Nat \X Blocks), HeapPush(e)
  PROVE  /\ timerCoHeap' # << >>
         /\ \A y : In(timerCoHeap', y) <=> In(timerCoHeap, y) \/ y = e
         /\ \/ Head(timerCoHeap') = e
            \/ timerCoHeap # << >> /\ Head(timerCoHeap') = Head(timerCoHeap)
         /\ Distinct(timerCoHeap) /\ ~In(timerCoHeap, e)
            => Distinct(timerCoHeap')
<1> DEFINE S == Nat \X Blocks
<1>1. PICK k \in 1 .. Len(timerCoHeap) + 1 :
          timerCoHeap' = InsertAt(timerCoHeap, k, e)
  BY DEF HeapPush
<1>2. timerCoHeap \in Seq(S) /\ e \in S
  OBVIOUS
<1> HIDE DEF S
<1>3. PICK h : h = InsertAt(timerCoHeap, k, e) /\ timerCoHeap' = h
  BY <1>1
<1>4. h \in Seq(S) /\ h # << >>
  BY <1>2, <1>3, InsertKeeps
<1>5. \A y : In(h, y) <=> In(timerCoHeap, y) \/ y = e
  BY <1>2, <1>3, InsertKeeps
<1>6. \/ Head(h) = e
      \/ timerCoHeap # << >> /\ Head(h) = Head(timerCoHeap)
  BY <1>2, <1>3, InsertKeeps
<1>7. Distinct(timerCoHeap) /\ ~In(timerCoHeap, e) => Distinct(h)
  BY <1>2, <1>3, InsertKeeps
<1> QED
  BY <1>3, <1>4, <1>5, <1>6, <1>7

LEMMA PopIs ==
  ASSUME NEW S, NEW T, NEW h \in Seq(S \X T), NEW k \in 0 .. Len(h)
  PROVE  /\ Len([i \in 1 .. k |-> h[i][2]]) = k
         /\ Len(SubSeq(h, k + 1, Len(h))) = Len(h) - k
         /\ \A i \in 1 .. Len(h) - k : SubSeq(h, k + 1, Len(h))[i] = h[k + i]
<1>1. Len(h) \in Nat /\ \A i \in 1 .. Len(h) : h[i] \in S \X T
  BY LenProperties, ElementOfSeq
<1>2. [i \in 1 .. k |-> h[i][2]] \in Seq(T)
  BY DueTypes
<1>3. Len([i \in 1 .. k |-> h[i][2]]) = k
  BY <1>1, <1>2, LenProperties
<1>4. /\ Len(SubSeq(h, k + 1, Len(h))) = Len(h) - k
      /\ \A i \in 1 .. Len(h) - k : SubSeq(h, k + 1, Len(h))[i] = h[k + i]
  BY <1>1, SubSeqProperties
<1> QED
  BY <1>3, <1>4

LEMMA PopKeeps ==
  ASSUME NEW S, NEW T, NEW h \in Seq(S \X T), NEW k \in 0 .. Len(h),
         NEW e, In(h, e)
  PROVE  \/ In([i \in 1 .. k |-> h[i][2]], e[2])
         \/ In(SubSeq(h, k + 1, Len(h)), e)
<1>1. PICK i \in 1 .. Len(h) : h[i] = e
  BY DEF In
<1>2. Len(h) \in Nat
  BY LenProperties
<1>3. CASE i <= k
  <2>1. PICK d : d = [j \in 1 .. k |-> h[j][2]]
    OBVIOUS
  <2>2. i \in 1 .. k /\ d[i] = e[2]
    BY <1>1, <1>2, <1>3, <2>1
  <2>3. Len(d) = k
    BY <2>1, PopIs
  <2>4. In(d, e[2])
    BY <2>2, <2>3 DEF In
  <2> QED
    BY <2>1, <2>4
<1>4. CASE i > k
  <2>1. i - k \in 1 .. Len(h) - k /\ k + (i - k) = i
    BY <1>2, <1>4
  <2>2. PICK q, j : q = SubSeq(h, k + 1, Len(h)) /\ j = i - k
    OBVIOUS
  <2>3. Len(q) = Len(h) - k /\ \A l \in 1 .. Len(h) - k : q[l] = h[k + l]
    BY <2>2, PopIs
  <2>5. j \in 1 .. Len(q) /\ q[j] = e
    BY <1>1, <2>1, <2>2, <2>3
  <2>4. In(q, e)
    BY <2>5 DEF In
  <2> QED
    BY <2>2, <2>4
<1> QED
  BY <1>2, <1>3, <1>4

-----------------------------------------------------------------------------
(* That nothing that waits for the loop is forgotten, for coroutines that each
   wait for a descriptor of their own: two that share one have a single entry
   in the epoll set, and the first of them to return removes it. *)
OwnDescriptors == \A b, c \in Blocks : FdOf[b] = FdOf[c] => b = c

(* HasWaker in terms of the lists, and never of a body that is not suspended.
   The entry of an fd in the epoll set is of its own coroutine; the timerfd is
   armed for the first deadline at every stage; the queue of the last turn is
   empty but while it is drained, so that only pushes fill it after the flip:
   the wake-up of a push may be read with the timerfd before the flip, never
   after. *)
Waker(c) ==
    /\ doing[c] # "body"
    /\ doing[c] = "sleep" =>
        In(timerCoHeap, <<until[c], c>>) \/ (at = "timers" /\ In(todo, c))
    /\ doing[c] = "wait" => registered[FdOf[c]] = c
    /\ doing[c] = "block" =>
        In(blockedCo[blockingCoIdx], c) \/ (at = "blocked" /\ In(todo, c))
Wakers == \A c \in Blocks : c \in coSet /\ state[c] = "waiting" => Waker(c)
Owned == \A f \in Fds : registered[f] # None => FdOf[registered[f]] = f
Armed ==
    timerCoHeap # << >> =>
        timerFd # Never /\ (timerFd <= now \/ timerFd <= Head(timerCoHeap)[1])
Drained == at # "drain" => newCoroutines[runningNewQue] = << >>
Seen ==
    at # "timers" /\ newCoroutines[1 - runningNewQue] # << >> =>
        timerFd # Never \/ \E t \in Threads : spawn[t].pc = "wake"
WakeInv == Wakers /\ Owned /\ Armed /\ Drained /\ Seen

LEMMA SeenFromInv ==
  ASSUME IInv, WakeInv
  PROVE  WorkWillBeSeen
<1> USE DEF IInv, TypeOK, WakeInv
<1>1. ASSUME NEW c \in coSet, state[c] = "waiting" PROVE HasWaker(c)
  <2>1. c \in Blocks /\ Waker(c)
    BY <1>1 DEF Wakers, LoopTypes
  <2>2. /\ c \in ToSet(todo) <=> In(todo, c)
        /\ c \in ToSet(blockedCo[blockingCoIdx])
            <=> In(blockedCo[blockingCoIdx], c)
    <3>1. todo \in Seq(Blocks) /\ blockedCo[blockingCoIdx] \in Seq(Blocks)
      BY DEF LoopTypes
    <3> QED
      BY <3>1, InSet
  <2>3. In(timerCoHeap, <<until[c], c>>)
        => \E i \in DOMAIN timerCoHeap : timerCoHeap[i] = <<until[c], c>>
    <3>1. DOMAIN timerCoHeap = 1 .. Len(timerCoHeap)
      BY LenProperties DEF TimerTypes
    <3> QED
      BY <3>1 DEF In
  <2>4. doing[c] \in {"sleep", "wait", "block"}
    BY <2>1 DEF Waker, CoTypes
  <2>5. CASE doing[c] = "sleep"
    BY <2>1, <2>2, <2>3, <2>5 DEF Waker, HasWaker
  <2>6. CASE doing[c] = "wait"
    BY <2>1, <2>6 DEF Waker, HasWaker
  <2>7. CASE doing[c] = "block"
    BY <2>1, <2>2, <2>7 DEF Waker, HasWaker
  <2> QED
    BY <2>4, <2>5, <2>6, <2>7
<1>2. NoneForgotten
  BY <1>1 DEF NoneForgotten
<1>3. TimerArmed /\ QueuedWillBeSeen
  BY DEF TimerArmed, QueuedWillBeSeen, Armed, Seen
<1> QED
  BY <1>2, <1>3 DEF WorkWillBeSeen

LEMMA WakeInit == Init => WakeInv
<1> SUFFICES ASSUME Init PROVE WakeInv
  OBVIOUS
<1> USE NamesAssumption DEF Init
<1>1. Wakers /\ Owned
  BY DEF Wakers, Owned
<1>2. Armed /\ Drained /\ Seen
  BY DEF Armed, Drained, Seen
<1> QED
  BY <1>1, <1>2 DEF WakeInv

LEMMA WakeCreate ==
  ASSUME IInv, BlocksInv, WakeInv, NEW t \in Threads, Create(t)
  PROVE  WakeInv'
<1> USE BoundsAssumption, NamesAssumption DEF IInv, TypeOK, BlocksInv, WakeInv
<1>1. CASE NewObj(t)
  <2> DEFINE c == Head(freeList)
  <2>1. freeList # << >> /\ c \in Blocks /\ In(freeList, c)
    BY <1>1, InTail, TailType DEF NewObj, AllocAMemBlock, PoolTypes
  <2>2. c \notin coSet
    BY <2>1 DEF Placed, Alive
  <2>3. /\ \A b \in Blocks \ {c} :
            state'[b] = state[b] /\ doing'[b] = doing[b]
        /\ \A u \in Threads : spawn[u].pc = "wake" => spawn'[u].pc = "wake"
    BY <1>1, <2>1 DEF NewObj, NewCoroutine, CoTypes, PoolTypes
  <2>4. Wakers'
    BY <1>1, <2>2, <2>3 DEF NewObj, Wakers, Waker
  <2>5. Owned' /\ Armed' /\ Drained' /\ Seen'
    BY <1>1, <2>3 DEF NewObj, Owned, Armed, Drained, Seen
  <2> QED
    BY <2>4, <2>5
<1>2. CASE LockQueue(t)
  <2>1. \A u \in Threads : spawn[u].pc = "wake" => spawn'[u].pc = "wake"
    BY <1>2 DEF LockQueue, PoolTypes
  <2>2. Wakers' /\ Owned'
    BY <1>2 DEF LockQueue, Wakers, Waker, Owned
  <2>3. Armed' /\ Drained' /\ Seen'
    BY <1>2, <2>1 DEF LockQueue, Armed, Drained, Seen
  <2> QED
    BY <2>2, <2>3
<1>3. CASE PushNew(t)
  <2>1. spawn'[t].pc = "wake"
    BY <1>3 DEF PushNew, PoolTypes
  <2>2. newCoroutines'[runningNewQue] = newCoroutines[runningNewQue]
    BY <1>3 DEF PushNew, PushesElsewhere, PoolTypes
  <2>3. Wakers' /\ Owned'
    BY <1>3 DEF PushNew, Wakers, Waker, Owned
  <2>4. Armed' /\ Drained' /\ Seen'
    BY <1>3, <2>1, <2>2 DEF PushNew, Armed, Drained, Seen
  <2> QED
    BY <2>3, <2>4
<1>4. CASE WakeUp(t)
  <2>1. timerFd' = now /\ timerFd' # Never
    BY <1>4 DEF WakeUp, Arm, TimerTypes, Never
  <2>2. Wakers' /\ Owned'
    BY <1>4 DEF WakeUp, Wakers, Waker, Owned
  <2>3. Armed' /\ Drained' /\ Seen'
    BY <1>4, <2>1 DEF WakeUp, Armed, Drained, Seen, TimerTypes
  <2> QED
    BY <2>2, <2>3
<1> QED
  BY <1>1, <1>2, <1>3, <1>4 DEF Create

(* A body that suspends leaves something that will wake it, and takes nothing
   from the others. *)
LEMMA WakeBody ==
  ASSUME OwnDescriptors, IInv, BlocksInv, WakeInv, Body
  PROVE  WakeInv'
<1> USE BoundsAssumption, NamesAssumption DEF IInv, TypeOK, BlocksInv, WakeInv
<1>1. ASSUME NEW c \in Blocks, NEW d \in Naps, Wait(c, d) PROVE WakeInv'
  <2> DEFINE e == <<now + d, c>>
  <2>1. e \in Nat \X Blocks /\ now + d \in Nat /\ timerCoHeap \in Seq(Nat \X Blocks)
    BY DEF TimerTypes
  <2>2. HeapPush(e)
    BY <1>1 DEF Wait, runAfter, RunAt
  <2>3. /\ timerCoHeap' # << >>
        /\ \A y : In(timerCoHeap', y) <=> In(timerCoHeap, y) \/ y = e
        /\ \/ Head(timerCoHeap') = e
           \/ timerCoHeap # << >> /\ Head(timerCoHeap') = Head(timerCoHeap)
    BY <2>1, <2>2, PushKeeps
  <2> HIDE DEF e
  <2>4. /\ doing'[c] = "sleep" /\ until'[c] = now + d
        /\ \A b \in Blocks \ {c} : /\ state'[b] = state[b]
                                   /\ doing'[b] = doing[b]
                                   /\ until'[b] = until[b]
        /\ UNCHANGED <<poolVars, loopVars, now, epollVars>>
    BY <1>1 DEF Wait, Suspend, CoTypes
  <2>5. Wakers'
    BY <2>3, <2>4 DEF Wakers, Waker, e
  <2>6. timerFd' = IF Head(timerCoHeap')[1] = now + d THEN now + d ELSE timerFd
    BY <1>1 DEF Wait, runAfter, RunAt, Arm
  <2>7. Armed'
    <3>1. CASE Head(timerCoHeap')[1] = now + d
      BY <2>1, <2>6, <3>1 DEF Armed, Never, e
    <3>2. CASE Head(timerCoHeap')[1] # now + d
      <4>1. timerCoHeap # << >> /\ Head(timerCoHeap') = Head(timerCoHeap)
        BY <2>3, <3>2 DEF e
      <4> QED
        BY <2>4, <2>6, <3>2, <4>1 DEF Armed
    <3> QED
      BY <3>1, <3>2
  <2>8. timerFd # Never => timerFd' # Never
    BY <2>1, <2>6 DEF Never
  <2>9. Owned' /\ Drained' /\ Seen'
    BY <2>4, <2>8 DEF Owned, Drained, Seen
  <2> QED
    BY <2>5, <2>7, <2>9
<1>2. ASSUME NEW c \in Blocks, WaitEvent(c) PROVE WakeInv'
  <2>1. /\ doing'[c] = "wait" /\ state'[c] = "waiting"
        /\ \A b \in Blocks \ {c} : state'[b] = state[b] /\ doing'[b] = doing[b]
        /\ UNCHANGED <<poolVars, loopVars, until, timerVars>>
    BY <1>2 DEF WaitEvent, Suspend, CoTypes
  <2>2. FdOf[c] \in Fds
    OBVIOUS
  <2>3. registered[FdOf[c]] \in {None, c}
    BY <2>2 DEF Owned, OwnDescriptors, EpollTypes
  <2>4. /\ registered'[FdOf[c]] = c
        /\ \A f \in Fds \ {FdOf[c]} : registered'[f] = registered[f]
    BY <1>2, <2>2, <2>3 DEF WaitEvent, addEv, EpollTypes
  <2>5. Wakers'
    <3>1. \A b \in Blocks \ {c} : registered'[FdOf[b]] = registered[FdOf[b]]
      BY <2>4 DEF OwnDescriptors
    <3> QED
      BY <2>1, <2>4, <3>1 DEF Wakers, Waker
  <2>6. Owned' /\ Armed' /\ Drained' /\ Seen'
    BY <2>1, <2>4 DEF Owned, Armed, Drained, Seen
  <2> QED
    BY <2>5, <2>6
<1>3. ASSUME NEW c \in Blocks, WaitEventReturns(c) PROVE WakeInv'
  <2>1. /\ state[c] = "running"
        /\ \A b \in Blocks \ {c} : doing'[b] = doing[b]
        /\ UNCHANGED <<poolVars, loopVars, state, until, timerVars>>
    BY <1>3 DEF WaitEventReturns, Running, CoTypes
  <2>2. /\ registered'[FdOf[c]] = None
        /\ \A f \in Fds \ {FdOf[c]} : registered'[f] = registered[f]
    BY <1>3 DEF WaitEventReturns, removeEv, EpollTypes
  <2>3. Wakers'
    <3>1. \A b \in Blocks \ {c} : registered'[FdOf[b]] = registered[FdOf[b]]
      BY <2>2 DEF OwnDescriptors
    <3> QED
      BY <2>1, <3>1 DEF Wakers, Waker
  <2>4. Owned' /\ Armed' /\ Drained' /\ Seen'
    BY <2>1, <2>2 DEF Owned, Armed, Drained, Seen
  <2> QED
    BY <2>3, <2>4
<1>4. ASSUME NEW c \in Blocks, BlockedYield(c) PROVE WakeInv'
  <2>1. /\ doing'[c] = "block"
        /\ \A b \in Blocks \ {c} : state'[b] = state[b] /\ doing'[b] = doing[b]
        /\ UNCHANGED <<poolVars, at, todo, blockingCoIdx, coSet, until,
                       timerVars, epollVars>>
    BY <1>4 DEF BlockedYield, Suspend, CoTypes
  <2>2. /\ blockedCo[blockingCoIdx] \in Seq(Blocks)
        /\ blockedCo'[blockingCoIdx] = Append(blockedCo[blockingCoIdx], c)
    BY <1>4 DEF BlockedYield, LoopTypes
  <2>3. \A b : In(blockedCo'[blockingCoIdx], b)
                <=> In(blockedCo[blockingCoIdx], b) \/ b = c
    BY <2>2, InAppend
  <2>4. Wakers'
    BY <2>1, <2>3 DEF Wakers, Waker
  <2>5. Owned' /\ Armed' /\ Drained' /\ Seen'
    BY <2>1 DEF Owned, Armed, Drained, Seen
  <2> QED
    BY <2>4, <2>5
<1>5. ASSUME NEW c \in Blocks, KillCurCo(c) PROVE WakeInv'
  <2>1. Wakers' /\ Owned'
    BY <1>5 DEF KillCurCo, Wakers, Waker, Owned
  <2>2. Armed' /\ Drained' /\ Seen'
    BY <1>5 DEF KillCurCo, Armed, Drained, Seen
  <2> QED
    BY <2>1, <2>2
<1> QED
  BY <1>1, <1>2, <1>3, <1>4, <1>5 DEF Body

(* At the stages where the loop walks over nothing. *)
LEMMA WakersKept ==
  ASSUME Wakers, at \in {"blocked", "timers"} => todo = << >>,
         coSet' \in SUBSET coSet,
         UNCHANGED <<doing, until, state, timerCoHeap, registered, blockedCo,
                     blockingCoIdx>>
  PROVE  Wakers'
  BY InEmpty DEF Wakers, Waker

(* What is left of the list that the loop walks over has those of its
   coroutines that are still suspended. *)
LEMMA WakersResumed ==
  ASSUME IInv, Wakers, ResumeNext
  PROVE  Wakers'
<1> DEFINE c == Head(todo)
<1>1. /\ c \in Blocks /\ \A b : In(todo, b) <=> b = c \/ In(todo', b)
      /\ Resume(c, coSet) /\ cur = None /\ CoTypes
      /\ UNCHANGED <<at, coSet, doing, until, timerCoHeap, registered,
                     blockedCo, blockingCoIdx>>
  BY InTail, TailType DEF ResumeNext, LoopAt, IInv, TypeOK, LoopTypes
<1> HIDE DEF c
<1>2. c \in coSet => state'[c] # "waiting"
  BY <1>1 DEF Resume, CoroutineResume, CoTypes
<1>3. \A b \in Blocks \ {c} : state'[b] = state[b]
  BY <1>1, ResumeEffect
<1> QED
  BY <1>1, <1>2, <1>3 DEF Wakers, Waker

(* A coroutine started for the first time is not waiting afterwards. *)
LEMMA WakersStarted ==
  ASSUME IInv, Wakers, StartNew
  PROVE  Wakers'
<1> DEFINE q == newCoroutines[runningNewQue]
           c == Head(q)
<1>1. /\ c \in Blocks /\ coSet' = coSet \cup {c} /\ Resume(c, coSet')
      /\ cur = None /\ CoTypes
      /\ UNCHANGED <<at, todo, doing, until, timerCoHeap, registered,
                     blockedCo, blockingCoIdx>>
  BY TailType DEF StartNew, LoopAt, IInv, TypeOK, PoolTypes
<1> HIDE DEF c, q
<1>2. state'[c] # "waiting"
  BY <1>1 DEF Resume, CoroutineResume, CoTypes
<1>3. \A b \in Blocks \ {c} : state'[b] = state[b]
  BY <1>1, ResumeEffect
<1> QED
  BY <1>1, <1>2, <1>3 DEF Wakers, Waker

(* The entries that are due go from the heap to the list, the others stay; the
   timerfd is armed for the first of those. *)
LEMMA WakersExpired ==
  ASSUME IInv, Wakers, GetExpired
  PROVE  Wakers' /\ Armed'
<1>1. PICK k \in 0 .. Len(timerCoHeap) :
          /\ todo' = [i \in 1 .. k |-> timerCoHeap[i][2]]
          /\ timerCoHeap' = SubSeq(timerCoHeap, k + 1, Len(timerCoHeap))
  BY DEF GetExpired, PopDue
<1>2. /\ at = "blocked" /\ at' = "timers" /\ todo = << >>
      /\ UNCHANGED <<coSet, state, doing, until, registered, blockedCo,
                     blockingCoIdx, now>>
      /\ Rearm /\ timerCoHeap \in Seq(Nat \X Blocks)
  BY DEF GetExpired, BlockedDone, LoopAt, IInv, TypeOK, TimerTypes
<1>3. ASSUME NEW b \in Blocks, In(timerCoHeap, <<until[b], b>>)
      PROVE  In(todo', b) \/ In(timerCoHeap', <<until[b], b>>)
  <2> DEFINE e == <<until[b], b>>
  <2>1. In(timerCoHeap, e) /\ e[2] = b
    BY <1>3
  <2> HIDE DEF e
  <2>2. \/ In([i \in 1 .. k |-> timerCoHeap[i][2]], e[2])
        \/ In(SubSeq(timerCoHeap, k + 1, Len(timerCoHeap)), e)
    BY <1>2, <2>1, PopKeeps
  <2> QED
    BY <1>1, <2>1, <2>2 DEF e
<1>4. Wakers'
  BY <1>2, <1>3, InEmpty DEF Wakers, Waker
<1>5. Armed'
  <2>1. timerCoHeap' \in Seq(Nat \X Blocks)
    BY <1>1, <1>2, DueTypes
  <2>2. timerCoHeap' # << >> => Head(timerCoHeap')[1] \in Nat
    BY <2>1, HeadTailProperties
  <2> QED
    BY <1>2, <2>2 DEF Rearm, Arm, Armed, Never
<1> QED
  BY <1>4, <1>5

LEMMA WakeLoop ==
  ASSUME IInv, WakeInv, Loop
  PROVE  WakeInv'
<1> USE BoundsAssumption, NamesAssumption DEF WakeInv
<1>1. CASE Top
  <2>1. Wakers' /\ Owned'
    BY <1>1, WakersKept DEF Top, LoopAt, Owned
  <2>2. Armed' /\ Drained' /\ Seen'
    BY <1>1 DEF Top, LoopAt, Armed, Drained, Seen
  <2> QED
    BY <2>1, <2>2
<1>2. CASE EpollWait
  <2>1. /\ at = "poll" /\ at' = "blocked" /\ todo' = blockedCo[blockingCoIdx]
        /\ UNCHANGED <<coSet, coVars, timerVars, epollVars, poolVars>>
    BY <1>2 DEF EpollWait, LoopAt
  <2>2. Wakers'
    BY <2>1 DEF Wakers, Waker
  <2>3. Owned' /\ Armed' /\ Drained' /\ Seen'
    BY <2>1 DEF Owned, Armed, Drained, Seen
  <2> QED
    BY <2>2, <2>3
<1>3. CASE ResumeNext
  <2>1. Owned' /\ Armed' /\ Drained' /\ Seen'
    BY <1>3 DEF ResumeNext, Owned, Armed, Drained, Seen
  <2> QED
    BY <1>3, <2>1, WakersResumed
<1>4. CASE GetExpired
  <2>1. Owned' /\ Drained' /\ Seen'
    BY <1>4 DEF GetExpired, BlockedDone, LoopAt, Owned, Drained, Seen
  <2> QED
    BY <1>4, <2>1, WakersExpired
<1>5. CASE SwapQueues
  <2>1. /\ at = "timers" /\ at' = "drain" /\ todo = << >>
        /\ runningNewQue' = 1 - runningNewQue
        /\ UNCHANGED <<newCoroutines, spawn, coVars, timerVars,
                       epollVars, todo, listVars>>
    BY <1>5 DEF SwapQueues, LoopAt
  <2>2. newCoroutines'[1 - runningNewQue'] = << >>
    BY <2>1 DEF Drained, IInv, TypeOK, PoolTypes
  <2>3. Wakers' /\ Owned'
    BY <2>1, WakersKept DEF Owned
  <2>4. Armed' /\ Drained' /\ Seen'
    BY <2>1, <2>2 DEF Armed, Drained, Seen
  <2> QED
    BY <2>3, <2>4
<1>6. CASE StartNew
  <2>1. newCoroutines'[1 - runningNewQue] = newCoroutines[1 - runningNewQue]
    BY <1>6 DEF StartNew, IInv, TypeOK, PoolTypes
  <2>2. Owned' /\ Armed' /\ Drained' /\ Seen'
    BY <1>6, <2>1 DEF StartNew, LoopAt, Owned, Armed, Drained, Seen
  <2> QED
    BY <1>6, <2>2, WakersStarted
<1>7. CASE QueueDrained
  <2>1. Wakers' /\ Owned'
    BY <1>7, WakersKept DEF QueueDrained, LoopAt, Owned
  <2>2. Armed' /\ Drained' /\ Seen'
    BY <1>7 DEF QueueDrained, LoopAt, Armed, Drained, Seen
  <2> QED
    BY <2>1, <2>2
<1>8. CASE ActDone \/ EraseDead \/ FreeDead \/ ClearRemoved
  <2>1. /\ at \in {"act", "bury", "free"} /\ at' \in {"bury", "free", "top"}
        /\ coSet' \in SUBSET coSet
        /\ UNCHANGED <<doing, until, state, timerVars, epollVars, blockedCo,
                       blockingCoIdx, newCoroutines, runningNewQue, spawn>>
    BY <1>8 DEF ActDone, EraseDead, FreeDead, ClearRemoved, LoopAt
  <2>2. Wakers' /\ Owned'
    BY <2>1, WakersKept DEF Owned
  <2>3. Armed' /\ Drained' /\ Seen'
    BY <2>1 DEF Armed, Drained, Seen
  <2> QED
    BY <2>2, <2>3
<1> QED
  BY <1>1, <1>2, <1>3, <1>4, <1>5, <1>6, <1>7, <1>8 DEF Loop

LEMMA WakeRest ==
  ASSUME IInv, WakeInv, Stop \/ Environment \/ UNCHANGED vars
  PROVE  WakeInv'
<1> USE DEF WakeInv
<1>1. Wakers' /\ Owned'
  BY DEF Stop, Environment, Tick, FdReady, vars, Wakers, Waker, Owned
<1>2. /\ now \in Nat /\ now' \in Nat /\ now' >= now
      /\ timerFd \in Nat \cup {Never}
      /\ UNCHANGED <<timerCoHeap, timerFd, newCoroutines, runningNewQue, spawn, at>>
  BY DEF Stop, Environment, Tick, FdReady, vars, IInv, TypeOK, TimerTypes
<1>3. Armed' /\ Drained' /\ Seen'
  BY <1>2 DEF Armed, Drained, Seen, Never
<1> QED
  BY <1>1, <1>3

LEMMA WakeInvariance ==
  ASSUME OwnDescriptors
  PROVE  Spec => [](IInv /\ BlocksInv /\ WakeInv)
<1>1. IInv /\ BlocksInv /\ WakeInv /\ [Next]_vars => WakeInv'
  BY WakeCreate, WakeBody, WakeLoop, WakeRest DEF Next
<1> QED
  BY BlocksInvariance, WakeInit, <1>1, PTL DEF Spec

(* Whatever waits for the loop will wake it: a suspended coroutine is on the
   heap, in the epoll set or on a list that the loop has still to walk over;
   the timerfd is armed for the first deadline whenever the loop may block,
   although any thread's wake-up re-arms it; and a coroutine that waits in a
   queue then has a wake-up armed or on its way. *)
THEOREM NothingForgotten ==
  ASSUME OwnDescriptors
  PROVE  Spec => []WorkWillBeSeen
BY WakeInvariance, SeenFromInv, PTL

-----------------------------------------------------------------------------
(* That a resumed coroutine has what it was suspended for, unless it is one that
   has called BlockedYield: any other that is on the heap or on a list of the
   loop is suspended for the reason for which it is there, and is on no other
   list, whatever the walk over blockedCo_ does to those that are on that. *)
Once(s, x) == \A i, j \in 1 .. Len(s) : s[i] = x /\ s[j] = x => i = j

LEMMA OnceTail ==
  ASSUME NEW S, NEW s \in Seq(S), s # << >>
  PROVE  /\ \A x : Once(s, x) => Once(Tail(s), x)
         /\ Once(s, Head(s)) => ~In(Tail(s), Head(s))
<1>1. /\ Len(s) \in Nat \ {0} /\ Len(Tail(s)) = Len(s) - 1
      /\ \A i \in 1 .. Len(Tail(s)) : Tail(s)[i] = s[i + 1]
      /\ Head(s) = s[1]
  BY EmptySeq, HeadTailProperties
<1>2. ASSUME NEW x, Once(s, x) PROVE Once(Tail(s), x)
  BY <1>1, <1>2 DEF Once
<1>3. ASSUME Once(s, Head(s)) PROVE ~In(Tail(s), Head(s))
  BY <1>1, <1>3 DEF Once, In
<1> QED
  BY <1>2, <1>3

LEMMA PushOnce ==
  ASSUME NEW e \in Nat \X Blocks, timerCoHeap \in Seq(Nat \X Blocks), HeapPush(e)
  PROVE  \A x : (Once(timerCoHeap, x) /\ x # e)
                    \/ (~In(timerCoHeap, e) /\ x = e)
                    => Once(timerCoHeap', x)
<1> DEFINE S == Nat \X Blocks
<1>1. PICK k \in 1 .. Len(timerCoHeap) + 1 :
          timerCoHeap' = InsertAt(timerCoHeap, k, e)
  BY DEF HeapPush
<1>2. timerCoHeap \in Seq(S) /\ e \in S
  OBVIOUS
<1> HIDE DEF S
<1>0. LET u == InsertAt(timerCoHeap, k, e) IN
        /\ Len(timerCoHeap) \in Nat /\ Len(u) = Len(timerCoHeap) + 1
        /\ \A i \in 1 .. Len(timerCoHeap) + 1 :
            u[i] = IF i < k THEN timerCoHeap[i]
                   ELSE IF i = k THEN e ELSE timerCoHeap[i - 1]
  BY <1>2, InsertAtIs
<1>3. PICK h, n : h = timerCoHeap' /\ n = Len(timerCoHeap)
  OBVIOUS
<1>4. /\ n \in Nat /\ Len(h) = n + 1
      /\ \A i \in 1 .. n + 1 :
            h[i] = IF i < k THEN timerCoHeap[i]
                   ELSE IF i = k THEN e ELSE timerCoHeap[i - 1]
  BY <1>0, <1>1, <1>3
<1>5. ASSUME NEW x, Once(timerCoHeap, x), x # e PROVE Once(h, x)
  <2> SUFFICES ASSUME NEW i \in 1 .. n + 1, NEW j \in 1 .. n + 1,
                      h[i] = x, h[j] = x, i < j
               PROVE  FALSE
    BY <1>4 DEF Once
  <2> DEFINE p == IF i < k THEN i ELSE i - 1
             q == IF j < k THEN j ELSE j - 1
  <2>1. i # k /\ j # k
    BY <1>4, <1>5
  <2>2. p \in 1 .. n /\ q \in 1 .. n /\ timerCoHeap[p] = x /\ timerCoHeap[q] = x
    BY <1>3, <1>4, <2>1
  <2>3. p = q
    BY <1>3, <1>5, <2>2 DEF Once
  <2> QED
    BY <1>3, <1>4, <2>1, <2>3
<1>6. ASSUME ~In(timerCoHeap, e) PROVE Once(h, e)
  <2> SUFFICES ASSUME NEW i \in 1 .. n + 1, h[i] = e, i # k
               PROVE  FALSE
    BY <1>4 DEF Once
  <2> DEFINE p == IF i < k THEN i ELSE i - 1
  <2>1. p \in 1 .. n /\ timerCoHeap[p] = e
    BY <1>3, <1>4
  <2> QED
    BY <1>3, <1>6, <2>1 DEF In
<1> QED
  BY <1>3, <1>5, <1>6

Asleep(b) == b \in coSet /\ state[b] = "waiting" /\ doing[b] = "sleep"
Awaits(b) == b \in coSet /\ state[b] = "waiting" /\ doing[b] = "wait"

BlockedWalk == at = "blocked" => \A b \in Blocks : In(todo, b) => GaveWay(b)
NewAreReady == \A b \in Blocks : Created(b) => state[b] = "ready"
HeapSleeps ==
    \A b \in Blocks, time \in Nat : ~GaveWay(b) =>
        /\ Once(timerCoHeap, <<time, b>>)
        /\ In(timerCoHeap, <<time, b>>) => Asleep(b) /\ until[b] = time
DueSleep ==
    at = "timers" => \A b \in Blocks : ~GaveWay(b) =>
        /\ Once(todo, b)
        /\ In(todo, b) =>
            /\ Asleep(b) /\ until[b] <= now
            /\ \A time \in Nat : ~In(timerCoHeap, <<time, b>>)
RegisteredWait ==
    \A f \in Fds : registered[f] # None =>
        LET b == registered[f] IN
        /\ FdOf[b] = f
        /\ b \in coSet /\ doing[b] = "wait" /\ (state[b] = "waiting" \/ cur = b)
Readable(s) ==
    \A b \in Blocks : ~GaveWay(b) =>
        Once(s, b) /\ (In(s, b) => Awaits(b) /\ FdOf[b] \in ready)
ActiveWait ==
    /\ at = "poll" => actCoroutines = << >>
    /\ at \in {"blocked", "timers", "drain"} => Readable(actCoroutines)
    /\ at = "act" => Readable(todo)
ListsInv == HeapSleeps /\ DueSleep /\ ActiveWait
CauseInv == BlockedWalk /\ NewAreReady /\ RegisteredWait /\ ListsInv

(* Nothing leaves blockedCo_. *)
LEMMA GaveWayStays ==
  ASSUME UNCHANGED blockedCo
  PROVE  \A b : GaveWay(b)' <=> GaveWay(b)
  BY DEF GaveWay

LEMMA CauseInit == Init => CauseInv
<1> SUFFICES ASSUME Init PROVE CauseInv
  OBVIOUS
<1> USE NamesAssumption DEF Init
<1>1. freeList \in Seq(Blocks) /\ \A b \in Blocks : ~Created(b)
  BY InitIInv, InEmpty DEF IInv, TypeOK, PoolTypes, Created, Held, Idle
<1>2. BlockedWalk /\ NewAreReady /\ RegisteredWait
  BY <1>1 DEF BlockedWalk, NewAreReady, RegisteredWait
<1>3. ListsInv
  BY InEmpty DEF ListsInv, HeapSleeps, DueSleep, ActiveWait, Once
<1> QED
  BY <1>2, <1>3 DEF CauseInv

(* A coroutine that is not suspended is on none of the lists, one that has given
   way may be on any, and what happens to either does not concern the others. *)
LEMMA ListsKept ==
  ASSUME ListsInv, IInv, NEW c \in Blocks,
         (~Asleep(c) /\ ~Awaits(c)) \/ GaveWay(c)',
         \A b \in Blocks : GaveWay(b) => GaveWay(b)',
         \A b \in Blocks \ {c} :
            /\ state'[b] = state[b] /\ doing'[b] = doing[b]
            /\ until'[b] = until[b] /\ (b \in coSet <=> b \in coSet')
            /\ FdOf[b] \in ready => FdOf[b] \in ready',
         timerCoHeap' = timerCoHeap, now' \in Nat, now' >= now,
         \/ UNCHANGED <<at, todo, actCoroutines>>
         \/ at' \in {"top", "bury", "free", "stopped"}
  PROVE  ListsInv'
<1> USE DEF ListsInv
<1>1. \A b \in Blocks \ {c} :
        (Asleep(b)' <=> Asleep(b)) /\ (Awaits(b)' <=> Awaits(b))
  BY DEF Asleep, Awaits
<1>2. HeapSleeps'
  BY <1>1 DEF HeapSleeps, Once
<1>3. CASE at' \in {"top", "bury", "free", "stopped"}
  BY <1>2, <1>3 DEF DueSleep, ActiveWait
<1>4. CASE UNCHANGED <<at, todo, actCoroutines>>
  <2>1. now \in Nat /\ until \in [Blocks -> Nat]
    BY DEF IInv, TypeOK, TimerTypes, CoTypes
  <2>2. DueSleep'
    BY <1>1, <1>4, <2>1 DEF DueSleep, Once
  <2>3. Readable(actCoroutines) => Readable(actCoroutines)'
    BY <1>1, <1>4 DEF Readable, Once
  <2>4. Readable(todo) => Readable(todo)'
    BY <1>1, <1>4 DEF Readable, Once
  <2>5. ActiveWait'
    BY <1>4, <2>3, <2>4 DEF ActiveWait
  <2> QED
    BY <1>2, <2>2, <2>5
<1> QED
  BY <1>3, <1>4

LEMMA CauseCreate ==
  ASSUME IInv, BlocksInv, CauseInv, NEW t \in Threads, Create(t)
  PROVE  CauseInv'
<1> USE BoundsAssumption, NamesAssumption DEF IInv, TypeOK, BlocksInv, CauseInv
<1>1. CASE NewObj(t)
  <2>. PICK c \in Blocks : c = Head(freeList)
    BY <1>1, TailType DEF NewObj, AllocAMemBlock, PoolTypes
  <2>1. In(freeList, c)
    BY <1>1, InTail DEF NewObj, AllocAMemBlock, PoolTypes
  <2>2. c \notin coSet
    BY <2>1 DEF Placed, Alive
  <2>3. /\ state'[c] = "ready"
        /\ \A b \in Blocks \ {c} : state'[b] = state[b] /\ doing'[b] = doing[b]
        /\ UNCHANGED <<newCoroutines, loopVars, cur, until, timerVars, epollVars>>
    BY <1>1 DEF NewObj, NewCoroutine, CoTypes
  <2>4. /\ spawn'[t].co = c /\ spawn[t].pc = "idle"
        /\ \A u \in Threads \ {t} : spawn'[u] = spawn[u]
    BY <1>1 DEF NewObj, PoolTypes
  <2>5. \A b \in Blocks : Created(b)' => Created(b) \/ b = c
    BY <2>3, <2>4 DEF Created, Held
  <2>6. BlockedWalk' /\ NewAreReady'
    BY <2>3, <2>5, GaveWayStays DEF BlockedWalk, NewAreReady
  <2>7. RegisteredWait'
    BY <2>2, <2>3 DEF RegisteredWait, EpollTypes
  <2>8. ListsInv'
    <3>1. ~Asleep(c) /\ ~Awaits(c)
      BY <2>2 DEF Asleep, Awaits
    <3>2. now' \in Nat /\ now' >= now
      BY <2>3 DEF TimerTypes
    <3>3. \A b \in Blocks : GaveWay(b) => GaveWay(b)'
      BY <2>3, GaveWayStays
    <3> QED
      BY <2>3, <3>1, <3>2, <3>3, ListsKept
  <2> QED
    BY <2>6, <2>7, <2>8
<1>2. ASSUME LockQueue(t) \/ PushNew(t) \/ WakeUp(t) PROVE CauseInv'
  <2>1. UNCHANGED <<loopVars, coVars, timerCoHeap, now, epollVars>>
    BY <1>2 DEF LockQueue, PushNew, WakeUp
  <2>2. \A b \in Blocks : Created(b)' => Created(b)
    <3>1. CASE LockQueue(t) \/ WakeUp(t)
      <4>1. /\ newCoroutines' = newCoroutines
            /\ spawn'[t].pc \in {"lock", "push"} =>
                spawn[t].pc \in {"lock", "push"} /\ spawn'[t].co = spawn[t].co
            /\ \A u \in Threads \ {t} : spawn'[u] = spawn[u]
        BY <3>1 DEF LockQueue, WakeUp, Idle, PoolTypes
      <4> QED
        BY <4>1 DEF Created, Held
    <3>2. CASE PushNew(t)
      <4> DEFINE q == spawn[t].que
                 c == spawn[t].co
      <4>1. /\ c \in Blocks /\ q \in {0, 1} /\ Held(c)
            /\ newCoroutines' =
                [newCoroutines EXCEPT ![q] = Append(newCoroutines[q], c)]
        BY <3>2 DEF PushNew, HasBlock, PoolTypes, Held
      <4>2. \A b : In(Append(newCoroutines[q], c), b)
                    <=> In(newCoroutines[q], b) \/ b = c
        BY <4>1, InAppend DEF PoolTypes
      <4>3. /\ spawn'[t].pc = "wake"
            /\ \A u \in Threads \ {t} : spawn'[u] = spawn[u]
        BY <3>2 DEF PushNew, PoolTypes
      <4>4. \A b : Held(b)' => Held(b)
        BY <4>3 DEF Held
      <4> HIDE DEF q, c
      <4>5. CASE q = 0
        BY <4>1, <4>2, <4>4, <4>5 DEF Created, PoolTypes
      <4>6. CASE q = 1
        BY <4>1, <4>2, <4>4, <4>6 DEF Created, PoolTypes
      <4> QED
        BY <4>1, <4>5, <4>6
    <3> QED
      BY <1>2, <3>1, <3>2
  <2>3. BlockedWalk' /\ NewAreReady' /\ RegisteredWait'
    BY <2>1, <2>2, GaveWayStays DEF BlockedWalk, NewAreReady, RegisteredWait
  <2>4. HeapSleeps' /\ DueSleep' /\ ActiveWait'
    BY <2>1, GaveWayStays
       DEF ListsInv, HeapSleeps, DueSleep, ActiveWait, Asleep, Awaits, Readable,
           Once
  <2> QED
    BY <2>3, <2>4 DEF ListsInv
<1> QED
  BY <1>1, <1>2 DEF Create

(* Bodies: only the current coroutine changes, and it is on no list. *)
LEMMA CauseBody ==
  ASSUME OwnDescriptors, IInv, BlocksInv, CauseInv, Body
  PROVE  CauseInv'
<1> USE BoundsAssumption, NamesAssumption DEF IInv, TypeOK, BlocksInv, CauseInv
<1>0. ASSUME NEW c \in Blocks, cur = c
      PROVE  /\ state[c] = "running" /\ c \in coSet /\ ~Created(c)
             /\ ~Asleep(c) /\ ~Awaits(c)
  <2>1. state[c] = "running" /\ c \in coSet
    BY <1>0 DEF Running
  <2> QED
    BY <2>1 DEF Asleep, Awaits, Created, Placed, Alive
<1>1. ASSUME NEW c \in Blocks, cur = c,
             UNCHANGED <<poolVars, blockedCo, at, todo, coSet>>,
             \A b \in Blocks \ {c} : state'[b] = state[b]
      PROVE  BlockedWalk' /\ NewAreReady'
  <2>1. \A b \in Blocks : Created(b)' = Created(b)
    BY <1>1 DEF Created, Held
  <2> QED
    BY <1>0, <1>1, <2>1, GaveWayStays DEF BlockedWalk, NewAreReady
<1>2. ASSUME NEW c \in Blocks, NEW d \in Naps, Wait(c, d) PROVE CauseInv'
  <2> DEFINE e == <<now + d, c>>
  <2>1. e \in Nat \X Blocks /\ now + d \in Nat /\ timerCoHeap \in Seq(Nat \X Blocks)
    BY DEF TimerTypes
  <2>2. /\ cur = c /\ doing[c] # "wait" /\ state'[c] = "waiting"
        /\ doing'[c] = "sleep" /\ until'[c] = now + d /\ cur' = None
        /\ \A b \in Blocks \ {c} : /\ state'[b] = state[b]
                                   /\ doing'[b] = doing[b]
                                   /\ until'[b] = until[b]
        /\ UNCHANGED <<poolVars, loopVars, now, epollVars>>
        /\ HeapPush(e)
    BY <1>2 DEF Wait, Suspend, InBody, CoTypes, runAfter, RunAt
  <2>3. GaveWay(c) \/ ~In(timerCoHeap, e)
    BY <1>0, <2>1, <2>2 DEF ListsInv, HeapSleeps
  <2>4. /\ \A y : In(timerCoHeap', y) <=> In(timerCoHeap, y) \/ y = e
        /\ \A y : Once(timerCoHeap, y) /\ y # e => Once(timerCoHeap', y)
        /\ ~In(timerCoHeap, e) => Once(timerCoHeap', e)
    BY <2>1, <2>2, PushKeeps, PushOnce
  <2>0. \A b : GaveWay(b)' <=> GaveWay(b)
    BY <2>2, GaveWayStays
  <2>5. \A b \in Blocks \ {c} :
            (Asleep(b)' <=> Asleep(b)) /\ (Awaits(b)' <=> Awaits(b))
    BY <2>2 DEF Asleep, Awaits
  <2>6. \A time \in Nat, b \in Blocks : <<time, b>> = e <=> time = now + d /\ b = c
    OBVIOUS
  <2> HIDE DEF e
  <2>7. Asleep(c)'
    BY <1>0, <2>2 DEF Asleep
  <2>8. HeapSleeps'
    BY <1>0, <2>0, <2>2, <2>3, <2>4, <2>5, <2>6, <2>7 DEF ListsInv, HeapSleeps
  <2>9. DueSleep'
    BY <1>0, <2>0, <2>2, <2>4, <2>5, <2>6 DEF ListsInv, DueSleep, Once
  <2>10. ActiveWait'
    BY <1>0, <2>0, <2>2, <2>5 DEF ListsInv, ActiveWait, Readable, Once
  <2>11. RegisteredWait'
    BY <2>2 DEF RegisteredWait, EpollTypes
  <2> QED
    BY <1>1, <2>2, <2>8, <2>9, <2>10, <2>11 DEF ListsInv
<1>3. ASSUME NEW c \in Blocks, WaitEvent(c) PROVE CauseInv'
  <2>1. /\ cur = c /\ doing[c] # "wait" /\ state'[c] = "waiting"
        /\ doing'[c] = "wait" /\ cur' = None
        /\ \A b \in Blocks \ {c} : state'[b] = state[b] /\ doing'[b] = doing[b]
        /\ registered' = [registered EXCEPT ![FdOf[c]] = IF @ = None THEN c ELSE @]
        /\ UNCHANGED <<poolVars, loopVars, until, timerVars, ready>>
    BY <1>3 DEF WaitEvent, addEv, Suspend, InBody, CoTypes
  <2>2. ListsInv'
    <3>1. now' \in Nat /\ now' >= now
      BY <2>1 DEF TimerTypes
    <3>2. \A b \in Blocks : GaveWay(b) => GaveWay(b)'
      BY <2>1, GaveWayStays
    <3> QED
      BY <1>0, <2>1, <3>1, <3>2, ListsKept
  <2>3. RegisteredWait'
    BY <1>0, <2>1 DEF RegisteredWait, EpollTypes
  <2> QED
    BY <1>1, <2>1, <2>2, <2>3
<1>4. ASSUME NEW c \in Blocks, WaitEventReturns(c) PROVE CauseInv'
  <2>1. /\ cur = c
        /\ \A b \in Blocks \ {c} : doing'[b] = doing[b] /\ FdOf[b] # FdOf[c]
        /\ registered' = [registered EXCEPT ![FdOf[c]] = None]
        /\ ready' = ready \ {FdOf[c]}
        /\ UNCHANGED <<poolVars, loopVars, cur, state, until, timerVars>>
    BY <1>4 DEF WaitEventReturns, removeEv, CoTypes, OwnDescriptors
  <2>2. ListsInv'
    <3>1. now' \in Nat /\ now' >= now
      BY <2>1 DEF TimerTypes
    <3>2. \A b \in Blocks : GaveWay(b) => GaveWay(b)'
      BY <2>1, GaveWayStays
    <3> QED
      BY <1>0, <2>1, <3>1, <3>2, ListsKept
  <2>3. RegisteredWait'
    BY <2>1 DEF RegisteredWait, EpollTypes
  <2> QED
    BY <1>1, <2>1, <2>2, <2>3
<1>5. ASSUME NEW c \in Blocks, KillCurCo(c) PROVE CauseInv'
  <2>1. /\ cur = c /\ doing[c] # "wait" /\ cur' = None
        /\ UNCHANGED <<poolVars, at, todo, actCoroutines, blockedCo, coSet,
                       state, doing, until, timerVars, epollVars>>
    BY <1>5 DEF KillCurCo, InBody
  <2>2. ListsInv'
    <3>1. now' \in Nat /\ now' >= now
      BY <2>1 DEF TimerTypes
    <3>2. \A b \in Blocks : GaveWay(b) => GaveWay(b)'
      BY <2>1, GaveWayStays
    <3> QED
      BY <1>0, <2>1, <3>1, <3>2, ListsKept
  <2>3. RegisteredWait'
    BY <2>1 DEF RegisteredWait, EpollTypes
  <2> QED
    BY <1>1, <2>1, <2>2, <2>3
<1>6. ASSUME NEW c \in Blocks, BlockedYield(c) PROVE CauseInv'
  <2>1. /\ cur = c /\ doing[c] # "wait" /\ state'[c] = "waiting" /\ cur' = None
        /\ \A b \in Blocks \ {c} : state'[b] = state[b] /\ doing'[b] = doing[b]
        /\ blockedCo' = [blockedCo EXCEPT ![blockingCoIdx] = Append(@, c)]
        /\ UNCHANGED <<poolVars, at, todo, actCoroutines, coSet, until,
                       timerVars, epollVars>>
    BY <1>6 DEF BlockedYield, Suspend, InBody, CoTypes
  <2>2. GaveWay(c)' /\ \A b \in Blocks : GaveWay(b) => GaveWay(b)'
    <3> DEFINE s == blockedCo[blockingCoIdx]
    <3>1. /\ blockingCoIdx \in {0, 1} /\ s \in Seq(Blocks)
          /\ blockedCo'[blockingCoIdx] = Append(s, c)
          /\ blockedCo'[1 - blockingCoIdx] = blockedCo[1 - blockingCoIdx]
      BY <2>1 DEF LoopTypes
    <3> HIDE DEF s
    <3>2. /\ Append(s, c) \in Seq(Blocks)
          /\ \A b : In(Append(s, c), b) <=> In(s, b) \/ b = c
      BY <3>1, InAppend, AppendProperties
    <3>3. \A b : b \in ToSet(Append(s, c)) <=> b \in ToSet(s) \/ b = c
      BY <3>1, <3>2, InSet
    <3>4. GaveWay(c)'
      BY <3>1, <3>3 DEF GaveWay
    <3>5. ASSUME NEW b \in Blocks, GaveWay(b) PROVE GaveWay(b)'
      <4>1. PICK i \in {0, 1} : b \in ToSet(blockedCo[i])
        BY <3>5 DEF GaveWay
      <4>2. CASE i = blockingCoIdx
        BY <3>1, <3>3, <4>1, <4>2 DEF GaveWay, s
      <4>3. CASE i # blockingCoIdx
        <5>1. i = 1 - blockingCoIdx
          BY <3>1, <4>3
        <5>2. b \in ToSet(blockedCo'[i])
          BY <3>1, <4>1, <5>1
        <5> QED
          BY <5>2 DEF GaveWay
      <4> QED
        BY <4>2, <4>3
    <3> QED
      BY <3>4, <3>5
  <2>3. ListsInv'
    <3>1. now' \in Nat /\ now' >= now
      BY <2>1 DEF TimerTypes
    <3> QED
      BY <1>0, <2>1, <2>2, <3>1, ListsKept
  <2>4. RegisteredWait'
    BY <2>1 DEF RegisteredWait, EpollTypes
  <2>5. \A b \in Blocks : Created(b)' = Created(b)
    BY <2>1 DEF Created, Held
  <2>6. BlockedWalk' /\ NewAreReady'
    BY <1>0, <2>1, <2>2, <2>5 DEF BlockedWalk, NewAreReady
  <2> QED
    BY <2>3, <2>4, <2>6
<1> QED
  BY <1>2, <1>3, <1>4, <1>5, <1>6 DEF Body

(* What epoll_wait reports: no coroutine twice, each suspended in waitEvent and
   with its descriptor readable. *)
LEMMA ReportedReadable ==
  ASSUME IInv, CauseInv, EpollWait
  PROVE  Readable(actCoroutines')
<1> USE NamesAssumption DEF IInv, TypeOK, CauseInv
<1> DEFINE S == {registered[f] : f \in Reported}
<1>1. at = "poll" /\ cur = None /\ actCoroutines = << >>
  BY DEF EpollWait, LoopAt, ListsInv, ActiveWait
<1>2. S \in SUBSET Blocks
  BY DEF EpollTypes, Reported
<1>3. PICK active \in SetToSeqs(S) : actCoroutines' = actCoroutines \o active
  BY DEF EpollWait
<1>4. active \in Seq(Blocks)
  BY <1>2, <1>3, ActiveType
<1>5. actCoroutines' = active
  BY <1>1, <1>3, <1>4, ConcatEmptySeq
<1>6. \A f \in Reported :
        LET b == registered[f] IN
        b \in Blocks /\ Awaits(b) /\ FdOf[b] = f /\ f \in ready
  BY <1>1 DEF Reported, RegisteredWait, Awaits, EpollTypes
<1>7. \A i \in 1 .. Len(active) : active[i] \in S
  <2>1. active \in [1 .. Cardinality(S) -> S]
    BY <1>3 DEF SetToSeqs
  <2>2. DOMAIN active = 1 .. Len(active)
    BY <1>4, LenProperties
  <2> HIDE DEF S
  <2> QED
    BY <2>1, <2>2
<1>8. Distinct(active)
  <2>1. /\ active \in [1 .. Cardinality(S) -> S]
        /\ \A i, j \in 1 .. Cardinality(S) : i # j => active[i] # active[j]
    BY <1>3 DEF SetToSeqs
  <2>2. DOMAIN active = 1 .. Len(active)
    BY <1>4, LenProperties
  <2> HIDE DEF S
  <2>3. 1 .. Cardinality(S) = 1 .. Len(active)
    BY <2>1, <2>2
  <2> QED
    BY <2>1, <2>3 DEF Distinct
<1>9. ASSUME NEW b \in Blocks, In(active, b)
      PROVE  Awaits(b) /\ FdOf[b] \in ready
  BY <1>6, <1>7, <1>9 DEF In
<1>10. \A b : Once(active, b)
  BY <1>8 DEF Distinct, Once
<1> QED
  BY <1>5, <1>9, <1>10 DEF Readable

(* The coroutines that are due: each sleeps, its deadline has passed, and it
   has left the heap. *)
LEMMA DueAsleep ==
  ASSUME IInv, CauseInv, GetExpired
  PROVE  HeapSleeps' /\ DueSleep'
<1>1. PICK k \in 0 .. Len(timerCoHeap) :
          /\ \A i \in 1 .. k : timerCoHeap[i][1] <= now
          /\ todo' = [i \in 1 .. k |-> timerCoHeap[i][2]]
          /\ timerCoHeap' = SubSeq(timerCoHeap, k + 1, Len(timerCoHeap))
  BY DEF GetExpired, PopDue
<1>2. /\ UNCHANGED <<coSet, state, doing, until, now, blockedCo>>
      /\ timerCoHeap \in Seq(Nat \X Blocks) /\ Len(timerCoHeap) \in Nat
  BY LenProperties
     DEF GetExpired, BlockedDone, LoopAt, IInv, TypeOK, TimerTypes
<1>3. /\ Len(todo') = k /\ Len(timerCoHeap') = Len(timerCoHeap) - k
      /\ \A i \in 1 .. k : todo'[i] = timerCoHeap[i][2]
      /\ \A i \in 1 .. Len(timerCoHeap) - k :
            timerCoHeap'[i] = timerCoHeap[k + i]
  BY <1>1, <1>2, PopIs
<1>4. \A i \in 1 .. Len(timerCoHeap) : timerCoHeap[i] \in Nat \X Blocks
  BY <1>2, ElementOfSeq
<1>5. \A i \in 1 .. Len(timerCoHeap) :
        /\ timerCoHeap[i] = <<timerCoHeap[i][1], timerCoHeap[i][2]>>
        /\ timerCoHeap[i][1] \in Nat /\ timerCoHeap[i][2] \in Blocks
  BY <1>4
<1>6. ASSUME NEW i \in 1 .. Len(timerCoHeap), ~GaveWay(timerCoHeap[i][2])
      PROVE  /\ Asleep(timerCoHeap[i][2])
             /\ until[timerCoHeap[i][2]] = timerCoHeap[i][1]
  <2>1. In(timerCoHeap, <<timerCoHeap[i][1], timerCoHeap[i][2]>>)
    BY <1>5 DEF In
  <2> QED
    BY <1>5, <1>6, <2>1 DEF CauseInv, ListsInv, HeapSleeps
<1>7. ASSUME NEW i \in 1 .. Len(timerCoHeap), NEW j \in 1 .. Len(timerCoHeap),
             timerCoHeap[i][2] = timerCoHeap[j][2],
             ~GaveWay(timerCoHeap[i][2])
      PROVE  i = j
  <2>1. timerCoHeap[i] = timerCoHeap[j]
    BY <1>5, <1>6, <1>7
  <2>2. PICK time \in Nat, b \in Blocks :
            timerCoHeap[i] = <<time, b>> /\ ~GaveWay(b)
    BY <1>5, <1>7
  <2>3. Once(timerCoHeap, <<time, b>>)
    BY <2>2 DEF CauseInv, ListsInv, HeapSleeps
  <2> QED
    BY <2>1, <2>2, <2>3 DEF Once
<1>8. \A b : (Asleep(b)' <=> Asleep(b)) /\ (GaveWay(b)' <=> GaveWay(b))
  BY <1>2, GaveWayStays DEF Asleep
<1>9. HeapSleeps'
  <2>1. ASSUME NEW b \in Blocks, NEW time \in Nat, ~GaveWay(b)
        PROVE  Once(timerCoHeap', <<time, b>>)
    <3>1. ASSUME NEW i \in 1 .. Len(timerCoHeap) - k,
                 NEW j \in 1 .. Len(timerCoHeap) - k,
                 timerCoHeap[k + i] = <<time, b>>,
                 timerCoHeap[k + j] = <<time, b>>
          PROVE  i = j
      <4>1. k + i \in 1 .. Len(timerCoHeap) /\ k + j \in 1 .. Len(timerCoHeap)
        BY <1>2
      <4>2. timerCoHeap[k + i][2] = b /\ timerCoHeap[k + j][2] = b
        BY <3>1
      <4>3. k + i = k + j
        BY <1>7, <2>1, <4>1, <4>2
      <4> QED
        BY <1>2, <4>3
    <3>2. PICK h, e, n : h = timerCoHeap' /\ e = <<time, b>> /\ n = Len(h)
      OBVIOUS
    <3>3. n = Len(timerCoHeap) - k /\ \A i \in 1 .. n : h[i] = timerCoHeap[k + i]
      BY <1>3, <3>2
    <3>4. \A i, j \in 1 .. n : h[i] = e /\ h[j] = e => i = j
      BY <3>1, <3>2, <3>3
    <3> QED
      BY <3>2, <3>4 DEF Once
  <2>2. ASSUME NEW b \in Blocks, NEW time \in Nat, In(timerCoHeap', <<time, b>>)
        PROVE  In(timerCoHeap, <<time, b>>)
    <3>1. PICK i \in 1 .. Len(timerCoHeap) - k : timerCoHeap'[i] = <<time, b>>
      BY <1>3, <2>2 DEF In
    <3>2. k + i \in 1 .. Len(timerCoHeap) /\ timerCoHeap[k + i] = <<time, b>>
      BY <1>2, <1>3, <3>1
    <3> QED
      BY <3>2 DEF In
  <2> QED
    BY <1>2, <1>8, <2>1, <2>2 DEF CauseInv, ListsInv, HeapSleeps
<1>10. DueSleep'
  <2>1. ASSUME NEW b \in Blocks, ~GaveWay(b)
        PROVE  Once(todo', b)
    <3>1. \A i \in 1 .. k : i \in 1 .. Len(timerCoHeap)
      BY <1>2
    <3> QED
      BY <1>3, <1>7, <2>1, <3>1 DEF Once
  <2>2. ASSUME NEW b \in Blocks, In(todo', b), ~GaveWay(b)
        PROVE  /\ Asleep(b) /\ until[b] <= now
               /\ \A time \in Nat : ~In(timerCoHeap', <<time, b>>)
    <3>1. PICK i \in 1 .. k : todo'[i] = b
      BY <1>3, <2>2 DEF In
    <3>2. i \in 1 .. Len(timerCoHeap) /\ timerCoHeap[i][2] = b
      BY <1>2, <1>3, <3>1
    <3>3. ASSUME NEW time \in Nat, In(timerCoHeap', <<time, b>>) PROVE FALSE
      <4>1. PICK j \in 1 .. Len(timerCoHeap) - k : timerCoHeap'[j] = <<time, b>>
        BY <1>3, <3>3 DEF In
      <4>2. k + j \in 1 .. Len(timerCoHeap) /\ timerCoHeap[k + j][2] = b
        BY <1>2, <1>3, <4>1
      <4>3. i = k + j
        BY <1>7, <2>2, <3>2, <4>2
      <4> QED
        BY <1>2, <4>3
    <3> QED
      BY <1>1, <1>6, <2>2, <3>2, <3>3
  <2> QED
    BY <1>2, <1>8, <2>1, <2>2 DEF DueSleep
<1> QED
  BY <1>9, <1>10

(* A coroutine that the loop resumes has given way, or leaves the one list that
   it is on. *)
LEMMA CauseResume ==
  ASSUME IInv, BlocksInv, CauseInv, ResumeNext
  PROVE  CauseInv'
<1> USE BoundsAssumption, NamesAssumption DEF IInv, TypeOK, BlocksInv, CauseInv
<1>. PICK c \in Blocks : c = Head(todo)
  BY TailType DEF ResumeNext, LoopTypes
<1>1. /\ at \in {"blocked", "timers", "act"} /\ cur = None /\ Resume(c, coSet)
      /\ todo # << >> /\ todo' = Tail(todo)
      /\ UNCHANGED <<poolVars, at, actCoroutines, listVars, doing, until,
                     timerVars, epollVars>>
  BY DEF ResumeNext, LoopAt
<1>2. /\ \A b : In(todo, b) <=> b = c \/ In(todo', b)
      /\ \A b : Once(todo, b) => Once(todo', b)
      /\ Once(todo, c) => ~In(todo', c)
  <2>1. /\ \A b : In(todo, b) <=> b = Head(todo) \/ In(Tail(todo), b)
        /\ \A b : Once(todo, b) => Once(Tail(todo), b)
        /\ Once(todo, Head(todo)) => ~In(Tail(todo), Head(todo))
    BY <1>1, InTail, OnceTail DEF LoopTypes
  <2> QED
    BY <1>1, <2>1
<1>3. /\ \A b : GaveWay(b)' <=> GaveWay(b)
      /\ \A b \in Blocks : Created(b)' <=> Created(b)
  BY <1>1, GaveWayStays DEF Created, Held
<1>4. /\ at = "blocked" => GaveWay(c)
      /\ at = "timers" /\ ~GaveWay(c) =>
            Asleep(c) /\ \A time \in Nat : ~In(timerCoHeap, <<time, c>>)
      /\ at = "act" /\ ~GaveWay(c) => Awaits(c)
  BY <1>1, <1>2 DEF BlockedWalk, ListsInv, DueSleep, ActiveWait, Readable
<1>5. /\ \A b \in Blocks \ {c} : state'[b] = state[b]
      /\ cur' # None => /\ cur' = c /\ c \in coSet
                        /\ state[c] \in {"ready", "waiting"}
                        /\ state'[c] = "running"
      /\ cur' = None => state' = state
  BY <1>1, ResumeEffect
<1>6. \A b \in Blocks \ {c} :
        (Asleep(b)' <=> Asleep(b)) /\ (Awaits(b)' <=> Awaits(b))
  BY <1>1, <1>5 DEF Asleep, Awaits
<1>7. BlockedWalk'
  BY <1>1, <1>2, <1>3 DEF BlockedWalk
<1>8. NewAreReady'
  <2>1. c \in coSet => ~Created(c)
    BY DEF Created, Placed, Alive
  <2> QED
    BY <1>3, <1>5, <2>1 DEF NewAreReady
<1>9. RegisteredWait'
  BY <1>1, <1>5 DEF RegisteredWait, EpollTypes
<1>10. GaveWay(c) \/ \A time \in Nat : ~In(timerCoHeap, <<time, c>>)
  BY <1>1, <1>4 DEF ListsInv, HeapSleeps, Asleep, Awaits
<1>11. HeapSleeps'
  BY <1>1, <1>3, <1>6, <1>10 DEF ListsInv, HeapSleeps, Once
<1>12. DueSleep'
  BY <1>1, <1>2, <1>3, <1>6 DEF ListsInv, DueSleep
<1>13. ActiveWait'
  <2>1. at = "timers" => GaveWay(c) \/ ~In(actCoroutines, c)
    BY <1>4 DEF ListsInv, ActiveWait, Readable, Asleep, Awaits
  <2>2. at \in {"blocked", "timers", "drain"} => Readable(actCoroutines)'
    BY <1>1, <1>3, <1>4, <1>6, <2>1 DEF ListsInv, ActiveWait, Readable, Once
  <2>3. at = "act" => Readable(todo)'
    BY <1>1, <1>2, <1>3, <1>6 DEF ListsInv, ActiveWait, Readable
  <2> QED
    BY <1>1, <2>2, <2>3 DEF ActiveWait
<1> QED
  BY <1>7, <1>8, <1>9, <1>11, <1>12, <1>13 DEF ListsInv

(* One that it starts was on none of them. *)
LEMMA CauseStart ==
  ASSUME IInv, BlocksInv, CauseInv, StartNew
  PROVE  CauseInv' /\ \A b \in Blocks : ~(state[b] = "waiting" /\ state'[b] = "running")
<1> USE BoundsAssumption, NamesAssumption DEF IInv, TypeOK, BlocksInv, CauseInv
<1> DEFINE q == newCoroutines[runningNewQue]
<1>1. q \in Seq(Blocks) /\ q # << >> /\ runningNewQue \in {0, 1}
  BY DEF StartNew, PoolTypes
<1>. PICK c \in Blocks : c = Head(q)
  BY <1>1, TailType
<1>2. /\ \A b : In(q, b) <=> b = c \/ In(Tail(q), b)
      /\ Distinct(q) => ~In(Tail(q), c)
  BY <1>1, InTail
<1>3. /\ at = "drain" /\ cur = None /\ coSet' = coSet \cup {c}
      /\ Resume(c, coSet')
      /\ newCoroutines' = [newCoroutines EXCEPT ![runningNewQue] = Tail(q)]
      /\ UNCHANGED <<spawn, at, todo, actCoroutines, blockedCo, doing, until,
                     timerVars, epollVars>>
  BY DEF StartNew, LoopAt
<1>4. In(newCoroutines[0], c) \/ In(newCoroutines[1], c)
  BY <1>1, <1>2
<1>5. /\ c \notin coSet /\ ~Held(c) /\ Created(c) /\ state[c] = "ready"
      /\ ~(In(newCoroutines[0], c) /\ In(newCoroutines[1], c))
  BY <1>4 DEF Placed, Alive, Created, NewAreReady
<1>6. /\ cur' = c /\ state'[c] = "running"
      /\ \A b \in Blocks \ {c} : state'[b] = state[b]
  BY <1>3, <1>5 DEF Resume, CoroutineResume, CoTypes
<1>7. \A b \in Blocks : Created(b)' => Created(b) /\ b # c
  <2>1. \A b \in Blocks : Held(b)' <=> Held(b)
    BY <1>3 DEF Held
  <2>2. CASE runningNewQue = 0
    <3>1. newCoroutines'[0] = Tail(q) /\ newCoroutines'[1] = newCoroutines[1]
      BY <1>3, <2>2 DEF PoolTypes
    <3> QED
      BY <1>2, <1>5, <2>1, <2>2, <3>1 DEF Created, NoDoubles
  <2>3. CASE runningNewQue = 1
    <3>1. newCoroutines'[1] = Tail(q) /\ newCoroutines'[0] = newCoroutines[0]
      BY <1>3, <2>3 DEF PoolTypes
    <3> QED
      BY <1>2, <1>5, <2>1, <2>3, <3>1 DEF Created, NoDoubles
  <2> QED
    BY <1>1, <2>2, <2>3
<1>8. BlockedWalk' /\ NewAreReady'
  BY <1>3, <1>6, <1>7, GaveWayStays DEF BlockedWalk, NewAreReady
<1>9. RegisteredWait'
  BY <1>3, <1>5, <1>6 DEF RegisteredWait, EpollTypes
<1>10. ListsInv'
  <2>1. ~Asleep(c) /\ ~Awaits(c) /\ now' \in Nat /\ now' >= now
    BY <1>3, <1>5 DEF Asleep, Awaits, TimerTypes
  <2>2. \A b \in Blocks : GaveWay(b) => GaveWay(b)'
    BY <1>3, GaveWayStays
  <2> HIDE DEF q
  <2> QED
    BY <1>3, <1>6, <2>1, <2>2, ListsKept
<1> QED
  BY <1>5, <1>6, <1>8, <1>9, <1>10

LEMMA CauseLoop ==
  ASSUME IInv, BlocksInv, CauseInv, Loop
  PROVE  CauseInv'
<1> USE BoundsAssumption, NamesAssumption DEF CauseInv
<1>0. ASSUME UNCHANGED <<newCoroutines, spawn, state, blockedCo>>,
             at' # "blocked"
      PROVE  BlockedWalk' /\ NewAreReady'
  BY <1>0 DEF BlockedWalk, NewAreReady, Created, Held
<1>1. ASSUME UNCHANGED <<timerCoHeap, coSet, state, doing, until, blockedCo>>
      PROVE  HeapSleeps'
  BY <1>1, GaveWayStays DEF ListsInv, HeapSleeps, Asleep, Once
<1>2. ASSUME UNCHANGED <<coSet, state, doing, ready, blockedCo>>,
             NEW s, UNCHANGED s, Readable(s)
      PROVE  Readable(s)'
  BY <1>2, GaveWayStays DEF Readable, Awaits, Once
<1>3. CASE Top
  <2>1. /\ at' \in {"poll", "stopped"}
        /\ at' = "poll" => actCoroutines' = << >>
        /\ UNCHANGED <<poolVars, listVars, coVars, timerVars, epollVars>>
    BY <1>3 DEF Top
  <2>2. RegisteredWait' /\ DueSleep' /\ ActiveWait'
    BY <2>1 DEF RegisteredWait, DueSleep, ActiveWait
  <2> QED
    BY <1>0, <1>1, <2>1, <2>2 DEF ListsInv
<1>4. CASE EpollWait
  <2>1. /\ at' = "blocked" /\ todo' = blockedCo[blockingCoIdx]
        /\ UNCHANGED <<poolVars, blockedCo, coSet, removedCo, coVars, timerVars,
                       epollVars>>
    BY <1>4 DEF EpollWait
  <2>2. BlockedWalk'
    <3>1. \A b : In(todo', b) <=> b \in ToSet(todo')
      BY <2>1, InSet DEF IInv, TypeOK, LoopTypes
    <3>2. \A b : b \in ToSet(todo') => GaveWay(b)'
      BY <2>1 DEF GaveWay, IInv, TypeOK, LoopTypes
    <3> QED
      BY <3>1, <3>2 DEF BlockedWalk
  <2>3. NewAreReady' /\ RegisteredWait' /\ DueSleep'
    BY <2>1 DEF NewAreReady, Created, Held, RegisteredWait, DueSleep
  <2>4. Readable(actCoroutines)'
    <3>1. Readable(actCoroutines')
      BY <1>4, ReportedReadable
    <3> QED
      BY <2>1, <3>1, GaveWayStays DEF Readable, Awaits, Once
  <2>5. ActiveWait'
    BY <2>1, <2>4 DEF ActiveWait
  <2> QED
    BY <1>1, <2>1, <2>2, <2>3, <2>5 DEF ListsInv
<1>5. CASE ResumeNext
  BY <1>5, CauseResume
<1>6. CASE GetExpired
  <2>1. /\ at = "blocked" /\ at' = "timers"
        /\ UNCHANGED <<poolVars, actCoroutines, listVars, coVars, now, epollVars>>
    BY <1>6 DEF GetExpired, BlockedDone, LoopAt
  <2>2. RegisteredWait' /\ ActiveWait'
    BY <2>1, GaveWayStays
       DEF RegisteredWait, ListsInv, ActiveWait, Readable, Awaits, Once
  <2> QED
    BY <1>0, <1>6, <2>1, <2>2, DueAsleep DEF ListsInv
<1>7. CASE SwapQueues
  <2>1. /\ at = "timers" /\ at' = "drain"
        /\ UNCHANGED <<newCoroutines, spawn, actCoroutines, listVars, coVars,
                       timerVars, epollVars>>
    BY <1>7 DEF SwapQueues, LoopAt
  <2>2. RegisteredWait' /\ DueSleep' /\ ActiveWait'
    BY <2>1, GaveWayStays
       DEF RegisteredWait, ListsInv, DueSleep, ActiveWait, Readable, Awaits, Once
  <2> QED
    BY <1>0, <1>1, <2>1, <2>2 DEF ListsInv
<1>8. CASE StartNew
  BY <1>8, CauseStart
<1>9. CASE QueueDrained
  <2>1. /\ at = "drain" /\ at' = "act" /\ todo' = actCoroutines
        /\ UNCHANGED <<poolVars, listVars, coVars, timerVars, epollVars>>
    BY <1>9 DEF QueueDrained, LoopAt
  <2>2. RegisteredWait' /\ DueSleep' /\ ActiveWait'
    BY <2>1, GaveWayStays
       DEF RegisteredWait, ListsInv, DueSleep, ActiveWait, Readable, Awaits, Once
  <2> QED
    BY <1>0, <1>1, <2>1, <2>2 DEF ListsInv
<1>10. CASE EraseDead
  <2>. PICK h \in Blocks : h = Head(todo)
    BY <1>10, TailType DEF EraseDead, IInv, TypeOK, LoopTypes
  <2>1. /\ at = "bury" /\ at' = "free" /\ cur = None /\ coSet' = coSet \ {h}
        /\ UNCHANGED <<poolVars, blockedCo, coVars, timerVars, epollVars>>
    BY <1>10 DEF EraseDead, LoopAt
  <2>2. In(todo, h)
    BY <1>10, InTail DEF EraseDead, IInv, TypeOK, LoopTypes
  <2>3. state[h] = "running"
    BY <2>1, <2>2 DEF BlocksInv, Finished
  <2>4. ListsInv'
    <3>1. ~Asleep(h) /\ ~Awaits(h) /\ now' \in Nat /\ now' >= now
      BY <2>1, <2>3 DEF Asleep, Awaits, IInv, TypeOK, TimerTypes
    <3>2. \A b \in Blocks : GaveWay(b) => GaveWay(b)'
      BY <2>1, GaveWayStays
    <3> QED
      BY <2>1, <3>1, <3>2, ListsKept
  <2>5. RegisteredWait'
    BY <2>1, <2>3 DEF RegisteredWait
  <2> QED
    BY <1>0, <2>1, <2>4, <2>5
<1>11. CASE ActDone \/ FreeDead \/ ClearRemoved
  <2>1. /\ at' \in {"bury", "top"}
        /\ UNCHANGED <<newCoroutines, spawn, coSet, blockedCo, coVars,
                       timerVars, epollVars>>
    BY <1>11 DEF ActDone, FreeDead, ClearRemoved
  <2>2. RegisteredWait' /\ DueSleep' /\ ActiveWait'
    BY <2>1 DEF RegisteredWait, DueSleep, ActiveWait
  <2> QED
    BY <1>0, <1>1, <2>1, <2>2 DEF ListsInv
<1> QED
  BY <1>3, <1>4, <1>5, <1>6, <1>7, <1>8, <1>9, <1>10, <1>11 DEF Loop

LEMMA CauseRest ==
  ASSUME IInv, CauseInv, Stop \/ Environment \/ UNCHANGED vars
  PROVE  CauseInv'
<1> USE DEF CauseInv
<1>1. /\ UNCHANGED <<poolVars, at, todo, actCoroutines, listVars, coVars,
                     timerCoHeap, registered>>
      /\ now \in Nat /\ now' \in Nat /\ now' >= now /\ ready \in SUBSET ready'
      /\ until \in [Blocks -> Nat]
  BY DEF Stop, Environment, Tick, FdReady, vars, IInv, TypeOK, TimerTypes, CoTypes
<1>2. BlockedWalk' /\ NewAreReady' /\ RegisteredWait'
  BY <1>1, GaveWayStays
     DEF BlockedWalk, NewAreReady, Created, Held, RegisteredWait
<1>3. HeapSleeps' /\ DueSleep'
  BY <1>1, GaveWayStays DEF ListsInv, HeapSleeps, DueSleep, Asleep, Once
<1>4. ActiveWait'
  BY <1>1, GaveWayStays DEF ListsInv, ActiveWait, Readable, Awaits, Once
<1> QED
  BY <1>2, <1>3, <1>4 DEF ListsInv

LEMMA CauseInvariance ==
  ASSUME OwnDescriptors
  PROVE  Spec => [](IInv /\ BlocksInv /\ CauseInv)
<1>1. IInv /\ BlocksInv /\ CauseInv /\ [Next]_vars => CauseInv'
  BY CauseCreate, CauseBody, CauseLoop, CauseRest DEF Next
<1> QED
  BY BlocksInvariance, CauseInit, <1>1, PTL DEF Spec

(* The only step that resumes a suspended coroutine is one of the loops over
   its lists. *)
LEMMA OnlyTheLoopWakes ==
  ASSUME IInv, BlocksInv, CauseInv, [Next]_vars, NEW c \in Blocks, Woken(c)
  PROVE  ResumeNext /\ c = Head(todo)
<1> USE DEF IInv, TypeOK
<1>1. state[c] = "waiting" /\ state'[c] = "running"
  BY DEF Woken
<1>2. ASSUME NEW t \in Threads, Create(t) PROVE FALSE
  BY <1>1, <1>2
     DEF Create, NewObj, NewCoroutine, LockQueue, PushNew, WakeUp, CoTypes
<1>3. ASSUME Body PROVE FALSE
  BY <1>1, <1>3 DEF Body, Wait, WaitEvent, WaitEventReturns, BlockedYield,
                    KillCurCo, Suspend, CoTypes
<1>4. ASSUME Stop \/ Environment \/ UNCHANGED vars PROVE FALSE
  BY <1>1, <1>4 DEF Stop, Environment, Tick, FdReady, vars
<1>5. ASSUME StartNew PROVE FALSE
  BY <1>1, <1>5, CauseStart
<1>6. ASSUME Top \/ EpollWait \/ GetExpired \/ SwapQueues \/ QueueDrained
             \/ ActDone \/ EraseDead \/ FreeDead \/ ClearRemoved
      PROVE  FALSE
  BY <1>1, <1>6 DEF Top, EpollWait, GetExpired, BlockedDone, SwapQueues,
                    QueueDrained, ActDone, EraseDead, FreeDead, ClearRemoved
<1>7. ResumeNext
  BY <1>2, <1>3, <1>4, <1>5, <1>6 DEF Next, Loop
<1>8. c = Head(todo)
  <2>1. Head(todo) \in Blocks /\ Resume(Head(todo), coSet) /\ cur = None
    BY <1>7, TailType DEF ResumeNext, LoopAt, LoopTypes
  <2> QED
    BY <1>1, <2>1, ResumeEffect
<1> QED
  BY <1>7, <1>8

(* A sleeper runs again only when its deadline has passed, and a coroutine
   that waits for its descriptor only when that can be read, however many
   others have called co_blocked_yield: of the lists that the loop walks over
   only blockedCo_, which keeps pointers to coroutines that have gone on since,
   resumes without a cause, and it resumes only those that are on it. *)
THEOREM CauseForResume ==
  ASSUME OwnDescriptors
  PROVE  Spec => ResumedForCause
<1>1. ASSUME IInv, BlocksInv, CauseInv, [Next]_vars, NEW c \in Blocks,
             Woken(c) /\ ~GaveWay(c)
      PROVE  HasCause(c)
  <2>1. ResumeNext /\ c = Head(todo)
    BY <1>1, OnlyTheLoopWakes
  <2>2. In(todo, c) /\ at \in {"timers", "act"}
    BY <1>1, <2>1, InTail DEF ResumeNext, LoopAt, CauseInv, BlockedWalk, IInv,
                              TypeOK, LoopTypes
  <2>3. \/ Asleep(c) /\ until[c] <= now
        \/ Awaits(c) /\ FdOf[c] \in ready
    BY <1>1, <2>2 DEF CauseInv, ListsInv, DueSleep, ActiveWait, Readable
  <2> QED
    BY <2>3 DEF Asleep, Awaits, HasCause
<1>2. IInv /\ BlocksInv /\ CauseInv /\ [Next]_vars
      => [\A c \in Blocks : Woken(c) /\ ~GaveWay(c) => HasCause(c)]_vars
  BY <1>1
<1> QED
  BY CauseInvariance, <1>2, PTL DEF Spec, ResumedForCause

=============================================================================
