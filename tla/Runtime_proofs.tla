--------------------------- MODULE Runtime_proofs ---------------------------
(***************************************************************************)
(* The scheduler and the CoMutex, for every number of threads, coroutines  *)
(* and processors, and for every tid: there is one scheduler, a coroutine  *)
(* is on a processor of it that is there, a processor runs one at a time,  *)
(* one coroutine at most has the CoMutex, and the program falls only       *)
(* while calls race.                                                       *)
(***************************************************************************)
EXTENDS Runtime, FiniteSetTheorems, TLAPS

GoPCs == {"idle", "check", "lock", "start", "next", "tid", "store", "wrap",
          "return"}
CoPCs == {"none", "ready", "lock", "blocked", "critical", "asleep", "awake",
          "done"}
Calls == [pc : GoPCs, tid : Tids, n : Nat, cur : Int]
Records == [pc : CoPCs, on : Int \X Int, chosen : BOOLEAN, slept : BOOLEAN]

(* The scheduler is made once; it is there for a thread that has got past the
   lock, and its curPro_ has been moved when a thread looks at it again. *)
SchedulerInv ==
    /\ \/ pScher_ = 0 /\ processors_ = << >> /\ curPro_ = << >>
       \/ /\ pScher_ = 1
          /\ \E n \in 0 .. defaultThreadNum : processors_ = <<n>>
          /\ \E i \in Int : i >= -1 /\ curPro_ = <<i>>
    /\ scherMtx_ \in Threads \cup {None}
    /\ down \in BOOLEAN
    /\ thread \in [Threads -> Calls]
    /\ \A t \in Threads :
        /\ thread[t].pc \notin {"idle", "check", "lock"} => pScher_ = 1
        /\ thread[t].pc \in {"store", "wrap", "return"} => thread[t].cur >= 0
        /\ thread[t].pc \in {"wrap", "return"} => curPro_[1] >= 0

(* A coroutine that has been created is on a processor. *)
Placed ==
    \A c \in Coroutines : co[c].pc # "none" =>
        /\ pScher_ = 1 /\ co[c].on[1] = 1
        /\ co[c].on[2] \in 0 .. processors_[1] - 1

Alone ==
    \A c, d \in Coroutines :
        /\ co[c].pc \in Running /\ co[d].pc \in Running
        /\ co[c].on = co[d].on
        => c = d

CoroutineInv ==
    /\ co \in [Coroutines -> Records] /\ locked \in BOOLEAN
    /\ Alone /\ MutualExclusion

(* The inductive invariant. *)
IInv == SchedulerInv /\ CoroutineInv /\ Placed

-----------------------------------------------------------------------------
(* What a thread's step leaves alone: the coroutines, and the
   processors that are there. *)
LEMMA ThreadStep ==
  ASSUME IInv, SchedulerInv', UNCHANGED <<co, locked>>,
         pScher_ = 1 => /\ pScher_' = 1
                        /\ processors_'[1] \in Int
                        /\ processors_[1] \in Int
                        /\ processors_[1] <= processors_'[1]
  PROVE  IInv'
<1>1. CoroutineInv'
  BY DEF IInv, CoroutineInv, Alone, MutualExclusion
<1>2. Placed'
  <2> SUFFICES ASSUME NEW c \in Coroutines, co'[c].pc # "none"
               PROVE  /\ pScher_' = 1 /\ co'[c].on[1] = 1
                      /\ co'[c].on[2] \in 0 .. processors_'[1] - 1
    BY DEF Placed
  <2>1. /\ pScher_ = 1 /\ co[c].on[1] = 1
        /\ co[c].on[2] \in 0 .. processors_[1] - 1
    BY DEF IInv, Placed
  <2> QED
    BY <2>1
<1> QED
  BY <1>1, <1>2 DEF IInv

(* Of a scheduler that is there, the processors and the position are numbers. *)
LEMMA SchedulerTypes ==
  ASSUME SchedulerInv, pScher_ = 1
  PROVE  /\ Size \in 0 .. defaultThreadNum /\ Size = processors_[1]
         /\ processors_ = <<Size>>
         /\ curPro_ = <<curPro_[1]>> /\ curPro_[1] \in Int /\ curPro_[1] >= -1
  BY RuntimeAssumption DEF SchedulerInv, Size

LEMMA IdleTypes == Idle \in Calls /\ Idle.pc = "idle"
  BY RuntimeAssumption DEF Idle, Calls, GoPCs

LEMMA InitIInv == Init => IInv
<1> SUFFICES ASSUME Init PROVE IInv
  OBVIOUS
<1>1. Idle \in Calls /\ Unborn \in Records
  BY RuntimeAssumption DEF Idle, Unborn, Calls, Records, GoPCs, CoPCs
<1>2. SchedulerInv
  BY <1>1 DEF Init, SchedulerInv, Idle
<1>3. CoroutineInv /\ Placed
  BY <1>1 DEF Init, CoroutineInv, Placed, Alone, MutualExclusion, Unborn,
              Running
<1> QED
  BY <1>2, <1>3 DEF IInv

-----------------------------------------------------------------------------
(* Threads *)

LEMMA BeginGoIInv ==
  ASSUME IInv, NEW t \in Threads, BeginGo(t)
  PROVE  IInv'
<1>1. PICK tid \in Tids :
        thread' = [thread EXCEPT ![t] =
                    [Idle EXCEPT !.pc = "check", !.tid = tid]]
  BY DEF BeginGo
<1> DEFINE r == [Idle EXCEPT !.pc = "check", !.tid = tid]
<1>2. r \in Calls /\ r.pc = "check"
  BY IdleTypes DEF Calls, GoPCs
<1> HIDE DEF r
<1>3. SchedulerInv'
  BY <1>1, <1>2 DEF r, IInv, SchedulerInv, BeginGo, schedVars
<1> QED
  BY <1>3, ThreadStep, SchedulerTypes DEF BeginGo, schedVars, IInv

LEMMA GotoStep ==
  ASSUME IInv, NEW t \in Threads, NEW pc \in GoPCs, Goto(t, pc),
         pc \notin {"store", "wrap", "return"},
         pc \notin {"idle", "check", "lock"} => pScher_ = 1,
         UNCHANGED <<schedVars, co, locked, down>>
  PROVE  IInv'
<1>1. thread' = [thread EXCEPT ![t] = [thread[t] EXCEPT !.pc = pc]]
  BY DEF Goto, IInv, SchedulerInv
<1>2. /\ [thread[t] EXCEPT !.pc = pc] \in Calls
      /\ [thread[t] EXCEPT !.pc = pc].pc = pc
  BY DEF IInv, SchedulerInv, Calls
<1>3. SchedulerInv'
  BY <1>1, <1>2 DEF IInv, SchedulerInv, schedVars
<1> QED
  BY <1>3, ThreadStep, SchedulerTypes DEF schedVars, IInv

LEMMA PlaceTypes ==
  ASSUME NEW t
  PROVE  Place(t) \in {"next", "tid"}
  BY DEF Place

LEMMA CheckIInv ==
  ASSUME IInv, NEW t \in Threads, Check(t)
  PROVE  IInv'
<1>1. pScher_ # 0 => pScher_ = 1
  BY DEF IInv, SchedulerInv
<1> DEFINE pc == IF pScher_ = 0 THEN "lock" ELSE Place(t)
<1>2. pc \in {"lock", "next", "tid"} /\ (pc # "lock" => pScher_ = 1)
  BY <1>1, PlaceTypes
<1>3. pc \in GoPCs /\ pc \notin {"store", "wrap", "return"}
  BY <1>2 DEF GoPCs
<1>4. PICK q \in GoPCs : q = pc
  BY <1>3
<1> QED
  BY <1>2, <1>3, <1>4, GotoStep DEF Check

LEMMA LockSchedulerIInv ==
  ASSUME IInv, NEW t \in Threads, LockScheduler(t)
  PROVE  IInv'
<1>1. CASE pScher_ # 0
  <2>1. pScher_ = 1
    BY <1>1 DEF IInv, SchedulerInv
  <2>2. PICK q \in {"next", "tid"} : q = Place(t)
    BY PlaceTypes
  <2>3. q \in GoPCs /\ q \notin {"store", "wrap", "return"}
    BY DEF GoPCs
  <2> QED
    BY <1>1, <2>1, <2>2, <2>3, GotoStep DEF LockScheduler
<1>2. CASE pScher_ = 0
  <2>1. /\ processors_ = << >> /\ curPro_ = << >>
        /\ \A u \in Threads : thread[u].pc \in {"idle", "check", "lock"}
        /\ thread \in [Threads -> Calls]
        /\ scherMtx_' = t /\ UNCHANGED <<co, locked, down>>
        /\ down \in BOOLEAN
    BY <1>2 DEF LockScheduler, IInv, SchedulerInv
  <2>2. pScher_' = 1 /\ processors_' = <<0>> /\ curPro_' = <<-1>>
    BY <1>2, <2>1 DEF LockScheduler
  <2> DEFINE r == [thread[t] EXCEPT !.pc = "start"]
  <2>3. r \in Calls /\ r.pc = "start"
    BY <2>1 DEF Calls, GoPCs
  <2>4. thread' = [thread EXCEPT ![t] = r]
    BY <1>2, <2>1 DEF LockScheduler, Goto
  <2> HIDE DEF r
  <2>5. SchedulerInv'
    <3>1. 0 \in 0 .. defaultThreadNum
      BY RuntimeAssumption
    <3> QED
      BY <2>1, <2>2, <2>3, <2>4, <3>1 DEF SchedulerInv
  <2> QED
    BY <1>2, <2>1, <2>5, ThreadStep
<1> QED
  BY <1>1, <1>2

LEMMA StartSchedulerIInv ==
  ASSUME IInv, NEW t \in Threads, startScheduler(t)
  PROVE  IInv'
<1>1. pScher_ = 1
  BY DEF startScheduler, At, IInv, SchedulerInv
<1>2. /\ Size \in 0 .. defaultThreadNum /\ Size = processors_[1]
      /\ processors_ = <<Size>> /\ defaultThreadNum \in Nat
  BY <1>1, SchedulerTypes, RuntimeAssumption DEF IInv
<1>3. CASE processors_[pScher_] < defaultThreadNum
  <2>1. processors_' = <<Size + 1>>
    BY <1>1, <1>2, <1>3 DEF startScheduler
  <2>2. UNCHANGED <<pScher_, curPro_, scherMtx_, thread, co, locked, down>>
    BY <1>3 DEF startScheduler
  <2>3. Size + 1 \in 0 .. defaultThreadNum
    BY <1>1, <1>2, <1>3
  <2>4. SchedulerInv'
    BY <1>1, <2>1, <2>2, <2>3 DEF IInv, SchedulerInv
  <2>5. processors_'[1] = Size + 1
    BY <2>1
  <2> QED
    BY <1>1, <1>2, <2>2, <2>4, <2>5, ThreadStep
<1>4. CASE ~(processors_[pScher_] < defaultThreadNum)
  <2>1. PICK q \in {"next", "tid"} : q = Place(t)
    BY PlaceTypes
  <2> DEFINE r == [thread[t] EXCEPT !.pc = q]
  <2>2. r \in Calls /\ r.pc = q
    BY DEF IInv, SchedulerInv, Calls, GoPCs
  <2>3. thread' = [thread EXCEPT ![t] = r]
    BY <1>4, <2>1 DEF startScheduler, Goto, IInv, SchedulerInv
  <2>4. scherMtx_' = None /\ processors_' = processors_
    BY <1>4 DEF startScheduler
  <2> HIDE DEF r
  <2>5. SchedulerInv'
    BY <1>1, <2>2, <2>3, <2>4 DEF startScheduler, IInv, SchedulerInv
  <2> QED
    BY <1>1, <1>2, <2>4, <2>5, ThreadStep DEF startScheduler
<1> QED
  BY <1>3, <1>4

LEMMA FallsIInv == ASSUME IInv, Falls PROVE IInv'
<1>1. SchedulerInv'
  BY DEF Falls, IInv, SchedulerInv, schedVars
<1> QED
  BY <1>1, ThreadStep, SchedulerTypes DEF Falls, schedVars, IInv

(* A coroutine is created, on a processor that is there. *)
LEMMA GoNewCoIInv ==
  ASSUME IInv, NEW t \in Threads, pScher_ = 1, NEW i \in 0 .. Size - 1,
         goNewCo(t, i)
  PROVE  IInv'
<1> DEFINE c == CHOOSE d \in Fresh : TRUE
           h == thread[t].tid < 0
           w == <<pScher_, i>>
           r == [co[c] EXCEPT !.pc = "ready", !.on = w, !.chosen = h]
<1>1. c \in Coroutines /\ co[c].pc = "none"
  BY DEF goNewCo, Fresh
<1>2. /\ Size \in 0 .. defaultThreadNum /\ Size = processors_[1]
      /\ defaultThreadNum \in Nat
  BY SchedulerTypes, RuntimeAssumption DEF IInv
<1>3. co' = [co EXCEPT ![c] = r]
  BY DEF goNewCo, IInv, CoroutineInv
<1> HIDE DEF c, h
<1>4. h \in BOOLEAN
  BY DEF h
<1>5. w \in Int \X Int /\ w[1] = 1 /\ w[2] = i
  BY <1>2
<1> HIDE DEF w
<1>6. r \in Records /\ r.pc = "ready" /\ r.on = w
  BY <1>1, <1>4, <1>5 DEF IInv, CoroutineInv, Records, CoPCs
<1> HIDE DEF r
<1>7. SchedulerInv'
  BY IdleTypes DEF goNewCo, schedVars, IInv, SchedulerInv
<1>8. CoroutineInv'
  <2>1. \A d \in Coroutines : co'[d] = IF d = c THEN r ELSE co[d]
    BY <1>1, <1>3 DEF IInv, CoroutineInv
  <2>2. co' \in [Coroutines -> Records] /\ locked' = locked
    BY <1>3, <1>6 DEF goNewCo, IInv, CoroutineInv
  <2>3. Alone'
    BY <1>6, <2>1 DEF IInv, CoroutineInv, Alone, Running
  <2>4. MutualExclusion'
    BY <1>6, <2>1, <2>2 DEF IInv, CoroutineInv, MutualExclusion
  <2> QED
    BY <2>2, <2>3, <2>4 DEF IInv, CoroutineInv
<1>9. Placed'
  <2>1. pScher_' = 1 /\ processors_' = processors_
    BY DEF goNewCo, schedVars
  <2>2. ASSUME NEW d \in Coroutines, co'[d].pc # "none"
        PROVE  co'[d].on[1] = 1 /\ co'[d].on[2] \in 0 .. processors_[1] - 1
    <3>1. CASE d = c
      <4>1. co'[d] = r
        BY <1>1, <1>3, <3>1 DEF IInv, CoroutineInv
      <4> QED
        BY <1>2, <1>5, <1>6, <4>1
    <3>2. CASE d # c
      <4>1. co'[d] = co[d]
        BY <1>3, <3>2 DEF IInv, CoroutineInv
      <4> QED
        BY <2>2, <4>1 DEF IInv, Placed
    <3> QED
      BY <3>1, <3>2
  <2> QED
    BY <2>1, <2>2 DEF Placed
<1> QED
  BY <1>7, <1>8, <1>9 DEF IInv

LEMMA GoToIInv ==
  ASSUME IInv, NEW t \in Threads, GoTo(t)
  PROVE  IInv'
<1>1. pScher_ = 1 /\ thread[t].tid \in Int
  <2>1. pScher_ = 1 /\ thread[t].tid \in Tids
    BY DEF GoTo, At, IInv, SchedulerInv, Calls
  <2>2. \A x \in Nat \cup {-1} : x \in Int
    OBVIOUS
  <2>3. Tids \subseteq Nat \cup {-1}
    BY RuntimeAssumption
  <2> QED
    BY <2>1, <2>2, <2>3
<1>2. Size \in Nat
  BY <1>1, SchedulerTypes DEF IInv
<1>3. CASE Size = 0
  BY <1>3, FallsIInv DEF GoTo
<1>4. CASE Size # 0
  <2>1. thread[t].tid % Size \in 0 .. Size - 1
    BY <1>1, <1>2, <1>4
  <2> QED
    BY <1>1, <1>4, <2>1, GoNewCoIInv DEF GoTo
<1> QED
  BY <1>3, <1>4

LEMMA Next_loadIInv ==
  ASSUME IInv, NEW t \in Threads, Next_load(t)
  PROVE  IInv'
<1>1. pScher_ = 1
  BY DEF Next_load, At, IInv, SchedulerInv
<1>2. Size \in Nat /\ curPro_[1] \in Int /\ curPro_[1] >= -1
  BY <1>1, SchedulerTypes DEF IInv
<1>3. CASE Size = 0
  BY <1>3, FallsIInv DEF Next_load
<1>4. CASE Size # 0
  <2> DEFINE k == curPro_[1] + 1
             r == [thread[t] EXCEPT !.pc = "store", !.n = Size, !.cur = k]
  <2>1. k \in Int /\ k >= 0
    BY <1>2
  <2>2. thread' = [thread EXCEPT ![t] = r]
    BY <1>1, <1>4 DEF Next_load, IInv, SchedulerInv
  <2> HIDE DEF k
  <2>3. r \in Calls /\ r.pc = "store" /\ r.cur = k
    BY <1>2, <2>1 DEF IInv, SchedulerInv, Calls, GoPCs
  <2> HIDE DEF r
  <2>4. UNCHANGED <<schedVars, co, locked, down>>
    BY <1>4 DEF Next_load
  <2>5. SchedulerInv'
    BY <1>1, <2>1, <2>2, <2>3, <2>4 DEF IInv, SchedulerInv, schedVars
  <2> QED
    BY <2>4, <2>5, ThreadStep, SchedulerTypes DEF schedVars, IInv
<1> QED
  BY <1>3, <1>4

(* What is stored is not negative, and only then is there somebody who reads
   it. *)
LEMMA Next_storeIInv ==
  ASSUME IInv, NEW t \in Threads, Next_store(t)
  PROVE  IInv'
<1> DEFINE r == [thread[t] EXCEPT !.pc = "wrap"]
<1>1. pScher_ = 1 /\ thread[t].cur >= 0 /\ thread[t].cur \in Int
  BY DEF Next_store, At, IInv, SchedulerInv, Calls
<1>2. curPro_' = <<thread[t].cur>>
  BY <1>1, SchedulerTypes DEF Next_store, IInv
<1>3. thread' = [thread EXCEPT ![t] = r]
  BY DEF Next_store, Goto, IInv, SchedulerInv
<1>4. r \in Calls /\ r.pc = "wrap" /\ r.cur = thread[t].cur
  BY DEF IInv, SchedulerInv, Calls, GoPCs
<1> HIDE DEF r
<1>5. UNCHANGED <<pScher_, processors_, scherMtx_, co, locked, down>>
  BY DEF Next_store
<1>6. SchedulerInv'
  BY <1>1, <1>2, <1>3, <1>4, <1>5 DEF IInv, SchedulerInv
<1> QED
  BY <1>5, <1>6, ThreadStep, SchedulerTypes DEF IInv

LEMMA Next_wrapIInv ==
  ASSUME IInv, NEW t \in Threads, Next_wrap(t)
  PROVE  IInv'
<1>1. /\ pScher_ = 1 /\ thread[t].cur >= 0 /\ thread[t].cur \in Int
      /\ curPro_[1] \in Int /\ curPro_[1] >= 0 /\ curPro_ = <<curPro_[1]>>
  BY SchedulerTypes DEF Next_wrap, At, IInv, SchedulerInv, Calls
<1>2. PICK i \in {thread[t].cur, curPro_[1]} : Wraps(t, i, thread[t].n - 1)
  BY <1>1 DEF Next_wrap
<1>3. i \in Int /\ i >= 0
  BY <1>1
<1>4. UNCHANGED <<pScher_, processors_, scherMtx_, co, locked, down>>
  BY DEF Next_wrap
<1>5. ASSUME NEW k \in Int, k >= 0, NEW p \in Int, p >= 0, curPro_' = <<p>>,
             thread' = [thread EXCEPT ![t] = [@ EXCEPT !.pc = "return",
                                                       !.cur = k]]
      PROVE  IInv'
  <2> DEFINE r == [thread[t] EXCEPT !.pc = "return", !.cur = k]
  <2>1. thread' = [thread EXCEPT ![t] = r]
    BY <1>5 DEF IInv, SchedulerInv
  <2>2. r \in Calls /\ r.pc = "return" /\ r.cur = k
    BY DEF IInv, SchedulerInv, Calls, GoPCs
  <2> HIDE DEF r
  <2>3. curPro_'[1] = p
    BY <1>5
  <2>4. SchedulerInv'
    BY <1>1, <1>4, <1>5, <2>1, <2>2, <2>3 DEF IInv, SchedulerInv
  <2> QED
    BY <1>4, <2>4, ThreadStep, SchedulerTypes DEF IInv
<1>6. CASE i > thread[t].n - 1
  <2>1. curPro_' = <<0>> /\ 0 \in Int /\ 0 >= 0
    BY <1>1, <1>2, <1>6 DEF Wraps
  <2>2. thread' = [thread EXCEPT ![t] = [@ EXCEPT !.pc = "return", !.cur = 0]]
    BY <1>2, <1>6 DEF Wraps
  <2> QED
    BY <1>5, <2>1, <2>2
<1>7. CASE ~(i > thread[t].n - 1)
  <2>1. curPro_' = <<curPro_[1]>>
    BY <1>1, <1>2, <1>7 DEF Wraps
  <2> QED
    BY <1>1, <1>2, <1>3, <1>5, <1>7, <2>1 DEF Wraps
<1> QED
  BY <1>6, <1>7

LEMMA Next_returnIInv ==
  ASSUME IInv, NEW t \in Threads, Next_return(t)
  PROVE  IInv'
<1>1. /\ pScher_ = 1 /\ thread[t].cur >= 0 /\ thread[t].cur \in Int
      /\ curPro_[1] \in Int /\ curPro_[1] >= 0 /\ Size \in Nat
  BY SchedulerTypes DEF Next_return, At, IInv, SchedulerInv, Calls
<1>2. PICK i \in {thread[t].cur, curPro_[1]} :
        IF i < Size THEN goNewCo(t, i) ELSE Falls
  BY <1>1 DEF Next_return
<1>3. CASE i < Size
  <2>1. i \in 0 .. Size - 1
    BY <1>1, <1>3
  <2> QED
    BY <1>1, <1>2, <1>3, <2>1, GoNewCoIInv
<1>4. CASE ~(i < Size)
  BY <1>2, <1>4, FallsIInv
<1> QED
  BY <1>3, <1>4

-----------------------------------------------------------------------------
(* Coroutines *)

(* A coroutine stays where it is. *)
LEMMA CoroutineStep ==
  ASSUME IInv, NEW c \in Coroutines, co[c].pc # "none", NEW r \in Records,
         r.on = co[c].on, co' = [co EXCEPT ![c] = r],
         UNCHANGED <<schedVars, thread, down>>,
         CoroutineInv'
  PROVE  IInv'
<1>1. SchedulerInv'
  BY DEF IInv, SchedulerInv, schedVars
<1>2. \A d \in Coroutines :
        co'[d].on = co[d].on /\ (co'[d].pc # "none" => co[d].pc # "none")
  BY DEF IInv, CoroutineInv
<1>3. Placed'
  BY <1>2 DEF IInv, Placed, schedVars
<1> QED
  BY <1>1, <1>3 DEF IInv

(* A processor resumes a coroutine only while it runs none. *)
LEMMA ResumeIInv ==
  ASSUME IInv, NEW c \in Coroutines, Resume(c)
  PROVE  IInv'
<1> DEFINE p == IF co[c].pc = "awake" THEN "critical" ELSE "lock"
           r == [co[c] EXCEPT !.pc = p]
<1>1. /\ co[c].pc \in {"ready", "blocked", "awake"}
      /\ \A d \in Coroutines : co[d].on = co[c].on => co[d].pc \notin Running
      /\ co \in [Coroutines -> Records] /\ locked' = locked
  BY DEF Resume, IInv, CoroutineInv
<1>2. /\ p \in {"lock", "critical"} /\ (p = "critical" => co[c].pc = "awake")
  OBVIOUS
<1>3. co' = [co EXCEPT ![c] = r]
  BY <1>1 DEF Resume
<1> HIDE DEF p
<1>4. r \in Records /\ r.pc = p /\ r.on = co[c].on
  BY <1>1, <1>2 DEF Records, CoPCs
<1> HIDE DEF r
<1>5. \A d \in Coroutines : co'[d] = IF d = c THEN r ELSE co[d]
  BY <1>1, <1>3
<1>6. CoroutineInv'
  <2>1. co' \in [Coroutines -> Records]
    BY <1>1, <1>3, <1>4
  <2>2. Alone'
    BY <1>1, <1>4, <1>5 DEF IInv, CoroutineInv, Alone
  <2>3. MutualExclusion'
    BY <1>1, <1>2, <1>4, <1>5 DEF IInv, CoroutineInv, MutualExclusion
  <2> QED
    BY <1>1, <2>1, <2>2, <2>3 DEF IInv, CoroutineInv
<1> QED
  BY <1>1, <1>3, <1>4, <1>6, CoroutineStep DEF Resume

(* test_and_set lets one through. *)
LEMMA LockIInv ==
  ASSUME IInv, NEW c \in Coroutines, lock(c)
  PROVE  IInv'
<1> DEFINE p == IF locked THEN "blocked" ELSE "critical"
           r == [co[c] EXCEPT !.pc = p]
<1>1. /\ co[c].pc = "lock" /\ locked' = TRUE
      /\ co \in [Coroutines -> Records]
  BY DEF lock, Is, IInv, CoroutineInv
<1>2. p \in {"blocked", "critical"} /\ (p = "critical" => ~locked)
  OBVIOUS
<1>3. co' = [co EXCEPT ![c] = r]
  BY <1>1 DEF lock
<1> HIDE DEF p
<1>4. r \in Records /\ r.pc = p /\ r.on = co[c].on
  BY <1>1, <1>2 DEF Records, CoPCs
<1> HIDE DEF r
<1>5. \A d \in Coroutines : co'[d] = IF d = c THEN r ELSE co[d]
  BY <1>1, <1>3
<1>6. CoroutineInv'
  <2>1. co' \in [Coroutines -> Records]
    BY <1>1, <1>3, <1>4
  <2>2. Alone'
    BY <1>1, <1>4, <1>5 DEF IInv, CoroutineInv, Alone, Running
  <2>3. MutualExclusion'
    BY <1>1, <1>2, <1>4, <1>5 DEF IInv, CoroutineInv, MutualExclusion
  <2> QED
    BY <1>1, <2>1, <2>2, <2>3 DEF IInv, CoroutineInv
<1> QED
  BY <1>1, <1>3, <1>4, <1>6, CoroutineStep DEF lock

(* One that sleeps keeps the mutex. *)
LEMMA SleepIInv ==
  ASSUME IInv, NEW c \in Coroutines, co_sleep(c) \/ TimeOut(c)
  PROVE  IInv'
<1>1. PICK r \in Records :
        /\ co' = [co EXCEPT ![c] = r] /\ r.on = co[c].on
        /\ r.pc \in {"asleep", "awake"}
        /\ co[c].pc \in {"critical", "asleep"}
  <2>1. CASE co_sleep(c)
    <3> DEFINE r == [co[c] EXCEPT !.pc = "asleep", !.slept = TRUE]
    <3>1. r \in Records /\ r.on = co[c].on /\ r.pc = "asleep"
      BY DEF IInv, CoroutineInv, Records, CoPCs
    <3>2. co' = [co EXCEPT ![c] = r] /\ co[c].pc = "critical"
      BY <2>1 DEF co_sleep, Is, IInv, CoroutineInv
    <3> QED
      BY <3>1, <3>2
  <2>2. CASE TimeOut(c)
    <3> DEFINE r == [co[c] EXCEPT !.pc = "awake"]
    <3>1. r \in Records /\ r.on = co[c].on /\ r.pc = "awake"
      BY DEF IInv, CoroutineInv, Records, CoPCs
    <3>2. co' = [co EXCEPT ![c] = r] /\ co[c].pc = "asleep"
      BY <2>2 DEF TimeOut, Is, IInv, CoroutineInv
    <3> QED
      BY <3>1, <3>2
  <2> QED
    BY <2>1, <2>2
<1>2. /\ \A d \in Coroutines : co'[d] = IF d = c THEN r ELSE co[d]
      /\ locked' = locked /\ co' \in [Coroutines -> Records]
  BY <1>1 DEF co_sleep, TimeOut, IInv, CoroutineInv
<1>3. CoroutineInv'
  <2>1. Alone'
    BY <1>1, <1>2 DEF IInv, CoroutineInv, Alone, Running
  <2>2. MutualExclusion'
    BY <1>1, <1>2 DEF IInv, CoroutineInv, MutualExclusion
  <2> QED
    BY <1>2, <2>1, <2>2 DEF IInv, CoroutineInv
<1> QED
  BY <1>1, <1>3, CoroutineStep DEF co_sleep, TimeOut

LEMMA UnlockIInv ==
  ASSUME IInv, NEW c \in Coroutines, unlock(c)
  PROVE  IInv'
<1> DEFINE r == [co[c] EXCEPT !.pc = "done"]
<1>1. /\ co[c].pc = "critical" /\ locked' = FALSE
      /\ co \in [Coroutines -> Records]
  BY DEF unlock, Is, IInv, CoroutineInv
<1>2. co' = [co EXCEPT ![c] = r]
  BY <1>1 DEF unlock
<1>3. r \in Records /\ r.pc = "done" /\ r.on = co[c].on
  BY <1>1 DEF Records, CoPCs
<1> HIDE DEF r
<1>4. \A d \in Coroutines : co'[d] = IF d = c THEN r ELSE co[d]
  BY <1>1, <1>2
<1>5. CoroutineInv'
  <2>1. co' \in [Coroutines -> Records]
    BY <1>1, <1>2, <1>3
  <2>2. Alone'
    BY <1>3, <1>4 DEF IInv, CoroutineInv, Alone, Running
  <2>3. MutualExclusion'
    BY <1>1, <1>3, <1>4 DEF IInv, CoroutineInv, MutualExclusion
  <2> QED
    BY <1>1, <2>1, <2>2, <2>3 DEF IInv, CoroutineInv
<1> QED
  BY <1>1, <1>2, <1>3, <1>5, CoroutineStep DEF unlock

-----------------------------------------------------------------------------
(* The theorems *)

LEMMA NextIInv == IInv /\ [Next]_vars => IInv'
<1> SUFFICES ASSUME IInv, [Next]_vars
             PROVE  IInv'
  OBVIOUS
<1>1. ASSUME NEW t \in Threads, BeginGo(t) \/ Going(t) \/ ReadDuringStart(t)
      PROVE  IInv'
  BY <1>1, BeginGoIInv, CheckIInv, LockSchedulerIInv, StartSchedulerIInv,
     GoToIInv, Next_loadIInv, Next_storeIInv, Next_wrapIInv, Next_returnIInv,
     FallsIInv DEF Going, ReadDuringStart
<1>2. ASSUME NEW c \in Coroutines,
             Resume(c) \/ lock(c) \/ co_sleep(c) \/ TimeOut(c) \/ unlock(c)
      PROVE  IInv'
  BY <1>2, ResumeIInv, LockIInv, SleepIInv, UnlockIInv
<1>3. CASE UNCHANGED vars
  <2>1. SchedulerInv'
    BY <1>3 DEF vars, schedVars, IInv, SchedulerInv
  <2> QED
    BY <1>3, <2>1, ThreadStep, SchedulerTypes DEF vars, schedVars, IInv
<1> QED
  BY <1>1, <1>2, <1>3 DEF Next

(* The invariant of the scheduler and of the coroutines is one. *)
THEOREM Inductive == Spec => []IInv
  BY InitIInv, NextIInv, PTL DEF Spec

(* One coroutine at most has the CoMutex, on whatever processors those that
   want it are, and also while the one that has it sleeps. *)
THEOREM MutexExcludes == Spec => []MutualExclusion
<1>1. IInv => MutualExclusion
  BY DEF IInv, CoroutineInv
<1> QED
  BY <1>1, Inductive, PTL

(* However many threads make the first call of co_go at one time, one scheduler
   is made; a coroutine is put on a processor of it that is there, whatever
   the tid and whatever races there are on curPro_, and a processor runs one
   at a time. *)
THEOREM OneScheduler == Spec => []TypeOK
<1>1. ASSUME IInv
      PROVE  TypeOK
  <2>1. SchedulerInv /\ CoroutineInv /\ Placed
    BY <1>1 DEF IInv
  <2>2. pScher_ \in 0 .. Len(processors_) /\ DOMAIN curPro_ = DOMAIN processors_
    <3>1. CASE processors_ = << >> /\ curPro_ = << >> /\ pScher_ = 0
      BY <3>1
    <3>2. ASSUME NEW n, NEW i, processors_ = <<n>>, curPro_ = <<i>>,
                 pScher_ = 1
          PROVE  /\ pScher_ \in 0 .. Len(processors_)
                 /\ DOMAIN curPro_ = DOMAIN processors_
      BY <3>2
    <3> QED
      BY <2>1, <3>1, <3>2 DEF SchedulerInv
  <2>3. processors_ \in Seq(0 .. defaultThreadNum)
    <3>1. CASE processors_ = << >>
      BY <3>1
    <3>2. ASSUME NEW n \in 0 .. defaultThreadNum, processors_ = <<n>>
          PROVE  processors_ \in Seq(0 .. defaultThreadNum)
      <4> DEFINE S == 0 .. defaultThreadNum
      <4>1. n \in S
        OBVIOUS
      <4> HIDE DEF S
      <4>2. <<n>> \in Seq(S)
        BY <4>1
      <4> QED
        BY <3>2, <4>2 DEF S
    <3> QED
      BY <2>1, <3>1, <3>2 DEF SchedulerInv
  <2>4. ASSUME NEW t \in Threads
        PROVE  /\ thread[t].pc \in {"idle", "check", "lock", "start", "next",
                                    "tid", "store", "wrap", "return"}
               /\ thread[t].tid \in Tids
    BY <2>1 DEF SchedulerInv, Calls, GoPCs
  <2>5. ASSUME NEW c \in Coroutines
        PROVE  /\ co[c].pc \in {"none", "ready", "lock", "blocked", "critical",
                                "asleep", "awake", "done"}
               /\ co[c].pc # "none" =>
                    /\ co[c].on[1] = pScher_
                    /\ co[c].on[2] \in 0 .. processors_[co[c].on[1]] - 1
                    /\ Cardinality({d \in OnProcessor(co[c].on) :
                                        co[d].pc \in Running}) <= 1
    <3> DEFINE S == {d \in OnProcessor(co[c].on) : co[d].pc \in Running}
    <3>1. co[c].pc \in CoPCs
      BY <2>1 DEF CoroutineInv, Records
    <3>2. \A d, e \in S : d = e
      BY <2>1 DEF OnProcessor, CoroutineInv, Alone
    <3>3. Cardinality(S) <= 1
      <4> HIDE DEF S
      <4>1. CASE S = {}
        BY <4>1, FS_EmptySet
      <4>2. CASE S # {}
        <5>1. PICK d : S = {d}
          BY <3>2, <4>2
        <5> QED
          BY <5>1, FS_Singleton
      <4> QED
        BY <4>1, <4>2
    <3> QED
      BY <2>1, <3>1, <3>3 DEF Placed, CoPCs
  <2> QED
    BY <2>1, <2>2, <2>3, <2>4, <2>5 DEF TypeOK, SchedulerInv, CoroutineInv
<1> QED
  BY <1>1, Inductive, PTL

-----------------------------------------------------------------------------
(* What calls that race leave behind: somebody is still making a scheduler that
   has no processors, and somebody is still about to test a position that is
   past the last one; what a thread has read is a number of processors that
   there are, and what it is about to return is a processor. *)
SomebodyStarts == Size = 0 => \E u \in Threads : thread[u].pc = "start"
SomebodyWraps ==
    curPro_[1] >= Size =>
        \E u \in Threads : thread[u].pc = "wrap" /\ thread[u].cur = curPro_[1]
Sound(u) ==
    /\ thread[u].pc \in {"store", "wrap"} => thread[u].n \in 1 .. Size
    /\ thread[u].pc = "return" => thread[u].cur < Size

RaceInv ==
    pScher_ = 1 =>
        SomebodyStarts /\ SomebodyWraps /\ \A u \in Threads : Sound(u)

(* What is not looked at again leaves the invariant as it is. *)
LEMMA RaceSame ==
  ASSUME RaceInv, UNCHANGED <<schedVars, thread>>
  PROVE  RaceInv'
  BY DEF RaceInv, SomebodyStarts, SomebodyWraps, Sound, Size, schedVars

(* A thread that is not a witness goes on. *)
LEMMA RaceStep ==
  ASSUME IInv, RaceInv, NEW t \in Threads,
         thread[t].pc \notin {"start", "wrap"},
         NEW r, thread' = [thread EXCEPT ![t] = r],
         UNCHANGED <<pScher_, processors_, curPro_>>,
         pScher_ = 1 =>
            /\ r.pc \in {"store", "wrap"} => r.n \in 1 .. Size
            /\ r.pc = "return" => r.cur < Size
  PROVE  RaceInv'
<1> SUFFICES ASSUME pScher_ = 1
             PROVE  (SomebodyStarts /\ SomebodyWraps)'
                        /\ \A u \in Threads : Sound(u)'
  BY DEF RaceInv
<1>1. SomebodyStarts /\ SomebodyWraps /\ \A u \in Threads : Sound(u)
  BY DEF RaceInv
<1>2. \A u \in Threads : thread'[u] = IF u = t THEN r ELSE thread[u]
  BY DEF IInv, SchedulerInv
<1>3. Size' = Size
  BY DEF Size
<1>4. SomebodyStarts'
  BY <1>1, <1>2, <1>3 DEF SomebodyStarts
<1>5. SomebodyWraps'
  BY <1>1, <1>2, <1>3 DEF SomebodyWraps
<1>6. \A u \in Threads : Sound(u)'
  BY <1>1, <1>2, <1>3 DEF Sound
<1> QED
  BY <1>4, <1>5, <1>6

LEMMA RaceGoto ==
  ASSUME IInv, RaceInv, NEW t \in Threads,
         thread[t].pc \notin {"start", "wrap"},
         NEW pc, pc \notin {"store", "wrap", "return"}, Goto(t, pc),
         UNCHANGED <<pScher_, processors_, curPro_>>
  PROVE  RaceInv'
<1> DEFINE r == [thread[t] EXCEPT !.pc = pc]
<1>1. thread' = [thread EXCEPT ![t] = r]
  BY DEF Goto, IInv, SchedulerInv
<1>2. r.pc = pc
  BY DEF IInv, SchedulerInv, Calls
<1> HIDE DEF r
<1> QED
  BY <1>1, <1>2, RaceStep

LEMMA RaceInit == Init => RaceInv
  BY DEF Init, RaceInv

LEMMA LockSchedulerRace ==
  ASSUME IInv, RaceInv, NEW t \in Threads, LockScheduler(t)
  PROVE  RaceInv'
<1>1. CASE pScher_ # 0
  <2>1. PICK q \in {"next", "tid"} : q = Place(t)
    BY PlaceTypes
  <2> QED
    BY <1>1, <2>1, RaceGoto DEF LockScheduler, At, schedVars
<1>2. CASE pScher_ = 0
  <2>1. /\ processors_' = <<0>> /\ curPro_' = <<-1>> /\ pScher_' = 1
        /\ thread' = [thread EXCEPT ![t] = [thread[t] EXCEPT !.pc = "start"]]
        /\ thread \in [Threads -> Calls]
        /\ \A u \in Threads : thread[u].pc \in {"idle", "check", "lock"}
    BY <1>2 DEF LockScheduler, Goto, IInv, SchedulerInv
  <2>2. /\ thread'[t].pc = "start"
        /\ \A u \in Threads \ {t} : thread'[u] = thread[u]
    BY <2>1 DEF Calls
  <2>3. Size' = 0 /\ curPro_'[1] = -1
    BY <2>1 DEF Size
  <2>4. SomebodyStarts' /\ SomebodyWraps'
    BY <2>2, <2>3 DEF SomebodyStarts, SomebodyWraps
  <2>5. \A u \in Threads : Sound(u)'
    BY <2>1, <2>2 DEF Sound
  <2> QED
    BY <2>4, <2>5 DEF RaceInv
<1> QED
  BY <1>1, <1>2

LEMMA StartSchedulerRace ==
  ASSUME IInv, RaceInv, NEW t \in Threads, startScheduler(t)
  PROVE  RaceInv'
<1>1. /\ pScher_ = 1 /\ thread[t].pc = "start"
      /\ thread \in [Threads -> Calls]
  BY DEF startScheduler, At, IInv, SchedulerInv
<1>2. /\ Size \in Nat /\ processors_ = <<Size>> /\ curPro_[1] \in Int
      /\ defaultThreadNum \in Nat \ {0}
  BY <1>1, SchedulerTypes, RuntimeAssumption DEF IInv
<1>3. SomebodyStarts /\ SomebodyWraps /\ \A u \in Threads : Sound(u)
  BY <1>1 DEF RaceInv
<1>4. pScher_' = 1 /\ curPro_' = curPro_
  BY <1>1 DEF startScheduler
<1>5. CASE processors_[pScher_] < defaultThreadNum
  <2>1. processors_' = <<Size + 1>> /\ thread' = thread
    BY <1>1, <1>2, <1>5 DEF startScheduler
  <2>2. Size' = Size + 1
    BY <1>4, <2>1 DEF Size
  <2>3. SomebodyStarts' /\ SomebodyWraps'
    BY <1>2, <1>3, <1>4, <2>1, <2>2 DEF SomebodyStarts, SomebodyWraps
  <2>4. ASSUME NEW u \in Threads PROVE Sound(u)'
    <3>1. thread[u].cur \in Int /\ thread[u].n \in Nat
      BY <1>1 DEF Calls
    <3> QED
      BY <1>2, <1>3, <2>1, <2>2, <3>1 DEF Sound
  <2> QED
    BY <2>3, <2>4 DEF RaceInv
<1>6. CASE ~(processors_[pScher_] < defaultThreadNum)
  <2>1. /\ processors_' = processors_
        /\ thread' = [thread EXCEPT ![t] = [thread[t] EXCEPT !.pc = Place(t)]]
    BY <1>1, <1>6 DEF startScheduler, Goto
  <2>2. /\ thread'[t].pc \in {"next", "tid"}
        /\ \A u \in Threads \ {t} : thread'[u] = thread[u]
    BY <1>1, <2>1, PlaceTypes DEF Calls
  <2>3. Size' = Size /\ Size # 0
    BY <1>1, <1>2, <1>4, <1>6, <2>1 DEF Size
  <2>4. SomebodyStarts' /\ SomebodyWraps'
    BY <1>1, <1>3, <1>4, <2>2, <2>3 DEF SomebodyStarts, SomebodyWraps
  <2>5. \A u \in Threads : Sound(u)'
    BY <1>3, <2>2, <2>3 DEF Sound
  <2> QED
    BY <2>4, <2>5 DEF RaceInv
<1> QED
  BY <1>5, <1>6

LEMMA Next_loadRace ==
  ASSUME IInv, RaceInv, NEW t \in Threads, Next_load(t)
  PROVE  RaceInv'
<1>1. pScher_ = 1 /\ thread[t].pc = "next"
  BY DEF Next_load, At, IInv, SchedulerInv
<1>2. Size \in Nat
  BY <1>1, SchedulerTypes DEF IInv
<1>3. CASE Size = 0
  BY <1>3, RaceSame DEF Next_load, Falls
<1>4. CASE Size # 0
  <2> DEFINE r == [thread[t] EXCEPT !.pc = "store", !.n = Size,
                                    !.cur = curPro_[pScher_] + 1]
  <2>1. /\ thread' = [thread EXCEPT ![t] = r]
        /\ UNCHANGED <<pScher_, processors_, curPro_>>
    BY <1>4 DEF Next_load, IInv, SchedulerInv, schedVars
  <2>2. r.pc = "store" /\ r.n = Size
    BY DEF IInv, SchedulerInv, Calls
  <2> HIDE DEF r
  <2>3. /\ thread[t].pc \notin {"start", "wrap"}
        /\ r.pc \in {"store", "wrap"} => r.n \in 1 .. Size
        /\ r.pc = "return" => r.cur < Size
    BY <1>1, <1>2, <1>4, <2>2
  <2> QED
    BY <2>1, <2>3, RaceStep
<1> QED
  BY <1>3, <1>4

(* The thread that stores a position past the last one is the one that will
   test it. *)
LEMMA Next_storeRace ==
  ASSUME IInv, RaceInv, NEW t \in Threads, Next_store(t)
  PROVE  RaceInv'
<1>1. /\ pScher_ = 1 /\ thread[t].pc = "store"
      /\ thread \in [Threads -> Calls]
  BY DEF Next_store, At, IInv, SchedulerInv
<1>2. SomebodyStarts /\ \A u \in Threads : Sound(u)
  BY <1>1 DEF RaceInv
<1>3. /\ curPro_'[1] = thread[t].cur
      /\ UNCHANGED <<pScher_, processors_>>
      /\ thread' = [thread EXCEPT ![t] = [thread[t] EXCEPT !.pc = "wrap"]]
  BY <1>1, SchedulerTypes DEF Next_store, Goto, IInv
<1>4. /\ thread'[t].pc = "wrap" /\ thread'[t].cur = thread[t].cur
      /\ thread'[t].n = thread[t].n
      /\ \A u \in Threads \ {t} : thread'[u] = thread[u]
  BY <1>1, <1>3 DEF Calls
<1>5. Size' = Size
  BY <1>3 DEF Size
<1>6. SomebodyStarts'
  BY <1>1, <1>2, <1>4, <1>5 DEF SomebodyStarts
<1>7. SomebodyWraps'
  BY <1>3, <1>4 DEF SomebodyWraps
<1>8. \A u \in Threads : Sound(u)'
  BY <1>1, <1>2, <1>4, <1>5 DEF Sound
<1> QED
  BY <1>6, <1>7, <1>8 DEF RaceInv

(* Whoever tests a position past the last one sets it back. *)
LEMMA Next_wrapRace ==
  ASSUME IInv, RaceInv, NEW t \in Threads, Next_wrap(t)
  PROVE  RaceInv'
<1>1. /\ pScher_ = 1 /\ thread[t].pc = "wrap"
      /\ thread \in [Threads -> Calls]
  BY DEF Next_wrap, At, IInv, SchedulerInv
<1>2. /\ Size \in Nat /\ curPro_[1] \in Int /\ curPro_ = <<curPro_[1]>>
      /\ thread[t].cur \in Int /\ thread[t].n \in Nat
  BY <1>1, SchedulerTypes, RuntimeAssumption DEF IInv, Calls
<1>3. SomebodyStarts /\ SomebodyWraps /\ \A u \in Threads : Sound(u)
  BY <1>1 DEF RaceInv
<1>4. thread[t].n \in 1 .. Size
  BY <1>1, <1>3 DEF Sound
<1>5. PICK i \in {thread[t].cur, curPro_[1]} : Wraps(t, i, thread[t].n - 1)
  BY <1>1 DEF Next_wrap
<1>6. i \in Int /\ UNCHANGED <<pScher_, processors_>> /\ Size' = Size
  BY <1>2 DEF Next_wrap, Size
<1>7. PICK k \in Int, p \in Int :
        /\ thread' = [thread EXCEPT ![t] = [thread[t] EXCEPT !.pc = "return",
                                                             !.cur = k]]
        /\ k < Size /\ curPro_'[1] = p
        /\ p = 0 \/ (p = curPro_[1] /\ i <= thread[t].n - 1)
  <2>1. CASE i > thread[t].n - 1
    <3>1. curPro_'[1] = 0 /\ 0 < Size
      BY <1>1, <1>2, <1>4, <1>5, <2>1 DEF Wraps
    <3>2. thread' = [thread EXCEPT ![t] = [thread[t] EXCEPT !.pc = "return",
                                                            !.cur = 0]]
      BY <1>1, <1>5, <2>1 DEF Wraps
    <3>3. PICK z \in Int : z = 0
      OBVIOUS
    <3> QED
      BY <3>1, <3>2, <3>3, Zenon
  <2>2. CASE ~(i > thread[t].n - 1)
    <3>1. curPro_'[1] = curPro_[1] /\ i < Size /\ i <= thread[t].n - 1
      BY <1>2, <1>4, <1>5, <1>6, <2>2 DEF Wraps
    <3>2. thread' = [thread EXCEPT ![t] = [thread[t] EXCEPT !.pc = "return",
                                                            !.cur = i]]
      BY <1>1, <1>5, <2>2 DEF Wraps
    <3> QED
      BY <1>2, <1>6, <3>1, <3>2
  <2> QED
    BY <2>1, <2>2
<1>8. /\ thread'[t].pc = "return" /\ thread'[t].cur = k
      /\ \A u \in Threads \ {t} : thread'[u] = thread[u]
  BY <1>1, <1>7 DEF Calls
<1>9. SomebodyStarts'
  BY <1>1, <1>3, <1>6, <1>8 DEF SomebodyStarts
<1>10. SomebodyWraps'
  <2> SUFFICES ASSUME curPro_'[1] >= Size
               PROVE  \E u \in Threads : /\ thread'[u].pc = "wrap"
                                         /\ thread'[u].cur = curPro_'[1]
    BY <1>6 DEF SomebodyWraps
  <2>1. p = curPro_[1] /\ i <= thread[t].n - 1 /\ curPro_[1] >= Size
    BY <1>2, <1>4, <1>7
  <2>2. PICK u \in Threads : /\ thread[u].pc = "wrap"
                             /\ thread[u].cur = curPro_[1]
    BY <1>3, <2>1 DEF SomebodyWraps
  <2>3. u # t
    <3>1. i # curPro_[1]
      BY <1>2, <1>4, <1>6, <2>1
    <3> QED
      BY <1>5, <2>2, <3>1
  <2> QED
    BY <1>7, <1>8, <2>1, <2>2, <2>3
<1>11. \A u \in Threads : Sound(u)'
  BY <1>3, <1>6, <1>7, <1>8 DEF Sound
<1> QED
  BY <1>9, <1>10, <1>11 DEF RaceInv

LEMMA CallRace ==
  ASSUME IInv, RaceInv, NEW t \in Threads, NEW i, goNewCo(t, i),
         thread[t].pc \notin {"start", "wrap"}
  PROVE  RaceInv'
  BY RaceStep, IdleTypes DEF goNewCo, schedVars

LEMMA NextRace == IInv /\ RaceInv /\ [Next]_vars => RaceInv'
<1> SUFFICES ASSUME IInv, RaceInv, [Next]_vars PROVE RaceInv'
  OBVIOUS
<1>1. ASSUME NEW t \in Threads, BeginGo(t) PROVE RaceInv'
  <2>1. PICK tid \in Tids :
          thread' = [thread EXCEPT ![t] =
                        [Idle EXCEPT !.pc = "check", !.tid = tid]]
    BY <1>1 DEF BeginGo
  <2> DEFINE r == [Idle EXCEPT !.pc = "check", !.tid = tid]
  <2>2. r.pc = "check"
    BY IdleTypes DEF Calls
  <2> HIDE DEF r
  <2>3. /\ thread' = [thread EXCEPT ![t] = r] /\ thread[t].pc = "idle"
        /\ UNCHANGED <<pScher_, processors_, curPro_>>
    BY <1>1, <2>1 DEF r, BeginGo, At, schedVars
  <2> QED
    BY <2>2, <2>3, RaceStep
<1>2. ASSUME NEW t \in Threads, Check(t) PROVE RaceInv'
  <2>1. PICK q \in {"lock", "next", "tid"} :
          q = IF pScher_ = 0 THEN "lock" ELSE Place(t)
    BY PlaceTypes
  <2> QED
    BY <1>2, <2>1, RaceGoto DEF Check, At, schedVars
<1>3. ASSUME NEW t \in Threads, GoTo(t) \/ Next_return(t) PROVE RaceInv'
  <2>1. thread[t].pc \in {"tid", "return"}
    BY <1>3 DEF GoTo, Next_return, At
  <2>2. Falls \/ \E i : goNewCo(t, i)
    BY <1>3 DEF GoTo, Next_return
  <2> QED
    BY <2>1, <2>2, CallRace, RaceSame DEF Falls
<1>4. ASSUME NEW t \in Threads, ReadDuringStart(t) PROVE RaceInv'
  BY <1>4, RaceSame DEF ReadDuringStart, Falls
<1>5. ASSUME NEW c \in Coroutines,
             Resume(c) \/ lock(c) \/ co_sleep(c) \/ TimeOut(c) \/ unlock(c)
      PROVE  RaceInv'
  BY <1>5, RaceSame DEF Resume, lock, co_sleep, TimeOut, unlock
<1>6. CASE UNCHANGED vars
  BY <1>6, RaceSame DEF vars
<1> QED
  BY <1>1, <1>2, <1>3, <1>4, <1>5, <1>6, LockSchedulerRace,
     StartSchedulerRace, Next_loadRace, Next_storeRace, Next_wrapRace
     DEF Next, Going

(* The call that fells the program, and the one it races with. *)
LEMMA FallsOnlyInARace ==
  ASSUME IInv, RaceInv, [Next]_vars, ~down, down'
  PROVE  \E t, u \in Threads :
            /\ t # u
            /\ \/ thread[t].pc \in {"next", "tid", "return"}
                    /\ thread[u].pc = "start"
               \/ thread[t].pc = "return" /\ thread[u].pc = "wrap"
<1>1. \E t \in Threads : GoTo(t) \/ Next_load(t) \/ Next_return(t)
                            \/ ReadDuringStart(t)
  <2>1. ASSUME NEW t \in Threads,
               \/ BeginGo(t) \/ Check(t) \/ LockScheduler(t)
               \/ startScheduler(t) \/ Next_store(t) \/ Next_wrap(t)
        PROVE  FALSE
    BY <2>1 DEF BeginGo, Check, LockScheduler, startScheduler, Next_store,
                Next_wrap
  <2>2. ASSUME NEW c \in Coroutines,
               Resume(c) \/ lock(c) \/ co_sleep(c) \/ TimeOut(c) \/ unlock(c)
        PROVE  FALSE
    BY <2>2 DEF Resume, lock, co_sleep, TimeOut, unlock
  <2>3. ~UNCHANGED vars
    BY DEF vars
  <2> QED
    BY <2>1, <2>2, <2>3 DEF Next, Going
<1>2. PICK t \in Threads : GoTo(t) \/ Next_load(t) \/ Next_return(t)
                             \/ ReadDuringStart(t)
  BY <1>1
<1>3. CASE ReadDuringStart(t)
  BY <1>3 DEF ReadDuringStart, At
<1>4. CASE GoTo(t) \/ Next_load(t) \/ Next_return(t)
  <2>1. pScher_ = 1 /\ thread[t].pc \in {"tid", "next", "return"}
    BY <1>4 DEF GoTo, Next_load, Next_return, At, IInv, SchedulerInv
  <2>2. SomebodyStarts /\ SomebodyWraps /\ Sound(t)
    BY <2>1 DEF RaceInv
  <2>3. CASE Size = 0
    BY <2>1, <2>2, <2>3 DEF SomebodyStarts
  <2>4. CASE Size # 0
    <3>1. Next_return(t)
      BY <1>4, <2>4 DEF GoTo, Next_load, goNewCo
    <3>2. PICK i \in {thread[t].cur, curPro_[1]} : ~(i < Size)
      BY <2>1, <3>1 DEF Next_return, goNewCo
    <3>3. /\ thread[t].pc = "return" /\ Size \in Nat /\ curPro_[1] \in Int
          /\ thread[t].cur < Size
      BY <2>1, <2>2, <3>1, SchedulerTypes, RuntimeAssumption
         DEF Next_return, At, Sound, IInv
    <3>4. curPro_[1] >= Size
      BY <3>2, <3>3
    <3> QED
      BY <2>2, <3>3, <3>4 DEF SomebodyWraps
  <2> QED
    BY <2>3, <2>4
<1> QED
  BY <1>2, <1>3, <1>4

(* However many threads call co_go at one time, a call falls only in a race
   that is going on: behind a thread that is making the scheduler, or between
   another's ++curPro_ and its test.  Neither leaves a position behind, or a
   scheduler, that fells a call made when they are over. *)
THEOREM RacesLeaveNothing == Spec => FallsInARace
<1>1. IInv /\ RaceInv /\ [Next]_vars =>
        [~down /\ down' =>
            \E t, u \in Threads :
                /\ t # u
                /\ \/ thread[t].pc \in {"next", "tid", "return"}
                        /\ thread[u].pc = "start"
                   \/ thread[t].pc = "return" /\ thread[u].pc = "wrap"]_vars
  BY FallsOnlyInARace
<1> QED
  BY <1>1, RaceInit, NextRace, Inductive, PTL DEF Spec, FallsInARace
=============================================================================
