----------------------------- MODULE Processor -----------------------------
(***************************************************************************)
(* One Processor (src/processor.cc): the thread that runs the main loop,   *)
(* the coroutines it switches to, the threads that hand it new coroutines, *)
(* the timer heap with its timerfd, the epoll set and the object pool.     *)
(*                                                                         *)
(* The loop thread and the current coroutine are one thread: the loop      *)
(* stands still while cur # None.  Other threads interleave with it.  A    *)
(* coroutine's body is arbitrary: at each step it sleeps, waits for its    *)
(* fd, gives way, starts a coroutine or returns.                           *)
(***************************************************************************)
EXTENDS Integers, SequencesExt, FiniteSets

CONSTANTS
    NBlocks,     \* blocks of the coroutine pool
    Creators,    \* threads, other than the loop's, that call goNewCo
    LoopThread,  \* the loop's thread, on which coroutines call goNewCo
    None,        \* no coroutine, no owner
    Fds,         \* file descriptors that coroutines wait for
    FdOf,        \* FdOf[c]: the descriptor that coroutine c waits for
    Calls,       \* what bodies call, a subset of {"sleep", "wait", "block"}
    Naps,        \* how long a sleep may be
    CanStop,     \* whether somebody calls stop()
    MaxTime,     \* bound: the clock
    MaxCreated,  \* bound: calls of goNewCo
    MaxCalls     \* bound: suspending calls of all bodies together

Blocks == 1 .. NBlocks
Threads == Creators \cup {LoopThread}

ASSUME BoundsAssumption ==
    /\ NBlocks \in Nat \ {0} /\ MaxTime \in Nat
    /\ MaxCreated \in Nat /\ MaxCalls \in Nat
    /\ Naps \subseteq Nat \ {0} /\ Calls \subseteq {"sleep", "wait", "block"}
ASSUME NamesAssumption ==
    /\ LoopThread \notin Creators /\ None \notin Threads
    /\ None \notin Blocks /\ FdOf \in [Blocks -> Fds] /\ CanStop \in BOOLEAN

VARIABLES
    \* shared with the creators
    freeList,        \* coPool_: its free list, first block first
    newCoroutines,   \* newCoroutines_[2]
    runningNewQue,   \* runningNewQue_
    newQueLock,      \* the owner of newQueLock_
    spawn,           \* how far each thread is in its goNewCo
    created,         \* calls of goNewCo so far
    \* the loop
    status,          \* status_
    at,              \* the stage of the loop's body
    todo,            \* what is left of the list that the stage walks over
    actCoroutines,   \* actCoroutines_, without the timerfd's nullptr
    blockedCo,       \* blockedCo_[2]
    blockingCoIdx,   \* blockingCoIdx_
    coSet,           \* coSet_
    removedCo,       \* removedCo_
    \* the coroutines
    cur,             \* pCurCoroutine_ while it has the CPU, else None
    state,           \* Coroutine::status_
    doing,           \* the call in which the body was last suspended
    until,           \* the deadline of the body's last sleep
    calls,           \* suspending calls so far
    \* Timer, Epoller and the kernel
    timerCoHeap,     \* timerCoHeap_ in order: <<time, coroutine>>
    timerFd,         \* when the timerfd expires, Never if it is not armed
    now,             \* the clock
    registered,      \* the coroutine of each fd in the epoll set, or None
    ready            \* the fds that can be read

poolVars ==
    <<freeList, newCoroutines, runningNewQue, newQueLock, spawn, created>>
listVars == <<blockedCo, blockingCoIdx, coSet, removedCo>>
loopVars == <<status, at, todo, actCoroutines, listVars>>
coVars == <<cur, state, doing, until, calls>>
timerVars == <<timerCoHeap, timerFd, now>>
epollVars == <<registered, ready>>
vars == <<poolVars, loopVars, coVars, timerVars, epollVars>>

Never == -1
Idle == [pc |-> "idle", co |-> None, que |-> 0]

Init ==
    /\ freeList = [i \in 1 .. NBlocks |-> i]
    /\ newCoroutines = [q \in {0, 1} |-> << >>]
    /\ runningNewQue = 0
    /\ newQueLock = None
    /\ spawn = [t \in Threads |-> Idle]
    /\ created = 0
    /\ status = "running" /\ at = "top" /\ todo = << >>
    /\ actCoroutines = << >>
    /\ blockedCo = [i \in {0, 1} |-> << >>]
    /\ blockingCoIdx = 0
    /\ coSet = {} /\ removedCo = << >>
    /\ cur = None
    /\ state = [c \in Blocks |-> "dead"]
    /\ doing = [c \in Blocks |-> "body"]
    /\ until = [c \in Blocks |-> 0]
    /\ calls = 0
    /\ timerCoHeap = << >> /\ timerFd = Never /\ now = 0
    /\ registered = [f \in Fds |-> None] /\ ready = {}

-----------------------------------------------------------------------------
(* Timer and timerfd *)

Expired == timerFd # Never /\ timerFd <= now

(* std::pair's order: time first, then the coroutine's address. *)
Before(x, y) == x[1] < y[1] \/ (x[1] = y[1] /\ x[2] <= y[2])

(* The entry takes its place among those in the heap. *)
HeapPush(e) ==
    \E k \in 1 .. Len(timerCoHeap) + 1 :
        /\ \A i \in 1 .. k - 1 : Before(timerCoHeap[i], e)
        /\ \A i \in k .. Len(timerCoHeap) : ~Before(timerCoHeap[i], e)
        /\ timerCoHeap' = InsertAt(timerCoHeap, k, e)

(* The entries due at a time are popped from the top; their coroutines are
   those that the loop walks over next. *)
PopDue(time) ==
    \E k \in 0 .. Len(timerCoHeap) :
        /\ \A i \in 1 .. k : timerCoHeap[i][1] <= time
        /\ k < Len(timerCoHeap) => timerCoHeap[k + 1][1] > time
        /\ todo' = [i \in 1 .. k |-> timerCoHeap[i][2]]
        /\ timerCoHeap' = SubSeq(timerCoHeap, k + 1, Len(timerCoHeap))

(* Arming replaces the expiry set before and forgets one not yet read. *)
Arm(time) == timerFd' = time

(* runAt: the new entry re-arms the timerfd if no entry is earlier. *)
RunAt(time, c) ==
    /\ HeapPush(<<time, c>>)
    /\ IF Head(timerCoHeap')[1] = time THEN Arm(time) ELSE UNCHANGED timerFd

runAfter(d, c) == RunAt(now + d, c)

Tick ==
    /\ now < MaxTime
    /\ now' = now + 1
    /\ UNCHANGED <<poolVars, loopVars, coVars, timerCoHeap, timerFd, epollVars>>

(* Data arrives for a coroutine: its fd becomes readable. *)
FdReady(f) ==
    /\ f \notin ready
    /\ ready' = ready \cup {f}
    /\ UNCHANGED <<poolVars, loopVars, coVars, timerVars, registered>>

-----------------------------------------------------------------------------
(* The pool: blocks come from the head of the free list, and go back there.
   It grows by malloc when it is empty; here it is then not asked (bound). *)

AllocAMemBlock == freeList # << >> /\ freeList' = Tail(freeList)
FreeAMemBlock(c) == freeList' = <<c>> \o freeList

(* What the constructor leaves in a block. *)
NewCoroutine(c) ==
    /\ state' = [state EXCEPT ![c] = "ready"]
    /\ doing' = [doing EXCEPT ![c] = "body"]

(* The epoll set: an fd that is in it already is not added, and nobody is told;
   removing it does not ask who added it. *)
addEv(c, fd) ==
    registered' = [registered EXCEPT ![fd] = IF @ = None THEN c ELSE @]
removeEv(fd) == registered' = [registered EXCEPT ![fd] = None]

-----------------------------------------------------------------------------
(* goNewCo: a block from the pool, its place in a queue, the wake-up.  The
   callers are the creators and, on the loop's thread, its coroutines. *)

InBody(c) == cur = c /\ doing[c] # "wait" /\ spawn[LoopThread].pc = "idle"
MayCreate(t) == t = LoopThread => \E c \in Blocks : InBody(c)

(* new_obj under coPoolLock_: the free list's first block, constructed. *)
NewObj(t) ==
    /\ spawn[t].pc = "idle"
    /\ MayCreate(t)
    /\ created < MaxCreated
    /\ AllocAMemBlock
    /\ LET c == Head(freeList) IN
        /\ NewCoroutine(c)
        /\ spawn' = [spawn EXCEPT ![t] = [pc |-> "lock", co |-> c, que |-> 0]]
    /\ created' = created + 1
    /\ UNCHANGED <<newCoroutines, runningNewQue, newQueLock, loopVars, cur,
                   until, calls, timerVars, epollVars>>

(* goCo, lines 72-73: the lock, then the choice of the queue. *)
LockQueue(t) ==
    /\ spawn[t].pc = "lock"
    /\ newQueLock = None
    /\ newQueLock' = t
    /\ spawn' = [spawn EXCEPT ![t].pc = "push", ![t].que = 1 - runningNewQue]
    /\ UNCHANGED <<freeList, newCoroutines, runningNewQue, created, loopVars,
                   coVars, timerVars, epollVars>>

(* The push ends and the lock is released. *)
PushNew(t) ==
    /\ spawn[t].pc = "push"
    /\ newCoroutines' = [newCoroutines EXCEPT
                            ![spawn[t].que] = Append(@, spawn[t].co)]
    /\ newQueLock' = None
    /\ spawn' = [spawn EXCEPT ![t].pc = "wake"]
    /\ UNCHANGED <<freeList, runningNewQue, created, loopVars, coVars,
                   timerVars, epollVars>>

(* wakeUpEpoller: the timerfd is armed for this instant. *)
WakeUp(t) ==
    /\ spawn[t].pc = "wake"
    /\ Arm(now)
    /\ spawn' = [spawn EXCEPT ![t] = Idle]
    /\ UNCHANGED <<freeList, newCoroutines, runningNewQue, newQueLock, created,
                   loopVars, coVars, timerCoHeap, now, epollVars>>

(* stop(): the status changes, and nothing else. *)
Stop ==
    /\ CanStop
    /\ status' = "stopping"
    /\ UNCHANGED <<poolVars, at, todo, actCoroutines, listVars, coVars,
                   timerVars, epollVars>>

-----------------------------------------------------------------------------
(* Coroutines.  A body that suspends sets CO_WAITING and swaps to the main
   context, which goes on after the resume that ran it. *)

Suspend(c, call) ==
    /\ call \in Calls
    /\ InBody(c)
    /\ calls < MaxCalls
    /\ calls' = calls + 1
    /\ state' = [state EXCEPT ![c] = "waiting"]
    /\ doing' = [doing EXCEPT ![c] = call]
    /\ cur' = None

(* wait: co_sleep for d ticks. *)
Wait(c, d) ==
    /\ Suspend(c, "sleep")
    /\ now + d <= MaxTime
    /\ runAfter(d, c)
    /\ until' = [until EXCEPT ![c] = now + d]
    /\ UNCHANGED <<poolVars, loopVars, now, epollVars>>

(* waitEvent up to its yield. *)
WaitEvent(c) ==
    /\ Suspend(c, "wait")
    /\ addEv(c, FdOf[c])
    /\ UNCHANGED <<poolVars, loopVars, until, timerVars, ready>>

(* waitEvent after its yield.  The body then reads what there is to read. *)
WaitEventReturns(c) ==
    /\ cur = c
    /\ doing[c] = "wait"
    /\ doing' = [doing EXCEPT ![c] = "body"]
    /\ removeEv(FdOf[c])
    /\ ready' = ready \ {FdOf[c]}
    /\ UNCHANGED <<poolVars, loopVars, cur, state, until, calls, timerVars>>

BlockedYield(c) ==
    /\ Suspend(c, "block")
    /\ blockedCo' = [blockedCo EXCEPT ![blockingCoIdx] = Append(@, c)]
    /\ UNCHANGED <<poolVars, status, at, todo, actCoroutines, blockingCoIdx,
                   coSet, removedCo, until, timerVars, epollVars>>

(* The body returns: coWrapFunc calls killCurCo, and uc_link leads back to
   the loop.  Coroutine::status_ stays CO_RUNNING. *)
KillCurCo(c) ==
    /\ InBody(c)
    /\ removedCo' = Append(removedCo, c)
    /\ cur' = None
    /\ UNCHANGED <<poolVars, status, at, todo, actCoroutines, blockedCo,
                   blockingCoIdx, coSet, state, doing, until, calls, timerVars,
                   epollVars>>

-----------------------------------------------------------------------------
(* The main loop *)

(* Coroutine::resume: the CPU goes to a coroutine that is new or suspended. *)
CoroutineResume(c) ==
    IF state[c] \in {"ready", "waiting"}
    THEN /\ cur' = c
         /\ state' = [state EXCEPT ![c] = "running"]
    ELSE UNCHANGED <<cur, state>>

(* Mutant: pointers are not looked up in coSet_. *)
Resume_unchecked(c, S) == CoroutineResume(c)

(* Processor::resume: one that is not in the set S of live ones is left as it
   is. *)
Resume(c, S) ==
    IF c \in S THEN CoroutineResume(c) ELSE UNCHANGED <<cur, state>>

LoopAt(stage) == at = stage /\ cur = None

(* Mutant: actCoroutines_ keeps the coroutines of earlier turns. *)
Top_keeps_act ==
    /\ LoopAt("top")
    /\ IF status = "running"
       THEN at' = "poll" /\ UNCHANGED status
       ELSE at' = "stopped" /\ status' = "stopped"
    /\ UNCHANGED <<poolVars, todo, actCoroutines, listVars, coVars, timerVars,
                   epollVars>>

(* Lines 111-120: the loop's condition, and the two lists are emptied. *)
Top ==
    /\ LoopAt("top")
    /\ IF status = "running"
       THEN /\ at' = "poll" /\ actCoroutines' = << >>
            /\ UNCHANGED status
       ELSE /\ at' = "stopped" /\ status' = "stopped"
            /\ UNCHANGED actCoroutines
    /\ UNCHANGED <<poolVars, todo, listVars, coVars, timerVars, epollVars>>

(* Mutant: fds that nobody waits for are reported. *)
Reported_all == ready

(* The fds that epoll_wait reports, besides the timerfd. *)
Reported == {f \in ready : registered[f] # None}

(* Lines 123-131: epoll_wait returns, at once if blockedCo_ of the current
   index is not empty, else when some fd is readable; its coroutines are added
   to the list, in any order; then the index flips. *)
EpollWait ==
    /\ LoopAt("poll")
    /\ blockedCo[blockingCoIdx] # << >> \/ Expired \/ Reported # {}
    /\ \E active \in SetToSeqs({registered[f] : f \in Reported}) :
          actCoroutines' = actCoroutines \o active
    /\ blockingCoIdx' = 1 - blockingCoIdx
    /\ todo' = blockedCo[blockingCoIdx]
    /\ at' = "blocked"
    /\ UNCHANGED <<poolVars, status, blockedCo, coSet, removedCo, coVars,
                   timerVars, epollVars>>

(* The loops of lines 131-133, 137-140 and 166-169. *)
ResumeNext ==
    /\ \E stage \in {"blocked", "timers", "act"} : LoopAt(stage)
    /\ todo # << >>
    /\ Resume(Head(todo), coSet)
    /\ todo' = Tail(todo)
    /\ UNCHANGED <<poolVars, status, at, actCoroutines, listVars, doing, until,
                   calls, timerVars, epollVars>>

(* Mutant: the timerfd is read, and not armed for the next entry. *)
Rearm_not == IF Expired THEN Arm(Never) ELSE UNCHANGED timerFd

(* The timerfd is read, which forgets an expiry, and armed again for the next
   entry. *)
Rearm ==
    \/ timerCoHeap' # << >> /\ Arm(Head(timerCoHeap')[1])
    \/ timerCoHeap' = << >> /\ Expired /\ Arm(Never)
    \/ timerCoHeap' = << >> /\ ~Expired /\ UNCHANGED timerFd

BlockedDone ==
    /\ LoopAt("blocked")
    /\ todo = << >>
    /\ at' = "timers"
    /\ UNCHANGED <<poolVars, status, actCoroutines, listVars, coVars, now,
                   epollVars>>

(* Mutant: of the coroutines that are due, only the first is kept. *)
GetExpired_first ==
    /\ BlockedDone
    /\ LET due == SelectSeq(timerCoHeap, LAMBDA x : x[1] <= now) IN
        todo' = [i \in DOMAIN due \cap {1} |-> due[i][2]]
    /\ timerCoHeap' = SelectSeq(timerCoHeap, LAMBDA x : x[1] > now)
    /\ Rearm

(* getExpiredCoroutines. *)
GetExpired == BlockedDone /\ PopDue(now) /\ Rearm

(* Mutant: the flip does not take the lock. *)
SwapQueues_unlocked ==
    /\ LoopAt("timers")
    /\ todo = << >>
    /\ runningNewQue' = 1 - runningNewQue
    /\ at' = "drain"
    /\ UNCHANGED <<freeList, newCoroutines, newQueLock, spawn, created, status,
                   todo, actCoroutines, listVars, coVars, timerVars, epollVars>>

(* Lines 144-150: the queues change roles under newQueLock_. *)
SwapQueues ==
    /\ LoopAt("timers")
    /\ todo = << >>
    /\ newQueLock = None
    /\ runningNewQue' = 1 - runningNewQue
    /\ at' = "drain"
    /\ UNCHANGED <<freeList, newCoroutines, newQueLock, spawn, created, status,
                   todo, actCoroutines, listVars, coVars, timerVars, epollVars>>

(* Lines 152-162, without the lock: the queue that creators used before. *)
StartNew ==
    /\ LoopAt("drain")
    /\ newCoroutines[runningNewQue] # << >>
    /\ LET c == Head(newCoroutines[runningNewQue]) IN
        /\ newCoroutines' = [newCoroutines EXCEPT ![runningNewQue] = Tail(@)]
        /\ coSet' = coSet \cup {c}
        /\ Resume(c, coSet')
    /\ UNCHANGED <<freeList, runningNewQue, newQueLock, spawn, created, status,
                   at, todo, actCoroutines, blockedCo, blockingCoIdx, removedCo,
                   doing, until, calls, timerVars, epollVars>>

QueueDrained ==
    /\ LoopAt("drain")
    /\ newCoroutines[runningNewQue] = << >>
    /\ at' = "act"
    /\ todo' = actCoroutines
    /\ UNCHANGED <<poolVars, status, actCoroutines, listVars, coVars, timerVars,
                   epollVars>>

ActDone ==
    /\ LoopAt("act")
    /\ todo = << >>
    /\ at' = "bury"
    /\ todo' = removedCo
    /\ UNCHANGED <<poolVars, status, actCoroutines, listVars, coVars, timerVars,
                   epollVars>>

(* Line 176, under coSetLock_. *)
EraseDead ==
    /\ LoopAt("bury")
    /\ todo # << >>
    /\ coSet' = coSet \ {Head(todo)}
    /\ at' = "free"
    /\ UNCHANGED <<poolVars, status, todo, actCoroutines, blockedCo,
                   blockingCoIdx, removedCo, coVars, timerVars, epollVars>>

(* Line 181, under coPoolLock_: the block is free for the next new_obj. *)
FreeDead ==
    /\ LoopAt("free")
    /\ FreeAMemBlock(Head(todo))
    /\ todo' = Tail(todo)
    /\ at' = "bury"
    /\ UNCHANGED <<newCoroutines, runningNewQue, newQueLock, spawn, created,
                   status, actCoroutines, listVars, coVars, timerVars,
                   epollVars>>

(* Mutant: removedCo_ is not cleared. *)
ClearRemoved_not ==
    /\ LoopAt("bury")
    /\ todo = << >>
    /\ at' = "top"
    /\ UNCHANGED <<poolVars, status, todo, actCoroutines, listVars, coVars,
                   timerVars, epollVars>>

(* Line 184, and the next turn. *)
ClearRemoved ==
    /\ LoopAt("bury")
    /\ todo = << >>
    /\ removedCo' = << >>
    /\ at' = "top"
    /\ UNCHANGED <<poolVars, status, todo, actCoroutines, blockedCo,
                   blockingCoIdx, coSet, coVars, timerVars, epollVars>>

-----------------------------------------------------------------------------
Create(t) == NewObj(t) \/ LockQueue(t) \/ PushNew(t) \/ WakeUp(t)

Body ==
    \E c \in Blocks :
        \/ \E d \in Naps : Wait(c, d)
        \/ WaitEvent(c) \/ WaitEventReturns(c)
        \/ BlockedYield(c) \/ KillCurCo(c)

Loop ==
    \/ Top \/ EpollWait \/ ResumeNext \/ GetExpired \/ SwapQueues \/ StartNew
    \/ QueueDrained \/ ActDone \/ EraseDead \/ FreeDead \/ ClearRemoved

Environment == Tick \/ \E f \in Fds : FdReady(f)

Next ==
    \/ \E t \in Threads : Create(t)
    \/ Body \/ Loop \/ Stop \/ Environment

Spec == Init /\ [][Next]_vars

(* The loop's thread and the creators are scheduled; a body does not keep
   the CPU for ever (it has MaxCalls and MaxCreated steps at most before it
   returns); the spinlock is held for one push, so a thread that waits for
   it gets it; the clock goes on. *)
Fairness ==
    /\ WF_vars(Loop) /\ SF_vars(SwapQueues)
    /\ WF_vars(Body)
    /\ \A t \in Threads :
        SF_vars(LockQueue(t)) /\ WF_vars(PushNew(t) \/ WakeUp(t))
    /\ WF_vars(Tick)

FairSpec == Spec /\ Fairness

-----------------------------------------------------------------------------
(* Properties *)

Stages == {"top", "poll", "blocked", "timers", "drain", "act", "bury", "free",
           "stopped"}

(* Every variable has its type. *)
PoolTypes ==
    /\ freeList \in Seq(Blocks)
    /\ newCoroutines \in [{0, 1} -> Seq(Blocks)]
    /\ runningNewQue \in {0, 1}
    /\ newQueLock \in Threads \cup {None}
    /\ spawn \in [Threads -> [pc : {"idle", "lock", "push", "wake"},
                              co : Blocks \cup {None}, que : {0, 1}]]
    /\ created \in Nat
LoopTypes ==
    /\ status \in {"running", "stopping", "stopped"}
    /\ at \in Stages
    /\ todo \in Seq(Blocks)
    /\ actCoroutines \in Seq(Blocks)
    /\ blockedCo \in [{0, 1} -> Seq(Blocks)]
    /\ blockingCoIdx \in {0, 1}
    /\ coSet \in SUBSET Blocks
    /\ removedCo \in Seq(Blocks)
CoTypes ==
    /\ cur \in Blocks \cup {None}
    /\ state \in [Blocks -> {"dead", "ready", "running", "waiting"}]
    /\ doing \in [Blocks -> {"body", "sleep", "wait", "block"}]
    /\ until \in [Blocks -> Nat]
    /\ calls \in Nat
TimerTypes ==
    /\ timerCoHeap \in Seq(Nat \X Blocks)
    /\ timerFd \in Nat \cup {Never}
    /\ now \in Nat
EpollTypes ==
    /\ registered \in [Fds -> Blocks \cup {None}]
    /\ ready \in SUBSET Fds
TypeOK == PoolTypes /\ LoopTypes /\ CoTypes /\ TimerTypes /\ EpollTypes

(* Lines 152-155 read and pop a queue without newQueLock_: no creator is then
   inside a push to that queue. *)
DrainedQueueIsPrivate ==
    \A t \in Threads :
        at = "drain" /\ spawn[t].pc = "push" => spawn[t].que # runningNewQue

Occurrences(s, b) == Cardinality({i \in DOMAIN s : s[i] = b})
Holders(b) ==
    {t \in Threads : spawn[t].pc \in {"lock", "push"} /\ spawn[t].co = b}
Alive(b) == b \in coSet \/ (at = "free" /\ Head(todo) = b)

(* Each block of the pool is in exactly one place: once in the free list, with
   one creator, once in one of the two queues, or alive in the processor.  A
   second delete_obj, a coroutine started twice, one dropped between two
   queues or a block handed out twice would all break this. *)
OnePlace ==
    \A b \in Blocks :
        Occurrences(freeList, b) + Occurrences(newCoroutines[0], b)
            + Occurrences(newCoroutines[1], b) + Cardinality(Holders(b))
            + (IF Alive(b) THEN 1 ELSE 0) = 1

(* The CPU is never given to a coroutine whose block was given back, or was
   given to another coroutine that has still to be started, however stale the
   pointers that the loop walks over. *)
RunsOnlyTheLiving == cur # None => cur \in coSet /\ Holders(cur) = {}

(* Both: no block is lost, handed out twice, or run when it is not alive. *)
BlocksAreSound == OnePlace /\ RunsOnlyTheLiving

(* A suspended coroutine has not been forgotten: what it waits for will put it
   on one of the loop's lists. *)
HasWaker(c) ==
    CASE doing[c] = "sleep" ->
            \/ \E i \in DOMAIN timerCoHeap : timerCoHeap[i] = <<until[c], c>>
            \/ at = "timers" /\ c \in ToSet(todo)
      [] doing[c] = "wait" -> registered[FdOf[c]] = c
      [] doing[c] = "block" ->
            \/ c \in ToSet(blockedCo[blockingCoIdx])
            \/ at = "blocked" /\ c \in ToSet(todo)
NoneForgotten ==
    \A c \in coSet : state[c] = "waiting" => HasWaker(c)

(* Before the loop may block, the timerfd is armed no later than the first
   deadline, although wake-ups of other threads re-arm it at any moment. *)
TimerArmed ==
    at = "poll" /\ timerCoHeap # << >> =>
        timerFd # Never /\ (timerFd <= now \/ timerFd <= Head(timerCoHeap)[1])

(* A coroutine that waits in a queue while the loop may block has a wake-up
   armed or on its way. *)
QueuedWillBeSeen ==
    at = "poll" /\ newCoroutines[1 - runningNewQue] # << >> =>
        timerFd # Never \/ \E t \in Threads : spawn[t].pc = "wake"

(* All three: whatever waits for the loop, something will wake the loop. *)
WorkWillBeSeen == NoneForgotten /\ TimerArmed /\ QueuedWillBeSeen

(* A resumed coroutine has what it was suspended for: its deadline has passed,
   or its descriptor can be read.  Only the walk over blockedCo_, which is
   never cleared, resumes others: the coroutines of those blocks from which
   co_blocked_yield has been called. *)
Woken(c) == state[c] = "waiting" /\ state'[c] = "running"
HasCause(c) ==
    /\ doing[c] = "sleep" => until[c] <= now
    /\ doing[c] = "wait" => FdOf[c] \in ready
GaveWay(c) == \E i \in {0, 1} : c \in ToSet(blockedCo[i])
ResumedForCause ==
    [][\A c \in Blocks : Woken(c) /\ ~GaveWay(c) => HasCause(c)]_vars

(* Without the exception: no coroutine is resumed early.  blockedCo_ keeps those
   that gave way once, and resumes them wherever they are suspended next. *)
EveryoneResumedForCause == [][\A c \in Blocks : Woken(c) => HasCause(c)]_vars

(* Each block goes through the stages of a coroutine's life, in order. *)
Queued(b) == \E q \in {0, 1} : b \in ToSet(newCoroutines[q])
life == [b \in Blocks |->
    IF b \in ToSet(freeList) THEN "free"
    ELSE IF Holders(b) # {} \/ Queued(b) THEN "created"
    ELSE IF b \in ToSet(removedCo) THEN "finished"
    ELSE "live"]
Life == INSTANCE CoroutineLife
ImplementsLife == Life!Spec

(* Whatever creators and bodies do, a coroutine that is in a queue is started,
   one that sleeps runs again, and the memory of one that has ended is given
   back, unless somebody stops the processor.  None of the three leads to
   another but through a step in which the coroutine runs or its block is
   free. *)
Due(c) ==
    \/ Queued(c)
    \/ state[c] = "waiting" /\ doing[c] = "sleep"
    \/ life[c] = "finished"
WorkIsDone ==
    \A c \in Blocks : Due(c) ~> ~Due(c) \/ status # "running"
=============================================================================
