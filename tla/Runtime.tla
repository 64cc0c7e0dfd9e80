------------------------------- MODULE Runtime -------------------------------
(***************************************************************************)
(* What netco_api puts in front of the processors: the Scheduler that the  *)
(* first call makes (src/scheduler.cc), the ProcessorSelector that places  *)
(* a new coroutine (src/processor_selector.cc), and the CoMutex that       *)
(* coroutines of different processors share (include/comutex.h).           *)
(*                                                                         *)
(* The processors' loops are Processor's; here a processor runs one of its *)
(* coroutines at a time and resumes those that yielded.  Every coroutine   *)
(* takes the CoMutex, may sleep while it has it, and releases it.          *)
(*                                                                         *)
(* Several threads may call co_go.  A read of processors_ past its end, or *)
(* while it grows, and a call through a null pointer may end the program;  *)
(* then it is down.  A racing read of curPro_ gives what the thread itself *)
(* has stored, or what is stored now.                                      *)
(***************************************************************************)
EXTENDS Integers, Sequences, FiniteSets

CONSTANTS
    Threads,           \* threads that call co_go
    Coroutines,        \* bound: the coroutines that are created
    None,
    defaultThreadNum,  \* processors of a scheduler
    Tids               \* the tids that co_go is called with; -1 is any

ASSUME RuntimeAssumption ==
    /\ defaultThreadNum \in Nat \ {0}
    /\ Tids \subseteq Nat \cup {-1} /\ -1 \in Tids

VARIABLES
    pScher_,      \* the number of the scheduler; 0 if there is none
    processors_,  \* how many processors each scheduler has made
    curPro_,      \* the selector's position in each scheduler
    scherMtx_,    \* the thread that holds it
    thread,       \* the locals of each thread's call
    co,           \* where each coroutine is, and at what point
    locked,       \* the flag of the CoMutex
    down          \* the program has ended

schedVars == <<pScher_, processors_, curPro_, scherMtx_>>
vars == <<schedVars, thread, co, locked, down>>

Idle == [pc |-> "idle", tid |-> -1, n |-> 0, cur |-> 0]
Unborn == [pc |-> "none", on |-> <<0, 0>>, chosen |-> FALSE, slept |-> FALSE]

Init ==
    /\ pScher_ = 0 /\ processors_ = << >> /\ curPro_ = << >>
    /\ scherMtx_ = None
    /\ thread = [t \in Threads |-> Idle]
    /\ co = [c \in Coroutines |-> Unborn]
    /\ locked = FALSE /\ down = FALSE

(* The coroutines that have not been created. *)
Fresh == {c \in Coroutines : co[c].pc = "none"}

At(t, pc) == ~down /\ thread[t].pc = pc
Goto(t, pc) == thread' = [thread EXCEPT ![t].pc = pc]

-----------------------------------------------------------------------------
(* Scheduler::getScheduler *)

BeginGo(t) ==
    /\ At(t, "idle")
    /\ Cardinality({u \in Threads : thread[u].pc # "idle"})
        < Cardinality(Fresh)
    /\ \E tid \in Tids : thread' = [thread EXCEPT ![t] =
                            [Idle EXCEPT !.pc = "check", !.tid = tid]]
    /\ UNCHANGED <<schedVars, co, locked, down>>

Place(t) == IF thread[t].tid < 0 THEN "next" ELSE "tid"

Check(t) ==
    /\ At(t, "check")
    /\ Goto(t, IF pScher_ = 0 THEN "lock" ELSE Place(t))
    /\ UNCHANGED <<schedVars, co, locked, down>>

(* Mutant: pScher_ is not tested again under the lock. *)
LockScheduler_once(t) ==
    /\ At(t, "lock") /\ scherMtx_ = None
    /\ scherMtx_' = t
    /\ pScher_' = Len(processors_) + 1
    /\ processors_' = Append(processors_, 0)
    /\ curPro_' = Append(curPro_, -1)
    /\ Goto(t, "start")
    /\ UNCHANGED <<co, locked, down>>

(* The scheduler is there for others before it has a processor. *)
LockScheduler(t) ==
    /\ At(t, "lock") /\ scherMtx_ = None
    /\ \/ /\ pScher_ # 0
          /\ Goto(t, Place(t))
          /\ UNCHANGED schedVars
       \/ /\ pScher_ = 0
          /\ scherMtx_' = t
          /\ pScher_' = Len(processors_) + 1
          /\ processors_' = Append(processors_, 0)
          /\ curPro_' = Append(curPro_, -1)
          /\ Goto(t, "start")
    /\ UNCHANGED <<co, locked, down>>

startScheduler(t) ==
    /\ At(t, "start")
    /\ IF processors_[pScher_] < defaultThreadNum
       THEN /\ processors_' = [processors_ EXCEPT ![pScher_] = @ + 1]
            /\ UNCHANGED <<scherMtx_, thread>>
       ELSE /\ scherMtx_' = None
            /\ Goto(t, Place(t))
            /\ UNCHANGED processors_
    /\ UNCHANGED <<pScher_, curPro_, co, locked, down>>

-----------------------------------------------------------------------------
(* ProcessorSelector::next, and goNewCo *)

Size == processors_[pScher_]
Falls == down' = TRUE /\ UNCHANGED <<schedVars, thread, co, locked>>

goNewCo(t, i) ==
    /\ Fresh # {}
    /\ co' = [co EXCEPT ![CHOOSE c \in Fresh : TRUE] = [@ EXCEPT
                !.pc = "ready", !.on = <<pScher_, i>>,
                !.chosen = thread[t].tid < 0]]
    /\ thread' = [thread EXCEPT ![t] = Idle]
    /\ UNCHANGED <<schedVars, locked, down>>

(* processors_ is read while it grows. *)
ReadDuringStart(t) ==
    /\ \/ At(t, "next") \/ At(t, "return") \/ At(t, "tid")
    /\ \E u \in Threads : thread[u].pc = "start"
    /\ Falls

(* co_go with a tid: the remainder of a division by no processors. *)
GoTo(t) ==
    /\ At(t, "tid")
    /\ IF Size = 0 THEN Falls ELSE goNewCo(t, thread[t].tid % Size)

(* next returns nullptr if there are no processors; otherwise ++curPro_, *)
Next_load(t) ==
    /\ At(t, "next")
    /\ IF Size = 0 THEN Falls
       ELSE /\ thread' = [thread EXCEPT ![t] = [@ EXCEPT !.pc = "store",
                            !.n = Size, !.cur = curPro_[pScher_] + 1]]
            /\ UNCHANGED <<schedVars, co, locked, down>>

Next_store(t) ==
    /\ At(t, "store")
    /\ curPro_' = [curPro_ EXCEPT ![pScher_] = thread[t].cur]
    /\ Goto(t, "wrap")
    /\ UNCHANGED <<pScher_, processors_, scherMtx_, co, locked, down>>

Wraps(t, i, last) ==
    IF i > last
    THEN /\ curPro_' = [curPro_ EXCEPT ![pScher_] = 0]
         /\ thread' = [thread EXCEPT ![t] = [@ EXCEPT !.pc = "return",
                                                      !.cur = 0]]
    ELSE /\ thread' = [thread EXCEPT ![t] = [@ EXCEPT !.pc = "return",
                                                      !.cur = i]]
         /\ UNCHANGED curPro_

(* Mutant: curPro_ > n. *)
Next_wrap_late(t) ==
    /\ At(t, "wrap")
    /\ \E i \in {thread[t].cur, curPro_[pScher_]} : Wraps(t, i, thread[t].n)
    /\ UNCHANGED <<pScher_, processors_, scherMtx_, co, locked, down>>

Next_wrap(t) ==
    /\ At(t, "wrap")
    /\ \E i \in {thread[t].cur, curPro_[pScher_]} :
            Wraps(t, i, thread[t].n - 1)
    /\ UNCHANGED <<pScher_, processors_, scherMtx_, co, locked, down>>

Next_return(t) ==
    /\ At(t, "return")
    /\ \E i \in {thread[t].cur, curPro_[pScher_]} :
            IF i < Size THEN goNewCo(t, i) ELSE Falls

Going(t) ==
    \/ Check(t) \/ LockScheduler(t) \/ startScheduler(t) \/ GoTo(t)
    \/ Next_load(t) \/ Next_store(t) \/ Next_wrap(t) \/ Next_return(t)

-----------------------------------------------------------------------------
(* Coroutines, and CoMutex *)

Running == {"lock", "critical"}
Is(c, pc) == ~down /\ co[c].pc = pc

(* The loop resumes a coroutine that is new, has yielded, or has slept. *)
Resume(c) ==
    /\ ~down /\ co[c].pc \in {"ready", "blocked", "awake"}
    /\ \A d \in Coroutines : co[d].on = co[c].on => co[d].pc \notin Running
    /\ co' = [co EXCEPT ![c].pc = IF @ = "awake" THEN "critical" ELSE "lock"]
    /\ UNCHANGED <<schedVars, thread, locked, down>>

(* Mutant: after its yield the coroutine does not test the flag again. *)
lock_if(c) ==
    /\ Is(c, "lock")
    /\ locked' = TRUE
    /\ co' = [co EXCEPT ![c] = [@ EXCEPT !.slept = locked,
                    !.pc = IF locked THEN "awake" ELSE "critical"]]
    /\ UNCHANGED <<schedVars, thread, down>>

(* Mutant: the coroutine spins without co_blocked_yield. *)
lock_spin(c) ==
    /\ Is(c, "lock") /\ ~locked
    /\ locked' = TRUE
    /\ co' = [co EXCEPT ![c].pc = "critical"]
    /\ UNCHANGED <<schedVars, thread, down>>

(* test_and_set, and co_blocked_yield if the flag was set. *)
lock(c) ==
    /\ Is(c, "lock")
    /\ locked' = TRUE
    /\ co' = [co EXCEPT ![c].pc = IF locked THEN "blocked" ELSE "critical"]
    /\ UNCHANGED <<schedVars, thread, down>>

(* co_sleep, with the mutex held: other coroutines of the processor run. *)
co_sleep(c) ==
    /\ Is(c, "critical") /\ ~co[c].slept
    /\ co' = [co EXCEPT ![c] = [@ EXCEPT !.pc = "asleep", !.slept = TRUE]]
    /\ UNCHANGED <<schedVars, thread, locked, down>>

TimeOut(c) ==
    /\ Is(c, "asleep")
    /\ co' = [co EXCEPT ![c].pc = "awake"]
    /\ UNCHANGED <<schedVars, thread, locked, down>>

unlock(c) ==
    /\ Is(c, "critical")
    /\ locked' = FALSE
    /\ co' = [co EXCEPT ![c].pc = "done"]
    /\ UNCHANGED <<schedVars, thread, down>>

-----------------------------------------------------------------------------
Next ==
    \/ \E t \in Threads : BeginGo(t) \/ Going(t) \/ ReadDuringStart(t)
    \/ \E c \in Coroutines :
        Resume(c) \/ lock(c) \/ co_sleep(c) \/ TimeOut(c) \/ unlock(c)

Spec == Init /\ [][Next]_vars

(* Threads that are in a call go on.  A round of a processor's loop resumes
   every coroutine of it that can be resumed, and one that runs goes on. *)
FairSpec ==
    /\ Spec
    /\ \A t \in Threads : WF_vars(Going(t))
    /\ \A c \in Coroutines :
        /\ SF_vars(Resume(c))
        /\ WF_vars(lock(c) \/ unlock(c))
        /\ WF_vars(TimeOut(c))

-----------------------------------------------------------------------------
OnProcessor(p) == {c \in Coroutines : co[c].on = p}

(* Every variable keeps its type; a coroutine is on a processor of the one
   scheduler, however many threads make their first call of co_go at one time,
   and no processor runs two. *)
TypeOK ==
    /\ pScher_ \in 0 .. Len(processors_)
    /\ processors_ \in Seq(0 .. defaultThreadNum)
    /\ DOMAIN curPro_ = DOMAIN processors_
    /\ scherMtx_ \in Threads \cup {None}
    /\ \A t \in Threads :
        /\ thread[t].pc \in {"idle", "check", "lock", "start", "next", "tid",
                             "store", "wrap", "return"}
        /\ thread[t].tid \in Tids
    /\ \A c \in Coroutines :
        /\ co[c].pc \in {"none", "ready", "lock", "blocked", "critical",
                         "asleep", "awake", "done"}
        /\ co[c].pc # "none" =>
                /\ co[c].on[1] = pScher_
                /\ co[c].on[2] \in 0 .. processors_[co[c].on[1]] - 1
                /\ Cardinality({d \in OnProcessor(co[c].on) :
                                    co[d].pc \in Running}) <= 1
    /\ locked \in BOOLEAN /\ down \in BOOLEAN

(* The program falls only while one call of co_go reads processors_ or curPro_
   and another is making the scheduler, or is between its ++curPro_ and its
   test: calls that race may go wrong together, but what they leave behind, a
   scheduler without processors or a position past the last one, fells no call
   that is alone. *)
FallsInARace ==
    [][~down /\ down' =>
        \E t, u \in Threads :
            /\ t # u
            /\ \/ thread[t].pc \in {"next", "tid", "return"}
                    /\ thread[u].pc = "start"
               \/ thread[t].pc = "return" /\ thread[u].pc = "wrap"]_vars

(* The coroutines of a processor that have not ended. *)
Lives(i) == Cardinality({c \in OnProcessor(<<pScher_, i>>) : co[c].pc # "done"})

(* A coroutine that was left to the selector goes to a processor that has the
   fewest coroutines: what scheduler.h says of Scheduler.  The selector that
   Scheduler makes takes the processors in turn. *)
FewestFirst ==
    [][\A c \in Coroutines :
        co[c].pc = "none" /\ co'[c].pc = "ready" /\ co'[c].chosen =>
            \A j \in 0 .. Size - 1 : Lives(co'[c].on[2]) <= Lives(j)]_vars

(* One coroutine at most has the CoMutex, also while it sleeps and others of
   its processor run, and then the flag is set. *)
MutualExclusion ==
    \A c, d \in Coroutines :
        co[c].pc \in {"critical", "asleep", "awake"} =>
            /\ locked
            /\ co[d].pc \in {"critical", "asleep", "awake"} => c = d

(* Every call of co_go returns, and every coroutine gets the CoMutex, releases
   it and ends, unless the program falls. *)
AllEnd ==
    /\ \A t \in Threads : thread[t].pc # "idle" ~> thread[t].pc = "idle" \/ down
    /\ \A c \in Coroutines : co[c].pc # "none" ~> co[c].pc = "done" \/ down
=============================================================================
