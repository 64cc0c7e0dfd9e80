--------------------------- MODULE DoublyBuffered ---------------------------
(***************************************************************************)
(* DoublyBufferedData<T> (include/container/doubly_buffered_data.h): two   *)
(* copies of the data, an atomic index that names the foreground one, and  *)
(* one mutex per reading thread.  A reader locks only its own mutex.  A    *)
(* writer changes the background copy, flips the index, locks and unlocks  *)
(* every reader's mutex in turn, and then changes the other copy.          *)
(*                                                                         *)
(* The data is the sequence of the modifications applied to a copy.  One   *)
(* action stands for a stretch of code between two accesses to shared      *)
(* state; the calls of fn are not atomic: a copy is being written for as   *)
(* long as its writer's pc is "first" or "second".                         *)
(***************************************************************************)
EXTENDS Integers, Sequences

CONSTANTS
    Threads,   \* threads that call Read or Modify
    Keys,      \* the values of threadIdx, the keys of _wrappers_map
    KeyOf,     \* KeyOf[t]: threadIdx of t; -1 for every non-processor thread
    NoThread,  \* the owner of a free mutex
    Ops,       \* what the function handed to Modify may do
    MaxMods    \* bound: modifications started in a behaviour

ASSUME KeysAssumption == Keys \subseteq Int /\ KeyOf \in [Threads -> Keys]
ASSUME NoThreadAssumption == NoThread \notin Threads

VARIABLES
    data,           \* _data[2]
    index,          \* _index
    wrappers,       \* the keys present in _wrappers_map
    wrapperLock,    \* the owner of each Wrapper::_mutex
    wrappersMutex,  \* the owner of _wrappers_mutex
    modifyMutex,    \* the owner of _modify_mutex
    pc,             \* where each thread is
    ptr,            \* ScopePtr::_ptr: the buffer each reader points to
    fn,             \* the operation of the Modify in progress
    pending,        \* the wrappers its loop has still to visit
    ret0, ret1      \* what fn returned the first and the second time

vars == <<data, index, wrappers, wrapperLock, wrappersMutex, modifyMutex,
          pc, ptr, fn, pending, ret0, ret1>>

readVars == <<wrappers, wrapperLock, ptr>>
writeVars == <<data, index, fn, ret0, ret1, modifyMutex>>

NoPtr == -1
Owner == Threads \cup {NoThread}
ReadPCs == {"start", "load", "reading"}
ModifyPCs == {"first", "publish", "collect", "drain", "second", "check"}

Init ==
    /\ data = [b \in {0, 1} |-> << >>]
    /\ index = 0
    /\ wrappers = {}
    /\ wrapperLock = [k \in Keys |-> NoThread]
    /\ wrappersMutex = NoThread
    /\ modifyMutex = NoThread
    /\ pc = [t \in Threads |-> "idle"]
    /\ ptr = [t \in Threads |-> NoPtr]
    /\ fn \in Ops
    /\ pending = {}
    /\ ret0 = << >>
    /\ ret1 = << >>

Goto(t, from, to) ==
    /\ pc[t] = from
    /\ pc' = [pc EXCEPT ![t] = to]

-----------------------------------------------------------------------------
(* Read *)

(* Mutant: a new wrapper is not put in the map. *)
CreateOrGetWrapper_unmapped(t) ==
    /\ Goto(t, "idle", "start")
    /\ wrappersMutex = NoThread
    /\ UNCHANGED <<writeVars, readVars, wrappersMutex, pending>>

(* create_or_get_wrapper: a lookup, and an insertion the first time, under
   _wrappers_mutex. *)
CreateOrGetWrapper(t) ==
    /\ Goto(t, "idle", "start")
    /\ wrappersMutex = NoThread
    /\ wrappers' = wrappers \cup {KeyOf[t]}
    /\ UNCHANGED <<writeVars, wrapperLock, ptr, wrappersMutex, pending>>

(* StartRead locks the wrapper, which threads with equal keys share. *)
StartRead(t) ==
    /\ Goto(t, "start", "load")
    /\ wrapperLock[KeyOf[t]] = NoThread
    /\ wrapperLock' = [wrapperLock EXCEPT ![KeyOf[t]] = t]
    /\ UNCHANGED <<writeVars, wrappers, ptr, wrappersMutex, pending>>

(* UnsafeRead: one relaxed load of the index. *)
UnsafeRead(t) ==
    /\ Goto(t, "load", "reading")
    /\ ptr' = [ptr EXCEPT ![t] = index]
    /\ UNCHANGED <<writeVars, wrappers, wrapperLock, wrappersMutex, pending>>

(* ~ScopePtr: the wrapper is unlocked, the pointer is gone. *)
EndRead(t) ==
    /\ Goto(t, "reading", "idle")
    /\ wrapperLock' = [wrapperLock EXCEPT ![KeyOf[t]] = NoThread]
    /\ ptr' = [ptr EXCEPT ![t] = NoPtr]
    /\ UNCHANGED <<writeVars, wrappers, wrappersMutex, pending>>

-----------------------------------------------------------------------------
(* Modify *)

(* What fn does to a copy, and what it returns: it is a function of the
   copy it is given, so its result is represented by that copy.  A function
   that also reads the foreground copy, as ModifyWithForeground hands it one,
   is not represented here; the one that the repository has, the addition of
   a server, is AddNode of WeightTree. *)
Applied(b, o) == [data EXCEPT ![b] = Append(@, o)]
Returned(b) == data[b]

(* The buffer a Modify in progress hands to fn, {} when it is in neither
   call of fn. *)
Written(t) ==
    IF pc[t] \in {"first", "second"} THEN {1 - index} ELSE {}

(* Mutant: writers do not exclude one another. *)
BeginModify_unlocked(t, o) ==
    /\ Goto(t, "idle", "first")
    /\ Len(data[index]) < MaxMods
    /\ modifyMutex' = t
    /\ fn' = o
    /\ UNCHANGED <<readVars, data, index, ret0, ret1, wrappersMutex, pending>>

BeginModify(t, o) ==
    /\ Goto(t, "idle", "first")
    /\ Len(data[index]) < MaxMods
    /\ modifyMutex = NoThread
    /\ modifyMutex' = t
    /\ fn' = o
    /\ UNCHANGED <<readVars, data, index, ret0, ret1, wrappersMutex, pending>>

(* The first call of fn, on the background copy, ends. *)
ApplyFirst(t) ==
    /\ Goto(t, "first", "publish")
    /\ data' = Applied(1 - index, fn)
    /\ ret0' = Returned(1 - index)
    /\ UNCHANGED <<readVars, index, fn, ret1, modifyMutex,
                  wrappersMutex, pending>>

(* Mutant: the index is moved on instead of turned over. *)
Publish_counts(t) ==
    /\ Goto(t, "publish", "collect")
    /\ index' = index + 1
    /\ UNCHANGED <<readVars, data, fn, ret0, ret1, modifyMutex,
                  wrappersMutex, pending>>

Publish(t) ==
    /\ Goto(t, "publish", "collect")
    /\ index' = 1 - index
    /\ UNCHANGED <<readVars, data, fn, ret0, ret1, modifyMutex,
                  wrappersMutex, pending>>

(* _wrappers_mutex is held from here to the end of the loop. *)
LockWrappers(t) ==
    /\ Goto(t, "collect", "drain")
    /\ wrappersMutex = NoThread
    /\ wrappersMutex' = t
    /\ pending' = wrappers
    /\ UNCHANGED <<readVars, writeVars>>

(* Mutant: the walk starts again after each wrapper. *)
WaitReadDone_restarts(t, k) ==
    /\ pc[t] = "drain"
    /\ k \in pending
    /\ wrapperLock[k] = NoThread
    /\ pending' = wrappers
    /\ UNCHANGED <<readVars, writeVars, pc, wrappersMutex>>

(* WaitReadDone on the next wrapper in key order: it is locked and at once
   unlocked. *)
WaitReadDone(t, k) ==
    /\ pc[t] = "drain"
    /\ k \in pending
    /\ \A j \in pending : k <= j
    /\ wrapperLock[k] = NoThread
    /\ pending' = pending \ {k}
    /\ UNCHANGED <<readVars, writeVars, pc, wrappersMutex>>

(* Mutant: the walk stops before its end. *)
UnlockWrappers_early(t) ==
    /\ Goto(t, "drain", "second")
    /\ wrappersMutex' = NoThread
    /\ UNCHANGED <<readVars, writeVars, pending>>

UnlockWrappers(t) ==
    /\ Goto(t, "drain", "second")
    /\ pending = {}
    /\ wrappersMutex' = NoThread
    /\ UNCHANGED <<readVars, writeVars, pending>>

(* The second call of fn, on the former foreground copy, ends. *)
ApplySecond(t) ==
    /\ Goto(t, "second", "check")
    /\ data' = Applied(1 - index, fn)
    /\ ret1' = Returned(1 - index)
    /\ UNCHANGED <<readVars, index, fn, ret0, modifyMutex,
                  wrappersMutex, pending>>

(* assert(ret0 == ret1), then the guard releases _modify_mutex. *)
EndModify(t) ==
    /\ Goto(t, "check", "idle")
    /\ modifyMutex' = NoThread
    /\ UNCHANGED <<readVars, data, index, fn, ret0, ret1,
                  wrappersMutex, pending>>

-----------------------------------------------------------------------------
Read(t) ==
    CreateOrGetWrapper(t) \/ StartRead(t) \/ UnsafeRead(t) \/ EndRead(t)

Modify(t) ==
    \/ \E o \in Ops : BeginModify(t, o)
    \/ ApplyFirst(t) \/ Publish(t) \/ LockWrappers(t)
    \/ \E k \in Keys : WaitReadDone(t, k)
    \/ UnlockWrappers(t) \/ ApplySecond(t) \/ EndModify(t)

Next == \E t \in Threads : Read(t) \/ Modify(t)

Spec == Init /\ [][Next]_vars

(* A running thread is scheduled again and again, and fn and the readers'
   use of the data end.  The mutexes are pthread mutexes: the one a thread
   waits for is not taken from it forever by others (strong fairness of the
   three steps that lock one in the middle of an operation). *)
Fairness ==
    \A t \in Threads :
        /\ WF_vars(UnsafeRead(t) \/ EndRead(t))
        /\ SF_vars(StartRead(t))
        /\ WF_vars(ApplyFirst(t) \/ Publish(t) \/ UnlockWrappers(t)
                       \/ ApplySecond(t) \/ EndModify(t))
        /\ SF_vars(LockWrappers(t))
        /\ SF_vars(\E k \in Keys : WaitReadDone(t, k))

FairSpec == Spec /\ Fairness

-----------------------------------------------------------------------------
(* Properties *)

(* Every variable has its type. *)
TypeOK ==
    /\ data \in [{0, 1} -> Seq(Ops)]
    /\ index \in {0, 1}
    /\ wrappers \in SUBSET Keys
    /\ wrapperLock \in [Keys -> Owner]
    /\ wrappersMutex \in Owner
    /\ modifyMutex \in Owner
    /\ pc \in [Threads -> {"idle"} \cup ReadPCs \cup ModifyPCs]
    /\ ptr \in [Threads -> {0, 1, NoPtr}]
    /\ fn \in Ops
    /\ pending \in SUBSET Keys
    /\ ret0 \in Seq(Ops)
    /\ ret1 \in Seq(Ops)

(* No reader points to the copy that fn is changing, in either of its two
   calls: the wait of lines 219-224 is enough, although a reader may have
   loaded the old index just before the flip, and although readers that the
   loop does not know may register at any time. *)
NoReadOfWrittenBuffer ==
    \A r, w \in Threads : pc[r] = "reading" => ptr[r] \notin Written(w)

(* assert(ret0 == ret1), line 227: fn sees the same copy both times. *)
BothCallsAgree ==
    \A t \in Threads : pc[t] = "check" => ret0 = ret1

(* Outside a Modify the two copies are equal, whichever is in front. *)
CopiesAgree == modifyMutex = NoThread => data[0] = data[1]

(* Two threads that share the wrapper of key -1 never hold pointers at the
   same time: the second unlock would be of another thread's mutex. *)
OneReaderPerWrapper ==
    \A s, t \in Threads :
        (s # t /\ KeyOf[s] = KeyOf[t] /\ pc[s] \in {"load", "reading"})
            => pc[t] \notin {"load", "reading"}

(* Both: readers are kept apart from fn, and from one another. *)
ReadersExclude == NoReadOfWrittenBuffer /\ OneReaderPerWrapper

(* fn sees the same copy in both its calls, and leaves both the same. *)
CopiesInStep == BothCallsAgree /\ CopiesAgree

(* The promise: an atomically updated value, read through snapshots.  A
   modification takes effect at the store of line 218. *)
view == [t \in Threads |->
            IF pc[t] = "reading" THEN <<data[ptr[t]]>> ELSE << >>]

Register == INSTANCE SnapshotRegister WITH value <- data[index], view <- view

ImplementsRegister == Register!Spec

(* A Modify that has begun finishes, and a Read that has begun gets its
   pointer: readers and writers do not block one another for ever. *)
ModifyFinishes ==
    \A t \in Threads : pc[t] \in ModifyPCs ~> pc[t] = "idle"
ReadGetsPointer ==
    \A t \in Threads : pc[t] = "start" ~> pc[t] = "reading"

(* Both: nobody waits for ever, neither for the mutexes nor for readers.  A
   reader that waits for _wrappers_mutex in create_or_get_wrapper has not begun
   here: that it is let in follows from ModifyFinishes, since only the loop of a
   Modify holds that mutex for longer than a step. *)
CallsFinish == ModifyFinishes /\ ReadGetsPointer
=============================================================================
