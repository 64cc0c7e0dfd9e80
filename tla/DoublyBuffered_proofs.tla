------------------------ MODULE DoublyBuffered_proofs ------------------------
(***************************************************************************)
(* Proofs about DoublyBuffered, for every set of threads, every assignment *)
(* of keys, every set of operations and every bound on the modifications.  *)
(***************************************************************************)
EXTENDS DoublyBuffered, TLAPS

(* A mutex is owned by the thread that is inside the section it guards. *)
LockInv ==
    \A t \in Threads :
        /\ pc[t] \in {"load", "reading"} => wrapperLock[KeyOf[t]] = t
        /\ pc[t] \in ModifyPCs => modifyMutex = t
        /\ modifyMutex = t => pc[t] \in ModifyPCs
        /\ pc[t] = "drain" => wrappersMutex = t

(* The wrapper of a thread that reads is in the map. *)
MapInv == \A t \in Threads : pc[t] \in ReadPCs => KeyOf[t] \in wrappers

(* A reader points to the foreground copy, unless a writer has flipped the
   index and has still to wait for that reader. *)
PtrInv ==
    \A r \in Threads : pc[r] = "reading" =>
        /\ ptr[r] \in {0, 1}
        /\ \/ ptr[r] = index
           \/ \E w \in Threads :
                \/ pc[w] = "collect"
                \/ pc[w] = "drain" /\ KeyOf[r] \in pending

(* The copies differ by the operation in progress, or not at all. *)
DataInv ==
    /\ modifyMutex = NoThread => data[0] = data[1]
    /\ \A w \in Threads :
        /\ pc[w] = "first" => data[0] = data[1]
        /\ pc[w] = "publish" =>
              /\ data[1 - index] = Append(data[index], fn)
              /\ ret0 = data[index]
        /\ pc[w] \in {"collect", "drain", "second"} =>
              /\ data[index] = Append(data[1 - index], fn)
              /\ ret0 = data[1 - index]
        /\ pc[w] = "check" => data[0] = data[1] /\ ret0 = ret1

IndInv == TypeOK /\ LockInv /\ MapInv /\ PtrInv /\ DataInv

-----------------------------------------------------------------------------
(* Every behaviour keeps every variable in its type. *)
LEMMA TypeInit == Init => TypeOK
  BY KeysAssumption DEF Init, TypeOK, Owner, NoPtr, ReadPCs, ModifyPCs

LEMMA TypeStep == TypeOK /\ [Next]_vars => TypeOK'
<1> SUFFICES ASSUME TypeOK, [Next]_vars PROVE TypeOK'
  OBVIOUS
<1> USE KeysAssumption DEF TypeOK, Owner, ReadPCs, ModifyPCs, NoPtr,
                           Goto, readVars, writeVars, Applied, Returned
<1>1. CASE UNCHANGED vars
  BY <1>1 DEF vars
<1>2. ASSUME NEW t \in Threads, Read(t) PROVE TypeOK'
  <2>1. CASE CreateOrGetWrapper(t)
    BY <2>1 DEF CreateOrGetWrapper
  <2>2. CASE StartRead(t)
    BY <2>2 DEF StartRead
  <2>3. CASE UnsafeRead(t)
    BY <2>3 DEF UnsafeRead
  <2>4. CASE EndRead(t)
    BY <2>4 DEF EndRead
  <2> QED
    BY <1>2, <2>1, <2>2, <2>3, <2>4 DEF Read
<1>3. ASSUME NEW t \in Threads, Modify(t) PROVE TypeOK'
  <2>1. ASSUME NEW o \in Ops, BeginModify(t, o) PROVE TypeOK'
    BY <2>1 DEF BeginModify
  <2>2. CASE ApplyFirst(t)
    BY <2>2 DEF ApplyFirst
  <2>3. CASE Publish(t)
    BY <2>3 DEF Publish
  <2>4. CASE LockWrappers(t)
    BY <2>4 DEF LockWrappers
  <2>5. ASSUME NEW k \in Keys, WaitReadDone(t, k) PROVE TypeOK'
    BY <2>5 DEF WaitReadDone
  <2>6. CASE UnlockWrappers(t)
    BY <2>6 DEF UnlockWrappers
  <2>7. CASE ApplySecond(t)
    BY <2>7 DEF ApplySecond
  <2>8. CASE EndModify(t)
    BY <2>8 DEF EndModify
  <2> QED
    BY <1>3, <2>1, <2>2, <2>3, <2>4, <2>5, <2>6, <2>7, <2>8 DEF Modify
<1> QED
  BY <1>1, <1>2, <1>3 DEF Next

THEOREM TypeCorrect == Spec => []TypeOK
  BY TypeInit, TypeStep, PTL DEF Spec

-----------------------------------------------------------------------------
(* The inductive invariant. *)
LEMMA IndInit == Init => IndInv
<1> SUFFICES ASSUME Init PROVE IndInv
  OBVIOUS
<1>1. TypeOK
  BY TypeInit
<1>2. LockInv /\ MapInv /\ PtrInv
  BY NoThreadAssumption DEF Init, LockInv, MapInv, PtrInv, ReadPCs, ModifyPCs
<1>3. DataInv
  BY DEF Init, DataInv
<1> QED
  BY <1>1, <1>2, <1>3 DEF IndInv

(* Only one thread is inside Modify, and while it walks the wrappers no
   thread can register one. *)
LEMMA Exclusion ==
    ASSUME LockInv, NEW s \in Threads, NEW t \in Threads, s # t
    PROVE  /\ ~(pc[s] \in ModifyPCs /\ pc[t] \in ModifyPCs)
           /\ KeyOf[s] = KeyOf[t] =>
                ~(pc[s] \in {"load", "reading"} /\ pc[t] \in {"load", "reading"})
  BY DEF LockInv

(* The steps of a reader preserve the invariant. *)
LEMMA IndRead ==
    ASSUME IndInv, NEW t \in Threads, Read(t), TypeOK'
    PROVE  IndInv'
<1> USE DEF IndInv, TypeOK, ReadPCs, ModifyPCs, Owner, Goto
<1> USE KeysAssumption, NoThreadAssumption
<1>1. CASE CreateOrGetWrapper(t)
  <2>1. LockInv' /\ MapInv'
    BY <1>1 DEF CreateOrGetWrapper, writeVars, LockInv, MapInv
  <2>2. PtrInv'
    BY <1>1 DEF CreateOrGetWrapper, writeVars, PtrInv
  <2>3. DataInv'
    BY <1>1 DEF CreateOrGetWrapper, writeVars, DataInv
  <2> QED
    BY <2>1, <2>2, <2>3
<1>2. CASE StartRead(t)
  <2>1. LockInv' /\ MapInv'
    BY <1>2 DEF StartRead, writeVars, LockInv, MapInv
  <2>2. PtrInv'
    BY <1>2 DEF StartRead, writeVars, PtrInv
  <2>3. DataInv'
    BY <1>2 DEF StartRead, writeVars, DataInv
  <2> QED
    BY <2>1, <2>2, <2>3
<1>3. CASE UnsafeRead(t)
  <2>1. LockInv' /\ MapInv'
    BY <1>3 DEF UnsafeRead, writeVars, LockInv, MapInv
  <2>2. PtrInv'
    BY <1>3 DEF UnsafeRead, writeVars, PtrInv
  <2>3. DataInv'
    BY <1>3 DEF UnsafeRead, writeVars, DataInv
  <2> QED
    BY <2>1, <2>2, <2>3
<1>4. CASE EndRead(t)
  <2>1. LockInv' /\ MapInv'
    BY <1>4 DEF EndRead, writeVars, LockInv, MapInv
  <2>2. PtrInv'
    BY <1>4 DEF EndRead, writeVars, PtrInv
  <2>3. DataInv'
    BY <1>4 DEF EndRead, writeVars, DataInv
  <2> QED
    BY <2>1, <2>2, <2>3
<1> QED
  BY <1>1, <1>2, <1>3, <1>4 DEF Read

(* So do the steps of a writer. *)
LEMMA IndModify ==
    ASSUME IndInv, NEW t \in Threads, Modify(t), TypeOK'
    PROVE  IndInv'
<1> USE DEF IndInv, TypeOK, ReadPCs, ModifyPCs, Owner, Goto
<1> USE KeysAssumption, NoThreadAssumption
<1>1. ASSUME NEW o \in Ops, BeginModify(t, o) PROVE IndInv'
  <2>1. LockInv' /\ MapInv'
    BY <1>1 DEF BeginModify, readVars, writeVars, LockInv, MapInv
  <2>2. PtrInv'
    BY <1>1 DEF BeginModify, readVars, writeVars, PtrInv, LockInv
  <2>3. DataInv'
    BY <1>1 DEF BeginModify, readVars, writeVars, DataInv, LockInv
  <2> QED
    BY <2>1, <2>2, <2>3
<1>2. CASE ApplyFirst(t)
  <2>1. LockInv' /\ MapInv'
    BY <1>2 DEF ApplyFirst, readVars, writeVars, LockInv, MapInv
  <2>2. PtrInv'
    BY <1>2 DEF ApplyFirst, readVars, writeVars, PtrInv, LockInv
  <2>3. DataInv'
    BY <1>2 DEF ApplyFirst, readVars, writeVars, DataInv, LockInv, Applied, Returned
  <2> QED
    BY <2>1, <2>2, <2>3
<1>3. CASE Publish(t)
  <2>1. LockInv' /\ MapInv'
    BY <1>3 DEF Publish, readVars, writeVars, LockInv, MapInv
  <2>2. PtrInv'
    BY <1>3 DEF Publish, readVars, writeVars, PtrInv, LockInv
  <2>3. DataInv'
    BY <1>3 DEF Publish, readVars, writeVars, DataInv, LockInv
  <2> QED
    BY <2>1, <2>2, <2>3
<1>4. CASE LockWrappers(t)
  <2>1. LockInv' /\ MapInv'
    BY <1>4 DEF LockWrappers, readVars, writeVars, LockInv, MapInv
  <2>2. PtrInv'
    BY <1>4 DEF LockWrappers, readVars, writeVars, PtrInv, LockInv, MapInv
  <2>3. DataInv'
    BY <1>4 DEF LockWrappers, readVars, writeVars, DataInv, LockInv
  <2> QED
    BY <2>1, <2>2, <2>3
<1>5. ASSUME NEW k \in Keys, WaitReadDone(t, k) PROVE IndInv'
  <2>1. LockInv' /\ MapInv'
    BY <1>5 DEF WaitReadDone, readVars, writeVars, LockInv, MapInv
  <2>2. PtrInv'
    BY <1>5 DEF WaitReadDone, readVars, writeVars, PtrInv, LockInv
  <2>3. DataInv'
    BY <1>5 DEF WaitReadDone, readVars, writeVars, DataInv, LockInv
  <2> QED
    BY <2>1, <2>2, <2>3
<1>6. CASE UnlockWrappers(t)
  <2>1. LockInv' /\ MapInv'
    BY <1>6 DEF UnlockWrappers, readVars, writeVars, LockInv, MapInv
  <2>2. PtrInv'
    BY <1>6 DEF UnlockWrappers, readVars, writeVars, PtrInv, LockInv
  <2>3. DataInv'
    BY <1>6 DEF UnlockWrappers, readVars, writeVars, DataInv, LockInv
  <2> QED
    BY <2>1, <2>2, <2>3
<1>7. CASE ApplySecond(t)
  <2>1. LockInv' /\ MapInv'
    BY <1>7 DEF ApplySecond, readVars, writeVars, LockInv, MapInv
  <2>2. PtrInv'
    BY <1>7 DEF ApplySecond, readVars, writeVars, PtrInv, LockInv
  <2>3. DataInv'
    <3>1. /\ data[index] = Append(data[1 - index], fn)
          /\ ret0 = data[1 - index]
      BY <1>7 DEF ApplySecond, DataInv
    <3>2. data' = [data EXCEPT ![1 - index] = Append(data[1 - index], fn)]
      BY <1>7 DEF ApplySecond, Applied
    <3>3. data'[0] = data'[1]
      <4>1. CASE index = 0
        BY <3>1, <3>2, <4>1
      <4>2. CASE index = 1
        BY <3>1, <3>2, <4>2
      <4> QED
        BY <4>1, <4>2
    <3>4. ret0' = ret1'
      BY <1>7, <3>1 DEF ApplySecond, Returned
    <3>5. \A w \in Threads : w # t => pc'[w] \notin ModifyPCs
      BY <1>7 DEF ApplySecond, LockInv
    <3>6. pc'[t] = "check" /\ modifyMutex' = t
      BY <1>7 DEF ApplySecond, LockInv
    <3> QED
      BY <3>3, <3>4, <3>5, <3>6 DEF DataInv
  <2> QED
    BY <2>1, <2>2, <2>3
<1>8. CASE EndModify(t)
  <2>1. LockInv' /\ MapInv'
    BY <1>8 DEF EndModify, readVars, writeVars, LockInv, MapInv
  <2>2. PtrInv'
    BY <1>8 DEF EndModify, readVars, writeVars, PtrInv, LockInv
  <2>3. DataInv'
    BY <1>8 DEF EndModify, readVars, writeVars, DataInv, LockInv
  <2> QED
    BY <2>1, <2>2, <2>3
<1> QED
  BY <1>1, <1>2, <1>3, <1>4, <1>5, <1>6, <1>7, <1>8 DEF Modify

LEMMA IndStep == IndInv /\ [Next]_vars => IndInv'
<1> SUFFICES ASSUME IndInv, [Next]_vars PROVE IndInv'
  OBVIOUS
<1>1. TypeOK'
  BY TypeStep DEF IndInv
<1>2. CASE UNCHANGED vars
  BY <1>2 DEF vars, IndInv, TypeOK, LockInv, MapInv, PtrInv, DataInv
<1>3. CASE Next
  BY <1>1, <1>3, IndRead, IndModify DEF Next
<1> QED
  BY <1>2, <1>3

THEOREM Inductive == Spec => []IndInv
  BY IndInit, IndStep, PTL DEF Spec

-----------------------------------------------------------------------------
(* What the inductive invariant says to a user of the class. *)

(* fn never changes a copy that a reader points to (lines 217 and 226 are
   kept apart from lines 179 to 162 by the flip and the walk over the
   wrappers). *)
THEOREM ReadersAreSafe == Spec => []NoReadOfWrittenBuffer
<1>1. IndInv => NoReadOfWrittenBuffer
  <2> SUFFICES ASSUME IndInv, NEW r \in Threads, NEW w \in Threads,
                      pc[r] = "reading", pc[w] \in {"first", "second"}
               PROVE  ptr[r] # 1 - index
    BY DEF NoReadOfWrittenBuffer, Written
  <2>1. \A v \in Threads : pc[v] \notin {"collect", "drain"}
    BY DEF IndInv, LockInv, ModifyPCs
  <2>2. ptr[r] = index
    BY <2>1 DEF IndInv, PtrInv
  <2> QED
    BY <2>2 DEF IndInv, TypeOK
<1> QED
  BY <1>1, Inductive, PTL

(* The assertion of line 227 never fails, and between two modifications the
   copies are equal. *)
THEOREM AssertionHolds == Spec => []CopiesInStep
<1>1. IndInv => CopiesInStep
  BY DEF IndInv, DataInv, CopiesInStep, BothCallsAgree, CopiesAgree
<1> QED
  BY <1>1, Inductive, PTL

(* Threads that share a wrapper read one at a time. *)
THEOREM WrappersExclude == Spec => []OneReaderPerWrapper
<1>1. IndInv => OneReaderPerWrapper
  BY Exclusion DEF IndInv, OneReaderPerWrapper
<1> QED
  BY <1>1, Inductive, PTL

(* Readers are kept apart from fn and from one another. *)
THEOREM ReadersAreAlone == Spec => []ReadersExclude
<1>1. NoReadOfWrittenBuffer /\ OneReaderPerWrapper => ReadersExclude
  BY DEF ReadersExclude
<1> QED
  BY <1>1, ReadersAreSafe, WrappersExclude, PTL

-----------------------------------------------------------------------------
(* DoublyBuffered implements SnapshotRegister. *)

LEMMA RegisterInit == Init => Register!Init
  BY DEF Init, Register!Init, view

(* The reader's steps take a snapshot, drop it, or change nothing. *)
LEMMA RegisterRead ==
    ASSUME IndInv, NEW t \in Threads, Read(t)
    PROVE  [Register!Next]_(Register!vars)
<1> USE DEF IndInv, TypeOK, Goto, writeVars
<1>1. CASE CreateOrGetWrapper(t) \/ StartRead(t)
  BY <1>1 DEF CreateOrGetWrapper, StartRead, view, Register!vars
<1>2. CASE UnsafeRead(t)
  <2>1. data' = data /\ index' = index
    BY <1>2 DEF UnsafeRead
  <2>2. view[t] = << >>
    BY <1>2 DEF UnsafeRead, view
  <2>3. view' = [view EXCEPT ![t] = <<data[index]>>]
    BY <1>2 DEF UnsafeRead, view
  <2> QED
    BY <2>1, <2>2, <2>3 DEF Register!Next, Register!Take
<1>3. CASE EndRead(t)
  <2>1. data' = data /\ index' = index
    BY <1>3 DEF EndRead
  <2>2. view[t] # << >>
    BY <1>3 DEF EndRead, view
  <2>3. view' = [view EXCEPT ![t] = << >>]
    BY <1>3 DEF EndRead, view
  <2> QED
    BY <2>1, <2>2, <2>3 DEF Register!Next, Register!Drop
<1> QED
  BY <1>1, <1>2, <1>3 DEF Read

(* No snapshot moves when a copy that no reader points to changes. *)
LEMMA ViewStable ==
    ASSUME IndInv, NEW t \in Threads, pc[t] \in {"first", "second"},
           NEW to, Goto(t, pc[t], to), to \in {"publish", "check"},
           data' = Applied(1 - index, fn), UNCHANGED <<index, ptr>>
    PROVE  data'[index] = data[index] /\ view' = view
<1>1. \A r \in Threads : pc[r] = "reading" => ptr[r] = index
  <2>1. \A w \in Threads : pc[w] \notin {"collect", "drain"}
    BY DEF IndInv, LockInv, ModifyPCs
  <2> QED
    BY <2>1 DEF IndInv, PtrInv
<1>2. data'[index] = data[index]
  BY DEF IndInv, TypeOK, Applied
<1>3. \A r \in Threads : pc'[r] = "reading" <=> pc[r] = "reading"
  BY DEF IndInv, TypeOK, Goto
<1> QED
  BY <1>1, <1>2, <1>3 DEF view

(* The writer's steps commit, at the flip, or change nothing. *)
LEMMA RegisterModify ==
    ASSUME IndInv, NEW t \in Threads, Modify(t)
    PROVE  [Register!Next]_(Register!vars)
<1> USE DEF IndInv, TypeOK, readVars
<1>1. ASSUME NEW o \in Ops, BeginModify(t, o)
      PROVE  UNCHANGED <<data[index], view>>
  BY <1>1 DEF BeginModify, Goto, view
<1>2. ASSUME ApplyFirst(t)
      PROVE  UNCHANGED <<data[index], view>>
  BY <1>2, ViewStable DEF ApplyFirst, Goto
<1>3. CASE Publish(t)
  <2>1. data[1 - index] = Append(data[index], fn)
    BY <1>3 DEF Publish, Goto, DataInv
  <2>2. data' = data /\ index' = 1 - index /\ view' = view
    BY <1>3 DEF Publish, Goto, view
  <2> QED
    BY <2>1, <2>2 DEF Register!Next, Register!Commit
<1>4. ASSUME LockWrappers(t)
      PROVE  UNCHANGED <<data[index], view>>
  BY <1>4 DEF LockWrappers, writeVars, Goto, view
<1>5. ASSUME NEW k \in Keys, WaitReadDone(t, k)
      PROVE  UNCHANGED <<data[index], view>>
  BY <1>5 DEF WaitReadDone, writeVars, view
<1>6. ASSUME UnlockWrappers(t)
      PROVE  UNCHANGED <<data[index], view>>
  BY <1>6 DEF UnlockWrappers, writeVars, Goto, view
<1>7. ASSUME ApplySecond(t)
      PROVE  UNCHANGED <<data[index], view>>
  BY <1>7, ViewStable DEF ApplySecond, Goto
<1>8. ASSUME EndModify(t)
      PROVE  UNCHANGED <<data[index], view>>
  BY <1>8 DEF EndModify, Goto, view
<1> QED
  BY <1>1, <1>2, <1>3, <1>4, <1>5, <1>6, <1>7, <1>8
     DEF Modify, Register!vars

LEMMA RegisterStep == IndInv /\ [Next]_vars => [Register!Next]_(Register!vars)
<1> SUFFICES ASSUME IndInv, [Next]_vars
             PROVE  [Register!Next]_(Register!vars)
  OBVIOUS
<1>1. CASE UNCHANGED vars
  BY <1>1 DEF vars, view, Register!vars
<1>2. CASE Next
  BY <1>2, RegisterRead, RegisterModify DEF Next
<1> QED
  BY <1>1, <1>2

(* Every behaviour of the two buffers, the locks and the flip is one of an
   atomically updated value with snapshots. *)
THEOREM Refinement == Spec => ImplementsRegister
  BY RegisterInit, RegisterStep, Inductive, PTL
     DEF Spec, ImplementsRegister, Register!Spec
=============================================================================
