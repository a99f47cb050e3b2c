------------------------- MODULE SinkBlockingProofs -------------------------
(***************************************************************************)
(* The ring of CircularBuffer is a bounded sequence: store() appends to    *)
(* Contents and read() removes its head, for every size and every place of *)
(* the indices.  Then the safety of SinkBlocking for any sets of threads,  *)
(* any values and any size: the inductive invariant Inv, and the           *)
(* refinement of BoundedFifo.                                              *)
(***************************************************************************)
EXTENDS SinkBlocking, SequenceTheorems, TLAPS

(* next() of CircularBuffer.hpp moves one cell forward, around the end.    *)
LEMMA NextIndexIsSlot ==
    ASSUME NEW i \in Index
    PROVE  /\ NextIndex(i) \in Index
           /\ NextIndex(i) = Slot(i, 1)
<1>1. CASE i + 1 < Size
  BY <1>1, SizeAssumption DEF NextIndex, Slot, Index
<1>2. CASE i + 1 = Size
  BY <1>2, SizeAssumption DEF NextIndex, Slot, Index
<1>3. QED
  BY <1>1, <1>2, SizeAssumption DEF Index

(* The constructor of CircularBuffer.hpp makes an empty, well-formed ring. *)
LEMMA EmptyBufferContents ==
    /\ WellFormed(EmptyBuffer)
    /\ Contents(EmptyBuffer) = <<>>
BY SizeAssumption DEF WellFormed, EmptyBuffer, Buffer, Index, Slot, Contents

(* The contents are a sequence of stored values, num long.                 *)
LEMMA ContentsIsSeq ==
    ASSUME NEW b, WellFormed(b)
    PROVE  /\ Contents(b) \in Seq(Value)
           /\ Len(Contents(b)) = b.num
           /\ Len(Contents(b)) <= Size
<1>1. b.num \in 0 .. Size
  BY DEF WellFormed, Buffer
<1>2. \A i \in 1 .. b.num : Contents(b)[i] \in Value
  BY <1>1, SizeAssumption DEF Contents, WellFormed
<1>3. Contents(b) \in [1 .. b.num -> Value]
  BY <1>2 DEF Contents
<1>4. b.num \in Nat /\ b.num <= Size
  BY <1>1, SizeAssumption
<1>5. QED
  BY <1>3, <1>4, SeqDef, LenProperties

(* store() on a buffer that is not full appends the element.               *)
LEMMA StoreAppends ==
    ASSUME NEW b, WellFormed(b), ~IsFull(b), NEW v \in Value
    PROVE  /\ WellFormed(Store(b, v))
           /\ Contents(Store(b, v)) = Append(Contents(b), v)
<1> DEFINE s == Store(b, v)
<1>1. /\ b \in Buffer
      /\ b.num \in 0 .. Size - 1
      /\ b.tail \in Index
      /\ b.head \in Index
      /\ b.head = Slot(b.tail, b.num)
  BY SizeAssumption DEF WellFormed, Buffer, IsFull
<1>2. /\ s = [data |-> [b.data EXCEPT ![b.head] = v], head |-> NextIndex(b.head),
              tail |-> b.tail, num |-> b.num + 1]
      /\ NextIndex(b.head) \in Index
      /\ NextIndex(b.head) = Slot(b.head, 1)
  BY <1>1, NextIndexIsSlot DEF Store
<1>3. /\ s \in Buffer
      /\ s.tail = b.tail
      /\ s.num = b.num + 1
      /\ s.head = Slot(b.head, 1)
      /\ s.data = [b.data EXCEPT ![b.head] = v]
  BY <1>1, <1>2, SizeAssumption DEF Buffer
<1>4. s.head = Slot(s.tail, s.num)
  BY <1>1, <1>3, SizeAssumption DEF Slot, Index
<1>5. \A k \in 0 .. b.num - 1 : /\ Slot(b.tail, k) \in Index
                                /\ Slot(b.tail, k) # b.head
  BY <1>1, SizeAssumption DEF Slot, Index
<1>6. \A k \in 0 .. b.num - 1 : s.data[Slot(s.tail, k)] = b.data[Slot(b.tail, k)]
  BY <1>1, <1>3, <1>5 DEF Buffer
<1>7. s.data[Slot(s.tail, b.num)] = v
  BY <1>1, <1>3 DEF Buffer
<1>8. WellFormed(s)
  <2>1. ASSUME NEW k \in 0 .. s.num - 1
        PROVE  s.data[Slot(s.tail, k)] \in Value
    <3>1. CASE k = b.num
      BY <3>1, <1>7
    <3>2. CASE k \in 0 .. b.num - 1
      BY <3>2, <1>6 DEF WellFormed
    <3>3. QED
      BY <3>1, <3>2, <1>1, <1>3, SizeAssumption
  <2>2. QED
    BY <2>1, <1>3, <1>4 DEF WellFormed
<1>9. Contents(s) = Append(Contents(b), v)
  <2>1. /\ Contents(b) \in Seq(Value)
        /\ Len(Contents(b)) = b.num
        /\ Contents(s) \in Seq(Value)
        /\ Len(Contents(s)) = b.num + 1
    BY <1>3, <1>8, ContentsIsSeq
  <2>2. ASSUME NEW i \in 1 .. b.num + 1
        PROVE  Contents(s)[i] = Append(Contents(b), v)[i]
    <3>1. Contents(s)[i] = s.data[Slot(s.tail, i - 1)]
      BY <1>3 DEF Contents
    <3>2. CASE i = b.num + 1
      BY <3>1, <3>2, <2>1, <1>1, <1>7
    <3>3. CASE i \in 1 .. b.num
      <4>1. Contents(b)[i] = b.data[Slot(b.tail, i - 1)]
        BY <3>3 DEF Contents
      <4>2. s.data[Slot(s.tail, i - 1)] = b.data[Slot(b.tail, i - 1)]
        BY <3>3, <1>1, <1>6
      <4>3. QED
        BY <4>1, <4>2, <3>1, <3>3, <2>1
    <3>4. i = b.num + 1 \/ i \in 1 .. b.num
      BY <1>1, SizeAssumption
    <3>5. QED
      BY <3>2, <3>3, <3>4
  <2>3. /\ Append(Contents(b), v) \in Seq(Value)
        /\ Len(Append(Contents(b), v)) = b.num + 1
    BY <2>1
  <2>4. QED
    BY <2>1, <2>2, <2>3, SeqEqual
<1>10. QED
  BY <1>8, <1>9

(* read() on a buffer that is not empty removes and returns the oldest     *)
(* element.                                                                *)
LEMMA ReadRemovesHead ==
    ASSUME NEW b, WellFormed(b), ~IsEmpty(b)
    PROVE  /\ WellFormed(AfterRead(b))
           /\ Contents(b) # <<>>
           /\ ReadValue(b) = Head(Contents(b))
           /\ ReadValue(b) \in Value
           /\ Contents(AfterRead(b)) = Tail(Contents(b))
<1> DEFINE r == AfterRead(b)
<1>1. /\ b \in Buffer
      /\ b.num \in 1 .. Size
      /\ b.tail \in Index
      /\ b.head = Slot(b.tail, b.num)
  BY SizeAssumption DEF WellFormed, Buffer, IsEmpty
<1>2. /\ r = [data |-> b.data, head |-> b.head,
              tail |-> NextIndex(b.tail), num |-> b.num - 1]
      /\ NextIndex(b.tail) \in Index
      /\ NextIndex(b.tail) = Slot(b.tail, 1)
  BY <1>1, NextIndexIsSlot DEF AfterRead
<1>3. /\ r \in Buffer
      /\ r.tail = Slot(b.tail, 1)
      /\ r.num = b.num - 1
      /\ r.head = b.head
      /\ r.data = b.data
  BY <1>1, <1>2, SizeAssumption DEF Buffer
<1>4. \A k \in 0 .. r.num : Slot(r.tail, k) = Slot(b.tail, k + 1)
  BY <1>1, <1>3, SizeAssumption DEF Slot, Index
<1>5. r.head = Slot(r.tail, r.num)
  BY <1>1, <1>3, <1>4, SizeAssumption
<1>6. WellFormed(r)
  <2>1. ASSUME NEW k \in 0 .. r.num - 1
        PROVE  r.data[Slot(r.tail, k)] \in Value
    <3>1. k + 1 \in 0 .. b.num - 1 /\ Slot(r.tail, k) = Slot(b.tail, k + 1)
      BY <1>1, <1>3, <1>4, SizeAssumption
    <3>2. QED
      BY <3>1, <1>3 DEF WellFormed
  <2>2. QED
    BY <2>1, <1>3, <1>5 DEF WellFormed
<1>7. /\ Contents(b) \in Seq(Value)
      /\ Len(Contents(b)) = b.num
      /\ Contents(r) \in Seq(Value)
      /\ Len(Contents(r)) = b.num - 1
  BY <1>3, <1>6, ContentsIsSeq
<1>8. Contents(b) # <<>>
  BY <1>1, <1>7
<1>9. ReadValue(b) = Head(Contents(b))
  <2>1. ReadValue(b) = b.data[Slot(b.tail, 0)]
    BY <1>1, SizeAssumption DEF ReadValue, Slot, Index
  <2>2. Contents(b)[1] = b.data[Slot(b.tail, 0)]
    BY <1>1, SizeAssumption DEF Contents
  <2>3. QED
    BY <2>1, <2>2, <1>7, <1>8
<1>10. ReadValue(b) \in Value
  BY <1>7, <1>8, <1>9
<1>11. Contents(r) = Tail(Contents(b))
  <2>1. /\ Tail(Contents(b)) \in Seq(Value)
        /\ Len(Tail(Contents(b))) = b.num - 1
    BY <1>1, <1>7, <1>8
  <2>2. ASSUME NEW i \in 1 .. b.num - 1
        PROVE  Contents(r)[i] = Tail(Contents(b))[i]
    <3>1. Contents(r)[i] = r.data[Slot(r.tail, i - 1)]
      BY <1>3, <2>2 DEF Contents
    <3>2. Slot(r.tail, i - 1) = Slot(b.tail, i)
      BY <2>2, <1>1, <1>3, <1>4, SizeAssumption
    <3>3. Contents(b)[i + 1] = b.data[Slot(b.tail, i)]
      BY <2>2, <1>1, SizeAssumption DEF Contents
    <3>4. Tail(Contents(b))[i] = Contents(b)[i + 1]
      BY <1>7, <1>8, <2>2, <1>1, SizeAssumption
    <3>5. QED
      BY <3>1, <3>2, <3>3, <3>4, <1>3
  <2>3. QED
    BY <1>1, <1>7, <2>1, <2>2, SizeAssumption, SeqEqual
<1>12. QED
  BY <1>6, <1>8, <1>9, <1>10, <1>11
-----------------------------------------------------------------------------

(* The constructor establishes the invariant.                              *)
LEMMA InitInv == Init => Inv
<1> SUFFICES ASSUME Init PROVE Inv
  OBVIOUS
<1>1. WellFormed(buffer) /\ IsEmpty(buffer)
  BY EmptyBufferContents DEF Init, IsEmpty, EmptyBuffer
<1>2. TypeOK
  BY <1>1 DEF Init, TypeOK
<1>3. MutualExclusion /\ ValueCarried
  BY ThreadAssumption, ValueAssumption
     DEF Init, MutualExclusion, ValueCarried, Critical, InjectPc, Thread
<1>4. WaitersWait /\ TestStillTrue /\ NoLostWakeup
  BY DEF Init, WaitersWait, TestStillTrue, NoLostWakeup
<1>5. QED
  BY <1>2, <1>3, <1>4 DEF Inv

(* Every step of every thread preserves the invariant.                     *)
LEMMA StepInv == Inv /\ [Next]_vars => Inv'
<1> SUFFICES ASSUME Inv, [Next]_vars PROVE Inv'
  OBVIOUS
<1> USE ThreadAssumption, ValueAssumption
<1> USE DEF Inv, TypeOK, MutualExclusion, WaitersWait, ValueCarried, NoLostWakeup,
            TestStillTrue, Goto, Acquire, Thread, Critical, InjectPc, PopPc
<1>1. ASSUME NEW t \in Producer, NEW v \in Value, CallInject(t, v)
     PROVE  Inv'
  BY <1>1 DEF CallInject
<1>2. ASSUME NEW t \in Consumer, CallPop(t)
     PROVE  Inv'
  BY <1>2 DEF CallPop
<1>3. ASSUME NEW t \in Producer, InjectLock(t)
     PROVE  Inv'
  BY <1>3 DEF InjectLock
<1>4. ASSUME NEW t \in Producer, InjectTest(t)
     PROVE  Inv'
  BY <1>4 DEF InjectTest
<1>5. ASSUME NEW t \in Producer, InjectWait(t)
     PROVE  Inv'
  BY <1>5 DEF InjectWait
<1>6. ASSUME NEW t \in Producer, InjectWake(t)
     PROVE  Inv'
  BY <1>6 DEF InjectWake
<1>7. ASSUME NEW t \in Producer, InjectStore(t)
     PROVE  Inv'
  <2>1. WellFormed(buffer')
    BY <1>7, StoreAppends DEF InjectStore
  <2>2. slotWait = {} /\ slotWait' = {}
    BY <1>7 DEF InjectStore
  <2>3. QED
    BY <1>7, <2>1, <2>2 DEF InjectStore
<1>8. ASSUME NEW t \in Producer, InjectNotify(t)
     PROVE  Inv'
  BY <1>8 DEF InjectNotify
<1>9. ASSUME NEW t \in Producer, InjectUnlock(t)
     PROVE  Inv'
  BY <1>9 DEF InjectUnlock
<1>10. ASSUME NEW t \in Consumer, PopLock(t)
     PROVE  Inv'
  BY <1>10 DEF PopLock
<1>11. ASSUME NEW t \in Consumer, PopTest(t)
     PROVE  Inv'
  BY <1>11 DEF PopTest
<1>12. ASSUME NEW t \in Consumer, PopWait(t)
     PROVE  Inv'
  BY <1>12 DEF PopWait
<1>13. ASSUME NEW t \in Consumer, PopWake(t)
     PROVE  Inv'
  BY <1>13 DEF PopWake
<1>14. ASSUME NEW t \in Consumer, PopRead(t)
     PROVE  Inv'
  <2>1. WellFormed(buffer') /\ ReadValue(buffer) \in Value
    BY <1>14, ReadRemovesHead DEF PopRead
  <2>2. dataWait = {} /\ dataWait' = {}
    BY <1>14 DEF PopRead
  <2>3. QED
    BY <1>14, <2>1, <2>2 DEF PopRead
<1>15. ASSUME NEW t \in Consumer, PopNotify(t)
     PROVE  Inv'
  BY <1>15 DEF PopNotify
<1>16. ASSUME NEW t \in Consumer, PopUnlock(t)
     PROVE  Inv'
  BY <1>16 DEF PopUnlock
<1>17. CASE UNCHANGED vars
  BY <1>17 DEF vars
<1>18. QED
  BY <1>1, <1>2, <1>3, <1>4, <1>5, <1>6, <1>7, <1>8, <1>9, <1>10,
     <1>11, <1>12, <1>13, <1>14, <1>15, <1>16, <1>17
     DEF Next, InjectStep, PopStep

(* The correctness invariant of a blocking sink: the ring stays well       *)
(* formed, only the owner of _mutex touches it, and nobody sleeps through  *)
(* the event it waits for.                                                 *)
THEOREM Invariance == Spec => []Inv
<1>1. Inv /\ [Next]_vars => Inv'
  BY StepInv
<1>2. QED
  BY InitInv, <1>1, PTL DEF Spec

(* Type correctness of the sink's fields.                                  *)
THEOREM TypeCorrectness == Spec => []TypeOK
<1>1. Inv => TypeOK
  BY DEF Inv
<1>2. QED
  BY <1>1, Invariance, PTL

(* The buffer is only touched by the thread that holds _mutex.             *)
THEOREM MutexCorrect == Spec => []MutualExclusion
<1>1. Inv => MutualExclusion
  BY DEF Inv
<1>2. QED
  BY <1>1, Invariance, PTL

(* inject() and pop() lose no wakeup, for any number of callers.           *)
THEOREM WakeupsDelivered == Spec => []NoLostWakeup
<1>1. Inv => NoLostWakeup
  BY DEF Inv
<1>2. QED
  BY <1>1, Invariance, PTL

(* store() never drops its element, read() never returns T{0}, and nobody  *)
(* goes to sleep on a condition that holds.                                *)
THEOREM TestsStayTrue == Spec => []TestStillTrue
<1>1. Inv => TestStillTrue
  BY DEF Inv
<1>2. QED
  BY <1>1, Invariance, PTL

(* What pop() returns was passed to an inject(): no T{0}, no cell that was *)
(* never written.                                                          *)
THEOREM PopReturnsStored == Spec => []ValueCarried
<1>1. Inv => ValueCarried
  BY DEF Inv
<1>2. QED
  BY <1>1, Invariance, PTL

-----------------------------------------------------------------------------

(* A new sink is an empty queue.                                           *)
LEMMA InitRefines == Init => Fifo!Init
BY EmptyBufferContents DEF Init, Fifo!Init, Fifo!Idle, Fifo!Thread, Thread, OpOf

(* Every step of inject() and pop() is a step of the queue or none.        *)
LEMMA StepRefines == Inv /\ [Next]_vars => [Fifo!Next]_Fifo!vars
<1> SUFFICES ASSUME Inv, [Next]_vars PROVE [Fifo!Next]_Fifo!vars
  OBVIOUS
<1> USE DEF Inv, TypeOK, Thread, Goto, Fifo!Thread, Fifo!vars, OpOf
<1>1. ASSUME NEW t \in Producer, NEW v \in Value, CallInject(t, v)
     PROVE  Fifo!CallInject(t, v)
  BY <1>1 DEF CallInject, Fifo!Idle, Fifo!CallInject, ValueCarried, InjectPc
<1>2. ASSUME NEW t \in Consumer, CallPop(t)
     PROVE  Fifo!CallPop(t)
  BY <1>2 DEF CallPop, Fifo!Idle, Fifo!CallPop, ValueCarried, InjectPc
<1>3. ASSUME NEW t \in Producer, InjectLock(t)
     PROVE  UNCHANGED Fifo!vars
  BY <1>3 DEF InjectLock
<1>4. ASSUME NEW t \in Producer, InjectTest(t)
     PROVE  UNCHANGED Fifo!vars
  BY <1>4 DEF InjectTest
<1>5. ASSUME NEW t \in Producer, InjectWait(t)
     PROVE  UNCHANGED Fifo!vars
  BY <1>5 DEF InjectWait
<1>6. ASSUME NEW t \in Producer, InjectWake(t)
     PROVE  UNCHANGED Fifo!vars
  BY <1>6 DEF InjectWake
<1>7. ASSUME NEW t \in Producer, InjectStore(t)
     PROVE  Fifo!Inject(t)
  <2>1. /\ Contents(buffer') = Append(Contents(buffer), val[t])
        /\ Len(Contents(buffer)) < Size
    BY <1>7, StoreAppends, ContentsIsSeq, SizeAssumption
       DEF InjectStore, TestStillTrue, IsFull, ValueCarried, InjectPc, WellFormed, Buffer
  <2>2. QED
    BY <1>7, <2>1 DEF InjectStore, Fifo!Inject
<1>8. ASSUME NEW t \in Producer, InjectNotify(t)
     PROVE  UNCHANGED Fifo!vars
  BY <1>8 DEF InjectNotify
<1>9. ASSUME NEW t \in Producer, InjectUnlock(t)
     PROVE  Fifo!Return(t)
  BY <1>9 DEF InjectUnlock, Fifo!Idle, Fifo!Return, ValueCarried, InjectPc
<1>10. ASSUME NEW t \in Consumer, PopLock(t)
     PROVE  UNCHANGED Fifo!vars
  BY <1>10 DEF PopLock
<1>11. ASSUME NEW t \in Consumer, PopTest(t)
     PROVE  UNCHANGED Fifo!vars
  BY <1>11 DEF PopTest
<1>12. ASSUME NEW t \in Consumer, PopWait(t)
     PROVE  UNCHANGED Fifo!vars
  BY <1>12 DEF PopWait
<1>13. ASSUME NEW t \in Consumer, PopWake(t)
     PROVE  UNCHANGED Fifo!vars
  BY <1>13 DEF PopWake
<1>14. ASSUME NEW t \in Consumer, PopRead(t)
     PROVE  Fifo!Pop(t)
  <2>1. /\ Contents(buffer) # <<>>
        /\ Contents(buffer') = Tail(Contents(buffer))
        /\ val'[t] = Head(Contents(buffer))
    BY <1>14, ReadRemovesHead DEF PopRead, TestStillTrue
  <2>2. QED
    BY <1>14, <2>1 DEF PopRead, Fifo!Pop
<1>15. ASSUME NEW t \in Consumer, PopNotify(t)
     PROVE  UNCHANGED Fifo!vars
  BY <1>15 DEF PopNotify
<1>16. ASSUME NEW t \in Consumer, PopUnlock(t)
     PROVE  Fifo!Return(t)
  BY <1>16 DEF PopUnlock, Fifo!Idle, Fifo!Return, ValueCarried, InjectPc
<1>17. CASE UNCHANGED vars
  BY <1>17 DEF vars
<1>18. QED
  BY <1>1, <1>2, <1>3, <1>4, <1>5, <1>6, <1>7, <1>8, <1>9, <1>10,
     <1>11, <1>12, <1>13, <1>14, <1>15, <1>16, <1>17
     DEF Next, InjectStep, PopStep, Fifo!Next, Fifo!SomeInject, Fifo!SomePop

(* A blocking sink implements the bounded queue of BoundedFifo.            *)
THEOREM Refinement == Spec => RefinesFifo
<1>1. QED
  BY InitRefines, StepRefines, Invariance, PTL DEF Spec, RefinesFifo, Fifo!Spec
=============================================================================
