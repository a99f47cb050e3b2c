-------------------------- MODULE IoDispatcherProofs --------------------------
(***************************************************************************)
(* Safety of IoDispatcher for any clients, any requests and any size of    *)
(* the mailbox: the inductive invariant Inv, and the refinement of         *)
(* IoService.                                                              *)
(***************************************************************************)
EXTENDS IoDispatcher, FiniteSetTheorems, TLAPS

Calling == {"instanceLock", "instanceTest", "instanceSpin",
            "dispatchLock", "dispatchAlloc", "dispatchPut"}

Waiting == {"waitLock", "waitTest", "waitEnter", "waitSleep", "waitReturn"}

(* A caller works on a request of its own: one that was not dispatched on  *)
(* the way to dispatch(), one that was and not yet collected in wait().    *)
OwnRequest ==
    \A c \in Client :
        /\ pc[c] \in Calling \cup Waiting => cur[c] \in Request /\ OwnerOf[cur[c]] = c
        /\ pc[c] \in Calling => cur[c] \notin out
        /\ pc[c] \in Waiting => cur[c] \in out

(* wait() acts on the value of _is_done it has read under the mutex.       *)
DoneSeen ==
    \A c \in Client :
        /\ pc[c] = "waitEnter" => ~rsp[cur[c]].done
        /\ pc[c] = "waitReturn" => rsp[cur[c]].done

(* A transaction is in one place at a time, and not done before the worker *)
(* says so.                                                                *)
OneTransaction ==
    /\ \A i, j \in DOMAIN mailbox : mailbox[i] = mailbox[j] => i = j
    /\ \A i \in DOMAIN mailbox : ~rsp[mailbox[i]].done
    /\ worker \in HoldsBlock => current \in Request
    /\ worker \in HoldsBlock \ {"free"} => \A i \in DOMAIN mailbox : mailbox[i] # current
    /\ worker \in OnBus => ~rsp[current].done

(* There is a worker exactly while there is a dispatcher, or one is being  *)
(* constructed.                                                            *)
WorkerExists ==
    worker = "none" <=> ~instance /\ \A c \in Client : pc[c] # "instanceSpin"

(* BlocksAccounted, with what _mutex says of the clients in dispatch().    *)
BlocksCounted ==
    free + Len(mailbox)
         + (IF \E c \in Client : pc[c] = "dispatchPut" THEN 1 ELSE 0)
         + (IF worker \in HoldsBlock THEN 1 ELSE 0) = QueueSize

Inv ==
    /\ TypeOK
    /\ BlocksCounted
    /\ RequestOutlivesTransaction
    /\ NoLostCompletion
    /\ MutualExclusion
    /\ OwnRequest
    /\ DoneSeen
    /\ OneTransaction
    /\ WorkerExists
    /\ IsFiniteSet(out)

Responses == [Request -> [done : BOOLEAN, waiting : BOOLEAN,
                          owner : Client \cup {Worker, Nobody}]]

(* Locking, unlocking, sleeping on and completing a response leave it one. *)
LEMMA ResponseUpdates ==
  ASSUME NEW R \in Responses, NEW q \in Request,
         NEW who \in Client \cup {Worker, Nobody}, NEW b \in BOOLEAN
  PROVE  /\ [R EXCEPT ![q].owner = who] \in Responses
         /\ [R EXCEPT ![q].done = b] \in Responses
         /\ [R EXCEPT ![q].waiting = b] \in Responses
         /\ [R EXCEPT ![q].owner = who, ![q].waiting = b] \in Responses
         /\ [R EXCEPT ![q] = NewResponse] \in Responses
<1>1. NewResponse \in [done : BOOLEAN, waiting : BOOLEAN,
                       owner : Client \cup {Worker, Nobody}]
  BY DEF NewResponse
<1>2. QED
  BY <1>1 DEF Responses

(* Nothing was called: no dispatcher, no mutex taken, nothing under way.   *)
LEMMA InitInv == Init => Inv
<1> SUFFICES ASSUME Init PROVE Inv
  OBVIOUS
<1> USE QueueAssumption, NameAssumption DEF Init, NewResponse
<1>1. TypeOK
  <2>1. rsp \in Responses
    BY DEF Responses
  <2>2. mailbox \in Seq(Request) /\ free \in 0 .. QueueSize
    OBVIOUS
  <2>3. QED
    BY <2>1, <2>2 DEF TypeOK, ClientPc, WorkerPc, Responses
<1>2. BlocksCounted
  BY DEF BlocksCounted, HoldsBlock
<1>3. MutualExclusion /\ NoLostCompletion
  BY DEF MutualExclusion, NoLostCompletion
<1>4. IsFiniteSet(out)
  BY FS_EmptySet
<1>5. QED
  BY <1>1, <1>2, <1>3, <1>4
   DEF Inv, RequestOutlivesTransaction, OwnRequest, DoneSeen, OneTransaction,
         WorkerExists, HoldsBlock, OnBus, Calling, Waiting

(* Every step of every caller and of the worker preserves the invariant.   *)
LEMMA StepInv == Inv /\ [Next]_vars => Inv'
<1> SUFFICES ASSUME Inv, [Next]_vars PROVE Inv'
  OBVIOUS
<1> USE QueueAssumption, OwnerAssumption, NameAssumption
<1> USE DEF Inv, TypeOK, BlocksCounted, RequestOutlivesTransaction, NoLostCompletion,
            MutualExclusion, OwnRequest, DoneSeen, OneTransaction, WorkerExists,
            NewResponse, ClientPc, WorkerPc, HoldsBlock, OnBus, Calling, Waiting,
            Goto, Lock, LockRsp, WorkerGoto, IsDone, Joined, Running, Notified, Freed,
            objectVars, mailVars, workerVars, rspVars, callVars
<1>0. rsp \in Responses
  BY DEF Responses
<1>1. ASSUME NEW c \in Client, NEW q \in Request, CallWait(c, q)
     PROVE  Inv'
  BY <1>1 DEF CallWait
<1>2. ASSUME NEW c \in Client, NEW q \in Request, NEW s \in BOOLEAN, Call(c, q, s)
     PROVE  Inv'
  <2>1. TypeOK' /\ BlocksCounted'
    BY <1>2 DEF Call
  <2>2. MutualExclusion' /\ OwnRequest'
    BY <1>2 DEF Call
  <2>3. /\ RequestOutlivesTransaction' /\ NoLostCompletion' /\ DoneSeen'
        /\ OneTransaction' /\ WorkerExists' /\ IsFiniteSet(out')
    BY <1>2 DEF Call
  <2>4. QED
    BY <2>1, <2>2, <2>3
<1>3. ASSUME NEW c \in Client, CallDestroy(c)
     PROVE  Inv'
  <2>1. TypeOK' /\ BlocksCounted'
    BY <1>3 DEF CallDestroy
  <2>2. MutualExclusion' /\ OwnRequest'
    BY <1>3 DEF CallDestroy
  <2>3. /\ RequestOutlivesTransaction' /\ NoLostCompletion' /\ DoneSeen'
        /\ OneTransaction' /\ WorkerExists' /\ IsFiniteSet(out')
    BY <1>3 DEF CallDestroy
  <2>4. QED
    BY <2>1, <2>2, <2>3
<1>4. ASSUME NEW c \in Client, InstanceLock(c)
     PROVE  Inv'
  BY <1>4 DEF InstanceLock
<1>5. ASSUME NEW c \in Client, InstanceFound(c)
     PROVE  Inv'
  BY <1>5 DEF InstanceFound
<1>6. ASSUME NEW c \in Client, InstanceCreate(c)
     PROVE  Inv'
  BY <1>6 DEF InstanceCreate
<1>7. ASSUME NEW c \in Client, InstanceStarted(c)
     PROVE  Inv'
  BY <1>7 DEF InstanceStarted
<1>8. ASSUME NEW c \in Client, DestroyNothing(c)
     PROVE  Inv'
  BY <1>8 DEF DestroyNothing
<1>9. ASSUME NEW c \in Client, DestroyEnd(c)
     PROVE  Inv'
  BY <1>9 DEF DestroyEnd
<1>10. ASSUME NEW c \in Client, DestroyDelete(c)
     PROVE  Inv'
  <2>1. pc' \in [Client -> ClientPc]
    BY <1>10 DEF DestroyDelete
  <2>2. mailbox' \in Seq(Request) /\ free' \in 0 .. QueueSize
    BY <1>10 DEF DestroyDelete
  <2>3. TypeOK'
    BY <1>10, <2>1, <2>2 DEF DestroyDelete
  <2>4. BlocksCounted'
    BY <1>10 DEF DestroyDelete
  <2>5. MutualExclusion' /\ OwnRequest'
    BY <1>10 DEF DestroyDelete
  <2>6. /\ RequestOutlivesTransaction' /\ NoLostCompletion' /\ DoneSeen'
        /\ OneTransaction' /\ WorkerExists' /\ IsFiniteSet(out')
    BY <1>10 DEF DestroyDelete
  <2>7. QED
    BY <2>3, <2>4, <2>5, <2>6
<1>11. ASSUME NEW c \in Client, DispatchLock(c)
     PROVE  Inv'
  BY <1>11 DEF DispatchLock
<1>12. ASSUME NEW c \in Client, DispatchFull(c)
     PROVE  Inv'
  <2>1. TypeOK' /\ BlocksCounted'
    BY <1>12 DEF DispatchFull
  <2>2. MutualExclusion' /\ OwnRequest'
    BY <1>12 DEF DispatchFull
  <2>3. /\ RequestOutlivesTransaction' /\ NoLostCompletion' /\ DoneSeen'
        /\ OneTransaction' /\ WorkerExists' /\ IsFiniteSet(out')
    BY <1>12 DEF DispatchFull
  <2>4. QED
    BY <2>1, <2>2, <2>3
<1>13. ASSUME NEW c \in Client, DispatchAlloc(c)
     PROVE  Inv'
  BY <1>13 DEF DispatchAlloc
<1>14. ASSUME NEW c \in Client, DispatchPut(c)
     PROVE  Inv'
  <2>1. rsp' \in Responses
    BY <1>14, <1>0, ResponseUpdates DEF DispatchPut
  <2>2. TypeOK'
    BY <1>14, <2>1 DEF Responses, DispatchPut
  <2>3. Len(mailbox') = Len(mailbox) + 1 /\ \A d \in Client : pc'[d] # "dispatchPut"
    BY <1>14 DEF DispatchPut
  <2>4. BlocksCounted'
    BY <1>14, <2>3 DEF DispatchPut
  <2>5. MutualExclusion' /\ OwnRequest'
    BY <1>14 DEF DispatchPut
  <2>6. RequestOutlivesTransaction' /\ OneTransaction'
    BY <1>14 DEF DispatchPut
  <2>7. NoLostCompletion' /\ DoneSeen' /\ WorkerExists'
    BY <1>14 DEF DispatchPut
  <2>8. IsFiniteSet(out')
    BY <1>14, FS_AddElement DEF DispatchPut
  <2>9. QED
    BY <2>1, <2>2, <2>3, <2>4, <2>5, <2>6, <2>7, <2>8
<1>15. ASSUME NEW c \in Client, WaitLock(c)
     PROVE  Inv'
  <2>1. rsp' \in Responses
    BY <1>15, <1>0, ResponseUpdates DEF WaitLock
  <2>2. TypeOK' /\ BlocksCounted'
    BY <1>15, <2>1 DEF Responses, WaitLock
  <2>3. MutualExclusion' /\ OwnRequest'
    BY <1>15 DEF WaitLock
  <2>4. /\ RequestOutlivesTransaction' /\ NoLostCompletion' /\ DoneSeen'
        /\ OneTransaction' /\ WorkerExists' /\ IsFiniteSet(out')
    BY <1>15 DEF WaitLock
  <2>5. QED
    BY <2>1, <2>2, <2>3, <2>4
<1>16. ASSUME NEW c \in Client, WaitTest(c)
     PROVE  Inv'
  <2>1. TypeOK' /\ BlocksCounted'
    BY <1>16 DEF WaitTest
  <2>2. MutualExclusion' /\ OwnRequest'
    BY <1>16 DEF WaitTest
  <2>3. /\ RequestOutlivesTransaction' /\ NoLostCompletion' /\ DoneSeen'
        /\ OneTransaction' /\ WorkerExists' /\ IsFiniteSet(out')
    BY <1>16 DEF WaitTest
  <2>4. QED
    BY <2>1, <2>2, <2>3
<1>17. ASSUME NEW c \in Client, WaitSleep(c)
     PROVE  Inv'
  <2>1. rsp' \in Responses
    BY <1>17, <1>0, ResponseUpdates DEF WaitSleep
  <2>2. TypeOK' /\ BlocksCounted'
    BY <1>17, <2>1 DEF Responses, WaitSleep
  <2>3. MutualExclusion' /\ OwnRequest'
    BY <1>17 DEF WaitSleep
  <2>4. /\ RequestOutlivesTransaction' /\ NoLostCompletion' /\ DoneSeen'
        /\ OneTransaction' /\ WorkerExists' /\ IsFiniteSet(out')
    BY <1>17 DEF WaitSleep
  <2>5. QED
    BY <2>1, <2>2, <2>3, <2>4
<1>18. ASSUME NEW c \in Client, WaitWake(c)
     PROVE  Inv'
  <2>1. rsp' \in Responses
    BY <1>18, <1>0, ResponseUpdates DEF WaitWake
  <2>2. TypeOK' /\ BlocksCounted'
    BY <1>18, <2>1 DEF Responses, WaitWake
  <2>3. MutualExclusion' /\ OwnRequest'
    BY <1>18 DEF WaitWake
  <2>4. /\ RequestOutlivesTransaction' /\ NoLostCompletion' /\ DoneSeen'
        /\ OneTransaction' /\ WorkerExists' /\ IsFiniteSet(out')
    BY <1>18 DEF WaitWake
  <2>5. QED
    BY <2>1, <2>2, <2>3, <2>4
<1>19. ASSUME NEW c \in Client, WaitReturn(c)
     PROVE  Inv'
  <2>1. rsp' \in Responses
    BY <1>19, <1>0, ResponseUpdates DEF WaitReturn
  <2>2. TypeOK' /\ BlocksCounted'
    BY <1>19, <2>1 DEF Responses, WaitReturn
  <2>3. MutualExclusion' /\ OwnRequest'
    BY <1>19 DEF WaitReturn
  <2>4. RequestOutlivesTransaction' /\ OneTransaction'
    BY <1>19 DEF WaitReturn
  <2>5. NoLostCompletion' /\ DoneSeen' /\ WorkerExists'
    BY <1>19 DEF WaitReturn
  <2>6. IsFiniteSet(out')
    BY <1>19, FS_RemoveElement DEF WaitReturn
  <2>7. QED
    BY <2>1, <2>2, <2>3, <2>4, <2>5, <2>6
<1>20. ASSUME WorkerStart
     PROVE  Inv'
  BY <1>20 DEF WorkerStart
<1>21. ASSUME WorkerTest
     PROVE  Inv'
  BY <1>21 DEF WorkerTest
<1>22. ASSUME WorkerGet
     PROVE  Inv'
  BY SMTT(60), <1>22 DEF WorkerGet
<1>23. ASSUME WorkerProcess
     PROVE  Inv'
  BY <1>23 DEF WorkerProcess
<1>24. ASSUME WorkerDoneLock
     PROVE  Inv'
  BY SMTT(60), <1>24 DEF WorkerDoneLock
<1>25. ASSUME WorkerDoneSet
     PROVE  Inv'
  <2>1. rsp' \in Responses
    BY <1>25, <1>0, ResponseUpdates DEF WorkerDoneSet
  <2>2. TypeOK' /\ BlocksCounted'
    BY <1>25, <2>1 DEF Responses, WorkerDoneSet
  <2>3. MutualExclusion' /\ OwnRequest'
    BY <1>25 DEF WorkerDoneSet
  <2>4. /\ RequestOutlivesTransaction' /\ NoLostCompletion' /\ DoneSeen'
        /\ OneTransaction' /\ WorkerExists' /\ IsFiniteSet(out')
    BY <1>25 DEF WorkerDoneSet
  <2>5. QED
    BY <2>1, <2>2, <2>3, <2>4
<1>26. ASSUME WorkerDoneNotify
     PROVE  Inv'
  <2>1. rsp' \in Responses
    BY <1>26, <1>0, ResponseUpdates DEF WorkerDoneNotify
  <2>2. TypeOK' /\ BlocksCounted'
    BY <1>26, <2>1 DEF Responses, WorkerDoneNotify
  <2>3. MutualExclusion' /\ OwnRequest'
    BY <1>26 DEF WorkerDoneNotify
  <2>4. /\ RequestOutlivesTransaction' /\ NoLostCompletion' /\ DoneSeen'
        /\ OneTransaction' /\ WorkerExists' /\ IsFiniteSet(out')
    BY <1>26 DEF WorkerDoneNotify
  <2>5. QED
    BY <2>1, <2>2, <2>3, <2>4
<1>27. ASSUME WorkerDoneUnlock
     PROVE  Inv'
  <2>1. rsp' \in Responses
    BY <1>27, <1>0, ResponseUpdates DEF WorkerDoneUnlock
  <2>2. TypeOK' /\ BlocksCounted'
    BY <1>27, <2>1 DEF Responses, WorkerDoneUnlock
  <2>3. MutualExclusion' /\ OwnRequest'
    BY <1>27 DEF WorkerDoneUnlock
  <2>4. /\ RequestOutlivesTransaction' /\ NoLostCompletion' /\ DoneSeen'
        /\ OneTransaction' /\ WorkerExists' /\ IsFiniteSet(out')
    BY <1>27 DEF WorkerDoneUnlock
  <2>5. QED
    BY <2>1, <2>2, <2>3, <2>4
<1>28. ASSUME WorkerFree
     PROVE  Inv'
  BY <1>28 DEF WorkerFree
<1>29. CASE UNCHANGED vars
  BY <1>29 DEF vars, objectVars, mailVars, workerVars, rspVars, callVars
<1> HIDE DEF Inv, TypeOK, BlocksCounted, RequestOutlivesTransaction, NoLostCompletion,
             MutualExclusion, OwnRequest, DoneSeen, OneTransaction, WorkerExists,
             Goto, Lock, LockRsp, WorkerGoto
<1>30. QED
  BY <1>1, <1>2, <1>3, <1>4, <1>5, <1>6, <1>7, <1>8, <1>9, <1>10, <1>11, <1>12, <1>13, <1>14,
     <1>15, <1>16, <1>17, <1>18, <1>19, <1>20, <1>21, <1>22, <1>23, <1>24, <1>25, <1>26, <1>27, <1>28, <1>29
     DEF Next, TakeMutex, ClientStep, InstanceStep, DispatchStep, WaitStep, WorkerStep

(* The inductive invariant of the request path.                            *)
THEOREM Invariance == Spec => []Inv
<1>1. Inv /\ [Next]_vars => Inv'
  BY StepInv
<1>2. QED
  BY InitInv, <1>1, PTL DEF Spec

(* Type correctness of the dispatcher, its mailbox and the responses.      *)
THEOREM TypeCorrectness == Spec => []TypeOK
<1>1. Inv => TypeOK
  BY DEF Inv
<1>2. QED
  BY <1>1, Invariance, PTL

(* _mutex and the mutex of each response admit one thread, also across a   *)
(* destroy().                                                              *)
THEOREM MutexCorrect == Spec => []MutualExclusion
<1>1. Inv => MutualExclusion
  BY DEF Inv
<1>2. QED
  BY <1>1, Invariance, PTL

(* The request a transaction points to lives on the stack of a call that   *)
(* has not returned.                                                       *)
THEOREM RequestsLive == Spec => []RequestOutlivesTransaction
<1>1. Inv => RequestOutlivesTransaction
  BY DEF Inv
<1>2. QED
  BY <1>1, Invariance, PTL

(* done() misses no caller that sleeps in wait().                          *)
THEOREM CompletionsDelivered == Spec => []NoLostCompletion
<1>1. Inv => NoLostCompletion
  BY DEF Inv
<1>2. QED
  BY <1>1, Invariance, PTL

(* Since they hold _mutex, at most one client is between try_alloc() and   *)
(* put().                                                                  *)
LEMMA OneFills ==
  ASSUME MutualExclusion
  PROVE  Cardinality({c \in Client : pc[c] = "dispatchPut"})
         = IF \E c \in Client : pc[c] = "dispatchPut" THEN 1 ELSE 0
<1> DEFINE Filling == {c \in Client : pc[c] = "dispatchPut"}
<1>1. CASE Filling = {}
  BY <1>1, FS_EmptySet
<1>2. ASSUME NEW c \in Filling PROVE Filling = {c}
  BY MutualExclusion DEF MutualExclusion
<1>3. QED
  BY <1>1, <1>2, FS_Singleton

(* No block of the mailbox leaks and none is freed twice, for any number   *)
(* of callers and any size of the mailbox, also across a destroy().        *)
THEOREM NoBlockLeaks == Spec => []BlocksAccounted
<1>1. Inv => BlocksAccounted
  BY OneFills DEF Inv, BlocksCounted, BlocksAccounted
<1>2. QED
  BY <1>1, Invariance, PTL

(* try_alloc() fails only with QueueSize transactions under way: those in  *)
(* the mailbox, and the worker's, are as many different requests.          *)
THEOREM NullMeansFull == Spec => []NullOnlyWhenFull
<1>1. Inv => NullOnlyWhenFull
  <2> SUFFICES ASSUME Inv, NEW c \in Client, pc[c] = "dispatchAlloc", free = 0
               PROVE  Cardinality({q \in out : ~Forgotten(q)})
                        + (IF worker = "free" THEN 1 ELSE 0) >= QueueSize
    BY DEF NullOnlyWhenFull
  <2> DEFINE Live == {q \in out : ~Forgotten(q)}
             n == Len(mailbox) + (IF worker \in HoldsBlock \ {"free"} THEN 1 ELSE 0)
             place == [i \in 1 .. n |-> IF i <= Len(mailbox) THEN mailbox[i] ELSE current]
  <2>1. mailbox \in Seq(Request) /\ Len(mailbox) \in Nat /\ DOMAIN mailbox = 1 .. Len(mailbox)
    BY DEF Inv, TypeOK
  <2>2. n + (IF worker = "free" THEN 1 ELSE 0) = QueueSize /\ n \in Nat
    <3>1. \A d \in Client : pc[d] # "dispatchPut"
      BY DEF Inv, MutualExclusion
    <3>2. BlocksCounted
      BY DEF Inv
    <3>3. CASE worker \in HoldsBlock \ {"free"}
      <4>1. n = Len(mailbox) + 1 /\ worker # "free" /\ worker \in HoldsBlock
        BY <3>3
      <4>2. Len(mailbox) + 1 = QueueSize
        BY <2>1, <3>1, <3>2, <4>1, QueueAssumption DEF BlocksCounted
      <4>3. QED
        BY <2>1, <4>1, <4>2
    <3>4. CASE worker = "free"
      BY <2>1, <3>1, <3>2, <3>4, QueueAssumption DEF BlocksCounted, HoldsBlock
    <3>5. CASE worker \notin HoldsBlock
      <4>1. n = Len(mailbox) + 0 /\ worker # "free"
        BY <3>5 DEF HoldsBlock
      <4>2. free + Len(mailbox) + 0 + 0 = QueueSize
        BY <3>1, <3>2, <3>5 DEF BlocksCounted
      <4>3. Len(mailbox) = QueueSize
        BY <2>1, <4>2
      <4>4. QED
        BY <2>1, <4>1, <4>3
    <3>6. QED
      BY <3>3, <3>4, <3>5
  <2>3. place \in Injection(1 .. n, Live)
    <3>1. ASSUME NEW i \in 1 .. n PROVE place[i] \in Live
      BY <2>1 DEF Inv, RequestOutlivesTransaction, Forgotten
    <3>2. ASSUME NEW i \in 1 .. n, NEW j \in 1 .. n, place[i] = place[j] PROVE i = j
      BY <2>1, <3>2 DEF Inv, OneTransaction
    <3>3. QED
      BY <3>1, <3>2 DEF Injection, IsInjective
  <2>4. IsFiniteSet(Live)
    BY FS_Subset DEF Inv
  <2> HIDE DEF n, place, Live
  <2>5. n <= Cardinality(Live) /\ Cardinality(Live) \in Nat
    BY <2>2, <2>3, <2>4, FS_Injection, FS_Interval, FS_CardinalityType
  <2>6. Cardinality(Live) + (IF worker = "free" THEN 1 ELSE 0) >= QueueSize
    BY <2>2, <2>5, QueueAssumption
  <2>7. QED
    BY <2>6 DEF Live
<1>2. QED
  BY <1>1, Invariance, PTL

-----------------------------------------------------------------------------

(* A bus that was not used yet.                                            *)
LEMMA InitRefines == Init => Service!Init
BY DEF Init, Service!Init, StateOf, OnBus

(* Every step is a step of the service or none: put() submits, the get of  *)
(* the worker begins, done() finishes, the return of wait() collects, and  *)
(* the destructor drops what is queued.                                    *)
LEMMA StepRefines == Inv /\ [Next]_vars => [Service!Next]_Service!vars
<1> SUFFICES ASSUME Inv, [Next]_vars PROVE [Service!Next]_Service!vars
  OBVIOUS
<1> USE NameAssumption
<1> USE DEF Inv, TypeOK, Goto, Lock, LockRsp, WorkerGoto, OnBus, HoldsBlock, StateOf,
            objectVars, mailVars, workerVars, rspVars, callVars, Service!vars
<1>1. ASSUME NEW c \in Client, NEW q \in Request, CallWait(c, q)
     PROVE  UNCHANGED Service!vars
  BY <1>1 DEF CallWait
<1>2. ASSUME NEW c \in Client, NEW q \in Request, NEW s \in BOOLEAN, Call(c, q, s)
     PROVE  UNCHANGED Service!vars
  BY <1>2 DEF Call
<1>3. ASSUME NEW c \in Client, CallDestroy(c)
     PROVE  UNCHANGED Service!vars
  BY <1>3 DEF CallDestroy
<1>4. ASSUME NEW c \in Client, InstanceLock(c)
     PROVE  UNCHANGED Service!vars
  BY <1>4 DEF InstanceLock
<1>5. ASSUME NEW c \in Client, InstanceFound(c)
     PROVE  UNCHANGED Service!vars
  BY <1>5 DEF InstanceFound
<1>6. ASSUME NEW c \in Client, InstanceCreate(c)
     PROVE  UNCHANGED Service!vars
  BY <1>6 DEF InstanceCreate, MutualExclusion, WorkerExists
<1>7. ASSUME NEW c \in Client, InstanceStarted(c)
     PROVE  UNCHANGED Service!vars
  BY <1>7 DEF InstanceStarted
<1>8. ASSUME NEW c \in Client, DestroyNothing(c)
     PROVE  UNCHANGED Service!vars
  BY <1>8 DEF DestroyNothing
<1>9. ASSUME NEW c \in Client, DestroyEnd(c)
     PROVE  UNCHANGED Service!vars
  BY <1>9 DEF DestroyEnd
<1>10. ASSUME NEW c \in Client, DestroyDelete(c)
     PROVE  Service!Shutdown
  BY <1>10 DEF DestroyDelete, Joined, Service!Shutdown
<1>11. ASSUME NEW c \in Client, DispatchLock(c)
     PROVE  UNCHANGED Service!vars
  BY <1>11 DEF DispatchLock
<1>12. ASSUME NEW c \in Client, DispatchFull(c)
     PROVE  UNCHANGED Service!vars
  BY <1>12 DEF DispatchFull
<1>13. ASSUME NEW c \in Client, DispatchAlloc(c)
     PROVE  UNCHANGED Service!vars
  BY <1>13 DEF DispatchAlloc
<1>14. ASSUME NEW c \in Client, DispatchPut(c)
     PROVE  cur[c] \in Request /\ Service!Submit(cur[c])
  BY <1>14 DEF DispatchPut, NewResponse, OwnRequest, Calling, Service!Submit
<1>15. ASSUME NEW c \in Client, WaitLock(c)
     PROVE  UNCHANGED Service!vars
  BY <1>15 DEF WaitLock
<1>16. ASSUME NEW c \in Client, WaitTest(c)
     PROVE  UNCHANGED Service!vars
  BY <1>16 DEF WaitTest, IsDone
<1>17. ASSUME NEW c \in Client, WaitSleep(c)
     PROVE  UNCHANGED Service!vars
  BY <1>17 DEF WaitSleep
<1>18. ASSUME NEW c \in Client, WaitWake(c)
     PROVE  UNCHANGED Service!vars
  BY <1>18 DEF WaitWake
<1>19. ASSUME NEW c \in Client, WaitReturn(c)
     PROVE  cur[c] \in Request /\ Service!Collect(cur[c])
  BY <1>19 DEF WaitReturn, OwnRequest, DoneSeen, Waiting, Service!Collect
<1>20. ASSUME WorkerStart
     PROVE  UNCHANGED Service!vars
  BY <1>20 DEF WorkerStart
<1>21. ASSUME WorkerTest
     PROVE  UNCHANGED Service!vars
  BY <1>21 DEF WorkerTest, Running
<1>22. ASSUME WorkerGet
     PROVE  Service!Begin
  BY <1>22 DEF WorkerGet, Service!Begin
<1>23. ASSUME WorkerProcess
     PROVE  UNCHANGED Service!vars
  BY <1>23 DEF WorkerProcess
<1>24. ASSUME WorkerDoneLock
     PROVE  UNCHANGED Service!vars
  BY <1>24 DEF WorkerDoneLock
<1>25. ASSUME WorkerDoneSet
     PROVE  current \in Request /\ Service!Finish(current)
  BY ZenonT(60), <1>25 DEF WorkerDoneSet, RequestOutlivesTransaction, OneTransaction, Service!Finish
<1>26. ASSUME WorkerDoneNotify
     PROVE  UNCHANGED Service!vars
  BY <1>26 DEF WorkerDoneNotify, Notified
<1>27. ASSUME WorkerDoneUnlock
     PROVE  UNCHANGED Service!vars
  BY <1>27 DEF WorkerDoneUnlock
<1>28. ASSUME WorkerFree
     PROVE  UNCHANGED Service!vars
  BY <1>28 DEF WorkerFree
<1>29. CASE UNCHANGED vars
  BY <1>29 DEF vars
<1> HIDE DEF Inv, TypeOK, Goto, Lock, LockRsp, WorkerGoto, OnBus, HoldsBlock, StateOf
<1>30. QED
  BY <1>1, <1>2, <1>3, <1>4, <1>5, <1>6, <1>7, <1>8, <1>9, <1>10, <1>11, <1>12, <1>13, <1>14,
     <1>15, <1>16, <1>17, <1>18, <1>19, <1>20, <1>21, <1>22, <1>23, <1>24, <1>25, <1>26, <1>27, <1>28, <1>29
     DEF Next, TakeMutex, ClientStep, InstanceStep, DispatchStep, WaitStep, WorkerStep,
         Service!Next

(* The request path of a dispatcher implements IoService.                  *)
THEOREM Refinement == Spec => RefinesService
<1>1. QED
  BY InitRefines, StepRefines, Invariance, PTL DEF Spec, RefinesService, Service!Spec

-----------------------------------------------------------------------------

(* end() only sets _terminate_thread, and the worker reads it between two  *)
(* transactions.  A destroy() that finds it asleep in try_get_for() holds  *)
(* _mutex and joins it: whatever the other callers do from then on, the    *)
(* worker stays asleep, the mailbox empty and _mutex taken, so no instance *)
(* is made or found, nothing is dispatched and no destroy() returns.       *)
THEOREM DestroyHangsForGood ==
  Spec => [][Hung => Hung' /\ UNCHANGED <<instance, owner, free>>]_vars
<1>1. ASSUME Inv, [Next]_vars, Hung
      PROVE  Hung' /\ UNCHANGED <<instance, owner, free>>
  <2> USE DEF Hung, Goto, Lock, objectVars, mailVars, workerVars, rspVars, callVars
  <2>1. PICK d \in Client : pc[d] = "destroyJoin"
    BY <1>1
  <2>2. /\ owner = d /\ owner # Nobody
        /\ \A c \in Client : pc[c] \in {"instanceTest", "instanceSpin", "dispatchAlloc",
                                        "dispatchPut", "destroyJoin"} => c = d
        /\ pc \in [Client -> ClientPc]
    BY <1>1, <2>1, NameAssumption DEF Inv, MutualExclusion, TypeOK
  <2>3. ASSUME NEW c \in Client, NEW q \in Request, CallWait(c, q)
        PROVE  Hung' /\ UNCHANGED <<instance, owner, free>>
    BY <1>1, <2>1, <2>2, <2>3 DEF CallWait
  <2>4. ASSUME NEW c \in Client, NEW q \in Request, NEW s \in BOOLEAN, Call(c, q, s)
        PROVE  Hung' /\ UNCHANGED <<instance, owner, free>>
    BY <1>1, <2>1, <2>2, <2>4 DEF Call
  <2>5. ASSUME NEW c \in Client, CallDestroy(c)
        PROVE  Hung' /\ UNCHANGED <<instance, owner, free>>
    BY <1>1, <2>1, <2>2, <2>5 DEF CallDestroy
  <2>6. ASSUME NEW c \in Client, TakeMutex(c)
        PROVE  FALSE
    BY <2>2, <2>6 DEF TakeMutex, InstanceLock, DispatchLock, DestroyNothing, DestroyEnd
  <2>7. ASSUME NEW c \in Client, InstanceStep(c) \/ DispatchStep(c) \/ DestroyDelete(c)
        PROVE  FALSE
    BY <1>1, <2>1, <2>2, <2>7
     DEF InstanceStep, InstanceFound, InstanceCreate, InstanceStarted, DispatchStep,
         DispatchFull, DispatchAlloc, DispatchPut, DestroyDelete, Joined
  <2>8. ASSUME NEW c \in Client, WaitStep(c)
        PROVE  Hung' /\ UNCHANGED <<instance, owner, free>>
    BY <1>1, <2>1, <2>2, <2>8
     DEF WaitStep, WaitLock, WaitTest, WaitSleep, WaitWake, WaitReturn
  <2>9. ASSUME WorkerStep
        PROVE  FALSE
    BY <1>1, <2>9
     DEF WorkerStep, WorkerGoto, WorkerStart, WorkerTest, WorkerGet, WorkerProcess,
         WorkerDoneLock, WorkerDoneSet, WorkerDoneNotify, WorkerDoneUnlock, WorkerFree
  <2>10. CASE UNCHANGED vars
    BY <1>1, <2>10 DEF vars
  <2>11. QED
    BY <1>1, <2>3, <2>4, <2>5, <2>6, <2>7, <2>8, <2>9, <2>10 DEF Next, ClientStep
<1>2. QED
  BY <1>1, Invariance, PTL DEF Spec
=============================================================================
