---------------------------- MODULE SinkBlocking ----------------------------
(***************************************************************************)
(* threading/Sink.hpp, class SinkBlocking: inject() and pop() of one sink, *)
(* called by any number of threads.  Each takes _mutex, waits on a         *)
(* condition variable while the buffer is full (empty), moves one element, *)
(* wakes every waiter of the other condition and releases the mutex.       *)
(*                                                                         *)
(* rtos::ConditionVariable::wait() enters the caller in the wait list and  *)
(* releases the mutex in one step as far as other holders of the mutex can *)
(* tell, sleeps until notified, and takes the mutex again before it        *)
(* returns; notify_all() empties the wait list.                            *)
(***************************************************************************)
EXTENDS CircularBuffer

CONSTANTS Producer,  \* the threads that call inject(), through Source::push()
          Consumer,  \* the threads that call pop()
          NoThread   \* the owner of a mutex that is free

ASSUME ThreadAssumption == NoThread \notin Producer \cup Consumer

VARIABLES buffer,    \* _data
          owner,     \* the thread that holds _mutex
          dataWait,  \* the wait list of _cond_data_available
          slotWait,  \* the wait list of _cond_slot_available
          pc,        \* where each thread is
          val        \* the argument of inject(), the local d of pop()

vars == <<buffer, owner, dataWait, slotWait, pc, val>>

Thread == Producer \cup Consumer

InjectPc == {"injectLock", "injectTest", "injectEnter", "injectWait",
             "injectStore", "injectNotify", "injectUnlock"}
PopPc    == {"popLock", "popTest", "popEnter", "popWait",
             "popRead", "popNotify", "popUnlock"}

\* The places between lock() and unlock() at which a thread holds the mutex.
Critical == {"injectTest", "injectEnter", "injectStore", "injectNotify", "injectUnlock",
             "popTest", "popEnter", "popRead", "popNotify", "popUnlock"}

Init ==
    /\ buffer = EmptyBuffer
    /\ owner = NoThread
    /\ dataWait = {}
    /\ slotWait = {}
    /\ pc = [t \in Thread |-> "idle"]
    /\ val = [t \in Thread |-> NoValue]

Goto(t, from, to) ==
    /\ pc[t] = from
    /\ pc' = [pc EXCEPT ![t] = to]

Acquire(t) == owner = NoThread /\ owner' = t

-----------------------------------------------------------------------------
(* inject()                                                                *)

CallInject(t, v) ==
    /\ Goto(t, "idle", "injectLock")
    /\ val' = [val EXCEPT ![t] = v]
    /\ UNCHANGED <<buffer, owner, dataWait, slotWait>>

InjectLock(t) ==
    /\ Goto(t, "injectLock", "injectTest")
    /\ Acquire(t)
    /\ UNCHANGED <<buffer, dataWait, slotWait, val>>

\* while (_data.isFull())
InjectTest(t) ==
    /\ Goto(t, "injectTest", IF IsFull(buffer) THEN "injectEnter" ELSE "injectStore")
    /\ UNCHANGED <<buffer, owner, dataWait, slotWait, val>>

\* _cond_slot_available.wait(): enter the wait list, release the mutex, ...
InjectWait(t) ==
    /\ Goto(t, "injectEnter", "injectWait")
    /\ slotWait' = slotWait \cup {t}
    /\ owner' = NoThread
    /\ UNCHANGED <<buffer, dataWait, val>>

\* Mutant: `if` in place of `while`, the wait is not followed by a test.
InjectWakeNoTest(t) ==
    /\ Goto(t, "injectWait", "injectStore")
    /\ t \notin slotWait
    /\ Acquire(t)
    /\ UNCHANGED <<buffer, dataWait, slotWait, val>>

\* ... and, once notified, take the mutex again.
InjectWake(t) ==
    /\ Goto(t, "injectWait", "injectTest")
    /\ t \notin slotWait
    /\ Acquire(t)
    /\ UNCHANGED <<buffer, dataWait, slotWait, val>>

InjectStore(t) ==
    /\ Goto(t, "injectStore", "injectNotify")
    /\ buffer' = Store(buffer, val[t])
    /\ UNCHANGED <<owner, dataWait, slotWait, val>>

\* Mutant: the notification goes to the wrong condition variable.
InjectNotifySlot(t) ==
    /\ Goto(t, "injectNotify", "injectUnlock")
    /\ slotWait' = {}
    /\ UNCHANGED <<buffer, owner, dataWait, val>>

InjectNotify(t) ==
    /\ Goto(t, "injectNotify", "injectUnlock")
    /\ dataWait' = {}
    /\ UNCHANGED <<buffer, owner, slotWait, val>>

InjectUnlock(t) ==
    /\ Goto(t, "injectUnlock", "idle")
    /\ owner' = NoThread
    /\ val' = [val EXCEPT ![t] = NoValue]
    /\ UNCHANGED <<buffer, dataWait, slotWait>>

-----------------------------------------------------------------------------
(* pop()                                                                   *)

CallPop(t) ==
    /\ Goto(t, "idle", "popLock")
    /\ UNCHANGED <<buffer, owner, dataWait, slotWait, val>>

PopLock(t) ==
    /\ Goto(t, "popLock", "popTest")
    /\ Acquire(t)
    /\ UNCHANGED <<buffer, dataWait, slotWait, val>>

\* while (_data.isEmpty())
PopTest(t) ==
    /\ Goto(t, "popTest", IF IsEmpty(buffer) THEN "popEnter" ELSE "popRead")
    /\ UNCHANGED <<buffer, owner, dataWait, slotWait, val>>

\* _cond_data_available.wait()
PopWait(t) ==
    /\ Goto(t, "popEnter", "popWait")
    /\ dataWait' = dataWait \cup {t}
    /\ owner' = NoThread
    /\ UNCHANGED <<buffer, slotWait, val>>

\* Mutant: the woken thread does not take the mutex again.
PopWakeUnlocked(t) ==
    /\ Goto(t, "popWait", "popTest")
    /\ t \notin dataWait
    /\ UNCHANGED <<buffer, owner, dataWait, slotWait, val>>

\* Mutant: `if` in place of `while`, the read follows the wait directly.
PopWakeNoTest(t) ==
    /\ Goto(t, "popWait", "popRead")
    /\ t \notin dataWait
    /\ Acquire(t)
    /\ UNCHANGED <<buffer, dataWait, slotWait, val>>

PopWake(t) ==
    /\ Goto(t, "popWait", "popTest")
    /\ t \notin dataWait
    /\ Acquire(t)
    /\ UNCHANGED <<buffer, dataWait, slotWait, val>>

PopRead(t) ==
    /\ Goto(t, "popRead", "popNotify")
    /\ val' = [val EXCEPT ![t] = ReadValue(buffer)]
    /\ buffer' = AfterRead(buffer)
    /\ UNCHANGED <<owner, dataWait, slotWait>>

PopNotify(t) ==
    /\ Goto(t, "popNotify", "popUnlock")
    /\ slotWait' = {}
    /\ UNCHANGED <<buffer, owner, dataWait, val>>

PopUnlock(t) ==
    /\ Goto(t, "popUnlock", "idle")
    /\ owner' = NoThread
    /\ val' = [val EXCEPT ![t] = NoValue]
    /\ UNCHANGED <<buffer, dataWait, slotWait>>

-----------------------------------------------------------------------------

InjectStep(t) ==
    \/ InjectLock(t) \/ InjectTest(t)  \/ InjectWait(t)   \/ InjectWake(t)
    \/ InjectStore(t) \/ InjectNotify(t) \/ InjectUnlock(t)

PopStep(t) ==
    \/ PopLock(t) \/ PopTest(t)  \/ PopWait(t)   \/ PopWake(t)
    \/ PopRead(t) \/ PopNotify(t) \/ PopUnlock(t)

Next ==
    \/ \E t \in Producer, v \in Value : CallInject(t, v)
    \/ \E t \in Consumer : CallPop(t)
    \/ \E t \in Producer : InjectStep(t)
    \/ \E t \in Consumer : PopStep(t)

\* The scheduler runs every thread that can run.  Nobody has to make a call.
Fairness ==
    /\ \A t \in Producer : WF_vars(InjectStep(t))
    /\ \A t \in Consumer : WF_vars(PopStep(t))

Spec == Init /\ [][Next]_vars

FairSpec == Spec /\ Fairness

-----------------------------------------------------------------------------

TypeOK ==
    /\ WellFormed(buffer)
    /\ owner \in Thread \cup {NoThread}
    /\ dataWait \subseteq Thread
    /\ slotWait \subseteq Thread
    /\ pc \in [Thread -> {"idle"} \cup InjectPc \cup PopPc]
    /\ val \in [Thread -> Value \cup {NoValue}]

(* A thread is between lock() and unlock(), and awake, exactly while it    *)
(* owns _mutex; the buffer is only touched there.                          *)
MutualExclusion == \A t \in Thread : pc[t] \in Critical <=> owner = t

(* Nobody sleeps through the event it waits for: while a thread sleeps on  *)
(* _cond_data_available the buffer is empty, or the thread that stored an  *)
(* element is about to notify; likewise for _cond_slot_available.          *)
NoLostWakeup ==
    /\ dataWait # {} => IsEmpty(buffer) \/ \E t \in Thread : pc[t] = "injectNotify"
    /\ slotWait # {} => IsFull(buffer) \/ \E t \in Thread : pc[t] = "popNotify"

(* What a thread found out about the buffer is still true when it acts on  *)
(* it: store() never meets a full buffer (it would drop the element), a    *)
(* read() never an empty one (it would return T{0}), and nobody goes to    *)
(* sleep on a condition that holds.                                        *)
TestStillTrue ==
    \A t \in Thread :
        /\ pc[t] = "injectStore" => ~IsFull(buffer)
        /\ pc[t] = "injectEnter" => IsFull(buffer)
        /\ pc[t] = "popRead" => ~IsEmpty(buffer)
        /\ pc[t] = "popEnter" => IsEmpty(buffer)

(* The value a call carries: an inject its argument, a pop that has read   *)
(* its result.                                                             *)
ValueCarried ==
    \A t \in Thread :
        val[t] \in Value <=> pc[t] \in InjectPc \cup {"popNotify", "popUnlock"}

(* Threads on a wait list are those that called wait() on it.              *)
WaitersWait ==
    /\ \A t \in dataWait : pc[t] = "popWait"
    /\ \A t \in slotWait : pc[t] = "injectWait"

Inv ==
    /\ TypeOK
    /\ MutualExclusion
    /\ WaitersWait
    /\ ValueCarried
    /\ TestStillTrue
    /\ NoLostWakeup

-----------------------------------------------------------------------------
(* The refinement: a call takes effect when the element moves.             *)

OpOf(place) ==
    CASE place = "idle" -> "idle"
      [] place \in {"injectLock", "injectTest", "injectEnter", "injectWait",
                       "injectStore"} -> "inject"
      [] place \in {"injectNotify", "injectUnlock"} -> "injected"
      [] place \in {"popLock", "popTest", "popEnter", "popWait", "popRead"} -> "pop"
      [] place \in {"popNotify", "popUnlock"} -> "popped"

Fifo == INSTANCE BoundedFifo WITH
            queue <- Contents(buffer),
            call  <- [t \in Thread |-> [op |-> OpOf(pc[t]), val |-> val[t]]]

(* A blocking sink is a bounded first-in first-out queue: no element is    *)
(* lost, duplicated or reordered however the calls interleave.             *)
RefinesFifo == Fifo!Spec

(* It serves the calls that wait whenever it can: some pop as long as the  *)
(* queue holds an element, some inject as long as it has a slot.           *)
FifoProgress == Fifo!Progress
=============================================================================
