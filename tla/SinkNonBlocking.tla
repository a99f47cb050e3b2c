--------------------------- MODULE SinkNonBlocking ---------------------------
(***************************************************************************)
(* threading/Sink.hpp, class SinkNonBlocking: a sink that holds the last   *)
(* value only.  The unlock() of pop() stands behind its return and is      *)
(* never reached.  rtos::Mutex is recursive: its owner locks it again.     *)
(***************************************************************************)
EXTENDS Naturals

CONSTANTS Producer, Consumer, Value, NoValue, NoThread,
          MaxCount   \* bound on how often a thread locks the mutex recursively

VARIABLES data,   \* _data
          owner,  \* the thread that holds _mutex
          count,  \* how often it has locked it
          pc,     \* where each thread is
          val     \* the argument of inject(), the result of pop()

vars == <<data, owner, count, pc, val>>

Thread == Producer \cup Consumer

Init ==
    /\ data = NoValue
    /\ owner = NoThread
    /\ count = 0
    /\ pc = [t \in Thread |-> "idle"]
    /\ val = [t \in Thread |-> NoValue]

Goto(t, from, to) ==
    /\ pc[t] = from
    /\ pc' = [pc EXCEPT ![t] = to]

Lock(t) ==
    /\ owner \in {NoThread, t}
    /\ count < MaxCount
    /\ owner' = t
    /\ count' = count + 1

Unlock(t) ==
    /\ count' = count - 1
    /\ owner' = IF count = 1 THEN NoThread ELSE t

CallInject(t, v) ==
    /\ Goto(t, "idle", "injectLock")
    /\ val' = [val EXCEPT ![t] = v]
    /\ UNCHANGED <<data, owner, count>>

InjectLock(t) ==
    /\ Goto(t, "injectLock", "injectAssign")
    /\ Lock(t)
    /\ UNCHANGED <<data, val>>

InjectAssign(t) ==
    /\ Goto(t, "injectAssign", "injectUnlock")
    /\ data' = val[t]
    /\ UNCHANGED <<owner, count, val>>

InjectUnlock(t) ==
    /\ Goto(t, "injectUnlock", "idle")
    /\ Unlock(t)
    /\ UNCHANGED <<data, val>>

PopLock(t) ==
    /\ Goto(t, "idle", "popReturn")
    /\ Lock(t)
    /\ UNCHANGED <<data, val>>

\* return _data, with the mutex locked.
PopReturn(t) ==
    /\ Goto(t, "popReturn", "idle")
    /\ val' = [val EXCEPT ![t] = data]
    /\ UNCHANGED <<data, owner, count>>

InjectStep(t) == InjectLock(t) \/ InjectAssign(t) \/ InjectUnlock(t)

Next ==
    \/ \E t \in Producer, v \in Value : CallInject(t, v)
    \/ \E t \in Producer : InjectStep(t)
    \/ \E t \in Consumer : PopLock(t) \/ PopReturn(t)

(* A thread that waits for the mutex gets it if it is free again and again.*)
Fairness ==
    /\ \A t \in Producer : SF_vars(InjectStep(t))
    /\ \A t \in Consumer : WF_vars(PopReturn(t))

FairSpec == Init /\ [][Next]_vars /\ Fairness

(* A value that is assigned to a source is stored in the sink: inject()    *)
(* returns.                                                                *)
InjectReturns == \A t \in Producer : pc[t] = "injectLock" ~> pc[t] = "idle"
=============================================================================
