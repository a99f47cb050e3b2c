----------------------------- MODULE BoundedFifo -----------------------------
(***************************************************************************)
(* What a blocking sink promises to the sketches: a bounded first-in       *)
(* first-out queue whose inject and pop each take effect at one instant    *)
(* between their call and their return.  A pop of an empty queue and an    *)
(* inject into a full one wait.                                            *)
(***************************************************************************)
EXTENDS Naturals, Sequences

CONSTANTS Value, Size, NoValue, Producer, Consumer

VARIABLES queue,   \* the elements, oldest first
          call     \* for each thread the call it is in

vars == <<queue, call>>

Thread == Producer \cup Consumer

Idle == [op |-> "idle", val |-> NoValue]

TypeOK ==
    /\ queue \in Seq(Value)
    /\ Len(queue) <= Size
    /\ call \in [Thread -> [op  : {"idle", "inject", "injected", "pop", "popped"},
                            val : Value \cup {NoValue}]]

Init ==
    /\ queue = <<>>
    /\ call = [t \in Thread |-> Idle]

CallInject(t, v) ==
    /\ call[t] = Idle
    /\ call' = [call EXCEPT ![t] = [op |-> "inject", val |-> v]]
    /\ UNCHANGED queue

Inject(t) ==
    /\ call[t].op = "inject"
    /\ Len(queue) < Size
    /\ queue' = Append(queue, call[t].val)
    /\ call' = [call EXCEPT ![t].op = "injected"]

CallPop(t) ==
    /\ call[t] = Idle
    /\ call' = [call EXCEPT ![t].op = "pop"]
    /\ UNCHANGED queue

Pop(t) ==
    /\ call[t].op = "pop"
    /\ queue # <<>>
    /\ call' = [call EXCEPT ![t] = [op |-> "popped", val |-> Head(queue)]]
    /\ queue' = Tail(queue)

Return(t) ==
    /\ call[t].op \in {"injected", "popped"}
    /\ call' = [call EXCEPT ![t] = Idle]
    /\ UNCHANGED queue

SomeInject == \E t \in Producer : Inject(t)
SomePop    == \E t \in Consumer : Pop(t)

Next ==
    \/ \E t \in Producer, v \in Value : CallInject(t, v)
    \/ \E t \in Consumer : CallPop(t)
    \/ SomeInject
    \/ SomePop
    \/ \E t \in Thread : Return(t)

(***************************************************************************)
(* Progress: of the pops waiting on a queue that is not empty one is       *)
(* served, of the injects waiting on one that is not full one is, and a    *)
(* call that took effect returns.  Which of several callers is served is   *)
(* not promised.                                                           *)
(***************************************************************************)
Progress ==
    /\ WF_vars(SomeInject)
    /\ WF_vars(SomePop)
    /\ \A t \in Thread : WF_vars(Return(t))

Spec == Init /\ [][Next]_vars
=============================================================================
