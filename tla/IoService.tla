------------------------------ MODULE IoService ------------------------------
(***************************************************************************)
(* What a bus promises to the sketches: the requests submitted to it are   *)
(* carried out one at a time, each once, in the order of their submission, *)
(* and a caller that waits for one collects it after it was carried out.   *)
(* When the bus is given up, the requests not yet begun are dropped; those *)
(* who wait for them are not told.                                         *)
(***************************************************************************)
EXTENDS Naturals, Sequences

CONSTANT Request

VARIABLES pending,  \* the requests submitted, in order
          active,   \* the set of requests being carried out on the bus
          state     \* the state of each request

vars == <<pending, active, state>>

Init ==
    /\ pending = <<>>
    /\ active = {}
    /\ state = [q \in Request |-> "idle"]

Submit(q) ==
    /\ state[q] = "idle"
    /\ state' = [state EXCEPT ![q] = "submitted"]
    /\ pending' = Append(pending, q)
    /\ UNCHANGED active

Begin ==
    /\ pending # <<>>
    /\ active = {}
    /\ active' = {Head(pending)}
    /\ pending' = Tail(pending)
    /\ UNCHANGED state

Finish(q) ==
    /\ q \in active
    /\ active' = active \ {q}
    /\ state' = [state EXCEPT ![q] = "complete"]
    /\ UNCHANGED pending

Collect(q) ==
    /\ state[q] = "complete"
    /\ state' = [state EXCEPT ![q] = "idle"]
    /\ UNCHANGED <<pending, active>>

\* The bus is given up: what is pending is dropped.
Shutdown ==
    /\ active = {}
    /\ pending' = <<>>
    /\ UNCHANGED <<active, state>>

Next ==
    \/ Begin \/ Shutdown
    \/ \E q \in Request : Submit(q) \/ Finish(q) \/ Collect(q)

(* The bus never rests while a request is pending.                         *)
Progress ==
    /\ WF_vars(Begin)
    /\ \A q \in Request : WF_vars(Finish(q))

Spec == Init /\ [][Next]_vars
=============================================================================
