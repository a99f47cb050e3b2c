------------------------------ MODULE SerialPort ------------------------------
(***************************************************************************)
(* What the serial port promises to the threads that share it.  The bytes  *)
(* it accepts from a thread leave in messages of its bytes alone: all that *)
(* it has accepted from the thread and not yet sent, without a gap, unless *)
(* the thread holds them back.  Byte n of thread t is <<t, n>>.            *)
(*                                                                         *)
(* It promises this until it is closed: from then on anything may happen.  *)
(***************************************************************************)
EXTENDS Naturals, Sequences

CONSTANT Thread

VARIABLES open,
          accepted,  \* the number of bytes accepted from each thread
          taken,     \* the number of them that are in messages
          held,      \* the threads that hold their bytes back
          hand,      \* the message that is leaving
          out        \* the messages that have left

vars == <<open, accepted, taken, held, hand, out>>

Init ==
    /\ open = TRUE
    /\ accepted = [t \in Thread |-> 0]
    /\ taken = [t \in Thread |-> 0]
    /\ held = {}
    /\ hand = <<>>
    /\ out = <<>>

Accept(t) ==
    /\ accepted' = [accepted EXCEPT ![t] = @ + 1]
    /\ UNCHANGED <<taken, held, hand, out>>

Hold(t) ==
    /\ held' = held \cup {t}
    /\ UNCHANGED <<accepted, taken, hand, out>>

Release(t) ==
    /\ held' = held \ {t}
    /\ UNCHANGED <<accepted, taken, hand, out>>

\* The bytes of thread t after the first m, up to byte n.
Bytes(t, m, n) == [k \in 1 .. n - m |-> <<t, m + k>>]

Take(t) ==
    /\ hand = <<>>
    /\ t \notin held
    /\ taken[t] < accepted[t]
    /\ hand' = Bytes(t, taken[t], accepted[t])
    /\ taken' = [taken EXCEPT ![t] = accepted[t]]
    /\ UNCHANGED <<accepted, held, out>>

Put ==
    /\ hand # <<>>
    /\ out' = Append(out, hand)
    /\ hand' = <<>>
    /\ UNCHANGED <<accepted, taken, held>>

Next ==
    \/ /\ open /\ open'
       /\ \/ Put
          \/ \E t \in Thread : Accept(t) \/ Hold(t) \/ Release(t) \/ Take(t)
    \/ ~open'

Spec == Init /\ [][Next]_vars
=============================================================================
