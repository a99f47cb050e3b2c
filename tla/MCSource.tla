------------------------------ MODULE MCSource ------------------------------
(* Source with two threads and two sinks of different sizes for TLC.       *)
EXTENDS Source, TLC

CONSTANTS src1, src2, a, b, p1, p2

\* Each thread pushes into a source of its own, or both into the same one.
OwnOrSame == {p1 :> src1 @@ p2 :> src2, p1 :> src1 @@ p2 :> src1}

\* The sink sizes: the default of SINK() and a longer queue.
SinkSizes == a :> 1 @@ b :> 2
=============================================================================
