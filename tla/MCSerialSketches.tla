-------------------------- MODULE MCSerialSketches --------------------------
(* SerialSketches with three projects of two sketches for TLC.             *)
EXTENDS SerialSketches

CONSTANTS main, t1

With(k1, k2) == main :> k1 @@ t1 :> k2

MCProjects == {With("log", "gps"), With("log", "writer"), With("mainReader", "reader")}
=============================================================================
