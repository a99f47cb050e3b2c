--------------------------- MODULE MCIoDispatcher ---------------------------
(* IoDispatcher with small sets of clients and requests for TLC.           *)
EXTENDS IoDispatcher, TLC

CONSTANTS c1, c2, q1, q2, q3

\* Client c1 may have two transfers under way, c2 one.
Owners == q1 :> c1 @@ q2 :> c1 @@ q3 :> c2
=============================================================================
