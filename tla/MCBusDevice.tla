---------------------------- MODULE MCBusDevice ----------------------------
(* BusDevice with two Wire devices and two SPI devices for TLC.            *)
EXTENDS BusDevice

CONSTANTS w1, w2, s1, s2, b0, b1

\* One device of each kind has the defaults, the other has every argument.  The
\* cfg gives only one SPI device a select function.
Args == w1 :> <<>> @@ w2 :> <<FALSE, FALSE>> @@ s1 :> <<>> @@ s2 :> <<b0>>
=============================================================================
