------------------------------ MODULE BusDevice ------------------------------
(***************************************************************************)
(* BusDevice, WireBusDevice and SpiBusDevice: the constructors, which      *)
(* choose the kind of a device and its config, the calls transfer(),       *)
(* read(), write() and writeThenRead(), which turn their arguments and     *)
(* that config into a request, and the worker of the bus that carries it   *)
(* out (the modules WireProcess and SpiProcess).                           *)
(*                                                                         *)
(* The requests of all threads reach the workers one after the other (the  *)
(* module IoDispatcher): here one call follows the other, on any device.   *)
(* The workers of the two buses have no state in common, so one set of     *)
(* variables stands for what they do with the call.                        *)
(***************************************************************************)
EXTENDS Naturals, Sequences, SequencesExt

CONSTANTS WireDevice, SpiDevice,  \* the BusDevices, by the bus they are on
          ArgsOf,                 \* the optional arguments each was constructed with
          ChipSelect,             \* the SPI devices that were not constructed with null
                                  \* functions for select and deselect
          TxLimit,                \* the size of the transmit buffer of the Wire library
          Byte,
          DefaultFill,            \* 0xFF
          MaxWrite, MaxRead,      \* bounds on bytes_to_write and bytes_to_read
          NoArg

Device == WireDevice \cup SpiDevice

ASSUME DeviceAssumption ==
    /\ WireDevice \cap SpiDevice = {}
    /\ \A d \in WireDevice : ArgsOf[d] \in BoundedSeq(BOOLEAN, 2)
    /\ \A d \in SpiDevice : ArgsOf[d] \in BoundedSeq(Byte, 1)
    /\ DefaultFill \in Byte
    /\ ChipSelect \subseteq SpiDevice

ASSUME BoundAssumption == MaxWrite \in Nat /\ MaxRead \in Nat /\ TxLimit \in Nat \ {0}

VARIABLES call,  \* the call under way
          phase, request, readBuf, log, response,
          written, txBuffer, rxBuffer, holder,   \* of WireProcess
          writeBuf, sent, selected, open         \* of SpiProcess

wireVars == <<written, txBuffer, rxBuffer, holder>>
spiVars  == <<writeBuf, sent, selected, open>>
vars == <<call, phase, request, readBuf, log, response, wireVars, spiVars>>

W == INSTANCE WireProcess
S == INSTANCE SpiProcess

OnWire == phase # "get" /\ call.device \in WireDevice
OnSpi == phase # "get" /\ call.device \in SpiDevice

Init ==
    /\ W!Init /\ S!Init
    /\ phase = "get"
    /\ call = NoArg /\ request = NoArg
    /\ readBuf = <<>> /\ log = <<>> /\ response = NoArg

-----------------------------------------------------------------------------
(* The constructors: BusDevice(wire, address [, restart [, stop]]) and     *)
(* BusDevice(spi, ... [, fill_symbol]).                                    *)

WireArg(d, i) == IF i <= Len(ArgsOf[d]) THEN ArgsOf[d][i] ELSE TRUE

WireConfig(d) == [device |-> d, restart |-> WireArg(d, 1), stop |-> WireArg(d, 2)]

SpiConfig(d) ==
    [device |-> d, select |-> d \in ChipSelect,
     fill |-> IF ArgsOf[d] = <<>> THEN DefaultFill ELSE ArgsOf[d][1]]

-----------------------------------------------------------------------------
(* The calls, with `arg` for the argument `stop` on Wire and `sendvalue`   *)
(* on SPI.                                                                 *)

\* write() and writeThenRead() keep the config's stop, whatever theirs.
WireCallConfig(d, op, arg) ==
    CASE op = "transfer" -> WireConfig(d)
      [] op = "read" -> [WireConfig(d) EXCEPT !.stop = arg]
      [] op \in {"write", "writeThenRead"} -> [WireConfig(d) EXCEPT !.restart = ~arg]

\* Mutant: the device's own config is used for every call.
SpiCallConfigOwn(d, op, arg) == SpiConfig(d)

SpiCallConfig(d, op, arg) ==
    IF op \in {"read", "writeThenRead"}
    THEN [SpiConfig(d) EXCEPT !.fill = arg] ELSE SpiConfig(d)

Call(d, op, bytes, n, arg) ==
    /\ call' = [device |-> d, op |-> op, data |-> bytes, toRead |-> n, arg |-> arg]
    /\ \/ /\ d \in WireDevice
          /\ W!Get([data |-> bytes, toRead |-> n, config |-> WireCallConfig(d, op, arg)])
          /\ UNCHANGED spiVars
       \/ /\ d \in SpiDevice
          /\ S!Get([data |-> bytes, toRead |-> n, config |-> SpiCallConfig(d, op, arg)])
          /\ UNCHANGED wireVars

Arg(d) == IF d \in WireDevice THEN BOOLEAN ELSE Byte

Transfer(d, bytes, n) == Call(d, "transfer", bytes, n, NoArg)

Read(d, n) == \E arg \in Arg(d) : Call(d, "read", <<>>, n, arg)

\* On SPI write() has no argument.
Write(d, bytes) ==
    \E arg \in IF d \in WireDevice THEN BOOLEAN ELSE {NoArg} : Call(d, "write", bytes, 0, arg)

WriteThenRead(d, bytes, n) ==
    \E arg \in Arg(d) : Call(d, "writeThenRead", bytes, n, arg)

-----------------------------------------------------------------------------

WireStep == OnWire /\ W!Step /\ UNCHANGED <<call, spiVars>>

SpiStep == OnSpi /\ S!Step /\ UNCHANGED <<call, wireVars>>

\* The worker's done(), and the return of wait() to the caller.  What the call and
\* the worker have made for the request goes; the libraries keep their state.
Return ==
    /\ phase = "done"
    /\ phase' = "get"
    /\ call' = NoArg /\ request' = NoArg /\ response' = NoArg
    /\ readBuf' = <<>> /\ log' = <<>>
    /\ written' = 0
    /\ writeBuf' = <<>> /\ sent' = 0
    /\ UNCHANGED <<txBuffer, rxBuffer, holder, selected, open>>

BusStep == WireStep \/ SpiStep \/ Return

Next ==
    \/ \E d \in Device, bytes \in BoundedSeq(Byte, MaxWrite), n \in 0 .. MaxRead :
         Transfer(d, bytes, n) \/ WriteThenRead(d, bytes, n)
    \/ \E d \in Device, bytes \in BoundedSeq(Byte, MaxWrite) : Write(d, bytes)
    \/ \E d \in Device, n \in 0 .. MaxRead : Read(d, n)
    \/ BusStep

Spec == Init /\ [][Next]_vars

(* The workers have the highest priority of all threads.                   *)
FairSpec == Spec /\ WF_vars(BusStep)

-----------------------------------------------------------------------------

Reads == call.toRead > 0
Writes == call.data # <<>>

\* The bytes to write that fit into the transmit buffer.
Fitting == IF Len(call.data) <= TxLimit THEN call.data ELSE SubSeq(call.data, 1, TxLimit)

(* When a call on a Wire device completes, it has sent its bytes, but for  *)
(* those the library had no room for, to its device, and read exactly what *)
(* its device answered: nothing an earlier call left in the buffers shows  *)
(* up in it.  It reports as written also the bytes that did not fit.       *)
RequestCarriedOut ==
    OnWire /\ phase = "done" =>
        LET w == IF Writes THEN <<[op |-> "write", to |-> call.device, bytes |-> Fitting]>>
                 ELSE <<>>
            r == IF Reads THEN <<[op |-> "read", to |-> call.device, bytes |-> readBuf]>>
                 ELSE <<>>
        IN  /\ log = w \o r
            /\ response = [written |-> Len(call.data), read |-> call.toRead]
            /\ rxBuffer = <<>>

(* writeThenRead() keeps the bus between its write and its read unless the *)
(* caller said stop, transfer() if the device is constructed so.  After a  *)
(* call only a read that was told not to stop holds the bus, read() by its *)
(* caller and the others by the device; a write never does, whatever its   *)
(* caller passed, and a call that moves no byte leaves it as it is.        *)
BusReleased ==
    LET d == WireConfig(call.device)
        restart == IF call.op = "transfer" THEN d.restart ELSE ~call.arg
        stop == IF call.op = "read" THEN call.arg ELSE d.stop
    IN  OnWire => /\ phase = "request" /\ Writes => (holder # {} <=> restart)
                  /\ phase = "done" /\ holder # {} => IF Reads THEN ~stop ELSE ~Writes

(* When a call on an SPI device completes, the buffers hold what the       *)
(* device sent, in order, in answer to the caller's bytes followed by the  *)
(* fill symbols, those the caller asked for or else those of the device.   *)
FullDuplex ==
    LET n == Len(call.data)
        fill == IF call.op \in {"read", "writeThenRead"} THEN call.arg
                ELSE SpiConfig(call.device).fill
    IN  OnSpi /\ phase = "done" =>
          /\ Len(log) = n + call.toRead
          /\ \A i \in DOMAIN log : log[i].tx = IF i <= n THEN call.data[i] ELSE fill
          /\ writeBuf \o readBuf = [i \in DOMAIN log |-> log[i].rx]
          /\ response = [written |-> n, read |-> call.toRead]

(* Every byte of a call goes to its device, or to none if that has no      *)
(* select function, but never to another one, whatever the calls before it *)
(* left behind.                                                            *)
OnlyItsDevice ==
    OnSpi => \A i \in DOMAIN log :
                 log[i].to = {call.device} \cap ChipSelect /\ log[i].open

(* A call completes; only a Wire device that does not answer stops it, in  *)
(* the loop that has no timeout.                                           *)
CallsComplete ==
    phase # "get" ~> phase = "get" \/ (phase = "spin" /\ log[Len(log)].bytes = <<>>)
=============================================================================
