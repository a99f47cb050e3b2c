----------------------------- MODULE WireProcess -----------------------------
(***************************************************************************)
(* WireDispatcher::processWireIoRequest(): what the Wire worker does with  *)
(* one request.  A request with bytes to write sends them in one           *)
(* transmission; one with bytes to read asks for them and spins until all  *)
(* of them have arrived; one with both keeps the bus in between if the     *)
(* config says restart.                                                    *)
(*                                                                         *)
(* The Wire library: bytes written are collected in a buffer, of which     *)
(* write() refuses those that do not fit, and sent by endTransmission(),   *)
(* which releases the bus unless told not to; bytes read are stored in a   *)
(* receive buffer that available() counts.  A device may not answer a      *)
(* read: then it delivers no bytes.  The module BusDevice composes these   *)
(* steps with the calls that make the requests.                            *)
(***************************************************************************)
EXTENDS Naturals, Sequences, SequencesExt

CONSTANTS Byte,
          TxLimit,   \* the size of the transmit buffer of the Wire library
          MaxRead    \* bound on bytes_to_read

VARIABLES phase,     \* the statement of processWireIoRequest()
          request,   \* the IoRequest: data, toRead, config (device, restart, stop)
          written,   \* bytes_written
          readBuf,   \* the part of read_buf that was stored
          txBuffer,  \* the bytes collected since beginTransmission()
          rxBuffer,  \* the bytes that have arrived and were not read
          holder,    \* the devices addressed since the bus was last released
          log,       \* the transfers on the bus for this request
          response   \* the byte counts of the IoResponse

Init ==
    /\ written = 0
    /\ txBuffer = <<>> /\ rxBuffer = <<>>
    /\ holder = {}

\* A transfer on the bus, which is released after it or not.
Bus(op, bytes, release) ==
    /\ log' = Append(log, [op |-> op, to |-> request.config.device, bytes |-> bytes])
    /\ holder' = IF release THEN {} ELSE holder \cup {request.config.device}

ReadOrDone(q) == IF q.toRead > 0 THEN "request" ELSE "done"

Get(q) ==
    /\ phase = "get"
    /\ request' = q
    /\ phase' = IF q.data # <<>> THEN "begin" ELSE ReadOrDone(q)
    /\ written' = 0 /\ readBuf' = <<>>
    /\ log' = <<>>
    /\ response' = [written |-> 0, read |-> 0]
    /\ UNCHANGED <<txBuffer, rxBuffer, holder>>

BeginTransmission ==
    /\ phase = "begin"
    /\ phase' = "write"
    /\ txBuffer' = <<>>
    /\ UNCHANGED <<request, written, readBuf, rxBuffer, holder, log, response>>

\* A byte that write() of the library refuses is counted, too.
WriteByte ==
    /\ phase = "write"
    /\ written < Len(request.data)
    /\ txBuffer' = IF Len(txBuffer) < TxLimit
                   THEN Append(txBuffer, request.data[written + 1]) ELSE txBuffer
    /\ written' = written + 1
    /\ UNCHANGED <<phase, request, readBuf, rxBuffer, holder, log, response>>

\* Mutant: the bus is kept whenever the config says restart.
KeptAlways == request.config.restart

Kept == request.config.restart /\ request.toRead > 0

EndTransmission ==
    /\ phase = "write"
    /\ written = Len(request.data)
    /\ phase' = ReadOrDone(request)
    /\ response' = [response EXCEPT !.written = written]
    /\ Bus("write", txBuffer, ~Kept)
    /\ txBuffer' = <<>>
    /\ UNCHANGED <<request, written, readBuf, rxBuffer>>

\* Mutant: one byte less than needed is asked for.
AskedShort == request.toRead - 1

Asked == request.toRead

\* requestFrom(): the bytes the device answers are stored in the receive buffer.
RequestFrom(answer) ==
    /\ phase = "request"
    /\ phase' = "spin"
    /\ Len(answer) \in {0, Asked}
    /\ rxBuffer' = rxBuffer \o answer
    /\ Bus("read", answer, request.config.stop)
    /\ UNCHANGED <<request, written, readBuf, txBuffer, response>>

\* while (available() != bytes_to_read) { }
Spin ==
    /\ phase = "spin"
    /\ phase' = IF Len(rxBuffer) = request.toRead THEN "read" ELSE "spin"
    /\ UNCHANGED <<request, written, readBuf, txBuffer, rxBuffer, holder, log, response>>

ReadByte ==
    /\ phase = "read"
    /\ Len(readBuf) < request.toRead
    /\ readBuf' = Append(readBuf, Head(rxBuffer))
    /\ rxBuffer' = Tail(rxBuffer)
    /\ UNCHANGED <<phase, request, written, txBuffer, holder, log, response>>

\* Mutant: the loop over the received bytes stops one byte early.
AllButOneRead == Len(readBuf) + 1 = request.toRead

AllRead == Len(readBuf) = request.toRead

EndRead ==
    /\ phase = "read"
    /\ AllRead
    /\ phase' = "done"
    /\ response' = [response EXCEPT !.read = Len(readBuf)]
    /\ UNCHANGED <<request, written, readBuf, txBuffer, rxBuffer, holder, log>>

Step ==
    \/ BeginTransmission \/ WriteByte \/ EndTransmission
    \/ \E answer \in BoundedSeq(Byte, MaxRead) : RequestFrom(answer)
    \/ Spin \/ ReadByte \/ EndRead
=============================================================================
