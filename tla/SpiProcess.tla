----------------------------- MODULE SpiProcess -----------------------------
(***************************************************************************)
(* SpiDispatcher::processSpiIoRequest(): what the SPI worker does with one *)
(* request, byte by byte.  SPI exchanges a byte for a byte: the first loop *)
(* sends the write buffer and stores the bytes received in its place, the  *)
(* second sends the fill symbol and stores them in the read buffer.        *)
(*                                                                         *)
(* The devices answer anything.  The log of the exchanges of a request     *)
(* stands for the wires.  The module BusDevice composes these steps with   *)
(* the calls that make the requests.                                       *)
(***************************************************************************)
EXTENDS Naturals, Sequences

CONSTANT Byte

VARIABLES phase,     \* the statement of processSpiIoRequest()
          request,   \* the IoRequest: data, toRead, config (device, select, fill)
          writeBuf,  \* write_buf
          readBuf,   \* the part of read_buf that was stored
          sent,      \* bytes_sent
          selected,  \* the devices whose select() was not undone by deselect()
          open,      \* beginTransaction() was called
          log,       \* the bytes exchanged for this request
          response   \* the byte counts of the IoResponse

bufferVars == <<writeBuf, readBuf, sent>>

Init ==
    /\ writeBuf = <<>> /\ sent = 0
    /\ selected = {} /\ open = FALSE

Get(q) ==
    /\ phase = "get"
    /\ phase' = "select"
    /\ request' = q
    /\ writeBuf' = q.data /\ readBuf' = <<>> /\ sent' = 0
    /\ log' = <<>>
    /\ response' = [written |-> 0, read |-> 0]
    /\ UNCHANGED <<selected, open>>

\* Nothing happens if the select function of the config is null.
Select ==
    /\ phase = "select"
    /\ phase' = "begin"
    /\ selected' = selected \cup {d \in {request.config.device} : request.config.select}
    /\ UNCHANGED <<request, bufferVars, open, log, response>>

BeginTransaction ==
    /\ phase = "begin"
    /\ phase' = "exchange"
    /\ open' = TRUE
    /\ UNCHANGED <<request, bufferVars, selected, log, response>>

\* What happens on the bus: `transfer(tx)` returns rx.
Transfer(tx, rx) ==
    log' = Append(log, [tx |-> tx, rx |-> rx, to |-> selected, open |-> open])

WriteByte(rx) ==
    /\ phase = "exchange"
    /\ sent < Len(writeBuf)
    /\ Transfer(writeBuf[sent + 1], rx)
    /\ writeBuf' = [writeBuf EXCEPT ![sent + 1] = rx]
    /\ sent' = sent + 1
    /\ UNCHANGED <<phase, request, readBuf, selected, open, response>>

\* The second loop starts when the first has ended.
ReadByte(rx) ==
    /\ phase = "exchange"
    /\ sent = Len(writeBuf)
    /\ Len(readBuf) < request.toRead
    /\ Transfer(request.config.fill, rx)
    /\ readBuf' = Append(readBuf, rx)
    /\ UNCHANGED <<phase, request, writeBuf, sent, selected, open, response>>

EndTransaction ==
    /\ phase = "exchange"
    /\ sent = Len(writeBuf) /\ Len(readBuf) = request.toRead
    /\ phase' = "deselect"
    /\ open' = FALSE
    /\ UNCHANGED <<request, bufferVars, selected, log, response>>

\* Mutant: deselect() is forgotten when nothing was read.
DeselectedAfterRead == IF request.toRead > 0 THEN {} ELSE selected

Deselected == selected \ {request.config.device}

Deselect ==
    /\ phase = "deselect"
    /\ phase' = "respond"
    /\ selected' = Deselected
    /\ UNCHANGED <<request, bufferVars, open, log, response>>

Respond ==
    /\ phase = "respond"
    /\ phase' = "done"
    /\ response' = [written |-> sent, read |-> Len(readBuf)]
    /\ UNCHANGED <<request, bufferVars, selected, open, log>>

Step ==
    \/ Select \/ BeginTransaction \/ EndTransaction \/ Deselect \/ Respond
    \/ \E rx \in Byte : WriteByte(rx) \/ ReadByte(rx)
=============================================================================
