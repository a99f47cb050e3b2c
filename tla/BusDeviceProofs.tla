-------------------------- MODULE BusDeviceProofs ---------------------------
(***************************************************************************)
(* Safety of BusDevice for any devices, any bytes and any sequence of      *)
(* calls: what a call on a Wire device did to the bus when it completes,   *)
(* when the bus is released, what the buffers of an SPI call hold, and     *)
(* that its bytes reach its device only.                                   *)
(***************************************************************************)
EXTENDS BusDevice, SequenceTheorems, TLAPS

Op == {"transfer", "read", "write", "writeThenRead"}

WireCall == [device : WireDevice, op : Op, data : Seq(Byte), toRead : Nat,
             arg : BOOLEAN \cup {NoArg}]

SpiCall == [device : SpiDevice, op : Op, data : Seq(Byte), toRead : Nat,
            arg : Byte \cup {NoArg}]

(* Outside the statements that need them nothing is left in the receive    *)
(* buffer, no device is selected and no transaction is open: this is what  *)
(* a call finds, on either bus, whatever calls came before it.             *)
Idle ==
    /\ ~ (OnWire /\ phase \in {"spin", "read"}) => rxBuffer = <<>>
    /\ ~ OnSpi => selected = {} /\ open = FALSE

Data == call.data
Unread == [written |-> Len(Data), read |-> 0]

\* The transfers a Wire call owes: its write, then its read.
Sent == IF Writes THEN <<[op |-> "write", to |-> call.device, bytes |-> Fitting]>> ELSE <<>>
Received(bytes) == Sent \o <<[op |-> "read", to |-> call.device, bytes |-> bytes]>>

\* The call's argument and the device's config decide when the bus is released.
Restart == IF call.op = "transfer" THEN WireConfig(call.device).restart ELSE ~call.arg
Stop == IF call.op = "read" THEN call.arg ELSE WireConfig(call.device).stop

(* What the Wire worker has done with the request, statement by statement. *)
WireBegin == Writes /\ log = <<>> /\ readBuf = <<>> /\ written = 0
             /\ response = [written |-> 0, read |-> 0]

WireWrite == /\ Writes /\ log = <<>> /\ readBuf = <<>>
             /\ response = [written |-> 0, read |-> 0]
             /\ written \in 0 .. Len(Data)
             /\ txBuffer \in Seq(Byte)
             /\ Len(txBuffer) = IF written <= TxLimit THEN written ELSE TxLimit
             /\ \A i \in 1 .. Len(txBuffer) : txBuffer[i] = Data[i]

WireRequest == /\ Reads /\ log = Sent /\ readBuf = <<>>
               /\ response = Unread
               /\ Writes => (holder # {} <=> Restart)

WireReading == /\ Reads /\ response = Unread
               /\ rxBuffer \in Seq(Byte) /\ readBuf \in Seq(Byte)
               /\ log = Received(readBuf \o rxBuffer)
               /\ holder # {} => ~Stop

WireDone == /\ response = [written |-> Len(Data), read |-> call.toRead]
            /\ log = IF Reads THEN Received(readBuf) ELSE Sent
            /\ holder # {} => IF Reads THEN ~Stop ELSE ~Writes

WireInv ==
    OnWire =>
        /\ call \in WireCall
        /\ call.op # "transfer" => call.arg \in BOOLEAN
        /\ call.op = "read" => Data = <<>>
        /\ request = [data |-> Data, toRead |-> call.toRead,
                      config |-> WireCallConfig(call.device, call.op, call.arg)]
        /\ phase \in {"begin", "write", "request", "spin", "read", "done"}
        /\ phase = "begin" => WireBegin
        /\ phase = "write" => WireWrite
        /\ phase = "request" => WireRequest
        /\ phase = "spin" => WireReading /\ readBuf = <<>>
        /\ phase = "read" => WireReading /\ Len(readBuf) + Len(rxBuffer) = call.toRead
        /\ phase = "done" => WireDone

Exchange == [tx : Byte, rx : Byte, to : SUBSET Device, open : BOOLEAN]

Fill == IF call.op \in {"read", "writeThenRead"} THEN call.arg
        ELSE SpiConfig(call.device).fill

\* The device that hears the call.
Target == {call.device} \cap ChipSelect

(* The exchanges of an SPI call so far: the bytes they sent are the first  *)
(* of the caller's bytes and the fill symbols after them, and the buffers  *)
(* hold the bytes they received.                                           *)
Exchanged ==
    /\ sent \in 0 .. Len(Data)
    /\ writeBuf \in Seq(Byte) /\ Len(writeBuf) = Len(Data)
    /\ readBuf \in Seq(Byte) /\ Len(readBuf) <= call.toRead
    /\ Len(readBuf) > 0 => sent = Len(Data)
    /\ log \in Seq(Exchange) /\ Len(log) = sent + Len(readBuf)
    /\ \A i \in 1 .. Len(log) :
         /\ log[i].tx = IF i <= Len(Data) THEN Data[i] ELSE Fill
         /\ log[i].to = Target /\ log[i].open
    /\ \A i \in 1 .. Len(Data) :
         writeBuf[i] = IF i <= sent THEN log[i].rx ELSE Data[i]
    /\ \A i \in 1 .. Len(readBuf) : readBuf[i] = log[Len(Data) + i].rx

AllExchanged == sent = Len(Data) /\ Len(readBuf) = call.toRead

SpiInv ==
    OnSpi =>
        /\ call \in SpiCall
        /\ call.op \in {"read", "writeThenRead"} => call.arg \in Byte
        /\ request = [data |-> Data, toRead |-> call.toRead,
                      config |-> SpiCallConfig(call.device, call.op, call.arg)]
        /\ phase \in {"select", "begin", "exchange", "deselect", "respond", "done"}
        /\ Exchanged
        /\ phase \in {"select", "begin"} => sent = 0 /\ readBuf = <<>>
        /\ phase \in {"deselect", "respond", "done"} => AllExchanged
        /\ selected = IF phase \in {"begin", "exchange", "deselect"}
                      THEN Target ELSE {}
        /\ open = (phase = "exchange")
        /\ phase = "done" => response = [written |-> sent, read |-> Len(readBuf)]

Inv == Idle /\ WireInv /\ SpiInv
-----------------------------------------------------------------------------
(* The bounded inputs are sequences; the empty one is among them.          *)
LEMMA Bounded == ASSUME NEW n \in Nat, NEW bytes \in BoundedSeq(Byte, n)
                 PROVE  bytes \in Seq(Byte)
BY DEF BoundedSeq, SeqOf

(* The empty sequence is the only one of length zero.                      *)
LEMMA Empty == <<>> \in Seq(Byte) /\ Len(<<>>) = 0
               /\ \A bytes \in Seq(Byte) : Len(bytes) = 0 => bytes = <<>>
BY EmptySeq

(* The fill symbol of a device is a byte, its default or its argument.     *)
LEMMA FillTyped == ASSUME NEW d \in SpiDevice PROVE SpiConfig(d).fill \in Byte
<1>1. PICK m \in 0 .. 1 : ArgsOf[d] \in [1 .. m -> Byte]
  BY DeviceAssumption DEF BoundedSeq, SeqOf
<1>2. CASE m = 0
  BY <1>1, <1>2, DeviceAssumption DEF SpiConfig
<1>3. CASE m = 1
  BY <1>1, <1>3, DeviceAssumption DEF SpiConfig
<1>4. QED
  BY <1>2, <1>3

(* Reading a byte moves it from one buffer to the other.                   *)
LEMMA MoveHead ==
    ASSUME NEW s \in Seq(Byte), NEW t \in Seq(Byte), t # <<>>
    PROVE  /\ Append(s, Head(t)) \in Seq(Byte) /\ Tail(t) \in Seq(Byte)
           /\ Len(Append(s, Head(t))) + Len(Tail(t)) = Len(s) + Len(t)
           /\ Append(s, Head(t)) \o Tail(t) = s \o t
<1>1. /\ Head(t) \in Byte /\ Head(t) = t[1] /\ Tail(t) \in Seq(Byte)
      /\ Len(Tail(t)) = Len(t) - 1 /\ \A i \in 1 .. Len(Tail(t)) : Tail(t)[i] = t[i + 1]
  BY HeadTailProperties
<1>2. /\ Append(s, Head(t)) \in Seq(Byte) /\ Len(Append(s, Head(t))) = Len(s) + 1
      /\ \A i \in 1 .. Len(s) : Append(s, Head(t))[i] = s[i]
      /\ Append(s, Head(t))[Len(s) + 1] = Head(t)
  BY <1>1, AppendProperties
<1>3. Len(s) \in Nat /\ Len(t) \in Nat
  BY LenProperties
<1>4. Append(s, Head(t)) \o Tail(t) = s \o t
  <2> DEFINE a == Append(s, Head(t))
             b == Tail(t)
  <2>1. /\ a \o b \in Seq(Byte) /\ Len(a \o b) = Len(a) + Len(b)
        /\ \A i \in 1 .. Len(a) + Len(b) :
             (a \o b)[i] = IF i <= Len(a) THEN a[i] ELSE b[i - Len(a)]
    BY <1>1, <1>2, ConcatProperties
  <2>2. /\ s \o t \in Seq(Byte) /\ Len(s \o t) = Len(s) + Len(t)
        /\ \A i \in 1 .. Len(s) + Len(t) :
             (s \o t)[i] = IF i <= Len(s) THEN s[i] ELSE t[i - Len(s)]
    BY ConcatProperties
  <2>3. ASSUME NEW i \in 1 .. Len(s) + Len(t) PROVE (a \o b)[i] = (s \o t)[i]
    <3>1. CASE i <= Len(s)
      BY <1>1, <1>2, <1>3, <2>1, <2>2, <3>1
    <3>2. CASE i = Len(s) + 1
      BY <1>1, <1>2, <1>3, <2>1, <2>2, <3>2
    <3>3. CASE i > Len(s) + 1
      <4>1. i - Len(a) \in 1 .. Len(b) /\ (i - Len(a)) + 1 = i - Len(s)
        BY <1>1, <1>2, <1>3, <3>3
      <4>2. (a \o b)[i] = b[i - Len(a)] /\ (s \o t)[i] = t[i - Len(s)]
        BY <1>1, <1>2, <1>3, <2>1, <2>2, <3>3
      <4>3. QED
        BY <1>1, <4>1, <4>2
    <3>4. QED
      BY <1>3, <3>1, <3>2, <3>3
  <2>4. QED
    BY <1>1, <1>2, <1>3, <2>1, <2>2, <2>3, SeqEqual
<1>5. QED
  BY <1>1, <1>2, <1>3, <1>4

(* Both buses are free and no call is under way.                           *)
LEMMA InitInv == Init => Inv
BY DEF Init, W!Init, S!Init, Inv, Idle, WireInv, SpiInv, OnWire, OnSpi

(* A new call finds the bus as Idle says and leaves its request with the   *)
(* worker.                                                                 *)
LEMMA WireCallInv ==
    ASSUME NEW d \in WireDevice, NEW op \in Op, NEW bytes \in Seq(Byte), NEW n \in Nat,
           NEW arg \in BOOLEAN \cup {NoArg}, op # "transfer" => arg \in BOOLEAN,
           op = "read" => bytes = <<>>, Inv, Call(d, op, bytes, n, arg)
    PROVE  Inv'
<1>1. d \notin SpiDevice
  BY DeviceAssumption
<1>2. W!Get([data |-> bytes, toRead |-> n, config |-> WireCallConfig(d, op, arg)])
      /\ UNCHANGED spiVars
  BY <1>1 DEF Call
<1>3. call' = [device |-> d, op |-> op, data |-> bytes, toRead |-> n, arg |-> arg]
  BY DEF Call
<1>4. call' \in WireCall /\ call'.device \notin SpiDevice
  BY <1>1, <1>3 DEF WireCall
<1>5. phase = "get" /\ phase' \in {"begin", "request", "done"}
  BY <1>2 DEF W!Get, W!ReadOrDone
<1>6. Idle'
  BY <1>2, <1>4, <1>5 DEF Inv, Idle, OnWire, OnSpi, W!Get, spiVars
<1>7. SpiInv'
  BY <1>4 DEF SpiInv, OnSpi
<1>8. WireInv'
  <2>1. /\ request' = [data |-> bytes, toRead |-> n, config |-> WireCallConfig(d, op, arg)]
        /\ log' = <<>> /\ readBuf' = <<>> /\ written' = 0
        /\ response' = [written |-> 0, read |-> 0]
        /\ phase' = IF bytes # <<>> THEN "begin" ELSE IF n > 0 THEN "request" ELSE "done"
    BY <1>2 DEF W!Get, W!ReadOrDone
  <2>2. phase' = "begin" => WireBegin'
    BY <1>3, <2>1 DEF WireBegin, Writes
  <2>3. phase' = "request" => WireRequest'
    BY <1>3, <2>1, Empty DEF WireRequest, Writes, Reads, Sent, Unread, Data
  <2>4. CASE phase' = "done"
    <3>1. bytes = <<>> /\ n = 0
      BY <2>1, <2>4
    <3>2. WireDone'
      BY <1>3, <2>1, <3>1, Empty DEF WireDone, Writes, Reads, Sent, Data
    <3>3. QED
      BY <1>3, <1>4, <2>1, <2>4, <3>2 DEF WireInv, Data
  <2>5. QED
    BY <1>3, <1>4, <1>5, <2>1, <2>2, <2>3, <2>4 DEF WireInv, Data
<1>9. QED
  BY <1>6, <1>7, <1>8 DEF Inv

(* The same for a call on an SPI device.                                   *)
LEMMA SpiCallInv ==
    ASSUME NEW d \in SpiDevice, NEW op \in Op, NEW bytes \in Seq(Byte), NEW n \in Nat,
           NEW arg \in Byte \cup {NoArg}, op \in {"read", "writeThenRead"} => arg \in Byte,
           Inv, Call(d, op, bytes, n, arg)
    PROVE  Inv'
<1>1. d \notin WireDevice
  BY DeviceAssumption
<1>2. S!Get([data |-> bytes, toRead |-> n, config |-> SpiCallConfig(d, op, arg)])
      /\ UNCHANGED wireVars
  BY <1>1 DEF Call
<1>3. call' = [device |-> d, op |-> op, data |-> bytes, toRead |-> n, arg |-> arg]
  BY DEF Call
<1>4. call' \in SpiCall /\ call'.device \notin WireDevice
  BY <1>1, <1>3 DEF SpiCall
<1>5. phase = "get" /\ phase' = "select"
  BY <1>2 DEF S!Get
<1>6. selected' = {} /\ open' = FALSE /\ rxBuffer' = <<>>
  BY <1>2, <1>5 DEF Inv, Idle, OnWire, OnSpi, S!Get, wireVars
<1>7. WireInv'
  BY <1>4 DEF WireInv, OnWire
<1>8. /\ request' = [data |-> bytes, toRead |-> n, config |-> SpiCallConfig(d, op, arg)]
      /\ log' = <<>> /\ readBuf' = <<>> /\ writeBuf' = bytes /\ sent' = 0
  BY <1>2 DEF S!Get
<1>9. Exchanged'
  <2>1. log' \in Seq(Exchange) /\ Len(log') = 0
    BY <1>8, EmptySeq
  <2>2. /\ sent' \in 0 .. Len(Data') /\ Len(writeBuf') = Len(Data')
        /\ writeBuf' \in Seq(Byte) /\ readBuf' \in Seq(Byte) /\ Len(readBuf') = 0
    BY <1>3, <1>8, Empty, LenProperties DEF Data
  <2>3. ASSUME NEW i \in 1 .. Len(Data')
        PROVE  writeBuf'[i] = Data'[i] /\ ~ (i <= sent')
    BY <1>3, <1>8 DEF Data
  <2>4. QED
    BY <1>3, <1>8, <2>1, <2>2, <2>3 DEF Exchanged, Data
<1>10. SpiInv'
  BY <1>3, <1>4, <1>5, <1>6, <1>8, <1>9 DEF SpiInv, Data
<1>11. QED
  BY <1>5, <1>6, <1>7, <1>10 DEF Inv, Idle
-----------------------------------------------------------------------------
(* A step of the Wire worker leaves the SPI bus alone.                     *)
LEMMA WireStepInv == Inv /\ WireStep => Inv'
<1> SUFFICES ASSUME Inv, WireStep PROVE Inv'
  OBVIOUS
<1>1. /\ OnWire /\ UNCHANGED call /\ selected' = {} /\ open' = FALSE
      /\ call.device \notin SpiDevice
  BY DeviceAssumption DEF WireStep, Inv, Idle, OnWire, OnSpi, spiVars
<1>2. /\ call \in WireCall
      /\ request = [data |-> Data, toRead |-> call.toRead,
                    config |-> WireCallConfig(call.device, call.op, call.arg)]
  BY <1>1 DEF Inv, WireInv
<1>3. /\ call.device \in WireDevice /\ Data \in Seq(Byte) /\ call.toRead \in Nat
      /\ call.op \in Op /\ Len(Data) \in Nat
  BY <1>2, LenProperties DEF WireCall, Data
<1>4. /\ request.data = Data /\ request.toRead = call.toRead
      /\ request.config.device = call.device
  BY <1>2, <1>3 DEF WireCallConfig, WireConfig, Op
<1>5. (call.op = "read" \/ Restart = request.config.restart) /\ Stop = request.config.stop
  BY <1>2, <1>3 DEF WireCallConfig, WireConfig, Op, Restart, Stop
<1>6. Data' = Data /\ Sent' = Sent /\ Restart' = Restart /\ Stop' = Stop /\ Reads' = Reads
      /\ Writes' = Writes /\ Unread' = Unread
  BY <1>1 DEF Data, Sent, Fitting, Restart, Stop, Reads, Writes, Unread
<1>7. SpiInv'
  BY <1>1 DEF SpiInv, OnSpi
<1>8. SUFFICES ASSUME request' = request
               PROVE  /\ phase' \in {"begin", "write", "request", "spin", "read", "done"}
                      /\ phase' \notin {"spin", "read"} => rxBuffer' = <<>>
                      /\ phase' = "begin" => WireBegin'
                      /\ phase' = "write" => WireWrite'
                      /\ phase' = "request" => WireRequest'
                      /\ phase' = "spin" => WireReading' /\ readBuf' = <<>>
                      /\ phase' = "read" =>
                           WireReading' /\ Len(readBuf') + Len(rxBuffer') = call.toRead
                      /\ phase' = "done" => WireDone'
  <2>1. request' = request
    BY DEF WireStep, W!Step, W!BeginTransmission, W!WriteByte, W!EndTransmission,
           W!RequestFrom, W!Spin, W!ReadByte, W!EndRead
  <2>2. phase' # "get" => OnWire'
    BY <1>1 DEF OnWire
  <2>3. QED
    BY <1>1, <1>2, <1>6, <1>7, <2>1, <2>2 DEF Inv, Idle, WireInv, OnWire, Data
<1>9. phase = "begin" => WireBegin
  BY <1>1 DEF Inv, WireInv
<1>10. phase = "write" => WireWrite
  BY <1>1 DEF Inv, WireInv
<1>11. phase = "request" => WireRequest
  BY <1>1 DEF Inv, WireInv
<1>12. phase = "spin" => WireReading /\ readBuf = <<>>
  BY <1>1 DEF Inv, WireInv
<1>13. phase = "read" => WireReading /\ Len(readBuf) + Len(rxBuffer) = call.toRead
  BY <1>1 DEF Inv, WireInv
<1>14. phase \notin {"spin", "read"} => rxBuffer = <<>>
  BY DEF Inv, Idle
<1>15. call.op = "read" => ~ Writes
  BY <1>1 DEF Inv, WireInv, Writes, Data
<1>16. CASE W!BeginTransmission
  BY <1>3, <1>6, <1>9, <1>14, <1>16, Empty, BoundAssumption
     DEF W!BeginTransmission, WireBegin, WireWrite
<1>17. CASE W!WriteByte
  <2>1. /\ phase = "write" /\ written < Len(Data) /\ phase' = "write"
        /\ txBuffer' = IF Len(txBuffer) < TxLimit THEN Append(txBuffer, Data[written + 1])
                       ELSE txBuffer
        /\ written' = written + 1
        /\ UNCHANGED <<readBuf, rxBuffer, log, response>>
    BY <1>4, <1>17 DEF W!WriteByte
  <2>2. /\ txBuffer \in Seq(Byte) /\ written \in 0 .. Len(Data) /\ TxLimit \in Nat
        /\ Len(txBuffer) = IF written <= TxLimit THEN written ELSE TxLimit
        /\ \A i \in 1 .. Len(txBuffer) : txBuffer[i] = Data[i]
    BY <1>10, <2>1, BoundAssumption DEF WireWrite
  <2>3. written + 1 \in 1 .. Len(Data) /\ Data[written + 1] \in Byte
    BY <1>3, <2>1, <2>2, ElementOfSeq
  <2>4. /\ txBuffer' \in Seq(Byte)
        /\ Len(txBuffer') = IF written' <= TxLimit THEN written' ELSE TxLimit
        /\ \A i \in 1 .. Len(txBuffer') : txBuffer'[i] = Data[i]
    <3>1. CASE written < TxLimit
      <4>1. Len(txBuffer) = written /\ txBuffer' = Append(txBuffer, Data[written + 1])
        BY <1>3, <2>1, <2>2, <3>1
      <4>2. /\ txBuffer' \in Seq(Byte) /\ Len(txBuffer') = written + 1
            /\ \A i \in 1 .. written : txBuffer'[i] = txBuffer[i]
            /\ txBuffer'[written + 1] = Data[written + 1]
        BY <2>2, <2>3, <4>1, AppendProperties
      <4>3. ASSUME NEW i \in 1 .. Len(txBuffer') PROVE txBuffer'[i] = Data[i]
        BY <1>3, <2>2, <4>1, <4>2
      <4>4. QED
        BY <1>3, <2>1, <2>2, <3>1, <4>2, <4>3
    <3>2. CASE ~ (written < TxLimit)
      <4>1. Len(txBuffer) = TxLimit /\ txBuffer' = txBuffer
        BY <1>3, <2>1, <2>2, <3>2
      <4>2. QED
        BY <1>3, <2>1, <2>2, <3>2, <4>1
    <3>3. QED
      BY <3>1, <3>2
  <2>5. WireWrite'
    BY <1>3, <1>6, <1>10, <2>1, <2>2, <2>3, <2>4 DEF WireWrite
  <2>6. QED
    BY <1>14, <2>1, <2>5
<1>18. CASE W!EndTransmission
  <2>1. /\ phase = "write" /\ written = Len(Data)
        /\ phase' = IF Reads THEN "request" ELSE "done"
        /\ response' = [response EXCEPT !.written = written]
        /\ log' = Append(log, [op |-> "write", to |-> call.device, bytes |-> txBuffer])
        /\ holder' = IF request.config.restart /\ Reads THEN holder \cup {call.device} ELSE {}
        /\ UNCHANGED <<readBuf, rxBuffer>>
    BY <1>4, <1>18 DEF W!EndTransmission, W!ReadOrDone, W!Bus, W!Kept, Reads
  <2>2. WireWrite
    BY <1>10, <2>1
  <2>3. txBuffer = Fitting
    <3>1. /\ txBuffer \in Seq(Byte)
          /\ Len(txBuffer) = IF Len(Data) <= TxLimit THEN Len(Data) ELSE TxLimit
          /\ \A i \in 1 .. Len(txBuffer) : txBuffer[i] = Data[i]
      BY <2>1, <2>2 DEF WireWrite
    <3>2. CASE Len(Data) <= TxLimit
      <4>1. txBuffer = Data
        BY <1>3, <3>1, <3>2, SeqEqual
      <4>2. QED
        BY <3>2, <4>1 DEF Fitting, Data
    <3>3. CASE ~ (Len(Data) <= TxLimit)
      <4>1. /\ TxLimit \in Nat \ {0} /\ TxLimit <= Len(Data)
            /\ \A i \in 1 .. TxLimit : Data[i] \in Byte
        BY <1>3, <3>3, BoundAssumption, ElementOfSeq
      <4> DEFINE part == SubSeq(Data, 1, TxLimit)
      <4>2. /\ part \in Seq(Byte) /\ Len(part) = TxLimit
            /\ \A i \in 1 .. TxLimit : part[i] = Data[i]
        BY <4>1, SubSeqProperties
      <4> HIDE DEF part
      <4>3. txBuffer = part
        BY <3>1, <3>3, <4>2, SeqEqual
      <4>4. QED
        BY <3>3, <4>3 DEF Fitting, Data, part
    <3>4. QED
      BY <3>2, <3>3
  <2>4. log' = Sent
    BY <2>1, <2>2, <2>3 DEF WireWrite, Sent
  <2>5. response' = Unread
    BY <2>1, <2>2 DEF WireWrite, Unread
  <2>6. CASE Reads
    <3>1. holder' # {} <=> Restart
      BY <1>5, <1>15, <2>1, <2>2, <2>6 DEF WireWrite
    <3>2. WireRequest'
      BY <1>6, <2>1, <2>2, <2>4, <2>5, <2>6, <3>1 DEF WireRequest, WireWrite
    <3>3. QED
      BY <1>14, <2>1, <2>6, <3>2
  <2>7. CASE ~ Reads
    <3>1. call.toRead = 0
      BY <1>3, <2>7 DEF Reads
    <3>2. WireDone'
      BY <1>1, <1>6, <2>1, <2>4, <2>5, <2>7, <3>1 DEF WireDone, Unread
    <3>3. QED
      BY <1>14, <2>1, <2>7, <3>2
  <2>8. QED
    BY <2>6, <2>7
<1>19. ASSUME NEW answer \in BoundedSeq(Byte, MaxRead), W!RequestFrom(answer)
       PROVE  phase' = "spin" /\ WireReading' /\ readBuf' = <<>>
  <2>1. /\ phase = "request" /\ phase' = "spin"
        /\ rxBuffer' = rxBuffer \o answer
        /\ log' = Append(log, [op |-> "read", to |-> call.device, bytes |-> answer])
        /\ holder' = IF request.config.stop THEN {} ELSE holder \cup {call.device}
        /\ UNCHANGED <<readBuf, response>>
    BY <1>4, <1>19 DEF W!RequestFrom, W!Bus
  <2>2. WireRequest /\ rxBuffer = <<>> /\ answer \in Seq(Byte)
    BY <1>11, <1>14, <2>1, Bounded, BoundAssumption
  <2>3. rxBuffer' = answer /\ readBuf \o answer = answer
    BY <2>1, <2>2, ConcatEmptySeq DEF WireRequest
  <2>4. log' = Received(answer)
    <3>1. CASE Writes
      BY <2>1, <2>2, <3>1 DEF WireRequest, Received, Sent
    <3>2. CASE ~ Writes
      BY <2>1, <2>2, <3>2 DEF WireRequest, Received, Sent
    <3>3. QED
      BY <3>1, <3>2
  <2>5. log' = (Sent \o <<[op |-> "read", to |-> call.device,
                           bytes |-> readBuf \o rxBuffer]>>)'
    BY <1>1, <1>6, <2>1, <2>2, <2>3, <2>4 DEF Received
  <2>6. QED
    BY <1>5, <1>6, <2>1, <2>2, <2>3, <2>5, Empty DEF WireRequest, WireReading, Received
<1>20. CASE W!Spin
  <2>1. /\ phase = "spin" /\ phase' = IF Len(rxBuffer) = call.toRead THEN "read" ELSE "spin"
        /\ UNCHANGED <<readBuf, rxBuffer, log, holder, response>>
    BY <1>4, <1>20 DEF W!Spin
  <2>2. WireReading' /\ readBuf' = <<>> /\ Len(readBuf') = 0 /\ Len(rxBuffer') \in Nat
    BY <1>1, <1>6, <1>12, <2>1, LenProperties DEF WireReading, Received
  <2>3. QED
    BY <1>3, <2>1, <2>2
<1>21. CASE W!ReadByte
  <2>1. /\ phase = "read" /\ phase' = "read" /\ Len(readBuf) < call.toRead
        /\ readBuf' = Append(readBuf, Head(rxBuffer)) /\ rxBuffer' = Tail(rxBuffer)
        /\ UNCHANGED <<log, holder, response>>
    BY <1>4, <1>21 DEF W!ReadByte
  <2>2. /\ WireReading /\ rxBuffer \in Seq(Byte) /\ readBuf \in Seq(Byte)
        /\ Len(readBuf) + Len(rxBuffer) = call.toRead
    BY <1>13, <2>1 DEF WireReading
  <2>3. Len(readBuf) \in Nat /\ Len(rxBuffer) \in Nat /\ rxBuffer # <<>>
    BY <2>1, <2>2, LenProperties, Empty
  <2>4. /\ readBuf' \in Seq(Byte) /\ rxBuffer' \in Seq(Byte)
        /\ Len(readBuf') + Len(rxBuffer') = call.toRead
        /\ readBuf' \o rxBuffer' = readBuf \o rxBuffer
    BY <2>1, <2>2, <2>3, MoveHead
  <2>5. QED
    BY <1>1, <1>6, <2>1, <2>2, <2>4 DEF WireReading, Received
<1>22. CASE W!EndRead
  <2>1. /\ phase = "read" /\ phase' = "done" /\ Len(readBuf) = call.toRead
        /\ response' = [response EXCEPT !.read = Len(readBuf)]
        /\ UNCHANGED <<readBuf, rxBuffer, log, holder>>
    BY <1>4, <1>22 DEF W!EndRead, W!AllRead
  <2>2. /\ WireReading /\ rxBuffer \in Seq(Byte) /\ readBuf \in Seq(Byte)
        /\ Len(readBuf) + Len(rxBuffer) = call.toRead
    BY <1>13, <2>1 DEF WireReading
  <2>3. rxBuffer = <<>> /\ readBuf \o rxBuffer = readBuf
    BY <1>3, <2>1, <2>2, LenProperties, Empty, ConcatEmptySeq
  <2>4. QED
    BY <1>1, <1>6, <2>1, <2>2, <2>3 DEF WireReading, WireDone, Received, Unread
<1>23. CASE \E answer \in W!BoundedSeq(Byte, MaxRead) : W!RequestFrom(answer)
  <2>1. phase' = "spin" /\ WireReading' /\ readBuf' = <<>>
    BY <1>19, <1>23 DEF W!BoundedSeq, W!SeqOf, BoundedSeq, SeqOf
  <2>2. QED
    BY <2>1
<1>24. W!Step
  BY DEF WireStep
<1>25. QED
  BY <1>16, <1>17, <1>18, <1>20, <1>21, <1>22, <1>23, <1>24, Zenon DEF W!Step
-----------------------------------------------------------------------------
(* The types of the exchanges, apart from what they hold.                  *)
LEMMA ExchangeTyped ==
    ASSUME NEW s \in Seq(Exchange), NEW x \in Exchange
    PROVE  /\ Append(s, x) \in Seq(Exchange) /\ Len(Append(s, x)) = Len(s) + 1
           /\ \A i \in 1 .. Len(s) : Append(s, x)[i] = s[i]
           /\ Append(s, x)[Len(s) + 1] = x
BY AppendProperties

(* A step of the SPI worker leaves the Wire bus alone; what it exchanges   *)
(* extends what was exchanged before.                                      *)
LEMMA SpiStepInv == Inv /\ SpiStep => Inv'
<1> SUFFICES ASSUME Inv, SpiStep PROVE Inv'
  OBVIOUS
<1>1. /\ OnSpi /\ UNCHANGED call /\ rxBuffer' = <<>> /\ call.device \notin WireDevice
  BY DeviceAssumption DEF SpiStep, Inv, Idle, OnWire, OnSpi, wireVars
<1>2. /\ call \in SpiCall
      /\ call.op \in {"read", "writeThenRead"} => call.arg \in Byte
      /\ request = [data |-> Data, toRead |-> call.toRead,
                    config |-> SpiCallConfig(call.device, call.op, call.arg)]
      /\ phase \in {"select", "begin", "exchange", "deselect", "respond", "done"}
      /\ Exchanged
      /\ phase \in {"select", "begin"} => sent = 0 /\ readBuf = <<>>
      /\ phase \in {"deselect", "respond", "done"} => AllExchanged
      /\ selected = IF phase \in {"begin", "exchange", "deselect"}
                    THEN Target ELSE {}
      /\ open = (phase = "exchange")
  BY <1>1 DEF Inv, SpiInv
<1>3. /\ call.device \in SpiDevice /\ Data \in Seq(Byte) /\ call.toRead \in Nat
      /\ call.op \in Op /\ Len(Data) \in Nat
  BY <1>2, LenProperties DEF SpiCall, Data
<1>4. Fill \in Byte
  BY <1>2, <1>3, FillTyped DEF Fill
<1>5. /\ request.data = Data /\ request.toRead = call.toRead
      /\ request.config.device = call.device /\ request.config.fill = Fill
      /\ request.config.select = (call.device \in ChipSelect)
      /\ Target = {d \in {call.device} : call.device \in ChipSelect}
  BY <1>2, <1>3 DEF Target, SpiCallConfig, SpiConfig, Fill
<1>6. Data' = Data /\ Fill' = Fill /\ Target' = Target
  BY <1>1 DEF Data, Fill, Target
<1>7. WireInv'
  BY <1>1 DEF WireInv, OnWire
<1>8. /\ Len(readBuf) \in Nat /\ sent \in Nat /\ Len(writeBuf) = Len(Data)
  BY <1>2, <1>3, LenProperties DEF Exchanged
<1>9. SUFFICES ASSUME request' = request
               PROVE  /\ phase' \in {"begin", "exchange", "deselect", "respond", "done"}
                      /\ Exchanged'
                      /\ phase' = "begin" => sent' = 0 /\ readBuf' = <<>>
                      /\ phase' \in {"deselect", "respond", "done"} => AllExchanged'
                      /\ selected' = IF phase' \in {"begin", "exchange", "deselect"}
                                     THEN Target ELSE {}
                      /\ open' = (phase' = "exchange")
                      /\ phase' = "done" =>
                           response' = [written |-> sent', read |-> Len(readBuf')]
  <2>1. request' = request
    BY DEF SpiStep, S!Step, S!Select, S!BeginTransaction, S!WriteByte, S!ReadByte,
           S!EndTransaction, S!Deselect, S!Respond
  <2>2. OnSpi'
    BY <1>1, <1>2, <2>1, <1>9 DEF OnSpi
  <2>3. QED
    BY <1>1, <1>2, <1>6, <1>7, <1>9, <2>1, <2>2 DEF Inv, Idle, SpiInv, Data
<1>10. ASSUME UNCHANGED <<writeBuf, readBuf, sent, log>>
       PROVE  Exchanged' /\ (AllExchanged' <=> AllExchanged)
  BY <1>1, <1>6, <1>10, <1>2 DEF Exchanged, AllExchanged
<1>11. CASE S!Select
  BY <1>2, <1>5, <1>10, <1>11 DEF S!Select, S!bufferVars
<1>12. CASE S!BeginTransaction
  BY <1>2, <1>10, <1>12 DEF S!BeginTransaction, S!bufferVars
<1>13. CASE S!EndTransaction
  BY <1>2, <1>5, <1>8, <1>10, <1>13 DEF S!EndTransaction, S!bufferVars, AllExchanged
<1>14. CASE S!Deselect
  BY <1>2, <1>5, <1>6, <1>10, <1>14 DEF S!Deselect, S!Deselected, S!bufferVars
<1>15. CASE S!Respond
  BY <1>2, <1>10, <1>15 DEF S!Respond, S!bufferVars
<1>16. ASSUME NEW rx \in Byte, S!WriteByte(rx)
       PROVE  phase' = "exchange" /\ Exchanged' /\ selected' = Target /\ open'
  <2>1. /\ phase = "exchange" /\ phase' = "exchange" /\ sent < Len(Data) /\ sent' = sent + 1
        /\ selected = Target /\ open = TRUE
        /\ log' = Append(log, [tx |-> writeBuf[sent + 1], rx |-> rx, to |-> selected,
                               open |-> open])
        /\ writeBuf' = [writeBuf EXCEPT ![sent + 1] = rx]
        /\ UNCHANGED <<readBuf, selected, open>>
    BY <1>2, <1>8, <1>16 DEF S!WriteByte, S!Transfer
  <2> DEFINE x == [tx |-> writeBuf[sent + 1], rx |-> rx, to |-> selected, open |-> open]
  <2>2. sent + 1 \in 1 .. Len(writeBuf) /\ Len(readBuf) = 0 /\ Len(log) = sent
    BY <1>2, <1>3, <1>8, <2>1 DEF Exchanged
  <2>3. writeBuf[sent + 1] = Data[sent + 1] /\ Data[sent + 1] \in Byte
    BY <1>2, <1>3, <1>8, <2>1, <2>2, ElementOfSeq DEF Exchanged
  <2>4. x \in Exchange
    BY <1>3, <2>1, <2>3 DEF Exchange, Device, Target
  <2>5. /\ log' \in Seq(Exchange) /\ Len(log') = sent + 1
        /\ \A i \in 1 .. sent : log'[i] = log[i]
        /\ log'[sent + 1] = x
    BY <1>2, <2>1, <2>2, <2>4, ExchangeTyped DEF Exchanged
  <2>6. /\ writeBuf' \in Seq(Byte) /\ Len(writeBuf') = Len(Data)
        /\ \A j \in 1 .. Len(Data) : writeBuf'[j] = IF j = sent + 1 THEN rx ELSE writeBuf[j]
    BY <1>2, <1>8, <2>1, <2>2, ExceptSeq DEF Exchanged
  <2>7. ASSUME NEW i \in 1 .. Len(log')
        PROVE  /\ log'[i].tx = IF i <= Len(Data) THEN Data[i] ELSE Fill
               /\ log'[i].to = Target /\ log'[i].open
    <3>1. CASE i = sent + 1
      BY <1>8, <2>1, <2>2, <2>3, <2>5, <3>1
    <3>2. CASE i # sent + 1
      BY <1>2, <1>8, <2>1, <2>2, <2>5, <3>2 DEF Exchanged
    <3>3. QED
      BY <3>1, <3>2
  <2>8. ASSUME NEW i \in 1 .. Len(Data)
        PROVE  writeBuf'[i] = IF i <= sent' THEN log'[i].rx ELSE Data[i]
    <3>1. CASE i = sent + 1
      BY <1>8, <2>1, <2>5, <2>6, <3>1
    <3>2. CASE i # sent + 1
      <4>1. writeBuf'[i] = writeBuf[i] /\ (i <= sent' <=> i <= sent)
        BY <1>3, <1>8, <2>1, <2>6, <3>2
      <4>2. i <= sent => log'[i] = log[i]
        BY <1>8, <2>5
      <4>3. writeBuf[i] = IF i <= sent THEN log[i].rx ELSE Data[i]
        BY <1>2 DEF Exchanged
      <4>4. QED
        BY <4>1, <4>2, <4>3
    <3>3. QED
      BY <3>1, <3>2
  <2>9. Exchanged'
    BY <1>1, <1>2, <1>3, <1>6, <1>8, <2>1, <2>2, <2>5, <2>6, <2>7, <2>8 DEF Exchanged
  <2>10. QED
    BY <2>1, <2>9
<1>17. ASSUME NEW rx \in Byte, S!ReadByte(rx)
       PROVE  phase' = "exchange" /\ Exchanged' /\ selected' = Target /\ open'
  <2>1. /\ phase = "exchange" /\ phase' = "exchange" /\ sent = Len(Data)
        /\ Len(readBuf) < call.toRead
        /\ selected = Target /\ open = TRUE
        /\ log' = Append(log, [tx |-> Fill, rx |-> rx, to |-> selected, open |-> open])
        /\ readBuf' = Append(readBuf, rx)
        /\ UNCHANGED <<writeBuf, sent, selected, open>>
    BY <1>2, <1>5, <1>8, <1>17 DEF S!ReadByte, S!Transfer
  <2> DEFINE x == [tx |-> Fill, rx |-> rx, to |-> selected, open |-> open]
  <2>2. x \in Exchange /\ Len(log) = Len(Data) + Len(readBuf)
    BY <1>2, <1>3, <1>4, <2>1 DEF Exchange, Device, Exchanged, Target
  <2>3. /\ log' \in Seq(Exchange) /\ Len(log') = Len(log) + 1
        /\ \A i \in 1 .. Len(log) : log'[i] = log[i]
        /\ log'[Len(log) + 1] = x
    BY ZenonT(60), <1>2, <2>1, <2>2, ExchangeTyped DEF Exchanged
  <2>4. /\ readBuf' \in Seq(Byte) /\ Len(readBuf') = Len(readBuf) + 1
        /\ \A i \in 1 .. Len(readBuf) : readBuf'[i] = readBuf[i]
        /\ readBuf'[Len(readBuf) + 1] = rx
    BY <1>2, <2>1, AppendProperties DEF Exchanged
  <2>5. ASSUME NEW i \in 1 .. Len(log')
        PROVE  /\ log'[i].tx = IF i <= Len(Data) THEN Data[i] ELSE Fill
               /\ log'[i].to = Target /\ log'[i].open
    <3>1. CASE i = Len(log) + 1
      BY <1>3, <1>8, <2>1, <2>2, <2>3, <3>1
    <3>2. CASE i # Len(log) + 1
      <4>1. i \in 1 .. Len(log) /\ log'[i] = log[i]
        BY <1>3, <1>8, <2>2, <2>3, <3>2
      <4>2. QED
        BY <1>2, <4>1 DEF Exchanged
    <3>3. QED
      BY <3>1, <3>2
  <2>6. ASSUME NEW i \in 1 .. Len(Data)
        PROVE  writeBuf'[i] = IF i <= sent' THEN log'[i].rx ELSE Data[i]
    BY <1>2, <1>3, <1>8, <2>1, <2>2, <2>3 DEF Exchanged
  <2>7. ASSUME NEW i \in 1 .. Len(readBuf')
        PROVE  readBuf'[i] = log'[Len(Data) + i].rx
    <3>1. CASE i = Len(readBuf) + 1
      BY <1>3, <1>8, <2>2, <2>3, <2>4, <3>1
    <3>2. CASE i # Len(readBuf) + 1
      <4>1. i \in 1 .. Len(readBuf) /\ Len(Data) + i \in 1 .. Len(log)
        BY <1>3, <1>8, <2>2, <2>4, <3>2
      <4>2. QED
        BY <1>2, <2>3, <2>4, <4>1 DEF Exchanged
    <3>3. QED
      BY <3>1, <3>2
  <2>8. /\ sent' \in 0 .. Len(Data) /\ writeBuf' \in Seq(Byte)
        /\ Len(writeBuf') = Len(Data) /\ Len(readBuf') <= call.toRead
        /\ Len(log') = sent' + Len(readBuf')
    BY <1>2, <1>3, <1>8, <2>1, <2>2, <2>3, <2>4 DEF Exchanged
  <2> HIDE DEF x
  <2>9. Exchanged'
    BY ZenonT(60), <1>1, <1>6, <2>1, <2>3, <2>4, <2>5, <2>6, <2>7, <2>8 DEF Exchanged
  <2>10. QED
    BY <2>1, <2>9
<1>18. CASE \E rx \in Byte : S!WriteByte(rx) \/ S!ReadByte(rx)
  <2>1. phase' = "exchange" /\ Exchanged' /\ selected' = Target /\ open'
    BY <1>16, <1>17, <1>18
  <2>2. open' = TRUE
    BY <1>2, <1>18 DEF S!WriteByte, S!ReadByte
  <2>3. QED
    BY <2>1, <2>2
<1>19. S!Step
  BY DEF SpiStep
<1>20. QED
  BY <1>11, <1>12, <1>13, <1>14, <1>15, <1>18, <1>19, Zenon DEF S!Step

(* The caller leaves both buses idle.                                      *)
LEMMA ReturnInv == Inv /\ Return => Inv'
BY DEF Return, Inv, Idle, WireInv, SpiInv, OnWire, OnSpi

(* A request is handled in the same way whoever makes it.                  *)
LEMMA CallInv ==
    ASSUME NEW d \in Device, NEW bytes \in BoundedSeq(Byte, MaxWrite), NEW n \in 0 .. MaxRead
    PROVE  Inv /\ (Transfer(d, bytes, n) \/ WriteThenRead(d, bytes, n) \/ Write(d, bytes)
                   \/ Read(d, n)) => Inv'
<1> SUFFICES ASSUME Inv PROVE Transfer(d, bytes, n) \/ WriteThenRead(d, bytes, n)
                              \/ Write(d, bytes) \/ Read(d, n) => Inv'
  OBVIOUS
<1>1. bytes \in Seq(Byte) /\ <<>> \in Seq(Byte) /\ n \in Nat /\ 0 \in Nat
  BY BoundAssumption, Bounded, Empty
<1>2. CASE d \in WireDevice
  <2>1. Arg(d) = BOOLEAN
    BY <1>2 DEF Arg
  <2>2. Transfer(d, bytes, n) => Inv'
    BY <1>1, <1>2, WireCallInv DEF Transfer, Op
  <2>3. WriteThenRead(d, bytes, n) => Inv'
    BY <1>1, <1>2, <2>1, WireCallInv DEF WriteThenRead, Op
  <2>4. Write(d, bytes) => Inv'
    BY <1>1, <1>2, WireCallInv DEF Write, Op
  <2>5. Read(d, n) => Inv'
    BY <1>1, <1>2, <2>1, WireCallInv DEF Read, Op
  <2>6. QED
    BY <2>2, <2>3, <2>4, <2>5
<1>3. CASE d \in SpiDevice
  <2>1. d \notin WireDevice /\ Arg(d) = Byte
    BY <1>3, DeviceAssumption DEF Arg
  <2>2. Transfer(d, bytes, n) => Inv'
    BY <1>1, <1>3, SpiCallInv DEF Transfer, Op
  <2>3. WriteThenRead(d, bytes, n) => Inv'
    BY <1>1, <1>3, <2>1, SpiCallInv DEF WriteThenRead, Op
  <2>4. Write(d, bytes) => Inv'
    BY <1>1, <1>3, <2>1, SpiCallInv DEF Write, Op
  <2>5. Read(d, n) => Inv'
    BY <1>1, <1>3, <2>1, SpiCallInv DEF Read, Op
  <2>6. QED
    BY <2>2, <2>3, <2>4, <2>5
<1>4. QED
  BY <1>2, <1>3 DEF Device
-----------------------------------------------------------------------------
(* Every step preserves the invariant.                                     *)
LEMMA StepInv == Inv /\ [Next]_vars => Inv'
<1> SUFFICES ASSUME Inv, [Next]_vars PROVE Inv'
  OBVIOUS
<1>1. CASE \E d \in Device, bytes \in BoundedSeq(Byte, MaxWrite), n \in 0 .. MaxRead :
             Transfer(d, bytes, n) \/ WriteThenRead(d, bytes, n)
  BY <1>1, CallInv
<1>2. CASE \E d \in Device, bytes \in BoundedSeq(Byte, MaxWrite) : Write(d, bytes)
  <2>1. 0 \in 0 .. MaxRead
    BY BoundAssumption
  <2>2. QED
    BY <1>2, <2>1, CallInv
<1>3. CASE \E d \in Device, n \in 0 .. MaxRead : Read(d, n)
  <2>1. <<>> \in BoundedSeq(Byte, MaxWrite)
    BY BoundAssumption DEF BoundedSeq, SeqOf
  <2>2. QED
    BY <1>3, <2>1, CallInv
<1>4. CASE BusStep
  BY <1>4, WireStepInv, SpiStepInv, ReturnInv DEF BusStep
<1>5. CASE UNCHANGED vars
  <2> USE <1>5 DEF vars, wireVars, spiVars
  <2>1. Idle'
    BY DEF Inv, Idle, OnWire, OnSpi
  <2>2. /\ Data' = Data /\ Sent' = Sent /\ Restart' = Restart /\ Stop' = Stop
        /\ Reads' = Reads /\ Writes' = Writes /\ Unread' = Unread /\ Fill' = Fill
        /\ Target' = Target /\ OnWire' = OnWire /\ OnSpi' = OnSpi
    BY DEF Data, Sent, Fitting, Restart, Stop, Reads, Writes, Unread, Fill, Target,
           OnWire, OnSpi
  <2>3. /\ WireBegin' = WireBegin /\ WireWrite' = WireWrite
        /\ WireRequest' = WireRequest /\ WireReading' = WireReading /\ WireDone' = WireDone
    BY <2>2 DEF WireBegin, WireWrite, WireRequest, WireReading, WireDone, Received
  <2>4. WireInv'
    BY <2>2, <2>3 DEF Inv, WireInv
  <2>5. Exchanged' = Exchanged /\ AllExchanged' = AllExchanged
    BY <2>2 DEF Exchanged, AllExchanged
  <2>6. SpiInv'
    BY <2>2, <2>5 DEF Inv, SpiInv
  <2>7. QED
    BY <2>1, <2>4, <2>6 DEF Inv
<1>6. QED
  BY <1>1, <1>2, <1>3, <1>4, <1>5 DEF Next

(* Idle, WireInv and SpiInv hold throughout: what processWireIoRequest()   *)
(* and processSpiIoRequest() have done to the buses and the buffers is, at *)
(* every statement, what the call under way asked for.                     *)
THEOREM Invariance == Spec => []Inv
<1>1. QED
  BY InitInv, StepInv, PTL DEF Spec

(* A completed call on a Wire device sent the bytes the library had room   *)
(* for, read what its device answered and reports both counts, whatever    *)
(* calls came before it.                                                   *)
THEOREM WireCarriedOut == Spec => []RequestCarriedOut
<1>1. Inv => RequestCarriedOut
  <2> SUFFICES ASSUME Inv, OnWire, phase = "done"
               PROVE  /\ log = IF Reads THEN Received(readBuf) ELSE Sent
                      /\ response = [written |-> Len(Data), read |-> call.toRead]
                      /\ rxBuffer = <<>> /\ Sent \o <<>> = Sent
    BY DEF RequestCarriedOut, Received, Sent, Data
  <2>1. Sent \o <<>> = Sent
    BY DEF Sent
  <2>2. QED
    BY <2>1 DEF Inv, Idle, WireInv, WireDone
<1>2. QED
  BY <1>1, Invariance, PTL

(* The bus is kept between a write and its read when restart says so, and  *)
(* held after a call only by a read that was told not to stop.             *)
THEOREM ReleasedAfterCall == Spec => []BusReleased
<1>1. Inv => BusReleased
  BY DEF Inv, WireInv, WireRequest, WireDone, BusReleased, Restart, Stop
<1>2. QED
  BY <1>1, Invariance, PTL

(* The buffers of a completed SPI call hold what the device sent in answer *)
(* to the caller's bytes followed by the fill symbols.                     *)
THEOREM ByteForByte == Spec => []FullDuplex
<1>1. Inv => FullDuplex
  <2> SUFFICES ASSUME Inv, OnSpi, phase = "done"
               PROVE  /\ Len(log) = Len(Data) + call.toRead
                      /\ \A i \in DOMAIN log : log[i].tx = IF i <= Len(Data) THEN Data[i] ELSE Fill
                      /\ writeBuf \o readBuf = [i \in DOMAIN log |-> log[i].rx]
                      /\ response = [written |-> Len(Data), read |-> call.toRead]
    BY DEF FullDuplex, Data, Fill
  <2>1. /\ Exchanged /\ AllExchanged /\ Data \in Seq(Byte)
        /\ response = [written |-> sent, read |-> Len(readBuf)]
    BY DEF Inv, SpiInv, SpiCall, Data
  <2>2. /\ Len(Data) \in Nat /\ Len(readBuf) \in Nat /\ Len(log) = Len(Data) + Len(readBuf)
        /\ DOMAIN log = 1 .. Len(log)
        /\ writeBuf \in Seq(Byte) /\ readBuf \in Seq(Byte) /\ Len(writeBuf) = Len(Data)
    BY <2>1, LenProperties DEF Exchanged, AllExchanged
  <2> DEFINE rx == [i \in 1 .. Len(log) |-> log[i].rx]
             bufs == writeBuf \o readBuf
  <2>3. /\ bufs \in Seq(Byte) /\ Len(bufs) = Len(Data) + Len(readBuf)
        /\ \A i \in 1 .. Len(Data) + Len(readBuf) :
             bufs[i] = IF i <= Len(Data) THEN writeBuf[i] ELSE readBuf[i - Len(Data)]
    <3>1. /\ bufs \in Seq(Byte) /\ Len(bufs) = Len(writeBuf) + Len(readBuf)
          /\ \A i \in 1 .. Len(writeBuf) + Len(readBuf) :
               bufs[i] = IF i <= Len(writeBuf) THEN writeBuf[i] ELSE readBuf[i - Len(writeBuf)]
      BY <2>2, ConcatProperties
    <3> HIDE DEF bufs
    <3>2. QED
      BY <2>2, <3>1
  <2> HIDE DEF bufs
  <2>4. ASSUME NEW i \in 1 .. Len(log) PROVE bufs[i] = log[i].rx
    <3>1. CASE i <= Len(Data)
      BY <2>1, <2>2, <2>3, <3>1 DEF Exchanged, AllExchanged
    <3>2. CASE i > Len(Data)
      <4>1. i - Len(Data) \in 1 .. Len(readBuf) /\ Len(Data) + (i - Len(Data)) = i
        BY <2>2, <3>2
      <4>2. readBuf[i - Len(Data)] = log[Len(Data) + (i - Len(Data))].rx
        BY <2>1, <4>1 DEF Exchanged
      <4>3. QED
        BY <2>2, <2>3, <3>2, <4>1, <4>2
    <3>3. QED
      BY <2>2, <3>1, <3>2
  <2>5. bufs \in [1 .. Len(log) -> Byte]
    BY <2>2, <2>3, LenProperties
  <2>6. bufs = rx
    BY <2>4, <2>5
  <2>7. QED
    BY <2>1, <2>2, <2>6 DEF Exchanged, AllExchanged, bufs
<1>2. QED
  BY <1>1, Invariance, PTL

(* Every byte of an SPI call goes to its device or to none, in a           *)
(* transaction.                                                            *)
THEOREM SelectedAlone == Spec => []OnlyItsDevice
<1>1. Inv => OnlyItsDevice
  <2> SUFFICES ASSUME Inv, OnSpi
               PROVE  \A i \in DOMAIN log : log[i].to = Target /\ log[i].open
    BY DEF OnlyItsDevice, Target
  <2>1. Exchanged
    BY DEF Inv, SpiInv
  <2>2. DOMAIN log = 1 .. Len(log)
    BY <2>1, LenProperties DEF Exchanged
  <2>3. QED
    BY <2>1, <2>2 DEF Exchanged
<1>2. QED
  BY <1>1, Invariance, PTL
=============================================================================
