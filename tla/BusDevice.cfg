\* Two Wire and two SPI devices, up to three bytes to write, of which two fit,
\* and two to read.
SPECIFICATION FairSpec
CONSTANTS
    w1 = w1
    w2 = w2
    s1 = s1
    s2 = s2
    b0 = b0
    b1 = b1
    WireDevice = {w1, w2}
    SpiDevice = {s1, s2}
    ArgsOf <- Args
    Byte = {b0, b1}
    ChipSelect = {s1}
    TxLimit = 2
    DefaultFill = b1
    MaxWrite = 3
    MaxRead = 2
    NoArg = NoArg
INVARIANTS
    RequestCarriedOut
    BusReleased
    FullDuplex
    OnlyItsDevice
PROPERTIES
    CallsComplete
