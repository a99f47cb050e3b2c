--------------------------- MODULE CircularBuffer ---------------------------
(***************************************************************************)
(* threading/CircularBuffer.hpp: the ring of Size cells behind every       *)
(* blocking sink.  A buffer is the record of the class's fields; _size is  *)
(* the constant Size.                                                      *)
(*                                                                         *)
(* Contents is the abstraction function: the sequence of the stored        *)
(* elements, oldest first.                                                 *)
(***************************************************************************)
EXTENDS Naturals, Sequences

CONSTANTS Value,    \* the elements of type T that are exchanged
          Size,     \* _size, the number of cells
          NoValue   \* what an uninitialised cell or T{0} reads as

ASSUME ValueAssumption == NoValue \notin Value
ASSUME SizeAssumption == Size \in Nat \ {0}

Index == 0 .. Size - 1

Buffer == [data : [Index -> Value \cup {NoValue}],
           head : Index,
           tail : Index,
           num  : 0 .. Size]

\* The constructor: `new T[size]` leaves the cells of a scalar T uninitialised.
EmptyBuffer == [data |-> [i \in Index |-> NoValue],
                head |-> 0,
                tail |-> 0,
                num  |-> 0]

NextIndex(i) == (i + 1) % Size

IsFull(b) == b.num = Size

IsEmpty(b) == b.num = 0

\* Mutant: the head is not advanced.
StoreInPlace(b, v) ==
    IF IsFull(b) THEN b
    ELSE [b EXCEPT !.data[b.head] = v, !.num = @ + 1]

\* store(): a full buffer silently ignores the element.
Store(b, v) ==
    IF IsFull(b) THEN b
    ELSE [data |-> [b.data EXCEPT ![b.head] = v],
          head |-> NextIndex(b.head),
          tail |-> b.tail,
          num  |-> b.num + 1]

\* read(), the value it returns; an empty buffer gives T{0}.
ReadValue(b) == IF IsEmpty(b) THEN NoValue ELSE b.data[b.tail]

\* read(), the buffer it leaves.
AfterRead(b) ==
    IF IsEmpty(b) THEN b
    ELSE [data |-> b.data,
          head |-> b.head,
          tail |-> NextIndex(b.tail),
          num  |-> b.num - 1]

-----------------------------------------------------------------------------

\* The cell k places after the tail t.
Slot(t, k) == IF t + k < Size THEN t + k ELSE t + k - Size

Contents(b) == [i \in 1 .. b.num |-> b.data[Slot(b.tail, i - 1)]]

\* The elements lie between tail and head, and every one of them was stored.
WellFormed(b) ==
    /\ b \in Buffer
    /\ b.head = Slot(b.tail, b.num)
    /\ \A k \in 0 .. b.num - 1 : b.data[Slot(b.tail, k)] \in Value
=============================================================================
