---------------------------- MODULE SharedProofs ----------------------------
(***************************************************************************)
(* Safety of Shared for any threads, any number of pushes and any size of  *)
(* the mailbox: the inductive invariant Inv.                               *)
(***************************************************************************)
EXTENDS Shared, FiniteSetTheorems, SequenceTheorems, TLAPS

\* The threads that have a block of the mailbox.
Holding == {"put", "freeDiscarded", "freePopped"}
Holders == {t \in Thread : pc[t] \in Holding}

(* A thread is in a call of its own, and one that never pushed is in none. *)
PcOfRole ==
    /\ \A p \in Pusher : pc[p] # "freePopped" /\ (pc[p] # "idle" => pushed[p] > 0)
    /\ \A c \in Popper : pc[c] \in {"idle", "freePopped"}
    /\ popped = <<>> => \A c \in Popper : pc[c] = "idle"

\* A sequence of values in the order in which each thread pushed them.
InOrder(s) ==
    \A i, j \in DOMAIN s : i < j /\ s[i][1] = s[j][1] => s[i][2] < s[j][2]

\* No value is newer than the last push of its thread, or than the one before it
\* as long as that push is under way.
Begun(s, at, count) ==
    \A i \in DOMAIN s :
        /\ s[i][2] <= count[s[i][1]]
        /\ at[s[i][1]] # "idle" => s[i][2] < count[s[i][1]]

\* No value is newer than v, the one peek() returns.
NotAhead(s, v) == \A i \in DOMAIN s : v[1] = s[i][1] => s[i][2] <= v[2]

(* What peek() returns is the value a thread is about to insert, unless    *)
(* another thread has overwritten it.                                      *)
LatestPushed ==
    \A p \in Pusher : pc[p] \in {"alloc", "put"} /\ latest[1] = p => latest[2] = pushed[p]

\* The k values that end with the n-th push of p.
Window(p, n, k) == [i \in 1 .. k |-> <<p, n - k + i>>]

Least(m, n) == IF m < n THEN m ELSE n

Alone(p) == popped = <<>> /\ \A q \in Pusher \ {p} : pushed[q] = 0

(* What the mailbox holds at each place of push(), with one thread only.   *)
LonePushOf(p) ==
    LET n == pushed[p]
    IN  /\ pc[p] = "idle" => queue = Window(p, n, Least(n, QueueSize))
        /\ pc[p] = "testFull" => queue = Window(p, n - 1, Least(n - 1, QueueSize))
        /\ pc[p] = "discard" => n > QueueSize /\ queue = Window(p, n - 1, QueueSize)
        /\ pc[p] \in {"freeDiscarded", "assign", "alloc", "put"}
             => queue = Window(p, n - 1, Least(n - 1, QueueSize - 1))

LonePush == \A p \in Pusher : Alone(p) => LonePushOf(p)

BlocksHeld ==
    /\ IsFiniteSet(Holders)
    /\ free + Len(queue) + Cardinality(Holders) = QueueSize

AllInOrder ==
    /\ InOrder(popped \o queue)
    /\ Begun(popped \o queue, pc, pushed)
    /\ NotAhead(popped \o queue, latest)
    /\ LatestPushed

Inv == TypeOK /\ PcOfRole /\ BlocksHeld /\ AllInOrder /\ LonePush

-----------------------------------------------------------------------------

(* A step moves one thread, so that at most one block changes hands.       *)
LEMMA HoldersStep ==
  ASSUME TypeOK, IsFiniteSet(Holders), NEW t \in Thread, NEW from, NEW to,
         Goto(t, from, to)
  PROVE  /\ IsFiniteSet(Holders')
         /\ Cardinality(Holders) \in Nat /\ Cardinality(Holders') \in Nat
         /\ (from \in Holding <=> to \in Holding)
              => Cardinality(Holders') = Cardinality(Holders)
         /\ from \notin Holding /\ to \in Holding
              => Cardinality(Holders') = Cardinality(Holders) + 1
         /\ from \in Holding /\ to \notin Holding
              => Cardinality(Holders') = Cardinality(Holders) - 1
<1>1. Cardinality(Holders) \in Nat
  BY FS_CardinalityType
<1>2. t \in Holders <=> from \in Holding
  BY DEF Holders, Goto
<1>3. CASE to \in Holding
  <2>1. Holders' = Holders \cup {t}
    BY <1>3 DEF Holders, TypeOK, Goto
  <2>2. /\ IsFiniteSet(Holders \cup {t})
        /\ Cardinality(Holders \cup {t})
           = IF t \in Holders THEN Cardinality(Holders) ELSE Cardinality(Holders) + 1
    BY FS_AddElement
  <2>3. QED
    BY <1>1, <1>2, <1>3, <2>1, <2>2
<1>4. CASE to \notin Holding
  <2>1. Holders' = Holders \ {t}
    BY <1>4 DEF Holders, TypeOK, Goto
  <2>2. /\ IsFiniteSet(Holders \ {t})
        /\ Cardinality(Holders \ {t})
           = IF t \in Holders THEN Cardinality(Holders) - 1 ELSE Cardinality(Holders)
    BY FS_RemoveElement
  <2>3. Cardinality(Holders') \in Nat
    BY <2>1, <2>2, FS_CardinalityType
  <2>4. QED
    BY <1>1, <1>2, <1>4, <2>1, <2>2, <2>3
<1>5. QED
  BY <1>3, <1>4

(* Taking the oldest value out of the mailbox without popping it.          *)
LEMMA DropHead ==
  ASSUME NEW S, NEW a \in Seq(S), NEW b \in Seq(S), b # <<>>
  PROVE  /\ DOMAIN (a \o b) = 1 .. Len(a) + Len(b)
         /\ DOMAIN (a \o Tail(b)) = 1 .. Len(a) + Len(b) - 1
         /\ Len(b) > 0
         /\ \A i \in 1 .. Len(a) + Len(b) - 1 :
              (a \o Tail(b))[i] = (a \o b)[IF i <= Len(a) THEN i ELSE i + 1]
<1>1. /\ Tail(b) \in Seq(S) /\ Len(Tail(b)) = Len(b) - 1 /\ Len(b) > 0
      /\ \A i \in 1 .. Len(b) - 1 : Tail(b)[i] = b[i + 1]
  BY HeadTailProperties, EmptySeq
<1>2. DOMAIN (a \o b) = 1 .. Len(a) + Len(b)
  BY ConcatProperties, LenProperties
<1>3. DOMAIN (a \o Tail(b)) = 1 .. Len(a) + Len(b) - 1
  BY <1>1, ConcatProperties, LenProperties
<1>4. ASSUME NEW i \in 1 .. Len(a) + Len(b) - 1
      PROVE  (a \o Tail(b))[i] = (a \o b)[IF i <= Len(a) THEN i ELSE i + 1]
  BY <1>1, ConcatProperties, LenProperties
<1>5. QED
  BY <1>1, <1>2, <1>3, <1>4

(* Moving the oldest value of the mailbox to the popped ones.              *)
LEMMA MoveHead ==
  ASSUME NEW S, NEW a \in Seq(S), NEW b \in Seq(S), b # <<>>
  PROVE  Append(a, Head(b)) \o Tail(b) = a \o b
<1>1. /\ Head(b) \in S /\ Tail(b) \in Seq(S) /\ b = <<Head(b)>> \o Tail(b)
  BY HeadTailProperties
<1>2. Append(a, Head(b)) = a \o <<Head(b)>>
  BY <1>1, AppendIsConcat
<1>3. QED
  BY <1>1, <1>2, ConcatAssociative

(* Inserting a value makes it the newest of all.                           *)
LEMMA AddLast ==
  ASSUME NEW S, NEW a \in Seq(S), NEW b \in Seq(S), NEW e \in S
  PROVE  LET s == a \o b
             t == a \o Append(b, e)
         IN  /\ DOMAIN s = 1 .. Len(a) + Len(b)
             /\ DOMAIN t = 1 .. Len(a) + Len(b) + 1
             /\ t[Len(a) + Len(b) + 1] = e
             /\ \A i \in 1 .. Len(a) + Len(b) : t[i] = s[i]
<1>1. /\ Append(b, e) \in Seq(S) /\ Len(Append(b, e)) = Len(b) + 1
      /\ \A i \in 1 .. Len(b) : Append(b, e)[i] = b[i]
      /\ Append(b, e)[Len(b) + 1] = e
  BY AppendProperties
<1>2. QED
  BY <1>1, ConcatProperties, LenProperties

(* Windows slide by one: the oldest value goes, the next push comes.       *)
LEMMA Windows ==
  ASSUME NEW p, NEW n \in Nat, NEW k \in Nat
  PROVE  /\ Window(p, n, k) \in Seq({p} \X Int)
         /\ Len(Window(p, n, k)) = k
         /\ Append(Window(p, n, k), <<p, n + 1>>) = Window(p, n + 1, k + 1)
         /\ k > 0 => Tail(Window(p, n, k)) = Window(p, n, k - 1)
<1>1. ASSUME NEW m \in Nat, NEW j \in Nat
      PROVE  Window(p, m, j) \in Seq({p} \X Int) /\ Len(Window(p, m, j)) = j
  <2>1. Window(p, m, j) \in [1 .. j -> {p} \X Int]
    BY DEF Window
  <2>2. QED
    BY <2>1, SeqDef, LenProperties
<1>2. Append(Window(p, n, k), <<p, n + 1>>) = Window(p, n + 1, k + 1)
  <2>1. <<p, n + 1>> \in {p} \X Int
    OBVIOUS
  <2>2. QED
    BY <1>1, <2>1, AppendProperties, SeqEqual DEF Window
<1>3. ASSUME k > 0 PROVE Tail(Window(p, n, k)) = Window(p, n, k - 1)
  BY <1>1, <1>3, HeadTailProperties, EmptySeq, SeqEqual DEF Window
<1>4. QED
  BY <1>1, <1>2, <1>3

(* One more push widens a window by its value.                              *)
LEMMA WindowGrows ==
  ASSUME NEW p, NEW n \in Nat, NEW k \in Nat
  PROVE  Append(Window(p, n, k), <<p, n + 1>>) = Window(p, n + 1, k + 1)
BY Windows

(* Nothing was pushed.                                                     *)
LEMMA InitInv == Init => Inv
<1> SUFFICES ASSUME Init PROVE Inv
  OBVIOUS
<1> USE ThreadAssumption, QueueAssumption, PushAssumption DEF Init
<1>1. TypeOK
  BY EmptySeq DEF TypeOK, Elements, Thread
<1>2. PcOfRole
  BY DEF PcOfRole, Thread
<1>3. BlocksHeld
  <2>1. Holders = {}
    BY DEF Holders, Holding
  <2>2. QED
    BY <2>1, FS_EmptySet DEF BlocksHeld
<1>4. AllInOrder
  <2>1. popped \o queue = <<>>
    BY EmptySeq, ConcatEmptySeq
  <2>2. QED
    BY <2>1 DEF AllInOrder, InOrder, Begun, NotAhead, LatestPushed, Thread
<1>5. LonePush
  <2>1. \A p \in Pusher : Window(p, 0, 0) = <<>>
    BY EmptySeq DEF Window
  <2>2. QED
    BY <2>1 DEF LonePush, LonePushOf, Least, Thread
<1>6. QED
  BY <1>1, <1>2, <1>3, <1>4, <1>5 DEF Inv

(* The values are pairs of a thread and the number of its push.            *)
LEMMA AllTyped ==
  ASSUME NEW a \in Seq(Elements), NEW b \in Seq(Elements)
  PROVE  \A i \in DOMAIN (a \o b) :
            (a \o b)[i][1] \in Pusher /\ (a \o b)[i][2] \in Nat
<1>1. a \o b \in Seq(Elements)
  BY ConcatProperties
<1>2. ASSUME NEW i \in DOMAIN (a \o b)
      PROVE  (a \o b)[i] \in Elements
  BY <1>1, ElementOfSeq, LenProperties
<1>3. QED
  BY <1>1, <1>2, PushAssumption DEF Elements

(* The bound holds on while threads begin a push or return from it.        *)
LEMMA BegunStays ==
  ASSUME NEW s, \A i \in DOMAIN s : s[i][1] \in Pusher /\ s[i][2] \in Nat,
         NEW at, NEW after, NEW count \in [Pusher -> Int], NEW count2 \in [Pusher -> Int],
         \A q \in Pusher : \/ count2[q] = count[q] + 1
                           \/ count2[q] = count[q] /\ (after[q] # "idle" => at[q] # "idle"),
         Begun(s, at, count)
  PROVE  Begun(s, after, count2)
BY DEF Begun

(* Discarding the oldest value keeps the order of the others.              *)
LEMMA DropKeepsOrder ==
  ASSUME NEW a \in Seq(Elements), NEW b \in Seq(Elements), b # <<>>,
         NEW at, NEW count, NEW v, InOrder(a \o b), Begun(a \o b, at, count),
         NotAhead(a \o b, v)
  PROVE  /\ InOrder(a \o Tail(b))
         /\ Begun(a \o Tail(b), at, count)
         /\ NotAhead(a \o Tail(b), v)
<1> DEFINE s == a \o b
           t == a \o Tail(b)
           from(i) == IF i <= Len(a) THEN i ELSE i + 1
<1>1. Len(a) \in Nat /\ Len(b) \in Nat
  BY LenProperties
<1>2. \A i \in DOMAIN t : i \in Int /\ from(i) \in DOMAIN s /\ t[i] = s[from(i)]
  BY <1>1, DropHead
<1>3. \A i, j \in DOMAIN t : i < j => from(i) < from(j)
  BY <1>1, <1>2
<1> HIDE DEF s, t, from
<1>4. InOrder(t)
  BY <1>2, <1>3 DEF InOrder, s
<1>5. Begun(t, at, count) /\ NotAhead(t, v)
  BY <1>2 DEF Begun, NotAhead, s
<1>6. QED
  BY <1>4, <1>5 DEF t

(* Inserting the value of a push under way, which then returns.            *)
LEMMA AddKeepsOrder ==
  ASSUME NEW a \in Seq(Elements), NEW b \in Seq(Elements), NEW p \in Pusher,
         NEW at, NEW after, after[p] = "idle", \A q \in Pusher \ {p} : after[q] = at[q],
         NEW count \in [Pusher -> 0 .. MaxPushes], NEW v,
         at[p] # "idle", count[p] > 0, v[1] = p => v[2] = count[p],
         InOrder(a \o b), Begun(a \o b, at, count), NotAhead(a \o b, v)
  PROVE  LET t == a \o Append(b, <<p, count[p]>>)
         IN  /\ InOrder(t)
             /\ Begun(t, after, count)
             /\ NotAhead(t, v)
<1> DEFINE e == <<p, count[p]>>
           s == a \o b
           t == a \o Append(b, e)
           n == Len(a) + Len(b)
<1>1. e \in Elements /\ count[p] \in Nat
  BY PushAssumption DEF Elements
<1>2. n \in Nat /\ DOMAIN s = 1 .. n /\ DOMAIN t = 1 .. n + 1
  BY <1>1, AddLast, LenProperties
<1>3. t[n + 1] = e /\ \A i \in 1 .. n : t[i] = s[i]
  BY <1>1, AddLast
<1>4. \A i \in 1 .. n : s[i][1] \in Pusher /\ s[i][2] \in Nat
  BY <1>2, AllTyped
<1>5. \A i \in 1 .. n : s[i][1] = p => s[i][2] < count[p]
  BY <1>2 DEF Begun
<1> HIDE DEF s, t, n
<1>6. InOrder(t)
  <2>1. \A i, j \in 1 .. n : i < j /\ s[i][1] = s[j][1] => s[i][2] < s[j][2]
    BY <1>2 DEF InOrder, s
  <2>2. SUFFICES ASSUME NEW i \in 1 .. n + 1, NEW j \in 1 .. n + 1, i < j, t[i][1] = t[j][1]
                 PROVE  t[i][2] < t[j][2]
    BY <1>2 DEF InOrder
  <2>3. i \in 1 .. n
    BY <1>2, <2>2
  <2>4. CASE j = n + 1
    BY <1>3, <1>5, <2>2, <2>3, <2>4
  <2>5. CASE j \in 1 .. n
    BY <1>3, <2>1, <2>2, <2>3, <2>5
  <2>6. QED
    BY <1>2, <2>4, <2>5
<1>7. Begun(t, after, count)
  <2>1. \A i \in 1 .. n : /\ s[i][2] <= count[s[i][1]]
                          /\ at[s[i][1]] # "idle" => s[i][2] < count[s[i][1]]
    BY <1>2 DEF Begun, s
  <2>2. SUFFICES ASSUME NEW i \in 1 .. n + 1
                 PROVE  /\ t[i][2] <= count[t[i][1]]
                        /\ after[t[i][1]] # "idle" => t[i][2] < count[t[i][1]]
    BY <1>2 DEF Begun
  <2>3. CASE i = n + 1
    BY <1>1, <1>3, <2>3
  <2>4. CASE i \in 1 .. n
    <3>1. t[i] = s[i] /\ s[i][1] \in Pusher
      BY <1>3, <1>4, <2>4
    <3>2. after[s[i][1]] # "idle" => at[s[i][1]] # "idle"
      BY <3>1
    <3>3. s[i][2] <= count[s[i][1]] /\ (at[s[i][1]] # "idle" => s[i][2] < count[s[i][1]])
      BY <2>1, <2>4, Zenon
    <3>4. QED
      BY <3>1, <3>2, <3>3
  <2>5. QED
    BY <1>2, <2>3, <2>4
<1>8. NotAhead(t, v)
  <2>1. \A i \in 1 .. n : v[1] = s[i][1] => s[i][2] <= v[2]
    BY <1>2 DEF NotAhead, s
  <2>2. SUFFICES ASSUME NEW i \in 1 .. n + 1, v[1] = t[i][1] PROVE t[i][2] <= v[2]
    BY <1>2 DEF NotAhead
  <2>3. CASE i = n + 1
    BY <1>1, <1>3, <2>2, <2>3
  <2>4. CASE i \in 1 .. n
    BY <1>3, <2>1, <2>2, <2>4
  <2>5. QED
    BY <1>2, <2>3, <2>4
<1>9. QED
  BY <1>6, <1>7, <1>8 DEF t

(* What the calls of the mailbox return.                                   *)
LEMMA MailTyped ==
  ASSUME TypeOK
  PROVE  /\ queue # <<>> => /\ Head(queue) \in Elements
                            /\ Tail(queue) \in Seq(Elements)
                            /\ Len(Tail(queue)) = Len(queue) - 1
                            /\ Len(queue) >= 1
         /\ \A e \in Elements : /\ Append(queue, e) \in Seq(Elements)
                                /\ Len(Append(queue, e)) = Len(queue) + 1
                                /\ Append(popped, e) \in Seq(Elements)
                                /\ Append(popped, e) # <<>>
         /\ \A p \in Pusher : pushed[p] > 0 => <<p, pushed[p]>> \in Elements
<1> USE PushAssumption DEF TypeOK
<1>1. queue # <<>> => /\ Head(queue) \in Elements
                     /\ Tail(queue) \in Seq(Elements)
                     /\ Len(Tail(queue)) = Len(queue) - 1
                     /\ Len(queue) >= 1
  BY HeadTailProperties, EmptySeq
<1>2. \A e \in Elements : /\ Append(queue, e) \in Seq(Elements)
                         /\ Len(Append(queue, e)) = Len(queue) + 1
                         /\ Append(popped, e) \in Seq(Elements)
                         /\ Append(popped, e) # <<>>
  BY AppendProperties
<1>3. \A p \in Pusher : pushed[p] > 0 => <<p, pushed[p]>> \in Elements
  BY DEF Elements
<1>4. QED
  BY <1>1, <1>2, <1>3

(* Types, blocks and the places of the threads.                            *)
LEMMA TypeStep == Inv /\ [Next]_vars => TypeOK' /\ BlocksHeld' /\ PcOfRole'
<1> SUFFICES ASSUME Inv, [Next]_vars PROVE TypeOK' /\ BlocksHeld' /\ PcOfRole'
  OBVIOUS
<1> USE ThreadAssumption, QueueAssumption, PushAssumption
<1> USE DEF Inv, PcOfRole, BlocksHeld, Thread
<1>1. ASSUME NEW p \in Pusher, CallPush(p)
     PROVE  TypeOK' /\ BlocksHeld' /\ PcOfRole'
  <2>1. /\ IsFiniteSet(Holders') /\ Cardinality(Holders) \in Nat
        /\ Cardinality(Holders') \in Nat
        /\ Cardinality(Holders') = Cardinality(Holders)
    BY <1>1, HoldersStep DEF CallPush, Holding
  <2>2. BlocksHeld'
    BY <1>1, <2>1 DEF CallPush, TypeOK
  <2>3. TypeOK'
    BY SMTT(60), <1>1, <2>1, <2>2 DEF CallPush, TypeOK, Elements, Goto
  <2>4. PcOfRole'
    BY <1>1 DEF CallPush, TypeOK, Goto
  <2>5. QED
    BY <2>2, <2>3, <2>4
<1>2. ASSUME NEW p \in Pusher, TestFull(p)
     PROVE  TypeOK' /\ BlocksHeld' /\ PcOfRole'
  <2>1. /\ IsFiniteSet(Holders') /\ Cardinality(Holders) \in Nat
        /\ Cardinality(Holders') \in Nat
        /\ Cardinality(Holders') = Cardinality(Holders)
    BY <1>2, HoldersStep DEF TestFull, Holding
  <2>2. BlocksHeld'
    BY <1>2, <2>1 DEF TestFull, TypeOK
  <2>3. TypeOK'
    BY SMTT(60), <1>2, <2>1, <2>2 DEF TestFull, TypeOK, Elements, Goto
  <2>4. PcOfRole'
    BY <1>2 DEF TestFull, TypeOK, Goto
  <2>5. QED
    BY <2>2, <2>3, <2>4
<1>3. ASSUME NEW p \in Pusher, Discard(p)
     PROVE  TypeOK' /\ BlocksHeld' /\ PcOfRole'
  <2>1. /\ IsFiniteSet(Holders') /\ Cardinality(Holders) \in Nat
        /\ Cardinality(Holders') \in Nat
        /\ Cardinality(Holders') = Cardinality(Holders) + 1
    BY <1>3, HoldersStep DEF Discard, Holding
  <2>2. queue' \in Seq(Elements) /\ Len(queue') = Len(queue) - 1 /\ Len(queue') >= 0
    BY <1>3, MailTyped DEF Discard
  <2>3. BlocksHeld'
    BY <1>3, <2>1, <2>2 DEF Discard, TypeOK
  <2>4. TypeOK'
    BY SMTT(60), <1>3, <2>1, <2>2, <2>3 DEF Discard, TypeOK, Goto
  <2>5. PcOfRole'
    BY <1>3 DEF Discard, TypeOK, Goto
  <2>6. QED
    BY <2>3, <2>4, <2>5
<1>4. ASSUME NEW p \in Pusher, FreeDiscarded(p)
     PROVE  TypeOK' /\ BlocksHeld' /\ PcOfRole'
  <2>1. /\ IsFiniteSet(Holders') /\ Cardinality(Holders) \in Nat
        /\ Cardinality(Holders') \in Nat
        /\ Cardinality(Holders') = Cardinality(Holders) - 1
    BY <1>4, HoldersStep DEF FreeDiscarded, Holding
  <2>2. BlocksHeld'
    BY <1>4, <2>1 DEF FreeDiscarded, TypeOK
  <2>3. TypeOK'
    BY SMTT(60), <1>4, <2>1, <2>2 DEF FreeDiscarded, TypeOK, Elements, Goto
  <2>4. PcOfRole'
    BY <1>4 DEF FreeDiscarded, TypeOK, Goto
  <2>5. QED
    BY <2>2, <2>3, <2>4
<1>5. ASSUME NEW p \in Pusher, Assign(p)
     PROVE  TypeOK' /\ BlocksHeld' /\ PcOfRole'
  <2>1. /\ IsFiniteSet(Holders') /\ Cardinality(Holders) \in Nat
        /\ Cardinality(Holders') \in Nat
        /\ Cardinality(Holders') = Cardinality(Holders)
    BY <1>5, HoldersStep DEF Assign, Holding
  <2>2. latest' \in Elements
    BY <1>5 DEF Assign, TypeOK, Elements, Goto
  <2>3. BlocksHeld'
    BY <1>5, <2>1, <2>2 DEF Assign, TypeOK
  <2>4. TypeOK'
    BY SMTT(60), <1>5, <2>1, <2>2, <2>3 DEF Assign, TypeOK, Elements, Goto
  <2>5. PcOfRole'
    BY <1>5 DEF Assign, TypeOK, Goto
  <2>6. QED
    BY <2>3, <2>4, <2>5
<1>6. ASSUME NEW p \in Pusher, Alloc(p)
     PROVE  TypeOK' /\ BlocksHeld' /\ PcOfRole'
  <2>1. /\ IsFiniteSet(Holders') /\ Cardinality(Holders) \in Nat
        /\ Cardinality(Holders') \in Nat
        /\ Cardinality(Holders') = Cardinality(Holders) + 1
    BY <1>6, HoldersStep DEF Alloc, Holding
  <2>2. BlocksHeld'
    BY <1>6, <2>1 DEF Alloc, TypeOK
  <2>3. TypeOK'
    BY SMTT(60), <1>6, <2>1, <2>2 DEF Alloc, TypeOK, Elements, Goto
  <2>4. PcOfRole'
    BY <1>6 DEF Alloc, TypeOK, Goto
  <2>5. QED
    BY <2>2, <2>3, <2>4
<1>7. ASSUME NEW p \in Pusher, AllocFails(p)
     PROVE  TypeOK' /\ BlocksHeld' /\ PcOfRole'
  <2>1. /\ IsFiniteSet(Holders') /\ Cardinality(Holders) \in Nat
        /\ Cardinality(Holders') \in Nat
        /\ Cardinality(Holders') = Cardinality(Holders)
    BY <1>7, HoldersStep DEF AllocFails, Holding
  <2>2. BlocksHeld'
    BY <1>7, <2>1 DEF AllocFails, TypeOK
  <2>3. TypeOK'
    BY SMTT(60), <1>7, <2>1, <2>2 DEF AllocFails, TypeOK, Elements, Goto
  <2>4. PcOfRole'
    BY <1>7 DEF AllocFails, TypeOK, Goto
  <2>5. QED
    BY <2>2, <2>3, <2>4
<1>8. ASSUME NEW p \in Pusher, Put(p)
     PROVE  TypeOK' /\ BlocksHeld' /\ PcOfRole'
  <2>1. /\ IsFiniteSet(Holders') /\ Cardinality(Holders) \in Nat
        /\ Cardinality(Holders') \in Nat
        /\ Cardinality(Holders') = Cardinality(Holders) - 1
    BY <1>8, HoldersStep DEF Put, Holding
  <2>2. queue' \in Seq(Elements) /\ Len(queue') = Len(queue) + 1
    BY <1>8, MailTyped DEF Put, Goto
  <2>3. BlocksHeld'
    BY <1>8, <2>1, <2>2 DEF Put, TypeOK
  <2>4. TypeOK'
    BY SMTT(60), <1>8, <2>1, <2>2, <2>3 DEF Put, TypeOK, Elements, Goto
  <2>5. PcOfRole'
    BY <1>8 DEF Put, TypeOK, Goto
  <2>6. QED
    BY <2>3, <2>4, <2>5
<1>9. ASSUME NEW c \in Popper, Pop(c)
     PROVE  TypeOK' /\ BlocksHeld' /\ PcOfRole'
  <2>1. /\ IsFiniteSet(Holders') /\ Cardinality(Holders) \in Nat
        /\ Cardinality(Holders') \in Nat
        /\ Cardinality(Holders') = Cardinality(Holders) + 1
    BY <1>9, HoldersStep DEF Pop, Holding
  <2>2. /\ queue' \in Seq(Elements) /\ Len(queue') = Len(queue) - 1 /\ Len(queue') >= 0
        /\ popped' \in Seq(Elements) /\ popped' # <<>>
    BY <1>9, MailTyped DEF Pop
  <2>3. BlocksHeld'
    BY <1>9, <2>1, <2>2 DEF Pop, TypeOK
  <2>4. TypeOK'
    BY SMTT(60), <1>9, <2>1, <2>2, <2>3 DEF Pop, TypeOK, Goto
  <2>5. PcOfRole'
    BY <1>9, <2>2 DEF Pop, TypeOK, Goto
  <2>6. QED
    BY <2>3, <2>4, <2>5
<1>10. ASSUME NEW c \in Popper, FreePopped(c)
     PROVE  TypeOK' /\ BlocksHeld' /\ PcOfRole'
  <2>1. /\ IsFiniteSet(Holders') /\ Cardinality(Holders) \in Nat
        /\ Cardinality(Holders') \in Nat
        /\ Cardinality(Holders') = Cardinality(Holders) - 1
    BY <1>10, HoldersStep DEF FreePopped, Holding
  <2>2. BlocksHeld'
    BY <1>10, <2>1 DEF FreePopped, TypeOK
  <2>3. TypeOK'
    BY SMTT(60), <1>10, <2>1, <2>2 DEF FreePopped, TypeOK, Elements, Goto
  <2>4. PcOfRole'
    BY <1>10 DEF FreePopped, TypeOK, Goto
  <2>5. QED
    BY <2>2, <2>3, <2>4
<1>11. CASE UNCHANGED vars
  BY <1>11 DEF vars, Holders, TypeOK
<1>12. QED
  BY <1>1, <1>2, <1>3, <1>4, <1>5, <1>6, <1>7, <1>8, <1>9, <1>10, <1>11
     DEF Next, PushStep, PopStep

(* The order of the values.                                                *)
LEMMA OrderStep == Inv /\ [Next]_vars => AllInOrder'
<1> SUFFICES ASSUME Inv, [Next]_vars PROVE AllInOrder'
  OBVIOUS
<1> USE ThreadAssumption, QueueAssumption, PushAssumption
<1> USE DEF Inv, TypeOK, PcOfRole, AllInOrder, LatestPushed, Thread, Goto
<1>0. \A i \in DOMAIN (popped \o queue) :
       (popped \o queue)[i][1] \in Pusher /\ (popped \o queue)[i][2] \in Nat
  BY AllTyped
<1>1. ASSUME NEW p \in Pusher, CallPush(p)
     PROVE  AllInOrder'
  <2>1. Begun(popped \o queue, pc', pushed')
    <3>1. pushed \in [Pusher -> Int] /\ pushed' \in [Pusher -> Int]
      BY <1>1 DEF CallPush
    <3>2. \A q \in Pusher : \/ pushed'[q] = pushed[q] + 1
                            \/ pushed'[q] = pushed[q] /\ (pc'[q] # "idle" => pc[q] # "idle")
      BY <1>1 DEF CallPush
    <3>3. Begun(popped \o queue, pc, pushed)
      OBVIOUS
    <3> HIDE DEF Inv, TypeOK, PcOfRole, AllInOrder, LatestPushed, Goto
    <3>4. QED
      BY <1>0, <3>1, <3>2, <3>3, BegunStays
  <2>2. QED
    BY <1>1, <2>1 DEF CallPush
<1>2. ASSUME NEW p \in Pusher, TestFull(p)
     PROVE  AllInOrder'
  <2>1. Begun(popped \o queue, pc', pushed')
    BY <1>0, <1>2 DEF TestFull, Begun
  <2>2. QED
    BY <1>2, <2>1 DEF TestFull
<1>3. ASSUME NEW p \in Pusher, Discard(p)
     PROVE  AllInOrder'
  <2>1. /\ InOrder(popped \o Tail(queue))
        /\ Begun(popped \o Tail(queue), pc, pushed)
        /\ NotAhead(popped \o Tail(queue), latest)
    BY <1>3, DropKeepsOrder DEF Discard
  <2>2. popped \o Tail(queue) \in Seq(Elements)
    BY <1>3, MailTyped, ConcatProperties DEF Discard
  <2>3. Begun(popped \o Tail(queue), pc', pushed)
    <3>1. pushed \in [Pusher -> Int] /\ \A q \in Pusher : pc'[q] # "idle" => pc[q] # "idle"
      BY <1>3 DEF Discard
    <3>2. Tail(queue) \in Seq(Elements) /\ popped \in Seq(Elements)
      BY <1>3, MailTyped DEF Discard
    <3>3. \A i \in DOMAIN (popped \o Tail(queue)) :
             (popped \o Tail(queue))[i][1] \in Pusher /\ (popped \o Tail(queue))[i][2] \in Nat
      BY <3>2, AllTyped
    <3>4. QED
      BY <2>1, <3>1, <3>3, BegunStays
  <2>4. QED
    BY <1>3, <2>1, <2>3 DEF Discard
<1>4. ASSUME NEW p \in Pusher, FreeDiscarded(p)
     PROVE  AllInOrder'
  <2>1. Begun(popped \o queue, pc', pushed')
    BY <1>0, <1>4 DEF FreeDiscarded, Begun
  <2>2. QED
    BY <1>4, <2>1 DEF FreeDiscarded
<1>5. ASSUME NEW p \in Pusher, Assign(p)
     PROVE  AllInOrder'
  <2>1. Begun(popped \o queue, pc', pushed')
    BY <1>0, <1>5 DEF Assign, Begun
  <2>2. NotAhead(popped \o queue, latest')
    BY <1>0, <1>5 DEF Assign, Begun, NotAhead
  <2>3. QED
    BY <1>5, <2>1, <2>2 DEF Assign
<1>6. ASSUME NEW p \in Pusher, Alloc(p)
     PROVE  AllInOrder'
  <2>1. Begun(popped \o queue, pc', pushed')
    BY <1>0, <1>6 DEF Alloc, Begun
  <2>2. QED
    BY <1>6, <2>1 DEF Alloc
<1>7. ASSUME NEW p \in Pusher, AllocFails(p)
     PROVE  AllInOrder'
  <2>1. Begun(popped \o queue, pc', pushed')
    BY <1>0, <1>7 DEF AllocFails, Begun
  <2>2. QED
    BY <1>7, <2>1 DEF AllocFails
<1>8. ASSUME NEW p \in Pusher, Put(p)
     PROVE  AllInOrder'
  <2> DEFINE t == popped \o Append(queue, <<p, pushed[p]>>)
  <2>1. /\ InOrder(t)
        /\ Begun(t, pc', pushed)
        /\ NotAhead(t, latest)
    <3>1. /\ pc[p] # "idle" /\ pushed[p] > 0 /\ (latest[1] = p => latest[2] = pushed[p])
          /\ pc'[p] = "idle" /\ \A q \in Pusher \ {p} : pc'[q] = pc[q]
      BY <1>8 DEF Put
    <3>2. /\ popped \in Seq(Elements) /\ queue \in Seq(Elements)
          /\ pushed \in [Pusher -> 0 .. MaxPushes]
          /\ InOrder(popped \o queue) /\ Begun(popped \o queue, pc, pushed)
          /\ NotAhead(popped \o queue, latest)
      OBVIOUS
    <3> HIDE DEF Inv, TypeOK, PcOfRole, AllInOrder, LatestPushed, Goto
    <3>3. QED
      BY <3>1, <3>2, AddKeepsOrder
  <2>2. QED
    BY <1>8, <2>1 DEF Put
<1>9. ASSUME NEW c \in Popper, Pop(c)
     PROVE  AllInOrder'
  <2>1. popped' \o queue' = popped \o queue
    BY SMTT(60), <1>9, MoveHead DEF Pop
  <2>2. Begun(popped \o queue, pc', pushed')
    BY <1>0, <1>9 DEF Pop, Begun
  <2>3. QED
    BY <1>9, <2>1, <2>2 DEF Pop
<1>10. ASSUME NEW c \in Popper, FreePopped(c)
     PROVE  AllInOrder'
  <2>1. Begun(popped \o queue, pc', pushed')
    BY <1>0, <1>10 DEF FreePopped, Begun
  <2>2. QED
    BY <1>10, <2>1 DEF FreePopped
<1>11. CASE UNCHANGED vars
  BY <1>11 DEF vars
<1>12. QED
  BY <1>1, <1>2, <1>3, <1>4, <1>5, <1>6, <1>7, <1>8, <1>9, <1>10, <1>11
     DEF Next, PushStep, PopStep

(* One thread only has pushed.                                             *)
LEMMA LoneStep == Inv /\ [Next]_vars => LonePush'
<1> SUFFICES ASSUME Inv, [Next]_vars PROVE LonePush'
  OBVIOUS
<1> USE ThreadAssumption, QueueAssumption, PushAssumption
<1> USE DEF Inv, LonePush, Thread, Goto
<1>1. ASSUME NEW p \in Pusher, CallPush(p)
     PROVE  LonePush'
  BY <1>1 DEF CallPush, TypeOK, PcOfRole, Alone, LonePushOf, Least
<1>2. ASSUME NEW p \in Pusher, TestFull(p)
     PROVE  LonePush'
  <2> SUFFICES ASSUME NEW q \in Pusher, Alone(q)'
              PROVE  LonePushOf(q)'
    OBVIOUS
  <2>1. q = p /\ Alone(q) /\ LonePushOf(q)
    BY <1>2 DEF TestFull, Alone, TypeOK, PcOfRole
  <2>2. pushed[p] \in Nat \ {0} /\ pushed[p] - 1 \in Nat
    BY <1>2 DEF TestFull, TypeOK, PcOfRole
  <2>3. queue = Window(p, pushed[p] - 1, Least(pushed[p] - 1, QueueSize))
    BY <1>2, <2>1 DEF TestFull, LonePushOf
  <2>4. Len(queue) = Least(pushed[p] - 1, QueueSize)
    BY ZenonT(60), <2>2, <2>3, Windows DEF Least
  <2>5. QED
    BY <1>2, <2>1, <2>2, <2>3, <2>4 DEF TestFull, LonePushOf, Least, TypeOK
<1>3. ASSUME NEW p \in Pusher, Discard(p)
     PROVE  LonePush'
  <2> SUFFICES ASSUME NEW q \in Pusher, Alone(q)'
              PROVE  LonePushOf(q)'
    OBVIOUS
  <2>1. q = p /\ Alone(q) /\ LonePushOf(q)
    BY <1>3 DEF Discard, Alone, TypeOK, PcOfRole
  <2>2. pushed[p] \in Nat \ {0} /\ pushed[p] - 1 \in Nat
    BY <1>3 DEF Discard, TypeOK, PcOfRole
  <2>3. pushed[p] > QueueSize /\ queue = Window(p, pushed[p] - 1, QueueSize)
    BY <1>3, <2>1 DEF Discard, LonePushOf
  <2>4. queue' = Window(p, pushed[p] - 1, QueueSize - 1)
    <3> DEFINE n == pushed[p] - 1
    <3>1. n \in Nat /\ QueueSize \in Nat /\ QueueSize > 0
      BY <2>2
    <3> HIDE DEF n
    <3>2. Tail(Window(p, n, QueueSize)) = Window(p, n, QueueSize - 1)
      BY <3>1, Windows, Zenon
    <3>3. QED
      BY <1>3, <2>3, <3>2 DEF Discard, n
  <2>5. QED
    BY <1>3, <2>1, <2>2, <2>3, <2>4 DEF Discard, LonePushOf, Least, TypeOK
<1>4. ASSUME NEW p \in Pusher, FreeDiscarded(p)
     PROVE  LonePush'
  BY <1>4 DEF FreeDiscarded, TypeOK, PcOfRole, Alone, LonePushOf, Least
<1>5. ASSUME NEW p \in Pusher, Assign(p)
     PROVE  LonePush'
  BY <1>5 DEF Assign, TypeOK, PcOfRole, Alone, LonePushOf, Least
<1>6. ASSUME NEW p \in Pusher, Alloc(p)
     PROVE  LonePush'
  BY <1>6 DEF Alloc, TypeOK, PcOfRole, Alone, LonePushOf, Least
<1>7. ASSUME NEW p \in Pusher, AllocFails(p)
     PROVE  LonePush'
  <2> SUFFICES ASSUME NEW q \in Pusher, Alone(q)'
              PROVE  LonePushOf(q)'
    OBVIOUS
  <2>1. q = p /\ Alone(q) /\ LonePushOf(q)
    BY <1>7 DEF AllocFails, Alone, TypeOK, PcOfRole
  <2>2. pushed[p] \in Nat \ {0} /\ pushed[p] - 1 \in Nat
    BY <1>7 DEF AllocFails, TypeOK, PcOfRole
  <2>3. Len(queue) = Least(pushed[p] - 1, QueueSize - 1)
    <3>1. queue = Window(p, pushed[p] - 1, Least(pushed[p] - 1, QueueSize - 1))
      BY <1>7, <2>1 DEF AllocFails, LonePushOf
    <3>2. Least(pushed[p] - 1, QueueSize - 1) \in Nat
      BY <2>2 DEF Least
    <3>3. QED
      BY ZenonT(60), <2>2, <3>1, <3>2, Windows
  <2>4. Holders = {}
    BY <1>7, <2>1, <2>2 DEF AllocFails, Holders, Holding, Alone, PcOfRole
  <2>5. free > 0
    BY <2>2, <2>3, <2>4, FS_EmptySet DEF Least, BlocksHeld, TypeOK
  <2>6. QED
    BY <1>7, <2>5 DEF AllocFails
<1>8. ASSUME NEW p \in Pusher, Put(p)
     PROVE  LonePush'
  <2> SUFFICES ASSUME NEW q \in Pusher, Alone(q)'
              PROVE  LonePushOf(q)'
    OBVIOUS
  <2>1. q = p /\ Alone(q) /\ LonePushOf(q)
    BY <1>8 DEF Put, Alone, TypeOK, PcOfRole
  <2>2. pushed[p] \in Nat \ {0} /\ pushed[p] - 1 \in Nat
    BY <1>8 DEF Put, TypeOK, PcOfRole
  <2>3. queue = Window(p, pushed[p] - 1, Least(pushed[p] - 1, QueueSize - 1))
    BY <1>8, <2>1 DEF Put, LonePushOf
  <2>4. queue' = Window(p, pushed[p], Least(pushed[p] - 1, QueueSize - 1) + 1)
    <3> DEFINE n == pushed[p] - 1
               k == Least(n, QueueSize - 1)
    <3>1. n \in Nat /\ k \in Nat
      BY <2>2 DEF Least
    <3>5. n + 1 = pushed[p]
      BY <2>2
    <3> HIDE DEF n, k
    <3>2. Append(Window(p, n, k), <<p, n + 1>>) = Window(p, n + 1, k + 1)
      BY <3>1, WindowGrows
    <3>3. queue = Window(p, n, k)
      BY <2>3 DEF n, k
    <3>4. queue' = Window(p, pushed[p], k + 1)
      BY <1>8, <3>5, <3>2, <3>3 DEF Put
    <3>6. QED
      BY <3>4 DEF n, k
  <2>5. Least(pushed[p] - 1, QueueSize - 1) + 1 = Least(pushed[p], QueueSize)
    BY <2>2 DEF Least
  <2>6. QED
    BY <1>8, <2>1, <2>2, <2>4, <2>5 DEF Put, LonePushOf, TypeOK
<1>9. ASSUME NEW c \in Popper, Pop(c)
     PROVE  LonePush'
  BY <1>9, MailTyped DEF Pop, Alone
<1>10. ASSUME NEW c \in Popper, FreePopped(c)
     PROVE  LonePush'
  BY <1>10 DEF FreePopped, TypeOK, PcOfRole, Alone, LonePushOf, Least
<1>11. CASE UNCHANGED vars
  BY <1>11 DEF vars, Alone, LonePushOf
<1>12. QED
  BY <1>1, <1>2, <1>3, <1>4, <1>5, <1>6, <1>7, <1>8, <1>9, <1>10, <1>11
     DEF Next, PushStep, PopStep

(* The inductive invariant of the shared variable.                         *)
THEOREM Invariance == Spec => []Inv
<1>1. Inv /\ [Next]_vars => Inv'
  BY TypeStep, OrderStep, LoneStep DEF Inv
<1>2. QED
  BY InitInv, <1>1, PTL DEF Spec

(* Type correctness of the mailbox, _val and the threads.                  *)
THEOREM TypeCorrectness == Spec => []TypeOK
<1>1. Inv => TypeOK
  BY DEF Inv
<1>2. QED
  BY <1>1, Invariance, PTL

(* push() and pop() neither lose a block of the mailbox nor free one       *)
(* twice, for any number of threads and any size.                          *)
THEOREM NoBlockLeaks == Spec => []BlocksAccounted
<1>1. Inv => BlocksAccounted
  BY DEF Inv, BlocksHeld, BlocksAccounted, Holders, Holding
<1>2. QED
  BY <1>1, Invariance, PTL

(* The values of each thread stay in the order of its pushes, from the     *)
(* mailbox to what was popped, and peek() is never behind them.            *)
THEOREM ValuesInOrder == Spec => []OrderKept
<1>1. Inv => OrderKept
  BY DEF Inv, AllInOrder, InOrder, NotAhead, OrderKept
<1>2. QED
  BY <1>1, Invariance, PTL

(* The only thread that pushes always leaves the newest values, as many as *)
(* the mailbox holds.                                                      *)
THEOREM NewestStay == Spec => []NewestKept
<1>1. Inv => NewestKept
  BY DEF Inv, LonePush, LonePushOf, Alone, Window, Least, NewestKept
<1>2. QED
  BY <1>1, Invariance, PTL
=============================================================================
