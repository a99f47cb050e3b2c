---------------------------- MODULE SourceProofs ----------------------------
(***************************************************************************)
(* What the sinks of a source receive, for any sources, sinks, threads and *)
(* connections.                                                            *)
(***************************************************************************)
EXTENDS Source, SequenceTheorems, FiniteSetTheorems, TLAPS

Element == Pusher \X Nat

Typed ==
    /\ sourceOf \in [Pusher -> Sources]
    /\ sinkList \in [Sources -> Seq(Sinks)]
    /\ pushed \in [Pusher -> Nat] /\ at \in [Pusher -> Nat]
    /\ queue \in [Sinks -> Seq(Element)] /\ popped \in [Sinks -> Seq(Element)]

(* The connections are made before anything is pushed.                     *)
NotYet == ~running => \A p \in Pusher : pushed[p] = 0 /\ at[p] = 0

(* A push has reached a place of the list, or is at its end.               *)
Reached == \A p \in Pusher : at[p] <= Len(ListOf(p)) + 1

(* No value is in a sink before it is pushed.                              *)
NoneEarly ==
    \A s \in Sinks : \A i \in DOMAIN Received[s] :
        Received[s][i][2] <= pushed[Received[s][i][1]]

(* Each sink has the values of a thread in the order of its pushes.        *)
InOrder(s, p) ==
    \A i, j \in DOMAIN Received[s] :
        i < j /\ Received[s][i][1] = p /\ Received[s][j][1] = p
            => Received[s][i][2] <= Received[s][j][2]

(* The places of the value e in what sink s has received.                  *)
Copies(s, e) == {i \in DOMAIN Received[s] : Received[s][i] = e}

(* Each sink has a value once for each connection the push has served.     *)
OnePerConnection(s, p, n) ==
    Cardinality(Copies(s, <<p, n>>)) = Cardinality(Served(s, p, n))

Inv ==
    /\ Typed /\ NotYet /\ Reached /\ NoneEarly
    /\ \A s \in Sinks, p \in Pusher :
          InOrder(s, p) /\ \A n \in Nat \ {0} : OnePerConnection(s, p, n)
-----------------------------------------------------------------------------
(* What the invariant says of what a sink has received and of the list a   *)
(* thread pushes along.                                                    *)
LEMMA Shapes ==
    ASSUME Typed
    PROVE  /\ \A s \in Sinks : /\ Received[s] \in Seq(Element) /\ Len(Received[s]) \in Nat
                               /\ DOMAIN Received[s] = 1 .. Len(Received[s])
           /\ \A p \in Pusher : /\ Len(ListOf(p)) \in Nat
                                /\ DOMAIN ListOf(p) = 1 .. Len(ListOf(p))
                                /\ \A i \in DOMAIN ListOf(p) : ListOf(p)[i] \in Sinks
<1>1. ASSUME NEW s \in Sinks
      PROVE  /\ Received[s] \in Seq(Element) /\ Len(Received[s]) \in Nat
             /\ DOMAIN Received[s] = 1 .. Len(Received[s])
  <2>1. popped[s] \in Seq(Element) /\ queue[s] \in Seq(Element)
    BY DEF Typed
  <2>2. Received[s] \in Seq(Element)
    BY <2>1, ConcatProperties DEF Received
  <2>3. QED
    BY <2>2, LenProperties
<1>2. ASSUME NEW p \in Pusher
      PROVE  /\ Len(ListOf(p)) \in Nat
             /\ DOMAIN ListOf(p) = 1 .. Len(ListOf(p))
             /\ \A i \in DOMAIN ListOf(p) : ListOf(p)[i] \in Sinks
  <2>1. ListOf(p) \in Seq(Sinks)
    BY DEF Typed, ListOf
  <2>2. QED
    BY <2>1, LenProperties, ElementOfSeq
<1>3. QED
  BY <1>1, <1>2

(* Moving the first element of a queue behind what was popped changes      *)
(* nothing in the two together.                                            *)
LEMMA HeadMoves == ASSUME NEW S, NEW g \in Seq(S), NEW a \in Seq(S), a # <<>>
                   PROVE  Append(g, Head(a)) \o Tail(a) = g \o a
<1> DEFINE h == <<Head(a)>>
           T == Tail(a)
<1>1. Head(a) \in S /\ T \in Seq(S)
  BY HeadTailProperties
<1>2. h \in Seq(S) /\ Append(g, Head(a)) = g \o h
  BY <1>1, AppendIsConcat
<1>3. h \o T = a
  <2>1. Len(h) = 1 /\ h[1] = a[1] /\ Len(a) \in Nat /\ Len(a) # 0
    BY LenProperties, EmptySeq
  <2>2. Len(T) = Len(a) - 1 /\ \A i \in 1 .. Len(T) : T[i] = a[i + 1]
    BY HeadTailProperties
  <2> HIDE DEF h, T
  <2>3. /\ h \o T \in Seq(S) /\ Len(h \o T) = Len(h) + Len(T)
        /\ \A i \in 1 .. Len(h) + Len(T) :
              (h \o T)[i] = IF i <= Len(h) THEN h[i] ELSE T[i - Len(h)]
    BY <1>1, <1>2, ConcatProperties
  <2>4. ASSUME NEW i \in 1 .. Len(a) PROVE (h \o T)[i] = a[i]
    <3>1. CASE i = 1
      <4>1. i \in 1 .. Len(h) + Len(T) /\ i <= Len(h)
        BY <2>1, <2>2, <3>1
      <4>2. QED
        BY <2>1, <2>3, <3>1, <4>1
    <3>2. CASE i # 1
      <4>1. i \in 1 .. Len(h) + Len(T) /\ ~ (i <= Len(h)) /\ i - Len(h) \in 1 .. Len(T)
            /\ (i - Len(h)) + 1 = i
        BY <2>1, <2>2, <3>2
      <4>2. (h \o T)[i] = T[i - Len(h)] /\ T[i - Len(h)] = a[(i - Len(h)) + 1]
        BY <2>2, <2>3, <4>1
      <4>3. QED
        BY <4>1, <4>2
    <3>3. QED
      BY <3>1, <3>2
  <2>5. Len(h \o T) = Len(a)
    BY <2>1, <2>2, <2>3
  <2>6. QED
    BY <2>3, <2>4, <2>5, SeqEqual
<1> HIDE DEF h, T
<1>4. (g \o h) \o T = g \o (h \o T)
  <2>1. g \in Seq(S) /\ T \in Seq(S) /\ h \in Seq(S)
    BY <1>1, <1>2
  <2>2. QED
    BY ONLY <2>1, ConcatAssociative
<1>5. QED
  BY <1>2, <1>3, <1>4 DEF T

(* A value put at the end of a queue is put at the end of what was popped  *)
(* and the queue together.                                                 *)
LEMMA AppendMoves == ASSUME NEW S, NEW g \in Seq(S), NEW a \in Seq(S), NEW e \in S
                     PROVE  g \o Append(a, e) = Append(g \o a, e)
<1> DEFINE w == <<e>>
           b == g \o a
<1>1. w \in Seq(S) /\ Append(a, e) = a \o w
  BY AppendIsConcat
<1>2. b \in Seq(S)
  BY ConcatProperties
<1> HIDE DEF w
<1>3. (g \o a) \o w = g \o (a \o w)
  <2>1. g \in Seq(S) /\ a \in Seq(S) /\ w \in Seq(S)
    BY <1>1
  <2>2. QED
    BY ONLY <2>1, ConcatAssociative
<1> HIDE DEF b
<1>4. Append(b, e) = b \o w
  BY <1>2, AppendIsConcat DEF w
<1>5. QED
  BY <1>1, <1>3, <1>4 DEF b

(* The served connections are places of a list, of which there are not     *)
(* many.                                                                   *)
LEMMA ServedFinite ==
    ASSUME Typed, NEW s, NEW p \in Pusher, NEW n
    PROVE  IsFiniteSet(Served(s, p, n)) /\ Served(s, p, n) \subseteq 1 .. Len(ListOf(p))
<1>1. Len(ListOf(p)) \in Nat /\ DOMAIN ListOf(p) = 1 .. Len(ListOf(p))
  BY Shapes
<1>2. Served(s, p, n) \in SUBSET (1 .. Len(ListOf(p)))
  BY <1>1 DEF Served, Places
<1>3. IsFiniteSet(1 .. Len(ListOf(p)))
  BY <1>1, FS_Interval
<1>4. QED
  BY <1>2, <1>3, FS_Subset

(* A step that neither gives a sink a value nor moves a push past a        *)
(* connection preserves the invariant.                                     *)
LEMMA Quiet ==
    ASSUME Inv, Typed', NotYet', Reached',
           \A s \in Sinks : Received'[s] = Received[s],
           \A p \in Pusher : pushed'[p] \in {pushed[p], pushed[p] + 1},
           \A s \in Sinks, p \in Pusher, n \in Nat \ {0} : Served(s, p, n)' = Served(s, p, n)
    PROVE  Inv'
<1> Typed
  BY DEF Inv
<1>1. NoneEarly'
  <2>1. ASSUME NEW s \in Sinks, NEW i \in DOMAIN Received[s]
        PROVE  Received[s][i][2] <= pushed'[Received[s][i][1]]
    <3>1. Received[s][i] \in Element
      BY Shapes, ElementOfSeq
    <3>2. Received[s][i][1] \in Pusher /\ Received[s][i][2] \in Nat
      BY <3>1 DEF Element
    <3>3. Received[s][i][2] <= pushed[Received[s][i][1]]
      BY DEF Inv, NoneEarly
    <3>4. ASSUME NEW q \in Pusher PROVE pushed[q] \in Nat /\ pushed'[q] >= pushed[q]
      <4>1. pushed[q] \in Nat
        BY DEF Typed
      <4>2. pushed'[q] = pushed[q] \/ pushed'[q] = pushed[q] + 1
        BY Zenon
      <4>3. QED
        BY <4>1, <4>2
    <3>5. QED
      BY <3>2, <3>3, <3>4
  <2>2. QED
    BY <2>1 DEF NoneEarly
<1>2. ASSUME NEW s \in Sinks, NEW p \in Pusher
      PROVE  InOrder(s, p)' /\ \A n \in Nat \ {0} : OnePerConnection(s, p, n)'
  <2>1. Received'[s] = Received[s] /\ InOrder(s, p)
    BY DEF Inv
  <2>2. InOrder(s, p)'
    BY <2>1 DEF InOrder
  <2>3. ASSUME NEW n \in Nat \ {0} PROVE OnePerConnection(s, p, n)'
    <3>1. OnePerConnection(s, p, n)
      BY DEF Inv
    <3>2. Copies(s, <<p, n>>)' = Copies(s, <<p, n>>)
      BY <2>1 DEF Copies
    <3>3. Served(s, p, n)' = Served(s, p, n)
      OBVIOUS
    <3>4. QED
      BY <3>1, <3>2, <3>3 DEF OnePerConnection
  <2>4. QED
    BY <2>2, <2>3
<1>3. QED
  BY <1>1, <1>2 DEF Inv
-----------------------------------------------------------------------------
(* inject() puts the value behind all that the sink has received.          *)
LEMMA InjectReceived ==
    ASSUME Inv, NEW p \in Pusher, Inject(p)
    PROVE  LET u == ListOf(p)[at[p]]
               e == <<p, pushed[p]>>
           IN  /\ u \in Sinks /\ e \in Element /\ at[p] \in 1 .. Len(ListOf(p))
               /\ queue' \in [Sinks -> Seq(Element)]
               /\ Received'[u] = Append(Received[u], e)
               /\ \A s \in Sinks : s # u => Received'[s] = Received[s]
<1> DEFINE u == ListOf(p)[at[p]]
           e == <<p, pushed[p]>>
<1> Typed
  BY DEF Inv
<1>1. /\ at[p] \in DOMAIN ListOf(p) /\ queue' = [queue EXCEPT ![u] = Append(@, e)]
      /\ popped' = popped
  BY DEF Inject
<1>2. u \in Sinks /\ at[p] \in 1 .. Len(ListOf(p))
  BY <1>1, Shapes
<1>3. e \in Element
  BY DEF Typed, Element
<1>4. queue \in [Sinks -> Seq(Element)] /\ popped \in [Sinks -> Seq(Element)]
  BY DEF Typed
<1> HIDE DEF u, e
<1>5. popped[u] \in Seq(Element) /\ queue[u] \in Seq(Element)
  BY <1>2, <1>4
<1>6. Append(queue[u], e) \in Seq(Element)
  BY <1>3, <1>5, AppendProperties
<1>7. queue' \in [Sinks -> Seq(Element)]
  BY <1>1, <1>4, <1>6
<1>8. Received'[u] = Append(Received[u], e)
  <2>1. Received'[u] = popped[u] \o Append(queue[u], e)
    BY <1>1, <1>2, <1>4 DEF Received
  <2>2. popped[u] \o Append(queue[u], e) = Append(popped[u] \o queue[u], e)
    <3> DEFINE g == popped[u]
               a == queue[u]
    <3>1. g \in Seq(Element) /\ a \in Seq(Element) /\ e \in Element
      BY <1>3, <1>5
    <3> HIDE DEF g, a
    <3>2. g \o Append(a, e) = Append(g \o a, e)
      BY ONLY <3>1, AppendMoves
    <3>3. QED
      BY <3>2 DEF g, a
  <2>3. QED
    BY <1>2, <2>1, <2>2 DEF Received
<1>9. ASSUME NEW s \in Sinks, s # u PROVE Received'[s] = Received[s]
  BY <1>1, <1>4, <1>9 DEF Received
<1>10. QED
  BY <1>2, <1>3, <1>7, <1>8, <1>9 DEF u, e

(* One more connection has been served: that for_each has reached.         *)
LEMMA InjectServed ==
    ASSUME Inv, NEW p \in Pusher, Inject(p), NEW s \in Sinks, NEW q \in Pusher,
           NEW n \in Nat
    PROVE  IF s = ListOf(p)[at[p]] /\ q = p /\ n = pushed[p]
           THEN Served(s, q, n)' = Served(s, q, n) \cup {at[p]} /\ at[p] \notin Served(s, q, n)
           ELSE Served(s, q, n)' = Served(s, q, n)
<1> Typed
  BY DEF Inv
<1>1. /\ UNCHANGED <<sourceOf, sinkList, pushed>>
      /\ at' = [at EXCEPT ![p] = at[p] + 1] /\ at[p] \in DOMAIN ListOf(p)
  BY DEF Inject
<1>2. ListOf(q)' = ListOf(q) /\ Places(s, q)' = Places(s, q)
  BY <1>1 DEF ListOf, Places
<1>3. /\ at[p] \in 1 .. Len(ListOf(p)) /\ at[p] \in Nat /\ pushed[p] \in Nat
      /\ DOMAIN ListOf(p) = 1 .. Len(ListOf(p)) /\ Len(ListOf(p)) \in Nat
  BY <1>1, Shapes DEF Typed
<1>4. CASE q # p
  <2>1. at'[q] = at[q] /\ pushed'[q] = pushed[q]
    BY <1>1, <1>4 DEF Typed
  <2>2. Served(s, q, n)' = Served(s, q, n)
    BY <1>2, <2>1 DEF Served
  <2>3. QED
    BY <1>4, <2>2
<1>5. CASE q = p
  <2>1. at'[p] = at[p] + 1 /\ pushed'[p] = pushed[p]
    BY <1>1 DEF Typed
  <2>2. Served(s, p, n)' = {i \in Places(s, p) : n < pushed[p] \/ (n = pushed[p]
                                                  /\ at[p] + 1 \notin 1 .. i)}
    BY <1>2, <1>5, <2>1 DEF Served
  <2>3. \A i \in Places(s, p) : i \in 1 .. Len(ListOf(p)) /\ ListOf(p)[i] = s
    BY <1>3 DEF Places
  <2>4. ASSUME NEW i \in Places(s, p), i # at[p]
        PROVE  at[p] + 1 \notin 1 .. i <=> at[p] \notin 1 .. i
    BY <1>3, <2>3, <2>4
  <2>5. at[p] + 1 \notin 1 .. at[p] /\ at[p] \in 1 .. at[p]
    BY <1>3
  <2>6. ListOf(p)[at[p]] = s => at[p] \in Places(s, p)
    BY <1>1 DEF Places
  <2>7. n = pushed[p] => ~ (n < pushed[p])
    BY <1>3
  <2>8. CASE s = ListOf(p)[at[p]] /\ n = pushed[p]
    BY <1>5, <2>2, <2>4, <2>5, <2>6, <2>7, <2>8 DEF Served
  <2>9. CASE ~ (s = ListOf(p)[at[p]] /\ n = pushed[p])
    <3>1. Served(s, p, n)' = Served(s, p, n)
      BY <2>2, <2>3, <2>4, <2>9 DEF Served
    <3>2. QED
      BY <1>5, <2>9, <3>1
  <2>10. QED
    BY <2>8, <2>9
<1>6. QED
  BY <1>4, <1>5

(* So there is one more copy of the value.                                 *)
LEMMA InjectInv == ASSUME Inv, NEW p \in Pusher, Inject(p) PROVE Inv'
<1> Typed
  BY DEF Inv
<1> DEFINE u == ListOf(p)[at[p]]
           e == <<p, pushed[p]>>
           l == Len(Received[u])
<1>1. /\ UNCHANGED <<sourceOf, running, sinkList, pushed, popped>>
      /\ at' = [at EXCEPT ![p] = at[p] + 1]
  BY DEF Inject
<1>2. /\ u \in Sinks /\ e \in Element /\ at[p] \in 1 .. Len(ListOf(p))
      /\ queue' \in [Sinks -> Seq(Element)]
      /\ Received'[u] = Append(Received[u], e)
      /\ \A s \in Sinks : s # u => Received'[s] = Received[s]
  BY InjectReceived
<1>3. e[1] = p /\ e[2] = pushed[p] /\ pushed[p] \in Nat /\ at[p] \in Nat /\ at[p] # 0
  BY <1>2 DEF Typed
<1> HIDE DEF u, e
<1>4. Received[u] \in Seq(Element) /\ l \in Nat /\ DOMAIN Received[u] = 1 .. l
  BY <1>2, Shapes
<1>5. /\ DOMAIN Received'[u] = 1 .. l + 1
      /\ \A i \in 1 .. l : Received'[u][i] = Received[u][i]
      /\ Received'[u][l + 1] = e
  <2>1. /\ Append(Received[u], e) \in Seq(Element)
        /\ Len(Append(Received[u], e)) = l + 1
        /\ \A i \in 1 .. l : Append(Received[u], e)[i] = Received[u][i]
        /\ Append(Received[u], e)[l + 1] = e
    BY <1>2, <1>4, AppendProperties
  <2>2. DOMAIN Append(Received[u], e) = 1 .. l + 1
    BY <2>1, LenProperties
  <2>3. QED
    BY <1>2, <2>1, <2>2
<1> HIDE DEF l
<1>6. Typed' /\ NotYet' /\ Reached'
  <2>1. Typed'
    BY <1>1, <1>2 DEF Typed
  <2>2. NotYet'
    BY <1>1, <1>3 DEF Inv, NotYet
  <2>3. ASSUME NEW q \in Pusher PROVE at'[q] <= Len(ListOf(q)) + 1
    <3>1. at[q] \in Nat /\ Len(ListOf(q)) \in Nat /\ at[q] <= Len(ListOf(q)) + 1
      BY Shapes DEF Typed, Inv, Reached
    <3>2. CASE q = p
      BY <1>1, <1>2, <3>1, <3>2 DEF Typed
    <3>3. CASE q # p
      BY <1>1, <3>1, <3>3 DEF Typed
    <3>4. QED
      BY <3>2, <3>3
  <2>4. Reached'
    BY <1>1, <2>3 DEF Reached, ListOf
  <2>5. QED
    BY <2>1, <2>2, <2>4
<1>7. NoneEarly'
  <2>1. ASSUME NEW s \in Sinks, NEW i \in DOMAIN Received'[s]
        PROVE  Received'[s][i][2] <= pushed[Received'[s][i][1]]
    <3>1. CASE s # u
      BY <1>2, <3>1 DEF Inv, NoneEarly
    <3>2. CASE s = u /\ i \in 1 .. l
      BY <1>2, <1>4, <1>5, <3>2 DEF Inv, NoneEarly
    <3>3. CASE s = u /\ i = l + 1
      BY <1>3, <1>5, <3>3
    <3>4. QED
      BY <1>4, <1>5, <3>1, <3>2, <3>3
  <2>2. QED
    BY <1>1, <2>1 DEF NoneEarly
<1>8. ASSUME NEW s \in Sinks, NEW q \in Pusher PROVE InOrder(s, q)'
  <2>1. CASE s # u
    <3>1. InOrder(s, q) /\ Received'[s] = Received[s]
      BY <1>2, <2>1 DEF Inv
    <3>2. QED
      BY <3>1 DEF InOrder
  <2>2. CASE s = u
    <3>1. ASSUME NEW i \in 1 .. l + 1, NEW j \in 1 .. l + 1, i < j,
                 Received'[u][i][1] = q, Received'[u][j][1] = q
          PROVE  Received'[u][i][2] <= Received'[u][j][2]
      <4>1. i \in 1 .. l /\ (j \in 1 .. l \/ j = l + 1)
        BY <1>4, <3>1
      <4>2. CASE j \in 1 .. l
        <5>1. InOrder(u, q)
          BY <1>2 DEF Inv
        <5>2. /\ i \in DOMAIN Received[u] /\ j \in DOMAIN Received[u]
              /\ Received'[u][i] = Received[u][i] /\ Received'[u][j] = Received[u][j]
          BY <1>4, <1>5, <4>1, <4>2
        <5>3. QED
          BY <3>1, <5>1, <5>2 DEF InOrder
      <4>3. CASE j = l + 1
        <5>1. q = p /\ Received'[u][j][2] = pushed[p]
          BY <1>3, <1>5, <3>1, <4>3
        <5>2. Received[u][i][2] <= pushed[Received[u][i][1]]
          BY <1>2, <1>4, <4>1 DEF Inv, NoneEarly
        <5>3. QED
          BY <1>5, <3>1, <4>1, <5>1, <5>2
      <4>4. QED
        BY <4>1, <4>2, <4>3
    <3>2. QED
      BY <1>5, <2>2, <3>1 DEF InOrder
  <2>3. QED
    BY <2>1, <2>2
<1>9. ASSUME NEW s \in Sinks, NEW q \in Pusher, NEW n \in Nat \ {0}
      PROVE  OnePerConnection(s, q, n)'
  <2>1. Cardinality(Copies(s, <<q, n>>)) = Cardinality(Served(s, q, n))
    BY DEF Inv, OnePerConnection
  <2>2. CASE s = u /\ <<q, n>> = e
    <3>1. q = p /\ n = pushed[p]
      BY <1>3, <2>2
    <3>2. Served(s, q, n)' = Served(s, q, n) \cup {at[p]} /\ at[p] \notin Served(s, q, n)
      BY <2>2, <3>1, InjectServed DEF u
    <3>3. /\ Copies(s, <<q, n>>)' = Copies(s, <<q, n>>) \cup {l + 1}
          /\ l + 1 \notin Copies(s, <<q, n>>)
          /\ Copies(s, <<q, n>>) \in SUBSET (1 .. l)
      <4>1. ASSUME NEW i \in 1 .. l + 1
            PROVE  i \in Copies(s, <<q, n>>)' <=> i \in Copies(s, <<q, n>>) \cup {l + 1}
        <5>1. i \in 1 .. l \/ i = l + 1
          BY <1>4
        <5>2. QED
          BY <1>4, <1>5, <2>2, <5>1 DEF Copies
      <4>2. Copies(s, <<q, n>>)' \subseteq 1 .. l + 1 /\ Copies(s, <<q, n>>) \subseteq 1 .. l
        BY <1>4, <1>5, <2>2 DEF Copies
      <4>3. 1 .. l \subseteq 1 .. l + 1 /\ l + 1 \in 1 .. l + 1 /\ l + 1 \notin 1 .. l
        BY <1>4
      <4>4. QED
        BY <4>1, <4>2, <4>3
    <3>4. IsFiniteSet(Copies(s, <<q, n>>))
      <4>1. IsFiniteSet(1 .. l)
        BY <1>4, FS_Interval
      <4>2. QED
        BY <3>3, <4>1, FS_Subset
    <3>5. IsFiniteSet(Served(s, q, n))
      BY ServedFinite
    <3>6. Cardinality(Copies(s, <<q, n>>)') = Cardinality(Served(s, q, n)')
      <4>1. Cardinality(Copies(s, <<q, n>>)') = Cardinality(Copies(s, <<q, n>>)) + 1
        BY <3>3, <3>4, FS_AddElement
      <4>2. Cardinality(Served(s, q, n)') = Cardinality(Served(s, q, n)) + 1
        BY <3>2, <3>5, FS_AddElement
      <4>3. QED
        BY <2>1, <4>1, <4>2
    <3>7. QED
      BY <3>6 DEF OnePerConnection
  <2>3. CASE ~ (s = u /\ <<q, n>> = e)
    <3>1. ~ (s = u /\ q = p /\ n = pushed[p])
      BY <2>3 DEF e
    <3>2. Served(s, q, n)' = Served(s, q, n)
      BY <3>1, InjectServed DEF u
    <3>3. Copies(s, <<q, n>>)' = Copies(s, <<q, n>>)
      <4>1. CASE s # u
        BY <1>2, <4>1 DEF Copies
      <4>2. CASE s = u
        <5>1. e # <<q, n>>
          BY <2>3, <4>2
        <5>2. \A i \in 1 .. l + 1 : i \in 1 .. l \/ i = l + 1
          BY <1>4
        <5>3. 1 .. l \subseteq 1 .. l + 1
          BY <1>4
        <5>4. QED
          BY <1>4, <1>5, <4>2, <5>1, <5>2, <5>3 DEF Copies
      <4>3. QED
        BY <4>1, <4>2
    <3>4. QED
      BY <2>1, <3>2, <3>3 DEF OnePerConnection
  <2>4. QED
    BY <2>2, <2>3
<1>10. QED
  BY <1>6, <1>7, <1>8, <1>9 DEF Inv
-----------------------------------------------------------------------------
(* connectTo() and the start of the sketches come before all pushes.       *)
LEMMA ConnectInv ==
    ASSUME Inv, Start \/ \E src \in Sources, s \in Sinks : ConnectTo(src, s)
    PROVE  Inv'
<1> Typed
  BY DEF Inv
<1>1. /\ ~running /\ UNCHANGED <<sourceOf, pushed, at, queue, popped>>
      /\ sinkList' \in [Sources -> Seq(Sinks)]
  <2>1. sinkList \in [Sources -> Seq(Sinks)]
    BY DEF Typed
  <2>2. QED
    <3>1. CASE Start
      BY <2>1, <3>1 DEF Start
    <3>2. ASSUME NEW src \in Sources, NEW s \in Sinks, ConnectTo(src, s)
          PROVE  /\ ~running /\ UNCHANGED <<sourceOf, pushed, at, queue, popped>>
                 /\ sinkList' \in [Sources -> Seq(Sinks)]
      <4>1. Append(sinkList[src], s) \in Seq(Sinks)
        BY <2>1, AppendProperties
      <4>2. QED
        BY <2>1, <3>2, <4>1 DEF ConnectTo
    <3>3. QED
      BY <3>1, <3>2
<1>2. \A p \in Pusher : pushed[p] = 0 /\ at[p] = 0
  BY <1>1 DEF Inv, NotYet
<1>3. Typed'
  BY <1>1 DEF Typed
<1>4. NotYet'
  BY <1>1, <1>2 DEF NotYet
<1>5. Reached'
  <2>1. ASSUME NEW p \in Pusher PROVE ListOf(p)' \in Seq(Sinks)
    BY <1>3 DEF Typed, ListOf
  <2>2. ASSUME NEW p \in Pusher PROVE at'[p] <= Len(ListOf(p)') + 1
    <3>1. Len(ListOf(p)') \in Nat /\ at'[p] = 0
      BY <1>1, <1>2, <2>1, LenProperties
    <3>2. QED
      BY <3>1
  <2>3. QED
    BY <2>2 DEF Reached
<1>6. \A s \in Sinks : Received'[s] = Received[s]
  BY <1>1 DEF Received
<1>7. ASSUME NEW s \in Sinks, NEW p \in Pusher, NEW n \in Nat \ {0}
      PROVE  Served(s, p, n)' = Served(s, p, n)
  <2>1. ~ (n < 0) /\ n # 0 /\ pushed[p] = 0 /\ pushed'[p] = 0
    BY <1>1, <1>2
  <2>2. Served(s, p, n) = {} /\ Served(s, p, n)' = {}
    BY <2>1 DEF Served
  <2>3. QED
    BY <2>2
<1>8. \A p \in Pusher : pushed'[p] \in {pushed[p], pushed[p] + 1}
  BY <1>1
<1>9. QED
  BY <1>3, <1>4, <1>5, <1>6, <1>7, <1>8, Quiet

(* A push that begins has served nothing, and one that returns everything. *)
LEMMA PushInv == ASSUME Inv, NEW p \in Pusher, Push(p) \/ PushReturn(p) PROVE Inv'
<1> Typed
  BY DEF Inv
<1>1. /\ UNCHANGED <<sourceOf, running, sinkList, queue, popped>>
      /\ \/ /\ running /\ at[p] = 0
            /\ pushed' = [pushed EXCEPT ![p] = pushed[p] + 1] /\ at' = [at EXCEPT ![p] = 1]
         \/ /\ at[p] = Len(ListOf(p)) + 1
            /\ pushed' = pushed /\ at' = [at EXCEPT ![p] = 0]
  BY DEF Push, PushReturn
<1>2. /\ pushed \in [Pusher -> Nat] /\ at \in [Pusher -> Nat]
      /\ \A q \in Pusher : Len(ListOf(q)) \in Nat
  BY Shapes DEF Typed
<1>3. running
  <2>1. at[p] # 0 => running
    BY DEF Inv, NotYet
  <2>2. Len(ListOf(p)) + 1 # 0
    BY <1>2
  <2>3. QED
    BY <1>1, <2>1, <2>2
<1>4. Typed' /\ NotYet'
  <2>1. pushed' \in [Pusher -> Nat] /\ at' \in [Pusher -> Nat]
    <3>1. CASE pushed' = [pushed EXCEPT ![p] = pushed[p] + 1] /\ at' = [at EXCEPT ![p] = 1]
      BY <1>2, <3>1
    <3>2. CASE pushed' = pushed /\ at' = [at EXCEPT ![p] = 0]
      BY <1>2, <3>2
    <3>3. QED
      BY <1>1, <3>1, <3>2
  <2>2. QED
    BY <1>1, <1>3, <2>1 DEF Typed, NotYet
<1>5. \A q \in Pusher : ListOf(q)' = ListOf(q)
  BY <1>1 DEF ListOf
<1>6. Reached'
  <2>1. ASSUME NEW q \in Pusher PROVE at'[q] <= Len(ListOf(q)) + 1
    <3>1. at[q] \in Nat /\ Len(ListOf(q)) \in Nat /\ at[q] <= Len(ListOf(q)) + 1
      BY <1>2 DEF Inv, Reached
    <3>2. at'[q] = at[q] \/ at'[q] = 0 \/ at'[q] = 1
      BY <1>1, <1>2
    <3>3. QED
      BY <3>1, <3>2
  <2>2. QED
    BY <1>5, <2>1 DEF Reached
<1>7. \A s \in Sinks : Received'[s] = Received[s]
  BY <1>1 DEF Received
<1>8. ASSUME NEW q \in Pusher PROVE pushed'[q] \in {pushed[q], pushed[q] + 1}
  BY <1>1, <1>2
<1>9. ASSUME NEW s \in Sinks, NEW q \in Pusher, NEW n \in Nat \ {0}
      PROVE  Served(s, q, n)' = Served(s, q, n)
  <2>1. Places(s, q)' = Places(s, q) /\ \A i \in Places(s, q) : i \in 1 .. Len(ListOf(q))
    BY <1>5, Shapes DEF Places
  <2>2. Served(s, q, n)' = {i \in Places(s, q) : n < pushed'[q] \/ (n = pushed'[q]
                                                  /\ at'[q] \notin 1 .. i)}
    BY <2>1 DEF Served
  <2>3. ASSUME NEW i \in Places(s, q)
        PROVE  (n < pushed'[q] \/ (n = pushed'[q] /\ at'[q] \notin 1 .. i))
                 <=> (n < pushed[q] \/ (n = pushed[q] /\ at[q] \notin 1 .. i))
    <3>1. i \in 1 .. Len(ListOf(q)) /\ Len(ListOf(q)) \in Nat /\ pushed[q] \in Nat
      BY <1>2, <2>1
    <3>2. CASE q # p
      <4>1. pushed'[q] = pushed[q] /\ at'[q] = at[q]
        BY <1>1, <1>2, <3>2
      <4>2. QED
        BY <4>1
    <3>3. CASE q = p /\ at[p] = 0 /\ pushed'[p] = pushed[p] + 1 /\ at'[p] = 1
      BY <3>1, <3>3
    <3>4. CASE q = p /\ at[p] = Len(ListOf(p)) + 1 /\ pushed'[p] = pushed[p] /\ at'[p] = 0
      BY <3>1, <3>4
    <3>5. QED
      BY <1>1, <1>2, <3>2, <3>3, <3>4
  <2>4. QED
    BY <2>2, <2>3 DEF Served
<1>10. QED
  BY <1>4, <1>6, <1>7, <1>8, <1>9, Quiet

(* pop() moves a value from what a sink holds to what was popped.          *)
LEMMA PopInv == ASSUME Inv, NEW u \in Sinks, Pop(u) PROVE Inv'
<1> Typed
  BY DEF Inv
<1>1. /\ UNCHANGED <<sourceOf, running, sinkList, pushed, at>> /\ queue[u] # <<>>
      /\ popped' = [popped EXCEPT ![u] = Append(popped[u], Head(queue[u]))]
      /\ queue' = [queue EXCEPT ![u] = Tail(queue[u])]
  BY DEF Pop
<1>2. queue \in [Sinks -> Seq(Element)] /\ popped \in [Sinks -> Seq(Element)]
  BY DEF Typed
<1>3. queue[u] \in Seq(Element) /\ popped[u] \in Seq(Element)
  BY <1>2
<1>4. Head(queue[u]) \in Element /\ Tail(queue[u]) \in Seq(Element)
      /\ Append(popped[u], Head(queue[u])) \in Seq(Element)
  BY <1>1, <1>3, HeadTailProperties, AppendProperties
<1>5. Typed'
  BY <1>1, <1>2, <1>4 DEF Typed
<1>6. Append(popped[u], Head(queue[u])) \o Tail(queue[u]) = popped[u] \o queue[u]
  BY <1>1, <1>3, HeadMoves
<1>7. ASSUME NEW s \in Sinks PROVE Received'[s] = Received[s]
  BY <1>1, <1>2, <1>6 DEF Received
<1>8. NotYet' /\ Reached'
  BY <1>1 DEF Inv, NotYet, Reached, ListOf
<1>9. ASSUME NEW s \in Sinks, NEW p \in Pusher, NEW n \in Nat \ {0}
      PROVE  Served(s, p, n)' = Served(s, p, n)
  BY <1>1 DEF Served, Places, ListOf
<1>10. \A p \in Pusher : pushed'[p] \in {pushed[p], pushed[p] + 1}
  BY <1>1
<1>11. QED
  BY <1>5, <1>7, <1>8, <1>9, <1>10, Quiet

(* At first there are no connections and no values.                        *)
LEMMA InitInv == Init => Inv
<1> SUFFICES ASSUME Init PROVE Inv
  OBVIOUS
<1>1. Typed
  BY OwnershipAssumption DEF Init, Typed
<1>2. NotYet
  BY DEF Init, NotYet
<1>3. Reached
  <2>1. ASSUME NEW p \in Pusher PROVE at[p] <= Len(ListOf(p)) + 1
    <3>1. at[p] = 0 /\ Len(ListOf(p)) \in Nat
      BY <1>1, Shapes DEF Init
    <3>2. QED
      BY <3>1
  <2>2. QED
    BY <2>1 DEF Reached
<1>4. ASSUME NEW s \in Sinks PROVE DOMAIN Received[s] = {}
  BY DEF Init, Received
<1>5. NoneEarly /\ \A s \in Sinks, p \in Pusher : InOrder(s, p)
  BY <1>4 DEF NoneEarly, InOrder
<1>6. ASSUME NEW s \in Sinks, NEW p \in Pusher, NEW n \in Nat \ {0}
      PROVE  OnePerConnection(s, p, n)
  <2>1. Copies(s, <<p, n>>) = {}
    BY <1>4 DEF Copies
  <2>2. pushed[p] = 0 /\ ~ (n < 0) /\ n # 0
    BY DEF Init
  <2>3. Served(s, p, n) = {}
    BY <2>2 DEF Served
  <2>4. QED
    BY <2>1, <2>3 DEF OnePerConnection
<1>7. QED
  BY <1>1, <1>2, <1>3, <1>5, <1>6 DEF Inv

(* The inductive invariant of the sources and their sinks.                 *)
THEOREM Invariance == Spec => []Inv
<1>1. Inv /\ [Next]_vars => Inv'
  <2> SUFFICES ASSUME Inv, [Next]_vars PROVE Inv'
    OBVIOUS
  <2>1. CASE UNCHANGED vars
    <3>1. UNCHANGED <<sourceOf, running, sinkList, pushed, at, queue, popped>>
      BY <2>1 DEF vars
    <3>2. Typed' /\ NotYet' /\ Reached'
      BY <3>1 DEF Inv, Typed, NotYet, Reached, ListOf
    <3>3. \A s \in Sinks : Received'[s] = Received[s]
      BY <3>1 DEF Received
    <3>4. \A p \in Pusher : pushed'[p] \in {pushed[p], pushed[p] + 1}
      BY <3>1
    <3>5. ASSUME NEW s \in Sinks, NEW p \in Pusher, NEW n \in Nat \ {0}
          PROVE  Served(s, p, n)' = Served(s, p, n)
      BY <3>1 DEF Served, Places, ListOf
    <3>6. QED
      BY <3>2, <3>3, <3>4, <3>5, Quiet
  <2>2. ASSUME NEW p \in Pusher, Push(p) \/ Inject(p) \/ PushReturn(p) PROVE Inv'
    BY <2>2, PushInv, InjectInv
  <2>3. ASSUME NEW s \in Sinks, Pop(s) PROVE Inv'
    BY <2>3, PopInv
  <2>4. QED
    BY <2>1, <2>2, <2>3, ConnectInv DEF Next
<1>2. QED
  BY <1>1, InitInv, PTL DEF Spec

(* Every sink has seen every value its source provided, in the order of    *)
(* the pushes, once for each connection; of the value being pushed, those  *)
(* the push has passed.                                                    *)
THEOREM SinksSeeAll == Spec => []EverySinkSeesEveryValue
<1>1. ASSUME Inv PROVE EverySinkSeesEveryValue
  <2>1. ASSUME NEW p \in Pusher, NEW s \in Sinks PROVE InOrder(s, p)
    BY <1>1 DEF Inv
  <2>2. ASSUME NEW p \in Pusher, NEW s \in Sinks, NEW n \in 1 .. MaxPushes
        PROVE  OnePerConnection(s, p, n)
    <3>1. n \in Nat \ {0}
      BY BoundAssumption
    <3>2. QED
      BY <1>1, <3>1 DEF Inv
  <2>3. QED
    BY <2>1, <2>2 DEF EverySinkSeesEveryValue, InOrder, OnePerConnection, Copies
<1>2. QED
  BY <1>1, Invariance, PTL
=============================================================================
