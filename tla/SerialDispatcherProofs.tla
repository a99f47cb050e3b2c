----------------------- MODULE SerialDispatcherProofs -----------------------
(***************************************************************************)
(* Safety of SerialDispatcher for any threads, any sizes of the rings and  *)
(* any number of calls.                                                    *)
(***************************************************************************)
EXTENDS SerialDispatcher, SequenceTheorems, FiniteSetTheorems, WellFoundedInduction, TLAPS

Byte == Thread \X Nat \X Nat
Text == Seq(Byte)

Entry == [id : Thread, flag : Nat, tx : Text, blocked : BOOLEAN,
          rx : Thread \cup {NoBuffer}, prefix : BOOLEAN, suffix : BOOLEAN]

Whose == {"none", "own", "global"}

Message == [prefix : Whose, text : Text, suffix : Whose]

Typed ==
    /\ list \in Seq(Entry)
    /\ worker \in {"off", "starting", "wait", "iterate", "prefix", "write"}
    /\ msg \in Message /\ sent \in Seq(Message)
    /\ pc \in [Thread -> {"idle", "spin", "join", "write"}]
    /\ sections \in [Thread -> Nat] /\ stored \in [Thread -> Nat]
    /\ using \subseteq Thread /\ ended \subseteq Thread

(* Between two messages the worker has nothing in its hand.                *)
HandEmpty == worker \notin {"prefix", "write"} => msg.text = <<>>

(* A write() under way is that of a thread that has an entry.              *)
WritersRegistered == \A t \in Thread : pc[t] = "write" => t \in using

(* A thread that has not called begin() has written nothing.               *)
Newcomers == \A t \in Thread \ (using \cup ended) : stored[t] = 0

(* The bytes in an entry are its thread's, and its ring for bytes that     *)
(* arrive is its thread's.                                                 *)
Owned == \A i \in DOMAIN list :
            /\ \A p \in DOMAIN list[i].tx : list[i].tx[p][1] = list[i].id
            /\ list[i].rx \in {NoBuffer, list[i].id}

(* The numbers in byte b are those of bytes written and sections begun.    *)
Numbered(b) == b[2] \in 1 .. stored[b[1]] /\ b[3] \in 0 .. sections[b[1]]

AllNumbered ==
    /\ \A i \in DOMAIN Texts : \A p \in DOMAIN Texts[i] : Numbered(Texts[i][p])
    /\ \A i \in DOMAIN list : \A p \in DOMAIN list[i].tx : Numbered(list[i].tx[p])

(* Before any end() a thread has one entry at most.                        *)
OneEntry == \A i, j \in DOMAIN list : list[i].id = list[j].id => i = j

(* b comes before c in the stream of a thread.                             *)
Precedes(b, c) == b[1] = c[1] => b[2] < c[2]

InOrder(s) == \A p, q \in DOMAIN s : p < q => Precedes(s[p], s[q])
AllPrecede(s, u) == \A p \in DOMAIN s, q \in DOMAIN u : Precedes(s[p], u[q])

(* Before any end(): each text is in order, each text precedes the next    *)
(* ones and the rings.                                                     *)
Ordered ==
    /\ \A i \in DOMAIN Texts : InOrder(Texts[i])
    /\ \A i, j \in DOMAIN Texts : i < j => AllPrecede(Texts[i], Texts[j])
    /\ \A k \in DOMAIN list : InOrder(list[k].tx)
    /\ \A i \in DOMAIN Texts, k \in DOMAIN list : AllPrecede(Texts[i], list[k].tx)

(* Before any end(): a section that has left in a message is complete.     *)
Sections ==
    \A t \in Thread, s \in Nat \ {0} :
        /\ \A i, j \in DOMAIN Texts :
              InSection(Texts[i], t, s) /\ InSection(Texts[j], t, s) => i = j
        /\ \A i \in DOMAIN Texts, k \in DOMAIN list :
              InSection(Texts[i], t, s) /\ list[k].id = t
                => ~InSection(list[k].tx, t, s) /\ (list[k].blocked => sections[t] # s)

Inv == /\ Typed /\ HandEmpty /\ UsersRegistered /\ WritersRegistered
       /\ Newcomers /\ Owned /\ AllNumbered /\ NothingLost
       /\ ended = {} => OneEntry /\ Ordered /\ Sections

(* The bytes that arrive.                                                  *)
Increasing(s) == \A i, j \in DOMAIN s : i < j => s[i] < s[j]

RxTyped ==
    /\ rxBuffer \in [Thread -> Seq(Nat)] /\ got \in [Thread -> Seq(Nat)]
    /\ missed \in [Thread -> SUBSET Nat]
    /\ arrived \in Nat /\ consumed \in Nat /\ consumed <= arrived

Subscriber(t) == \E i \in DOMAIN list : list[i].id = t /\ list[i].rx = t

Seen(t) == got[t] \o rxBuffer[t]

(* Before any end(): a thread has seen or missed the bytes from its first  *)
(* to the last one consumed, and none before its first call.               *)
SeenInOrder(t) ==
    /\ ~Subscriber(t) => got[t] = <<>> /\ rxBuffer[t] = <<>> /\ missed[t] = {}
    /\ Increasing(Seen(t))
    /\ ToSet(Seen(t)) \cap missed[t] = {}
    /\ ToSet(Seen(t)) \cup missed[t] # {} =>
          \E first \in 1 .. arrived : ToSet(Seen(t)) \cup missed[t] = first .. consumed

RxInv == ended = {} => RxTyped /\ \A t \in Thread : SeenInOrder(t)
-----------------------------------------------------------------------------
(* A set of places that is not empty has a first one.                      *)
LEMMA MinPlace == ASSUME NEW n \in Nat, NEW S \in SUBSET (1 .. n), S # {}
                  PROVE  Min(S) \in S
<1>1. S \subseteq Nat
  OBVIOUS
<1>2. PICK x \in S : \A y \in S : ~ (<<y, x>> \in OpToRel(<, Nat))
  BY <1>1, WFMin, NatLessThanWellFounded, Zenon
<1>3. ASSUME NEW y \in S PROVE x <= y
  <2>1. x \in Nat /\ y \in Nat /\ <<y, x>> \notin OpToRel(<, Nat)
    BY <1>1, <1>2
  <2>2. <<y, x>> \in Nat \X Nat /\ <<y, x>>[1] = y /\ <<y, x>>[2] = x
    BY <2>1
  <2>3. ~ (y < x)
    BY <2>1, <2>2 DEF OpToRel
  <2>4. QED
    BY <1>1, <2>3
<1>4. QED
  BY <1>3 DEF Min

(* The entry that findThreadCustomerDataById() returns is the thread's.    *)
LEMMA FindOwn == ASSUME NEW t, list \in Seq(Entry), Registered(t)
                 PROVE  Find(t) \in 1 .. Len(list) /\ list[Find(t)].id = t
<1>1. Len(list) \in Nat /\ DOMAIN list = 1 .. Len(list)
  BY LenProperties
<1> DEFINE S == {i \in DOMAIN list : list[i].id = t}
<1>2. S \in SUBSET (1 .. Len(list)) /\ S # {}
  BY <1>1 DEF Registered
<1>3. Min(S) \in S
  <2> HIDE DEF S
  <2>1. QED
    BY <1>1, <1>2, MinPlace
<1>4. QED
  BY <1>1, <1>3 DEF Find

(* Entries that stay move to places of their own.                          *)
LEMMA PlaceOwn ==
    ASSUME NEW t, list \in Seq(Entry), NEW i \in Others(t), NEW k \in Others(t)
    PROVE  /\ Place(t, i) \in 1 .. Len(list)
           /\ Place(t, i) = Place(t, k) => i = k
<1>1. Len(list) \in Nat /\ DOMAIN list = 1 .. Len(list)
  BY LenProperties
<1> DEFINE Upto(m) == {j \in Others(t) : j <= m}
<1>2. IsFiniteSet(1 .. Len(list)) /\ Cardinality(1 .. Len(list)) = Len(list)
  BY SMTT(60), <1>1, FS_Interval
<1>3. \A m : Upto(m) \in SUBSET (1 .. Len(list))
  BY <1>1 DEF Others
<1>4. ASSUME NEW m PROVE IsFiniteSet(Upto(m)) /\ Cardinality(Upto(m)) \in Nat
                         /\ Cardinality(Upto(m)) <= Len(list)
  <2> HIDE DEF Upto
  <2>1. QED
    BY <1>2, <1>3, FS_Subset, FS_CardinalityType
<1>5. i \in Upto(i) /\ k \in Upto(k) /\ i \in Int /\ k \in Int
  BY <1>1 DEF Others
<1>6. Cardinality(Upto(i)) # 0
  <2> HIDE DEF Upto
  <2>1. QED
    BY <1>4, <1>5, FS_EmptySet
<1>7. ASSUME NEW a \in Others(t), NEW b \in Others(t), a < b
      PROVE  Cardinality(Upto(a)) # Cardinality(Upto(b))
  <2>1. Upto(a) \in SUBSET Upto(b) /\ b \in Upto(b) /\ b \notin Upto(a)
    BY <1>1, <1>7 DEF Others
  <2> HIDE DEF Upto
  <2>2. QED
    BY <1>4, <2>1, FS_Subset
<1>8. i < k \/ k < i \/ i = k
  BY <1>5
<1>9. Place(t, i) = Cardinality(Upto(i)) /\ Place(t, k) = Cardinality(Upto(k))
  BY DEF Place
<1> HIDE DEF Upto
<1>10. QED
  BY <1>1, <1>4, <1>6, <1>7, <1>8, <1>9

(* What the list and the ring hold of an entry survives a move from it.    *)
LEMMA MoveLeaves ==
    ASSUME NEW d \in Entry, NEW e \in {d, MovedFrom(d)}
    PROVE  e \in Entry /\ e.id = d.id /\ e.tx = d.tx /\ e.rx = d.rx
BY DEF MovedFrom, Entry

(* end() keeps every entry of another thread and makes none up.            *)
LEMMA CompactKeeps ==
    ASSUME NEW t, list \in Seq(Entry)
    PROVE  /\ Compact(t) \in Seq(Entry) /\ Len(Compact(t)) = Len(list)
           /\ \A k \in 1 .. Len(list) : \E i \in 1 .. Len(list) :
                Compact(t)[k] \in {list[i], MovedFrom(list[i])}
           /\ \A i \in 1 .. Len(list) : list[i].id # t =>
                \E k \in 1 .. Len(list) : Compact(t)[k] = list[i]
<1>1. Len(list) \in Nat /\ DOMAIN list = 1 .. Len(list)
      /\ \A i \in 1 .. Len(list) : list[i] \in Entry
  BY LenProperties, ElementOfSeq
<1>2. Others(t) \subseteq 1 .. Len(list)
  BY <1>1 DEF Others
<1>3. ASSUME NEW k \in 1 .. Len(list)
      PROVE  \E i \in 1 .. Len(list) : Compact(t)[k] \in {list[i], MovedFrom(list[i])}
  <2>1. CASE \E i \in Others(t) : Place(t, i) = k
    <3>1. (CHOOSE i \in Others(t) : Place(t, i) = k) \in Others(t)
      BY <2>1
    <3>2. Compact(t)[k] = list[CHOOSE i \in Others(t) : Place(t, i) = k]
      BY <1>1, <2>1 DEF Compact
    <3>3. QED
      BY <1>2, <3>1, <3>2
  <2>2. CASE ~ \E i \in Others(t) : Place(t, i) = k
    BY <1>1, <2>2 DEF Compact
  <2>3. QED
    BY <2>1, <2>2
<1>4. ASSUME NEW i \in 1 .. Len(list), list[i].id # t
      PROVE  \E k \in 1 .. Len(list) : Compact(t)[k] = list[i]
  <2>1. i \in Others(t)
    BY <1>1, <1>4 DEF Others
  <2> DEFINE k == Place(t, i)
             c == CHOOSE j \in Others(t) : Place(t, j) = k
  <2>2. k \in 1 .. Len(list)
    BY <2>1, PlaceOwn
  <2>3. c \in Others(t) /\ Place(t, c) = k
    BY <2>1
  <2>4. c = i
    <3> HIDE DEF c
    <3>1. QED
      BY <2>1, <2>3, PlaceOwn
  <2>5. Compact(t)[k] = list[c]
    BY <1>1, <2>1, <2>2 DEF Compact
  <2>6. QED
    BY <2>2, <2>4, <2>5
<1>5. Compact(t) \in [1 .. Len(list) -> Entry]
  <2>1. Compact(t) = [k \in 1 .. Len(list) |-> Compact(t)[k]]
    BY <1>1 DEF Compact
  <2> HIDE DEF Compact
  <2>2. \A k \in 1 .. Len(list) : Compact(t)[k] \in Entry
    BY <1>1, <1>3, MoveLeaves
  <2>3. QED
    BY <2>1, <2>2
<1>6. Compact(t) \in Seq(Entry) /\ Len(Compact(t)) = Len(list)
  <2> HIDE DEF Compact
  <2>1. QED
    BY <1>1, <1>5
<1>7. QED
  BY <1>3, <1>4, <1>6
-----------------------------------------------------------------------------
TextsOf(s, m) == Append([i \in DOMAIN s |-> s[i].text], m.text)

(* The texts of the messages sent, and last the one in the worker's hand.  *)
LEMMA TextsTyped ==
    ASSUME NEW s \in Seq(Message), NEW m \in Message
    PROVE  LET T == TextsOf(s, m) IN
           /\ T \in Seq(Text) /\ Len(s) \in Nat /\ Len(T) = Len(s) + 1
           /\ DOMAIN T = 1 .. Len(s) + 1
           /\ \A i \in 1 .. Len(s) : T[i] = s[i].text
           /\ T[Len(s) + 1] = m.text
<1>1. Len(s) \in Nat /\ DOMAIN s = 1 .. Len(s) /\ \A i \in 1 .. Len(s) : s[i] \in Message
  BY LenProperties, ElementOfSeq
<1> DEFINE T == TextsOf(s, m)
           U == [i \in DOMAIN s |-> s[i].text]
<1>2. m.text \in Text /\ \A i \in 1 .. Len(s) : U[i] = s[i].text /\ s[i].text \in Text
  BY <1>1 DEF Message
<1>3. U \in Seq(Text) /\ Len(U) = Len(s)
  BY <1>1, <1>2
<1> HIDE DEF U
<1>4. T = Append(U, m.text)
  BY DEF U, TextsOf
<1> HIDE DEF T
<1>5. /\ T \in Seq(Text) /\ Len(T) = Len(s) + 1
      /\ \A i \in 1 .. Len(s) : T[i] = U[i]
      /\ T[Len(s) + 1] = m.text
  BY <1>2, <1>3, <1>4, AppendProperties
<1>6. QED
  BY <1>1, <1>2, <1>5, LenProperties DEF T

(* What the invariant says of the sizes and the elements of the lists.     *)
LEMMA Shapes ==
    ASSUME Typed
    PROVE  /\ Len(list) \in Nat /\ DOMAIN list = 1 .. Len(list)
           /\ \A k \in 1 .. Len(list) : list[k] \in Entry /\ list[k].tx \in Text
           /\ Texts \in Seq(Text) /\ Len(sent) \in Nat /\ Len(Texts) = Len(sent) + 1
           /\ DOMAIN Texts = 1 .. Len(sent) + 1
           /\ \A i \in 1 .. Len(sent) : Texts[i] = sent[i].text
           /\ Texts[Len(sent) + 1] = msg.text
<1>1. list \in Seq(Entry) /\ sent \in Seq(Message) /\ msg \in Message
  BY DEF Typed
<1>2. /\ Len(list) \in Nat /\ DOMAIN list = 1 .. Len(list)
      /\ \A k \in 1 .. Len(list) : list[k] \in Entry
  BY <1>1, LenProperties, ElementOfSeq
<1>3. Texts = TextsOf(sent, msg)
  BY DEF Texts, TextsOf
<1>4. \A k \in 1 .. Len(list) : list[k].tx \in Text
  BY <1>2 DEF Entry
<1>5. /\ Texts \in Seq(Text) /\ Len(sent) \in Nat /\ Len(Texts) = Len(sent) + 1
      /\ DOMAIN Texts = 1 .. Len(sent) + 1
      /\ \A i \in 1 .. Len(sent) : Texts[i] = sent[i].text
      /\ Texts[Len(sent) + 1] = msg.text
  BY <1>1, <1>3, TextsTyped
<1>6. QED
  BY <1>2, <1>4, <1>5

(* A step that leaves all bytes where they are, and begins sections only   *)
(* by number, preserves the invariant.                                     *)
LEMMA Quiet ==
    ASSUME Inv, Typed', HandEmpty', WritersRegistered',
           UNCHANGED <<Texts, stored, using, ended>>,
           Len(list') = Len(list),
           \A t \in Thread : sections'[t] \in {sections[t], sections[t] + 1},
           \A k \in 1 .. Len(list) :
               /\ list'[k].id = list[k].id /\ list'[k].tx = list[k].tx
               /\ list'[k].rx \in {NoBuffer, list[k].id}
               /\ list'[k].blocked => \/ sections'[list[k].id] = sections[list[k].id] + 1
                                      \/ list[k].blocked
    PROVE  Inv'
<1> Typed
  BY DEF Inv
<1>1. /\ Len(list) \in Nat /\ DOMAIN list = 1 .. Len(list) /\ DOMAIN list' = 1 .. Len(list)
      /\ \A k \in 1 .. Len(list) : list[k].tx \in Text /\ list[k].id \in Thread
  <2>1. list' \in Seq(Entry)
    BY DEF Typed
  <2>2. DOMAIN list' = 1 .. Len(list')
    BY <2>1, LenProperties
  <2>3. QED
    BY <2>2, Shapes DEF Entry
<1>2. /\ Texts \in Seq(Text) /\ DOMAIN Texts = 1 .. Len(Texts) /\ Len(Texts) \in Nat
      /\ \A i \in 1 .. Len(Texts) : Texts[i] \in Text
  BY Shapes, LenProperties, ElementOfSeq DEF Inv
<1>3. UsersRegistered'
  BY <1>1 DEF Inv, UsersRegistered, Registered
<1>4. Owned' /\ Newcomers'
  BY <1>1 DEF Inv, Owned, Newcomers
<1>5. ASSUME NEW b \in Byte, Numbered(b)
      PROVE  b[2] \in 1 .. stored'[b[1]] /\ b[3] \in 0 .. sections'[b[1]]
  <2>1. b[1] \in Thread
    BY DEF Byte
  <2>2. sections[b[1]] \in Nat /\ stored' = stored
    BY <2>1 DEF Typed
  <2>3. QED
    BY <1>5, <2>1, <2>2 DEF Numbered
<1>6. AllNumbered'
  <2>1. ASSUME NEW s \in Text, NEW p \in DOMAIN s PROVE s[p] \in Byte
    BY LenProperties, ElementOfSeq DEF Text
  <2>2. ASSUME NEW i \in 1 .. Len(Texts), NEW p \in DOMAIN Texts[i]
        PROVE  LET b == Texts[i][p]
               IN  b[2] \in 1 .. stored'[b[1]] /\ b[3] \in 0 .. sections'[b[1]]
    BY <1>2, <1>5, <2>1 DEF Inv, AllNumbered
  <2>3. ASSUME NEW k \in 1 .. Len(list), NEW p \in DOMAIN list[k].tx
        PROVE  LET b == list[k].tx[p]
               IN  b[2] \in 1 .. stored'[b[1]] /\ b[3] \in 0 .. sections'[b[1]]
    BY <1>1, <1>5, <2>1 DEF Inv, AllNumbered
  <2>4. QED
    BY <1>1, <1>2, <2>2, <2>3 DEF AllNumbered, Numbered
<1>7. NothingLost'
  BY <1>1 DEF Inv, NothingLost
<1>8. ASSUME ended' = {} PROVE OneEntry' /\ Ordered' /\ Sections'
  <2>1. ended = {} /\ OneEntry /\ Ordered /\ Sections
    BY <1>8 DEF Inv
  <2>2. OneEntry'
    BY <1>1, <2>1 DEF OneEntry
  <2>3. Ordered'
    BY <1>1, <2>1 DEF Ordered
  <2>4. ASSUME NEW t \in Thread, NEW s \in Nat \ {0}, NEW i \in DOMAIN Texts,
               NEW k \in 1 .. Len(list), InSection(Texts[i], t, s), list[k].id = t
        PROVE  ~InSection(list[k].tx, t, s) /\ (list'[k].blocked => sections'[t] # s)
    <3>1. ~InSection(list[k].tx, t, s) /\ (list[k].blocked => sections[t] # s)
      BY <1>1, <2>1, <2>4 DEF Sections
    <3>2. PICK p \in DOMAIN Texts[i] : Texts[i][p][1] = t /\ Texts[i][p][3] = s
      BY <2>4 DEF InSection
    <3>3. s \in 0 .. sections[t]
      BY <3>2 DEF Inv, AllNumbered, Numbered
    <3>4. QED
      BY <1>1, <2>4, <3>1, <3>3 DEF Inv, Typed
  <2>5. Sections'
    BY <1>1, <2>1, <2>4 DEF Sections
  <2>6. QED
    BY <2>2, <2>3, <2>5
<1>9. QED
  BY <1>3, <1>4, <1>6, <1>7, <1>8 DEF Inv
-----------------------------------------------------------------------------
(* A step that leaves the list and the texts preserves the invariant.      *)
LEMMA Same ==
    ASSUME Inv, UNCHANGED <<list, sent, stored, using, ended, sections>>,
           msg' \in Message, msg'.text = msg.text,
           worker' \in {"off", "starting", "wait", "iterate", "prefix", "write"},
           pc' \in [Thread -> {"idle", "spin", "join", "write"}],
           HandEmpty', WritersRegistered'
    PROVE  Inv'
<1>1. Typed'
  BY DEF Inv, Typed
<1>2. Texts' = Texts
  BY DEF Texts
<1>3. \A t \in Thread : sections'[t] \in {sections[t], sections[t] + 1}
  OBVIOUS
<1>4. \A k \in 1 .. Len(list) : list[k].rx \in {NoBuffer, list[k].id}
  BY Shapes DEF Inv, Owned
<1>5. QED
  BY <1>1, <1>2, <1>3, <1>4, Quiet

(* The calls that only begin or only wait, and the bytes that arrive.      *)
LEMMA CallsSame ==
    ASSUME Inv, NEW t \in Thread,
           \/ BeginFirst(t) \/ EndUnused(t) \/ WriteReturn(t) \/ Arrive
           \/ \E len : WriteCall(t, len)
    PROVE  Inv'
<1>1. /\ UNCHANGED <<list, sent, msg, stored, using, ended, sections>>
      /\ worker' = worker \/ (worker = "off" /\ worker' = "starting")
      /\ pc' = pc \/ \E c \in {"spin", "join", "idle", "write"} :
                        pc' = [pc EXCEPT ![t] = c] /\ (c = "write" => t \in using)
  BY DEF BeginFirst, EndUnused, WriteReturn, Arrive, WriteCall, UserCalls, histVars, callVars,
         rxVars, txVars
<1>2. /\ msg \in Message /\ pc \in [Thread -> {"idle", "spin", "join", "write"}]
      /\ worker \in {"off", "starting", "wait", "iterate", "prefix", "write"}
      /\ HandEmpty /\ WritersRegistered
  BY DEF Inv, Typed
<1>3. HandEmpty'
  BY <1>1, <1>2 DEF HandEmpty
<1>4. WritersRegistered' /\ pc' \in [Thread -> {"idle", "spin", "join", "write"}]
  BY <1>1, <1>2 DEF WritersRegistered
<1>5. worker' \in {"off", "starting", "wait", "iterate", "prefix", "write"}
  BY <1>1, <1>2
<1>6. QED
  BY <1>1, <1>2, <1>3, <1>4, <1>5, Same

(* The steps of the worker between two messages, and in the suffix.        *)
LEMMA WorkerSame ==
    ASSUME Inv, WorkerStart \/ WorkerWait \/ WorkerSuffix \/ WorkerDone
    PROVE  Inv'
<1>1. /\ UNCHANGED <<list, sent, pc, stored, using, ended, sections>>
      /\ \/ msg' = msg /\ worker \notin {"prefix", "write"} /\ worker' \in {"wait", "iterate"}
         \/ msg' = [msg EXCEPT !.suffix = Chosen("suffix")] /\ worker' = "write"
  BY DEF WorkerStart, WorkerWait, WorkerSuffix, WorkerDone, WorkerGoto, OthersUnchanged,
         callVars, histVars
<1>2. /\ msg \in Message /\ pc \in [Thread -> {"idle", "spin", "join", "write"}]
      /\ worker \in {"off", "starting", "wait", "iterate", "prefix", "write"}
      /\ HandEmpty /\ WritersRegistered
  BY DEF Inv, Typed
<1>3. Chosen("suffix") \in Whose
  BY DEF Chosen, Whose
<1>4. msg' \in Message /\ msg'.text = msg.text
  BY <1>1, <1>2, <1>3 DEF Message
<1>5. HandEmpty' /\ WritersRegistered'
  BY <1>1, <1>2, <1>4 DEF HandEmpty, WritersRegistered
<1>6. QED
  BY <1>1, <1>2, <1>4, <1>5, Same

(* A user has an entry, and that entry is what its calls change.           *)
LEMMA UserFinds ==
    ASSUME Inv, NEW t \in using
    PROVE  /\ t \in Thread /\ Find(t) \in 1 .. Len(list)
           /\ list[Find(t)] \in Entry /\ list[Find(t)].id = t
<1>1. list \in Seq(Entry) /\ Registered(t) /\ t \in Thread
  BY DEF Inv, Typed, UsersRegistered
<1>2. QED
  BY <1>1, FindOwn, ElementOfSeq

(* block(), unblock() and the calls of a reader leave the bytes to send.   *)
LEMMA EntrySame ==
    ASSUME Inv, NEW t \in Thread, Block(t) \/ Unblock(t) \/ Look(t) \/ Read(t)
    PROVE  Inv'
<1> DEFINE f == Find(t)
<1>1. /\ t \in using
      /\ UNCHANGED <<sent, msg, worker, pc, stored, using, ended>>
      /\ \/ /\ list' = [list EXCEPT ![f] = [list[f] EXCEPT !.blocked = TRUE]]
            /\ sections' = [sections EXCEPT ![t] = @ + 1]
         \/ /\ list' = [list EXCEPT ![f] = [list[f] EXCEPT !.blocked = FALSE]]
            /\ sections' = sections
         \/ /\ list' = [list EXCEPT ![f] = [list[f] EXCEPT !.rx = t]]
            /\ sections' = sections
  BY DEF Block, Unblock, Look, Read, Receive, Prepared, UserCalls, histVars, callVars, txVars
<1>2. f \in 1 .. Len(list) /\ list[f] \in Entry /\ list[f].id = t
  BY <1>1, UserFinds
<1>3. PICK e \in Entry : /\ list' = [list EXCEPT ![f] = e]
                         /\ e.id = t /\ e.tx = list[f].tx
                         /\ e.rx \in {list[f].rx, t}
                         /\ e.blocked => list[f].blocked \/ sections'[t] = sections[t] + 1
  <2> HIDE DEF f
  <2>1. sections \in [Thread -> Nat]
    BY DEF Inv, Typed
  <2>2. CASE list' = [list EXCEPT ![f] = [list[f] EXCEPT !.blocked = TRUE]]
             /\ sections' = [sections EXCEPT ![t] = @ + 1]
    <3>1. [list[f] EXCEPT !.blocked = TRUE] \in Entry
      BY <1>2 DEF Entry
    <3>2. QED
      BY <1>2, <2>1, <2>2, <3>1 DEF Entry
  <2>3. CASE list' = [list EXCEPT ![f] = [list[f] EXCEPT !.blocked = FALSE]]
    <3>1. [list[f] EXCEPT !.blocked = FALSE] \in Entry
      BY <1>2 DEF Entry
    <3>2. QED
      BY <1>2, <2>3, <3>1 DEF Entry
  <2>4. CASE list' = [list EXCEPT ![f] = [list[f] EXCEPT !.rx = t]]
             /\ sections' = sections
    <3>1. [list[f] EXCEPT !.rx = t] \in Entry
      BY <1>2 DEF Entry
    <3>2. QED
      BY <1>2, <2>4, <3>1 DEF Entry
  <2>5. QED
    BY <1>1, <2>2, <2>3, <2>4
<1> HIDE DEF f
<1>4. /\ list \in Seq(Entry) /\ sections \in [Thread -> Nat]
      /\ \A k \in 1 .. Len(list) : list[k].rx \in {NoBuffer, list[k].id}
  BY Shapes DEF Inv, Typed, Owned
<1>5. /\ list' \in Seq(Entry) /\ Len(list') = Len(list)
      /\ \A k \in 1 .. Len(list) : list'[k] = IF k = f THEN e ELSE list[k]
  BY <1>2, <1>3, <1>4, ExceptSeq
<1>6. sections' \in [Thread -> Nat]
      /\ \A u \in Thread : sections'[u] \in {sections[u], sections[u] + 1}
  BY <1>1, <1>4
<1>7. Typed' /\ HandEmpty' /\ WritersRegistered'
  BY <1>1, <1>5, <1>6 DEF Inv, Typed, HandEmpty, WritersRegistered
<1>8. Texts' = Texts
  BY <1>1 DEF Texts
<1>9. ASSUME NEW k \in 1 .. Len(list)
      PROVE  /\ list'[k].id = list[k].id /\ list'[k].tx = list[k].tx
             /\ list'[k].rx \in {NoBuffer, list[k].id}
             /\ list'[k].blocked => \/ sections'[list[k].id] = sections[list[k].id] + 1
                                    \/ list[k].blocked
  BY <1>2, <1>3, <1>4, <1>5
<1>10. QED
  BY <1>1, <1>5, <1>6, <1>7, <1>8, <1>9, Quiet
-----------------------------------------------------------------------------
(* The constants and the bytes of the texts, for the steps below.          *)
LEMMA TextBytes == ASSUME NEW s \in Text
                   PROVE  /\ Len(s) \in Nat /\ DOMAIN s = 1 .. Len(s)
                          /\ \A p \in DOMAIN s :
                               s[p] \in Byte /\ s[p][1] \in Thread /\ s[p][2] \in Nat
                               /\ s[p][3] \in Nat
<1>1. Len(s) \in Nat /\ DOMAIN s = 1 .. Len(s) /\ \A p \in 1 .. Len(s) : s[p] \in Byte
  BY LenProperties, ElementOfSeq DEF Text
<1>2. QED
  BY <1>1 DEF Byte

(* begin() adds an entry that is empty, for a thread that has none.        *)
LEMMA RegisterList ==
    ASSUME Typed, NEW t \in Thread, Register(t)
    PROVE  /\ list' \in Seq(Entry)
           /\ DOMAIN list \subseteq DOMAIN list'
           /\ \A k \in DOMAIN list : list'[k] = list[k]
           /\ \E k \in DOMAIN list' : list'[k].id = t
           /\ \A k \in DOMAIN list' \ DOMAIN list :
                /\ list'[k].tx = <<>> /\ list'[k].id = t /\ list'[k].rx = NoBuffer
                /\ ~list'[k].blocked /\ ~list'[k].prefix /\ ~list'[k].suffix
                /\ ~Registered(t) /\ k = Len(list) + 1
<1>1. /\ Len(list) \in Nat /\ DOMAIN list = 1 .. Len(list) /\ list \in Seq(Entry)
  BY Shapes DEF Typed
<1>2. CASE Registered(t)
  <2>1. list' = list
    BY <1>2 DEF Register
  <2>2. QED
    BY <1>1, <1>2, <2>1 DEF Registered
<1>3. CASE ~ Registered(t)
  <2> DEFINE e == NewEntry(t, Len(list))
  <2>1. e \in Entry /\ e.tx = <<>> /\ e.id = t /\ e.rx = NoBuffer /\ ~e.blocked
        /\ ~e.prefix /\ ~e.suffix
    BY <1>1 DEF Entry, NewEntry, Text
  <2>2. list' = Append(list, e)
    BY <1>3 DEF Register
  <2> HIDE DEF e
  <2>3. /\ list' \in Seq(Entry) /\ Len(list') = Len(list) + 1
        /\ \A k \in 1 .. Len(list) : list'[k] = list[k]
        /\ list'[Len(list) + 1] = e
    BY <1>1, <2>1, <2>2, AppendProperties
  <2>4. DOMAIN list' = 1 .. Len(list) + 1
    BY <2>3, LenProperties
  <2>5. QED
    BY <1>1, <1>3, <2>1, <2>3, <2>4
<1>4. QED
  BY <1>2, <1>3

(* Then the invariant holds of the longer list.                            *)
LEMMA RegisterInv ==
    ASSUME Inv, NEW t \in Thread, Register(t), using' = using \cup {t},
           UNCHANGED <<worker, msg, sent, stored, ended, sections>>,
           pc' \in [Thread -> {"idle", "spin", "join", "write"}],
           \A u \in Thread : pc'[u] = "write" => pc[u] = "write"
    PROVE  Inv'
<1> Typed
  BY DEF Inv
<1>1. Texts' = Texts
  BY DEF Texts
<1>2. list' \in Seq(Entry)
  BY RegisterList
<1>3. ASSUME NEW k \in DOMAIN list', k \notin DOMAIN list
      PROVE  /\ list'[k].tx = <<>> /\ list'[k].id = t /\ list'[k].rx = NoBuffer
             /\ ~list'[k].blocked /\ ~Registered(t) /\ k = Len(list) + 1
  BY <1>3, RegisterList
<1>4. DOMAIN list \subseteq DOMAIN list' /\ \A k \in DOMAIN list : list'[k] = list[k]
  BY RegisterList
<1>5. \E k \in DOMAIN list' : list'[k].id = t
  BY RegisterList
<1>6. Typed' /\ HandEmpty' /\ WritersRegistered'
  BY <1>2 DEF Inv, Typed, HandEmpty, WritersRegistered
<1>7. UsersRegistered'
  BY <1>4, <1>5 DEF Inv, UsersRegistered, Registered
<1>8. Newcomers'
  BY DEF Inv, Newcomers
<1>9. Owned'
  <2>1. ASSUME NEW k \in DOMAIN list'
        PROVE  /\ \A p \in DOMAIN list'[k].tx : list'[k].tx[p][1] = list'[k].id
               /\ list'[k].rx \in {NoBuffer, list'[k].id}
    <3>1. CASE k \in DOMAIN list
      BY <1>4, <3>1 DEF Inv, Owned
    <3>2. CASE k \notin DOMAIN list
      BY <1>3, <3>2
    <3>3. QED
      BY <3>1, <3>2
  <2>2. QED
    BY <2>1 DEF Owned
<1>10. AllNumbered'
  <2>1. \A i \in DOMAIN Texts : \A p \in DOMAIN Texts[i] : Numbered(Texts[i][p])
    BY DEF Inv, AllNumbered
  <2>2. ASSUME NEW k \in DOMAIN list', NEW p \in DOMAIN list'[k].tx
        PROVE  Numbered(list'[k].tx[p])
    <3>1. CASE k \in DOMAIN list
      BY <1>4, <3>1 DEF Inv, AllNumbered
    <3>2. CASE k \notin DOMAIN list
      BY <1>3, <3>2
    <3>3. QED
      BY <3>1, <3>2
  <2>3. QED
    BY <1>1, <2>1, <2>2 DEF AllNumbered, Numbered
<1>11. NothingLost'
  <2>1. ASSUME NEW u \in using' \ ended', NEW n \in 1 .. stored'[u]
        PROVE  \/ \E i \in DOMAIN Texts' : Has(Texts'[i], u, n)
               \/ \E k \in DOMAIN list' : Has(list'[k].tx, u, n)
    <3>1. u \in using
      <4>1. CASE u \notin using
        <5>1. stored[u] = 0 /\ n \in 1 .. stored[u]
          BY <4>1 DEF Inv, Newcomers, Typed
        <5>2. QED
          BY <5>1
      <4>2. QED
        BY <4>1
    <3>2. \/ \E i \in DOMAIN Texts : Has(Texts[i], u, n)
          \/ \E k \in DOMAIN list : Has(list[k].tx, u, n)
      BY <3>1 DEF Inv, NothingLost
    <3>3. QED
      BY <1>1, <1>4, <3>2
  <2>2. QED
    BY <2>1 DEF NothingLost
<1>12. ASSUME ended' = {} PROVE OneEntry' /\ Ordered' /\ Sections'
  <2>1. OneEntry /\ Ordered /\ Sections
    BY <1>12 DEF Inv
  <2>2. OneEntry'
    <3>1. ASSUME NEW i \in DOMAIN list', NEW j \in DOMAIN list', list'[i].id = list'[j].id
          PROVE  i = j
      BY <1>3, <1>4, <2>1, <3>1 DEF OneEntry, Registered
    <3>2. QED
      BY <3>1 DEF OneEntry
  <2>3. \A k \in DOMAIN list' : InOrder(list'[k].tx)
    BY <1>3, <1>4, <2>1 DEF Ordered, InOrder
  <2>4. \A i \in DOMAIN Texts, k \in DOMAIN list' : AllPrecede(Texts[i], list'[k].tx)
    BY <1>3, <1>4, <2>1 DEF Ordered, AllPrecede
  <2>5. Ordered'
    BY <1>1, <2>1, <2>3, <2>4 DEF Ordered
  <2>6. ASSUME NEW u \in Thread, NEW s \in Nat \ {0}, NEW i \in DOMAIN Texts,
               NEW k \in DOMAIN list', InSection(Texts[i], u, s), list'[k].id = u
        PROVE  ~InSection(list'[k].tx, u, s) /\ (list'[k].blocked => sections[u] # s)
    <3>1. CASE k \in DOMAIN list
      BY <1>4, <2>1, <2>6, <3>1 DEF Sections
    <3>2. CASE k \notin DOMAIN list
      BY <1>3, <3>2 DEF InSection
    <3>3. QED
      BY <3>1, <3>2
  <2>7. Sections'
    BY <1>1, <2>1, <2>6 DEF Sections
  <2>8. QED
    BY <2>2, <2>5, <2>7
<1>13. QED
  BY <1>6, <1>7, <1>8, <1>9, <1>10, <1>11, <1>12 DEF Inv

(* end() drops entries of its own thread only.                             *)
LEMMA EndInv == ASSUME Inv, NEW t \in Thread, End(t) PROVE Inv'
<1> Typed
  BY DEF Inv
<1>1. /\ ended' = ended \cup {t} /\ list' = Compact(t) /\ using' = using \ {t}
      /\ pc[t] = "idle" /\ Texts' = Texts
      /\ UNCHANGED <<worker, msg, sent, stored, sections, pc>>
  BY DEF End, UserCalls, MayCall, txVars, callVars, Texts
<1>2. Len(list) \in Nat /\ DOMAIN list = 1 .. Len(list) /\ list \in Seq(Entry)
  BY Shapes DEF Typed
<1>3. /\ list' \in Seq(Entry) /\ Len(list') = Len(list)
      /\ \A k \in 1 .. Len(list) : \E i \in 1 .. Len(list) :
           list'[k] \in {list[i], MovedFrom(list[i])}
      /\ \A i \in 1 .. Len(list) : list[i].id # t =>
           \E k \in 1 .. Len(list) : list'[k] = list[i]
  BY ZenonT(60), <1>1, <1>2, CompactKeeps
<1>4. DOMAIN list' = DOMAIN list
  BY <1>2, <1>3, LenProperties
<1>5. Typed' /\ HandEmpty' /\ WritersRegistered' /\ Newcomers'
  BY <1>1, <1>3 DEF Inv, Typed, HandEmpty, WritersRegistered, Newcomers
<1>6. UsersRegistered'
  <2>1. ASSUME NEW u \in using' PROVE \E k \in DOMAIN list' : list'[k].id = u
    <3>1. PICK i \in DOMAIN list : list[i].id = u
      BY <1>1 DEF Inv, UsersRegistered, Registered
    <3>2. PICK k \in 1 .. Len(list) : list'[k] = list[i]
      BY <1>1, <1>2, <1>3, <3>1
    <3>3. QED
      BY <1>2, <1>4, <3>1, <3>2
  <2>2. QED
    BY <2>1 DEF UsersRegistered, Registered
<1>7. Owned'
  <2>1. ASSUME NEW k \in DOMAIN list'
        PROVE  /\ \A p \in DOMAIN list'[k].tx : list'[k].tx[p][1] = list'[k].id
               /\ list'[k].rx \in {NoBuffer, list'[k].id}
    <3>1. PICK i \in 1 .. Len(list) : list'[k] \in {list[i], MovedFrom(list[i])}
      BY <1>2, <1>3, <1>4
    <3>2. list'[k].id = list[i].id /\ list'[k].tx = list[i].tx /\ list'[k].rx = list[i].rx
      BY <1>2, <3>1, ElementOfSeq, MoveLeaves
    <3>3. QED
      BY <1>2, <3>2 DEF Inv, Owned
  <2>2. QED
    BY <2>1 DEF Owned
<1>8. AllNumbered'
  <2>1. ASSUME NEW k \in DOMAIN list', NEW p \in DOMAIN list'[k].tx
        PROVE  Numbered(list'[k].tx[p])
    <3>1. PICK i \in 1 .. Len(list) : list'[k] \in {list[i], MovedFrom(list[i])}
      BY <1>2, <1>3, <1>4
    <3>2. list'[k].tx = list[i].tx
      BY <1>2, <3>1, ElementOfSeq, MoveLeaves
    <3>3. QED
      BY <1>2, <2>1, <3>2 DEF Inv, AllNumbered
  <2>2. QED
    BY <1>1, <2>1 DEF Inv, AllNumbered, Numbered
<1>9. NothingLost'
  <2>1. ASSUME NEW u \in using' \ ended', NEW n \in 1 .. stored'[u]
        PROVE  \/ \E i \in DOMAIN Texts' : Has(Texts'[i], u, n)
               \/ \E k \in DOMAIN list' : Has(list'[k].tx, u, n)
    <3>1. u \in using \ ended /\ u # t /\ n \in 1 .. stored[u]
      BY <1>1
    <3>2. \/ \E i \in DOMAIN Texts : Has(Texts[i], u, n)
          \/ \E i \in DOMAIN list : Has(list[i].tx, u, n)
      BY <3>1 DEF Inv, NothingLost
    <3>3. ASSUME NEW i \in DOMAIN list, Has(list[i].tx, u, n)
          PROVE  \E k \in DOMAIN list' : Has(list'[k].tx, u, n)
      <4>1. list[i].id = u
        BY <3>3 DEF Inv, Owned, Has
      <4>2. QED
        BY <1>2, <1>3, <1>4, <3>1, <3>3, <4>1
    <3>4. QED
      BY <1>1, <3>2, <3>3
  <2>2. QED
    BY <2>1 DEF NothingLost
<1>10. ended' # {}
  BY <1>1
<1>11. QED
  BY <1>5, <1>6, <1>7, <1>8, <1>9, <1>10 DEF Inv
-----------------------------------------------------------------------------
(* write() stores one more byte in the ring of its thread.                 *)
StoresIn(f, b) ==
    /\ f \in 1 .. Len(list) /\ b \in Byte
    /\ list' \in Seq(Entry) /\ DOMAIN list' = DOMAIN list
    /\ \A k \in DOMAIN list : k # f => list'[k] = list[k]
    /\ list'[f].id = list[f].id /\ list'[f].rx = list[f].rx
    /\ list'[f].blocked = list[f].blocked
    /\ list'[f].prefix = list[f].prefix /\ list'[f].suffix = list[f].suffix
    /\ list'[f].tx = Append(list[f].tx, b)
    /\ DOMAIN list[f].tx \subseteq DOMAIN list'[f].tx
    /\ \A p \in DOMAIN list[f].tx : list'[f].tx[p] = list[f].tx[p]
    /\ \E q \in DOMAIN list'[f].tx :
         /\ list'[f].tx[q] = b
         /\ \A p \in DOMAIN list'[f].tx : p # q => p \in DOMAIN list[f].tx /\ p < q

(* What write() does to the list.                                         *)
LEMMA StoreList ==
    ASSUME Inv, NEW t \in Thread, StoreByte(t)
    PROVE  /\ StoresIn(Find(t), <<t, stored[t] + 1, Section(t)>>)
           /\ Section(t) \in 0 .. sections[t] /\ list[Find(t)].id = t
           /\ Section(t) # 0 => list[Find(t)].blocked /\ Section(t) = sections[t]
<1> DEFINE f == Find(t)
           b == <<t, stored[t] + 1, Section(t)>>
           e == [list[f] EXCEPT !.tx = Append(list[f].tx, b)]
<1>1. t \in using
  BY DEF Inv, WritersRegistered, StoreByte
<1>2. f \in 1 .. Len(list) /\ list[f] \in Entry /\ list[f].id = t
  BY <1>1, UserFinds
<1>3. list \in Seq(Entry) /\ stored[t] \in Nat /\ sections[t] \in Nat
  BY DEF Inv, Typed
<1>4. /\ Section(t) \in Nat /\ Section(t) \in 0 .. sections[t]
      /\ Section(t) # 0 => list[f].blocked /\ Section(t) = sections[t]
  BY <1>3 DEF Section
<1> HIDE DEF f
<1>5. b \in Byte
  BY <1>3, <1>4 DEF Byte
<1>6. list' = [list EXCEPT ![f] = e]
  BY DEF StoreByte, Room, Push, f
<1> HIDE DEF b
<1>7. list[f].tx \in Seq(Byte)
  BY <1>2 DEF Entry, Text
<1>8. /\ Append(list[f].tx, b) \in Seq(Byte)
      /\ Len(Append(list[f].tx, b)) = Len(list[f].tx) + 1
      /\ \A p \in 1 .. Len(list[f].tx) : Append(list[f].tx, b)[p] = list[f].tx[p]
      /\ Append(list[f].tx, b)[Len(list[f].tx) + 1] = b
  BY <1>5, <1>7, AppendProperties
<1>9. e \in Entry /\ e.id = t /\ e.rx = list[f].rx /\ e.blocked = list[f].blocked
      /\ e.tx = Append(list[f].tx, b)
      /\ e.prefix = list[f].prefix /\ e.suffix = list[f].suffix
  BY <1>2, <1>8 DEF Entry, Text
<1> HIDE DEF e
<1>10. /\ list' \in Seq(Entry) /\ Len(list') = Len(list)
       /\ \A k \in 1 .. Len(list) : list'[k] = IF k = f THEN e ELSE list[k]
  BY <1>2, <1>3, <1>6, <1>9, ExceptSeq
<1>11. DOMAIN list' = 1 .. Len(list) /\ DOMAIN list = 1 .. Len(list) /\ Len(list) \in Nat
  BY <1>3, <1>10, LenProperties
<1>12. /\ DOMAIN list[f].tx = 1 .. Len(list[f].tx) /\ Len(list[f].tx) \in Nat
       /\ DOMAIN Append(list[f].tx, b) = 1 .. Len(list[f].tx) + 1
  BY <1>7, <1>8, LenProperties
<1>13. list'[f].tx = Append(list[f].tx, b)
  BY <1>2, <1>9, <1>10
<1>14. \A p \in 1 .. Len(list[f].tx) : list'[f].tx[p] = list[f].tx[p]
  BY <1>8, <1>13
<1>15. /\ Len(list[f].tx) + 1 \in DOMAIN list'[f].tx
       /\ list'[f].tx[Len(list[f].tx) + 1] = b
       /\ \A p \in DOMAIN list'[f].tx : p # Len(list[f].tx) + 1 =>
            p \in DOMAIN list[f].tx /\ p < Len(list[f].tx) + 1
  BY <1>8, <1>12, <1>13
<1>16. DOMAIN list[f].tx \subseteq DOMAIN list'[f].tx
  BY <1>12, <1>13
<1>17. StoresIn(f, b)
  <2>1. \A k \in DOMAIN list : k # f => list'[k] = list[k]
    BY <1>10, <1>11
  <2>2. list'[f].id = list[f].id /\ list'[f].rx = list[f].rx
        /\ list'[f].blocked = list[f].blocked
        /\ list'[f].prefix = list[f].prefix /\ list'[f].suffix = list[f].suffix
    BY <1>2, <1>9, <1>10
  <2>3. \A p \in DOMAIN list[f].tx : list'[f].tx[p] = list[f].tx[p]
    BY <1>12, <1>14
  <2>4. QED
    BY <1>2, <1>5, <1>10, <1>11, <1>13, <1>15, <1>16, <2>1, <2>2, <2>3 DEF StoresIn
<1>18. QED
  BY <1>2, <1>4, <1>17 DEF f, b

(* The byte comes after all those its thread has written before, in a      *)
(* section of which nothing has left.                                      *)
LEMMA StoreInv == ASSUME Inv, NEW t \in Thread, StoreByte(t) PROVE Inv'
<1> DEFINE f == Find(t)
           b == <<t, stored[t] + 1, Section(t)>>
<1> Typed
  BY DEF Inv
<1>1. /\ stored' = [stored EXCEPT ![t] = stored[t] + 1] /\ Texts' = Texts
      /\ UNCHANGED <<worker, msg, sent, sections, ended, using, pc>>
  BY DEF StoreByte, txVars, Texts
<1>2. /\ StoresIn(f, b) /\ Section(t) \in 0 .. sections[t]
      /\ Section(t) # 0 => list[f].blocked /\ Section(t) = sections[t]
      /\ list[f].id = t
  <2>1. /\ StoresIn(Find(t), <<t, stored[t] + 1, Section(t)>>)
        /\ Section(t) \in 0 .. sections[t] /\ list[Find(t)].id = t
        /\ Section(t) # 0 => list[Find(t)].blocked /\ Section(t) = sections[t]
    BY StoreList, Zenon
  <2>2. StoresIn(f, b)
    BY <2>1, Zenon
  <2>3. QED
    BY <2>1, <2>2
<1>3. b[1] = t /\ b[2] = stored[t] + 1 /\ b[3] = Section(t)
  OBVIOUS
<1> HIDE DEF f, b
<1>4. /\ list' \in Seq(Entry) /\ DOMAIN list' = DOMAIN list /\ f \in DOMAIN list
      /\ \A k \in DOMAIN list : k # f => list'[k] = list[k]
      /\ list'[f].id = t /\ list'[f].rx = list[f].rx /\ list'[f].blocked = list[f].blocked
  BY <1>2, Shapes DEF StoresIn
<1>5. PICK q \in DOMAIN list'[f].tx :
        /\ list'[f].tx[q] = b
        /\ \A p \in DOMAIN list'[f].tx : p # q =>
             p \in DOMAIN list[f].tx /\ p < q /\ list'[f].tx[p] = list[f].tx[p]
  BY <1>2 DEF StoresIn
<1>6. stored[t] \in Nat /\ stored \in [Thread -> Nat]
  BY DEF Typed
<1>7. \A k \in DOMAIN list : list'[k].id = list[k].id /\ list'[k].rx = list[k].rx
                             /\ list'[k].blocked = list[k].blocked
  BY <1>2, <1>4
<1>8. ASSUME NEW u, NEW n, NEW k \in DOMAIN list, Has(list[k].tx, u, n)
      PROVE  Has(list'[k].tx, u, n)
  <2>1. CASE k = f
    BY ZenonT(60), <1>2, <1>8, <2>1 DEF StoresIn, Has
  <2>2. CASE k # f
    BY <1>4, <1>8, <2>2
  <2>3. QED
    BY <2>1, <2>2
<1>9. Typed' /\ HandEmpty' /\ WritersRegistered' /\ UsersRegistered' /\ Newcomers'
  <2>1. Typed'
    BY <1>1, <1>4, <1>6 DEF Typed
  <2>2. HandEmpty' /\ WritersRegistered'
    BY <1>1 DEF Inv, HandEmpty, WritersRegistered
  <2>3. UsersRegistered'
    BY <1>1, <1>4, <1>7 DEF Inv, UsersRegistered, Registered
  <2>4. t \in using
    BY DEF StoreByte, Inv, WritersRegistered
  <2>5. Newcomers'
    BY <1>1, <1>6, <2>4 DEF Inv, Newcomers
  <2>6. QED
    BY <2>1, <2>2, <2>3, <2>5
<1>10. Owned'
  <2>1. ASSUME NEW k \in DOMAIN list'
        PROVE  /\ \A p \in DOMAIN list'[k].tx : list'[k].tx[p][1] = list'[k].id
               /\ list'[k].rx \in {NoBuffer, list'[k].id}
    <3>1. CASE k = f
      BY <1>2, <1>3, <1>4, <1>5, <3>1 DEF Inv, Owned
    <3>2. CASE k # f
      BY <1>4, <3>2 DEF Inv, Owned
    <3>3. QED
      BY <3>1, <3>2
  <2>2. QED
    BY <2>1 DEF Owned
<1>11. ASSUME NEW c \in Byte, Numbered(c)
       PROVE  c[2] \in 1 .. stored'[c[1]] /\ c[3] \in 0 .. sections'[c[1]]
  <2>1. c[1] \in Thread
    BY DEF Byte
  <2>2. stored'[c[1]] \in {stored[c[1]], stored[c[1]] + 1} /\ stored[c[1]] \in Nat
    BY <1>1, <1>6, <2>1
  <2>3. QED
    BY <1>1, <1>11, <2>2 DEF Numbered
<1>12. AllNumbered'
  <2>1. ASSUME NEW i \in DOMAIN Texts, NEW p \in DOMAIN Texts[i]
        PROVE  LET c == Texts[i][p]
               IN  c[2] \in 1 .. stored'[c[1]] /\ c[3] \in 0 .. sections'[c[1]]
    <3>1. Texts[i] \in Text
      BY Shapes, ElementOfSeq
    <3>2. QED
      BY <1>11, <3>1, TextBytes DEF Inv, AllNumbered
  <2>2. ASSUME NEW k \in DOMAIN list, NEW p \in DOMAIN list'[k].tx
        PROVE  LET c == list'[k].tx[p]
               IN  c[2] \in 1 .. stored'[c[1]] /\ c[3] \in 0 .. sections'[c[1]]
    <3>1. list[k].tx \in Text
      BY Shapes
    <3>2. CASE p \in DOMAIN list[k].tx /\ list'[k].tx[p] = list[k].tx[p]
      BY <1>11, <3>1, <3>2, TextBytes DEF Inv, AllNumbered
    <3>3. CASE list'[k].tx[p] = b
      <4>1. b[2] \in 1 .. stored'[b[1]] /\ b[3] \in 0 .. sections'[b[1]]
        BY <1>1, <1>2, <1>3, <1>6
      <4>2. QED
        BY <3>3, <4>1
    <3>4. QED
      BY <1>4, <1>5, <3>2, <3>3
  <2>3. QED
    BY <1>1, <1>4, <2>1, <2>2 DEF AllNumbered, Numbered
<1>13. NothingLost'
  <2>1. ASSUME NEW u \in using' \ ended', NEW n \in 1 .. stored'[u]
        PROVE  \/ \E i \in DOMAIN Texts' : Has(Texts'[i], u, n)
               \/ \E k \in DOMAIN list' : Has(list'[k].tx, u, n)
    <3>1. CASE u = t /\ n = stored[t] + 1
      BY <1>3, <1>4, <1>5, <3>1 DEF Has
    <3>2. CASE ~ (u = t /\ n = stored[t] + 1)
      <4>1. n \in 1 .. stored[u] /\ u \in using \ ended
        BY <1>1, <1>6, <3>2 DEF Typed
      <4>2. \/ \E i \in DOMAIN Texts : Has(Texts[i], u, n)
            \/ \E k \in DOMAIN list : Has(list[k].tx, u, n)
        BY <4>1 DEF Inv, NothingLost
      <4>3. QED
        BY <1>1, <1>4, <1>8, <4>2
    <3>3. QED
      BY <3>1, <3>2
  <2>2. QED
    BY <2>1 DEF NothingLost
<1>14. ASSUME ended' = {} PROVE OneEntry' /\ Ordered' /\ Sections'
  <2>1. OneEntry /\ Ordered /\ Sections
    BY <1>1, <1>14 DEF Inv
  <2>2. OneEntry'
    BY <1>4, <1>7, <2>1 DEF OneEntry
  <2>3. ASSUME NEW s \in Text, NEW p \in DOMAIN s, Numbered(s[p])
        PROVE  Precedes(s[p], b)
    BY <1>3, <1>6, <2>3, TextBytes DEF Precedes, Numbered
  <2>4. ASSUME NEW k \in DOMAIN list PROVE InOrder(list'[k].tx)
    <3>1. CASE k = f
      <4>1. list[f].tx \in Text /\ InOrder(list[f].tx)
            /\ \A p \in DOMAIN list[f].tx : Numbered(list[f].tx[p])
        BY <1>4, <2>1, Shapes DEF Ordered, Inv, AllNumbered
      <4>2. ASSUME NEW p \in DOMAIN list'[f].tx, NEW r \in DOMAIN list'[f].tx, p < r
            PROVE  Precedes(list'[f].tx[p], list'[f].tx[r])
        <5>1. list'[f].tx \in Text
          <6>1. list'[f] \in Entry
            BY <1>4, ElementOfSeq, LenProperties
          <6>2. QED
            BY <6>1 DEF Entry
        <5>2. p \in Int /\ r \in Int /\ q \in Int
          BY <5>1, TextBytes
        <5>3. p # q
          BY <1>5, <4>2, <5>2
        <5>4. CASE r = q
          BY <1>5, <2>3, <4>1, <5>3, <5>4
        <5>5. CASE r # q
          BY <1>5, <4>1, <4>2, <5>3, <5>5 DEF InOrder
        <5>6. QED
          BY <5>4, <5>5
      <4>3. QED
        BY <3>1, <4>2 DEF InOrder
    <3>2. CASE k # f
      BY <1>4, <2>1, <3>2 DEF Ordered
    <3>3. QED
      BY <3>1, <3>2
  <2>5. ASSUME NEW i \in DOMAIN Texts, NEW k \in DOMAIN list
        PROVE  AllPrecede(Texts[i], list'[k].tx)
    <3>1. /\ Texts[i] \in Text /\ AllPrecede(Texts[i], list[k].tx)
          /\ \A p \in DOMAIN Texts[i] : Numbered(Texts[i][p])
      BY <2>1, Shapes, ElementOfSeq DEF Ordered, Inv, AllNumbered
    <3>2. CASE k = f
      <4>1. ASSUME NEW p \in DOMAIN Texts[i], NEW r \in DOMAIN list'[f].tx
            PROVE  Precedes(Texts[i][p], list'[f].tx[r])
        <5>1. CASE r = q
          BY <1>5, <2>3, <3>1, <5>1
        <5>2. CASE r # q
          BY <1>5, <3>1, <3>2, <5>2 DEF AllPrecede
        <5>3. QED
          BY <5>1, <5>2
      <4>2. QED
        BY <3>2, <4>1 DEF AllPrecede
    <3>3. CASE k # f
      BY <1>4, <3>1, <3>3
    <3>4. QED
      BY <3>2, <3>3
  <2>6. Ordered'
    BY <1>1, <1>4, <2>1, <2>4, <2>5 DEF Ordered
  <2>7. ASSUME NEW u \in Thread, NEW s \in Nat \ {0}, NEW i \in DOMAIN Texts,
               NEW k \in DOMAIN list, InSection(Texts[i], u, s), list[k].id = u
        PROVE  ~InSection(list'[k].tx, u, s) /\ (list[k].blocked => sections[u] # s)
    <3>1. ~InSection(list[k].tx, u, s) /\ (list[k].blocked => sections[u] # s)
      BY <2>1, <2>7 DEF Sections
    <3>2. CASE k = f
      <4>1. u = t /\ b[3] # s
        BY <1>2, <1>3, <2>7, <3>1, <3>2
      <4>2. QED
        BY <1>5, <3>1, <3>2, <4>1 DEF InSection
    <3>3. CASE k # f
      BY <1>4, <3>1, <3>3
    <3>4. QED
      BY <3>2, <3>3
  <2>8. Sections'
    BY <1>1, <1>4, <1>7, <2>1, <2>7 DEF Sections
  <2>9. QED
    BY <2>2, <2>6, <2>8
<1>15. QED
  BY <1>9, <1>10, <1>12, <1>13, <1>14 DEF Inv
-----------------------------------------------------------------------------
(* The worker takes all bytes out of an entry that is not blocked.         *)
TakesFrom(k) ==
    /\ k \in DOMAIN list /\ ~list[k].blocked /\ list[k].tx # <<>>
    /\ list' \in Seq(Entry) /\ DOMAIN list' = DOMAIN list
    /\ \A j \in DOMAIN list : j # k => list'[j] = list[j]
    /\ list'[k].id = list[k].id /\ list'[k].rx = list[k].rx
    /\ list'[k].blocked = list[k].blocked /\ list'[k].tx = <<>>
    /\ list'[k].prefix = list[k].prefix /\ list'[k].suffix = list[k].suffix
    /\ msg' \in Message /\ msg'.text = list[k].tx /\ msg'.prefix = Chosen("prefix")

(* It takes the first that is due.                                         *)
LEMMA TakeList == ASSUME Inv, WorkerTake PROVE TakesFrom(pos')
<1> Typed
  BY DEF Inv
<1> DEFINE k == pos'
           e == [list[k] EXCEPT !.tx = <<>>]
<1>1. k = Min(Due) /\ Due # {}
  BY DEF WorkerTake
<1>2. Due \in SUBSET (1 .. Len(list)) /\ Len(list) \in Nat /\ DOMAIN list = 1 .. Len(list)
  BY Shapes DEF Due
<1>3. k \in Due
  BY <1>1, <1>2, MinPlace
<1>4. /\ k \in 1 .. Len(list) /\ ~list[k].blocked /\ list[k].tx # <<>>
      /\ list[k] \in Entry /\ list[k].tx \in Text /\ list \in Seq(Entry)
  BY <1>2, <1>3, Shapes DEF Due, Typed
<1>5. /\ list' = [list EXCEPT ![k] = e]
      /\ msg' = [NoMessage EXCEPT !.text = list[k].tx, !.prefix = Chosen("prefix")]
  BY DEF WorkerTake, Emptied
<1> HIDE DEF k
<1>6. Chosen("prefix") \in Whose
  BY DEF Chosen, Whose
<1>7. msg' \in Message /\ msg'.text = list[k].tx /\ msg'.prefix = Chosen("prefix")
  BY <1>4, <1>5, <1>6 DEF Message, NoMessage, Whose
<1>8. e \in Entry /\ e.id = list[k].id /\ e.rx = list[k].rx /\ e.blocked = list[k].blocked
      /\ e.tx = <<>> /\ e.prefix = list[k].prefix /\ e.suffix = list[k].suffix
  <2>1. <<>> \in Text
    BY DEF Text
  <2>2. e \in Entry
    BY <1>4, <2>1 DEF Entry
  <2>3. QED
    BY <1>4, <2>2 DEF Entry
<1> HIDE DEF e
<1>9. /\ list' \in Seq(Entry) /\ Len(list') = Len(list)
      /\ \A j \in 1 .. Len(list) : list'[j] = IF j = k THEN e ELSE list[j]
  BY <1>4, <1>5, <1>8, ExceptSeq
<1>10. DOMAIN list' = 1 .. Len(list)
  BY <1>9, LenProperties
<1>11. TakesFrom(k)
  BY <1>2, <1>4, <1>7, <1>8, <1>9, <1>10 DEF TakesFrom
<1>12. QED
  BY <1>11 DEF k

(* The text in the worker's hand was empty, and now is what the entry had. *)
LEMMA TakeTexts ==
    ASSUME Inv, WorkerTake
    PROVE  LET n == Len(sent) + 1 IN
           /\ n \in DOMAIN Texts /\ DOMAIN Texts' = DOMAIN Texts
           /\ Texts[n] = <<>> /\ Texts'[n] = list[pos'].tx
           /\ \A i \in DOMAIN Texts : i # n => Texts'[i] = Texts[i] /\ i < n
           /\ \A i, j \in DOMAIN Texts : i < j => i # n
<1> Typed
  BY DEF Inv
<1>1. /\ Len(sent) \in Nat /\ DOMAIN Texts = 1 .. Len(sent) + 1
      /\ \A i \in 1 .. Len(sent) : Texts[i] = sent[i].text
      /\ Texts[Len(sent) + 1] = msg.text
  BY Shapes
<1>2. msg.text = <<>> /\ sent' = sent /\ sent \in Seq(Message)
  BY DEF WorkerTake, WorkerGoto, Inv, HandEmpty, Typed
<1>3. msg' \in Message /\ msg'.text = list[pos'].tx
  BY TakeList DEF TakesFrom
<1>4. Texts' = TextsOf(sent, msg')
  BY <1>2 DEF Texts, TextsOf
<1>5. /\ DOMAIN TextsOf(sent, msg') = 1 .. Len(sent) + 1
      /\ \A i \in 1 .. Len(sent) : TextsOf(sent, msg')[i] = sent[i].text
      /\ TextsOf(sent, msg')[Len(sent) + 1] = msg'.text
  BY <1>2, <1>3, TextsTyped
<1>6. QED
  BY <1>1, <1>2, <1>3, <1>4, <1>5

(* A section that leaves in a message leaves as a whole, after all that    *)
(* its thread has sent before.                                             *)
LEMMA TakeInv == ASSUME Inv, WorkerTake PROVE Inv'
<1> Typed
  BY DEF Inv
<1> DEFINE k == pos'
           n == Len(sent) + 1
<1>1. UNCHANGED <<sent, pc, stored, using, ended, sections>> /\ worker' = "prefix"
  BY DEF WorkerTake, WorkerGoto, OthersUnchanged, callVars, histVars
<1>2. TakesFrom(k)
  BY TakeList
<1>3. /\ n \in DOMAIN Texts /\ DOMAIN Texts' = DOMAIN Texts
      /\ Texts[n] = <<>> /\ Texts'[n] = list[k].tx
      /\ \A i \in DOMAIN Texts : i # n => Texts'[i] = Texts[i] /\ i < n
      /\ \A i, j \in DOMAIN Texts : i < j => i # n
  BY TakeTexts
<1> HIDE DEF k, n
<1>4. /\ k \in DOMAIN list /\ ~list[k].blocked
      /\ list' \in Seq(Entry) /\ DOMAIN list' = DOMAIN list
      /\ \A j \in DOMAIN list : j # k => list'[j] = list[j]
      /\ list'[k].tx = <<>>
      /\ \A j \in DOMAIN list : /\ list'[j].id = list[j].id /\ list'[j].rx = list[j].rx
                                /\ list'[j].blocked = list[j].blocked
  BY <1>2 DEF TakesFrom
<1>5. \A m \in DOMAIN <<>> : FALSE
  OBVIOUS
<1>6. Typed' /\ HandEmpty' /\ WritersRegistered' /\ UsersRegistered' /\ Newcomers'
  <2>1. Typed'
    BY <1>1, <1>2 DEF Typed, TakesFrom
  <2>2. HandEmpty' /\ WritersRegistered' /\ Newcomers'
    BY <1>1 DEF Inv, HandEmpty, WritersRegistered, Newcomers
  <2>3. UsersRegistered'
    BY <1>1, <1>4 DEF Inv, UsersRegistered, Registered
  <2>4. QED
    BY <2>1, <2>2, <2>3
<1>7. Owned'
  <2>1. ASSUME NEW j \in DOMAIN list
        PROVE  /\ \A p \in DOMAIN list'[j].tx : list'[j].tx[p][1] = list'[j].id
               /\ list'[j].rx \in {NoBuffer, list'[j].id}
    BY <1>4, <1>5 DEF Inv, Owned
  <2>2. QED
    BY <1>4, <2>1 DEF Owned
<1>8. AllNumbered'
  <2>1. ASSUME NEW i \in DOMAIN Texts, NEW p \in DOMAIN Texts'[i]
        PROVE  Numbered(Texts'[i][p])
    BY <1>3, <1>4 DEF Inv, AllNumbered
  <2>2. ASSUME NEW j \in DOMAIN list, NEW p \in DOMAIN list'[j].tx
        PROVE  Numbered(list'[j].tx[p])
    BY <1>4, <1>5 DEF Inv, AllNumbered
  <2>3. QED
    BY <1>1, <1>3, <1>4, <2>1, <2>2 DEF AllNumbered, Numbered
<1>9. NothingLost'
  <2>1. ASSUME NEW u \in using' \ ended', NEW m \in 1 .. stored'[u]
        PROVE  \/ \E i \in DOMAIN Texts' : Has(Texts'[i], u, m)
               \/ \E j \in DOMAIN list' : Has(list'[j].tx, u, m)
    <3>1. \/ \E i \in DOMAIN Texts : Has(Texts[i], u, m)
          \/ \E j \in DOMAIN list : Has(list[j].tx, u, m)
      BY <1>1 DEF Inv, NothingLost
    <3>2. ASSUME NEW i \in DOMAIN Texts, Has(Texts[i], u, m) PROVE Has(Texts'[i], u, m)
      BY <1>3, <1>5, <3>2 DEF Has
    <3>3. ASSUME NEW j \in DOMAIN list, Has(list[j].tx, u, m)
          PROVE  Has(list'[j].tx, u, m) \/ Has(Texts'[n], u, m)
      BY <1>3, <1>4, <3>3
    <3>4. QED
      BY <1>3, <1>4, <3>1, <3>2, <3>3
  <2>2. QED
    BY <2>1 DEF NothingLost
<1>10. ASSUME ended' = {} PROVE OneEntry' /\ Ordered' /\ Sections'
  <2>1. OneEntry /\ Ordered /\ Sections
    BY <1>1, <1>10 DEF Inv
  <2>2. OneEntry'
    BY <1>4, <2>1 DEF OneEntry
  <2>3. ASSUME NEW i \in DOMAIN Texts PROVE InOrder(Texts'[i])
    BY <1>3, <1>4, <2>1 DEF Ordered
  <2>4. ASSUME NEW i \in DOMAIN Texts, NEW j \in DOMAIN Texts, i < j
        PROVE  AllPrecede(Texts'[i], Texts'[j])
    BY <1>3, <1>4, <2>1, <2>4 DEF Ordered
  <2>5. ASSUME NEW j \in DOMAIN list PROVE InOrder(list'[j].tx)
    BY <1>4, <1>5, <2>1 DEF Ordered, InOrder
  <2>6. ASSUME NEW i \in DOMAIN Texts, NEW j \in DOMAIN list
        PROVE  AllPrecede(Texts'[i], list'[j].tx)
    <3>1. CASE j = k
      BY <1>4, <1>5, <3>1 DEF AllPrecede
    <3>2. CASE j # k /\ i # n
      BY <1>3, <1>4, <2>1, <3>2 DEF Ordered
    <3>3. CASE j # k /\ i = n
      <4>1. list[j].id # list[k].id
        BY <1>4, <2>1, <3>3 DEF OneEntry
      <4>2. ASSUME NEW p \in DOMAIN list[k].tx, NEW q \in DOMAIN list[j].tx
            PROVE  Precedes(list[k].tx[p], list[j].tx[q])
        BY <1>4, <4>1 DEF Inv, Owned, Precedes
      <4>3. QED
        BY <1>3, <1>4, <3>3, <4>2 DEF AllPrecede
    <3>4. QED
      BY <3>1, <3>2, <3>3
  <2>7. Ordered'
    BY <1>3, <1>4, <2>3, <2>4, <2>5, <2>6 DEF Ordered
  <2>8. ASSUME NEW u, NEW s, InSection(Texts'[n], u, s)
        PROVE  InSection(list[k].tx, u, s) /\ list[k].id = u
    BY <1>3, <1>4, <2>8 DEF InSection, Inv, Owned
  <2>9. ASSUME NEW u, NEW s, NEW i \in DOMAIN Texts, i # n, InSection(Texts'[i], u, s)
        PROVE  InSection(Texts[i], u, s)
    BY <1>3, <2>9
  <2>10. ASSUME NEW u \in Thread, NEW s \in Nat \ {0}, NEW i \in DOMAIN Texts,
                NEW j \in DOMAIN Texts, InSection(Texts'[i], u, s), InSection(Texts'[j], u, s)
         PROVE  i = j
    <3>1. ASSUME NEW a \in DOMAIN Texts, a # n, InSection(Texts'[a], u, s)
          PROVE  ~ InSection(Texts'[n], u, s)
      BY <1>4, <2>1, <2>8, <2>9, <3>1 DEF Sections
    <3>2. CASE i # n /\ j # n
      BY <2>1, <2>9, <2>10, <3>2 DEF Sections
    <3>3. QED
      BY <2>10, <3>1, <3>2
  <2>11. ASSUME NEW u \in Thread, NEW s \in Nat \ {0}, NEW i \in DOMAIN Texts,
                NEW j \in DOMAIN list, InSection(Texts'[i], u, s), list[j].id = u
         PROVE  ~InSection(list'[j].tx, u, s) /\ (list[j].blocked => sections[u] # s)
    <3>1. CASE i = n
      <4>1. j = k
        BY <1>4, <2>1, <2>8, <2>11, <3>1 DEF OneEntry
      <4>2. QED
        BY <1>4, <1>5, <4>1 DEF InSection
    <3>2. CASE i # n
      <4>1. ~InSection(list[j].tx, u, s) /\ (list[j].blocked => sections[u] # s)
        BY <2>1, <2>9, <2>11, <3>2 DEF Sections
      <4>2. QED
        BY <1>4, <1>5, <4>1 DEF InSection
    <3>3. QED
      BY <3>1, <3>2
  <2>12. Sections'
    BY <1>1, <1>3, <1>4, <2>10, <2>11 DEF Sections
  <2>13. QED
    BY <2>2, <2>7, <2>12
<1>11. QED
  BY <1>6, <1>7, <1>8, <1>9, <1>10 DEF Inv
(* Writing a message only closes its text: a new one begins, empty.        *)
LEMMA WriteTexts ==
    ASSUME Inv, WorkerWrite
    PROVE  LET n == Len(sent) + 2 IN
           /\ sent' \in Seq(Message) /\ DOMAIN Texts' = DOMAIN Texts \cup {n}
           /\ \A i \in DOMAIN Texts : Texts'[i] = Texts[i] /\ i < n
           /\ Texts'[n] = <<>>
<1> Typed
  BY DEF Inv
<1>1. /\ Len(sent) \in Nat /\ DOMAIN Texts = 1 .. Len(sent) + 1
      /\ \A i \in 1 .. Len(sent) : Texts[i] = sent[i].text
      /\ Texts[Len(sent) + 1] = msg.text
  BY Shapes
<1>2. /\ sent \in Seq(Message) /\ msg \in Message
      /\ sent' = Append(sent, msg) /\ msg' = NoMessage
  BY DEF WorkerWrite, Typed
<1>3. NoMessage \in Message /\ NoMessage.text = <<>>
  BY DEF NoMessage, Message, Whose, Text
<1> DEFINE new == Append(sent, msg)
<1>4. /\ new \in Seq(Message) /\ Len(new) = Len(sent) + 1
      /\ \A i \in 1 .. Len(sent) : new[i] = sent[i]
      /\ new[Len(sent) + 1] = msg
  BY <1>2, AppendProperties
<1>5. Texts' = TextsOf(new, NoMessage)
  BY <1>2 DEF Texts, TextsOf
<1>6. sent' = new
  BY <1>2
<1> HIDE DEF new
<1>7. /\ DOMAIN TextsOf(new, NoMessage) = 1 .. Len(new) + 1
      /\ \A i \in 1 .. Len(new) : TextsOf(new, NoMessage)[i] = new[i].text
      /\ TextsOf(new, NoMessage)[Len(new) + 1] = NoMessage.text
  BY <1>3, <1>4, TextsTyped
<1>8. DOMAIN Texts' = 1 .. Len(sent) + 2 /\ Texts'[Len(sent) + 2] = <<>>
  BY <1>1, <1>3, <1>4, <1>5, <1>7
<1>9. ASSUME NEW i \in 1 .. Len(sent) + 1 PROVE Texts'[i] = Texts[i]
  <2>1. i \in 1 .. Len(new) /\ Texts'[i] = new[i].text
    BY <1>1, <1>4, <1>5, <1>7
  <2>2. CASE i = Len(sent) + 1
    BY <1>1, <1>4, <2>1, <2>2
  <2>3. CASE i # Len(sent) + 1
    <3>1. i \in 1 .. Len(sent)
      BY <1>1, <2>3
    <3>2. QED
      BY <1>1, <1>4, <2>1, <3>1
  <2>4. QED
    BY <2>2, <2>3
<1>10. QED
  BY <1>1, <1>4, <1>6, <1>8, <1>9

(* A message that is written stays what it was in the worker's hand.       *)
LEMMA WriteInv == ASSUME Inv, WorkerWrite PROVE Inv'
<1> Typed
  BY DEF Inv
<1> DEFINE n == Len(sent) + 2
<1>1. /\ UNCHANGED <<list, pc, stored, using, ended, sections>> /\ worker' = "iterate"
      /\ msg' = NoMessage
  BY DEF WorkerWrite, WorkerGoto, OthersUnchanged, callVars, histVars
<1>2. /\ sent' \in Seq(Message) /\ DOMAIN Texts' = DOMAIN Texts \cup {n}
      /\ \A i \in DOMAIN Texts : Texts'[i] = Texts[i] /\ i < n
      /\ Texts'[n] = <<>>
  BY WriteTexts
<1>3. \A i \in DOMAIN Texts : i \in Int
  BY Shapes
<1>4. n \in Int
  BY Shapes
<1> HIDE DEF n
<1>5. \A m \in DOMAIN <<>> : FALSE
  OBVIOUS
<1>6. NoMessage \in Message /\ NoMessage.text = <<>>
  BY DEF NoMessage, Message, Whose, Text
<1>7. Typed' /\ HandEmpty' /\ WritersRegistered' /\ UsersRegistered' /\ Newcomers' /\ Owned'
  <2>1. Typed'
    BY <1>1, <1>2, <1>6 DEF Typed
  <2>2. HandEmpty' /\ WritersRegistered' /\ Newcomers' /\ Owned'
    BY <1>1, <1>6 DEF Inv, HandEmpty, WritersRegistered, Newcomers, Owned
  <2>3. UsersRegistered'
    BY <1>1 DEF Inv, UsersRegistered, Registered
  <2>4. QED
    BY <2>1, <2>2, <2>3
<1>8. AllNumbered'
  <2>1. ASSUME NEW i \in DOMAIN Texts', NEW p \in DOMAIN Texts'[i]
        PROVE  Numbered(Texts'[i][p])
    BY <1>2, <1>5 DEF Inv, AllNumbered
  <2>2. QED
    BY <1>1, <2>1 DEF Inv, AllNumbered, Numbered
<1>9. NothingLost'
  BY <1>1, <1>2 DEF Inv, NothingLost
<1>10. ASSUME ended' = {} PROVE OneEntry' /\ Ordered' /\ Sections'
  <2>1. OneEntry /\ Ordered /\ Sections
    BY <1>1, <1>10 DEF Inv
  <2>2. OneEntry'
    BY <1>1, <2>1 DEF OneEntry
  <2>3. ASSUME NEW i \in DOMAIN Texts' PROVE InOrder(Texts'[i])
    BY <1>2, <1>5, <2>1 DEF Ordered, InOrder
  <2>4. ASSUME NEW i \in DOMAIN Texts', NEW j \in DOMAIN Texts', i < j
        PROVE  AllPrecede(Texts'[i], Texts'[j])
    <3>1. CASE j = n
      BY <1>2, <1>5, <3>1 DEF AllPrecede
    <3>2. CASE j # n
      <4>1. i \in DOMAIN Texts /\ j \in DOMAIN Texts
        BY <1>2, <1>3, <1>4, <2>4, <3>2
      <4>2. QED
        BY <1>2, <2>1, <2>4, <4>1 DEF Ordered
    <3>3. QED
      BY <3>1, <3>2
  <2>5. ASSUME NEW i \in DOMAIN Texts', NEW k \in DOMAIN list
        PROVE  AllPrecede(Texts'[i], list[k].tx)
    BY <1>2, <1>5, <2>1 DEF Ordered, AllPrecede
  <2>6. Ordered'
    BY <1>1, <2>1, <2>3, <2>4, <2>5 DEF Ordered
  <2>7. ASSUME NEW u, NEW s, NEW i \in DOMAIN Texts', InSection(Texts'[i], u, s)
        PROVE  i \in DOMAIN Texts /\ InSection(Texts[i], u, s)
    <3>1. i # n
      BY <1>2, <1>5, <2>7 DEF InSection
    <3>2. QED
      BY <1>2, <2>7, <3>1
  <2>8. Sections'
    BY <1>1, <2>1, <2>7 DEF Sections
  <2>9. QED
    BY <2>2, <2>6, <2>8
<1>11. QED
  BY <1>7, <1>8, <1>9, <1>10 DEF Inv
-----------------------------------------------------------------------------
(* The steps between the calls of begin() and the next.                    *)
LEMMA BeginInv == ASSUME Inv, NEW t \in Thread, BeginStarted(t) \/ BeginNext(t)
                  PROVE  Inv'
<1>1. /\ Register(t) /\ using' = using \cup {t}
      /\ UNCHANGED <<worker, msg, sent, stored, ended, sections>>
      /\ pc' = pc \/ pc' = [pc EXCEPT ![t] = "idle"]
  BY DEF BeginStarted, BeginNext, txVars, callVars
<1>2. /\ pc' \in [Thread -> {"idle", "spin", "join", "write"}]
      /\ \A u \in Thread : pc'[u] = "write" => pc[u] = "write"
  BY <1>1 DEF Inv, Typed
<1>3. QED
  BY <1>1, <1>2, RegisterInv

(* At first there are no entries and no messages.                          *)
LEMMA InitInv == Init => Inv
<1> SUFFICES ASSUME Init PROVE Inv
  OBVIOUS
<1>1. /\ NoMessage \in Message /\ NoMessage.text = <<>>
      /\ list \in Seq(Entry) /\ sent \in Seq(Message)
  BY DEF Init, NoMessage, Message, Whose, Text
<1>2. Typed
  BY <1>1 DEF Init, Typed
<1>3. DOMAIN list = {} /\ using = {} /\ ended = {} /\ msg.text = <<>>
  BY <1>1 DEF Init
<1>4. /\ DOMAIN Texts = 1 .. Len(sent) + 1 /\ Len(sent) = 0
      /\ Texts[Len(sent) + 1] = msg.text
  BY <1>2, Shapes DEF Init
<1>5. DOMAIN Texts = {1} /\ Texts[1] = <<>>
  BY <1>3, <1>4
<1>6. \A m \in DOMAIN <<>> : FALSE
  OBVIOUS
<1>7. HandEmpty /\ UsersRegistered /\ WritersRegistered /\ Newcomers /\ Owned /\ NothingLost
  BY <1>3 DEF Init, HandEmpty, UsersRegistered, WritersRegistered, Newcomers, Owned,
              NothingLost
<1>8. AllNumbered /\ OneEntry
  BY <1>3, <1>5, <1>6 DEF AllNumbered, OneEntry
<1>9. Ordered
  BY <1>3, <1>5, <1>6 DEF Ordered, InOrder
<1>10. Sections
  BY <1>3, <1>5, <1>6 DEF Sections, InSection
<1>11. QED
  BY <1>2, <1>7, <1>8, <1>9, <1>10 DEF Inv

(* Every step of Next, of which each has a lemma of its own.               *)
LEMMA NextInv == Inv /\ [Next]_vars => Inv'
<1> SUFFICES ASSUME Inv, [Next]_vars PROVE Inv'
  OBVIOUS
<1>1. CASE WorkerStep
  BY <1>1, WorkerSame, TakeInv, WriteInv DEF WorkerStep
<1>2. ASSUME NEW t \in Thread, CallStep(t) PROVE Inv'
  BY <1>2, BeginInv, StoreInv, CallsSame DEF CallStep
<1>3. ASSUME NEW t \in Thread, Begin(t) PROVE Inv'
  BY <1>3, BeginInv, CallsSame DEF Begin
<1>4. ASSUME NEW t \in Thread, Call(t) PROVE Inv'
  BY <1>4, EndInv, EntrySame, CallsSame DEF Call
<1>5. CASE Arrive
  <2>1. UNCHANGED <<list, sent, msg, worker, pc, stored, using, ended, sections>>
    BY <1>5 DEF Arrive, txVars, callVars, histVars
  <2>2. QED
    BY <2>1, Same DEF Inv, Typed, HandEmpty, WritersRegistered
<1>6. CASE UNCHANGED vars
  <2>1. UNCHANGED <<list, sent, msg, worker, pc, stored, using, ended, sections>>
    BY <1>6 DEF vars, txVars, callVars, histVars
  <2>2. QED
    BY <2>1, Same DEF Inv, Typed, HandEmpty, WritersRegistered
<1>7. QED
  BY <1>1, <1>2, <1>3, <1>4, <1>5, <1>6 DEF Next

(* The inductive invariant of the port, as far as bytes leave through it.  *)
THEOREM Invariance == Spec => []Inv
<1>1. QED
  BY InitInv, NextInv, PTL DEF Spec

(* The assertions of the calls hold: a thread between begin() and end()    *)
(* has an entry, whoever else calls end().                                 *)
THEOREM UsersKeepTheirEntries == Spec => []UsersRegistered
<1>1. Inv => UsersRegistered
  BY DEF Inv
<1>2. QED
  BY <1>1, Invariance, PTL

(* No byte that write() has counted is lost, except to the thread's own    *)
(* end().                                                                  *)
THEOREM CountedBytesKept == Spec => []NothingLost
<1>1. Inv => NothingLost
  BY DEF Inv
<1>2. QED
  BY <1>1, Invariance, PTL

(* A call under way holds _mutex.  Once the worker has been started, the   *)
(* list is empty only while the first begin() waits for it to run.         *)
Held ==
    /\ \A t \in Thread : pc[t] # "idle" => owner = t
    /\ \A t \in Thread : pc[t] = "join" => worker = "off"
    /\ worker # "off" /\ DOMAIN list = {} => \E t \in Thread : pc[t] = "spin"

(* Every step takes _mutex before it begins and releases it at the end.    *)
LEMMA NextHeld == Typed /\ Held /\ [Next]_vars => Held'
<1> SUFFICES ASSUME Typed, Held, [Next]_vars PROVE Held'
  OBVIOUS
<1>1. pc \in [Thread -> {"idle", "spin", "join", "write"}] /\ NoThread \notin Thread
  BY NoThreadAssumption DEF Typed
<1>2. ASSUME UNCHANGED <<pc, owner>>, worker' = "off" <=> worker = "off",
             DOMAIN list' = {} => DOMAIN list = {}
      PROVE  Held'
  BY <1>2 DEF Held
<1>3. ASSUME NEW t \in Thread, Register(t) PROVE DOMAIN list' # {}
  BY <1>3, RegisterList DEF Registered
<1>4. ASSUME NEW t \in Thread, BeginFirst(t) PROVE Held'
  BY <1>1, <1>4 DEF BeginFirst, MayCall, Held
<1>5. ASSUME NEW t \in Thread, BeginStarted(t) PROVE Held'
  BY <1>1, <1>3, <1>5 DEF BeginStarted, Held
<1>6. ASSUME NEW t \in Thread, BeginNext(t) PROVE Held'
  BY <1>2, <1>3, <1>6 DEF BeginNext, callVars, txVars
<1>7. ASSUME NEW t \in Thread, EndUnused(t) PROVE Held'
  <2>1. DOMAIN list = {}
    <3>1. DOMAIN <<>> = {}
      OBVIOUS
    <3>2. QED
      BY <1>7, <3>1 DEF EndUnused
  <2>2. QED
    BY <1>1, <1>7, <2>1 DEF EndUnused, MayCall, txVars, Held
<1>8. ASSUME NEW t \in Thread, NEW len, WriteCall(t, len) PROVE Held'
  BY <1>1, <1>8 DEF WriteCall, UserCalls, MayCall, txVars, Held
<1>9. ASSUME NEW t \in Thread, StoreByte(t) PROVE Held'
  BY <1>2, <1>9 DEF StoreByte, txVars
<1>10. ASSUME NEW t \in Thread, WriteReturn(t) PROVE Held'
  BY <1>1, <1>10 DEF WriteReturn, Held
<1>11. ASSUME NEW t \in Thread, End(t) PROVE Held'
  BY <1>2, <1>11 DEF End, Compact, callVars, txVars
<1>12. ASSUME NEW t \in Thread, Block(t) \/ Unblock(t) \/ Look(t) \/ Read(t) PROVE Held'
  BY <1>2, <1>12 DEF Block, Unblock, Look, Read, Receive, Prepared, callVars, txVars
<1>13. CASE WorkerStep
  BY <1>2, <1>13 DEF WorkerStep, WorkerStart, WorkerWait, WorkerTake, WorkerSuffix, WorkerWrite,
                     WorkerDone, WorkerGoto, Emptied, OthersUnchanged, callVars
<1>14. CASE Arrive \/ UNCHANGED vars
  BY <1>2, <1>14 DEF Arrive, vars, callVars, txVars
<1>15. ASSUME NEW t \in Thread, CallStep(t) \/ Begin(t) \/ Call(t) PROVE Held'
  BY <1>4, <1>5, <1>6, <1>7, <1>8, <1>9, <1>10, <1>11, <1>12, <1>15 DEF CallStep, Begin, Call
<1>16. QED
  BY <1>13, <1>14, <1>15 DEF Next

(* An end() before any begin(), which joins a worker that was not started, *)
(* blocks the port for ever: from then on bytes arrive, but no call of any *)
(* thread begins or goes on, and the worker does not run.                  *)
THEOREM EndBeforeBegin ==
    Spec => [][(\E t \in Thread : pc[t] = "join") =>
                  UNCHANGED <<list, txVars, global, rxBuffer, consumed, got, missed,
                              callVars, histVars>>]_vars
<1>1. Init => Held
  BY DEF Init, Held
<1>2. ASSUME Held, [Next]_vars, NEW t \in Thread, pc[t] = "join"
      PROVE  UNCHANGED <<list, txVars, global, rxBuffer, consumed, got, missed,
                         callVars, histVars>>
  <2>1. owner # NoThread /\ worker = "off" /\ \A u \in Thread : pc[u] \in {"idle", "join"}
    <3>1. owner = t /\ worker = "off" /\ \A u \in Thread : pc[u] # "idle" => u = t
      BY <1>2 DEF Held
    <3>2. QED
      BY <1>2, <3>1, NoThreadAssumption
  <2>2. ~WorkerStep
    BY <2>1 DEF WorkerStep, WorkerStart, WorkerWait, WorkerTake, WorkerSuffix, WorkerWrite,
                WorkerDone, WorkerGoto
  <2>3. ASSUME NEW u \in Thread PROVE ~CallStep(u) /\ ~Begin(u) /\ ~Call(u)
    BY <2>1 DEF CallStep, BeginStarted, StoreByte, WriteReturn, Begin, BeginFirst, BeginNext,
                EndUnused, Call, End, Block, Unblock, Look, Read, Receive, WriteCall,
                UserCalls, MayCall
  <2>4. Arrive \/ UNCHANGED vars
    BY <1>2, <2>2, <2>3 DEF Next
  <2>5. QED
    BY <2>4 DEF Arrive, vars, txVars, rxVars, callVars, histVars
<1>3. Spec => []Held
  <2>1. Inv => Typed
    BY DEF Inv
  <2>2. QED
    BY <1>1, <2>1, NextHeld, Invariance, PTL DEF Spec
<1>4. Held /\ [Next]_vars =>
        [(\E t \in Thread : pc[t] = "join") =>
            UNCHANGED <<list, txVars, global, rxBuffer, consumed, got, missed,
                        callVars, histVars>>]_vars
  BY <1>2
<1>5. QED
  BY <1>3, <1>4, PTL DEF Spec

(* The texts and the ring of a thread, one after the other, are in order.  *)
LEMMA StreamOfInv == ASSUME Inv PROVE StreamKept
<1> SUFFICES ASSUME ended = {}, NEW t \in using PROVE
      LET all == Append(Texts, list[Find(t)].tx)
      IN  \A i, j \in DOMAIN all : \A p \in DOMAIN all[i], q \in DOMAIN all[j] :
              LET b == all[i][p]
                  c == all[j][q]
              IN  b[1] = t /\ c[1] = t =>
                      /\ b[2] \in 1 .. stored[t]
                      /\ i < j \/ (i = j /\ p < q) => b[2] < c[2]
  BY DEF StreamKept
<1> DEFINE tx == list[Find(t)].tx
           all == Append(Texts, tx)
           n == Len(Texts)
<1>1. Find(t) \in DOMAIN list /\ list[Find(t)].tx \in Text
  BY UserFinds, Shapes DEF Inv
<1>2. Texts \in Seq(Text) /\ n \in Nat /\ DOMAIN Texts = 1 .. n
  BY Shapes, LenProperties DEF Inv
<1>3. Ordered /\ AllNumbered
  BY DEF Inv
<1>4. /\ InOrder(tx) /\ \A p \in DOMAIN tx : Numbered(tx[p])
      /\ \A i \in DOMAIN Texts : AllPrecede(Texts[i], tx)
  BY <1>1, <1>3 DEF Ordered, AllNumbered
<1> HIDE DEF tx
<1>5. tx \in Text
  BY <1>1 DEF tx
<1>6. /\ DOMAIN all = 1 .. n + 1 /\ all[n + 1] = tx
      /\ \A i \in 1 .. n : all[i] = Texts[i]
  BY <1>2, <1>5, AppendProperties, LenProperties
<1> HIDE DEF all, n
<1>7. ASSUME NEW i \in DOMAIN all, NEW p \in DOMAIN all[i] PROVE Numbered(all[i][p])
  BY <1>2, <1>3, <1>4, <1>6 DEF AllNumbered
<1>8. ASSUME NEW i \in DOMAIN all PROVE InOrder(all[i])
  BY <1>2, <1>3, <1>4, <1>6 DEF Ordered
<1>9. ASSUME NEW i \in DOMAIN all, NEW j \in DOMAIN all, i < j
      PROVE  AllPrecede(all[i], all[j])
  BY <1>2, <1>3, <1>4, <1>6, <1>9 DEF Ordered
<1>10. ASSUME NEW i \in DOMAIN all, NEW j \in DOMAIN all,
              NEW p \in DOMAIN all[i], NEW q \in DOMAIN all[j],
              all[i][p][1] = t, all[j][q][1] = t
       PROVE  /\ all[i][p][2] \in 1 .. stored[t]
              /\ i < j \/ (i = j /\ p < q) => all[i][p][2] < all[j][q][2]
  <2>1. all[i][p][2] \in 1 .. stored[t]
    BY <1>7, <1>10 DEF Numbered
  <2>2. CASE i < j
    BY <1>9, <1>10, <2>1, <2>2 DEF AllPrecede, Precedes
  <2>3. CASE i = j /\ p < q
    BY <1>8, <1>10, <2>1, <2>3 DEF InOrder, Precedes
  <2>4. QED
    BY <2>1, <2>2, <2>3
<1>11. QED
  BY <1>10 DEF all, tx

(* Before any end() the port gets the bytes of a thread once and in the    *)
(* order of its writes.                                                    *)
THEOREM BytesInOrder == Spec => []StreamKept
<1>1. QED
  BY StreamOfInv, Invariance, PTL

(* A section that has left in a message has no part anywhere else.         *)
LEMMA SectionsOfInv == ASSUME Inv PROVE BlockedTogether
<1>1. ASSUME ended = {}, NEW t \in using, NEW s \in 1 .. MaxCalls
      PROVE  /\ \A i, j \in DOMAIN Texts :
                  InSection(Texts[i], t, s) /\ InSection(Texts[j], t, s) => i = j
             /\ (\E i \in DOMAIN Texts : InSection(Texts[i], t, s))
                  => ~InSection(list[Find(t)].tx, t, s) /\ Section(t) # s
  <2>1. Sections /\ t \in Thread /\ s \in Nat \ {0}
    BY <1>1, BoundAssumption DEF Inv, Typed
  <2>2. Find(t) \in DOMAIN list /\ list[Find(t)].id = t
    BY UserFinds, Shapes DEF Inv
  <2>3. ASSUME NEW i \in DOMAIN Texts, InSection(Texts[i], t, s)
        PROVE  ~InSection(list[Find(t)].tx, t, s) /\ Section(t) # s
    <3>1. /\ ~InSection(list[Find(t)].tx, t, s)
          /\ list[Find(t)].blocked => sections[t] # s
      BY <2>1, <2>2, <2>3 DEF Sections
    <3>2. QED
      BY <2>1, <3>1 DEF Section
  <2>4. QED
    BY <2>1, <2>3 DEF Sections
<1>2. QED
  BY <1>1 DEF BlockedTogether

(* Before any end() a section between block() and unblock() leaves in one  *)
(* message.                                                                *)
THEOREM SectionsLeaveTogether == Spec => []BlockedTogether
<1>1. QED
  BY SectionsOfInv, Invariance, PTL
-----------------------------------------------------------------------------
(* S and T are the first k and the other elements of gr followed by o.     *)
Splits(gr, o, S, T, W, k) ==
    /\ k \in 0 .. Len(W) /\ Len(W) \in Nat /\ Len(gr) \in Nat /\ Len(o) \in Nat
    /\ Len(W) = Len(gr) + Len(o)
    /\ DOMAIN gr = 1 .. Len(gr) /\ \A i \in 1 .. Len(gr) : W[i] = gr[i]
    /\ DOMAIN o = 1 .. Len(o) /\ \A i \in 1 .. Len(o) : W[Len(gr) + i] = o[i]
    /\ \A i \in 1 .. Len(W) : W[i] \in Nat
    /\ DOMAIN S = 1 .. k /\ \A i \in 1 .. k : S[i] = W[i]
    /\ DOMAIN T = 1 .. Len(W) - k /\ \A i \in 1 .. Len(W) - k : T[i] = W[k + i]

(* The length of what is left when m of l elements go.                     *)
LEMMA Rest ==
    ASSUME NEW l \in Nat, NEW size \in Nat, NEW m, m = IF l < size THEN l ELSE size
    PROVE  l - m = IF size + 1 <= l THEN l - (size + 1) + 1 ELSE 0
OBVIOUS

(* The bytes o are offered to a ring with the bytes r, of which g have been *)
(* read: the ring takes the first of them.                                 *)
LEMMA Offering ==
    ASSUME NEW g \in Seq(Nat), NEW r \in Seq(Nat), NEW o \in Seq(Nat)
    PROVE  LET F == r \o o
               A == Accepted(F)
               T == SubSeq(F, RxSize + 1, Len(F))
           IN  /\ A \in Seq(Nat)
               /\ \E W, k : Splits(g \o r, o, g \o A, T, W, k)
<1> DEFINE n == Len(g)
           F == r \o o
           gr == g \o r
           W == gr \o o
           A == Accepted(F)
           S == g \o A
           T == SubSeq(F, RxSize + 1, Len(F))
           m == IF Len(F) < RxSize THEN Len(F) ELSE RxSize
<1>1. n \in Nat /\ Len(r) \in Nat /\ Len(o) \in Nat /\ RxSize \in Nat
  BY LenProperties, SizeAssumption
<1>2. /\ F \in Seq(Nat) /\ Len(F) = Len(r) + Len(o)
      /\ gr \in Seq(Nat) /\ Len(gr) = n + Len(r)
      /\ \A i \in 1 .. Len(r) + Len(o) : F[i] = IF i <= Len(r) THEN r[i] ELSE o[i - Len(r)]
  BY ConcatProperties
<1>3. W = g \o F
  BY SMTT(60), ConcatAssociative
<1>4. m \in 0 .. Len(F) /\ m <= RxSize /\ A = SubSeq(F, 1, m) /\ (m = Len(F) \/ m = RxSize)
  BY <1>1, <1>2 DEF Accepted
<1>5. \A i \in 1 .. Len(F) : F[i] \in Nat
  BY <1>2, ElementOfSeq
<1> HIDE DEF F, m, A, gr
<1>6. /\ W \in Seq(Nat) /\ Len(W) = n + Len(F) /\ Len(F) \in Nat
      /\ \A i \in 1 .. n + Len(F) : W[i] = IF i <= n THEN g[i] ELSE F[i - n]
  <2>1. F \in Seq(Nat) /\ Len(F) \in Nat
    BY <1>1, <1>2
  <2>2. /\ g \o F \in Seq(Nat)
        /\ Len(g \o F) = Len(g) + Len(F)
        /\ \A i \in 1 .. Len(g) + Len(F) :
              (g \o F)[i] = IF i <= Len(g) THEN g[i] ELSE F[i - Len(g)]
    <3> HIDE DEF n, W, S, T
    <3>1. QED
      BY ONLY <2>1, g \in Seq(Nat), ConcatProperties
  <2> HIDE DEF W
  <2>3. QED
    BY <1>3, <2>1, <2>2
<1>7. \A i \in 1 .. Len(gr) + Len(o) : W[i] = IF i <= Len(gr) THEN gr[i] ELSE o[i - Len(gr)]
  <2>1. gr \in Seq(Nat)
    BY <1>2
  <2>2. QED
    BY <2>1, ConcatProperties
<1> HIDE DEF W
<1>8. DOMAIN W = 1 .. Len(W) /\ DOMAIN gr = 1 .. Len(gr) /\ DOMAIN o = 1 .. Len(o)
      /\ \A i \in 1 .. Len(W) : W[i] \in Nat
  BY <1>2, <1>6, LenProperties, ElementOfSeq
<1>9. /\ A \in Seq(Nat) /\ Len(A) = m
      /\ \A i \in 1 .. m : A[i] = F[i]
  <2>1. /\ SubSeq(F, 1, m) \in Seq(Nat)
        /\ Len(SubSeq(F, 1, m)) = IF 1 <= m THEN m - 1 + 1 ELSE 0
        /\ \A i \in 1 .. m - 1 + 1 : SubSeq(F, 1, m)[i] = F[1 + i - 1]
    <3>1. 1 \in Int /\ m \in Int /\ \A i \in 1 .. m : F[i] \in Nat
      BY <1>4, <1>5, <1>6
    <3>2. QED
      BY <3>1, SubSeqProperties
  <2>2. QED
    BY <1>4, <1>6, <2>1
<1>10. /\ S \in Seq(Nat) /\ Len(S) = n + m
       /\ \A i \in 1 .. n + m : S[i] = IF i <= n THEN g[i] ELSE A[i - n]
  BY <1>9, ConcatProperties
<1> HIDE DEF S
<1>11. DOMAIN S = 1 .. n + m /\ \A i \in 1 .. n + m : S[i] = W[i]
  <2>1. DOMAIN S = 1 .. n + m
    BY <1>10, LenProperties
  <2>2. ASSUME NEW i \in 1 .. n PROVE S[i] = W[i]
    <3>1. i \in 1 .. n + m /\ i \in 1 .. n + Len(F) /\ i <= n
      BY SMTT(60), <1>1, <1>4, <1>6
    <3>2. QED
      BY <1>6, <1>10, <3>1
  <2>3. ASSUME NEW i \in 1 .. n + m, i \notin 1 .. n PROVE S[i] = W[i]
    <3>1. i \in 1 .. n + Len(F) /\ ~ (i <= n) /\ i - n \in 1 .. m
      BY <1>1, <1>4, <1>6, <2>3
    <3>2. QED
      BY <1>6, <1>9, <1>10, <3>1
  <2>4. QED
    BY <2>1, <2>2, <2>3
<1>12. /\ T \in Seq(Nat)
       /\ DOMAIN T = 1 .. Len(F) - m
       /\ \A i \in 1 .. Len(F) - m : T[i] = W[n + m + i]
  <2>1. /\ SubSeq(F, RxSize + 1, Len(F)) \in Seq(Nat)
        /\ Len(SubSeq(F, RxSize + 1, Len(F))) =
             IF RxSize + 1 <= Len(F) THEN Len(F) - (RxSize + 1) + 1 ELSE 0
        /\ \A i \in 1 .. Len(F) - (RxSize + 1) + 1 :
              SubSeq(F, RxSize + 1, Len(F))[i] = F[RxSize + 1 + i - 1]
    <3>1. RxSize + 1 \in Int /\ Len(F) \in Int /\ \A i \in RxSize + 1 .. Len(F) : F[i] \in Nat
      BY <1>1, <1>5, <1>6
    <3>2. QED
      BY <3>1, SubSeqProperties
  <2>2. DOMAIN T = 1 .. Len(T)
    BY <2>1, LenProperties
  <2> HIDE DEF T
  <2>3. T \in Seq(Nat) /\ Len(T) = Len(F) - m
    <3>1. T \in Seq(Nat)
      BY <2>1 DEF T
    <3>2. Len(T) = IF RxSize + 1 <= Len(F) THEN Len(F) - (RxSize + 1) + 1 ELSE 0
      BY <2>1, Zenon DEF T
    <3>3. Len(F) \in Nat
      BY <1>6
    <3>4. m = IF Len(F) < RxSize THEN Len(F) ELSE RxSize
      BY Zenon DEF m
    <3>5. Len(T) = Len(F) - m
      BY <1>1, <3>2, <3>3, <3>4, Rest, Zenon
    <3>6. QED
      BY <3>1, <3>5
  <2>4. ASSUME NEW i \in 1 .. Len(F) - m PROVE T[i] = W[n + m + i]
    <3>1. m = RxSize
      BY <1>4, <1>6
    <3>2. i \in 1 .. Len(F) - (RxSize + 1) + 1 /\ RxSize + 1 + i - 1 = m + i
      BY <1>1, <1>6, <3>1
    <3>3. T[i] = F[m + i]
      BY <2>1, <3>2 DEF T
    <3>4. n + m + i \in 1 .. n + Len(F) /\ ~ (n + m + i <= n) /\ (n + m + i) - n = m + i
      BY <1>1, <1>4, <1>6
    <3>5. \A j \in 1 .. n + Len(F) : ~ (j <= n) => W[j] = F[j - n]
      BY <1>6
    <3>6. W[n + m + i] = F[(n + m + i) - n]
      BY <3>4, <3>5, Zenon
    <3>7. QED
      BY <3>3, <3>4, <3>6
  <2>5. QED
    BY <2>2, <2>3, <2>4
<1> HIDE DEF T
<1>13. Splits(gr, o, S, T, W, n + m)
  <2>1. n + m \in 0 .. Len(W) /\ Len(W) = Len(gr) + Len(o) /\ Len(W) - (n + m) = Len(F) - m
        /\ Len(W) \in Nat /\ Len(gr) \in Nat
    BY <1>1, <1>2, <1>4, <1>6
  <2>2. \A i \in 1 .. Len(gr) : W[i] = gr[i]
    BY <1>1, <1>7, <2>1
  <2>3. ASSUME NEW i \in 1 .. Len(o) PROVE W[Len(gr) + i] = o[i]
    <3>1. /\ Len(gr) + i \in 1 .. Len(gr) + Len(o) /\ ~ (Len(gr) + i <= Len(gr))
          /\ Len(gr) + i - Len(gr) = i
      BY <1>1, <2>1
    <3>2. QED
      BY <1>7, <3>1
  <2>4. QED
    BY <1>1, <1>8, <1>11, <1>12, <2>1, <2>2, <2>3 DEF Splits
<1>14. QED
  BY <1>9, <1>13 DEF A, F, S, T, W, gr

(* A thread has read g and missed M.  Its ring with the bytes r is offered *)
(* o, takes what it can and misses the rest.                               *)
SeesOrMisses(g, r, o, M) ==
    LET F == r \o o
        S == g \o Accepted(F)
        R == ToSet(SubSeq(F, RxSize + 1, Len(F)))
    IN  /\ Accepted(F) \in Seq(Nat) /\ R \in SUBSET Nat
        /\ Increasing(S)
        /\ ToSet(S) \cap (M \cup R) = {}
        /\ ToSet(S) \cup (M \cup R) = ToSet(g \o r) \cup M \cup ToSet(o)

(* Then a thread sees or misses each byte that is offered, and no byte     *)
(* twice, when they all come after byte c, the last it has seen or missed. *)
LEMMA Cut ==
    ASSUME NEW g \in Seq(Nat), NEW r \in Seq(Nat), NEW o \in Seq(Nat), NEW c \in Nat,
           NEW M \in SUBSET Nat,
           Increasing(g \o r), Increasing(o), ToSet(g \o r) \cap M = {},
           \A x \in ToSet(g \o r) \cup M : x <= c,
           \A x \in ToSet(o) : c < x
    PROVE  SeesOrMisses(g, r, o, M)
<1> DEFINE F == r \o o
           gr == g \o r
           A == Accepted(F)
           S == g \o A
           T == SubSeq(F, RxSize + 1, Len(F))
<1>1. A \in Seq(Nat) /\ \E W, k : Splits(gr, o, S, T, W, k)
  BY Offering
<1> HIDE DEF F, gr, A, S, T
<1>2. PICK W, k : Splits(gr, o, S, T, W, k)
  BY <1>1
<1>3. /\ k \in 0 .. Len(W) /\ Len(W) \in Nat /\ Len(gr) \in Nat /\ Len(o) \in Nat
      /\ Len(W) = Len(gr) + Len(o)
  BY <1>2 DEF Splits
<1>4. /\ DOMAIN gr = 1 .. Len(gr) /\ \A i \in 1 .. Len(gr) : W[i] = gr[i]
      /\ DOMAIN o = 1 .. Len(o) /\ \A i \in 1 .. Len(o) : W[Len(gr) + i] = o[i]
      /\ \A i \in 1 .. Len(W) : W[i] \in Nat
  BY <1>2 DEF Splits
<1>5. /\ DOMAIN S = 1 .. k /\ \A i \in 1 .. k : S[i] = W[i]
      /\ DOMAIN T = 1 .. Len(W) - k /\ \A i \in 1 .. Len(W) - k : T[i] = W[k + i]
  BY <1>2 DEF Splits
<1>6. \A i \in 1 .. Len(W) : i \in 1 .. Len(gr) \/ (i - Len(gr) \in 1 .. Len(o)
                                                   /\ W[i] = o[i - Len(gr)])
  <2>1. ASSUME NEW i \in 1 .. Len(W), i \notin 1 .. Len(gr)
        PROVE  i - Len(gr) \in 1 .. Len(o) /\ Len(gr) + (i - Len(gr)) = i
    BY <1>3, <2>1
  <2>2. QED
    BY <1>4, <2>1
<1>7. ToSet(S) = {W[i] : i \in 1 .. k}
  BY <1>5 DEF ToSet
<1>8. ToSet(T) = {W[i] : i \in k + 1 .. Len(W)}
  <2>1. ASSUME NEW i \in k + 1 .. Len(W) PROVE W[i] \in ToSet(T)
    <3>1. i - k \in 1 .. Len(W) - k /\ k + (i - k) = i
      BY <1>3
    <3>2. i - k \in DOMAIN T /\ T[i - k] = W[i]
      BY <1>5, <3>1
    <3>3. QED
      BY <3>2 DEF ToSet
  <2>2. ASSUME NEW i \in DOMAIN T PROVE T[i] \in {W[j] : j \in k + 1 .. Len(W)}
    <3>1. i \in 1 .. Len(W) - k /\ k + i \in k + 1 .. Len(W)
      BY <1>3, <1>5
    <3>2. QED
      BY <1>5, <3>1
  <2>3. QED
    BY <2>1, <2>2 DEF ToSet
<1>9. \A x : x \in ToSet(gr) \cup ToSet(o) <=> \E i \in 1 .. Len(W) : x = W[i]
  <2>1. ASSUME NEW i \in 1 .. Len(W) PROVE W[i] \in ToSet(gr) \cup ToSet(o)
    BY <1>4, <1>6 DEF ToSet
  <2>2. ASSUME NEW i \in DOMAIN gr PROVE i \in 1 .. Len(W) /\ W[i] = gr[i]
    <3>1. i \in 1 .. Len(gr)
      BY <1>4
    <3>2. i \in 1 .. Len(W)
      BY <1>3, <3>1
    <3>3. QED
      BY <1>4, <3>1, <3>2
  <2>3. ASSUME NEW i \in DOMAIN o
        PROVE  Len(gr) + i \in 1 .. Len(W) /\ W[Len(gr) + i] = o[i]
    <3>1. i \in 1 .. Len(o)
      BY <1>4
    <3>2. Len(gr) + i \in 1 .. Len(W)
      BY <1>3, <3>1
    <3>3. QED
      BY <1>4, <3>1, <3>2
  <2>4. QED
    BY <2>1, <2>2, <2>3 DEF ToSet
<1>10. ToSet(S) \cup ToSet(T) = ToSet(gr) \cup ToSet(o)
  <2>1. 1 .. Len(W) = 1 .. k \cup k + 1 .. Len(W)
    BY <1>3
  <2>2. \A x : x \in ToSet(S) \cup ToSet(T) <=> \E i \in 1 .. Len(W) : x = W[i]
    BY <1>7, <1>8, <2>1
  <2>3. QED
    BY <1>9, <2>2
<1>11. ASSUME NEW i \in 1 .. Len(W), NEW j \in 1 .. Len(W), i < j PROVE W[i] < W[j]
  <2>1. CASE i \in 1 .. Len(gr) /\ j \in 1 .. Len(gr)
    BY <1>4, <1>11, <2>1 DEF Increasing, gr
  <2>2. CASE i \notin 1 .. Len(gr)
    <3>1. j \notin 1 .. Len(gr) /\ i - Len(gr) < j - Len(gr)
      BY <1>3, <1>11, <2>2
    <3>2. /\ i - Len(gr) \in DOMAIN o /\ j - Len(gr) \in DOMAIN o
          /\ W[i] = o[i - Len(gr)] /\ W[j] = o[j - Len(gr)]
      BY <1>4, <1>6, <2>2, <3>1
    <3>3. QED
      BY <3>1, <3>2 DEF Increasing
  <2>3. CASE i \in 1 .. Len(gr) /\ j \notin 1 .. Len(gr)
    <3>1. i \in DOMAIN gr /\ W[i] = gr[i] /\ j - Len(gr) \in DOMAIN o
          /\ W[j] = o[j - Len(gr)]
      BY <1>4, <1>6, <2>3
    <3>2. W[i] \in ToSet(gr) /\ W[j] \in ToSet(o) /\ W[i] \in Nat /\ W[j] \in Nat
      BY <1>4, <3>1 DEF ToSet
    <3>3. W[i] <= c /\ c < W[j]
      BY <3>2 DEF gr
    <3>4. QED
      BY <3>2, <3>3
  <2>4. QED
    BY <2>1, <2>2, <2>3
<1>12. Increasing(S)
  <2>1. ASSUME NEW i \in DOMAIN S, NEW j \in DOMAIN S, i < j PROVE S[i] < S[j]
    <3>1. i \in 1 .. Len(W) /\ j \in 1 .. Len(W) /\ S[i] = W[i] /\ S[j] = W[j]
      BY <1>3, <1>5
    <3>2. QED
      BY <1>11, <2>1, <3>1
  <2>2. QED
    BY <2>1 DEF Increasing
<1>13. ToSet(S) \cap ToSet(T) = {}
  <2>1. ASSUME NEW i \in 1 .. k, NEW j \in k + 1 .. Len(W) PROVE W[i] # W[j]
    <3>1. i \in 1 .. Len(W) /\ j \in 1 .. Len(W) /\ i < j
      BY <1>3
    <3>2. W[i] < W[j] /\ W[i] \in Nat /\ W[j] \in Nat
      BY <1>4, <1>11, <3>1
    <3>3. QED
      BY <3>2
  <2>2. QED
    BY <1>7, <1>8, <2>1
<1>14. ToSet(S) \cap M = {}
  <2>1. ASSUME NEW x \in ToSet(S), x \in M PROVE FALSE
    <3>1. x \in ToSet(gr) \/ x \in ToSet(o)
      BY <1>10, <2>1
    <3>2. x \notin ToSet(gr) /\ x <= c /\ x \in Nat
      BY <2>1 DEF gr
    <3>3. c < x
      BY <3>1, <3>2
    <3>4. QED
      BY <3>2, <3>3
  <2>2. QED
    BY <2>1
<1>15. ToSet(T) \in SUBSET Nat
  <2>1. ASSUME NEW i \in k + 1 .. Len(W) PROVE W[i] \in Nat
    <3>1. i \in 1 .. Len(W)
      BY <1>3
    <3>2. QED
      BY <1>4, <3>1
  <2>2. QED
    BY <1>8, <2>1
<1>16. /\ A \in Seq(Nat) /\ ToSet(T) \in SUBSET Nat /\ Increasing(S)
       /\ ToSet(S) \cap (M \cup ToSet(T)) = {}
       /\ ToSet(S) \cup (M \cup ToSet(T)) = ToSet(gr) \cup M \cup ToSet(o)
  BY <1>1, <1>10, <1>12, <1>13, <1>14, <1>15
<1>17. QED
  BY <1>16 DEF A, S, T, F, gr, SeesOrMisses

(* A sequence with no elements is the empty one.                           *)
LEMMA NoElements == ASSUME NEW s \in Seq(Nat), ToSet(s) = {} PROVE s = <<>>
<1>1. Len(s) \in Nat /\ DOMAIN s = 1 .. Len(s)
  BY LenProperties
<1>2. DOMAIN s = {}
  BY DEF ToSet
<1>3. Len(s) = 0
  BY <1>1, <1>2
<1>4. QED
  BY <1>3, EmptySeq

(* read() takes the first byte out of the ring: what is seen stays.        *)
LEMMA HeadMoves == ASSUME NEW g \in Seq(Nat), NEW a \in Seq(Nat), a # <<>>
                   PROVE  /\ Append(g, Head(a)) \in Seq(Nat) /\ Tail(a) \in Seq(Nat)
                          /\ Append(g, Head(a)) \o Tail(a) = g \o a
<1> DEFINE G == Append(g, Head(a))
           T == Tail(a)
<1>1. /\ Head(a) \in Nat /\ T \in Seq(Nat) /\ Len(T) = Len(a) - 1 /\ Head(a) = a[1]
      /\ \A i \in 1 .. Len(T) : T[i] = a[i + 1]
  BY HeadTailProperties
<1>2. /\ G \in Seq(Nat) /\ Len(G) = Len(g) + 1
      /\ \A i \in 1 .. Len(g) : G[i] = g[i]
      /\ G[Len(g) + 1] = a[1]
  BY <1>1, AppendProperties
<1> HIDE DEF G, T
<1>3. Len(g) \in Nat /\ Len(a) \in Nat /\ Len(a) # 0
  BY LenProperties, EmptySeq
<1>4. /\ G \o T \in Seq(Nat) /\ Len(G \o T) = Len(G) + Len(T)
      /\ \A i \in 1 .. Len(G) + Len(T) : (G \o T)[i] = IF i <= Len(G) THEN G[i] ELSE T[i - Len(G)]
  BY <1>1, <1>2, ConcatProperties
<1>5. /\ g \o a \in Seq(Nat) /\ Len(g \o a) = Len(g) + Len(a)
      /\ \A i \in 1 .. Len(g) + Len(a) : (g \o a)[i] = IF i <= Len(g) THEN g[i] ELSE a[i - Len(g)]
  BY ConcatProperties
<1>6. Len(G \o T) = Len(g \o a)
  BY <1>1, <1>2, <1>3, <1>4, <1>5
<1>7. ASSUME NEW i \in 1 .. Len(G \o T) PROVE (G \o T)[i] = (g \o a)[i]
  <2>1. i \in 1 .. Len(G) + Len(T) /\ i \in 1 .. Len(g) + Len(a)
    BY <1>1, <1>2, <1>3, <1>4
  <2>2. (G \o T)[i] = (IF i <= Len(G) THEN G[i] ELSE T[i - Len(G)])
    BY <1>4, <2>1
  <2>3. (g \o a)[i] = (IF i <= Len(g) THEN g[i] ELSE a[i - Len(g)])
    BY <1>5, <2>1
  <2>4. CASE i <= Len(g)
    <3>1. i \in 1 .. Len(g) /\ i <= Len(G)
      BY <1>2, <1>3, <2>1, <2>4
    <3>2. QED
      BY <1>2, <2>2, <2>3, <2>4, <3>1
  <2>5. CASE i = Len(g) + 1
    <3>1. ~ (i <= Len(g)) /\ i <= Len(G) /\ i - Len(g) = 1
      BY <1>2, <1>3, <2>5
    <3>2. QED
      BY <1>2, <2>2, <2>3, <2>5, <3>1
  <2>6. CASE i > Len(g) + 1
    <3>1. /\ ~ (i <= Len(g)) /\ ~ (i <= Len(G)) /\ i - Len(G) \in 1 .. Len(T)
          /\ (i - Len(G)) + 1 = i - Len(g)
      <4>1. /\ i \in Int /\ i <= Len(g) + Len(a) /\ Len(g) \in Int /\ Len(a) \in Int
            /\ Len(G) = Len(g) + 1 /\ Len(T) = Len(a) - 1
        BY <1>1, <1>2, <1>3, <2>1
      <4>2. QED
        BY <2>6, <4>1
    <3>2. T[i - Len(G)] = a[(i - Len(G)) + 1]
      BY <1>1, <3>1
    <3>3. QED
      BY <2>2, <2>3, <3>1, <3>2
  <2>7. i \in Int /\ Len(g) \in Int
    BY <1>3, <2>1
  <2>8. i <= Len(g) \/ i = Len(g) + 1 \/ i > Len(g) + 1
    BY <2>7
  <2>9. QED
    BY <2>4, <2>5, <2>6, <2>8
<1>8. G \o T = g \o a
  BY <1>4, <1>5, <1>6, <1>7, SeqEqual
<1>9. QED
  BY <1>1, <1>2, <1>8 DEF G, T
-----------------------------------------------------------------------------
(* prepareSerialReader() gives the thread's entry the thread's ring.       *)
LEMMA PreparedList ==
    ASSUME Inv, NEW t \in using
    PROVE  /\ DOMAIN Prepared(t) = DOMAIN list
           /\ Find(t) \in DOMAIN list /\ list[Find(t)].id = t /\ Prepared(t)[Find(t)].rx = t
           /\ \A i \in DOMAIN list : /\ Prepared(t)[i].id = list[i].id
                                     /\ Prepared(t)[i].rx \in {NoBuffer, list[i].id}
                                     /\ i # Find(t) => Prepared(t)[i] = list[i]
<1> DEFINE f == Find(t)
           e == [list[f] EXCEPT !.rx = t]
<1>1. /\ f \in DOMAIN list /\ list[f] \in Entry /\ list[f].id = t
      /\ \A i \in DOMAIN list : list[i].rx \in {NoBuffer, list[i].id}
  BY UserFinds, Shapes DEF Inv, Owned
<1>2. Prepared(t) = [list EXCEPT ![f] = e]
  BY DEF Prepared
<1>3. e.rx = t /\ e.id = t
  BY <1>1 DEF Entry
<1> HIDE DEF e, f
<1>4. DOMAIN Prepared(t) = DOMAIN list
      /\ \A i \in DOMAIN list : Prepared(t)[i] = IF i = f THEN e ELSE list[i]
  BY <1>1, <1>2
<1>5. QED
  BY <1>1, <1>3, <1>4 DEF f

(* Before any end() the ring of a thread has one pointer at most, so it is *)
(* offered each byte once.                                                 *)
LEMMA OfferedOnce ==
    ASSUME Inv, RxTyped, ended = {}, NEW t \in using, NEW b \in Thread
    PROVE  LET o == Offered(b, Prepared(t)) IN
           /\ o \in Seq(Nat) /\ Increasing(o) /\ \A x \in ToSet(o) : consumed < x
           /\ ToSet(o) = IF \E i \in DOMAIN list : Prepared(t)[i].rx = b
                         THEN consumed + 1 .. arrived ELSE {}
<1> DEFINE P == {i \in DOMAIN Prepared(t) : Prepared(t)[i].rx = b}
           d == arrived - consumed
           o == Offered(b, Prepared(t))
<1>1. d \in Nat /\ consumed \in Nat /\ arrived \in Nat /\ arrived = consumed + d
  BY DEF RxTyped
<1>2. o = [k \in 1 .. d * Cardinality(P) |-> consumed + 1 + (k - 1) \div Cardinality(P)]
  BY DEF Offered
<1>3. OneEntry /\ b # NoBuffer
  BY NoThreadAssumption DEF Inv
<1>4. \A i, j \in P : i = j
  BY <1>3, PreparedList DEF OneEntry
<1>5. (\E i \in DOMAIN list : Prepared(t)[i].rx = b) <=> P # {}
  BY PreparedList
<1> HIDE DEF P, d, o
<1>6. CASE P = {}
  <2>1. Cardinality(P) = 0
    BY <1>6, FS_EmptySet
  <2>2. 1 .. d * Cardinality(P) = {}
    BY <1>1, <2>1
  <2>3. DOMAIN o = {}
    BY <1>2, <2>2
  <2>4. o \in Seq(Nat)
    <3>1. o = [k \in {} |-> consumed + 1 + (k - 1) \div Cardinality(P)]
      BY <1>2, <2>2
    <3>2. o = <<>>
      BY <3>1
    <3>3. QED
      BY <3>2
  <2>5. ToSet(o) = {} /\ Increasing(o)
    BY <2>3 DEF ToSet, Increasing
  <2>6. QED
    BY <1>5, <1>6, <2>4, <2>5 DEF o
<1>7. CASE P # {}
  <2>1. PICK i : P = {i}
    BY <1>4, <1>7
  <2>2. Cardinality(P) = 1
    BY <2>1, FS_Singleton
  <2>3. \A k \in 1 .. d : consumed + 1 + (k - 1) \div 1 = consumed + k
    BY <1>1
  <2>4. d * 1 = d
    BY <1>1
  <2>5. o = [k \in 1 .. d |-> consumed + k]
    BY <1>2, <2>2, <2>3, <2>4
  <2>6. o \in Seq(Nat) /\ DOMAIN o = 1 .. d /\ \A k \in 1 .. d : o[k] = consumed + k
    <3>1. \A k \in 1 .. d : consumed + k \in Nat
      BY <1>1
    <3>2. o \in [1 .. d -> Nat]
      BY <2>5, <3>1
    <3>3. QED
      BY <1>1, <2>5, <3>2
  <2>7. Increasing(o)
    BY <1>1, <2>6 DEF Increasing
  <2>8. ToSet(o) = consumed + 1 .. arrived
    <3>1. ASSUME NEW x \in consumed + 1 .. arrived PROVE x \in ToSet(o)
      <4>1. x - consumed \in 1 .. d /\ consumed + (x - consumed) = x
        BY <1>1
      <4>2. QED
        BY <2>6, <4>1 DEF ToSet
    <3>2. ASSUME NEW k \in 1 .. d PROVE consumed + k \in consumed + 1 .. arrived
      BY <1>1
    <3>3. QED
      BY <2>6, <3>1, <3>2 DEF ToSet
  <2>9. \A x \in ToSet(o) : consumed < x
    BY <1>1, <2>8
  <2>10. QED
    BY <1>5, <1>7, <2>6, <2>7, <2>8, <2>9 DEF o
<1>8. QED
  BY <1>6, <1>7

(* A ring that is new is empty like the one it is written as.              *)
LEMMA FilledIs ==
    ASSUME Inv, RxInv, ended = {}, NEW t \in using, NEW b \in Thread
    PROVE  Filled(t, b) = rxBuffer[b] \o Offered(b, Prepared(t))
<1>1. CASE b = t /\ list[Find(t)].rx = NoBuffer
  <2>1. ~ Subscriber(t)
    <3>1. OneEntry /\ NoBuffer # t
      BY NoThreadAssumption, UserFinds DEF Inv
    <3>2. QED
      BY <1>1, <3>1, PreparedList DEF Subscriber, OneEntry
  <2>2. t \in Thread /\ rxBuffer[t] = <<>>
    BY <1>1, <2>1 DEF RxInv, SeenInOrder
  <2>3. QED
    BY <1>1, <2>2 DEF Filled
<1>2. CASE ~ (b = t /\ list[Find(t)].rx = NoBuffer)
  BY <1>2 DEF Filled
<1>3. QED
  BY <1>1, <1>2

(* What thread b has seen and missed after a call of reader t.             *)
LEMMA Offers ==
    ASSUME Inv, RxInv, ended = {}, NEW t \in Thread, Receive(t), NEW b \in Thread
    PROVE  LET a == Received(t)[b]
               s == got[b] \o a
           IN  /\ a \in Seq(Nat) /\ missed'[b] \in SUBSET Nat
               /\ Increasing(s) /\ ToSet(s) \cap missed'[b] = {}
               /\ ~Subscriber(b)' => got[b] = <<>> /\ a = <<>> /\ missed'[b] = {}
               /\ ToSet(s) \cup missed'[b] # {} =>
                    \E first \in 1 .. arrived : ToSet(s) \cup missed'[b] = first .. arrived
<1> DEFINE o == Offered(b, Prepared(t))
           r == rxBuffer[b]
           g == got[b]
           old == ToSet(g \o r) \cup missed[b]
           a == Received(t)[b]
           s == g \o a
           new == ToSet(s) \cup missed'[b]
<1>1. /\ t \in using /\ list' = Prepared(t) /\ consumed' = arrived
      /\ missed'[b] = missed[b]
           \cup ToSet(SubSeq(Filled(t, b), RxSize + 1, Len(Filled(t, b))))
  BY DEF Receive, UserCalls
<1>2. RxTyped /\ SeenInOrder(b)
  BY DEF RxInv
<1>3. Filled(t, b) = r \o o /\ a = Accepted(r \o o)
  BY <1>1, FilledIs DEF Received
<1>4. /\ o \in Seq(Nat) /\ Increasing(o) /\ \A x \in ToSet(o) : consumed < x
      /\ ToSet(o) = IF \E i \in DOMAIN list : Prepared(t)[i].rx = b
                    THEN consumed + 1 .. arrived ELSE {}
  BY <1>1, <1>2, OfferedOnce
<1>5. Subscriber(b)' <=> \E i \in DOMAIN list : Prepared(t)[i].rx = b
  <2>1. b # NoBuffer
    BY NoThreadAssumption
  <2>2. QED
    BY <1>1, <2>1, PreparedList DEF Subscriber
<1>6. Subscriber(b) => Subscriber(b)'
  BY <1>1, <1>5, PreparedList DEF Subscriber
<1>7. /\ g \in Seq(Nat) /\ r \in Seq(Nat) /\ missed[b] \in SUBSET Nat
      /\ arrived \in Nat /\ consumed \in Nat /\ consumed <= arrived
  BY <1>2 DEF RxTyped
<1>8. /\ ~Subscriber(b) => g = <<>> /\ r = <<>> /\ missed[b] = {}
      /\ Increasing(g \o r) /\ ToSet(g \o r) \cap missed[b] = {}
      /\ old # {} => \E first \in 1 .. arrived : old = first .. consumed
  BY <1>2 DEF SeenInOrder, Seen
<1>9. \A x \in old : x <= consumed
  BY <1>8
<1> HIDE DEF o, r, g
<1>10. SeesOrMisses(g, r, o, missed[b])
  <2>1. o \in Seq(Nat) /\ Increasing(o) /\ \A x \in ToSet(o) : consumed < x
    BY <1>4
  <2>2. /\ g \in Seq(Nat) /\ r \in Seq(Nat) /\ missed[b] \in SUBSET Nat /\ consumed \in Nat
        /\ Increasing(g \o r) /\ ToSet(g \o r) \cap missed[b] = {}
        /\ \A x \in ToSet(g \o r) \cup missed[b] : x <= consumed
    BY <1>7, <1>8, <1>9
  <2>3. QED
    BY <2>1, <2>2, Cut, Zenon
<1>11. /\ a \in Seq(Nat) /\ missed'[b] \in SUBSET Nat
       /\ Increasing(s) /\ ToSet(s) \cap missed'[b] = {}
       /\ new = old \cup ToSet(o)
  BY <1>1, <1>3, <1>7, <1>10 DEF SeesOrMisses
<1> HIDE DEF a
<1>12. ASSUME ~Subscriber(b)' PROVE g = <<>> /\ a = <<>> /\ missed'[b] = {}
  <2>1. g = <<>> /\ r = <<>> /\ missed[b] = {} /\ ToSet(o) = {}
    BY <1>4, <1>5, <1>6, <1>8, <1>12
  <2>2. old = {}
    <3>1. DOMAIN (<<>> \o <<>>) = {}
      OBVIOUS
    <3>2. QED
      BY <2>1, <3>1 DEF ToSet
  <2>3. ToSet(s) = {} /\ missed'[b] = {}
    BY <1>11, <2>1, <2>2
  <2>4. s = a
    BY <1>11, <2>1, ConcatEmptySeq
  <2>5. QED
    BY <1>11, <2>1, <2>3, <2>4, NoElements
<1> HIDE DEF old, s, new
<1>13. ASSUME new # {} PROVE \E first \in 1 .. arrived : new = first .. arrived
  <2>1. CASE ~Subscriber(b)'
    <3>1. old = {} /\ ToSet(o) = {}
      <4>1. g = <<>> /\ r = <<>> /\ missed[b] = {} /\ ToSet(o) = {}
        BY <1>4, <1>5, <1>6, <1>8, <2>1
      <4>2. DOMAIN (<<>> \o <<>>) = {}
        OBVIOUS
      <4>3. QED
        BY <4>1, <4>2 DEF old, ToSet
    <3>2. QED
      BY <1>11, <1>13, <3>1
  <2>2. CASE Subscriber(b)' /\ old = {}
    <3>1. new = consumed + 1 .. arrived
      BY <1>4, <1>5, <1>11, <2>2
    <3>2. consumed + 1 \in 1 .. arrived
      BY <1>7, <1>13, <3>1
    <3>3. QED
      BY <3>1, <3>2
  <2>3. CASE Subscriber(b)' /\ old # {}
    <3>1. PICK first \in 1 .. arrived : old = first .. consumed
      BY <1>8, <2>3
    <3>2. first <= consumed
      BY <1>7, <2>3, <3>1
    <3>3. new = first .. consumed \cup consumed + 1 .. arrived
      BY <1>4, <1>5, <1>11, <2>3, <3>1
    <3>4. new = first .. arrived
      BY <1>7, <3>2, <3>3
    <3>5. QED
      BY <3>4
  <2>4. QED
    BY <2>1, <2>2, <2>3
<1>14. QED
  BY <1>11, <1>12, <1>13 DEF a, g, s, new

(* Then what a thread has seen is in order again, for all threads.         *)
LEMMA ReceiveRx ==
    ASSUME Inv, RxInv, NEW t \in Thread, Look(t) \/ Read(t)
    PROVE  RxInv'
<1> SUFFICES ASSUME ended' = {} PROVE RxTyped' /\ \A b \in Thread : SeenInOrder(b)'
  BY DEF RxInv
<1>1. Receive(t) /\ ended = {} /\ arrived' = arrived /\ consumed' = arrived
  BY DEF Look, Read, Receive, histVars
<1>2. RxTyped
  BY <1>1 DEF RxInv
<1> DEFINE a == Received(t)
<1>3. a = [b \in Thread |-> a[b]] /\ \A b \in Thread : a[b] \in Seq(Nat)
  <2>1. a = [b \in Thread |-> a[b]]
    BY DEF Received
  <2>2. QED
    BY <1>1, <2>1, Offers
<1> HIDE DEF a
<1>4. missed' \in [Thread -> SUBSET Nat]
  <2>1. missed' = [b \in Thread |-> missed'[b]]
    BY <1>1 DEF Receive
  <2>2. \A b \in Thread : missed'[b] \in SUBSET Nat
    BY <1>1, Offers
  <2>3. QED
    BY <2>1, <2>2
<1>5. \/ rxBuffer' = a /\ got' = got
      \/ /\ a[t] # <<>>
         /\ got' = [got EXCEPT ![t] = Append(got[t], Head(a[t]))]
         /\ rxBuffer' = [a EXCEPT ![t] = Tail(a[t])]
  BY DEF Look, Read, a
<1>6. got \in [Thread -> Seq(Nat)]
  BY <1>2 DEF RxTyped
<1>7. ASSUME a[t] # <<>>
      PROVE  /\ Append(got[t], Head(a[t])) \in Seq(Nat) /\ Tail(a[t]) \in Seq(Nat)
             /\ Append(got[t], Head(a[t])) \o Tail(a[t]) = got[t] \o a[t]
  BY <1>3, <1>6, <1>7, HeadMoves
<1>8. a \in [Thread -> Seq(Nat)]
  BY <1>3
<1>9. got' \in [Thread -> Seq(Nat)] /\ rxBuffer' \in [Thread -> Seq(Nat)]
  BY <1>5, <1>6, <1>7, <1>8
<1>10. RxTyped'
  BY <1>1, <1>2, <1>4, <1>9 DEF RxTyped
<1>11. ASSUME NEW b \in Thread PROVE got'[b] \o rxBuffer'[b] = got[b] \o a[b]
  BY <1>5, <1>6, <1>7, <1>8
<1>12. Subscriber(t)'
  <2>1. t \in using /\ list' = Prepared(t)
    BY <1>1 DEF Receive, UserCalls
  <2>2. QED
    BY <2>1, PreparedList DEF Subscriber
<1>13. ASSUME NEW b \in Thread PROVE SeenInOrder(b)'
  <2>1. /\ Increasing(got[b] \o a[b]) /\ ToSet(got[b] \o a[b]) \cap missed'[b] = {}
        /\ ~Subscriber(b)' => got[b] = <<>> /\ a[b] = <<>> /\ missed'[b] = {}
        /\ ToSet(got[b] \o a[b]) \cup missed'[b] # {} =>
             \E first \in 1 .. arrived :
                ToSet(got[b] \o a[b]) \cup missed'[b] = first .. arrived
    BY <1>1, Offers DEF a
  <2>2. Seen(b)' = got[b] \o a[b]
    BY <1>11 DEF Seen
  <2>3. ~Subscriber(b)' => got'[b] = <<>> /\ rxBuffer'[b] = <<>> /\ missed'[b] = {}
    <3>1. b # t => got'[b] = got[b] /\ rxBuffer'[b] = a[b]
      BY <1>5, <1>6, <1>8
    <3>2. QED
      BY <1>12, <2>1, <3>1
  <2>4. Increasing(Seen(b)') /\ ToSet(Seen(b)') \cap missed'[b] = {}
    BY <2>1, <2>2
  <2>5. ToSet(Seen(b)') \cup missed'[b] # {} =>
          \E first \in 1 .. arrived' : ToSet(Seen(b)') \cup missed'[b] = first .. consumed'
    BY <1>1, <2>1, <2>2
  <2>6. QED
    BY <2>3, <2>4, <2>5 DEF SeenInOrder, Increasing
<1>14. QED
  BY <1>10, <1>13

(* A step that reads nothing and drops no ring preserves what is seen.     *)
LEMMA RxSame ==
    ASSUME RxInv, UNCHANGED <<rxBuffer, got, missed, consumed>>,
           arrived' \in {arrived, arrived + 1},
           ended' = {} => ended = {} /\ \A b \in Thread : Subscriber(b) => Subscriber(b)'
    PROVE  RxInv'
<1> SUFFICES ASSUME ended' = {} PROVE RxTyped' /\ \A b \in Thread : SeenInOrder(b)'
  BY DEF RxInv
<1>1. RxTyped /\ \A b \in Thread : SeenInOrder(b)
  BY DEF RxInv
<1>2. RxTyped'
  BY <1>1 DEF RxTyped
<1>3. ASSUME NEW b \in Thread PROVE SeenInOrder(b)'
  <2>1. Seen(b)' = Seen(b) /\ missed' = missed /\ consumed' = consumed
    BY DEF Seen
  <2>2. 1 .. arrived \subseteq 1 .. arrived'
    BY <1>1 DEF RxTyped
  <2>3. SeenInOrder(b) /\ (Subscriber(b) => Subscriber(b)')
    BY <1>1
  <2>4. ~Subscriber(b)' => got'[b] = <<>> /\ rxBuffer'[b] = <<>> /\ missed'[b] = {}
    BY <2>3 DEF SeenInOrder
  <2>5. Increasing(Seen(b)') /\ ToSet(Seen(b)') \cap missed'[b] = {}
    BY <2>1, <2>3 DEF SeenInOrder
  <2>6. ToSet(Seen(b)') \cup missed'[b] # {} =>
          \E first \in 1 .. arrived' : ToSet(Seen(b)') \cup missed'[b] = first .. consumed'
    BY <2>1, <2>2, <2>3 DEF SeenInOrder
  <2>7. QED
    BY <2>4, <2>5, <2>6 DEF SeenInOrder, Increasing
<1>4. QED
  BY <1>2, <1>3

(* No step but a reader's changes the ring of an entry, and only end()     *)
(* drops an entry.                                                         *)
RingsKept == DOMAIN list \subseteq DOMAIN list'
             /\ \A i \in DOMAIN list : list'[i].id = list[i].id /\ list'[i].rx = list[i].rx

(* block() and unblock() leave the ring.                                   *)
LEMMA BlockRings == ASSUME Inv, NEW t \in Thread, Block(t) \/ Unblock(t) PROVE RingsKept
<1> DEFINE f == Find(t)
<1>1. PICK v \in BOOLEAN : list' = [list EXCEPT ![f] = [list[f] EXCEPT !.blocked = v]]
  BY DEF Block, Unblock
<1>2. f \in DOMAIN list /\ list[f] \in Entry
  BY UserFinds, Shapes DEF Block, Unblock, UserCalls, Inv
<1> HIDE DEF f
<1> DEFINE e == [list[f] EXCEPT !.blocked = v]
<1>3. e.id = list[f].id /\ e.rx = list[f].rx
  BY <1>2 DEF Entry
<1>4. list' = [list EXCEPT ![f] = e]
  BY <1>1
<1> HIDE DEF e
<1>5. QED
  BY <1>2, <1>3, <1>4 DEF RingsKept

(* A step that reads nothing and keeps the rings preserves what is seen.   *)
LEMMA RingsRx ==
    ASSUME RxInv, RingsKept, UNCHANGED <<rxBuffer, got, missed, consumed, ended>>,
           arrived' \in {arrived, arrived + 1}
    PROVE  RxInv'
<1>1. \A b \in Thread : Subscriber(b) => Subscriber(b)'
  BY DEF RingsKept, Subscriber
<1>2. QED
  BY <1>1, RxSame

(* The calls other than end(), and the bytes that arrive.                  *)
LEMMA CallsRx ==
    ASSUME Inv, RxInv, NEW t \in Thread,
           \/ CallStep(t) \/ Begin(t) \/ Block(t) \/ Unblock(t) \/ Look(t) \/ Read(t) \/ Arrive
           \/ \E len : WriteCall(t, len)
    PROVE  RxInv'
<1> Typed
  BY DEF Inv
<1>1. list' = list => RingsKept
  BY DEF RingsKept
<1>2. CASE BeginStarted(t) \/ BeginNext(t)
  <2>1. /\ Register(t) /\ UNCHANGED <<rxBuffer, got, missed, consumed, arrived, ended>>
    BY <1>2 DEF BeginStarted, BeginNext, rxVars
  <2>2. RingsKept
    BY <2>1, RegisterList DEF RingsKept
  <2>3. QED
    BY <2>1, <2>2, RingsRx
<1>3. CASE StoreByte(t)
  <2>1. RingsKept
    BY <1>3, StoreList DEF StoresIn, RingsKept
  <2>2. QED
    BY <1>3, <2>1, RingsRx DEF StoreByte, rxVars
<1>4. CASE BeginFirst(t) \/ EndUnused(t) \/ WriteReturn(t) \/ Arrive \/ \E len : WriteCall(t, len)
  BY <1>1, <1>4, RingsRx
     DEF BeginFirst, EndUnused, WriteReturn, Arrive, WriteCall, rxVars, histVars
<1>5. CASE Block(t) \/ Unblock(t)
  <2>1. RingsKept
    BY <1>5, BlockRings
  <2>2. QED
    BY <1>5, <2>1, RingsRx DEF Block, Unblock, rxVars, histVars
<1>6. CASE Look(t) \/ Read(t)
  BY <1>6, ReceiveRx
<1>7. QED
  BY <1>2, <1>3, <1>4, <1>5, <1>6 DEF CallStep, Begin

(* The worker takes bytes to send, and leaves those that arrive.           *)
LEMMA WorkerRx == ASSUME Inv, RxInv, WorkerStep PROVE RxInv'
<1>1. CASE WorkerTake
  <2>1. RingsKept
    BY <1>1, TakeList DEF TakesFrom, RingsKept
  <2>2. QED
    BY <1>1, <2>1, RingsRx DEF WorkerTake, OthersUnchanged, rxVars, histVars
<1>2. CASE ~ WorkerTake
  <2>1. list' = list => RingsKept
    BY DEF RingsKept
  <2>2. QED
    BY <1>2, <2>1, RingsRx DEF WorkerStep, WorkerStart, WorkerWait, WorkerSuffix, WorkerWrite,
                               WorkerDone, OthersUnchanged, rxVars, histVars
<1>3. QED
  BY <1>1, <1>2

(* Every step preserves what is seen.                                      *)
LEMMA NextRx == Inv /\ RxInv /\ [Next]_vars => RxInv'
<1> SUFFICES ASSUME Inv, RxInv, [Next]_vars PROVE RxInv'
  OBVIOUS
<1>1. ASSUME NEW t \in Thread, End(t) PROVE RxInv'
  BY <1>1, RxSame DEF End, rxVars
<1>2. CASE Arrive
  <2>1. RingsKept
    BY <1>2 DEF Arrive, RingsKept
  <2>2. QED
    BY <1>2, <2>1, RingsRx DEF Arrive, histVars
<1>3. CASE UNCHANGED vars
  <2>1. RingsKept
    BY <1>3 DEF vars, RingsKept
  <2>2. QED
    BY <1>3, <2>1, RingsRx DEF vars, rxVars, histVars
<1>4. ASSUME NEW t \in Thread, CallStep(t) \/ Begin(t) \/ Call(t) PROVE RxInv'
  BY <1>1, <1>4, CallsRx DEF Call
<1>5. QED
  BY <1>2, <1>3, <1>4, WorkerRx DEF Next

(* At first nobody has read anything.                                     *)
LEMMA InitRx == Init => RxInv
<1> SUFFICES ASSUME Init PROVE RxTyped /\ \A b \in Thread : SeenInOrder(b)
  BY DEF RxInv
<1>1. RxTyped
  BY DEF Init, RxTyped
<1>2. ASSUME NEW b \in Thread PROVE SeenInOrder(b)
  <2>1. got[b] = <<>> /\ rxBuffer[b] = <<>> /\ missed[b] = {}
    BY DEF Init
  <2>2. DOMAIN (<<>> \o <<>>) = {}
    OBVIOUS
  <2>3. DOMAIN Seen(b) = {}
    BY <2>1, <2>2 DEF Seen
  <2>4. ToSet(Seen(b)) = {} /\ Increasing(Seen(b))
    BY <2>3 DEF ToSet, Increasing
  <2>5. QED
    BY <2>1, <2>4 DEF SeenInOrder
<1>3. QED
  BY <1>1, <1>2

(* What a reader has seen is in order, and it has seen or missed all.      *)
LEMMA SeenOfInv == ASSUME Inv, RxInv PROVE EveryReaderSees
<1>1. ASSUME ended = {}, NEW t \in using
      PROVE  SeenInOrder(t)
  BY <1>1 DEF RxInv, Inv, Typed
<1>2. QED
  BY <1>1 DEF EveryReaderSees, SeenInOrder, Seen, Increasing

(* Before any end() every thread that reads sees every byte that arrives   *)
(* after its first call, in order, or missed it because its ring was full. *)
THEOREM NoByteTakenAway == Spec => []EveryReaderSees
<1>1. Spec => []RxInv
  BY InitInv, InitRx, NextInv, NextRx, PTL DEF Spec
<1>2. QED
  BY <1>1, SeenOfInv, Invariance, PTL
-----------------------------------------------------------------------------
(* The refinement of SerialPort.  Before any end() the bytes in a ring are *)
(* numbered without a gap up to the last one stored, and the worker does   *)
(* not write messages without text.                                        *)
Consecutive ==
    \A k \in DOMAIN list : \A p \in DOMAIN list[k].tx :
        list[k].tx[p][2] = stored[list[k].id] - Len(list[k].tx) + p

HandFull == worker \in {"prefix", "write"} => msg.text # <<>>

PortInv == ended = {} => Consecutive /\ HandFull

(* Each thread's ring is that of its only entry.                           *)
RingsFound ==
    /\ \A k \in DOMAIN list : /\ RingOf(list[k].id) = list[k].tx
                              /\ Blocked(list[k].id) <=> list[k].blocked
    /\ \A t \in Thread : (\A k \in DOMAIN list : list[k].id # t) =>
                              RingOf(t) = <<>> /\ ~Blocked(t)

LEMMA RingsAre == Typed /\ OneEntry => RingsFound
<1> SUFFICES ASSUME Typed, OneEntry PROVE RingsFound
  OBVIOUS
<1>1. ASSUME NEW k \in DOMAIN list
      PROVE  RingOf(list[k].id) = list[k].tx /\ (Blocked(list[k].id) <=> list[k].blocked)
  <2>1. Registered(list[k].id) /\ list \in Seq(Entry)
    BY <1>1 DEF Registered, Typed
  <2>2. Find(list[k].id) \in DOMAIN list /\ list[Find(list[k].id)].id = list[k].id
    BY <2>1, FindOwn, LenProperties
  <2>3. Find(list[k].id) = k
    BY <2>2 DEF OneEntry
  <2>4. QED
    BY <2>1, <2>3 DEF RingOf, Blocked
<1>2. QED
  BY <1>1 DEF RingsFound, RingOf, Blocked, Registered

LEMMA RingsThen == Typed' /\ OneEntry' => RingsFound'
<1>1. QED
  BY RingsAre, PTL

(* A step that leaves the bytes, and adds entries that are empty.          *)
PortKept ==
    /\ UNCHANGED <<stored, sent, ended>> /\ msg'.text = msg.text
    /\ worker' \in {"prefix", "write"} => worker \in {"prefix", "write"}
    /\ DOMAIN list \subseteq DOMAIN list'
    /\ \A k \in DOMAIN list : list'[k].id = list[k].id /\ list'[k].tx = list[k].tx
    /\ \A k \in DOMAIN list' \ DOMAIN list : list'[k].tx = <<>> /\ ~list'[k].blocked

LEMMA KeepsPort ==
    ASSUME Inv, Inv', PortInv, ended = {}, PortKept
    PROVE  PortInv' /\ \A t \in Thread : RingOf(t)' = RingOf(t)
<1>1. RingsFound /\ RingsFound' /\ Consecutive /\ HandFull
  BY RingsAre, RingsThen DEF Inv, PortInv, PortKept
<1>2. \A p \in DOMAIN <<>> : FALSE
  OBVIOUS
<1>3. PortInv'
  BY <1>1, <1>2 DEF PortInv, PortKept, Consecutive, HandFull
<1>4. ASSUME NEW t \in Thread PROVE RingOf(t)' = RingOf(t)
  <2>1. CASE \E k \in DOMAIN list : list[k].id = t
    BY <1>1, <2>1 DEF RingsFound, PortKept
  <2>2. CASE \A k \in DOMAIN list : list[k].id # t
    <3>1. RingOf(t) = <<>>
      BY <1>1, <2>2 DEF RingsFound
    <3>2. CASE \E k \in DOMAIN list' : list'[k].id = t
      BY <1>1, <2>2, <3>1, <3>2 DEF RingsFound, PortKept
    <3>3. CASE \A k \in DOMAIN list' : list'[k].id # t
      BY <1>1, <3>1, <3>3 DEF RingsFound
    <3>4. QED
      BY <3>2, <3>3
  <2>3. QED
    BY <2>1, <2>2
<1>5. QED
  BY <1>3, <1>4

(* If it leaves what is blocked as well, the port does not see it.         *)
LEMMA PortSleeps ==
    ASSUME Inv, Inv', PortInv, ended = {}, PortKept,
           \A k \in DOMAIN list : list'[k].blocked = list[k].blocked
    PROVE  PortInv' /\ UNCHANGED Port!vars
<1>1. PortInv' /\ \A t \in Thread : RingOf(t)' = RingOf(t)
  BY KeepsPort
<1>2. RingsFound /\ RingsFound'
  BY RingsAre, RingsThen DEF Inv, PortKept
<1>3. ASSUME NEW t \in Thread PROVE Blocked(t)' <=> Blocked(t)
  <2>1. CASE \E k \in DOMAIN list : list[k].id = t
    BY <1>2, <2>1 DEF RingsFound, PortKept
  <2>2. CASE \A k \in DOMAIN list : list[k].id # t
    <3>1. ~Blocked(t)
      BY <1>2, <2>2 DEF RingsFound
    <3>2. CASE \E k \in DOMAIN list' : list'[k].id = t
      BY <1>2, <2>2, <3>1, <3>2 DEF RingsFound, PortKept
    <3>3. CASE \A k \in DOMAIN list' : list'[k].id # t
      BY <1>2, <3>1, <3>3 DEF RingsFound
    <3>4. QED
      BY <3>2, <3>3
  <2>3. QED
    BY <2>1, <2>2
<1>4. {t \in Thread : Blocked(t)}' = {t \in Thread : Blocked(t)}
  BY <1>3
<1>5. [t \in Thread |-> stored[t] - Len(RingOf(t))]'
      = [t \in Thread |-> stored[t] - Len(RingOf(t))]
  BY <1>1 DEF PortKept
<1>6. Plain(msg.text)' = Plain(msg.text)
      /\ [i \in DOMAIN sent |-> Plain(sent[i].text)]' = [i \in DOMAIN sent |-> Plain(sent[i].text)]
  BY DEF Plain, PortKept
<1>7. QED
  BY <1>1, <1>4, <1>5, <1>6 DEF Port!vars, PortKept

(* block() and unblock() hold and release the bytes of their thread.       *)
LEMMA BlockPort ==
    ASSUME Inv, Inv', PortInv, ended = {}, NEW t \in Thread, Block(t) \/ Unblock(t)
    PROVE  PortInv' /\ Port!Next /\ ended' = {}
<1> DEFINE f == Find(t)
<1>1. PICK v \in BOOLEAN : /\ list' = [list EXCEPT ![f] = [list[f] EXCEPT !.blocked = v]]
                           /\ UNCHANGED <<stored, sent, ended, msg, worker>>
                           /\ v <=> Block(t) \/ v
  BY DEF Block, Unblock, txVars, histVars
<1>2. f \in DOMAIN list /\ list[f] \in Entry /\ list[f].id = t
  BY UserFinds, Shapes DEF Block, Unblock, UserCalls, Inv
<1> HIDE DEF f
<1> DEFINE e == [list[f] EXCEPT !.blocked = v]
<1>3. e.id = t /\ e.tx = list[f].tx /\ e.blocked = v
  BY <1>2 DEF Entry
<1>4. list' = [list EXCEPT ![f] = e]
  BY <1>1
<1> HIDE DEF e
<1>5. /\ DOMAIN list' = DOMAIN list /\ list'[f] = e
      /\ \A k \in DOMAIN list : k # f => list'[k] = list[k]
  BY <1>2, <1>4
<1>6. PortKept
  BY <1>1, <1>2, <1>3, <1>5 DEF PortKept
<1>7. PortInv' /\ \A u \in Thread : RingOf(u)' = RingOf(u)
  BY <1>6, KeepsPort
<1>8. RingsFound /\ RingsFound' /\ OneEntry
  BY <1>1, RingsAre, RingsThen DEF Inv
<1>9. Blocked(t)' <=> v
  BY <1>2, <1>3, <1>5, <1>8 DEF RingsFound
<1>10. ASSUME NEW u \in Thread, u # t PROVE Blocked(u)' <=> Blocked(u)
  <2>1. CASE \E k \in DOMAIN list : list[k].id = u
    <3>1. PICK k \in DOMAIN list : list[k].id = u
      BY <2>1
    <3>2. k # f /\ list'[k] = list[k]
      BY <1>2, <1>5, <1>10, <3>1
    <3>3. (Blocked(u) <=> list[k].blocked) /\ (Blocked(u)' <=> list'[k].blocked)
      BY <1>5, <1>8, <3>1, <3>2 DEF RingsFound
    <3>4. QED
      BY <3>2, <3>3
  <2>2. CASE \A k \in DOMAIN list : list[k].id # u
    <3>1. \A k \in DOMAIN list' : list'[k].id # u
      BY <1>2, <1>3, <1>5, <1>10, <2>2
    <3>2. QED
      BY <1>8, <2>2, <3>1 DEF RingsFound
  <2>3. QED
    BY <2>1, <2>2
<1> DEFINE H == {u \in Thread : Blocked(u)}
<1>11. H' = IF v THEN H \cup {t} ELSE H \ {t}
  BY <1>9, <1>10
<1>12. [u \in Thread |-> stored[u] - Len(RingOf(u))]'
       = [u \in Thread |-> stored[u] - Len(RingOf(u))]
  BY <1>1, <1>7
<1>13. Plain(msg.text)' = Plain(msg.text)
       /\ [i \in DOMAIN sent |-> Plain(sent[i].text)]' = [i \in DOMAIN sent |-> Plain(sent[i].text)]
  BY <1>1 DEF Plain
<1>14. Port!Hold(t) \/ Port!Release(t)
  BY <1>1, <1>11, <1>12, <1>13 DEF Port!Hold, Port!Release
<1>15. QED
  BY <1>1, <1>7, <1>14 DEF Port!Next

(* write() gives the port the next byte of its thread.                     *)
LEMMA StorePort ==
    ASSUME Inv, Inv', PortInv, ended = {}, NEW t \in Thread, StoreByte(t)
    PROVE  PortInv' /\ Port!Next /\ ended' = {}
<1> DEFINE f == Find(t)
           b == <<t, stored[t] + 1, Section(t)>>
<1>1. /\ stored' = [stored EXCEPT ![t] = stored[t] + 1]
      /\ UNCHANGED <<worker, msg, sent, ended>>
  BY DEF StoreByte, txVars
<1>2. StoresIn(f, b) /\ list[f].id = t
  BY StoreList, Zenon
<1>3. b[2] = stored[t] + 1
  OBVIOUS
<1> HIDE DEF f, b
<1>4. /\ f \in DOMAIN list /\ b \in Byte /\ DOMAIN list' = DOMAIN list
      /\ \A k \in DOMAIN list : k # f => list'[k] = list[k]
      /\ list'[f].id = t /\ list'[f].blocked = list[f].blocked
      /\ list'[f].tx = Append(list[f].tx, b)
  BY <1>2, Shapes DEF StoresIn, Inv
<1>5. Consecutive /\ HandFull /\ RingsFound /\ RingsFound' /\ OneEntry
  BY <1>1, RingsAre, RingsThen DEF Inv, PortInv
<1>6. /\ list[f].tx \in Seq(Byte) /\ stored \in [Thread -> Nat]
      /\ \A k \in DOMAIN list : list[k].id \in Thread
  BY <1>4, Shapes DEF Inv, Typed, Entry, Text
<1>7. /\ Len(list'[f].tx) = Len(list[f].tx) + 1 /\ Len(list[f].tx) \in Nat
      /\ \A p \in 1 .. Len(list[f].tx) : list'[f].tx[p] = list[f].tx[p]
      /\ list'[f].tx[Len(list[f].tx) + 1] = b
      /\ DOMAIN list'[f].tx = 1 .. Len(list[f].tx) + 1
      /\ DOMAIN list[f].tx = 1 .. Len(list[f].tx)
  <2>1. Append(list[f].tx, b) \in Seq(Byte)
    BY <1>4, <1>6, AppendProperties
  <2>2. QED
    BY <1>4, <1>6, <2>1, AppendProperties, LenProperties
<1>8. Consecutive'
  <2>1. ASSUME NEW p \in DOMAIN list'[f].tx
        PROVE  list'[f].tx[p][2] = stored'[t] - Len(list'[f].tx) + p
    <3>1. stored'[t] = stored[t] + 1 /\ stored[t] \in Nat
      BY <1>1, <1>6
    <3>2. /\ Len(list[f].tx) \in Int /\ p \in Int
          /\ stored'[t] - Len(list'[f].tx) + p = stored[t] - Len(list[f].tx) + p
      <4>1. /\ Len(list[f].tx) \in Int /\ p \in Int /\ stored[t] \in Int
            /\ Len(list'[f].tx) = Len(list[f].tx) + 1
        BY <1>7, <2>1, <3>1
      <4>2. \A a, n \in Int : (a + 1) - (n + 1) + p = a - n + p
        BY <4>1
      <4>3. QED
        BY <3>1, <4>1, <4>2
    <3>3. CASE p = Len(list[f].tx) + 1
      <4>1. list'[f].tx[p][2] = stored[t] + 1
        BY <1>3, <1>7, <3>3
      <4>2. \A a, n \in Int : a - n + (n + 1) = a + 1
        OBVIOUS
      <4>3. stored[t] - Len(list[f].tx) + p = stored[t] + 1
        BY <3>1, <3>2, <3>3, <4>2
      <4>4. QED
        BY <3>2, <4>1, <4>3
    <3>4. CASE p # Len(list[f].tx) + 1
      <4>1. p \in 1 .. Len(list[f].tx)
        BY <1>7, <3>4
      <4>2. list[f].tx[p][2] = stored[t] - Len(list[f].tx) + p
        BY <1>2, <1>4, <1>5, <1>7, <4>1 DEF Consecutive
      <4>3. list'[f].tx[p] = list[f].tx[p]
        BY <1>7, <4>1
      <4>4. QED
        BY <3>2, <4>2, <4>3
    <3>5. QED
      BY <3>3, <3>4
  <2>2. ASSUME NEW k \in DOMAIN list, k # f
        PROVE  list'[k] = list[k] /\ list[k].id # t /\ stored'[list[k].id] = stored[list[k].id]
    <3>1. list[k].id # t
      BY <1>2, <1>4, <1>5, <2>2 DEF OneEntry
    <3>2. QED
      BY <1>1, <1>4, <1>6, <2>2, <3>1
  <2>3. ASSUME NEW k \in DOMAIN list', NEW p \in DOMAIN list'[k].tx
        PROVE  list'[k].tx[p][2] = stored'[list'[k].id] - Len(list'[k].tx) + p
    <3>1. CASE k = f
      BY <1>4, <2>1, <2>3, <3>1
    <3>2. CASE k # f
      <4>1. k \in DOMAIN list /\ list'[k] = list[k] /\ stored'[list[k].id] = stored[list[k].id]
        BY <1>4, <2>2, <2>3, <3>2
      <4>2. list[k].tx[p][2] = stored[list[k].id] - Len(list[k].tx) + p
        BY <1>5, <2>3, <4>1 DEF Consecutive
      <4>3. QED
        BY <4>1, <4>2
    <3>3. QED
      BY <3>1, <3>2
  <2>4. QED
    BY <2>3 DEF Consecutive
<1>9. PortInv'
  BY <1>1, <1>5, <1>8 DEF PortInv, HandFull
<1>10. ASSUME NEW u \in Thread, u # t
       PROVE  RingOf(u)' = RingOf(u) /\ (Blocked(u)' <=> Blocked(u))
  <2>1. CASE \E k \in DOMAIN list : list[k].id = u
    <3>1. PICK k \in DOMAIN list : list[k].id = u
      BY <2>1
    <3>2. k # f /\ list'[k] = list[k] /\ k \in DOMAIN list'
      BY <1>2, <1>4, <1>10, <3>1
    <3>3. /\ RingOf(u) = list[k].tx /\ RingOf(u)' = list'[k].tx
          /\ (Blocked(u) <=> list[k].blocked) /\ (Blocked(u)' <=> list'[k].blocked)
      BY <1>5, <3>1, <3>2 DEF RingsFound
    <3>4. QED
      BY <3>2, <3>3
  <2>2. CASE \A k \in DOMAIN list : list[k].id # u
    <3>1. \A k \in DOMAIN list' : list'[k].id # u
      BY <1>4, <1>10, <2>2
    <3>2. QED
      BY <1>5, <2>2, <3>1 DEF RingsFound
  <2>3. QED
    BY <2>1, <2>2
<1>11. /\ RingOf(t) = list[f].tx /\ RingOf(t)' = list'[f].tx
       /\ Blocked(t)' <=> Blocked(t)
  BY <1>2, <1>4, <1>5 DEF RingsFound
<1>12. {u \in Thread : Blocked(u)}' = {u \in Thread : Blocked(u)}
  BY <1>10, <1>11
<1>13. [u \in Thread |-> stored[u] - Len(RingOf(u))]'
       = [u \in Thread |-> stored[u] - Len(RingOf(u))]
  <2>1. ASSUME NEW u \in Thread
        PROVE  stored'[u] - Len(RingOf(u)') = stored[u] - Len(RingOf(u))
    <3>1. CASE u = t
      <4>1. stored'[t] = stored[t] + 1 /\ stored[t] \in Nat
        BY <1>1, <1>6
      <4>2. Len(RingOf(t)') = Len(RingOf(t)) + 1 /\ Len(RingOf(t)) \in Nat
        BY <1>7, <1>11
      <4>3. QED
        BY <3>1, <4>1, <4>2
    <3>2. CASE u # t
      BY <1>1, <1>6, <1>10, <3>2
    <3>3. QED
      BY <3>1, <3>2
  <2>2. QED
    BY <2>1
<1>14. Plain(msg.text)' = Plain(msg.text)
       /\ [i \in DOMAIN sent |-> Plain(sent[i].text)]' = [i \in DOMAIN sent |-> Plain(sent[i].text)]
  BY <1>1 DEF Plain
<1>15. Port!Accept(t)
  BY <1>1, <1>12, <1>13, <1>14 DEF Port!Accept
<1>16. QED
  BY <1>1, <1>9, <1>15 DEF Port!Next

(* The worker takes all that the port has accepted from a thread.          *)
LEMMA TakePort ==
    ASSUME Inv, Inv', PortInv, ended = {}, WorkerTake
    PROVE  PortInv' /\ Port!Next /\ ended' = {}
<1> DEFINE k == pos'
<1>1. UNCHANGED <<sent, stored, ended>> /\ worker' = "prefix" /\ msg.text = <<>>
  BY DEF WorkerTake, WorkerGoto, OthersUnchanged, histVars, Inv, HandEmpty
<1>2. TakesFrom(k)
  BY TakeList
<1> HIDE DEF k
<1>0. PICK t \in Thread : t = list[k].id
  BY <1>2, Shapes DEF TakesFrom, Inv, Entry
<1>3. /\ k \in DOMAIN list /\ list[k].tx # <<>> /\ ~list[k].blocked
      /\ DOMAIN list' = DOMAIN list
      /\ \A j \in DOMAIN list : j # k => list'[j] = list[j]
      /\ list'[k].id = t /\ list'[k].blocked = list[k].blocked /\ list'[k].tx = <<>>
      /\ msg'.text = list[k].tx
  BY <1>0, <1>2 DEF TakesFrom
<1>4. Consecutive /\ RingsFound /\ RingsFound' /\ OneEntry
  BY <1>1, RingsAre, RingsThen DEF Inv, PortInv
<1>5. /\ list[k].tx \in Text /\ stored \in [Thread -> Nat]
  BY <1>3, Shapes DEF Inv, Typed
<1>6. /\ Len(list[k].tx) \in Nat \ {0} /\ DOMAIN list[k].tx = 1 .. Len(list[k].tx)
      /\ \A p \in DOMAIN list[k].tx : list[k].tx[p] \in Byte
  <2>1. Len(list[k].tx) # 0
    BY <1>3, <1>5, EmptySeq DEF Text
  <2>2. QED
    BY <1>5, <2>1, TextBytes
<1>7. PortInv'
  <2>1. \A p \in DOMAIN <<>> : FALSE
    OBVIOUS
  <2>2. Consecutive'
    BY <1>1, <1>3, <1>4, <2>1 DEF Consecutive
  <2>3. HandFull'
    BY <1>3 DEF HandFull
  <2>4. QED
    BY <2>2, <2>3 DEF PortInv
<1>8. /\ RingOf(t) = list[k].tx /\ RingOf(t)' = <<>>
      /\ ~Blocked(t) /\ ~Blocked(t)'
  BY <1>0, <1>3, <1>4 DEF RingsFound
<1>9. ASSUME NEW u \in Thread, u # t
      PROVE  RingOf(u)' = RingOf(u) /\ (Blocked(u)' <=> Blocked(u))
  <2>1. CASE \E j \in DOMAIN list : list[j].id = u
    <3>1. PICK j \in DOMAIN list : list[j].id = u
      BY <2>1
    <3>2. j # k /\ list'[j] = list[j] /\ j \in DOMAIN list'
      BY <1>3, <1>0, <1>9, <3>1
    <3>3. /\ RingOf(u) = list[j].tx /\ RingOf(u)' = list'[j].tx
          /\ (Blocked(u) <=> list[j].blocked) /\ (Blocked(u)' <=> list'[j].blocked)
      BY <1>4, <3>1, <3>2 DEF RingsFound
    <3>4. QED
      BY <3>2, <3>3
  <2>2. CASE \A j \in DOMAIN list : list[j].id # u
    <3>1. \A j \in DOMAIN list' : list'[j].id # u
      BY <1>0, <1>3, <1>9, <2>2
    <3>2. QED
      BY <1>4, <2>2, <3>1 DEF RingsFound
  <2>3. QED
    BY <2>1, <2>2
<1>10. {u \in Thread : Blocked(u)}' = {u \in Thread : Blocked(u)}
  BY <1>8, <1>9
<1> DEFINE A == [u \in Thread |-> stored[u] - Len(RingOf(u))]
<1>11. A' = [A EXCEPT ![t] = stored[t]]
  <2>1. ASSUME NEW u \in Thread
        PROVE  stored'[u] - Len(RingOf(u)') = IF u = t THEN stored[t] ELSE A[u]
    <3>1. CASE u = t
      <4>1. Len(<<>>) = 0 /\ stored[t] \in Nat
        BY <1>5
      <4>2. QED
        BY <1>1, <1>8, <3>1, <4>1
    <3>2. CASE u # t
      BY <1>1, <1>9, <3>2
    <3>3. QED
      BY <3>1, <3>2
  <2>2. QED
    BY <1>5, <2>1
<1>12. A[t] = stored[t] - Len(list[k].tx) /\ A[t] < stored[t]
  BY <1>5, <1>6, <1>8
<1>13. Plain(msg.text) = <<>>
  BY <1>1 DEF Plain
<1>14. Plain(msg'.text) = Port!Bytes(t, A[t], stored[t])
  <2>1. stored[t] - A[t] = Len(list[k].tx) /\ stored[t] \in Nat
    BY <1>5, <1>6, <1>12
  <2>2. ASSUME NEW p \in 1 .. Len(list[k].tx)
        PROVE  <<list[k].tx[p][1], list[k].tx[p][2]>> = <<t, A[t] + p>>
    <3>1. list[k].tx[p][1] = t
      BY <1>0, <1>3, <1>6 DEF Inv, Owned
    <3>2. list[k].tx[p][2] = stored[t] - Len(list[k].tx) + p
      BY <1>0, <1>3, <1>4, <1>6 DEF Consecutive
    <3>3. QED
      BY <1>12, <3>1, <3>2
  <2> HIDE DEF A
  <2>3. QED
    BY <1>3, <1>6, <2>1, <2>2 DEF Plain, Port!Bytes
<1>15. Port!Take(t)
  BY <1>1, <1>5, <1>8, <1>10, <1>11, <1>12, <1>13, <1>14 DEF Port!Take
<1>16. QED
  BY <1>1, <1>5, <1>7, <1>15 DEF Port!Next

(* What the port has written is the message that was in the worker's hand. *)
LEMMA WritePort ==
    ASSUME Inv, Inv', PortInv, ended = {}, WorkerWrite
    PROVE  PortInv' /\ Port!Next /\ ended' = {}
<1>1. /\ UNCHANGED <<list, stored, ended>> /\ worker = "write" /\ worker' = "iterate"
      /\ sent' = Append(sent, msg) /\ msg' = NoMessage
  BY DEF WorkerWrite, WorkerGoto, OthersUnchanged, histVars
<1>2. Consecutive /\ msg.text # <<>>
  BY <1>1 DEF PortInv, HandFull
<1>3. PortInv'
  BY <1>1, <1>2 DEF PortInv, HandFull, Consecutive
<1>4. msg \in Message /\ sent \in Seq(Message) /\ msg.text \in Text
  BY DEF Inv, Typed, Message
<1>5. Plain(msg.text) # <<>>
  <2>1. Len(msg.text) # 0 /\ Len(msg.text) \in Nat /\ DOMAIN msg.text = 1 .. Len(msg.text)
    BY <1>2, <1>4, EmptySeq, LenProperties DEF Text
  <2>2. DOMAIN Plain(msg.text) = 1 .. Len(msg.text)
    BY <2>1 DEF Plain
  <2>3. 1 \in DOMAIN Plain(msg.text) /\ DOMAIN <<>> = {}
    BY <2>1, <2>2
  <2>4. QED
    BY <2>3
<1>6. Plain(msg'.text) = <<>>
  BY <1>1 DEF NoMessage, Plain
<1> DEFINE O == [i \in DOMAIN sent |-> Plain(sent[i].text)]
<1>7. O' = Append(O, Plain(msg.text))
  <2>1. /\ Len(sent) \in Nat /\ DOMAIN sent = 1 .. Len(sent)
        /\ Len(sent') = Len(sent) + 1 /\ DOMAIN sent' = 1 .. Len(sent) + 1
        /\ \A i \in 1 .. Len(sent) : sent'[i] = sent[i]
        /\ sent'[Len(sent) + 1] = msg
    <3>1. Append(sent, msg) \in Seq(Message)
      BY <1>4, AppendProperties
    <3>2. QED
      BY <1>1, <1>4, <3>1, AppendProperties, LenProperties
  <2> DEFINE Texte == {Plain(sent[i].text) : i \in DOMAIN sent} \cup {Plain(msg.text)}
  <2>2. O \in Seq(Texte) /\ Len(O) = Len(sent) /\ Plain(msg.text) \in Texte
    BY <2>1
  <2>3. /\ Append(O, Plain(msg.text)) \in Seq(Texte)
        /\ Len(Append(O, Plain(msg.text))) = Len(sent) + 1
        /\ \A i \in 1 .. Len(sent) : Append(O, Plain(msg.text))[i] = O[i]
        /\ Append(O, Plain(msg.text))[Len(sent) + 1] = Plain(msg.text)
    BY <2>2, AppendProperties
  <2>4. O' \in Seq(Texte) /\ Len(O') = Len(sent) + 1
    <3>1. \A i \in 1 .. Len(sent) + 1 : O'[i] \in Texte
      BY <2>1
    <3>2. QED
      BY <2>1, <3>1
  <2>5. \A i \in 1 .. Len(sent) + 1 : O'[i] = Append(O, Plain(msg.text))[i]
    BY <2>1, <2>3
  <2> HIDE DEF Texte, O
  <2>6. QED
    BY <2>3, <2>4, <2>5, SeqEqual
<1>8. /\ [u \in Thread |-> stored[u] - Len(RingOf(u))]'
           = [u \in Thread |-> stored[u] - Len(RingOf(u))]
      /\ {u \in Thread : Blocked(u)}' = {u \in Thread : Blocked(u)}
  BY <1>1 DEF RingOf, Blocked, Registered, Find
<1>9. Port!Put
  BY <1>1, <1>5, <1>6, <1>7, <1>8 DEF Port!Put
<1>10. QED
  BY <1>1, <1>3, <1>9 DEF Port!Next

(* The port sees no step that leaves the list and the texts.               *)
LEMMA ListPort ==
    ASSUME Inv, Inv', PortInv, ended = {}, UNCHANGED <<list, stored, sent, ended>>,
           msg'.text = msg.text,
           worker' \in {"prefix", "write"} => worker \in {"prefix", "write"}
    PROVE  PortInv' /\ UNCHANGED Port!vars
<1>1. PortKept
  BY DEF PortKept
<1>2. QED
  BY <1>1, PortSleeps

(* It does not see the worker between two messages, nor bytes that arrive. *)
LEMMA WorkerPort ==
    ASSUME Inv, Inv', PortInv, ended = {},
           WorkerStart \/ WorkerWait \/ WorkerSuffix \/ WorkerDone \/ Arrive
    PROVE  PortInv' /\ UNCHANGED Port!vars
<1>1. msg \in Message
  BY DEF Inv, Typed
<1>2. [msg EXCEPT !.suffix = Chosen("suffix")].text = msg.text
  BY <1>1 DEF Message
<1>3. UNCHANGED <<list, stored, sent, ended>> /\ msg'.text = msg.text
  BY <1>2 DEF WorkerStart, WorkerWait, WorkerSuffix, WorkerDone, OthersUnchanged, Arrive,
              txVars, histVars
<1>4. worker' \in {"prefix", "write"} => worker \in {"prefix", "write"}
  BY DEF WorkerStart, WorkerWait, WorkerSuffix, WorkerDone, WorkerGoto, Arrive, txVars
<1>5. QED
  BY <1>3, <1>4, ListPort

(* It does not see begin(), the start and the return of a call, and the    *)
(* calls of a reader.                                                      *)
LEMMA CallsPort ==
    ASSUME Inv, Inv', PortInv, ended = {}, NEW t \in Thread,
           \/ BeginFirst(t) \/ BeginStarted(t) \/ BeginNext(t) \/ EndUnused(t)
           \/ WriteReturn(t) \/ Look(t) \/ Read(t)
           \/ \E len : WriteCall(t, len)
    PROVE  PortInv' /\ UNCHANGED Port!vars
<1> Typed
  BY DEF Inv
<1>1. CASE BeginFirst(t) \/ EndUnused(t) \/ WriteReturn(t) \/ \E len : WriteCall(t, len)
  <2>1. /\ UNCHANGED <<list, stored, sent, ended, msg>>
        /\ worker' = worker \/ worker' = "starting"
    BY <1>1 DEF BeginFirst, EndUnused, WriteReturn, WriteCall, txVars, histVars
  <2>2. QED
    BY <2>1, ListPort
<1>2. CASE BeginStarted(t) \/ BeginNext(t)
  <2>1. Register(t) /\ UNCHANGED <<stored, sent, ended, msg, worker>>
    BY <1>2 DEF BeginStarted, BeginNext, txVars
  <2>2. /\ DOMAIN list \subseteq DOMAIN list'
        /\ \A k \in DOMAIN list : list'[k] = list[k]
        /\ \A k \in DOMAIN list' \ DOMAIN list : list'[k].tx = <<>> /\ ~list'[k].blocked
    BY <2>1, RegisterList
  <2>3. PortKept
    BY <2>1, <2>2 DEF PortKept
  <2>4. QED
    BY <2>2, <2>3, PortSleeps
<1>3. CASE Look(t) \/ Read(t)
  <2> DEFINE f == Find(t)
             e == [list[f] EXCEPT !.rx = t]
  <2>1. /\ list' = [list EXCEPT ![f] = e] /\ t \in using
        /\ UNCHANGED <<stored, sent, ended, msg, worker>>
    BY <1>3 DEF Look, Read, Receive, Prepared, UserCalls, txVars, histVars
  <2>2. f \in DOMAIN list /\ list[f] \in Entry
    BY <2>1, UserFinds, Shapes
  <2> HIDE DEF f
  <2>3. e.id = list[f].id /\ e.tx = list[f].tx /\ e.blocked = list[f].blocked
    BY <2>2 DEF Entry
  <2> HIDE DEF e
  <2>4. /\ DOMAIN list' = DOMAIN list /\ list'[f] = e
        /\ \A k \in DOMAIN list : k # f => list'[k] = list[k]
    BY <2>1, <2>2
  <2>5. PortKept /\ \A k \in DOMAIN list : list'[k].blocked = list[k].blocked
    BY <2>1, <2>3, <2>4 DEF PortKept
  <2>6. QED
    BY <2>5, PortSleeps
<1>4. QED
  BY <1>1, <1>2, <1>3

(* After end() the port is closed.                                         *)
LEMMA ClosedPort ==
    ASSUME ended' # {}
    PROVE  PortInv' /\ [Port!Next]_Port!vars
<1>1. QED
  BY DEF PortInv, Port!Next

(* Every step is one of the port, or none.                                 *)
LEMMA PortStep ==
    Inv /\ Inv' /\ PortInv /\ [Next]_vars => PortInv' /\ [Port!Next]_Port!vars
<1> SUFFICES ASSUME Inv, Inv', PortInv, [Next]_vars
             PROVE  PortInv' /\ [Port!Next]_Port!vars
  OBVIOUS
<1>1. CASE ended' # {}
  BY <1>1, ClosedPort
<1>2. CASE ended' = {} /\ ended # {}
  <2>1. ended' = ended \/ \E t \in Thread : ended' = ended \cup {t}
    BY DEF Next, WorkerStep, WorkerStart, WorkerWait, WorkerTake, WorkerSuffix, WorkerWrite,
           WorkerDone, OthersUnchanged, CallStep, BeginStarted, StoreByte, WriteReturn, Begin,
           BeginFirst, BeginNext, EndUnused, Call, End, Block, Unblock, Look, Read, Receive,
           WriteCall, Arrive, histVars, vars
  <2>2. QED
    BY <1>2, <2>1
<1>3. CASE ended' = {} /\ ended = {}
  <2>1. CASE WorkerStep
    <3>1. CASE WorkerTake
      BY <1>3, <3>1, TakePort
    <3>2. CASE WorkerWrite
      BY <1>3, <3>2, WritePort
    <3>3. CASE WorkerStart \/ WorkerWait \/ WorkerSuffix \/ WorkerDone
      BY <1>3, <3>3, WorkerPort
    <3>4. QED
      BY <2>1, <3>1, <3>2, <3>3 DEF WorkerStep
  <2>2. ASSUME NEW t \in Thread, CallStep(t) PROVE PortInv' /\ [Port!Next]_Port!vars
    BY <1>3, <2>2, StorePort, CallsPort DEF CallStep
  <2>3. ASSUME NEW t \in Thread, Begin(t) PROVE PortInv' /\ [Port!Next]_Port!vars
    BY <1>3, <2>3, CallsPort DEF Begin
  <2>4. ASSUME NEW t \in Thread, Call(t) PROVE PortInv' /\ [Port!Next]_Port!vars
    <3>1. ~End(t)
      BY <1>3 DEF End
    <3>2. QED
      BY <1>3, <2>4, <3>1, BlockPort, CallsPort DEF Call
  <2>5. CASE Arrive
    BY <1>3, <2>5, WorkerPort
  <2>6. CASE UNCHANGED vars
    <3>1. PortKept /\ list' = list
      BY <2>6 DEF PortKept, vars, txVars, histVars
    <3>2. QED
      BY <1>3, <3>1, PortSleeps
  <2>7. QED
    BY <2>1, <2>2, <2>3, <2>4, <2>5, <2>6 DEF Next
<1>4. QED
  BY <1>1, <1>2, <1>3

(* At first the port has accepted nothing.                                 *)
LEMMA InitPort == Init => PortInv /\ Port!Init
<1> SUFFICES ASSUME Init PROVE PortInv /\ Port!Init
  OBVIOUS
<1>1. DOMAIN list = {} /\ DOMAIN sent = {} /\ DOMAIN <<>> = {}
      /\ \A f : DOMAIN f = {} => [x \in DOMAIN f |-> Plain(f[x].text)] = <<>>
  BY DEF Init
<1>2. \A t \in Thread : RingOf(t) = <<>> /\ ~Blocked(t)
  BY <1>1 DEF RingOf, Blocked, Registered
<1>3. Plain(msg.text) = <<>>
  BY DEF Init, NoMessage, Plain
<1>4. [t \in Thread |-> stored[t] - Len(RingOf(t))] = [t \in Thread |-> 0]
  BY <1>2 DEF Init
<1>5. [i \in DOMAIN sent |-> Plain(sent[i].text)] = <<>>
  BY DEF Init
<1>6. PortInv
  BY <1>1 DEF Init, PortInv, Consecutive, HandFull
<1>7. QED
  BY <1>2, <1>3, <1>4, <1>5, <1>6 DEF Init, Port!Init

(* The dispatcher implements SerialPort: before any end() its messages are *)
(* what one thread has written since its last one, whole and in order, and *)
(* a thread between block() and unblock() sends nothing.                   *)
THEOREM PortRefinement == Spec => RefinesPort
<1>1. Inv /\ PortInv /\ [Next]_vars => PortInv' /\ [Port!Next]_Port!vars
  BY NextInv, PortStep
<1>2. QED
  BY InitPort, InitInv, NextInv, <1>1, PTL DEF Spec, RefinesPort, Port!Spec
=============================================================================
