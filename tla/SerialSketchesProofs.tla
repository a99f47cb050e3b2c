------------------------ MODULE SerialSketchesProofs ------------------------
(***************************************************************************)
(* What the messages of SerialSketches hold and what wraps them, for any   *)
(* projects, any number of threads and any sizes of the rings.             *)
(***************************************************************************)
EXTENDS SerialSketches, SerialDispatcherProofs

(* The number of the next call in loop(), for a sketch that writes.         *)
Offset(t) == line[t] - Len(Setup[sketch[t]])

(* Whose prefix and suffix the messages of t have.                          *)
By(t) == IF sketch[t] = "gps" THEN "own" ELSE IF sketch[Main] = "log" THEN "global" ELSE "none"

(* The main sketch has made its call of start(), if it makes one.           *)
PastStart ==
    /\ sketch[Main] = "log" => line[Main] >= 5
    /\ sketch[Main] = "mainReader" => line[Main] >= 3

(* The prefix and the suffix of the messages of t have been set.            *)
Ready(t) ==
    /\ sketch[Main] = "log" => line[Main] >= 5
    /\ sketch[t] = "gps" => line[t] >= 4

Part(s, n) == {c \in ToSet(s) : c[3] = n}

(* Text s has what both calls of print() in section n write, or fills a     *)
(* ring.                                                                    *)
Whole(s, n) == Len(s) >= TxSize \/ Cardinality(Part(s, n)) = 2

(* Text s is by one sketch, and whole if that sketch writes.                *)
OfOne(s) ==
    /\ s # <<>>
    /\ \A p \in DOMAIN s : /\ s[p][1] = s[1][1]
                           /\ s[1][1] \notin Readers => Whole(s, s[p][3])

SketchesTyped ==
    /\ sketch \in Projects /\ line \in [Thread -> Nat]
    /\ DOMAIN left = Thread /\ global \in [prefix : BOOLEAN, suffix : BOOLEAN]
    /\ ended = {}

(* Where a sketch is when a call of its own is under way, and that no other *)
(* runs before start().                                                     *)
Lines == \A t \in Thread :
    /\ pc[t] = "spin" => line[t] = 2 /\ sketch[t] # "none"
    /\ pc[t] = "write" => /\ line[t] >= 2 /\ Ready(t)
                          /\ t \notin Readers => Offset(t) \in {3, 4}
    /\ t \notin Readers => left[t] \in Nat /\ (pc[t] # "write" => left[t] = 0)
    /\ t # Main /\ line[t] # 0 => PastStart

GlobalsSet ==
    /\ global.prefix <=> sketch[Main] = "log" /\ line[Main] >= 3
    /\ global.suffix <=> sketch[Main] = "log" /\ line[Main] >= 4

(* Entry i has the prefix and the suffix that its sketch has set so far,    *)
(* and no bytes before all are set.                                         *)
Decorated(i) ==
    LET t == list[i].id
    IN  /\ line[t] >= 2 /\ sketch[t] # "none"
        /\ list[i].prefix <=> sketch[t] = "gps" /\ line[t] >= 3
        /\ list[i].suffix <=> sketch[t] = "gps" /\ line[t] >= 4
        /\ list[i].tx # <<>> => Ready(t)

(* Entry i is blocked while its sketch is in a section, and has as many     *)
(* bytes of it as have been stored; the sections before are whole.          *)
Filling(i) ==
    LET t == list[i].id
        s == list[i].tx
    IN  t \notin Readers =>
            /\ list[i].blocked <=> Offset(t) \in 2 .. 4
            /\ list[i].blocked => \/ Cardinality(Part(s, sections[t])) = Offset(t) - 2 - left[t]
                                  \/ Len(s) >= TxSize
            /\ \A p \in DOMAIN s : \/ Whole(s, s[p][3])
                                   \/ list[i].blocked /\ s[p][3] = sections[t]

Entries == \A i \in DOMAIN list : Decorated(i) /\ Filling(i)

(* The message in the worker's hand, and those it has written.              *)
Hand ==
    /\ worker = "prefix" =>
          /\ pos \in DOMAIN list /\ OfOne(msg.text) /\ list[pos].id = msg.text[1][1]
          /\ Ready(list[pos].id) /\ msg.prefix = By(list[pos].id)
    /\ worker = "write" =>
          OfOne(msg.text) /\ msg.prefix = By(msg.text[1][1]) /\ msg.suffix = By(msg.text[1][1])

Sent ==
    \A i \in DOMAIN sent :
        /\ OfOne(sent[i].text)
        /\ sent[i].prefix = By(sent[i].text[1][1]) /\ sent[i].suffix = By(sent[i].text[1][1])

Wrapping == Lines /\ GlobalsSet /\ Entries /\ Hand /\ Sent

SketchesInv == Inv /\ SketchesTyped /\ Wrapping
-----------------------------------------------------------------------------
Name == {"begin", "globalPrefix", "globalSuffix", "start", "prefix", "suffix", "block",
         "print", "unblock", "available", "read", "printText"}

(* The calls of a sketch, line by line.                                    *)
LEMMA Programs ==
    ASSUME NEW k \in DOMAIN Setup
    PROVE  /\ Len(Code[k]) = Len(Setup[k]) + Len(Loop[k])
           /\ Len(Setup[k]) \in Nat /\ Len(Loop[k]) \in Nat
           /\ DOMAIN Code[k] = 1 .. Len(Code[k])
           /\ \A i \in 1 .. Len(Code[k]) :
                Code[k][i] = IF i <= Len(Setup[k]) THEN Setup[k][i]
                             ELSE Loop[k][i - Len(Setup[k])]
<1>1. k \in {"log", "writer", "gps", "mainReader", "reader", "none"}
  BY DEF Setup
<1>2. Setup[k] \in Seq(Name)
  <2>1. /\ Setup["log"] \in Seq(Name) /\ Setup["writer"] \in Seq(Name)
        /\ Setup["gps"] \in Seq(Name) /\ Setup["mainReader"] \in Seq(Name)
        /\ Setup["reader"] \in Seq(Name) /\ Setup["none"] \in Seq(Name)
    BY DEF Setup, Name
  <2>2. QED
    BY <1>1, <2>1
<1>3. Loop[k] \in Seq(Name)
  <2>1. /\ Loop["log"] \in Seq(Name) /\ Loop["writer"] \in Seq(Name)
        /\ Loop["gps"] \in Seq(Name) /\ Loop["mainReader"] \in Seq(Name)
        /\ Loop["reader"] \in Seq(Name) /\ Loop["none"] \in Seq(Name)
    <3>1. Write \in Seq(Name) /\ Echo \in Seq(Name) /\ <<>> \in Seq(Name)
      BY DEF Write, Echo, Name
    <3>2. QED
      BY <3>1 DEF Loop, Setup
  <2>2. QED
    BY <1>1, <2>1
<1>4. Code[k] = Setup[k] \o Loop[k]
  BY DEF Code
<1> DEFINE s == Setup[k]
           l == Loop[k]
<1>5. s \in Seq(Name) /\ l \in Seq(Name) /\ Code[k] = s \o l
  BY <1>2, <1>3, <1>4
<1> HIDE DEF s, l
<1>6. QED
  BY <1>5, ConcatProperties, LenProperties DEF s, l

(* The lengths of setup() and loop().                                      *)
LEMMA Lengths ==
    /\ Len(Setup["log"]) = 4 /\ Len(Setup["writer"]) = 1 /\ Len(Setup["gps"]) = 3
    /\ Len(Setup["mainReader"]) = 5 /\ Len(Setup["reader"]) = 4 /\ Len(Setup["none"]) = 0
    /\ Len(Loop["log"]) = 4 /\ Len(Loop["writer"]) = 4 /\ Len(Loop["gps"]) = 4
    /\ Len(Loop["mainReader"]) = 6 /\ Len(Loop["reader"]) = 6 /\ Len(Loop["none"]) = 0
  BY DEF Setup, Loop, Write, Echo

Writing == {"log", "writer", "gps"}
Reading == {"mainReader", "reader"}

(* In sketch k, call op may be in line n, with line m the next.            *)
Step(op, k, n, m) ==
    LET loop == n - Len(Setup[k])
    IN  \/ op = "begin" /\ k # "none" /\ n = 1 /\ m = 2
        \/ op = "globalPrefix" /\ k = "log" /\ n = 2 /\ m = 3
        \/ op = "globalSuffix" /\ k = "log" /\ n = 3 /\ m = 4
        \/ op = "start" /\ k = "log" /\ n = 4 /\ m = 5
        \/ op = "start" /\ k = "mainReader" /\ n = 2 /\ m = 3
        \/ op = "prefix" /\ k = "gps" /\ n = 2 /\ m = 3
        \/ op = "suffix" /\ k = "gps" /\ n = 3 /\ m = 4
        \/ op = "block" /\ k \in Writing /\ loop = 1 /\ m = n + 1
        \/ op = "print" /\ k \in Writing /\ loop \in {2, 3} /\ m = n + 1
        \/ op = "unblock" /\ k \in Writing /\ loop = 4 /\ m = n - 3
        \/ /\ op \in {"block", "print", "unblock", "available", "read", "printText"}
           /\ k \in Reading /\ n >= 2 /\ m >= 2 /\ (op = "read" => n >= 3)
           /\ k = "mainReader" => n >= 3 /\ m >= 3 /\ (op = "read" => n >= 4)

(* What a call of name op says of the line it stands in and the one after. *)
LEMMA CallsAt ==
    ASSUME NEW t \in Thread, sketch[t] \in DOMAIN Setup, line[t] \in Nat, NEW op, At(t, op)
    PROVE  Step(op, sketch[t], line[t], Following(t))
<1> DEFINE k == sketch[t]
           n == line[t]
           m == Following(t)
           s == Setup[k]
           l == Loop[k]
<1>1. k \in {"log", "writer", "gps", "mainReader", "reader", "none"}
  BY DEF Setup
<1>2. /\ n \in 1 .. Len(s) + Len(l)
      /\ op = IF n <= Len(s) THEN s[n] ELSE l[n - Len(s)]
      /\ m = IF n = Len(s) + Len(l) THEN Len(s) + 1 ELSE n + 1
  BY Programs DEF At, Program, Following
<1> HIDE DEF k, n, m
<1>3. CASE k = "log"
  <2>1. n \in {1, 2, 3, 4, 5, 6, 7, 8}
    BY <1>2, <1>3, Lengths
  <2>2. QED
    BY <1>2, <1>3, <2>1, Lengths DEF Step, Setup, Loop, Write, Writing, k, n, m
<1>4. CASE k = "writer"
  <2>1. n \in {1, 2, 3, 4, 5}
    BY <1>2, <1>4, Lengths
  <2>2. QED
    BY <1>2, <1>4, <2>1, Lengths DEF Step, Setup, Loop, Write, Writing, k, n, m
<1>5. CASE k = "gps"
  <2>1. n \in {1, 2, 3, 4, 5, 6, 7}
    BY <1>2, <1>5, Lengths
  <2>2. QED
    BY <1>2, <1>5, <2>1, Lengths DEF Step, Setup, Loop, Write, Writing, k, n, m
<1>6. CASE k = "mainReader"
  <2>1. n \in {1, 2, 3, 4, 5, 6, 7, 8, 9, 10, 11}
    BY <1>2, <1>6, Lengths
  <2>2. QED
    BY <1>2, <1>6, <2>1, Lengths DEF Step, Setup, Loop, Echo, Reading, k, n, m
<1>7. CASE k = "reader"
  <2>1. n \in {1, 2, 3, 4, 5, 6, 7, 8, 9, 10}
    BY <1>2, <1>7, Lengths
  <2>2. QED
    BY <1>2, <1>7, <2>1, Lengths DEF Step, Setup, Loop, Echo, Reading, k, n, m
<1>8. CASE k = "none"
  BY <1>2, <1>8, Lengths
<1>9. QED
  BY <1>1, <1>3, <1>4, <1>5, <1>6, <1>7, <1>8

(* A move from line n to line m of sketch k undoes no setup.               *)
Onward(k, n, m) ==
    /\ n # 0 /\ m # 0 /\ (n >= 2 => m >= 2)
    /\ k = "log" => (n >= 3 => m >= 3) /\ (n >= 4 => m >= 4) /\ (n >= 5 => m >= 5)
    /\ k = "gps" => (n >= 3 => m >= 3) /\ (n >= 4 => m >= 4)
    /\ k = "mainReader" => (n >= 3 => m >= 3)

(* A call moves its sketch onward.                                         *)
LEMMA StepOnward ==
    ASSUME NEW op, NEW k, NEW n \in Nat, NEW m \in Int, Step(op, k, n, m)
    PROVE  Onward(k, n, m)
<1>1. CASE k \in Writing
  <2>1. /\ k \in {"log", "writer", "gps"}
        /\ Len(Setup[k]) = IF k = "log" THEN 4 ELSE IF k = "writer" THEN 1 ELSE 3
    BY <1>1, Lengths DEF Writing
  <2>2. QED
    BY <2>1 DEF Step, Onward, Reading
<1>2. CASE k \notin Writing
  BY <1>2 DEF Step, Onward, Reading, Writing
<1>3. QED
  BY <1>1, <1>2

(* Sketch t, which had no call under way, moves on to line m.              *)
Acts(t, m) ==
    /\ pc[t] = "idle" /\ Onward(sketch[t], line[t], m)
    /\ line' \in [Thread -> Nat] /\ line'[t] = m
    /\ \A u \in Thread \ {t} : line'[u] = line[u] /\ pc'[u] = pc[u] /\ left'[u] = left[u]
    /\ sketch' = sketch

(* It undoes no setup of any sketch.                                       *)
LEMMA StaysReady ==
    ASSUME SketchesTyped, NEW t \in Thread, NEW m, Acts(t, m)
    PROVE  /\ PastStart => PastStart'
           /\ \A u \in Thread : Ready(u) => Ready(u)'
           /\ \A u \in Thread : (line'[u] = 0 <=> line[u] = 0) /\ (line[u] >= 2 => line'[u] >= 2)
<1>1. Main \in Thread /\ line \in [Thread -> Nat] /\ line' \in [Thread -> Nat]
  BY ProjectsAssumption DEF SketchesTyped, Acts
<1>2. /\ line'[t] = m /\ Onward(sketch[t], line[t], m) /\ sketch' = sketch
      /\ \A u \in Thread \ {t} : line'[u] = line[u]
  BY DEF Acts
<1>3. PastStart => PastStart'
  BY <1>1, <1>2 DEF PastStart, Onward
<1>4. ASSUME NEW u \in Thread, Ready(u) PROVE Ready(u)'
  BY <1>1, <1>2, <1>4 DEF Ready, Onward
<1>5. ASSUME NEW u \in Thread
      PROVE  (line'[u] = 0 <=> line[u] = 0) /\ (line[u] >= 2 => line'[u] >= 2)
  BY <1>1, <1>2 DEF Onward
<1>6. QED
  BY <1>3, <1>4, <1>5

(* The places of the sketches after such a move.                           *)
LEMMA ActsLines ==
    ASSUME SketchesTyped, Lines, NEW t \in Thread, NEW m, Acts(t, m),
           pc'[t] \in {"idle", "spin", "write"},
           pc'[t] = "spin" => m = 2 /\ sketch[t] # "none",
           pc'[t] = "write" => /\ m >= 2 /\ Ready(t)'
                               /\ t \notin Readers => Offset(t)' \in {3, 4},
           t \notin Readers => left'[t] \in Nat /\ (pc'[t] # "write" => left'[t] = 0)
    PROVE  Lines'
<1>1. /\ line'[t] = m /\ sketch' = sketch
      /\ \A u \in Thread \ {t} : line'[u] = line[u] /\ pc'[u] = pc[u] /\ left'[u] = left[u]
  BY DEF Acts
<1>2. Readers' = Readers
  BY <1>1 DEF Readers
<1>3. ASSUME NEW u \in Thread
      PROVE  /\ pc'[u] = "spin" => line'[u] = 2 /\ sketch'[u] # "none"
             /\ pc'[u] = "write" => /\ line'[u] >= 2 /\ Ready(u)'
                                    /\ u \notin Readers' => Offset(u)' \in {3, 4}
             /\ u \notin Readers' => left'[u] \in Nat /\ (pc'[u] # "write" => left'[u] = 0)
             /\ u # Main /\ line'[u] # 0 => PastStart'
  <2>1. u # Main /\ line'[u] # 0 => PastStart'
    BY StaysReady DEF Lines
  <2>2. CASE u = t
    BY <1>1, <1>2, <2>1, <2>2
  <2>3. CASE u # t
    <3>1. line'[u] = line[u] /\ pc'[u] = pc[u] /\ left'[u] = left[u] /\ Offset(u)' = Offset(u)
      BY <1>1, <2>3 DEF Offset
    <3>2. Ready(u) => Ready(u)'
      BY StaysReady
    <3>3. QED
      BY <1>1, <1>2, <2>1, <3>1, <3>2 DEF Lines
  <2>4. QED
    BY <2>2, <2>3
<1>4. QED
  BY <1>3 DEF Lines
-----------------------------------------------------------------------------
(* A call of thread t makes e of its entry.                                *)
Makes(t, e) ==
    LET f == Find(t)
    IN  /\ t \in using /\ f \in DOMAIN list /\ list[f].id = t
        /\ list' \in Seq(Entry) /\ DOMAIN list' = DOMAIN list
        /\ \A k \in DOMAIN list : list'[k] = IF k = f THEN e ELSE list[k]
        /\ e.id = t /\ e.tx = list[f].tx /\ e.rx \in {NoBuffer, t}

LEMMA EntryMade ==
    ASSUME Inv, NEW t \in using, NEW e \in Entry, list' = [list EXCEPT ![Find(t)] = e],
           e.id = t, e.tx = list[Find(t)].tx, e.rx \in {NoBuffer, t}
    PROVE  Makes(t, e)
<1>1. Find(t) \in 1 .. Len(list) /\ list[Find(t)].id = t
  BY UserFinds
<1>2. list \in Seq(Entry)
  BY DEF Inv, Typed
<1> DEFINE f == Find(t)
<1>3. f \in 1 .. Len(list) /\ list' = [list EXCEPT ![f] = e]
  BY <1>1
<1> HIDE DEF f
<1>4. /\ list' \in Seq(Entry) /\ Len(list') = Len(list)
      /\ \A k \in 1 .. Len(list) : list'[k] = IF k = f THEN e ELSE list[k]
  <2>1. e \in Entry
    OBVIOUS
  <2>2. QED
    BY ONLY <1>2, <1>3, <2>1, ExceptSeq
<1>5. DOMAIN list = 1 .. Len(list) /\ DOMAIN list' = 1 .. Len(list)
  BY <1>2, <1>4, LenProperties
<1>6. QED
  BY <1>1, <1>3, <1>4, <1>5 DEF Makes, f

(* What each call makes of it.                                             *)
LEMMA EntryCalls ==
    ASSUME Inv, NEW t \in Thread
    PROVE  LET d == list[Find(t)]
           IN  /\ Block(t) => \E e \in Entry :
                     Makes(t, e) /\ e.blocked /\ e.prefix = d.prefix /\ e.suffix = d.suffix
               /\ Unblock(t) => \E e \in Entry :
                     Makes(t, e) /\ ~e.blocked /\ e.prefix = d.prefix /\ e.suffix = d.suffix
               /\ SetPrefix(t) => \E e \in Entry :
                     Makes(t, e) /\ e.blocked = d.blocked /\ e.prefix /\ e.suffix = d.suffix
               /\ SetSuffix(t) => \E e \in Entry :
                     Makes(t, e) /\ e.blocked = d.blocked /\ e.prefix = d.prefix /\ e.suffix
               /\ Look(t) \/ Read(t) => \E e \in Entry :
                     /\ Makes(t, e) /\ e.blocked = d.blocked
                     /\ e.prefix = d.prefix /\ e.suffix = d.suffix
<1> DEFINE f == Find(t)
           d == list[f]
<1>1. ASSUME t \in using
      PROVE  d \in Entry /\ d.id = t /\ d.rx \in {NoBuffer, t}
  <2>1. f \in DOMAIN list /\ d \in Entry /\ d.id = t
    BY <1>1, UserFinds, Shapes DEF Inv
  <2>2. d.rx \in {NoBuffer, d.id}
    BY <2>1 DEF Inv, Owned
  <2>3. QED
    BY <2>1, <2>2
<1>2. ASSUME t \in using, NEW e \in Entry, list' = [list EXCEPT ![f] = e],
             e.id = t, e.tx = d.tx, e.rx \in {NoBuffer, t}
      PROVE  Makes(t, e)
  BY <1>2, EntryMade
<1>3. ASSUME Block(t)
      PROVE  \E e \in Entry :
                Makes(t, e) /\ e.blocked /\ e.prefix = d.prefix /\ e.suffix = d.suffix
  <2> DEFINE e == [d EXCEPT !.blocked = TRUE]
  <2>1. t \in using /\ list' = [list EXCEPT ![f] = e]
    BY <1>3 DEF Block, UserCalls
  <2>2. /\ e \in Entry /\ e.id = t /\ e.tx = d.tx /\ e.rx \in {NoBuffer, t}
        /\ e.blocked /\ e.prefix = d.prefix /\ e.suffix = d.suffix
    BY <1>1, <2>1 DEF Entry
  <2> HIDE DEF e, d, f
  <2>3. QED
    BY <1>2, <2>1, <2>2
<1>4. ASSUME Unblock(t)
      PROVE  \E e \in Entry :
                Makes(t, e) /\ ~e.blocked /\ e.prefix = d.prefix /\ e.suffix = d.suffix
  <2> DEFINE e == [d EXCEPT !.blocked = FALSE]
  <2>1. t \in using /\ list' = [list EXCEPT ![f] = e]
    BY <1>4 DEF Unblock, UserCalls
  <2>2. /\ e \in Entry /\ e.id = t /\ e.tx = d.tx /\ e.rx \in {NoBuffer, t}
        /\ ~e.blocked /\ e.prefix = d.prefix /\ e.suffix = d.suffix
    BY <1>1, <2>1 DEF Entry
  <2> HIDE DEF e, d, f
  <2>3. QED
    BY <1>2, <2>1, <2>2
<1>5. ASSUME SetPrefix(t)
      PROVE  \E e \in Entry :
                Makes(t, e) /\ e.blocked = d.blocked /\ e.prefix /\ e.suffix = d.suffix
  <2> DEFINE e == [d EXCEPT !.prefix = TRUE]
  <2>1. t \in using /\ list' = [list EXCEPT ![f] = e]
    BY <1>5 DEF SetPrefix, SetOwn, UserCalls
  <2>2. /\ e \in Entry /\ e.id = t /\ e.tx = d.tx /\ e.rx \in {NoBuffer, t}
        /\ e.blocked = d.blocked /\ e.prefix /\ e.suffix = d.suffix
    BY <1>1, <2>1 DEF Entry
  <2> HIDE DEF e, d, f
  <2>3. QED
    BY <1>2, <2>1, <2>2
<1>6. ASSUME SetSuffix(t)
      PROVE  \E e \in Entry :
                Makes(t, e) /\ e.blocked = d.blocked /\ e.prefix = d.prefix /\ e.suffix
  <2> DEFINE e == [d EXCEPT !.suffix = TRUE]
  <2>1. t \in using /\ list' = [list EXCEPT ![f] = e]
    BY <1>6 DEF SetSuffix, SetOwn, UserCalls
  <2>2. /\ e \in Entry /\ e.id = t /\ e.tx = d.tx /\ e.rx \in {NoBuffer, t}
        /\ e.blocked = d.blocked /\ e.prefix = d.prefix /\ e.suffix
    BY <1>1, <2>1 DEF Entry
  <2> HIDE DEF e, d, f
  <2>3. QED
    BY <1>2, <2>1, <2>2
<1>7. ASSUME Look(t) \/ Read(t)
      PROVE  \E e \in Entry : /\ Makes(t, e) /\ e.blocked = d.blocked
                              /\ e.prefix = d.prefix /\ e.suffix = d.suffix
  <2> DEFINE e == [d EXCEPT !.rx = t]
  <2>1. t \in using /\ list' = [list EXCEPT ![f] = e]
    BY <1>7 DEF Look, Read, Receive, Prepared, UserCalls
  <2>2. /\ e \in Entry /\ e.id = t /\ e.tx = d.tx /\ e.rx \in {NoBuffer, t}
        /\ e.blocked = d.blocked /\ e.prefix = d.prefix /\ e.suffix = d.suffix
    BY <1>1, <2>1 DEF Entry
  <2> HIDE DEF e, d, f
  <2>3. QED
    BY <1>2, <2>1, <2>2
<1>8. QED
  BY <1>3, <1>4, <1>5, <1>6, <1>7

(* prefix() and suffix() leave the bytes where they are.                   *)
LEMMA OwnInv == ASSUME Inv, NEW t \in Thread, SetPrefix(t) \/ SetSuffix(t) PROVE Inv'
<1>1. UNCHANGED <<sent, msg, worker, pc, stored, using, ended, sections>>
  BY DEF SetPrefix, SetSuffix, SetOwn, txVars, callVars, histVars
<1>2. PICK e \in Entry : Makes(t, e) /\ (e.blocked = list[Find(t)].blocked)
  BY EntryCalls
<1>3. /\ list' \in Seq(Entry) /\ DOMAIN list' = DOMAIN list /\ list \in Seq(Entry)
      /\ \A k \in DOMAIN list :
            /\ list'[k].id = list[k].id /\ list'[k].tx = list[k].tx
            /\ list'[k].blocked = list[k].blocked
            /\ list'[k].rx \in {NoBuffer, list[k].id}
  BY <1>2 DEF Makes, Inv, Typed, Owned
<1>4. Len(list') = Len(list) /\ DOMAIN list = 1 .. Len(list)
  BY <1>3, LenProperties
<1>5. Typed' /\ HandEmpty' /\ WritersRegistered'
  BY <1>1, <1>3 DEF Inv, Typed, HandEmpty, WritersRegistered
<1>6. Texts' = Texts
  BY <1>1 DEF Texts
<1>7. \A u \in Thread : sections'[u] \in {sections[u], sections[u] + 1}
  BY <1>1
<1>8. QED
  BY <1>1, <1>3, <1>4, <1>5, <1>6, <1>7, Quiet

(* The calls of the sketches preserve the invariant of the port.           *)
LEMMA SketchesKeepInv ==
    ASSUME Inv, ended = {}, [SketchesNext]_sketchVars
    PROVE  Inv' /\ ended' = {}
<1>1. ASSUME UNCHANGED vars PROVE Inv' /\ ended' = {}
  <2>1. ended' = ended
    BY <1>1 DEF vars, histVars
  <2>2. QED
    BY <1>1, <2>1, NextInv
<1>2. ASSUME NEW t \in Thread, BeginFirst(t) \/ BeginNext(t) PROVE Inv' /\ ended' = {}
  BY <1>2, CallsSame, BeginInv DEF BeginFirst, BeginNext, histVars
<1>3. ASSUME NEW t \in Thread, SetGlobalPrefix(t) \/ SetGlobalSuffix(t)
      PROVE  Inv' /\ ended' = {}
  <2>1. UNCHANGED <<list, sent, msg, worker, pc, stored, using, ended, sections>>
    BY <1>3 DEF SetGlobalPrefix, SetGlobalSuffix, SetGlobal, txVars, callVars, histVars
  <2>2. QED
    BY <2>1, Same DEF Inv, Typed, HandEmpty, WritersRegistered
<1>4. ASSUME NEW t \in Thread, SetPrefix(t) \/ SetSuffix(t) PROVE Inv' /\ ended' = {}
  BY <1>4, OwnInv DEF SetPrefix, SetSuffix, SetOwn, histVars
<1>5. ASSUME NEW t \in Thread, Block(t) \/ Unblock(t) \/ Look(t) \/ Read(t)
      PROVE  Inv' /\ ended' = {}
  BY <1>5, EntrySame DEF Block, Unblock, Look, Read, Receive, histVars
<1>6. ASSUME NEW t \in Thread, NEW len, WriteCall(t, len) PROVE Inv' /\ ended' = {}
  BY <1>6, CallsSame DEF WriteCall, histVars
<1>7. ASSUME NEW t \in Thread, CallStep(t) PROVE Inv' /\ ended' = {}
  BY <1>7, BeginInv, StoreInv, CallsSame DEF CallStep, BeginStarted, StoreByte, WriteReturn, histVars
<1>8. CASE WorkerStep
  <2>1. ended' = ended
    BY <1>8 DEF WorkerStep, WorkerStart, WorkerWait, WorkerTake, WorkerSuffix, WorkerWrite,
                WorkerDone, OthersUnchanged, histVars
  <2>2. QED
    BY <1>8, <2>1, NextInv DEF Next
<1>9. CASE Arrive
  <2>1. Main \in Thread
    BY ProjectsAssumption
  <2>2. QED
    BY <1>9, <2>1, CallsSame DEF Arrive, histVars
<1>10. ASSUME NEW t \in Thread, SketchStep(t) PROVE Inv' /\ ended' = {}
  <2>1. CASE SketchBegin(t)
    BY <1>2, <2>1 DEF SketchBegin
  <2>2. CASE SketchStart(t)
    BY <1>1, <2>2 DEF SketchStart
  <2>3. CASE SketchDecorate(t)
    BY <1>3, <1>4, <2>3 DEF SketchDecorate
  <2>4. CASE SketchBlock(t) \/ SketchUnblock(t) \/ ReaderAvailable(t) \/ ReaderRead(t)
    BY <1>5, <2>4 DEF SketchBlock, SketchUnblock, ReaderAvailable, ReaderRead
  <2>5. CASE SketchPrint(t) \/ ReaderPrint(t)
    BY <1>6, <2>5 DEF SketchPrint, ReaderPrint
  <2>6. QED
    BY <1>10, <2>1, <2>2, <2>3, <2>4, <2>5 DEF SketchStep
<1>11. CASE UNCHANGED sketchVars
  BY <1>1, <1>11 DEF sketchVars
<1>12. QED
  BY <1>7, <1>8, <1>9, <1>10, <1>11 DEF SketchesNext, SketchCall
-----------------------------------------------------------------------------
(* What leaves an entry and the messages as the invariant says.            *)
LEMMA KeepsDecorated ==
    ASSUME NEW i, NEW u \in Thread, u = list[i].id, Decorated(i), sketch' = sketch,
           list'[i].id = u, list'[i].tx = list[i].tx,
           list'[i].prefix = list[i].prefix, list'[i].suffix = list[i].suffix,
           line'[u] >= 2, Ready(u) => Ready(u)',
           sketch[u] = "gps" => /\ line[u] >= 3 <=> line'[u] >= 3
                                /\ line[u] >= 4 <=> line'[u] >= 4
    PROVE  Decorated(i)'
<1>1. list'[i].tx # <<>> => Ready(u)'
  BY DEF Decorated
<1>2. /\ line'[u] >= 2 /\ sketch'[u] # "none"
      /\ list'[i].prefix <=> sketch'[u] = "gps" /\ line'[u] >= 3
      /\ list'[i].suffix <=> sketch'[u] = "gps" /\ line'[u] >= 4
  BY DEF Decorated
<1>3. QED
  BY <1>1, <1>2 DEF Decorated

LEMMA KeepsFilling ==
    ASSUME NEW i, NEW u \in Thread, u = list[i].id, Filling(i), sketch' = sketch,
           list'[i].id = u, list'[i].tx = list[i].tx, list'[i].blocked = list[i].blocked,
           u \notin Readers =>
              /\ sections'[u] = sections[u]
              /\ Offset(u) \in 2 .. 4 <=> Offset(u)' \in 2 .. 4
              /\ list[i].blocked => Offset(u)' - 2 - left'[u] = Offset(u) - 2 - left[u]
    PROVE  Filling(i)'
<1>1. Readers' = Readers
  BY DEF Readers
<1>2. CASE u \in Readers
  BY <1>1, <1>2 DEF Filling
<1>3. CASE u \notin Readers
  <2>1. \A b, n : Whole(b, n)' <=> Whole(b, n)
    BY DEF Whole, Part
  <2>2. \A b, n : Part(b, n)' = Part(b, n)
    BY DEF Part
  <2>3. QED
    BY ZenonT(90), <1>1, <1>3, <2>1, <2>2 DEF Filling, Whole, Part
<1>4. QED
  BY <1>2, <1>3

(* An entry of another thread.                                             *)
LEMMA KeepsOthers ==
    ASSUME SketchesTyped, NEW t \in Thread, NEW m, Acts(t, m),
           NEW i, NEW u \in Thread \ {t}, u = list[i].id, list'[i] = list[i],
           Decorated(i), Filling(i), sections'[u] = sections[u]
    PROVE  Decorated(i)' /\ Filling(i)'
<1>1. /\ u \in Thread /\ line'[u] = line[u] /\ left'[u] = left[u] /\ sketch' = sketch
      /\ line'[u] >= 2 /\ (Ready(u) => Ready(u)')
  BY StaysReady DEF Acts, Decorated
<1>2. Offset(u)' = Offset(u)
  BY <1>1 DEF Offset
<1>3. Decorated(i)'
  BY <1>1, KeepsDecorated
<1>4. Filling(i)'
  BY <1>1, <1>2, KeepsFilling
<1>5. QED
  BY <1>3, <1>4

LEMMA KeepsGlobals ==
    ASSUME SketchesTyped, GlobalsSet, NEW t \in Thread, NEW m, Acts(t, m), global' = global,
           sketch[t] = "log" => (line[t] >= 3 <=> m >= 3) /\ (line[t] >= 4 <=> m >= 4)
    PROVE  GlobalsSet'
<1>1. /\ Main \in Thread /\ sketch' = sketch /\ line'[t] = m
      /\ \A u \in Thread \ {t} : line'[u] = line[u]
  BY ProjectsAssumption DEF Acts
<1>2. QED
  BY <1>1 DEF GlobalsSet

LEMMA KeepsHand ==
    ASSUME Hand, sketch' = sketch, UNCHANGED <<worker, pos, msg>>,
           DOMAIN list \subseteq DOMAIN list', \A k \in DOMAIN list : list'[k].id = list[k].id,
           \A k \in DOMAIN list : Ready(list[k].id) => Ready(list[k].id)'
    PROVE  Hand'
<1>1. ASSUME worker = "prefix"
      PROVE  /\ pos' \in DOMAIN list' /\ OfOne(msg.text)' /\ list'[pos'].id = msg'.text[1][1]
             /\ Ready(list[pos].id)' /\ msg'.prefix = By(list[pos].id)'
  <2>1. OfOne(msg.text)'
    BY <1>1 DEF Hand, OfOne, Whole, Part, Readers
  <2>2. QED
    BY <1>1, <2>1 DEF Hand, By
<1>2. ASSUME worker = "write"
      PROVE  /\ OfOne(msg.text)' /\ msg'.prefix = By(msg.text[1][1])'
             /\ msg'.suffix = By(msg.text[1][1])'
  <2>1. OfOne(msg.text)'
    BY <1>2 DEF Hand, OfOne, Whole, Part, Readers
  <2>2. QED
    BY <1>2, <2>1 DEF Hand, By
<1>3. QED
  BY <1>1, <1>2 DEF Hand

LEMMA KeepsSent ==
    ASSUME Sent, sketch' = sketch, sent' = sent
    PROVE  Sent'
<1>1. ASSUME NEW i \in DOMAIN sent
      PROVE  /\ OfOne(sent[i].text)' /\ sent'[i].prefix = By(sent[i].text[1][1])'
             /\ sent'[i].suffix = By(sent[i].text[1][1])'
  <2>1. OfOne(sent[i].text)'
    BY DEF Sent, OfOne, Whole, Part, Readers
  <2>2. QED
    BY <2>1 DEF Sent, By
<1>2. QED
  BY <1>1 DEF Sent

(* A call as a line of the program.                                        *)
LEMMA AtSteps ==
    ASSUME SketchesTyped, NEW t \in Thread, NEW op, At(t, op)
    PROVE  /\ line[t] \in Nat /\ Following(t) \in Nat
           /\ Step(op, sketch[t], line[t], Following(t))
<1>1. sketch[t] \in DOMAIN Setup /\ line[t] \in Nat
  BY ProjectsAssumption DEF SketchesTyped
<1>2. Following(t) \in Nat
  BY <1>1, Programs DEF Following
<1>3. QED
  BY <1>1, <1>2, CallsAt

LEMMA RunsActs ==
    ASSUME SketchesTyped, NEW t \in Thread, NEW op, Runs(t, op), pc[t] = "idle",
           \A u \in Thread \ {t} : pc'[u] = pc[u] /\ left'[u] = left[u]
    PROVE  /\ Acts(t, Following(t)) /\ Step(op, sketch[t], line[t], Following(t))
           /\ Following(t) \in Nat /\ line[t] \in Nat
<1>1. /\ At(t, op) /\ line' = [line EXCEPT ![t] = Following(t)] /\ sketch' = sketch
      /\ line \in [Thread -> Nat]
  BY DEF Runs, SketchesTyped
<1>2. /\ line[t] \in Nat /\ Following(t) \in Nat
      /\ Step(op, sketch[t], line[t], Following(t))
  BY <1>1, AtSteps
<1>3. Onward(sketch[t], line[t], Following(t))
  BY <1>2, StepOnward
<1>4. QED
  BY <1>1, <1>2, <1>3 DEF Acts

(* What the parts of the invariant say of the entries.                     *)
LEMMA EntriesAre ==
    ASSUME SketchesInv
    PROVE  /\ DOMAIN list = 1 .. Len(list) /\ Len(list) \in Nat
           /\ \A k \in DOMAIN list :
                /\ list[k].id \in Thread /\ list[k].tx \in Text
                /\ Decorated(k) /\ Filling(k)
           /\ \A t \in using, k \in DOMAIN list : list[k].id = t => k = Find(t)
           /\ line \in [Thread -> Nat] /\ Main \in Thread
           /\ sketch \in [Thread -> DOMAIN Setup]
           /\ \A t \in Thread : t \notin Readers => sketch[t] \in Writing \cup {"none"}
<1>1. /\ DOMAIN list = 1 .. Len(list) /\ Len(list) \in Nat
      /\ \A k \in DOMAIN list : list[k].id \in Thread /\ list[k].tx \in Text
  BY Shapes DEF SketchesInv, Inv, Entry
<1>2. \A k \in DOMAIN list : Decorated(k) /\ Filling(k)
  BY DEF SketchesInv, Wrapping, Entries
<1>3. ASSUME NEW t \in using, NEW k \in DOMAIN list, list[k].id = t PROVE k = Find(t)
  <2>1. OneEntry
    BY DEF SketchesInv, SketchesTyped, Inv
  <2>2. Find(t) \in DOMAIN list /\ list[Find(t)].id = t
    BY <1>1, UserFinds DEF SketchesInv
  <2>3. QED
    BY <1>3, <2>1, <2>2 DEF OneEntry
<1>4. line \in [Thread -> Nat] /\ Main \in Thread /\ sketch \in [Thread -> DOMAIN Setup]
  BY ProjectsAssumption DEF SketchesInv, SketchesTyped
<1>5. ASSUME NEW t \in Thread, t \notin Readers PROVE sketch[t] \in Writing \cup {"none"}
  <2>1. sketch[t] \in {"log", "writer", "gps", "mainReader", "reader", "none"}
    BY <1>4 DEF Setup
  <2>2. QED
    BY <1>5, <2>1 DEF Readers, Writing
<1>6. QED
  BY <1>1, <1>2, <1>3, <1>4, <1>5

(* A call after setup that changes the entry of its thread only.           *)
LEMMA ActsKeep ==
    ASSUME SketchesInv, NEW t \in Thread, NEW m, Acts(t, m), global' = global,
           sketch[t] = "log" => (line[t] >= 3 <=> m >= 3) /\ (line[t] >= 4 <=> m >= 4),
           sketch[t] = "gps" => (line[t] >= 3 <=> m >= 3) /\ (line[t] >= 4 <=> m >= 4),
           DOMAIN list' = DOMAIN list, UNCHANGED <<worker, pos, msg, sent>>,
           \A k \in DOMAIN list :
               /\ list'[k].id = list[k].id /\ list'[k].tx = list[k].tx
               /\ list'[k].prefix = list[k].prefix /\ list'[k].suffix = list[k].suffix
               /\ list[k].id # t => list'[k] = list[k]
               /\ list[k].id = t => Filling(k)',
           \A u \in Thread \ {t} : sections'[u] = sections[u]
    PROVE  GlobalsSet' /\ Entries' /\ Hand' /\ Sent'
<1>1. /\ SketchesTyped /\ GlobalsSet /\ Hand /\ Sent /\ sketch' = sketch
      /\ \A k \in DOMAIN list : list[k].id \in Thread /\ Decorated(k) /\ Filling(k)
  BY EntriesAre DEF SketchesInv, Wrapping, Acts
<1>2. GlobalsSet'
  BY <1>1, KeepsGlobals
<1>3. Hand' /\ Sent'
  <2>1. \A k \in DOMAIN list : Ready(list[k].id) => Ready(list[k].id)'
    <3>1. ASSUME NEW k \in DOMAIN list, Ready(list[k].id), NEW u \in Thread, u = list[k].id
          PROVE  Ready(u)'
      BY <1>1, <3>1, StaysReady
    <3>2. QED
      BY <1>1, <3>1 DEF Ready
  <2>2. QED
    BY <1>1, <2>1, KeepsHand, KeepsSent
<1>4. ASSUME NEW k \in DOMAIN list PROVE Decorated(k)' /\ Filling(k)'
  <2>1. CASE list[k].id # t
    BY <1>1, <2>1, KeepsOthers
  <2>2. CASE list[k].id = t
    <3>1. line'[t] >= 2 /\ (Ready(t) => Ready(t)') /\ line'[t] = m
      BY <1>1, <2>2, StaysReady DEF Decorated, Acts
    <3>2. Decorated(k)'
      BY <1>1, <2>2, <3>1, KeepsDecorated
    <3>3. QED
      BY <2>2, <3>2
  <2>3. QED
    BY <2>1, <2>2
<1>5. QED
  BY <1>2, <1>3, <1>4 DEF Entries

(* The calls after setup.                                                  *)
LEMMA StepSettled ==
    ASSUME NEW k, NEW n \in Nat, NEW m \in Nat,
           NEW op \in {"block", "print", "unblock", "available", "read", "printText"},
           Step(op, k, n, m)
    PROVE  /\ k = "log" => n >= 5 /\ m >= 5
           /\ k = "gps" => n >= 4 /\ m >= 4
           /\ k \in Reading => /\ n >= 2 /\ m >= 2 /\ (op = "read" => n >= 3)
                               /\ k = "mainReader" => n >= 3 /\ m >= 3 /\ (op = "read" => n >= 4)
           /\ op \in {"available", "read", "printText"} => k \in Reading
           /\ n >= 2 /\ m >= 2
<1>1. CASE k \in Writing
  <2>1. /\ k \in {"log", "writer", "gps"}
        /\ Len(Setup[k]) = IF k = "log" THEN 4 ELSE IF k = "writer" THEN 1 ELSE 3
    BY <1>1, Lengths DEF Writing
  <2>2. QED
    BY <2>1 DEF Step, Reading
<1>2. CASE k \notin Writing
  BY <1>2 DEF Step, Reading, Writing
<1>3. QED
  BY <1>1, <1>2

(* Who writes has set its prefix and suffix.                               *)
LEMMA WriterReady ==
    ASSUME SketchesTyped, Lines, NEW t \in Thread, line[t] # 0,
           sketch[t] = "log" => line[t] >= 5, sketch[t] = "gps" => line[t] >= 4
    PROVE  Ready(t)
  BY DEF Lines, PastStart, Ready

(* The calls of a reader in loop().                                        *)
LEMMA ReaderMoves ==
    ASSUME SketchesTyped, NEW t \in Thread,
           ReaderAvailable(t) \/ ReaderRead(t) \/ ReaderPrint(t)
    PROVE  \E m \in Nat :
             /\ line' = [line EXCEPT ![t] = m] /\ sketch' = sketch
             /\ sketch[t] \in Reading /\ line[t] \in Nat /\ line[t] >= 2 /\ m >= 2
             /\ sketch[t] = "mainReader" => line[t] >= 3 /\ m >= 3
<1> DEFINE n == line[t]
           f == Following(t)
<1>1. ASSUME NEW op \in {"available", "read", "printText"}, At(t, op)
      PROVE  /\ n \in Nat /\ f \in Nat /\ sketch[t] \in Reading
             /\ n >= 2 /\ f >= 2 /\ (op = "read" => n >= 3)
             /\ sketch[t] = "mainReader" => n >= 3 /\ f >= 3 /\ (op = "read" => n >= 4)
  BY <1>1, AtSteps, StepSettled
<1>2. line \in [Thread -> Nat]
  BY DEF SketchesTyped
<1> HIDE DEF n, f
<1>3. CASE ReaderAvailable(t)
  <2>1. /\ At(t, "available") /\ sketch' = sketch
        /\ \/ line' = [line EXCEPT ![t] = f] \/ line' = [line EXCEPT ![t] = f + 1]
           \/ line' = [line EXCEPT ![t] = n]
    BY <1>3 DEF ReaderAvailable, f, n
  <2>2. QED
    BY <1>1, <2>1 DEF n
<1>4. CASE ReaderRead(t)
  <2>1. At(t, "read") /\ sketch' = sketch /\ line' = [line EXCEPT ![t] = n - 1]
    BY <1>4 DEF ReaderRead, n
  <2>2. /\ n \in Nat /\ n >= 3 /\ sketch[t] \in Reading
        /\ sketch[t] = "mainReader" => n >= 4
    BY <1>1, <2>1
  <2>3. n - 1 \in Nat /\ n - 1 >= 2 /\ (sketch[t] = "mainReader" => n - 1 >= 3)
    BY <2>2
  <2>4. PICK m \in Nat : m = n - 1
    BY <2>3
  <2>5. /\ line' = [line EXCEPT ![t] = m] /\ m >= 2
        /\ sketch[t] = "mainReader" => m >= 3 /\ n >= 3
    BY <2>1, <2>2, <2>3, <2>4
  <2>6. line[t] = n /\ n >= 2
    BY <2>2 DEF n
  <2>7. QED
    BY <2>1, <2>2, <2>4, <2>5, <2>6
<1>5. CASE ReaderPrint(t)
  <2>1. At(t, "printText") /\ sketch' = sketch /\ line' = [line EXCEPT ![t] = f]
    BY <1>5 DEF ReaderPrint, Runs, f
  <2>2. QED
    BY <1>1, <2>1 DEF n
<1>6. QED
  BY <1>3, <1>4, <1>5

LEMMA ReaderWraps ==
    ASSUME SketchesInv, NEW t \in Thread,
           ReaderAvailable(t) \/ ReaderRead(t) \/ ReaderPrint(t)
    PROVE  Wrapping'
<1>1. /\ SketchesTyped /\ Lines /\ line \in [Thread -> Nat]
      /\ pc \in [Thread -> {"idle", "spin", "join", "write"}]
  BY EntriesAre DEF SketchesInv, Wrapping, Inv, Typed
<1>2. PICK m \in Nat :
        /\ line' = [line EXCEPT ![t] = m] /\ sketch' = sketch
        /\ sketch[t] \in Reading /\ line[t] \in Nat /\ line[t] >= 2 /\ m >= 2
        /\ sketch[t] = "mainReader" => line[t] >= 3 /\ m >= 3
  BY <1>1, ReaderMoves
<1>3. /\ pc[t] = "idle" /\ pc'[t] \in {"idle", "write"} /\ UNCHANGED <<worker, pos, msg, sent>>
      /\ global' = global /\ t \in using /\ sections' = sections
      /\ \A u \in Thread \ {t} : pc'[u] = pc[u] /\ left'[u] = left[u]
  <2>1. CASE ReaderAvailable(t) \/ ReaderRead(t)
    <3>1. Receive(t)
      BY <2>1 DEF ReaderAvailable, ReaderRead, Look, Read
    <3>2. QED
      BY <3>1 DEF Receive, UserCalls, MayCall, callVars, histVars, txVars
  <2>2. CASE ReaderPrint(t)
    <3>1. WriteCall(t, Len(text[t]))
      BY <2>2 DEF ReaderPrint
    <3>2. QED
      BY <1>1, <3>1 DEF WriteCall, UserCalls, MayCall, histVars, txVars
  <2>3. QED
    BY <2>1, <2>2
<1>4. t \in Readers /\ Readers' = Readers
  BY <1>2 DEF Readers, Reading
<1>5. Acts(t, m)
  BY <1>1, <1>2, <1>3 DEF Acts, Onward, Reading
<1>6. Lines'
  <2>1. Ready(t)'
    BY <1>1, <1>2, <1>5, WriterReady, StaysReady DEF Reading
  <2>2. QED
    BY <1>1, <1>2, <1>3, <1>4, <1>5, <2>1, ActsLines
<1>7. /\ DOMAIN list' = DOMAIN list
      /\ \A k \in DOMAIN list :
           /\ list'[k].id = list[k].id /\ list'[k].tx = list[k].tx
           /\ list'[k].prefix = list[k].prefix /\ list'[k].suffix = list[k].suffix
           /\ list[k].id # t => list'[k] = list[k]
  <2>1. CASE ReaderPrint(t)
    BY <2>1 DEF ReaderPrint, WriteCall
  <2>2. CASE ReaderAvailable(t) \/ ReaderRead(t)
    <3>1. PICK e \in Entry : /\ Makes(t, e) /\ e.blocked = list[Find(t)].blocked
                            /\ e.prefix = list[Find(t)].prefix
                            /\ e.suffix = list[Find(t)].suffix
      BY <2>2, EntryCalls DEF ReaderAvailable, ReaderRead, SketchesInv
    <3>2. QED
      BY <3>1 DEF Makes
  <2>3. QED
    BY <2>1, <2>2
<1>8. \A k \in DOMAIN list : list[k].id = t => Filling(k)'
  BY <1>4, <1>7 DEF Filling
<1>9. GlobalsSet' /\ Entries' /\ Hand' /\ Sent'
  BY <1>2, <1>3, <1>5, <1>7, <1>8, ActsKeep DEF Reading
<1>10. QED
  BY <1>6, <1>9 DEF Wrapping
-----------------------------------------------------------------------------
(* A text is a surjection onto the set of its bytes.                       *)
LEMMA TextOnto ==
    ASSUME NEW s \in Text
    PROVE  /\ s \in Surjection(1 .. Len(s), ToSet(s))
           /\ IsFiniteSet(1 .. Len(s)) /\ Cardinality(1 .. Len(s)) = Len(s)
<1>1. Len(s) \in Nat /\ DOMAIN s = 1 .. Len(s) /\ s \in Seq(Byte)
  BY TextBytes DEF Text
<1>2. ToSet(s) = {s[p] : p \in 1 .. Len(s)}
  BY <1>1 DEF ToSet
<1>3. s \in [1 .. Len(s) -> ToSet(s)]
  BY <1>1, <1>2
<1>4. IsFiniteSet(1 .. Len(s)) /\ Cardinality(1 .. Len(s)) = Len(s)
  BY SMTT(60), <1>1, FS_Interval
<1>5. QED
  BY <1>2, <1>3, <1>4 DEF Surjection

(* The bytes of a section in a text.                                       *)
LEMMA PartFinite ==
    ASSUME NEW s \in Text, NEW n
    PROVE  /\ IsFiniteSet(ToSet(s)) /\ IsFiniteSet(Part(s, n)) /\ Cardinality(Part(s, n)) \in Nat
           /\ (\A p \in DOMAIN s : s[p][3] # n) => Cardinality(Part(s, n)) = 0
<1>1. IsFiniteSet(ToSet(s))
  BY TextOnto, FS_Surjection
<1>2. Part(s, n) \subseteq ToSet(s)
  BY DEF Part
<1>3. IsFiniteSet(Part(s, n)) /\ Cardinality(Part(s, n)) \in Nat
  BY <1>1, <1>2, FS_Subset, FS_CardinalityType
<1>4. ASSUME \A p \in DOMAIN s : s[p][3] # n PROVE Cardinality(Part(s, n)) = 0
  <2>1. Part(s, n) = {}
    BY <1>4 DEF Part, ToSet
  <2>2. QED
    BY <2>1, FS_EmptySet
<1>5. QED
  BY <1>1, <1>3, <1>4

LEMMA PartAppended ==
    ASSUME NEW s \in Text, NEW b \in Byte, \A p \in DOMAIN s : s[p] # b, NEW n
    PROVE  LET a == Append(s, b)
           IN  /\ a \in Text /\ Len(a) = Len(s) + 1 /\ DOMAIN a = DOMAIN s \cup {Len(s) + 1}
               /\ a[Len(s) + 1] = b /\ \A p \in DOMAIN s : a[p] = s[p]
               /\ n = b[3] => Cardinality(Part(a, n)) = Cardinality(Part(s, n)) + 1
               /\ n # b[3] => Part(a, n) = Part(s, n)
<1> DEFINE a == Append(s, b)
<1>1. Len(s) \in Nat /\ DOMAIN s = 1 .. Len(s) /\ s \in Seq(Byte)
  BY TextBytes DEF Text
<1>2. /\ a \in Text /\ Len(a) = Len(s) + 1
      /\ a[Len(s) + 1] = b /\ \A p \in DOMAIN s : a[p] = s[p]
  BY <1>1, AppendProperties DEF Text
<1> HIDE DEF a
<1>3. DOMAIN a = 1 .. Len(s) + 1
  BY <1>2, TextBytes
<1>4. DOMAIN a = DOMAIN s \cup {Len(s) + 1}
  BY <1>1, <1>3
<1>5. ToSet(a) = ToSet(s) \cup {b} /\ b \notin ToSet(s)
  BY <1>2, <1>4 DEF ToSet
<1>6. ASSUME n = b[3] PROVE Cardinality(Part(a, n)) = Cardinality(Part(s, n)) + 1
  <2>1. Part(a, n) = Part(s, n) \cup {b} /\ b \notin Part(s, n)
    BY <1>5, <1>6 DEF Part
  <2>2. QED
    BY <2>1, PartFinite, FS_AddElement
<1>7. n # b[3] => Part(a, n) = Part(s, n)
  BY <1>5 DEF Part
<1>8. QED
  BY <1>2, <1>4, <1>6, <1>7 DEF a

(* The calls that make up a section.                                       *)
LEMMA SectionMoves ==
    ASSUME SketchesInv, NEW t \in Thread, NEW op \in {"block", "print", "unblock"}, Runs(t, op),
           pc[t] = "idle", \A u \in Thread \ {t} : pc'[u] = pc[u] /\ left'[u] = left[u]
    PROVE  /\ Acts(t, Following(t)) /\ Following(t) >= 2 /\ line[t] # 0
           /\ sketch[t] = "log" => line[t] >= 5 /\ Following(t) >= 5
           /\ sketch[t] = "gps" => line[t] >= 4 /\ Following(t) >= 4
           /\ sketch[t] = "log" => /\ line[t] >= 3 <=> Following(t) >= 3
                                   /\ line[t] >= 4 <=> Following(t) >= 4
           /\ sketch[t] = "gps" => /\ line[t] >= 3 <=> Following(t) >= 3
                                   /\ line[t] >= 4 <=> Following(t) >= 4
           /\ t \notin Readers =>
                 /\ op = "block" => Offset(t) = 1 /\ Offset(t)' = 2
                 /\ op = "print" => \/ Offset(t) = 2 /\ Offset(t)' = 3
                                    \/ Offset(t) = 3 /\ Offset(t)' = 4
                 /\ op = "unblock" => Offset(t) = 4 /\ Offset(t)' = 1
<1> DEFINE m == Following(t)
<1>1. /\ Acts(t, m) /\ Step(op, sketch[t], line[t], m) /\ m \in Nat /\ line[t] \in Nat
  BY RunsActs DEF SketchesInv
<1> HIDE DEF m
<1>2. /\ sketch[t] = "log" => line[t] >= 5 /\ m >= 5
      /\ sketch[t] = "gps" => line[t] >= 4 /\ m >= 4
      /\ line[t] >= 2 /\ m >= 2
  BY <1>1, StepSettled
<1>3. ASSUME t \notin Readers
      PROVE  /\ op = "block" => Offset(t) = 1 /\ Offset(t)' = 2
             /\ op = "print" => \/ Offset(t) = 2 /\ Offset(t)' = 3
                                \/ Offset(t) = 3 /\ Offset(t)' = 4
             /\ op = "unblock" => Offset(t) = 4 /\ Offset(t)' = 1
  <2>1. sketch[t] \in Writing \cup {"none"}
    BY <1>3, EntriesAre
  <2>2. sketch[t] \in Writing
    BY <1>1, <2>1 DEF Step, Writing, Reading
  <2>3. PICK l \in Nat : l = Len(Setup[sketch[t]])
    BY <2>2, Lengths DEF Writing
  <2>4. /\ op = "block" => line[t] - l = 1 /\ m = line[t] + 1
        /\ op = "print" => line[t] - l \in {2, 3} /\ m = line[t] + 1
        /\ op = "unblock" => line[t] - l = 4 /\ m = line[t] - 3
    BY <1>1, <2>2, <2>3 DEF Step, Writing, Reading
  <2>5. Offset(t) = line[t] - l /\ Offset(t)' = m - l
    BY <1>1, <2>3 DEF Acts, Offset
  <2>6. QED
    BY ONLY SMTT(60), <1>1, <2>3, <2>4, <2>5
<1>4. /\ sketch[t] = "log" => (line[t] >= 3 <=> m >= 3) /\ (line[t] >= 4 <=> m >= 4)
      /\ sketch[t] = "gps" => (line[t] >= 3 <=> m >= 3) /\ (line[t] >= 4 <=> m >= 4)
  BY <1>1, <1>2
<1>5. QED
  BY <1>1, <1>2, <1>3, <1>4 DEF m

(* block() begins a section that has no bytes yet.                         *)
LEMMA BlockWraps == ASSUME SketchesInv, NEW t \in Thread, SketchBlock(t) PROVE Wrapping'
<1>1. /\ SketchesTyped /\ Lines /\ Inv /\ sections \in [Thread -> Nat]
      /\ Runs(t, "block") /\ Block(t)
  BY DEF SketchesInv, Wrapping, Inv, Typed, SketchBlock
<1>2. /\ pc[t] = "idle" /\ UNCHANGED <<worker, pos, msg, sent, pc, left, global>> /\ t \in using
      /\ sections' = [sections EXCEPT ![t] = sections[t] + 1]
  BY <1>1 DEF Block, UserCalls, MayCall, callVars, txVars
<1>3. /\ Acts(t, Following(t))
      /\ sketch[t] = "log" => /\ line[t] >= 3 <=> Following(t) >= 3
                              /\ line[t] >= 4 <=> Following(t) >= 4
      /\ sketch[t] = "gps" => /\ line[t] >= 3 <=> Following(t) >= 3
                              /\ line[t] >= 4 <=> Following(t) >= 4
      /\ t \notin Readers => Offset(t) = 1 /\ Offset(t)' = 2
  BY <1>1, <1>2, SectionMoves
<1>4. PICK e \in Entry : /\ Makes(t, e) /\ e.blocked
                        /\ e.prefix = list[Find(t)].prefix /\ e.suffix = list[Find(t)].suffix
  BY <1>1, EntryCalls
<1>5. /\ DOMAIN list' = DOMAIN list
      /\ \A k \in DOMAIN list :
            /\ list'[k].id = list[k].id /\ list'[k].tx = list[k].tx
            /\ list'[k].prefix = list[k].prefix /\ list'[k].suffix = list[k].suffix
            /\ list[k].id # t => list'[k] = list[k]
      /\ list'[Find(t)].blocked
  BY <1>4 DEF Makes
<1>6. Lines'
  BY <1>1, <1>2, <1>3, ActsLines DEF Lines
<1>7. ASSUME NEW k \in DOMAIN list, list[k].id = t PROVE Filling(k)'
  <2>1. list'[k].id = t /\ list'[k].tx = list[k].tx /\ list'[k].blocked
    BY <1>2, <1>5, <1>7, EntriesAre
  <2>2. list[k].tx \in Text /\ Filling(k)
    BY EntriesAre
  <2>3. ASSUME t \notin Readers
        PROVE  /\ Offset(t)' = 2 /\ left'[t] = 0
               /\ Cardinality(Part(list[k].tx, sections'[t])) = 0
               /\ \A p \in DOMAIN list[k].tx : Whole(list[k].tx, list[k].tx[p][3])
    <3>1. \A p \in DOMAIN list[k].tx : Whole(list[k].tx, list[k].tx[p][3])
      BY <1>3, <1>7, <2>2, <2>3 DEF Filling
    <3>2. ASSUME NEW p \in DOMAIN list[k].tx PROVE list[k].tx[p][3] # sections'[t]
      <4>1. list[k].tx[p][1] = t /\ Numbered(list[k].tx[p])
        BY <1>1, <1>7 DEF Inv, Owned, AllNumbered
      <4>2. list[k].tx[p][3] \in 0 .. sections[t] /\ sections'[t] = sections[t] + 1
        BY <1>1, <1>2, <4>1 DEF Numbered
      <4>3. QED
        BY <1>1, <4>2
    <3>3. left'[t] = 0
      BY <1>1, <1>2, <2>3 DEF Lines
    <3>4. QED
      BY <1>3, <2>2, <2>3, <3>1, <3>2, <3>3, PartFinite
  <2>4. Readers' = Readers
    BY <1>3 DEF Acts, Readers
  <2>5. QED
    BY <2>1, <2>3, <2>4 DEF Filling, Whole, Part
<1>8. GlobalsSet' /\ Entries' /\ Hand' /\ Sent'
  BY <1>1, <1>2, <1>3, <1>5, <1>7, ActsKeep
<1>9. QED
  BY <1>6, <1>8 DEF Wrapping

(* print() has a byte of its section still to store.                       *)
LEMMA PrintWraps == ASSUME SketchesInv, NEW t \in Thread, SketchPrint(t) PROVE Wrapping'
<1>1. /\ SketchesTyped /\ Lines /\ Inv
      /\ pc \in [Thread -> {"idle", "spin", "join", "write"}]
      /\ Runs(t, "print") /\ WriteCall(t, 1)
  BY DEF SketchesInv, Wrapping, Inv, Typed, SketchPrint
<1>2. /\ pc[t] = "idle" /\ UNCHANGED <<worker, pos, msg, sent, global, sections, list>>
      /\ pc'[t] = "write" /\ left'[t] = 1
      /\ \A u \in Thread \ {t} : pc'[u] = pc[u] /\ left'[u] = left[u]
  BY <1>1 DEF WriteCall, UserCalls, MayCall, txVars, histVars, SketchesTyped
<1>3. /\ Acts(t, Following(t)) /\ Following(t) >= 2 /\ line[t] # 0
      /\ sketch[t] = "log" => line[t] >= 5
      /\ sketch[t] = "gps" => line[t] >= 4
      /\ sketch[t] = "log" => /\ line[t] >= 3 <=> Following(t) >= 3
                              /\ line[t] >= 4 <=> Following(t) >= 4
      /\ sketch[t] = "gps" => /\ line[t] >= 3 <=> Following(t) >= 3
                              /\ line[t] >= 4 <=> Following(t) >= 4
      /\ t \notin Readers => \/ Offset(t) = 2 /\ Offset(t)' = 3
                             \/ Offset(t) = 3 /\ Offset(t)' = 4
  BY <1>1, <1>2, SectionMoves
<1>4. Lines'
  <2>1. Ready(t)
    BY <1>1, <1>3, WriterReady
  <2>2. Ready(t)'
    BY <1>1, <1>3, <2>1, StaysReady
  <2>3. QED
    BY <1>1, <1>2, <1>3, <2>2, ActsLines
<1>5. ASSUME NEW k \in DOMAIN list, list[k].id = t PROVE Filling(k)'
  <2>1. Filling(k) /\ list'[k] = list[k] /\ sketch' = sketch /\ sections'[t] = sections[t]
    BY <1>2, <1>3, EntriesAre DEF Acts
  <2>2. t \notin Readers =>
          /\ Offset(t) \in 2 .. 4 <=> Offset(t)' \in 2 .. 4
          /\ Offset(t)' - 2 - left'[t] = Offset(t) - 2 - left[t]
    BY <1>1, <1>2, <1>3 DEF Lines
  <2>3. QED
    BY <1>5, <2>1, <2>2, KeepsFilling
<1>6. GlobalsSet' /\ Entries' /\ Hand' /\ Sent'
  BY <1>2, <1>3, <1>5, ActsKeep
<1>7. QED
  BY <1>4, <1>6 DEF Wrapping

(* unblock() ends a section of which all has been stored.                  *)
LEMMA UnblockWraps == ASSUME SketchesInv, NEW t \in Thread, SketchUnblock(t) PROVE Wrapping'
<1>1. /\ SketchesTyped /\ Lines /\ Inv /\ Runs(t, "unblock") /\ Unblock(t)
  BY DEF SketchesInv, Wrapping, SketchUnblock
<1>2. /\ pc[t] = "idle" /\ t \in using
      /\ UNCHANGED <<worker, pos, msg, sent, pc, left, global, sections>>
  BY <1>1 DEF Unblock, UserCalls, MayCall, callVars, histVars
<1>3. /\ Acts(t, Following(t))
      /\ sketch[t] = "log" => /\ line[t] >= 3 <=> Following(t) >= 3
                              /\ line[t] >= 4 <=> Following(t) >= 4
      /\ sketch[t] = "gps" => /\ line[t] >= 3 <=> Following(t) >= 3
                              /\ line[t] >= 4 <=> Following(t) >= 4
      /\ t \notin Readers => Offset(t) = 4 /\ Offset(t)' = 1
  BY <1>1, <1>2, SectionMoves
<1>4. PICK e \in Entry : /\ Makes(t, e) /\ ~e.blocked
                        /\ e.prefix = list[Find(t)].prefix /\ e.suffix = list[Find(t)].suffix
  BY <1>1, EntryCalls
<1>5. /\ DOMAIN list' = DOMAIN list
      /\ \A k \in DOMAIN list :
            /\ list'[k].id = list[k].id /\ list'[k].tx = list[k].tx
            /\ list'[k].prefix = list[k].prefix /\ list'[k].suffix = list[k].suffix
            /\ list[k].id # t => list'[k] = list[k]
      /\ ~list'[Find(t)].blocked
  BY <1>4 DEF Makes
<1>6. Lines'
  BY <1>1, <1>2, <1>3, ActsLines DEF Lines
<1>7. ASSUME NEW k \in DOMAIN list, list[k].id = t PROVE Filling(k)'
  <2>1. list'[k].id = t /\ list'[k].tx = list[k].tx /\ ~list'[k].blocked
    BY <1>2, <1>5, <1>7, EntriesAre
  <2>2. list[k].tx \in Text /\ Filling(k)
    BY EntriesAre
  <2>3. ASSUME t \notin Readers, NEW p \in DOMAIN list[k].tx
        PROVE  Whole(list[k].tx, list[k].tx[p][3])
    <3>1. Offset(t) = 4 /\ left[t] = 0
      BY <1>1, <1>2, <1>3, <2>3 DEF Lines
    <3>2. \/ Cardinality(Part(list[k].tx, sections[t])) = 2
          \/ Len(list[k].tx) >= TxSize
      BY <1>7, <2>2, <2>3, <3>1 DEF Filling
    <3>3. \/ Whole(list[k].tx, list[k].tx[p][3])
          \/ list[k].tx[p][3] = sections[t]
      BY <1>7, <2>2, <2>3 DEF Filling
    <3>4. QED
      BY <3>2, <3>3 DEF Whole
  <2>4. Readers' = Readers
    BY <1>3 DEF Acts, Readers
  <2>5. ASSUME t \notin Readers
        PROVE  /\ ~list'[k].blocked /\ Offset(t)' = 1
               /\ \A p \in DOMAIN list[k].tx : Whole(list[k].tx, list[k].tx[p][3])'
    BY <1>3, <2>1, <2>3, <2>5 DEF Whole, Part
  <2>6. QED
    BY <2>1, <2>4, <2>5 DEF Filling
<1>8. GlobalsSet' /\ Entries' /\ Hand' /\ Sent'
  BY <1>2, <1>3, <1>5, <1>7, ActsKeep
<1>9. QED
  BY <1>6, <1>8 DEF Wrapping
-----------------------------------------------------------------------------
(* A new entry is that of a sketch that has just called begin().           *)
LEMMA NewEntryFits ==
    ASSUME NEW k, NEW t \in Thread, list'[k].id = t, list'[k].tx = <<>>, ~list'[k].blocked,
           ~list'[k].prefix, ~list'[k].suffix, line'[t] = 2,
           sketch'[t] \in DOMAIN Setup, sketch'[t] # "none"
    PROVE  Decorated(k)' /\ Filling(k)'
<1>1. Decorated(k)'
  BY DEF Decorated
<1>2. ASSUME t \notin Readers' PROVE Offset(t)' \notin 2 .. 4
  <2>1. sketch'[t] \in {"log", "writer", "gps"}
    BY <1>2 DEF Setup, Readers
  <2>2. PICK l \in {1, 3, 4} : l = Len(Setup[sketch'[t]])
    BY <2>1, Lengths
  <2>3. Offset(t)' = 2 - l
    BY <2>2 DEF Offset
  <2>4. l = 1 \/ l = 3 \/ l = 4
    OBVIOUS
  <2>5. Offset(t)' = 1 \/ Offset(t)' = -1 \/ Offset(t)' = -2
    BY ONLY <2>3, <2>4
  <2>6. QED
    BY ONLY <2>5
<1>3. DOMAIN <<>> = {}
  OBVIOUS
<1>4. Filling(k)'
  BY <1>2, <1>3 DEF Filling
<1>5. QED
  BY <1>1, <1>4

(* A call of begin() makes an entry without bytes.                         *)
LEMMA BeginWraps == ASSUME SketchesInv, NEW t \in Thread, SketchBegin(t) PROVE Wrapping'
<1> DEFINE m == Following(t)
<1>1. /\ SketchesTyped /\ Lines /\ GlobalsSet /\ Hand /\ Sent /\ Inv /\ Typed
      /\ pc \in [Thread -> {"idle", "spin", "join", "write"}]
      /\ Runs(t, "begin") /\ (BeginFirst(t) \/ BeginNext(t))
  BY DEF SketchesInv, Wrapping, Inv, Typed, SketchBegin
<1>2. /\ pc[t] = "idle" /\ pc'[t] \in {"idle", "spin"}
      /\ UNCHANGED <<pos, msg, sent, left, global, sections>>
      /\ \A u \in Thread \ {t} : pc'[u] = pc[u]
  BY <1>1 DEF BeginFirst, BeginNext, MayCall, callVars, histVars, txVars
<1>3. Acts(t, m) /\ Step("begin", sketch[t], line[t], m) /\ m \in Nat /\ line[t] \in Nat
  BY <1>1, <1>2, RunsActs
<1> HIDE DEF m
<1>4. line[t] = 1 /\ m = 2 /\ sketch[t] # "none"
  BY <1>3 DEF Step
<1>5. sketch' = sketch /\ line'[t] = m
  BY <1>3 DEF Acts
<1>6. Lines'
  <2>1. t \notin Readers => left[t] = 0
    BY <1>1, <1>2 DEF Lines
  <2>2. QED
    BY <1>1, <1>2, <1>3, <1>4, <2>1, ActsLines
<1>7. GlobalsSet'
  BY <1>1, <1>2, <1>3, <1>4, KeepsGlobals
<1>8. ASSUME NEW k \in DOMAIN list, list'[k] = list[k] PROVE Decorated(k)' /\ Filling(k)'
  <2>1. list[k].id \in Thread /\ Decorated(k) /\ Filling(k)
    BY EntriesAre
  <2>2. list[k].id # t
    BY <1>4, <2>1 DEF Decorated
  <2>3. QED
    BY <1>1, <1>2, <1>3, <1>8, <2>1, <2>2, KeepsOthers
<1>9. \A k \in DOMAIN list : Ready(list[k].id) => Ready(list[k].id)'
  <2>1. ASSUME NEW k \in DOMAIN list, list'[k] = list[k], Ready(list[k].id),
               NEW u \in Thread, u = list[k].id
        PROVE  Ready(u)'
    BY <1>1, <1>3, <2>1, StaysReady
  <2>2. (\A k \in DOMAIN list : list'[k] = list[k]) =>
           \A k \in DOMAIN list : Ready(list[k].id) => Ready(list[k].id)'
    BY <2>1, EntriesAre DEF Ready
  <2>3. \A k \in DOMAIN list : list'[k] = list[k]
    BY <1>1, RegisterList DEF BeginFirst, BeginNext
  <2>4. QED
    BY <2>2, <2>3
<1>10. Sent'
  BY <1>1, <1>2, <1>5, KeepsSent
<1>11. CASE BeginFirst(t)
  <2>1. list' = list /\ worker' = "starting"
    BY <1>11 DEF BeginFirst
  <2>2. QED
    BY <1>6, <1>7, <1>8, <1>10, <2>1 DEF Wrapping, Entries, Hand
<1>12. CASE BeginNext(t)
  <2>1. Register(t) /\ worker' = worker
    BY <1>12 DEF BeginNext, txVars
  <2>2. /\ DOMAIN list \subseteq DOMAIN list' /\ \A k \in DOMAIN list : list'[k] = list[k]
        /\ \A k \in DOMAIN list' \ DOMAIN list :
             /\ list'[k].tx = <<>> /\ list'[k].id = t
             /\ ~list'[k].blocked /\ ~list'[k].prefix /\ ~list'[k].suffix
    BY <1>1, <2>1, RegisterList
  <2>3. Hand'
    BY <1>1, <1>2, <1>5, <1>9, <2>1, <2>2, KeepsHand
  <2>4. ASSUME NEW k \in DOMAIN list' PROVE Decorated(k)' /\ Filling(k)'
    <3>1. sketch'[t] \in DOMAIN Setup /\ sketch'[t] # "none" /\ line'[t] = 2
      BY <1>4, <1>5, EntriesAre
    <3>2. CASE k \in DOMAIN list
      BY <1>8, <2>2, <3>2
    <3>3. CASE k \notin DOMAIN list
      BY <2>2, <3>1, <3>3, NewEntryFits
    <3>4. QED
      BY <3>2, <3>3
  <2>5. QED
    BY <1>6, <1>7, <1>10, <2>3, <2>4 DEF Wrapping, Entries
<1>13. QED
  BY <1>1, <1>11, <1>12

(* start() starts sketches that have not run before.                       *)
LEMMA StartWraps == ASSUME SketchesInv, NEW t \in Thread, SketchStart(t) PROVE Wrapping'
<1> DEFINE m == Following(t)
<1>1. /\ SketchesTyped /\ Lines /\ GlobalsSet /\ Hand /\ Sent
      /\ pc[t] = "idle" /\ sketch' = sketch /\ At(t, "start")
      /\ UNCHANGED <<list, worker, pos, msg, sent, global, pc, left, sections>>
  BY DEF SketchesInv, Wrapping, SketchStart, vars, txVars, callVars, histVars
<1>2. line[t] \in Nat /\ m \in Nat /\ Step("start", sketch[t], line[t], m)
  BY <1>1, AtSteps
<1>3. /\ line \in [Thread -> Nat] /\ Main \in Thread
      /\ line' = [u \in Thread |-> IF u = t THEN m ELSE 1]
  BY EntriesAre DEF SketchStart
<1> HIDE DEF m
<1>4. \/ sketch[t] = "log" /\ line[t] = 4 /\ m = 5
      \/ sketch[t] = "mainReader" /\ line[t] = 2 /\ m = 3
  BY <1>2 DEF Step
<1>5. t = Main
  BY <1>1, <1>4, ProjectsAssumption DEF SketchesTyped
<1>6. line'[Main] = m /\ \A u \in Thread \ {Main} : line[u] = 0 /\ line'[u] = 1
  BY <1>1, <1>3, <1>4, <1>5 DEF Lines, PastStart
<1>7. PastStart' /\ GlobalsSet'
  BY <1>1, <1>4, <1>5, <1>6 DEF PastStart, GlobalsSet
<1>8. Readers' = Readers
  BY <1>1 DEF Readers
<1>9. Lines'
  <2>1. ASSUME NEW u \in Thread
        PROVE  /\ pc[u] # "spin" /\ pc[u] # "write"
               /\ u \notin Readers => left[u] \in Nat /\ (pc[u] # "write" => left[u] = 0)
    BY <1>1, <1>5, <1>6 DEF Lines
  <2>2. QED
    BY <1>1, <1>7, <1>8, <2>1 DEF Lines
<1>10. ASSUME NEW k \in DOMAIN list
       PROVE  list[k].id = Main /\ Decorated(k)' /\ Filling(k)' /\ Ready(Main)'
  <2>1. list[k].id \in Thread /\ Decorated(k) /\ Filling(k)
    BY EntriesAre
  <2>2. list[k].id = Main
    BY <1>6, <2>1 DEF Decorated
  <2>3. Ready(Main)' /\ line'[Main] >= 2
    BY <1>1, <1>4, <1>5, <1>6 DEF Ready
  <2>4. Decorated(k)'
    BY <1>1, <1>3, <1>4, <1>5, <2>1, <2>2, <2>3, KeepsDecorated
  <2>5. Filling(k)'
    <3>1. ASSUME Main \notin Readers PROVE Offset(Main) = 0 /\ Offset(Main)' = 1
      <4>1. sketch[Main] = "log" /\ line[Main] = 4 /\ line'[Main] = 5
        BY <1>3, <1>4, <1>5, <1>6, <3>1 DEF Readers
      <4>2. QED
        BY <1>1, <4>1, Lengths DEF Offset
    <3>2. Main \notin Readers => ~list[k].blocked
      BY <2>1, <2>2, <3>1 DEF Filling
    <3>3. QED
      BY <1>1, <1>3, <2>1, <2>2, <3>1, <3>2, KeepsFilling
  <2>6. QED
    BY <2>2, <2>3, <2>4, <2>5
<1>11. Hand' /\ Sent'
  <2>1. \A k \in DOMAIN list : Ready(list[k].id)'
    BY <1>1, <1>10 DEF Ready
  <2>2. QED
    BY <1>1, <2>1, KeepsHand, KeepsSent
<1>12. QED
  BY <1>1, <1>7, <1>9, <1>10, <1>11 DEF Wrapping, Entries

(* globalPrefix() and globalSuffix() come before start().                  *)
LEMMA GlobalWraps ==
    ASSUME SketchesInv, NEW t \in Thread,
           \/ Runs(t, "globalPrefix") /\ SetGlobalPrefix(t)
           \/ Runs(t, "globalSuffix") /\ SetGlobalSuffix(t)
    PROVE  Wrapping'
<1> DEFINE m == Following(t)
<1>1. /\ SketchesTyped /\ Lines /\ GlobalsSet /\ Hand /\ Sent
      /\ global \in [prefix : BOOLEAN, suffix : BOOLEAN]
  BY DEF SketchesInv, Wrapping, SketchesTyped
<1>2. /\ pc[t] = "idle" /\ UNCHANGED <<list, worker, pos, msg, sent, pc, left, sections>>
  BY DEF SetGlobalPrefix, SetGlobalSuffix, SetGlobal, MayCall, txVars, callVars, histVars
<1>3. /\ Acts(t, m) /\ line'[t] = m /\ sketch' = sketch /\ sketch[t] = "log"
      /\ \/ line[t] = 2 /\ m = 3 /\ global' = [global EXCEPT !.prefix = TRUE]
         \/ line[t] = 3 /\ m = 4 /\ global' = [global EXCEPT !.suffix = TRUE]
  <2>1. CASE Runs(t, "globalPrefix") /\ SetGlobalPrefix(t)
    <3>1. Acts(t, m) /\ Step("globalPrefix", sketch[t], line[t], m)
      BY <1>1, <1>2, <2>1, RunsActs
    <3>2. sketch[t] = "log" /\ line[t] = 2 /\ m = 3
      BY <3>1 DEF Step
    <3>3. QED
      BY <2>1, <3>1, <3>2 DEF Acts, SetGlobalPrefix, SetGlobal
  <2>2. CASE Runs(t, "globalSuffix") /\ SetGlobalSuffix(t)
    <3>1. Acts(t, m) /\ Step("globalSuffix", sketch[t], line[t], m)
      BY <1>1, <1>2, <2>2, RunsActs
    <3>2. sketch[t] = "log" /\ line[t] = 3 /\ m = 4
      BY <3>1 DEF Step
    <3>3. QED
      BY <2>2, <3>1, <3>2 DEF Acts, SetGlobalSuffix, SetGlobal
  <2>3. QED
    BY <2>1, <2>2
<1> HIDE DEF m
<1>4. t = Main
  BY <1>1, <1>3, ProjectsAssumption DEF SketchesTyped
<1>5. GlobalsSet'
  <2>1. CASE line[t] = 2 /\ m = 3 /\ global' = [global EXCEPT !.prefix = TRUE]
    <3>1. global'.prefix /\ global'.suffix = global.suffix
      BY <1>1, <2>1
    <3>2. QED
      BY <1>1, <1>3, <1>4, <2>1, <3>1 DEF GlobalsSet
  <2>2. CASE line[t] = 3 /\ m = 4 /\ global' = [global EXCEPT !.suffix = TRUE]
    <3>1. global'.prefix = global.prefix /\ global'.suffix
      BY <1>1, <2>2
    <3>2. QED
      BY <1>1, <1>3, <1>4, <2>2, <3>1 DEF GlobalsSet
  <2>3. QED
    BY <1>3, <2>1, <2>2
<1>6. Lines'
  <2>1. t \notin Readers
    BY <1>3 DEF Readers
  <2>2. left[t] \in Nat /\ left[t] = 0
    BY <1>1, <1>2, <2>1 DEF Lines
  <2>3. QED
    BY <1>1, <1>2, <1>3, <2>2, ActsLines
<1>7. ASSUME NEW k \in DOMAIN list PROVE Decorated(k)' /\ Filling(k)'
  <2>1. /\ list[k].id \in Thread /\ Decorated(k) /\ Filling(k)
        /\ list'[k] = list[k] /\ sections' = sections
    BY <1>2, EntriesAre
  <2>2. CASE list[k].id # t
    BY <1>1, <1>3, <2>1, <2>2, KeepsOthers
  <2>3. CASE list[k].id = t
    <3>1. line'[t] >= 2 /\ (Ready(t) => Ready(t)')
      BY <1>1, <1>3, StaysReady
    <3>2. Decorated(k)'
      BY <1>3, <2>1, <2>3, <3>1, KeepsDecorated
    <3>3. Offset(t) = line[t] - 4 /\ Offset(t)' = m - 4
      BY <1>3, Lengths DEF Offset
    <3>4. Offset(t) \notin 2 .. 4 /\ Offset(t)' \notin 2 .. 4
      BY <1>3, <3>3
    <3>5. t \notin Readers => ~list[k].blocked
      BY <2>1, <2>3, <3>4 DEF Filling
    <3>6. Filling(k)'
      BY <1>3, <2>1, <2>3, <3>4, <3>5, KeepsFilling
    <3>7. QED
      BY <3>2, <3>6
  <2>4. QED
    BY <2>2, <2>3
<1>8. Hand' /\ Sent'
  <2>1. ASSUME NEW k \in DOMAIN list, Ready(list[k].id), NEW u \in Thread, u = list[k].id
        PROVE  Ready(u)'
    BY <1>1, <1>3, <2>1, StaysReady
  <2>2. \A k \in DOMAIN list : Ready(list[k].id) => Ready(list[k].id)'
    BY <1>2, <2>1, EntriesAre DEF Ready
  <2>3. QED
    BY <1>1, <1>2, <1>3, <2>2, KeepsHand, KeepsSent
<1>9. QED
  BY <1>2, <1>5, <1>6, <1>7, <1>8 DEF Wrapping, Entries

(* prefix() and suffix() come before the first byte.                       *)
LEMMA OwnWraps ==
    ASSUME SketchesInv, NEW t \in Thread,
           \/ Runs(t, "prefix") /\ SetPrefix(t)
           \/ Runs(t, "suffix") /\ SetSuffix(t)
    PROVE  Wrapping'
<1> DEFINE m == Following(t)
<1>1. SketchesTyped /\ Lines /\ GlobalsSet /\ Hand /\ Sent /\ Inv
  BY DEF SketchesInv, Wrapping
<1>2. /\ pc[t] = "idle" /\ t \in using
      /\ UNCHANGED <<worker, pos, msg, sent, pc, left, sections, global>>
  BY DEF SetPrefix, SetSuffix, SetOwn, UserCalls, MayCall, txVars, callVars, histVars
<1>3. PICK e \in Entry :
        /\ Acts(t, m) /\ line'[t] = m /\ sketch' = sketch /\ sketch[t] = "gps"
        /\ Makes(t, e) /\ e.blocked = list[Find(t)].blocked
        /\ \/ line[t] = 2 /\ m = 3 /\ e.prefix /\ e.suffix = list[Find(t)].suffix
           \/ line[t] = 3 /\ m = 4 /\ e.prefix = list[Find(t)].prefix /\ e.suffix
  <2>1. CASE Runs(t, "prefix") /\ SetPrefix(t)
    <3>1. Acts(t, m) /\ Step("prefix", sketch[t], line[t], m)
      BY <1>1, <1>2, <2>1, RunsActs
    <3>2. sketch[t] = "gps" /\ line[t] = 2 /\ m = 3
      BY <3>1 DEF Step
    <3>3. line'[t] = m /\ sketch' = sketch
      BY <3>1 DEF Acts
    <3>4. QED
      BY <1>1, <2>1, <3>1, <3>2, <3>3, EntryCalls
  <2>2. CASE Runs(t, "suffix") /\ SetSuffix(t)
    <3>1. Acts(t, m) /\ Step("suffix", sketch[t], line[t], m)
      BY <1>1, <1>2, <2>2, RunsActs
    <3>2. sketch[t] = "gps" /\ line[t] = 3 /\ m = 4
      BY <3>1 DEF Step
    <3>3. line'[t] = m /\ sketch' = sketch
      BY <3>1 DEF Acts
    <3>4. QED
      BY <1>1, <2>2, <3>1, <3>2, <3>3, EntryCalls
  <2>3. QED
    BY <2>1, <2>2
<1> HIDE DEF m
<1>4. GlobalsSet'
  BY <1>1, <1>2, <1>3, KeepsGlobals
<1>5. Lines'
  <2>1. t \notin Readers
    BY <1>3 DEF Readers
  <2>2. left[t] \in Nat /\ left[t] = 0
    BY <1>1, <1>2, <2>1 DEF Lines
  <2>3. QED
    BY <1>1, <1>2, <1>3, <2>2, ActsLines
<1>6. ASSUME NEW k \in DOMAIN list PROVE Decorated(k)' /\ Filling(k)'
  <2>1. list[k].id \in Thread /\ Decorated(k) /\ Filling(k) /\ sections' = sections
    BY <1>2, EntriesAre
  <2>2. CASE list[k].id # t
    <3>1. list'[k] = list[k]
      BY <1>3, <2>2 DEF Makes
    <3>2. QED
      BY <1>1, <1>3, <2>1, <2>2, <3>1, KeepsOthers
  <2>3. CASE list[k].id = t
    <3>1. k = Find(t)
      BY <1>2, <2>3, EntriesAre
    <3>2. /\ list'[k].id = t /\ list'[k].tx = list[k].tx /\ list'[k].blocked = list[k].blocked
          /\ list'[k].prefix = e.prefix /\ list'[k].suffix = e.suffix
      BY <1>3, <3>1 DEF Makes
    <3>3. line'[t] >= 2 /\ (Ready(t) => Ready(t)')
      BY <1>1, <1>3, StaysReady
    <3>4. /\ list'[k].prefix <=> m >= 3
          /\ list'[k].suffix <=> m >= 4
      BY <1>3, <2>1, <2>3, <3>1, <3>2 DEF Decorated
    <3>5. list'[k].tx # <<>> => Ready(t)'
      BY <2>1, <2>3, <3>2, <3>3 DEF Decorated
    <3>6. Decorated(k)'
      BY <1>3, <3>2, <3>3, <3>4, <3>5 DEF Decorated
    <3>7. Offset(t) = line[t] - 3 /\ Offset(t)' = m - 3
      BY <1>3, Lengths DEF Offset
    <3>8. Offset(t) \notin 2 .. 4 /\ Offset(t)' \notin 2 .. 4
      BY <1>3, <3>7
    <3>9. t \notin Readers => ~list[k].blocked
      BY <2>1, <2>3, <3>8 DEF Filling
    <3>10. Filling(k)'
      BY <1>3, <2>1, <2>3, <3>2, <3>8, <3>9, KeepsFilling
    <3>11. QED
      BY <3>6, <3>10
  <2>4. QED
    BY <2>2, <2>3
<1>7. DOMAIN list' = DOMAIN list /\ \A k \in DOMAIN list : list'[k].id = list[k].id
  BY <1>3 DEF Makes
<1>8. Hand' /\ Sent'
  <2>1. ASSUME NEW k \in DOMAIN list, Ready(list[k].id), NEW u \in Thread, u = list[k].id
        PROVE  Ready(u)'
    BY <1>1, <1>3, <2>1, StaysReady
  <2>2. \A k \in DOMAIN list : Ready(list[k].id) => Ready(list[k].id)'
    BY <1>7, <2>1, EntriesAre DEF Ready
  <2>3. QED
    BY <1>1, <1>2, <1>3, <1>7, <2>2, KeepsHand, KeepsSent
<1>9. QED
  BY <1>4, <1>5, <1>6, <1>7, <1>8 DEF Wrapping, Entries
-----------------------------------------------------------------------------
(* While no sketch moves on, what depends on their places stays.           *)
LEMMA StillThere ==
    ASSUME line' = line, sketch' = sketch, NEW u
    PROVE  /\ Ready(u)' <=> Ready(u)
           /\ Offset(u)' = Offset(u) /\ Readers' = Readers
           /\ PastStart' <=> PastStart
  BY DEF Ready, Offset, Readers, PastStart

(* A call that begin() has waited for makes its entry.                     *)
LEMMA StartedWraps ==
    ASSUME SketchesInv, NEW t \in Thread, BeginStarted(t), UNCHANGED <<sketch, line, text>>
    PROVE  Wrapping'
<1>1. /\ SketchesTyped /\ Lines /\ GlobalsSet /\ Hand /\ Sent /\ Typed
      /\ pc \in [Thread -> {"idle", "spin", "join", "write"}]
  BY DEF SketchesInv, Wrapping, Inv, Typed
<1>2. /\ pc[t] = "spin" /\ Register(t) /\ pc' = [pc EXCEPT ![t] = "idle"]
      /\ UNCHANGED <<worker, pos, msg, sent, global, left, sections, sketch, line>>
  BY DEF BeginStarted, txVars
<1>3. line[t] = 2 /\ sketch[t] # "none"
  BY <1>1, <1>2 DEF Lines
<1>4. Lines'
  <2>1. \A u \in Thread : pc'[u] # pc[u] => u = t /\ pc'[u] = "idle" /\ pc[u] = "spin"
    BY <1>1, <1>2
  <2>2. QED
    BY <1>1, <1>2, <2>1, StillThere DEF Lines
<1>5. GlobalsSet' /\ Sent'
  BY <1>1, <1>2, KeepsSent DEF GlobalsSet
<1>6. /\ DOMAIN list \subseteq DOMAIN list' /\ \A k \in DOMAIN list : list'[k] = list[k]
      /\ \A k \in DOMAIN list' \ DOMAIN list :
           /\ list'[k].tx = <<>> /\ list'[k].id = t
           /\ ~list'[k].blocked /\ ~list'[k].prefix /\ ~list'[k].suffix
  BY <1>1, <1>2, RegisterList
<1>7. Hand'
  <2>1. \A k \in DOMAIN list : Ready(list[k].id) => Ready(list[k].id)'
    BY <1>2, <1>6 DEF Ready
  <2>2. QED
    BY <1>1, <1>2, <1>6, <2>1, KeepsHand
<1>8. ASSUME NEW k \in DOMAIN list' PROVE Decorated(k)' /\ Filling(k)'
  <2>1. CASE k \in DOMAIN list
    <3>1. PICK u \in Thread : u = list[k].id
      BY <2>1, EntriesAre
    <3>2. /\ Decorated(k) /\ Filling(k) /\ list'[k] = list[k]
          /\ Ready(u)' <=> Ready(u)
          /\ Offset(u)' = Offset(u)
      BY <1>2, <1>6, <2>1, EntriesAre, StillThere
    <3>3. Decorated(k)'
      BY <1>2, <3>1, <3>2, KeepsDecorated DEF Decorated
    <3>4. Filling(k)'
      BY <1>2, <3>1, <3>2, KeepsFilling
    <3>5. QED
      BY <3>3, <3>4
  <2>2. CASE k \notin DOMAIN list
    <3>1. sketch'[t] \in DOMAIN Setup /\ sketch'[t] # "none" /\ line'[t] = 2
      BY <1>2, <1>3, EntriesAre
    <3>2. QED
      BY <1>6, <2>2, <3>1, NewEntryFits
  <2>3. QED
    BY <2>1, <2>2
<1>9. QED
  BY <1>4, <1>5, <1>7, <1>8 DEF Wrapping, Entries

(* A byte that write() stores is one more of the section.                  *)
LEMMA StoreWraps ==
    ASSUME SketchesInv, NEW t \in Thread, StoreByte(t), UNCHANGED <<sketch, line, text>>
    PROVE  Wrapping'
<1>0. PICK f, b, s : f = Find(t) /\ b = <<t, stored[t] + 1, Section(t)>> /\ s = list[f].tx
  OBVIOUS
<1>1. /\ SketchesTyped /\ Lines /\ GlobalsSet /\ Hand /\ Sent /\ Inv /\ Typed /\ Owned
      /\ AllNumbered /\ DOMAIN left = Thread
  BY DEF SketchesInv, Wrapping, Inv, SketchesTyped
<1>2. /\ pc[t] = "write" /\ left' = [left EXCEPT ![t] = @ - 1] /\ left[t] > 0 /\ Len(s) < TxSize
      /\ UNCHANGED <<worker, pos, msg, sent, global, pc, sections, sketch, line>>
  BY <1>0 DEF StoreByte, Room, txVars
<1>3. StoresIn(f, b) /\ list[f].id = t
  BY <1>1, <1>0, StoreList
<1>4. /\ f \in DOMAIN list /\ b \in Byte /\ DOMAIN list' = DOMAIN list
      /\ \A k \in DOMAIN list : k # f => list'[k] = list[k]
      /\ list'[f].id = t /\ list'[f].blocked = list[f].blocked
      /\ list'[f].prefix = list[f].prefix /\ list'[f].suffix = list[f].suffix
      /\ list'[f].tx = Append(s, b)
  BY <1>3, <1>0, EntriesAre DEF StoresIn
<1>5. /\ line[t] >= 2 /\ Ready(t)
      /\ t \notin Readers => /\ Offset(t) \in {3, 4} /\ left[t] \in Nat
                             /\ left'[t] = left[t] - 1 /\ left'[t] \in Nat
  BY <1>1, <1>2 DEF Lines
<1>6. /\ Ready(t)' /\ Offset(t)' = Offset(t) /\ Readers' = Readers
  BY <1>2, <1>5, StillThere
<1>7. Lines'
  <2>1. \A u \in Thread \ {t} : left'[u] = left[u]
    BY <1>1, <1>2
  <2>2. QED
    BY <1>1, <1>2, <1>5, <2>1, StillThere DEF Lines
<1>8. GlobalsSet' /\ Sent'
  BY <1>1, <1>2, KeepsSent DEF GlobalsSet
<1>9. Hand'
  <2>1. \A k \in DOMAIN list : list'[k].id = list[k].id
    BY <1>3, <1>4
  <2>2. \A k \in DOMAIN list : Ready(list[k].id) => Ready(list[k].id)'
    BY <1>2, <2>1 DEF Ready
  <2>3. QED
    BY <1>1, <1>2, <1>4, <2>1, <2>2, KeepsHand
<1>10. ASSUME NEW k \in DOMAIN list, k # f PROVE Decorated(k)' /\ Filling(k)'
  <2>1. PICK u \in Thread : u = list[k].id
    BY EntriesAre
  <2>2. u # t
    <3>1. t \in using
      BY <1>1, <1>2 DEF Inv, WritersRegistered
    <3>2. QED
      BY <1>10, <1>0, <2>1, <3>1, EntriesAre
  <2>3. /\ Decorated(k) /\ Filling(k) /\ list'[k] = list[k] /\ left'[u] = left[u]
        /\ Ready(u)' <=> Ready(u)
        /\ Offset(u)' = Offset(u)
    BY <1>1, <1>2, <1>4, <1>10, <2>2, EntriesAre, StillThere
  <2>4. Decorated(k)'
    BY <1>2, <2>1, <2>3, KeepsDecorated DEF Decorated
  <2>5. Filling(k)'
    BY <1>2, <2>1, <2>3, KeepsFilling
  <2>6. QED
    BY <2>4, <2>5
<1>11. Decorated(f)'
  <2>1. Decorated(f)
    BY <1>4, EntriesAre
  <2>2. list'[f].id = t /\ line' = line /\ sketch' = sketch
    BY <1>2, <1>4
  <2>3. list[f].id = t
    BY <1>3
  <2>4. QED
    BY <1>4, <1>6, <2>1, <2>2, <2>3 DEF Decorated
<1>12. Filling(f)'
  <2>1. Filling(f) /\ s \in Text
    BY <1>4, <1>0, EntriesAre
  <2>2. \A p \in DOMAIN s : s[p] # b
    <3>1. ASSUME NEW p \in DOMAIN s PROVE s[p][2] # stored[t] + 1
      <4>1. s[p][1] = t /\ Numbered(s[p])
        BY <1>0, <1>1, <1>3, <1>4 DEF Owned, AllNumbered
      <4>2. s[p][2] \in 1 .. stored[t] /\ stored[t] \in Nat
        BY <1>1, <4>1 DEF Numbered, Typed
      <4>3. QED
        BY <4>2
    <3>2. QED
      BY <1>0, <3>1
  <2>3. ASSUME t \notin Readers PROVE list[f].blocked /\ b[3] = sections[t]
    <3>1. Offset(t) \in 2 .. 4
      BY <1>5, <2>3
    <3>2. list[f].blocked
      BY <1>3, <2>1, <2>3, <3>1 DEF Filling
    <3>3. QED
      BY <1>0, <3>2 DEF Section
  <2>0. PICK a : a = Append(s, b)
    OBVIOUS
  <2>4. /\ a \in Text /\ Len(a) = Len(s) + 1 /\ DOMAIN a = DOMAIN s \cup {Len(s) + 1}
        /\ a[Len(s) + 1] = b /\ \A p \in DOMAIN s : a[p] = s[p]
        /\ \A n : /\ n = b[3] => Cardinality(Part(a, n)) = Cardinality(Part(s, n)) + 1
                  /\ n # b[3] => Part(a, n) = Part(s, n)
    BY <1>4, <2>1, <2>2, <2>0, PartAppended
  <2>5. Len(s) \in Nat /\ TxSize \in Nat /\ sections'[t] = sections[t]
    BY <1>2, <2>1, TextBytes, SizeAssumption
  <2>6. ASSUME t \notin Readers
        PROVE  \/ Cardinality(Part(a, sections'[t])) = Offset(t)' - 2 - left'[t]
               \/ Len(a) >= TxSize
    <3>1. \/ Cardinality(Part(s, sections[t])) = Offset(t) - 2 - left[t]
          \/ Len(s) >= TxSize
      BY <1>0, <1>3, <2>1, <2>3, <2>6 DEF Filling
    <3>2. Cardinality(Part(s, sections[t])) = Offset(t) - 2 - left[t]
      BY <1>2, <2>5, <3>1
    <3>3. Cardinality(Part(a, sections[t])) = Cardinality(Part(s, sections[t])) + 1
      BY <2>3, <2>4, <2>6
    <3>4. left'[t] = left[t] - 1 /\ left[t] \in Nat /\ Offset(t)' = Offset(t)
          /\ Offset(t) \in {3, 4}
      BY <1>5, <1>6, <2>6
    <3>5. Cardinality(Part(a, sections[t])) = Offset(t)' - 2 - left'[t]
      BY ONLY <3>2, <3>3, <3>4
    <3>6. QED
      BY <2>5, <3>5
  <2>7. ASSUME t \notin Readers, NEW p \in DOMAIN a
        PROVE  Whole(a, a[p][3]) \/ a[p][3] = sections'[t]
    <3>1. CASE p = Len(s) + 1
      BY <2>3, <2>4, <2>5, <2>7, <3>1
    <3>2. CASE p \in DOMAIN s
      <4>1. a[p] = s[p]
        BY <2>4, <3>2
      <4>2. Whole(s, s[p][3]) \/ s[p][3] = sections[t]
        BY <1>0, <1>3, <2>1, <2>7, <3>2 DEF Filling
      <4>3. ASSUME Whole(s, s[p][3]), s[p][3] # sections[t] PROVE Whole(a, s[p][3])
        <5>1. Part(a, s[p][3]) = Part(s, s[p][3])
          BY <2>3, <2>4, <2>7, <4>3
        <5>2. QED
          BY <1>2, <2>5, <4>3, <5>1 DEF Whole
      <4>4. QED
        BY <2>5, <4>1, <4>2, <4>3
    <3>3. QED
      BY <2>4, <3>1, <3>2
  <2>8. list'[f].id = t /\ list'[f].tx = a
    BY <1>4, <2>0
  <2>9. ASSUME t \notin Readers
        PROVE  /\ list'[f].blocked <=> Offset(t)' \in 2 .. 4
               /\ \A p \in DOMAIN a : Whole(a, a[p][3])' \/ a[p][3] = sections'[t]
    <3>1. Offset(t)' \in 2 .. 4
      BY <1>5, <1>6, <2>9
    <3>2. QED
      BY <1>4, <2>3, <2>7, <2>9, <3>1 DEF Whole, Part
  <2>10. QED
    BY <1>4, <1>6, <2>3, <2>6, <2>8, <2>9 DEF Filling, Part
<1>13. QED
  BY <1>4, <1>7, <1>8, <1>9, <1>10, <1>11, <1>12 DEF Wrapping, Entries

(* write() returns when its byte is stored, or there is no room for it.    *)
LEMMA ReturnWraps ==
    ASSUME SketchesInv, NEW t \in Thread, WriteReturn(t), UNCHANGED <<sketch, line, text>>
    PROVE  Wrapping'
<1>1. /\ SketchesTyped /\ Lines /\ GlobalsSet /\ Hand /\ Sent /\ Inv
      /\ pc \in [Thread -> {"idle", "spin", "join", "write"}] /\ DOMAIN left = Thread
  BY DEF SketchesInv, Wrapping, Inv, Typed, SketchesTyped
<1>2. /\ pc[t] = "write" /\ ~Storing(t)
      /\ left' = [left EXCEPT ![t] = 0] /\ pc' = [pc EXCEPT ![t] = "idle"]
      /\ UNCHANGED <<list, worker, pos, msg, sent, global, sections, sketch, line>>
  BY DEF WriteReturn, histVars
<1>3. /\ left'[t] = 0 /\ pc'[t] = "idle"
      /\ \A u \in Thread \ {t} : left'[u] = left[u] /\ pc'[u] = pc[u]
  BY <1>1, <1>2
<1>4. Lines'
  <2>1. ASSUME NEW u \in Thread
        PROVE  /\ pc'[u] \in {"spin", "write"} => pc[u] = pc'[u]
               /\ u \notin Readers => left'[u] \in Nat /\ (pc'[u] # "write" => left'[u] = 0)
               /\ u # Main /\ line[u] # 0 => PastStart
    BY <1>1, <1>3 DEF Lines
  <2>2. QED
    BY <1>1, <1>2, <2>1, StillThere DEF Lines
<1>5. GlobalsSet' /\ Sent'
  BY <1>1, <1>2, KeepsSent DEF GlobalsSet
<1>6. Hand'
  <2>1. \A k \in DOMAIN list : Ready(list[k].id) => Ready(list[k].id)'
    BY <1>2 DEF Ready
  <2>2. QED
    BY <1>1, <1>2, <2>1, KeepsHand
<1>7. ASSUME NEW k \in DOMAIN list PROVE Decorated(k)' /\ Filling(k)'
  <2>1. PICK u \in Thread : u = list[k].id
    BY EntriesAre
  <2>2. /\ Decorated(k) /\ Filling(k) /\ list'[k] = list[k] /\ sections'[u] = sections[u]
        /\ Ready(u)' <=> Ready(u)
        /\ Offset(u)' = Offset(u) /\ Readers' = Readers
    BY <1>2, EntriesAre, StillThere
  <2>3. Decorated(k)'
    BY <1>2, <2>1, <2>2, KeepsDecorated DEF Decorated
  <2>4. CASE u # t
    <3>1. left'[u] = left[u]
      BY <1>3, <2>4
    <3>2. Filling(k)'
      BY <1>2, <2>1, <2>2, <3>1, KeepsFilling
    <3>3. QED
      BY <2>3, <3>2
  <2>5. CASE u = t
    <3>1. k = Find(t)
      <4>1. t \in using
        BY <1>1, <1>2 DEF Inv, WritersRegistered
      <4>2. QED
        BY <2>1, <2>5, <4>1, EntriesAre
    <3>2. Len(list[k].tx) \in Nat /\ TxSize \in Nat
      BY EntriesAre, TextBytes, SizeAssumption
    <3>3. ASSUME t \notin Readers PROVE left[t] = 0 \/ Len(list[k].tx) >= TxSize
      <4>1. left[t] \in Nat
        BY <1>1, <3>3 DEF Lines
      <4>2. ~(left[t] > 0) \/ ~(Len(list[k].tx) < TxSize)
        BY <1>2, <3>1 DEF Storing, Room
      <4>3. QED
        BY <3>2, <4>1, <4>2
    <3>4. CASE t \in Readers
      BY <2>1, <2>2, <2>3, <2>5, <3>4 DEF Filling
    <3>5. CASE t \notin Readers /\ left[t] = 0
      <4>1. left'[t] = left[t]
        BY <1>3, <3>5
      <4>2. Filling(k)'
        BY <1>2, <2>1, <2>2, <2>5, <4>1, KeepsFilling
      <4>3. QED
        BY <2>3, <4>2
    <3>6. CASE t \notin Readers /\ Len(list[k].tx) >= TxSize
      <4>1. \A p \in DOMAIN list[k].tx : Whole(list[k].tx, list[k].tx[p][3])'
        BY <2>2, <3>6 DEF Whole
      <4>2. Filling(k)'
        BY <2>1, <2>2, <2>5, <3>6, <4>1 DEF Filling
      <4>3. QED
        BY <2>3, <4>2
    <3>7. QED
      BY <3>3, <3>4, <3>5, <3>6
  <2>6. QED
    BY <2>4, <2>5
<1>8. QED
  BY <1>2, <1>4, <1>5, <1>6, <1>7 DEF Wrapping, Entries

(* What the worker does and the bytes that arrive leave all sketches where *)
(* they are.                                                               *)
LEMMA StillWraps ==
    ASSUME SketchesInv, UNCHANGED <<sketch, line, pc, left, sections, global>>,
           DOMAIN list' = DOMAIN list,
           \A k \in DOMAIN list :
              \/ list'[k] = list[k]
              \/ /\ list'[k].id = list[k].id /\ list'[k].prefix = list[k].prefix
                 /\ list'[k].suffix = list[k].suffix
                 /\ ~list[k].blocked /\ ~list'[k].blocked /\ list'[k].tx = <<>>
    PROVE  Lines' /\ GlobalsSet' /\ Entries'
<1>1. SketchesTyped /\ Lines /\ GlobalsSet
  BY DEF SketchesInv, Wrapping
<1>2. Lines' /\ GlobalsSet'
  BY <1>1, StillThere DEF Lines, GlobalsSet
<1>3. ASSUME NEW k \in DOMAIN list PROVE Decorated(k)' /\ Filling(k)'
  <2>1. PICK u \in Thread : u = list[k].id
    BY EntriesAre
  <2>2. /\ Decorated(k) /\ Filling(k)
        /\ Ready(u)' <=> Ready(u)
        /\ Offset(u)' = Offset(u) /\ Readers' = Readers
    BY EntriesAre, StillThere
  <2>3. CASE list'[k] = list[k]
    <3>1. Decorated(k)'
      BY <2>1, <2>2, <2>3, KeepsDecorated DEF Decorated
    <3>2. Filling(k)'
      BY <2>1, <2>2, <2>3, KeepsFilling
    <3>3. QED
      BY <3>1, <3>2
  <2>4. CASE /\ list'[k].id = list[k].id /\ list'[k].prefix = list[k].prefix
             /\ list'[k].suffix = list[k].suffix
             /\ ~list[k].blocked /\ ~list'[k].blocked /\ list'[k].tx = <<>>
    <3>1. Decorated(k)'
      BY <2>1, <2>2, <2>4 DEF Decorated
    <3>2. DOMAIN <<>> = {}
      OBVIOUS
    <3>3. u \notin Readers => Offset(u) \notin 2 .. 4
      BY <2>1, <2>2, <2>4 DEF Filling
    <3>4. Filling(k)'
      BY <2>1, <2>2, <2>4, <3>2, <3>3 DEF Filling
    <3>5. QED
      BY <3>1, <3>4
  <2>5. QED
    BY <2>3, <2>4
<1>4. QED
  BY <1>2, <1>3 DEF Entries

(* The worker takes whole sections of one sketch that is ready.            *)
LEMMA TakeWraps ==
    ASSUME SketchesInv, WorkerTake, UNCHANGED <<sketch, line, text>>
    PROVE  Wrapping'
<1>1. /\ SketchesTyped /\ GlobalsSet /\ Sent /\ Inv /\ Owned
      /\ worker' = "prefix" /\ UNCHANGED <<sent, sketch, line, pc, left, sections, global>>
  BY DEF SketchesInv, Wrapping, Inv, WorkerTake, WorkerGoto, OthersUnchanged, callVars, histVars
<1>2. PICK k : k = pos' /\ TakesFrom(k)
  BY <1>1, TakeList
<1>3. /\ k \in DOMAIN list /\ ~list[k].blocked /\ list[k].tx # <<>>
      /\ DOMAIN list' = DOMAIN list
      /\ list'[k].id = list[k].id /\ list'[k].prefix = list[k].prefix
      /\ list'[k].suffix = list[k].suffix /\ ~list'[k].blocked /\ list'[k].tx = <<>>
      /\ \A j \in DOMAIN list : j # k => list'[j] = list[j]
      /\ msg'.text = list[k].tx /\ msg'.prefix = Chosen("prefix")
  BY <1>2 DEF TakesFrom
<1>4. Lines' /\ GlobalsSet' /\ Entries'
  BY <1>1, <1>3, StillWraps
<1>5. PICK u \in Thread, s \in Text : u = list[k].id /\ s = list[k].tx
  BY <1>3, EntriesAre
<1>6. Decorated(k) /\ Filling(k) /\ Ready(u) /\ Readers' = Readers
  BY <1>1, <1>3, <1>5, EntriesAre, StillThere DEF Decorated
<1>7. 1 \in DOMAIN s /\ \A p \in DOMAIN s : s[p][1] = u
  <2>1. Len(s) \in Nat /\ DOMAIN s = 1 .. Len(s) /\ s \in Seq(Byte)
    BY TextBytes DEF Text
  <2>2. Len(s) # 0
    BY <1>3, <1>5, <2>1, EmptySeq
  <2>3. QED
    BY <1>1, <1>3, <1>5, <2>1, <2>2 DEF Owned
<1>8. ASSUME s[1][1] \notin Readers, NEW p \in DOMAIN s PROVE Whole(s, s[p][3])
  BY <1>3, <1>5, <1>6, <1>7, <1>8 DEF Filling
<1>9. OfOne(s)'
  BY <1>3, <1>5, <1>6, <1>7, <1>8 DEF OfOne, Whole, Part
<1>10. msg'.prefix = By(u)
  <2>1. /\ list[k].prefix <=> sketch[u] = "gps"
        /\ global.prefix <=> sketch[Main] = "log"
    BY <1>1, <1>5, <1>6, EntriesAre DEF Decorated, Ready, GlobalsSet
  <2>2. QED
    BY <1>2, <1>3, <2>1 DEF Chosen, By
<1>11. Hand'
  <2>1. Ready(u)' /\ By(u)' = By(u)
    BY <1>1, <1>6, StillThere DEF By
  <2>2. /\ pos' \in DOMAIN list' /\ list'[pos'].id = u /\ msg'.text = s /\ s[1][1] = u
    BY <1>2, <1>3, <1>5, <1>7
  <2>3. QED
    BY <1>1, <1>9, <1>10, <2>1, <2>2 DEF Hand, OfOne, Ready, By
<1>12. Sent'
  BY <1>1, KeepsSent
<1>13. QED
  BY <1>4, <1>11, <1>12 DEF Wrapping

(* The suffix is of the same kind as the prefix, and the port gets both.   *)
LEMMA WorkerWraps ==
    ASSUME SketchesInv, WorkerStep, UNCHANGED <<sketch, line, text>>
    PROVE  Wrapping'
<1>1. /\ SketchesTyped /\ Lines /\ GlobalsSet /\ Hand /\ Sent /\ Inv
      /\ msg \in Message /\ sent \in Seq(Message)
  BY DEF SketchesInv, Wrapping, Inv, Typed
<1>2. CASE WorkerTake
  BY <1>2, TakeWraps
<1>3. CASE WorkerStart \/ WorkerWait \/ WorkerDone
  <2>1. /\ worker' \in {"wait", "iterate"}
        /\ UNCHANGED <<list, sent, sketch, line, pc, left, sections, global>>
    BY <1>3 DEF WorkerStart, WorkerWait, WorkerDone, WorkerGoto, OthersUnchanged, callVars, histVars
  <2>2. Hand' /\ Sent'
    BY <1>1, <2>1, KeepsSent DEF Hand
  <2>3. QED
    BY <2>1, <2>2, StillWraps DEF Wrapping
<1>4. CASE WorkerSuffix
  <2>1. /\ worker = "prefix" /\ worker' = "write" /\ pos' = pos
        /\ msg' = [msg EXCEPT !.suffix = Chosen("suffix")]
        /\ UNCHANGED <<list, sent, sketch, line, pc, left, sections, global>>
    BY <1>4 DEF WorkerSuffix, WorkerGoto, OthersUnchanged, callVars, histVars
  <2>2. /\ pos \in DOMAIN list /\ OfOne(msg.text) /\ list[pos].id = msg.text[1][1]
        /\ Ready(list[pos].id) /\ msg.prefix = By(list[pos].id)
    BY <1>1, <2>1 DEF Hand
  <2>3. PICK u \in Thread : u = list[pos].id
    BY <2>2, EntriesAre
  <2>4. Chosen("suffix") = By(u)
    <3>1. /\ list[pos].suffix <=> sketch[u] = "gps"
          /\ global.suffix <=> sketch[Main] = "log"
      BY <1>1, <2>2, <2>3, EntriesAre DEF Decorated, Ready, GlobalsSet
    <3>2. QED
      BY <2>1, <3>1 DEF Chosen, By
  <2>5. msg'.text = msg.text /\ msg'.prefix = By(u) /\ msg'.suffix = By(u)
    BY <1>1, <2>1, <2>2, <2>3, <2>4 DEF Message
  <2>6. OfOne(msg.text)' /\ By(u)' = By(u) /\ msg'.text[1][1] = u
    BY <2>1, <2>2, <2>3, <2>5 DEF OfOne, Whole, Part, Readers, By
  <2>7. Hand' /\ Sent'
    BY <1>1, <2>1, <2>5, <2>6, KeepsSent DEF Hand, By
  <2>8. QED
    BY <2>1, <2>7, StillWraps DEF Wrapping
<1>5. CASE WorkerWrite
  <2>1. /\ worker = "write" /\ worker' = "iterate" /\ sent' = Append(sent, msg)
        /\ UNCHANGED <<list, sketch, line, pc, left, sections, global>>
    BY <1>5 DEF WorkerWrite, WorkerGoto, OthersUnchanged, callVars, histVars
  <2>2. OfOne(msg.text) /\ msg.prefix = By(msg.text[1][1]) /\ msg.suffix = By(msg.text[1][1])
    BY <1>1, <2>1 DEF Hand
  <2>3. /\ DOMAIN sent = 1 .. Len(sent) /\ Len(sent) \in Nat
        /\ DOMAIN sent' = 1 .. Len(sent) + 1
        /\ sent'[Len(sent) + 1] = msg /\ \A i \in DOMAIN sent : sent'[i] = sent[i]
    <3>1. /\ sent' \in Seq(Message) /\ Len(sent') = Len(sent) + 1
          /\ sent'[Len(sent) + 1] = msg /\ \A i \in 1 .. Len(sent) : sent'[i] = sent[i]
      BY <1>1, <2>1, AppendProperties
    <3>2. QED
      BY <1>1, <3>1, LenProperties
  <2>4. ASSUME NEW i \in DOMAIN sent', NEW m, m = sent'[i]
        PROVE  /\ OfOne(m.text)'
               /\ m.prefix = By(m.text[1][1])' /\ m.suffix = By(m.text[1][1])'
    <3>1. i = Len(sent) + 1 =>
            OfOne(m.text) /\ m.prefix = By(m.text[1][1]) /\ m.suffix = By(m.text[1][1])
      BY <2>2, <2>3, <2>4
    <3>2. i \in DOMAIN sent =>
            OfOne(m.text) /\ m.prefix = By(m.text[1][1]) /\ m.suffix = By(m.text[1][1])
      BY <1>1, <2>3, <2>4 DEF Sent
    <3>3. OfOne(m.text) /\ m.prefix = By(m.text[1][1]) /\ m.suffix = By(m.text[1][1])
      BY <2>3, <3>1, <3>2
    <3>4. QED
      BY <2>1, <3>3 DEF OfOne, Whole, Part, Readers, By
  <2>5. Sent'
    BY <2>4 DEF Sent, OfOne, Whole, Part, Readers, By
  <2>6. Hand'
    BY <2>1 DEF Hand
  <2>7. QED
    BY <2>1, <2>5, <2>6, StillWraps DEF Wrapping
<1>6. QED
  BY <1>2, <1>3, <1>4, <1>5 DEF WorkerStep

(* Bytes that arrive change nothing of this.                               *)
LEMMA ArriveWraps ==
    ASSUME SketchesInv, UNCHANGED <<list, worker, pos, msg, sent, global>>,
           UNCHANGED <<pc, left, sections, sketch, line>>
    PROVE  Wrapping'
<1>1. Hand /\ Sent
  BY DEF SketchesInv, Wrapping
<1>2. \A k \in DOMAIN list : Ready(list[k].id) => Ready(list[k].id)'
  BY DEF Ready
<1>3. Hand' /\ Sent'
  BY <1>1, <1>2, KeepsHand, KeepsSent
<1>4. Lines' /\ GlobalsSet' /\ Entries'
  BY StillWraps
<1>5. QED
  BY <1>3, <1>4 DEF Wrapping
-----------------------------------------------------------------------------
(* No step changes the project or leaves the types.                        *)
LEMMA LineTyped ==
    ASSUME SketchesTyped, NEW t \in Thread, SketchStep(t)
    PROVE  line' \in [Thread -> Nat] /\ sketch' = sketch
<1>1. line \in [Thread -> Nat]
  BY DEF SketchesTyped
<1>2. ASSUME NEW op, Runs(t, op) PROVE line' \in [Thread -> Nat] /\ sketch' = sketch
  BY <1>1, <1>2, AtSteps DEF Runs
<1>3. CASE SketchStart(t)
  BY <1>3, AtSteps DEF SketchStart
<1>4. CASE ReaderAvailable(t) \/ ReaderRead(t) \/ ReaderPrint(t)
  BY <1>1, <1>4, ReaderMoves
<1>5. CASE SketchBegin(t) \/ SketchDecorate(t) \/ SketchBlock(t) \/ SketchPrint(t)
           \/ SketchUnblock(t)
  BY <1>2, <1>5 DEF SketchBegin, SketchDecorate, SketchBlock, SketchPrint, SketchUnblock
<1>6. QED
  BY <1>3, <1>4, <1>5 DEF SketchStep

LEMMA SketchesStayTyped ==
    ASSUME SketchesInv, [SketchesNext]_sketchVars
    PROVE  SketchesTyped'
<1>1. SketchesTyped /\ ended' = {}
  BY SketchesKeepInv DEF SketchesInv, SketchesTyped
<1>2. line' \in [Thread -> Nat] /\ sketch' = sketch
  <2>1. CASE UNCHANGED <<sketch, line>>
    BY <1>1, <2>1 DEF SketchesTyped
  <2>2. CASE \E t \in Thread : SketchStep(t)
    BY <1>1, <2>2, LineTyped
  <2>3. QED
    BY <2>1, <2>2 DEF SketchesNext, SketchCall, sketchVars
<1>3. DOMAIN left' = Thread /\ global' \in [prefix : BOOLEAN, suffix : BOOLEAN]
  <2>1. CASE UNCHANGED <<left, global>>
    BY <1>1, <2>1 DEF SketchesTyped
  <2>2. ASSUME NEW t \in Thread, SetGlobalPrefix(t) \/ SetGlobalSuffix(t)
        PROVE  DOMAIN left' = Thread /\ global' \in [prefix : BOOLEAN, suffix : BOOLEAN]
    <3>1. global \in [prefix : BOOLEAN, suffix : BOOLEAN] /\ DOMAIN left = Thread
      BY <1>1 DEF SketchesTyped
    <3>2. /\ left' = left
          /\ \/ global' = [global EXCEPT !.prefix = TRUE]
             \/ global' = [global EXCEPT !.suffix = TRUE]
      BY <2>2 DEF SetGlobalPrefix, SetGlobalSuffix, SetGlobal, callVars
    <3>3. QED
      BY <3>1, <3>2
  <2>3. ASSUME NEW t \in Thread, CallStep(t) \/ \E len : WriteCall(t, len)
        PROVE  DOMAIN left' = Thread /\ global' \in [prefix : BOOLEAN, suffix : BOOLEAN]
    BY <1>1, <2>3 DEF SketchesTyped, CallStep, BeginStarted, StoreByte, WriteReturn, WriteCall
  <2>4. ASSUME NEW t \in Thread, SketchStep(t)
        PROVE  DOMAIN left' = Thread /\ global' \in [prefix : BOOLEAN, suffix : BOOLEAN]
    <3>1. CASE SketchBegin(t)
      BY <2>1, <3>1 DEF SketchBegin, BeginFirst, BeginNext, callVars
    <3>2. CASE SketchStart(t)
      BY <2>1, <3>2 DEF SketchStart, vars, callVars
    <3>3. CASE SketchDecorate(t)
      BY <2>1, <2>2, <3>3 DEF SketchDecorate, SetPrefix, SetSuffix, SetOwn, callVars
    <3>4. CASE SketchBlock(t) \/ SketchUnblock(t)
      BY <2>1, <3>4 DEF SketchBlock, SketchUnblock, Block, Unblock, callVars
    <3>5. CASE SketchPrint(t) \/ ReaderPrint(t)
      BY <2>3, <3>5 DEF SketchPrint, ReaderPrint
    <3>6. CASE ReaderAvailable(t) \/ ReaderRead(t)
      BY <2>1, <3>6 DEF ReaderAvailable, ReaderRead, Look, Read, Receive, callVars
    <3>7. QED
      BY <2>4, <3>1, <3>2, <3>3, <3>4, <3>5, <3>6 DEF SketchStep
  <2>5. CASE WorkerStep \/ Arrive
    BY <2>1, <2>5 DEF WorkerStep, WorkerStart, WorkerWait, WorkerTake, WorkerSuffix, WorkerWrite,
                      WorkerDone, OthersUnchanged, Arrive, callVars
  <2>6. CASE UNCHANGED sketchVars
    BY <2>1, <2>6 DEF sketchVars, vars, callVars
  <2>7. QED
    BY <2>3, <2>4, <2>5, <2>6 DEF SketchesNext, SketchCall
<1>4. QED
  BY <1>1, <1>2, <1>3 DEF SketchesTyped

(* The sketches begin with nothing in the list and nothing sent.           *)
LEMMA InitWraps == SketchesInit => SketchesInv
<1> SUFFICES ASSUME SketchesInit PROVE SketchesInv
  OBVIOUS
<1>1. /\ Init /\ sketch \in Projects /\ Main \in Thread
      /\ line = [t \in Thread |-> IF t = Main THEN 1 ELSE 0]
  BY ProjectsAssumption DEF SketchesInit
<1>2. Inv
  BY <1>1, InitInv
<1>3. SketchesTyped
  BY <1>1 DEF Init, SketchesTyped
<1>4. Lines /\ GlobalsSet /\ Hand
  BY <1>1 DEF Init, Lines, GlobalsSet, Hand
<1>5. Entries /\ Sent
  BY <1>1 DEF Init, Entries, Sent
<1>6. QED
  BY <1>2, <1>3, <1>4, <1>5 DEF SketchesInv, Wrapping

(* Every call of every sketch, and what the worker does between them.      *)
LEMMA NextWraps == SketchesInv /\ [SketchesNext]_sketchVars => SketchesInv'
<1> SUFFICES ASSUME SketchesInv, [SketchesNext]_sketchVars PROVE SketchesInv'
  OBVIOUS
<1>1. Inv' /\ SketchesTyped'
  BY SketchesKeepInv, SketchesStayTyped DEF SketchesInv, SketchesTyped
<1>2. ASSUME NEW t \in Thread, SketchStep(t) PROVE Wrapping'
  <2>1. SketchDecorate(t) => Wrapping'
    BY GlobalWraps, OwnWraps DEF SketchDecorate
  <2>2. QED
    BY <1>2, <2>1, BeginWraps, StartWraps, BlockWraps, PrintWraps, UnblockWraps, ReaderWraps
       DEF SketchStep
<1>3. ASSUME NEW t \in Thread, SketchCall(t) PROVE Wrapping'
  BY <1>3, StartedWraps, StoreWraps, ReturnWraps DEF SketchCall, CallStep
<1>4. ASSUME WorkerStep, UNCHANGED <<sketch, line, text>> PROVE Wrapping'
  BY <1>4, WorkerWraps
<1>5. ASSUME Arrive, UNCHANGED <<calls, sketch, line, text>> PROVE Wrapping'
  BY <1>5, ArriveWraps DEF Arrive, txVars, callVars, histVars
<1>6. ASSUME UNCHANGED sketchVars PROVE Wrapping'
  BY <1>6, ArriveWraps DEF sketchVars, vars, txVars, callVars, histVars
<1>7. QED
  BY <1>1, <1>2, <1>3, <1>4, <1>5, <1>6 DEF SketchesInv, SketchesNext

(* The inductive invariant of the sketches on the port.                    *)
THEOREM SketchesInvariance == SketchesSpec => []SketchesInv
<1>1. QED
  BY InitWraps, NextWraps, PTL DEF SketchesSpec
-----------------------------------------------------------------------------
(* A text that is in order has no byte twice.                              *)
LEMMA BytesDiffer ==
    ASSUME NEW s \in Text, InOrder(s)
    PROVE  Cardinality(ToSet(s)) = Len(s)
<1>1. Len(s) \in Nat /\ DOMAIN s = 1 .. Len(s) /\ \A p \in DOMAIN s : s[p][2] \in Nat
  BY TextBytes
<1>2. /\ s \in Surjection(1 .. Len(s), ToSet(s))
      /\ IsFiniteSet(1 .. Len(s)) /\ Cardinality(1 .. Len(s)) = Len(s)
  BY TextOnto
<1>3. \A p, q \in 1 .. Len(s) : p # q => s[p] # s[q]
  <2>1. ASSUME NEW p \in 1 .. Len(s), NEW q \in 1 .. Len(s), p < q PROVE s[p] # s[q]
    <3>1. s[p][1] = s[q][1] => s[p][2] < s[q][2]
      BY <1>1, <2>1 DEF InOrder, Precedes
    <3>2. QED
      BY <1>1, <3>1
  <2>2. \A p, q \in 1 .. Len(s) : p # q => p < q \/ q < p
    BY <1>1
  <2>3. QED
    BY <2>1, <2>2
<1>4. s \in Injection(1 .. Len(s), ToSet(s))
  BY <1>1, <1>2, <1>3 DEF Injection, IsInjective, Surjection
<1>5. QED
  BY <1>2, <1>4, FS_Surjection

(* Every message on the port holds whole sections of one sketch, unless    *)
(* its ring was full.                                                      *)
THEOREM SectionsPrintedWhole == SketchesSpec => []MessagesWhole
<1>1. ASSUME SketchesInv PROVE MessagesWhole
  <2>1. ASSUME NEW i \in DOMAIN sent, NEW s, s = sent[i].text, NEW b \in ToSet(s)
        PROVE  /\ \A c \in ToSet(s) : c[1] = b[1]
               /\ Cardinality(ToSet(s)) < TxSize /\ b[1] \notin Readers
                    => Cardinality({c \in ToSet(s) : c[3] = b[3]}) = 2
    <3>1. Typed /\ Ordered /\ Sent
      BY <1>1 DEF SketchesInv, SketchesTyped, Wrapping, Inv
    <3>2. s \in Text /\ InOrder(s)
      <4>1. DOMAIN sent = 1 .. Len(sent) /\ sent[i] \in Message
        BY <3>1, LenProperties, ElementOfSeq DEF Typed
      <4>2. Texts[i] = s /\ i \in DOMAIN Texts
        BY <2>1, <3>1, <4>1, Shapes
      <4>3. QED
        BY <2>1, <3>1, <4>1, <4>2 DEF Ordered, Message
    <3>3. PICK p \in DOMAIN s : s[p] = b
      BY DEF ToSet
    <3>4. \A q \in DOMAIN s : /\ s[q][1] = s[1][1]
                              /\ s[1][1] \notin Readers => Whole(s, s[q][3])
      BY <2>1, <3>1 DEF Sent, OfOne
    <3>5. \A c \in ToSet(s) : c[1] = b[1]
      BY <3>3, <3>4 DEF ToSet
    <3>6. ASSUME Cardinality(ToSet(s)) < TxSize, b[1] \notin Readers
          PROVE  Cardinality({c \in ToSet(s) : c[3] = b[3]}) = 2
      <4>1. Len(s) \in Nat /\ TxSize \in Nat /\ Len(s) < TxSize
        BY <3>2, <3>6, BytesDiffer, TextBytes, SizeAssumption
      <4>2. Whole(s, b[3])
        BY <3>3, <3>4, <3>6
      <4>3. QED
        BY <4>1, <4>2 DEF Whole, Part
    <3>7. QED
      BY <3>5, <3>6
  <2>2. QED
    BY <2>1 DEF MessagesWhole
<1>2. QED
  BY <1>1, SketchesInvariance, PTL

(* Every message has the prefix and the suffix of its sketch, the first    *)
(* one too.                                                                *)
THEOREM MessagesWrapped == SketchesSpec => []Wrapped
<1>1. ASSUME SketchesInv PROVE Wrapped
  <2>1. Sent
    BY <1>1 DEF SketchesInv, Wrapping
  <2>2. QED
    BY <2>1 DEF Sent, Wrapped, By
<1>2. QED
  BY <1>1, SketchesInvariance, PTL

(* The sketches also preserve what the readers have seen: prefix() and     *)
(* suffix(), which the module of the port does not call, keep the rings.   *)
LEMMA SketchesKeepRx ==
    ASSUME Inv, RxInv, [SketchesNext]_sketchVars
    PROVE  RxInv'
<1>1. ASSUME UNCHANGED vars PROVE RxInv'
  BY <1>1, NextRx
<1>2. ASSUME NEW t \in Thread, SetGlobalPrefix(t) \/ SetGlobalSuffix(t) PROVE RxInv'
  <2>1. RingsKept
    BY <1>2 DEF SetGlobalPrefix, SetGlobalSuffix, SetGlobal, RingsKept
  <2>2. QED
    BY <1>2, <2>1, RingsRx DEF SetGlobalPrefix, SetGlobalSuffix, SetGlobal, rxVars, histVars
<1>3. ASSUME NEW t \in Thread, SetPrefix(t) \/ SetSuffix(t) PROVE RxInv'
  <2>1. PICK e : list' = [list EXCEPT ![Find(t)] = e] /\ e.id = t /\ e.rx = list[Find(t)].rx
    <3>1. list[Find(t)] \in Entry /\ list[Find(t)].id = t
      BY <1>3, UserFinds DEF SetPrefix, SetSuffix, SetOwn, UserCalls
    <3>2. PICK e : /\ list' = [list EXCEPT ![Find(t)] = e]
                   /\ \/ e = [list[Find(t)] EXCEPT !.prefix = TRUE]
                      \/ e = [list[Find(t)] EXCEPT !.suffix = TRUE]
      BY <1>3 DEF SetPrefix, SetSuffix, SetOwn
    <3>3. e.id = t /\ e.rx = list[Find(t)].rx
      BY <3>1, <3>2 DEF Entry
    <3>4. QED
      BY <3>2, <3>3
  <2>2. Find(t) \in DOMAIN list /\ list[Find(t)].id = t
    BY <1>3, UserFinds, Shapes DEF SetPrefix, SetSuffix, SetOwn, UserCalls, Inv
  <2>3. RingsKept
    BY <2>1, <2>2 DEF RingsKept
  <2>4. QED
    BY <1>3, <2>3, RingsRx DEF SetPrefix, SetSuffix, SetOwn, rxVars, histVars
<1>4. ASSUME NEW t \in Thread, SketchStep(t) PROVE RxInv'
  <2>1. CASE SketchBegin(t) \/ SketchBlock(t) \/ SketchPrint(t) \/ SketchUnblock(t)
    BY <2>1, CallsRx DEF SketchBegin, SketchBlock, SketchPrint, SketchUnblock, Begin
  <2>2. CASE SketchStart(t)
    BY <1>1, <2>2 DEF SketchStart
  <2>3. CASE SketchDecorate(t)
    BY <1>2, <1>3, <2>3 DEF SketchDecorate
  <2>4. CASE ReaderAvailable(t) \/ ReaderRead(t) \/ ReaderPrint(t)
    BY <2>4, CallsRx DEF ReaderAvailable, ReaderRead, ReaderPrint
  <2>5. QED
    BY <1>4, <2>1, <2>2, <2>3, <2>4 DEF SketchStep
<1>5. ASSUME NEW t \in Thread, SketchCall(t) PROVE RxInv'
  BY <1>5, CallsRx DEF SketchCall
<1>6. CASE WorkerStep
  BY <1>6, WorkerRx
<1>7. CASE Arrive
  <2>1. Main \in Thread
    BY ProjectsAssumption
  <2>2. QED
    BY <1>7, <2>1, CallsRx
<1>8. CASE UNCHANGED sketchVars
  BY <1>1, <1>8 DEF sketchVars
<1>9. QED
  BY <1>4, <1>5, <1>6, <1>7, <1>8 DEF SketchesNext

(* What the port promises it keeps under these sketches, their calls of    *)
(* prefix() and suffix() included: entries, bytes, their order, sections,  *)
(* and what the readers see.                                               *)
THEOREM PortKeptBySketches ==
    SketchesSpec => [](/\ UsersRegistered /\ NothingLost /\ StreamKept /\ BlockedTogether
                       /\ EveryReaderSees)
<1>1. SketchesInit => SketchesInv /\ RxInv
  BY InitWraps, InitRx DEF SketchesInit
<1>2. SketchesInv /\ RxInv /\ [SketchesNext]_sketchVars => SketchesInv' /\ RxInv'
  BY NextWraps, SketchesKeepRx DEF SketchesInv
<1>3. SketchesInv /\ RxInv =>
        UsersRegistered /\ NothingLost /\ StreamKept /\ BlockedTogether /\ EveryReaderSees
  BY StreamOfInv, SectionsOfInv, SeenOfInv DEF SketchesInv, Inv
<1>4. QED
  BY <1>1, <1>2, <1>3, PTL DEF SketchesSpec

(* Their steps are also steps of SerialPort: the prefix and suffix calls   *)
(* are not seen by it.                                                     *)
LEMMA SketchesPort ==
    ASSUME Inv, Inv', PortInv, ended = {}, [SketchesNext]_sketchVars
    PROVE  PortInv' /\ [Port!Next]_Port!vars
<1>1. ASSUME UNCHANGED vars PROVE PortInv' /\ [Port!Next]_Port!vars
  BY <1>1, PortStep
<1>2. ASSUME NEW t \in Thread, SetGlobalPrefix(t) \/ SetGlobalSuffix(t)
      PROVE  PortInv' /\ [Port!Next]_Port!vars
  <2>1. UNCHANGED <<list, stored, sent, ended, msg, worker>>
    BY <1>2 DEF SetGlobalPrefix, SetGlobalSuffix, SetGlobal, txVars, histVars
  <2>2. QED
    BY <2>1, ListPort
<1>3. ASSUME NEW t \in Thread, SetPrefix(t) \/ SetSuffix(t)
      PROVE  PortInv' /\ [Port!Next]_Port!vars
  <2>1. PICK e : /\ list' = [list EXCEPT ![Find(t)] = e]
                 /\ e.id = t /\ e.tx = list[Find(t)].tx /\ e.blocked = list[Find(t)].blocked
    <3>1. list[Find(t)] \in Entry /\ list[Find(t)].id = t
      BY <1>3, UserFinds DEF SetPrefix, SetSuffix, SetOwn, UserCalls
    <3>2. PICK e : /\ list' = [list EXCEPT ![Find(t)] = e]
                   /\ \/ e = [list[Find(t)] EXCEPT !.prefix = TRUE]
                      \/ e = [list[Find(t)] EXCEPT !.suffix = TRUE]
      BY <1>3 DEF SetPrefix, SetSuffix, SetOwn
    <3>3. e.id = t /\ e.tx = list[Find(t)].tx /\ e.blocked = list[Find(t)].blocked
      BY <3>1, <3>2 DEF Entry
    <3>4. QED
      BY <3>2, <3>3
  <2>2. Find(t) \in DOMAIN list /\ list[Find(t)].id = t
    BY <1>3, UserFinds, Shapes DEF SetPrefix, SetSuffix, SetOwn, UserCalls, Inv
  <2>3. UNCHANGED <<stored, sent, ended, msg, worker>>
    BY <1>3 DEF SetPrefix, SetSuffix, SetOwn, txVars, histVars
  <2>4. PortKept /\ \A k \in DOMAIN list : list'[k].blocked = list[k].blocked
    BY <2>1, <2>2, <2>3 DEF PortKept
  <2>5. QED
    BY <2>4, PortSleeps
<1>4. ASSUME NEW t \in Thread, SketchStep(t) PROVE PortInv' /\ [Port!Next]_Port!vars
  <2>1. CASE SketchBegin(t) \/ SketchPrint(t) \/ ReaderAvailable(t) \/ ReaderRead(t)
             \/ ReaderPrint(t)
    BY <2>1, CallsPort DEF SketchBegin, SketchPrint, ReaderAvailable, ReaderRead, ReaderPrint
  <2>2. CASE SketchStart(t)
    BY <1>1, <2>2 DEF SketchStart
  <2>3. CASE SketchDecorate(t)
    BY <1>2, <1>3, <2>3 DEF SketchDecorate
  <2>4. CASE SketchBlock(t) \/ SketchUnblock(t)
    BY <2>4, BlockPort DEF SketchBlock, SketchUnblock
  <2>5. QED
    BY <1>4, <2>1, <2>2, <2>3, <2>4 DEF SketchStep
<1>5. ASSUME NEW t \in Thread, SketchCall(t) PROVE PortInv' /\ [Port!Next]_Port!vars
  BY <1>5, CallsPort, StorePort DEF SketchCall, CallStep
<1>6. CASE WorkerStep \/ Arrive
  BY <1>6, TakePort, WritePort, WorkerPort DEF WorkerStep
<1>7. CASE UNCHANGED sketchVars
  BY <1>1, <1>7 DEF sketchVars
<1>8. QED
  BY <1>4, <1>5, <1>6, <1>7 DEF SketchesNext

(* With these sketches, none of which calls end(), every message is what   *)
(* one sketch has printed since its last one, whole and in order.          *)
THEOREM SketchesPortRefinement == SketchesSpec => RefinesPort
<1>1. SketchesInit => SketchesInv /\ PortInv /\ Port!Init
  BY InitWraps, InitPort DEF SketchesInit
<1>2. SketchesInv /\ PortInv /\ [SketchesNext]_sketchVars =>
        SketchesInv' /\ PortInv' /\ [Port!Next]_Port!vars
  BY NextWraps, SketchesPort DEF SketchesInv, SketchesTyped
<1>3. QED
  BY <1>1, <1>2, PTL DEF SketchesSpec, RefinesPort, Port!Spec
=============================================================================
