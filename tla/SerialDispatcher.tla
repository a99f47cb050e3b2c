-------------------------- MODULE SerialDispatcher --------------------------
(***************************************************************************)
(* io/serial/SerialDispatcher.cpp: one serial port shared by threads.      *)
(* Each thread that has called begin() owns an entry of the list; a write  *)
(* fills the ring in it, and the worker thread turns whatever a ring holds *)
(* into one message for the port, between the prefix and the suffix of the *)
(* thread or else the global ones.  Bytes that arrive at the port are      *)
(* copied into the receive ring of every thread that reads.                *)
(*                                                                         *)
(* All calls hold _mutex, so those without a loop that the worker could    *)
(* see are one step; write() stores byte by byte.  The worker takes no     *)
(* lock, but it has the highest priority: once it runs, the sketches stand *)
(* still until it waits for a flag, in a callback or in the port's write().*)
(*                                                                         *)
(* The rings are those of the Arduino core, taken as bounded queues.  The  *)
(* n-th byte a ring accepts from thread t is <<t, n, s>>, where s numbers  *)
(* the blocked section it was written in, or is 0 outside one.  Of a       *)
(* prefix or suffix function the model keeps whose it is.  No byte is 0,   *)
(* which would end the message for the port.                               *)
(*                                                                         *)
(* Next makes every call but those that set a prefix or a suffix: these    *)
(* are made by the sketches of the module SerialSketches.                  *)
(***************************************************************************)
EXTENDS Integers, Sequences, FiniteSets, SequencesExt

CONSTANTS Thread,
          TxSize,       \* THREADSAFE_SERIAL_TRANSMIT_RINGBUFFER_SIZE
          RxSize,       \* the size of an arduino::RingBuffer
          FlagBits,     \* the number of bits in ALL_EVENT_FLAGS
          NoThread, NoBuffer,
          MaxLen,       \* bound on the bytes of one write()
          MaxCalls,     \* bound on the calls other than begin() and the bytes that arrive
          MaxEnds       \* bound on the threads that call end(), once each

ASSUME SizeAssumption == TxSize \in Nat \ {0} /\ RxSize \in Nat \ {0} /\ FlagBits \in Nat
ASSUME BoundAssumption == MaxLen \in Nat /\ MaxCalls \in Nat /\ MaxEnds \in Nat
ASSUME NoThreadAssumption == NoThread \notin Thread /\ NoBuffer \notin Thread

VARIABLES list,      \* _thread_customer_list
          owner,     \* the thread that holds _mutex
          flags,     \* _data_available_for_transmit, as a set of bit numbers
          worker,    \* where the worker thread is
          pos,       \* the entry its for_each has reached
          msg,       \* the message it is about to write
          sent,      \* the messages written to the port
          global,    \* whether a global prefix and suffix are set
          rxBuffer,  \* the receive ring each thread has allocated
          arrived,   \* the number of bytes the port has received
          consumed,  \* the number of them read from the port
          pc,        \* where each thread is
          left,      \* the bytes its write() has still to store
          calls,     \* the number of calls so far, which only bounds the model
          sections,  \* the number of calls of block() of each thread
          ended,     \* the threads that have called end()
          stored,    \* the number of bytes write() has counted for each thread
          using,     \* the threads between begin() and end()
          got,       \* the bytes each thread has read
          missed     \* the bytes its full ring did not take

txVars == <<flags, worker, pos, msg, sent>>
rxVars == <<rxBuffer, arrived, consumed, got, missed>>
callVars == <<owner, pc, left>>
histVars == <<sections, ended, stored, using>>
vars == <<list, txVars, global, rxVars, callVars, calls, histVars>>

NewEntry(t, n) ==
    [id |-> t, flag |-> n, tx |-> <<>>, blocked |-> FALSE, rx |-> NoBuffer,
     prefix |-> FALSE, suffix |-> FALSE]

NoMessage == [prefix |-> "none", text |-> <<>>, suffix |-> "none"]

Registered(t) == \E i \in DOMAIN list : list[i].id = t

\* The first entry of thread t, which has one.
Find(t) == Min({i \in DOMAIN list : list[i].id = t})

Init ==
    /\ list = <<>>
    /\ owner = NoThread
    /\ flags = {}
    /\ worker = "off"
    /\ pos = 0
    /\ msg = NoMessage /\ sent = <<>>
    /\ global = [prefix |-> FALSE, suffix |-> FALSE]
    /\ rxBuffer = [t \in Thread |-> <<>>]
    /\ arrived = 0 /\ consumed = 0
    /\ pc = [t \in Thread |-> "idle"]
    /\ left = [t \in Thread |-> 0]
    /\ calls = 0
    /\ sections = [t \in Thread |-> 0]
    /\ ended = {}
    /\ stored = [t \in Thread |-> 0]
    /\ using = {}
    /\ got = [t \in Thread |-> <<>>]
    /\ missed = [t \in Thread |-> {}]

\* The sketches run while the worker, which preempts them, has nothing to do or
\* waits for the port or in a prefix function.
SketchesRun ==
    \/ worker \in {"off", "write"}
    \/ worker = "wait" /\ flags = {}
    \/ worker = "prefix" /\ msg.prefix # "none"

\* A thread between two calls may make one if no other call holds _mutex.
MayCall(t) == SketchesRun /\ pc[t] = "idle" /\ owner = NoThread

\* A call other than begin(): the thread has an entry, or the assertion fails.
UserCalls(t) == MayCall(t) /\ t \in using

\* set(): a flag outside the mask is refused.
SetFlag(n) == flags' = IF n < FlagBits THEN flags \cup {n} ELSE flags

-----------------------------------------------------------------------------
(* begin() and end()                                                       *)

Register(t) ==
    list' = IF Registered(t) THEN list ELSE Append(list, NewEntry(t, Len(list)))

\* The first call starts the worker and spins until it runs.
BeginFirst(t) ==
    /\ MayCall(t)
    /\ worker = "off"
    /\ worker' = "starting"
    /\ owner' = t
    /\ pc' = [pc EXCEPT ![t] = "spin"]
    /\ UNCHANGED <<list, flags, pos, msg, sent, global, rxVars, left, histVars>>

BeginStarted(t) ==
    /\ pc[t] = "spin"
    /\ worker # "starting"
    /\ Register(t)
    /\ using' = using \cup {t}
    /\ owner' = NoThread
    /\ pc' = [pc EXCEPT ![t] = "idle"]
    /\ UNCHANGED <<txVars, global, rxVars, left, calls, sections, ended, stored>>

BeginNext(t) ==
    /\ MayCall(t)
    /\ t \notin using
    /\ worker # "off"
    /\ Register(t)
    /\ using' = using \cup {t}
    /\ UNCHANGED <<txVars, global, rxVars, callVars, sections, ended, stored>>

\* The entries of other threads, and the place each of them moves to.
Others(t) == {i \in DOMAIN list : list[i].id # t}
Place(t, i) == Cardinality({j \in Others(t) : j <= i})

\* Mutant: the last entry is dropped instead of one of the thread's own.
DropLast(t) == Front(list)

\* What a move leaves behind: the functions go, all other fields are copied.
MovedFrom(d) == [d EXCEPT !.prefix = FALSE, !.suffix = FALSE]

\* std::remove_if() without erase(): the entries of other threads move to the
\* front, the length stays, and the places behind them keep what they held.
Compact(t) ==
    [k \in DOMAIN list |->
        IF \E i \in Others(t) : Place(t, i) = k
        THEN list[CHOOSE i \in Others(t) : Place(t, i) = k]
        ELSE IF k \in Others(t) THEN MovedFrom(list[k]) ELSE list[k]]

\* The list is as long as before, so the branch that joins the worker is not taken.
End(t) ==
    /\ UserCalls(t)
    /\ t \notin ended /\ Cardinality(ended) < MaxEnds
    /\ ended' = ended \cup {t}
    /\ list' = Compact(t)
    /\ using' = using \ {t}
    /\ UNCHANGED <<txVars, global, rxVars, callVars, sections, stored>>

\* Before any begin() the list is empty, and the join() of a thread that was not
\* started never returns.
EndUnused(t) ==
    /\ MayCall(t)
    /\ list = <<>>
    /\ owner' = t
    /\ pc' = [pc EXCEPT ![t] = "join"]
    /\ UNCHANGED <<list, txVars, global, rxVars, left, histVars>>

-----------------------------------------------------------------------------
(* write(), block() and unblock()                                          *)

\* The number of the blocked section thread t is in.
Section(t) == IF list[Find(t)].blocked THEN sections[t] ELSE 0

WriteCall(t, len) ==
    /\ UserCalls(t)
    /\ left' = [left EXCEPT ![t] = len]
    /\ owner' = t
    /\ pc' = [pc EXCEPT ![t] = "write"]
    /\ UNCHANGED <<list, txVars, global, rxVars, histVars>>

\* Mutant: write() does not ask whether there is room.
RoomAssumed(t) == TRUE

\* availableForStore()
Room(t) == Len(list[Find(t)].tx) < TxSize

\* store_char(): a full ring drops the byte.
Push(ring, b) == IF Len(ring) < TxSize THEN Append(ring, b) ELSE ring

StoreByte(t) ==
    /\ SketchesRun
    /\ pc[t] = "write"
    /\ left[t] > 0 /\ Room(t)
    /\ list' = [list EXCEPT ![Find(t)].tx = Push(@, <<t, stored[t] + 1, Section(t)>>)]
    /\ stored' = [stored EXCEPT ![t] = @ + 1]
    /\ left' = [left EXCEPT ![t] = @ - 1]
    /\ UNCHANGED <<txVars, global, rxVars, owner, pc, calls, sections, ended, using>>

\* Mutant: write() waits for room until all bytes are stored.
StoresOn(t) == left[t] > 0

\* The loop of write() goes on while there are bytes and room for them.
Storing(t) == left[t] > 0 /\ Room(t)

\* What did not fit is refused.
WriteReturn(t) ==
    /\ SketchesRun
    /\ pc[t] = "write"
    /\ ~Storing(t)
    /\ SetFlag(list[Find(t)].flag)
    /\ left' = [left EXCEPT ![t] = 0]
    /\ owner' = NoThread
    /\ pc' = [pc EXCEPT ![t] = "idle"]
    /\ UNCHANGED <<list, worker, pos, msg, sent, global, rxVars, calls, histVars>>

Block(t) ==
    /\ UserCalls(t)
    /\ sections' = [sections EXCEPT ![t] = @ + 1]
    /\ list' = [list EXCEPT ![Find(t)].blocked = TRUE]
    /\ UNCHANGED <<txVars, global, rxVars, callVars, ended, stored, using>>

\* Mutant: unblock() does not tell the worker.
UnblockQuietly(t) ==
    /\ UserCalls(t)
    /\ list' = [list EXCEPT ![Find(t)].blocked = FALSE]
    /\ UNCHANGED <<txVars, global, rxVars, callVars, histVars>>

Unblock(t) ==
    /\ UserCalls(t)
    /\ list' = [list EXCEPT ![Find(t)].blocked = FALSE]
    /\ SetFlag(list[Find(t)].flag)
    /\ UNCHANGED <<worker, pos, msg, sent, global, rxVars, callVars, histVars>>

-----------------------------------------------------------------------------
(* prefix(), suffix(), globalPrefix() and globalSuffix()                   *)

SetOwn(t, entry) ==
    /\ UserCalls(t)
    /\ list' = [list EXCEPT ![Find(t)] = entry]
    /\ UNCHANGED <<txVars, global, rxVars, callVars, histVars>>

SetPrefix(t) == SetOwn(t, [list[Find(t)] EXCEPT !.prefix = TRUE])
SetSuffix(t) == SetOwn(t, [list[Find(t)] EXCEPT !.suffix = TRUE])

\* These two do not look for an entry.
SetGlobal(t, decoration) ==
    /\ MayCall(t)
    /\ global' = decoration
    /\ UNCHANGED <<list, txVars, rxVars, callVars, histVars>>

SetGlobalPrefix(t) == SetGlobal(t, [global EXCEPT !.prefix = TRUE])
SetGlobalSuffix(t) == SetGlobal(t, [global EXCEPT !.suffix = TRUE])

-----------------------------------------------------------------------------
(* available(), peek() and read()                                          *)

Arrive ==
    /\ SketchesRun
    /\ arrived' = arrived + 1
    /\ UNCHANGED <<list, txVars, global, rxBuffer, consumed, got, missed, callVars, histVars>>

\* prepareSerialReader(): the first call allocates a ring.
Prepared(t) == [list EXCEPT ![Find(t)].rx = t]

\* handleSerialReader(): what the ring of b is offered, each byte once for every
\* entry that points to it.  (end() leaves entries that share a ring.)
Offered(b, entries) ==
    LET pointers == Cardinality({i \in DOMAIN entries : entries[i].rx = b})
    IN  [k \in 1 .. (arrived - consumed) * pointers |-> consumed + 1 + (k - 1) \div pointers]

\* What is in the ring of b before it is cut to its size.
Filled(t, b) ==
    (IF b = t /\ list[Find(t)].rx = NoBuffer THEN <<>> ELSE rxBuffer[b])
        \o Offered(b, Prepared(t))

Accepted(s) == SubSeq(s, 1, IF Len(s) < RxSize THEN Len(s) ELSE RxSize)

\* Mutant: the bytes go to the caller only.
ReceivedAlone(t) == [rxBuffer EXCEPT ![t] = Accepted(Filled(t, t))]

\* A ring takes bytes while it has room.
Received(t) == [b \in Thread |-> Accepted(Filled(t, b))]

\* Both helpers, in a call of thread t, which uses what it finds in its ring.
Receive(t) ==
    /\ UserCalls(t)
    /\ list' = Prepared(t)
    /\ consumed' = arrived
    /\ missed' = [b \in Thread |->
                     missed[b] \cup ToSet(SubSeq(Filled(t, b), RxSize + 1, Len(Filled(t, b))))]
    /\ UNCHANGED <<txVars, global, arrived, callVars, histVars>>

\* available() and peek(), and read() when there is nothing to read.
Look(t) ==
    /\ Receive(t)
    /\ rxBuffer' = Received(t)
    /\ UNCHANGED got

Read(t) ==
    /\ Receive(t)
    /\ Received(t)[t] # <<>>
    /\ got' = [got EXCEPT ![t] = Append(@, Head(Received(t)[t]))]
    /\ rxBuffer' = [Received(t) EXCEPT ![t] = Tail(@)]

-----------------------------------------------------------------------------
(* threadFunc()                                                            *)

OthersUnchanged == UNCHANGED <<global, rxVars, callVars, calls, histVars>>

WorkerGoto(from, to) == worker = from /\ worker' = to

WorkerStart ==
    /\ WorkerGoto("starting", "wait")
    /\ UNCHANGED <<list, flags, pos, msg, sent>> /\ OthersUnchanged

\* wait_any(): returns with the flags cleared.
WorkerWait ==
    /\ WorkerGoto("wait", "iterate")
    /\ flags # {}
    /\ flags' = {}
    /\ pos' = 1
    /\ UNCHANGED <<list, msg, sent>> /\ OthersUnchanged

\* Mutant: an entry's block is not looked at.
DueOrBlocked == {i \in DOMAIN list : i >= pos /\ list[i].tx # <<>>}

\* The entries the round has still to come to and will not pass over.
Due == {i \in DOMAIN list : i >= pos /\ ~list[i].blocked /\ list[i].tx # <<>>}

\* Mutant: the ring keeps what has been copied from it.
NotEmptied(i) == list

Emptied(i) == [list EXCEPT ![i].tx = <<>>]

\* Mutant: a global function takes precedence.
GlobalFirst(field) ==
    IF global[field] THEN "global" ELSE IF list[pos'][field] THEN "own" ELSE "none"

\* The thread's own function takes precedence over the global one.
Chosen(field) ==
    IF list[pos'][field] THEN "own" ELSE IF global[field] THEN "global" ELSE "none"

\* The worker empties the next ring due and calls a prefix function, if there is one ...
WorkerTake ==
    /\ WorkerGoto("iterate", "prefix")
    /\ Due # {}
    /\ pos' = Min(Due)
    /\ msg' = [NoMessage EXCEPT !.text = list[pos'].tx, !.prefix = Chosen("prefix")]
    /\ list' = Emptied(pos')
    /\ UNCHANGED <<flags, sent>> /\ OthersUnchanged

\* ... then a suffix function ...
WorkerSuffix ==
    /\ WorkerGoto("prefix", "write")
    /\ pos' = pos
    /\ msg' = [msg EXCEPT !.suffix = Chosen("suffix")]
    /\ UNCHANGED <<list, flags, sent>> /\ OthersUnchanged

\* ... and prefix, message and suffix go to the port one after the other.
WorkerWrite ==
    /\ WorkerGoto("write", "iterate")
    /\ sent' = Append(sent, msg)
    /\ msg' = NoMessage
    /\ pos' = pos + 1
    /\ UNCHANGED <<list, flags>> /\ OthersUnchanged

WorkerDone ==
    /\ WorkerGoto("iterate", "wait")
    /\ Due = {}
    /\ pos' = 0
    /\ UNCHANGED <<list, flags, msg, sent>> /\ OthersUnchanged

-----------------------------------------------------------------------------

WorkerStep ==
    WorkerStart \/ WorkerWait \/ WorkerTake \/ WorkerSuffix \/ WorkerWrite \/ WorkerDone

\* A call that has begun goes on.
CallStep(t) == BeginStarted(t) \/ StoreByte(t) \/ WriteReturn(t)

Begin(t) == BeginFirst(t) \/ BeginNext(t) \/ EndUnused(t)

Call(t) ==
    \/ End(t) \/ Block(t) \/ Unblock(t) \/ Look(t) \/ Read(t)
    \/ \E len \in 1 .. MaxLen : WriteCall(t, len)

Next ==
    \/ WorkerStep
    \/ \E t \in Thread : CallStep(t)
    \/ \E t \in Thread : Begin(t) /\ UNCHANGED calls
    \/ /\ calls + arrived < MaxCalls
       /\ \/ \E t \in Thread : Call(t) /\ calls' = calls + 1
          \/ Arrive /\ UNCHANGED calls

Spec == Init /\ [][Next]_vars

(* The worker has the highest priority, and a call that can go on does.    *)
Fairness == WF_vars(WorkerStep) /\ \A t \in Thread : WF_vars(CallStep(t))

FairSpec == Spec /\ Fairness

-----------------------------------------------------------------------------

(* A thread that has called begin() and not end() keeps an entry of its    *)
(* own, whoever else calls end(): the assertions of the calls hold.        *)
UsersRegistered == \A t \in using : Registered(t)

\* What the messages hold, those sent and the one in the worker's hand.
Texts == Append([i \in DOMAIN sent |-> sent[i].text], msg.text)

\* Text s has byte n of thread t.
Has(s, t, n) == \E p \in DOMAIN s : s[p][1] = t /\ s[p][2] = n

(* No byte that write() has counted is lost, while threads that use the    *)
(* port come and go: it is in an entry, in the worker's hand, or sent.     *)
(* (The thread that calls end() itself may lose what it has not yet sent.) *)
NothingLost ==
    \A t \in using \ ended : \A n \in 1 .. stored[t] :
        \/ \E i \in DOMAIN Texts : Has(Texts[i], t, n)
        \/ \E i \in DOMAIN list : Has(list[i].tx, t, n)

(* As long as nobody has called end(), the port gets the bytes of each     *)
(* thread once and in the order of the writes, although the worker empties *)
(* rings while they are filled.  (And gets all of them, as NothingLost     *)
(* says.)                                                                  *)
StreamKept ==
    ended = {} => \A t \in using :
        LET all == Append(Texts, list[Find(t)].tx)
        IN  \A i, j \in DOMAIN all : \A p \in DOMAIN all[i], q \in DOMAIN all[j] :
                LET b == all[i][p]
                    c == all[j][q]
                IN  b[1] = t /\ c[1] = t =>
                        /\ b[2] \in 1 .. stored[t]
                        /\ i < j \/ (i = j /\ p < q) => b[2] < c[2]

\* Text m has a part of section s of thread t.
InSection(m, t, s) == \E p \in DOMAIN m : m[p][1] = t /\ m[p][3] = s

(* What a thread writes between block() and unblock() leaves in one        *)
(* message: while some of it is out, nothing is left in the ring or to be  *)
(* written, and no other message has a part of it.  (Before any end().)    *)
BlockedTogether ==
    ended = {} => \A t \in using, s \in 1 .. MaxCalls :
        /\ \A i, j \in DOMAIN Texts :
              InSection(Texts[i], t, s) /\ InSection(Texts[j], t, s) => i = j
        /\ (\E i \in DOMAIN Texts : InSection(Texts[i], t, s))
              => ~InSection(list[Find(t)].tx, t, s) /\ Section(t) # s

(* Every thread that reads sees every byte that arrives after its first    *)
(* call, in order, except those that met its ring full: no other reader    *)
(* takes one away.  (Before any end().)                                    *)
EveryReaderSees ==
    ended = {} => \A t \in using :
        LET seen == got[t] \o rxBuffer[t]
            all == ToSet(seen) \cup missed[t]
        IN  /\ \A i, j \in DOMAIN seen : i < j => seen[i] < seen[j]
            /\ ToSet(seen) \cap missed[t] = {}
            /\ all # {} => \E first \in 1 .. arrived : all = first .. consumed

\* Thread t has bytes in its ring that nothing holds back: its flag is in the
\* mask, or another flag will make the worker look at all rings.
Waiting(t) ==
    /\ ended = {} /\ Registered(t)
    /\ LET d == list[Find(t)]
       IN  /\ d.tx # <<>> /\ ~d.blocked
           /\ d.flag < FlagBits \/ flags # {} \/ (worker = "iterate" /\ pos <= Find(t))

(* What a thread writes does not stay in its ring unless it is blocked:    *)
(* the worker empties the ring.  A thread whose flag is outside the mask   *)
(* has to wait for the flag of another.  (Before any end().)               *)
RingsEmptied == \A t \in Thread : Waiting(t) ~> ~Waiting(t)

(* Every call returns, write() also when the ring is full and blocked, but *)
(* for the end() before any begin().                                       *)
CallsReturn == \A t \in Thread : pc[t] # "idle" ~> pc[t] \in {"idle", "join"}

-----------------------------------------------------------------------------

\* The bytes of a text without the sections they were written in.
Plain(text) == [p \in DOMAIN text |-> <<text[p][1], text[p][2]>>]

\* The ring of thread t, and whether the thread is between block() and unblock().
RingOf(t) == IF Registered(t) THEN list[Find(t)].tx ELSE <<>>
Blocked(t) == Registered(t) /\ list[Find(t)].blocked

Port == INSTANCE SerialPort WITH
            open     <- ended = {},
            accepted <- stored,
            taken    <- [t \in Thread |-> stored[t] - Len(RingOf(t))],
            held     <- {t \in Thread : Blocked(t)},
            hand     <- Plain(msg.text),
            out      <- [i \in DOMAIN sent |-> Plain(sent[i].text)]

(* Until somebody calls end(), every message is what one thread has        *)
(* written since its last one, whole and in order, whatever calls and      *)
(* worker do to the list and the rings at the same time, and a thread      *)
(* between block() and unblock() sends nothing.                            *)
RefinesPort == Port!Spec
=============================================================================
