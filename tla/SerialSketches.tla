--------------------------- MODULE SerialSketches ---------------------------
(***************************************************************************)
(* The sketches of examples/Threadsafe_IO that share one serial port, run  *)
(* on the dispatcher of the module SerialDispatcher: the main sketch of    *)
(* Serial_GlobalPrefixSuffix, which sets the global prefix and suffix,     *)
(* starts the others and then writes; the writers of Serial_Writer; the    *)
(* GPS thread of Serial_ProtocolWrapping with its own prefix and suffix;   *)
(* the main sketch and the threads of Serial_Reader, which print what they *)
(* receive.                                                                *)
(*                                                                         *)
(* A sketch is the sequence of its calls, setup() and then loop() over and *)
(* over.  A print() is a write() of one byte, for a reader of as many as   *)
(* it has received; of the many prints of a message the model has two.     *)
(***************************************************************************)
EXTENDS SerialDispatcher

CONSTANTS Main,         \* the thread of the main sketch
          Projects,     \* the sketches that may run together, a name for each thread
          MaxSections,  \* bound on the messages all writing sketches print
          MaxArrive     \* bound on the bytes that arrive

VARIABLES sketch,  \* the project that runs, which does not change
          line,    \* the next call of each sketch, 0 for one not started
          text     \* serial_msg of each reader

sketchVars == <<vars, sketch, line, text>>

Setup == [log        |-> <<"begin", "globalPrefix", "globalSuffix", "start">>,
          writer     |-> <<"begin">>,
          gps        |-> <<"begin", "prefix", "suffix">>,
          mainReader |-> <<"begin", "start", "block", "print", "unblock">>,
          reader     |-> <<"begin", "block", "print", "unblock">>,
          none       |-> <<>>]

\* setup() and loop() of an .ino file are those of the main sketch.
ASSUME ProjectsAssumption ==
    /\ Main \in Thread /\ Projects \subseteq [Thread -> DOMAIN Setup]
    /\ \A p \in Projects, t \in Thread \ {Main} : p[t] \notin {"log", "mainReader"}

\* Mutant: unblock() comes before the last print().
WriteEarly == <<"block", "print", "unblock", "print">>

Write == <<"block", "print", "print", "unblock">>

Echo == <<"available", "read", "block", "print", "printText", "unblock">>

Loop == [log |-> Write, writer |-> Write, gps |-> Write,
         mainReader |-> Echo, reader |-> Echo, none |-> <<>>]

Code == [k \in DOMAIN Setup |-> Setup[k] \o Loop[k]]

Program(t) == Code[sketch[t]]

SketchesInit ==
    /\ Init
    /\ sketch \in Projects
    /\ line = [t \in Thread |-> IF t = Main THEN 1 ELSE 0]
    /\ text = [t \in Thread |-> <<>>]

Following(t) == IF line[t] = Len(Program(t)) THEN Len(Setup[sketch[t]]) + 1 ELSE line[t] + 1

Readers == {t \in Thread : sketch[t] \in {"reader", "mainReader"}}

\* The next call of sketch t is `op`.
At(t, op) == line[t] \in DOMAIN Program(t) /\ Program(t)[line[t]] = op

Runs(t, op) ==
    /\ At(t, op)
    /\ line' = [line EXCEPT ![t] = Following(t)]
    /\ UNCHANGED <<calls, sketch>>

-----------------------------------------------------------------------------

SketchBegin(t) == Runs(t, "begin") /\ (BeginFirst(t) \/ BeginNext(t)) /\ UNCHANGED text

\* start() of the other sketches.
SketchStart(t) ==
    /\ At(t, "start")
    /\ pc[t] = "idle" /\ SketchesRun
    /\ line' = [s \in Thread |-> IF s = t THEN Following(t) ELSE 1]
    /\ UNCHANGED <<vars, sketch, text>>

SketchDecorate(t) ==
    /\ \/ Runs(t, "globalPrefix") /\ SetGlobalPrefix(t)
       \/ Runs(t, "globalSuffix") /\ SetGlobalSuffix(t)
       \/ Runs(t, "prefix") /\ SetPrefix(t)
       \/ Runs(t, "suffix") /\ SetSuffix(t)
    /\ UNCHANGED text

SketchBlock(t) ==
    /\ t \in Readers \/ FoldFunction(+, 0, sections) < MaxSections
    /\ Runs(t, "block") /\ Block(t)
    /\ UNCHANGED text

SketchPrint(t) == Runs(t, "print") /\ WriteCall(t, 1) /\ UNCHANGED text

SketchUnblock(t) == Runs(t, "unblock") /\ Unblock(t) /\ UNCHANGED text

\* while (Serial.available()) ... if (serial_msg.length()) ...
ReaderAvailable(t) ==
    /\ At(t, "available")
    /\ Look(t)
    /\ line' = [line EXCEPT ![t] = IF rxBuffer'[t] # <<>> THEN Following(t)
                                   ELSE IF text[t] # <<>> THEN Following(t) + 1 ELSE @]
    /\ UNCHANGED <<calls, sketch, text>>

\* serial_msg += (char)Serial.read();
ReaderRead(t) ==
    /\ At(t, "read")
    /\ Read(t)
    /\ text' = [text EXCEPT ![t] = Append(@, Last(got'[t]))]
    /\ line' = [line EXCEPT ![t] = @ - 1]
    /\ UNCHANGED <<calls, sketch>>

ReaderPrint(t) ==
    /\ Runs(t, "printText") /\ WriteCall(t, Len(text[t]))
    /\ text' = [text EXCEPT ![t] = <<>>]

\* A call under way goes on.
SketchCall(t) == CallStep(t) /\ UNCHANGED <<sketch, line, text>>

SketchStep(t) ==
    \/ SketchBegin(t) \/ SketchStart(t) \/ SketchDecorate(t)
    \/ SketchBlock(t) \/ SketchPrint(t) \/ SketchUnblock(t)
    \/ ReaderAvailable(t) \/ ReaderRead(t) \/ ReaderPrint(t)

SketchesNext ==
    \/ \E t \in Thread : SketchStep(t) \/ SketchCall(t)
    \/ WorkerStep /\ UNCHANGED <<sketch, line, text>>
    \/ arrived < MaxArrive /\ Arrive /\ UNCHANGED <<calls, sketch, line, text>>

SketchesSpec == SketchesInit /\ [][SketchesNext]_sketchVars

(***************************************************************************)
(* The worker has the highest priority.  The sketches have one priority    *)
(* and get their turn, and _mutex goes to the one that has waited longest. *)
(***************************************************************************)
SketchesFairSpec ==
    /\ SketchesSpec
    /\ WF_sketchVars(WorkerStep /\ UNCHANGED <<sketch, line, text>>)
    /\ \A t \in Thread : SF_sketchVars(SketchStep(t)) /\ WF_sketchVars(SketchCall(t))

-----------------------------------------------------------------------------

(* "Multiple threads can write to the same physical Serial interface       *)
(* without interfering with one another": a message holds whole sections   *)
(* of one sketch; only when its ring was full may bytes be missing.        *)
MessagesWhole ==
    \A i \in DOMAIN sent :
        LET m == ToSet(sent[i].text)
        IN  \A b \in m :
              /\ \A c \in m : c[1] = b[1]
              /\ Cardinality(m) < TxSize /\ b[1] \notin Readers
                    => Cardinality({c \in m : c[3] = b[3]}) = 2

(* Every message of the GPS sketch is wrapped in its own prefix and suffix *)
(* and every message of the others in the global ones, from the first on.  *)
Wrapped ==
    \A i \in DOMAIN sent :
        LET by == IF sketch[sent[i].text[1][1]] = "gps" THEN "own"
                  ELSE IF sketch[Main] = "log" THEN "global" ELSE "none"
        IN  sent[i].prefix = by /\ sent[i].suffix = by

\* The ring of reader t has been allocated when byte n arrives.
Subscribed(t, n) ==
    /\ arrived = n /\ consumed < n
    /\ Registered(t) /\ list[Find(t)].rx = t

(* "No thread can steal data from another thread by reading it first":     *)
(* each reader gets every byte, or had no room for it.                     *)
EveryReaderGets ==
    \A t \in Thread, n \in 1 .. MaxArrive :
        Subscribed(t, n) ~> n \in ToSet(got[t]) \cup missed[t]
=============================================================================
