------------------------- MODULE SketchThreadProofs -------------------------
(***************************************************************************)
(* Safety of SketchThread for any sketches, any flags and any delays: the  *)
(* types, and that a sketch misses no broadcast of a flag of its own.      *)
(***************************************************************************)
EXTENDS SketchThread, TLAPS

(* The two invariants are inductive together: a flag that EventsKept finds *)
(* set is one of those that the types allow.                               *)
Inv == TypeOK /\ EventsKept

(* No sketch was started and no flag was broadcast.                        *)
LEMMA InitInv == Init => Inv
BY FlagAssumption, DelayAssumption, EventAssumption, BoundAssumption
   DEF Init, Inv, TypeOK, EventsKept

(* The calls of other threads: start(), terminate(), sendEvent(),          *)
(* setLoopDelay() and broadcastEvent() preserve the invariant.             *)
LEMMA CallInv == Inv /\ Call => Inv'
<1> SUFFICES ASSUME Inv, Call PROVE Inv'
  OBVIOUS
<1> USE FlagAssumption, DelayAssumption, EventAssumption, BoundAssumption
<1> USE DEF Inv, TypeOK, EventsKept, Running
<1>1. ASSUME NEW s \in Sketch, Start(s)
     PROVE  Inv'
  BY <1>1 DEF Start
<1>2. ASSUME NEW s \in Sketch, Terminate(s)
     PROVE  Inv'
  BY <1>2 DEF Terminate
<1>3. ASSUME NEW s \in Sketch, NEW f \in EventsOf[s], SendEvent(s, f)
     PROVE  Inv'
  BY <1>3 DEF SendEvent
<1>4. ASSUME NEW s \in Sketch, NEW d \in LoopDelays[s], SetLoopDelay(s, d)
     PROVE  Inv'
  BY <1>4 DEF SetLoopDelay
<1>5. ASSUME NEW f \in Flag, BroadcastEvent(f)
     PROVE  Inv'
  BY <1>5 DEF BroadcastEvent
<1>6. QED
  BY <1>1, <1>2, <1>3, <1>4, <1>5 DEF Call

(* Every step of threadFunc() preserves the invariant.                     *)
LEMMA ThreadInv == ASSUME NEW s \in Sketch
                   PROVE  Inv /\ ThreadStep(s) => Inv'
<1> SUFFICES ASSUME Inv, ThreadStep(s) PROVE Inv'
  OBVIOUS
<1> USE FlagAssumption DEF Inv, TypeOK, Goto
<1>1. CASE Setup(s)
  BY <1>1 DEF Setup, EventsKept
<1>2. CASE PassStartFlags(s)
  <2>1. TypeOK'
    BY <1>2 DEF PassStartFlags
  <2>2. ASSUME NEW t \in Sketch, Owns(t)
        PROVE  global' \cap StartFlags[t] = news'[t]
    <3>1. CASE t = s
      BY <1>2, <2>2, <3>1 DEF PassStartFlags
    <3>2. CASE t # s
      BY <1>2, <2>2, <3>2 DEF PassStartFlags, Owns, EventsKept
    <3>3. QED
      BY <3>1, <3>2
  <2>3. QED
    BY <2>1, <2>2 DEF EventsKept
<1>3. CASE Loop(s)
  BY <1>3 DEF Loop, EventsKept
<1>4. CASE StopGlobal(s)
  BY <1>4 DEF StopGlobal, EventsKept
<1>5. CASE ClearGlobal(s)
  <2>1. TypeOK'
    BY <1>5 DEF ClearGlobal
  <2>2. ASSUME NEW t \in Sketch, Owns(t)
        PROVE  global' \cap StartFlags[t] = news'[t]
    BY <1>5, <2>2 DEF ClearGlobal, Owns, EventsKept
  <2>3. QED
    BY <2>1, <2>2 DEF EventsKept
<1>6. CASE PassGlobal(s)
  BY <1>6 DEF PassGlobal, EventsKept
<1>7. CASE StopLocal(s)
  BY <1>7 DEF StopLocal, EventsKept
<1>8. CASE PassLocal(s)
  BY <1>8 DEF PassLocal, EventsKept
<1>9. CASE Sleep(s)
  BY <1>9 DEF Sleep, EventsKept
<1>10. CASE WakeUp(s)
  BY <1>10 DEF WakeUp, EventsKept
<1>11. QED
  BY <1>1, <1>2, <1>3, <1>4, <1>5, <1>6, <1>7, <1>8, <1>9, <1>10
     DEF ThreadStep, RunStep

(* The types and the events that are kept, for any number of sketches.     *)
THEOREM Invariance == Spec => []Inv
<1>1. Inv /\ [Next]_vars => Inv'
  <2>1. Inv /\ UNCHANGED vars => Inv'
    BY DEF Inv, TypeOK, EventsKept, vars
  <2>2. QED
    BY <2>1, CallInv, ThreadInv DEF Next
<1>2. QED
  BY InitInv, <1>1, PTL DEF Spec

(* Type correctness of the threads, their flags and their delays.          *)
THEOREM TypeCorrectness == Spec => []TypeOK
<1>1. Inv => TypeOK
  BY DEF Inv
<1>2. QED
  BY <1>1, Invariance, PTL

(* A sketch that shares its start flags with no other misses none of the   *)
(* broadcasts of them, and no broadcast starts it twice.                   *)
THEOREM NoEventMissed == Spec => []EventsKept
<1>1. Inv => EventsKept
  BY DEF Inv
<1>2. QED
  BY <1>1, Invariance, PTL
=============================================================================
