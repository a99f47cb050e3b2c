---------------------------- MODULE SketchThread ----------------------------
(***************************************************************************)
(* Arduino_Threads.cpp: the life of the sketches' threads.  start()        *)
(* creates a thread that runs setup(), waits for its start flags among the *)
(* global event flags, and then runs loop() again and again, looking at    *)
(* its stop flags after each round.  broadcastEvent() sets global flags,   *)
(* sendEvent() flags of one thread, setLoopDelay() changes the sleep       *)
(* between the rounds, terminate() kills a thread at any place.            *)
(*                                                                         *)
(* A 32-bit flag word is the set of its flags.  EventFlags::wait_all()     *)
(* clears the flags it waited for when it returns, the default of its      *)
(* third parameter.  The calls that use _thread need an earlier start().   *)
(***************************************************************************)
EXTENDS Naturals, FiniteSets

CONSTANTS Sketch,
          Flag,
          StartFlags,    \* the start_flags each sketch is started with
          StopFlags,     \* the stop_flags each sketch is started with
          LoopDelays,    \* the delays each sketch may be given
          EventsOf,      \* the events each sketch may be sent
          MaxBroadcasts, \* bound on the calls of broadcastEvent()
          MaxStarts      \* bound on the calls of start()

ASSUME FlagAssumption == /\ StartFlags \in [Sketch -> SUBSET Flag]
                         /\ StopFlags \in [Sketch -> SUBSET Flag]
ASSUME DelayAssumption == LoopDelays \in [Sketch -> SUBSET Nat]
ASSUME EventAssumption == EventsOf \in [Sketch -> SUBSET Flag]
ASSUME BoundAssumption == MaxBroadcasts \in Nat /\ MaxStarts \in Nat

VARIABLES pc,         \* where the thread of each sketch is
          global,     \* _global_events
          local,      \* the flags of each thread
          delay,      \* _loop_delay_ms
          broadcasts, \* how often broadcastEvent() was called
          starts,     \* how often start() was called
          news        \* the start flags broadcast since each sketch last passed its wait

vars == <<pc, global, local, delay, broadcasts, starts, news>>

Init ==
    /\ pc = [s \in Sketch |-> "none"]
    /\ global = {}
    /\ local = [s \in Sketch |-> {}]
    /\ delay = [s \in Sketch |-> 0]
    /\ broadcasts = 0
    /\ starts = 0
    /\ news = [s \in Sketch |-> {}]

Running(s) == pc[s] \notin {"none", "ended", "killed"}

Goto(s, from, to) ==
    /\ pc[s] = from
    /\ pc' = [pc EXCEPT ![s] = to]

-----------------------------------------------------------------------------
(* The calls of other threads.                                             *)

\* start(): _thread.reset() destroys, and so terminates, an earlier thread.
Start(s) ==
    /\ starts < MaxStarts
    /\ starts' = starts + 1
    /\ pc' = [pc EXCEPT ![s] = "setup"]
    /\ local' = [local EXCEPT ![s] = {}]
    /\ UNCHANGED <<global, delay, broadcasts, news>>

Terminate(s) ==
    /\ pc[s] # "none"
    /\ pc' = [pc EXCEPT ![s] = "killed"]
    /\ UNCHANGED <<global, local, delay, broadcasts, starts, news>>

SendEvent(s, f) ==
    /\ Running(s)
    /\ local' = [local EXCEPT ![s] = @ \cup {f}]
    /\ UNCHANGED <<pc, global, delay, broadcasts, starts, news>>

\* The delay counts from the next sleep on: one that has begun is not cut short.
SetLoopDelay(s, d) ==
    /\ delay' = [delay EXCEPT ![s] = d]
    /\ UNCHANGED <<pc, global, local, broadcasts, starts, news>>

BroadcastEvent(f) ==
    /\ broadcasts < MaxBroadcasts
    /\ broadcasts' = broadcasts + 1
    /\ global' = global \cup {f}
    /\ news' = [s \in Sketch |-> news[s] \cup ({f} \cap StartFlags[s])]
    /\ UNCHANGED <<pc, local, delay, starts>>

-----------------------------------------------------------------------------
(* threadFunc()                                                            *)

Setup(s) ==
    /\ Goto(s, "setup", IF StartFlags[s] = {} THEN "loop" ELSE "waitStart")
    /\ UNCHANGED <<global, local, delay, broadcasts, starts, news>>

\* Mutant: the flags that were waited for stay set.
PassStartFlagsSet(s) ==
    /\ Goto(s, "waitStart", "loop")
    /\ StartFlags[s] \subseteq global
    /\ news' = [news EXCEPT ![s] = {}]
    /\ UNCHANGED <<global, local, delay, broadcasts, starts>>

\* Mutant: the thread waits for flags of its own, as it looks for its stop flags.
PassStartFlagsLocal(s) ==
    /\ Goto(s, "waitStart", "loop")
    /\ StartFlags[s] \subseteq local[s]
    /\ local' = [local EXCEPT ![s] = @ \ StartFlags[s]]
    /\ news' = [news EXCEPT ![s] = {}]
    /\ UNCHANGED <<global, delay, broadcasts, starts>>

\* wait_all(_start_flags) returns.
PassStartFlags(s) ==
    /\ Goto(s, "waitStart", "loop")
    /\ StartFlags[s] \subseteq global
    /\ global' = global \ StartFlags[s]
    /\ news' = [news EXCEPT ![s] = {}]
    /\ UNCHANGED <<local, delay, broadcasts, starts>>

\* loop() returns.
Loop(s) ==
    /\ Goto(s, "loop", IF StopFlags[s] = {} THEN "sleep" ELSE "testGlobal")
    /\ UNCHANGED <<global, local, delay, broadcasts, starts, news>>

\* Not all stop flags are set globally: clear them and return.
StopGlobal(s) ==
    /\ pc[s] = "testGlobal"
    /\ ~(StopFlags[s] \subseteq global)
    /\ pc' = [pc EXCEPT ![s] = "clearGlobal"]
    /\ UNCHANGED <<global, local, delay, broadcasts, starts, news>>

ClearGlobal(s) ==
    /\ Goto(s, "clearGlobal", "ended")
    /\ global' = global \ StopFlags[s]
    /\ UNCHANGED <<local, delay, broadcasts, starts, news>>

PassGlobal(s) ==
    /\ Goto(s, "testGlobal", "testLocal")
    /\ StopFlags[s] \subseteq global
    /\ UNCHANGED <<global, local, delay, broadcasts, starts, news>>

\* Not all stop flags are set for the thread: clear them and return.
StopLocal(s) ==
    /\ Goto(s, "testLocal", "ended")
    /\ ~(StopFlags[s] \subseteq local[s])
    /\ local' = [local EXCEPT ![s] = @ \ StopFlags[s]]
    /\ UNCHANGED <<global, delay, broadcasts, starts, news>>

PassLocal(s) ==
    /\ Goto(s, "testLocal", "sleep")
    /\ StopFlags[s] \subseteq local[s]
    /\ UNCHANGED <<global, local, delay, broadcasts, starts, news>>

\* Mutant: the thread returns after the first round.
SleepOnce(s) ==
    /\ Goto(s, "sleep", "ended")
    /\ UNCHANGED <<global, local, delay, broadcasts, starts, news>>

\* sleep_for(0) returns at once.
Sleep(s) ==
    /\ Goto(s, "sleep", IF delay[s] = 0 THEN "loop" ELSE "asleep")
    /\ UNCHANGED <<global, local, delay, broadcasts, starts, news>>

WakeUp(s) ==
    /\ Goto(s, "asleep", "loop")
    /\ UNCHANGED <<global, local, delay, broadcasts, starts, news>>

\* EventFlags::set() itself releases the threads whose flags are then set, and
\* wait_all() returns at once if they already are: no other step comes between.
Settled ==
    \A s \in Sketch : pc[s] = "waitStart" => ~(StartFlags[s] \subseteq global)

RunStep(s) ==
    /\ Settled
    /\ \/ Setup(s)      \/ Loop(s)        \/ Sleep(s)      \/ WakeUp(s)
       \/ StopGlobal(s) \/ ClearGlobal(s) \/ PassGlobal(s)
       \/ StopLocal(s)  \/ PassLocal(s)

ThreadStep(s) == PassStartFlags(s) \/ RunStep(s)

Call ==
    /\ Settled
    /\ \/ \E s \in Sketch : Start(s) \/ Terminate(s)
       \/ \E s \in Sketch : \E f \in EventsOf[s] : SendEvent(s, f)
       \/ \E s \in Sketch : \E d \in LoopDelays[s] : SetLoopDelay(s, d)
       \/ \E f \in Flag : BroadcastEvent(f)

Next == Call \/ \E s \in Sketch : ThreadStep(s)

Spec == Init /\ [][Next]_vars

(* All sketch threads have the same priority and are scheduled in turn;    *)
(* the sketch's setup() and loop() return.                                 *)
Fairness == \A s \in Sketch : WF_vars(ThreadStep(s))

FairSpec == Spec /\ Fairness

-----------------------------------------------------------------------------

(* The values the variables may have; only a sketch with flags is where    *)
(* threadFunc() looks at them.                                             *)
TypeOK ==
    /\ pc \in [Sketch -> {"none", "setup", "waitStart", "loop", "testGlobal",
                          "clearGlobal", "testLocal", "sleep", "asleep", "ended",
                          "killed"}]
    /\ global \subseteq Flag
    /\ local \in [Sketch -> SUBSET Flag]
    /\ \A s \in Sketch : pc[s] = "none" => local[s] = {}
    /\ delay \in [Sketch -> Nat]
    /\ broadcasts \in 0 .. MaxBroadcasts
    /\ starts \in 0 .. MaxStarts
    /\ news \in [Sketch -> SUBSET Flag]
    /\ \A s \in Sketch : news[s] \subseteq StartFlags[s]
    /\ \A s \in Sketch : pc[s] = "waitStart" => StartFlags[s] # {}
    /\ \A s \in Sketch : pc[s] \in {"testGlobal", "clearGlobal", "testLocal"} => StopFlags[s] # {}

\* No other sketch waits for a start flag of sketch s, and none clears one.
Owns(s) ==
    /\ \A t \in Sketch \ {s} : StartFlags[s] \cap StartFlags[t] = {}
    /\ \A t \in Sketch : StartFlags[s] \cap StopFlags[t] = {}

(* A sketch that shares its start flags with no other finds those set that *)
(* were broadcast since it last passed its wait: what is broadcast before  *)
(* it is started, in its setup() or before its other flags is not lost,    *)
(* and nothing of its last start is left when it is started again.         *)
EventsKept ==
    \A s \in Sketch : Owns(s) => global \cap StartFlags[s] = news[s]

(* It starts looping once all of them have been broadcast, in any order,   *)
(* early or late, whatever the other sketches do with their own flags.     *)
StartsOnItsFlags ==
    \A s \in Sketch :
        Owns(s) => (pc[s] \in {"setup", "waitStart"} /\ news[s] = StartFlags[s]
                       ~> pc[s] \in {"loop", "killed"})

(* A sketch that was started without start and stop flags loops for ever,  *)
(* whatever its delay and whenever it changes, until it is terminated.     *)
LoopsForever ==
    \A s \in Sketch :
        StartFlags[s] = {} /\ StopFlags[s] = {} =>
            []<>(pc[s] \in {"none", "loop", "killed"})

(* "this is used to synchronize loops from multiple sketches": when the    *)
(* start flags of two sketches that wait for the same ones are set, both   *)
(* sketches go on.                                                         *)
StartTogether ==
    \A s, t \in Sketch :
        s # t /\ StartFlags[s] = StartFlags[t] =>
            (pc[s] = "waitStart" /\ pc[t] = "waitStart" /\ StartFlags[s] \subseteq global
                ~> pc[s] # "waitStart")

(* "If _stop_flags have been passed stop when all the flags are set        *)
(* otherwise loop forever".                                                *)
StopsWhenFlagsSet ==
    [][\A s \in Sketch :
         pc[s] # "ended" /\ pc'[s] = "ended" =>
             StopFlags[s] \subseteq global \/ StopFlags[s] \subseteq local[s]]_vars
=============================================================================
