------------------------------- MODULE Source -------------------------------
(***************************************************************************)
(* threading/Source.hpp with the blocking sinks it feeds.  A source keeps  *)
(* the list of the sinks connected to it; push() injects the value into    *)
(* one sink after the other and waits in front of a full one.              *)
(*                                                                         *)
(* A sink is the bounded queue that SinkBlocking is shown to implement.    *)
(* The n-th value pushed by thread p is <<p, n>>: what the values are does *)
(* not matter, where they end up does.                                     *)
(*                                                                         *)
(* CONNECT() runs in the main sketch's setup(), before the sketches that   *)
(* push and pop are started: _sink_list is not protected against a         *)
(* connectTo() that overlaps a push().                                     *)
(***************************************************************************)
EXTENDS Naturals, Sequences, FiniteSets, SequencesExt

CONSTANTS Sources, Sinks,
          Pusher,       \* the threads that push
          Ownerships,   \* the ways to choose the source each of them pushes into
          Capacity,     \* the size of each sink
          MaxLinks,     \* bound on the calls of connectTo()
          MaxPushes     \* bound on the pushes of each thread

ASSUME OwnershipAssumption == Ownerships \subseteq [Pusher -> Sources]
ASSUME BoundAssumption == MaxLinks \in Nat /\ MaxPushes \in Nat
ASSUME CapacityAssumption == Capacity \in [Sinks -> Nat \ {0}]

VARIABLES sourceOf,  \* the source each thread pushes into
          running,   \* the sketches have been started
          sinkList,  \* _sink_list of each source
          pushed,    \* the number of pushes each thread has begun
          at,        \* the place in the list the push has reached, 0 if none
          queue,     \* the elements in each sink
          popped     \* the elements popped from each sink so far

vars == <<sourceOf, running, sinkList, pushed, at, queue, popped>>

ListOf(p) == sinkList[sourceOf[p]]

Init ==
    /\ sourceOf \in Ownerships
    /\ running = FALSE
    /\ sinkList = [src \in Sources |-> <<>>]
    /\ pushed = [p \in Pusher |-> 0]
    /\ at = [p \in Pusher |-> 0]
    /\ queue = [s \in Sinks |-> <<>>]
    /\ popped = [s \in Sinks |-> <<>>]

Links == FoldSet(LAMBDA src, n : n + Len(sinkList[src]), 0, Sources)

ConnectTo(src, s) ==
    /\ ~running
    /\ Links < MaxLinks
    /\ sinkList' = [sinkList EXCEPT ![src] = Append(@, s)]
    /\ UNCHANGED <<sourceOf, running, pushed, at, queue, popped>>

Start ==
    /\ ~running
    /\ running' = TRUE
    /\ UNCHANGED <<sourceOf, sinkList, pushed, at, queue, popped>>

Push(p) ==
    /\ running
    /\ at[p] = 0
    /\ pushed[p] < MaxPushes
    /\ pushed' = [pushed EXCEPT ![p] = @ + 1]
    /\ at' = [at EXCEPT ![p] = 1]
    /\ UNCHANGED <<sourceOf, running, sinkList, queue, popped>>

\* Mutant: a sink that is full is skipped.
InjectOrSkip(p) ==
    /\ at[p] \in DOMAIN ListOf(p)
    /\ LET s == ListOf(p)[at[p]]
       IN  queue' = [queue EXCEPT ![s] = IF Len(@) < Capacity[s]
                                         THEN Append(@, <<p, pushed[p]>>) ELSE @]
    /\ at' = [at EXCEPT ![p] = @ + 1]
    /\ UNCHANGED <<sourceOf, running, sinkList, pushed, popped>>

\* Mutant: one cell of the ring is never used.
InjectShort(p) ==
    /\ at[p] \in DOMAIN ListOf(p)
    /\ LET s == ListOf(p)[at[p]]
       IN  /\ Len(queue[s]) + 1 < Capacity[s]
           /\ queue' = [queue EXCEPT ![s] = Append(@, <<p, pushed[p]>>)]
    /\ at' = [at EXCEPT ![p] = @ + 1]
    /\ UNCHANGED <<sourceOf, running, sinkList, pushed, popped>>

\* One round of for_each: inject() into the next sink, which waits while it is full.
Inject(p) ==
    /\ at[p] \in DOMAIN ListOf(p)
    /\ LET s == ListOf(p)[at[p]]
       IN  /\ Len(queue[s]) < Capacity[s]
           /\ queue' = [queue EXCEPT ![s] = Append(@, <<p, pushed[p]>>)]
    /\ at' = [at EXCEPT ![p] = @ + 1]
    /\ UNCHANGED <<sourceOf, running, sinkList, pushed, popped>>

PushReturn(p) ==
    /\ at[p] = Len(ListOf(p)) + 1
    /\ at' = [at EXCEPT ![p] = 0]
    /\ UNCHANGED <<sourceOf, running, sinkList, pushed, queue, popped>>

Pop(s) ==
    /\ running
    /\ queue[s] # <<>>
    /\ popped' = [popped EXCEPT ![s] = Append(@, Head(queue[s]))]
    /\ queue' = [queue EXCEPT ![s] = Tail(@)]
    /\ UNCHANGED <<sourceOf, running, sinkList, pushed, at>>

Next ==
    \/ \E src \in Sources, s \in Sinks : ConnectTo(src, s)
    \/ Start
    \/ \E p \in Pusher : Push(p) \/ Inject(p) \/ PushReturn(p)
    \/ \E s \in Sinks : Pop(s)

Spec == Init /\ [][Next]_vars

(* The sketch that owns a sink keeps popping it, and a push that can go on *)
(* does.                                                                   *)
Fairness ==
    /\ \A p \in Pusher : WF_vars(Inject(p)) /\ WF_vars(PushReturn(p))
    /\ \A s \in Sinks : WF_vars(Pop(s))

FairSpec == Spec /\ Fairness

-----------------------------------------------------------------------------

\* What has been sent into each sink so far, in the order the sink received it.
Received == [s \in Sinks |-> popped[s] \o queue[s]]

\* The places of sink s in the list p pushes along.
Places(s, p) == {i \in DOMAIN ListOf(p) : ListOf(p)[i] = s}

\* The connections to sink s that have been given the n-th value of p: all of
\* them, or for the value being pushed those for_each has passed.
Served(s, p, n) ==
    {i \in Places(s, p) : n < pushed[p] \/ (n = pushed[p] /\ at[p] \notin 1 .. i)}

(* Each sink sees every value the source provided, once for each of its    *)
(* connections, in the order of the pushes; the value being pushed has     *)
(* reached exactly the sinks before the place for_each has reached.  So    *)
(* two sinks of one source never differ by more than the value in flight,  *)
(* and a sink that is not connected gets nothing.                          *)
EverySinkSeesEveryValue ==
    \A p \in Pusher, s \in Sinks :
        LET all == Received[s]
        IN  /\ \A i, j \in DOMAIN all :
                  i < j /\ all[i][1] = p /\ all[j][1] = p => all[i][2] <= all[j][2]
            /\ \A n \in 1 .. MaxPushes :
                  Cardinality({i \in DOMAIN all : all[i] = <<p, n>>})
                      = Cardinality(Served(s, p, n))

\* No other thread feeds a sink that p feeds.  (A thread that waits for a slot
\* may be overtaken by another producer each time one is freed.)
Alone(p) ==
    \A q \in Pusher \ {p} : ToSet(ListOf(q)) \cap ToSet(ListOf(p)) = {}

(* As long as every sink is popped, every value that is pushed is popped   *)
(* from every sink connected to the source: one sink that is full delays   *)
(* the sinks behind it in the list but does not cut them off.              *)
EveryValueArrives ==
    \A p \in Pusher, s \in Sinks : \A n \in 1 .. MaxPushes :
        pushed[p] >= n /\ Alone(p) /\ Places(s, p) # {} ~> <<p, n>> \in ToSet(popped[s])
=============================================================================
