------------------------------- MODULE Shared -------------------------------
(***************************************************************************)
(* threading/Shared.hpp: push(), pop() and peek() of one shared variable,  *)
(* called by any number of threads without a common lock.                  *)
(*                                                                         *)
(* rtos::Mail is a pool of QueueSize blocks and a queue of pointers to     *)
(* them.  full() and try_get_for() look at the queue, try_alloc() at the   *)
(* pool: a block that was taken from the queue and not yet freed is in     *)
(* neither.  Each call of it is atomic, the sequences of calls are not.    *)
(*                                                                         *)
(* The n-th value pushed by thread p is <<p, n>>.                          *)
(***************************************************************************)
EXTENDS Integers, Sequences, FiniteSets, SequencesExt

CONSTANTS Pusher,     \* the threads that push
          Popper,     \* the threads that pop
          QueueSize,  \* QUEUE_SIZE
          MaxPushes,  \* bound on the pushes of each thread
          NoValue     \* _val before the first push

ASSUME ThreadAssumption == Pusher \cap Popper = {}
ASSUME QueueAssumption == QueueSize \in Nat \ {0}
ASSUME PushAssumption == MaxPushes \in Nat

VARIABLES queue,   \* the values in the mailbox, oldest first
          free,    \* the number of free blocks of the mailbox
          latest,  \* _val
          pc,      \* where each thread is
          pushed,  \* the number of pushes each thread has begun
          popped   \* the values popped so far

vars == <<queue, free, latest, pc, pushed, popped>>

Thread == Pusher \cup Popper

Elements == Pusher \X (1 .. MaxPushes)

Init ==
    /\ queue = <<>>
    /\ free = QueueSize
    /\ latest = NoValue
    /\ pc = [t \in Thread |-> "idle"]
    /\ pushed = [p \in Pusher |-> 0]
    /\ popped = <<>>

Goto(t, from, to) ==
    /\ pc[t] = from
    /\ pc' = [pc EXCEPT ![t] = to]

-----------------------------------------------------------------------------
(* push()                                                                  *)

CallPush(p) ==
    /\ Goto(p, "idle", "testFull")
    /\ pushed[p] < MaxPushes
    /\ pushed' = [pushed EXCEPT ![p] = @ + 1]
    /\ UNCHANGED <<queue, free, latest, popped>>

\* Mutant: full() is taken for "one slot left".
TestFullEarly(p) ==
    /\ Goto(p, "testFull", IF Len(queue) + 1 >= QueueSize THEN "discard" ELSE "assign")
    /\ UNCHANGED <<queue, free, latest, pushed, popped>>

TestFull(p) ==
    /\ Goto(p, "testFull", IF Len(queue) = QueueSize THEN "discard" ELSE "assign")
    /\ UNCHANGED <<queue, free, latest, pushed, popped>>

\* try_get_for(forever): waits while the mailbox is empty.
Discard(p) ==
    /\ Goto(p, "discard", "freeDiscarded")
    /\ queue # <<>>
    /\ queue' = Tail(queue)
    /\ UNCHANGED <<free, latest, pushed, popped>>

FreeDiscarded(p) ==
    /\ Goto(p, "freeDiscarded", "assign")
    /\ free' = free + 1
    /\ UNCHANGED <<queue, latest, pushed, popped>>

Assign(p) ==
    /\ Goto(p, "assign", "alloc")
    /\ latest' = <<p, pushed[p]>>
    /\ UNCHANGED <<queue, free, pushed, popped>>

\* Mutant: the result of try_alloc() is not tested.
AllocUntested(p) ==
    /\ Goto(p, "alloc", "put")
    /\ free' = free - 1
    /\ UNCHANGED <<queue, latest, pushed, popped>>

Alloc(p) ==
    /\ Goto(p, "alloc", "put")
    /\ free > 0
    /\ free' = free - 1
    /\ UNCHANGED <<queue, latest, pushed, popped>>

\* try_alloc() fails: push() returns without the value.
AllocFails(p) ==
    /\ Goto(p, "alloc", "idle")
    /\ free = 0
    /\ UNCHANGED <<queue, free, latest, pushed, popped>>

\* Mutant: the value overtakes those in the queue.
PutFirst(p) ==
    /\ Goto(p, "put", "idle")
    /\ queue' = <<<<p, pushed[p]>>>> \o queue
    /\ UNCHANGED <<free, latest, pushed, popped>>

Put(p) ==
    /\ Goto(p, "put", "idle")
    /\ queue' = Append(queue, <<p, pushed[p]>>)
    /\ UNCHANGED <<free, latest, pushed, popped>>

-----------------------------------------------------------------------------
(* pop(); peek() reads latest and changes nothing.                         *)

\* try_get_for(forever) and the copy of the value.
Pop(c) ==
    /\ Goto(c, "idle", "freePopped")
    /\ queue # <<>>
    /\ queue' = Tail(queue)
    /\ popped' = Append(popped, Head(queue))
    /\ UNCHANGED <<free, latest, pushed>>

\* Mutant: the block is not given back.
PoppedLeaks(c) ==
    /\ Goto(c, "freePopped", "idle")
    /\ UNCHANGED <<queue, free, latest, pushed, popped>>

FreePopped(c) ==
    /\ Goto(c, "freePopped", "idle")
    /\ free' = free + 1
    /\ UNCHANGED <<queue, latest, pushed, popped>>

-----------------------------------------------------------------------------

PushStep(p) ==
    \/ TestFull(p) \/ Discard(p) \/ FreeDiscarded(p)
    \/ Assign(p) \/ Alloc(p) \/ AllocFails(p) \/ Put(p)

PopStep(c) == Pop(c) \/ FreePopped(c)

Next ==
    \/ \E p \in Pusher : CallPush(p) \/ PushStep(p)
    \/ \E c \in Popper : PopStep(c)

Spec == Init /\ [][Next]_vars

(* Every thread that can run is run, and the poppers pop all the time.     *)
Fairness ==
    /\ \A p \in Pusher : WF_vars(PushStep(p))
    /\ \A c \in Popper : WF_vars(PopStep(c))

FairSpec == Spec /\ Fairness

-----------------------------------------------------------------------------

TypeOK ==
    /\ queue \in Seq(Elements) /\ Len(queue) <= QueueSize
    /\ free \in 0 .. QueueSize
    /\ latest \in Elements \cup {NoValue}
    /\ pc \in [Thread -> {"idle", "testFull", "discard", "freeDiscarded",
                          "assign", "alloc", "put", "freePopped"}]
    /\ pushed \in [Pusher -> 0 .. MaxPushes]
    /\ popped \in Seq(Elements)

(* Every block is free, queued, or with one thread that will queue it or   *)
(* free it: however push and pop interleave, none is lost or freed twice.  *)
BlocksAccounted ==
    free + Len(queue)
         + Cardinality({t \in Thread : pc[t] \in {"put", "freeDiscarded", "freePopped"}})
    = QueueSize

(* Values may be lost, but what is popped, and then what is still queued,  *)
(* is in the order in which each thread pushed it, and never twice; and    *)
(* the value peek() returns is never behind these.                         *)
OrderKept ==
    LET all == popped \o queue
    IN  /\ \A i, j \in DOMAIN all :
              i < j /\ all[i][1] = all[j][1] => all[i][2] < all[j][2]
        /\ \A i \in DOMAIN all : latest[1] = all[i][1] => all[i][2] <= latest[2]

(* As long as one thread only has pushed and nothing was popped, the       *)
(* variable holds the newest values: the oldest were discarded, one per    *)
(* push.                                                                   *)
NewestKept ==
    \A p \in Pusher :
        LET n == pushed[p]
            k == IF n < QueueSize THEN n ELSE QueueSize
        IN  pc[p] = "idle" /\ popped = <<>> /\ (\A q \in Pusher \ {p} : pushed[q] = 0)
                => queue = [i \in 1 .. k |-> <<p, n - k + i>>]

(* The latest element is inserted into the queue: every value that is      *)
(* pushed gets into the mailbox, with poppers that never stop.             *)
PushInserts ==
    \A p \in Pusher : \A n \in 1 .. MaxPushes :
        pushed[p] = n ~> <<p, n>> \in ToSet(queue)
=============================================================================
