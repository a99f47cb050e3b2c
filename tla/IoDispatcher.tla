---------------------------- MODULE IoDispatcher ----------------------------
(***************************************************************************)
(* The request path shared by io/wire/WireDispatcher and                   *)
(* io/spi/SpiDispatcher: the device calls transfer(), read(), write() and  *)
(* writeThenRead() made by the sketches, instance(), dispatch() and        *)
(* destroy() under the static _mutex, the mailbox, the worker thread that  *)
(* alone talks to the bus, and IoResponse::done() and wait().              *)
(*                                                                         *)
(* The two dispatchers differ in what the worker does on the bus, which is *)
(* one step here (the modules SpiProcess and WireProcess detail it).       *)
(* rtos::Mail is a pool of QueueSize blocks and a queue of block pointers: *)
(* try_alloc() fails when no block is free, put() and free() never fail.   *)
(*                                                                         *)
(* A request is the IoRequest of a caller with, from dispatch() to the     *)
(* return of wait(), the IoResponse allocated for it.                      *)
(*                                                                         *)
(* destroy() deletes the dispatcher once the worker has left its loop.     *)
(* What is in the mailbox is forgotten, and a caller that got a reference  *)
(* from instance() before may use it afterwards: its pc is "dangling",     *)
(* where anything may happen, and the model ends for it.  So it is for a   *)
(* caller that uses a null response ("null").                              *)
(***************************************************************************)
EXTENDS Naturals, Sequences, FiniteSets

CONSTANTS Client,     \* the threads that use the bus
          Request,    \* the IoRequest objects
          OwnerOf,    \* the client each of them belongs to
          QueueSize,  \* REQUEST_QUEUE_SIZE
          Nobody,     \* the owner of a mutex that is free
          Worker,     \* the dispatcher's thread, as the owner of a mutex
          NoRequest

ASSUME QueueAssumption == QueueSize \in Nat \ {0}
ASSUME OwnerAssumption == OwnerOf \in [Request -> Client]
ASSUME NameAssumption == /\ Nobody \notin Client \cup {Worker}
                         /\ Worker \notin Client
                         /\ NoRequest \notin Request

VARIABLES
    instance,  \* _p_instance is not null
    started,   \* _has_tread_started
    terminate, \* _terminate_thread
    owner,     \* the owner of the static _mutex
    mailbox,   \* the requests whose transactions are queued
    free,      \* the number of free blocks of the mailbox
    worker,    \* where the worker thread is
    current,   \* the request of the worker's transaction
    rsp,       \* the IoResponse of each request
    out,       \* the requests dispatched whose wait() has not returned
    pc,        \* where each client is
    cur,       \* the request of the call a client is in
    sync       \* whether this call waits for the response

objectVars == <<instance, started, terminate>>
mailVars   == <<mailbox, free>>
workerVars == <<worker, current>>
rspVars    == <<rsp, out>>
callVars   == <<cur, sync>>
vars == <<objectVars, owner, mailVars, workerVars, rspVars, pc, callVars>>

\* A new impl::IoResponse: not done, its mutex free, nobody waiting on _cond.
NewResponse == [done |-> FALSE, owner |-> Nobody, waiting |-> FALSE]

\* The object is created by the first call, its mailbox empty.
Init ==
    /\ instance = FALSE /\ started = FALSE /\ terminate = FALSE
    /\ mailbox = <<>> /\ free = QueueSize
    /\ worker = "none"
    /\ owner = Nobody
    /\ current = NoRequest
    /\ rsp = [q \in Request |-> NewResponse]
    /\ out = {}
    /\ pc = [c \in Client |-> "idle"]
    /\ cur = [c \in Client |-> NoRequest]
    /\ sync = [c \in Client |-> FALSE]

Goto(c, from, to) ==
    /\ pc[c] = from
    /\ pc' = [pc EXCEPT ![c] = to]

Lock(c) == owner = Nobody /\ owner' = c

LockRsp(q, who) ==
    /\ rsp[q].owner = Nobody
    /\ rsp' = [rsp EXCEPT ![q].owner = who]

-----------------------------------------------------------------------------
(* The calls of the sketches.                                              *)

\* transfer() (s = FALSE), or a call that waits: read(), write(),
\* writeThenRead(), transferAndWait().
Call(c, q, s) ==
    /\ Goto(c, "idle", "instanceLock")
    /\ OwnerOf[q] = c
    /\ q \notin out
    /\ cur' = [cur EXCEPT ![c] = q]
    /\ sync' = [sync EXCEPT ![c] = s]
    /\ UNCHANGED <<objectVars, owner, mailVars, workerVars, rspVars>>

\* wait() on the response of an earlier transfer().
CallWait(c, q) ==
    /\ Goto(c, "idle", "waitLock")
    /\ OwnerOf[q] = c
    /\ q \in out
    /\ cur' = [cur EXCEPT ![c] = q]
    /\ UNCHANGED <<objectVars, owner, mailVars, workerVars, rspVars, sync>>

CallDestroy(c) ==
    /\ Goto(c, "idle", "destroyLock")
    /\ UNCHANGED <<objectVars, owner, mailVars, workerVars, rspVars, callVars>>

-----------------------------------------------------------------------------
(* instance()                                                              *)

InstanceLock(c) ==
    /\ Goto(c, "instanceLock", "instanceTest")
    /\ Lock(c)
    /\ UNCHANGED <<objectVars, mailVars, workerVars, rspVars, callVars>>

InstanceFound(c) ==
    /\ Goto(c, "instanceTest", "dispatchLock")
    /\ instance
    /\ owner' = Nobody
    /\ UNCHANGED <<objectVars, mailVars, workerVars, rspVars, callVars>>

\* The constructor: begin() starts the thread ...
InstanceCreate(c) ==
    /\ Goto(c, "instanceTest", "instanceSpin")
    /\ ~instance
    /\ worker' = "start"
    /\ UNCHANGED <<objectVars, owner, mailVars, current, rspVars, callVars>>

\* ... and spins until it runs.
InstanceStarted(c) ==
    /\ Goto(c, "instanceSpin", "dispatchLock")
    /\ started
    /\ instance' = TRUE
    /\ owner' = Nobody
    /\ UNCHANGED <<started, terminate, mailVars, workerVars, rspVars, callVars>>

-----------------------------------------------------------------------------
(* destroy()                                                               *)

\* There is nothing to delete.
DestroyNothing(c) ==
    /\ Goto(c, "destroyLock", "idle")
    /\ owner = Nobody
    /\ ~instance
    /\ UNCHANGED <<objectVars, owner, mailVars, workerVars, rspVars, callVars>>

\* The destructor: end() asks the worker to leave its loop ...
DestroyEnd(c) ==
    /\ Goto(c, "destroyLock", "destroyJoin")
    /\ Lock(c)
    /\ instance
    /\ terminate' = TRUE
    /\ UNCHANGED <<instance, started, mailVars, workerVars, rspVars, callVars>>

\* Mutant: the thread is not joined.
NotJoined == worker # "none"

\* ... and joins it.
Joined == worker = "exited"

\* The object is deleted with its mailbox, whoever has a reference to it.
DestroyDelete(c) ==
    /\ pc[c] = "destroyJoin"
    /\ Joined
    /\ instance' = FALSE /\ started' = FALSE /\ terminate' = FALSE
    /\ mailbox' = <<>> /\ free' = QueueSize
    /\ worker' = "none"
    /\ owner' = Nobody
    /\ pc' = [d \in Client |-> IF d = c THEN "idle"
                               ELSE IF pc[d] = "dispatchLock" THEN "dangling" ELSE pc[d]]
    /\ UNCHANGED <<current, rspVars, callVars>>

-----------------------------------------------------------------------------
(* dispatch()                                                              *)

DispatchLock(c) ==
    /\ Goto(c, "dispatchLock", "dispatchAlloc")
    /\ Lock(c)
    /\ UNCHANGED <<objectVars, mailVars, workerVars, rspVars, callVars>>

\* try_alloc() fails: the caller gets a null IoResponse.  The waiting calls use
\* it without a test, transfer() hands it to the sketch.
DispatchFull(c) ==
    /\ Goto(c, "dispatchAlloc", IF sync[c] THEN "null" ELSE "idle")
    /\ free = 0
    /\ owner' = Nobody
    /\ cur' = [cur EXCEPT ![c] = NoRequest]
    /\ UNCHANGED <<objectVars, mailVars, workerVars, rspVars, sync>>

DispatchAlloc(c) ==
    /\ Goto(c, "dispatchAlloc", "dispatchPut")
    /\ free > 0
    /\ free' = free - 1
    /\ UNCHANGED <<objectVars, owner, mailbox, workerVars, rspVars, callVars>>

DispatchPut(c) ==
    /\ Goto(c, "dispatchPut", IF sync[c] THEN "waitLock" ELSE "idle")
    /\ mailbox' = Append(mailbox, cur[c])
    /\ rsp' = [rsp EXCEPT ![cur[c]] = NewResponse]
    /\ out' = out \cup {cur[c]}
    /\ owner' = Nobody
    /\ cur' = [cur EXCEPT ![c] = IF sync[c] THEN @ ELSE NoRequest]
    /\ UNCHANGED <<objectVars, free, workerVars, sync>>

-----------------------------------------------------------------------------
(* IoResponse::wait()                                                      *)

WaitLock(c) ==
    /\ Goto(c, "waitLock", "waitTest")
    /\ LockRsp(cur[c], c)
    /\ UNCHANGED <<objectVars, owner, mailVars, workerVars, out, callVars>>

\* Mutant: wait() does not look at _is_done.
IgnoreDone(q) == TRUE

IsDone(q) == rsp[q].done

\* while (!_is_done)
WaitTest(c) ==
    /\ Goto(c, "waitTest", IF IsDone(cur[c]) THEN "waitReturn" ELSE "waitEnter")
    /\ UNCHANGED <<objectVars, owner, mailVars, workerVars, rspVars, callVars>>

\* _cond.wait()
WaitSleep(c) ==
    /\ Goto(c, "waitEnter", "waitSleep")
    /\ rsp' = [rsp EXCEPT ![cur[c]].owner = Nobody, ![cur[c]].waiting = TRUE]
    /\ UNCHANGED <<objectVars, owner, mailVars, workerVars, out, callVars>>

\* Mutant: `if` in place of `while`, and the wait returns without the mutex.
WaitWakeUnlocked(c) ==
    /\ Goto(c, "waitSleep", "waitReturn")
    /\ ~rsp[cur[c]].waiting
    /\ UNCHANGED <<objectVars, owner, mailVars, workerVars, rspVars, callVars>>

WaitWake(c) ==
    /\ Goto(c, "waitSleep", "waitTest")
    /\ ~rsp[cur[c]].waiting
    /\ LockRsp(cur[c], c)
    /\ UNCHANGED <<objectVars, owner, mailVars, workerVars, out, callVars>>

\* unlock() and the return to the sketch, which drops the response.
WaitReturn(c) ==
    /\ Goto(c, "waitReturn", "idle")
    /\ rsp' = [rsp EXCEPT ![cur[c]] = NewResponse]
    /\ out' = out \ {cur[c]}
    /\ cur' = [cur EXCEPT ![c] = NoRequest]
    /\ sync' = [sync EXCEPT ![c] = FALSE]
    /\ UNCHANGED <<objectVars, owner, mailVars, workerVars>>

-----------------------------------------------------------------------------
(* threadFunc() of the dispatcher, and IoResponse::done()                  *)

WorkerGoto(from, to) == worker = from /\ worker' = to

WorkerStart ==
    /\ WorkerGoto("start", "test")
    /\ started' = TRUE
    /\ UNCHANGED <<instance, terminate, owner, mailVars, current, rspVars, pc, callVars>>

\* Mutants: the flag is ignored, or inverted.
RunForever == TRUE
RunInverted == terminate

Running == ~terminate

\* while (!_terminate_thread)
WorkerTest ==
    /\ WorkerGoto("test", IF Running THEN "get" ELSE "exited")
    /\ UNCHANGED <<objectVars, owner, mailVars, current, rspVars, pc, callVars>>

\* try_get_for(forever) returns the oldest transaction.
WorkerGet ==
    /\ WorkerGoto("get", "process")
    /\ mailbox # <<>>
    /\ current' = Head(mailbox)
    /\ mailbox' = Tail(mailbox)
    /\ UNCHANGED <<objectVars, owner, free, rspVars, pc, callVars>>

\* The bus accesses; the byte counts are stored in the response.
WorkerProcess ==
    /\ WorkerGoto("process", "doneLock")
    /\ UNCHANGED <<objectVars, owner, mailVars, current, rspVars, pc, callVars>>

\* Mutant: done() does not take the mutex of the response.
WorkerDoneUnlocked ==
    /\ WorkerGoto("doneLock", "doneSet")
    /\ UNCHANGED <<objectVars, owner, mailVars, current, rspVars, pc, callVars>>

WorkerDoneLock ==
    /\ WorkerGoto("doneLock", "doneSet")
    /\ LockRsp(current, Worker)
    /\ UNCHANGED <<objectVars, owner, mailVars, current, out, pc, callVars>>

WorkerDoneSet ==
    /\ WorkerGoto("doneSet", "doneNotify")
    /\ rsp' = [rsp EXCEPT ![current].done = TRUE]
    /\ UNCHANGED <<objectVars, owner, mailVars, current, out, pc, callVars>>

\* Mutant: done() does not notify.
NotNotified == rsp

Notified == [rsp EXCEPT ![current].waiting = FALSE]

WorkerDoneNotify ==
    /\ WorkerGoto("doneNotify", "doneUnlock")
    /\ rsp' = Notified
    /\ UNCHANGED <<objectVars, owner, mailVars, current, out, pc, callVars>>

WorkerDoneUnlock ==
    /\ WorkerGoto("doneUnlock", "free")
    /\ rsp' = [rsp EXCEPT ![current].owner = Nobody]
    /\ UNCHANGED <<objectVars, owner, mailVars, current, out, pc, callVars>>

\* Mutants: the block is not given back, or given back twice.
NotFreed == free
FreedTwice == free + 2

Freed == free + 1

WorkerFree ==
    /\ WorkerGoto("free", "test")
    /\ free' = Freed
    /\ current' = NoRequest
    /\ UNCHANGED <<objectVars, owner, mailbox, rspVars, pc, callVars>>

-----------------------------------------------------------------------------

InstanceStep(c) ==
    \/ InstanceFound(c) \/ InstanceCreate(c) \/ InstanceStarted(c)

DispatchStep(c) ==
    \/ DispatchFull(c) \/ DispatchAlloc(c) \/ DispatchPut(c)

WaitStep(c) ==
    \/ WaitLock(c) \/ WaitTest(c) \/ WaitSleep(c) \/ WaitWake(c) \/ WaitReturn(c)

ClientStep(c) == InstanceStep(c) \/ DispatchStep(c) \/ WaitStep(c) \/ DestroyDelete(c)

TakeMutex(c) ==
    \/ InstanceLock(c) \/ DispatchLock(c) \/ DestroyNothing(c) \/ DestroyEnd(c)

WorkerStep ==
    \/ WorkerStart \/ WorkerTest \/ WorkerGet \/ WorkerProcess
    \/ WorkerDoneLock \/ WorkerDoneSet \/ WorkerDoneNotify \/ WorkerDoneUnlock
    \/ WorkerFree

Next ==
    \/ \E c \in Client, q \in Request : CallWait(c, q)
    \/ \E c \in Client, q \in Request, s \in BOOLEAN : Call(c, q, s)
    \/ \E c \in Client : CallDestroy(c) \/ TakeMutex(c) \/ ClientStep(c)
    \/ WorkerStep

(***************************************************************************)
(* Every thread that can run is run.  The RTOS hands a released mutex to   *)
(* the thread that has waited longest among those of its priority, and all *)
(* sketches have the same priority: who waits for _mutex gets it.  Nobody  *)
(* has to call, or to wait for a response.                                 *)
(***************************************************************************)
Fairness ==
    /\ \A c \in Client : SF_vars(TakeMutex(c)) /\ WF_vars(ClientStep(c))
    /\ WF_vars(WorkerStep)

Spec == Init /\ [][Next]_vars

FairSpec == Spec /\ Fairness

-----------------------------------------------------------------------------

ClientPc == {"idle", "instanceLock", "instanceTest", "instanceSpin",
             "dispatchLock", "dispatchAlloc", "dispatchPut",
             "waitLock", "waitTest", "waitEnter", "waitSleep", "waitReturn",
             "destroyLock", "destroyJoin", "null", "dangling"}

WorkerPc == {"none", "start", "test", "get", "process", "doneLock", "doneSet",
             "doneNotify", "doneUnlock", "free", "exited"}

TypeOK ==
    /\ instance \in BOOLEAN /\ started \in BOOLEAN /\ terminate \in BOOLEAN
    /\ owner \in Client \cup {Nobody}
    /\ mailbox \in Seq(Request)
    /\ free \in 0 .. QueueSize
    /\ worker \in WorkerPc
    /\ current \in Request \cup {NoRequest}
    /\ rsp \in [Request -> [done : BOOLEAN, waiting : BOOLEAN,
                            owner : Client \cup {Worker, Nobody}]]
    /\ out \subseteq Request
    /\ pc \in [Client -> ClientPc]
    /\ cur \in [Client -> Request \cup {NoRequest}]
    /\ sync \in [Client -> BOOLEAN]

HoldsBlock == {"process", "doneLock", "doneSet", "doneNotify", "doneUnlock", "free"}

(* Every block of the mailbox is free, queued, being filled by the client  *)
(* in dispatch(), or with the worker: none leaks and none is freed twice,  *)
(* also in the mailbox of a dispatcher made after a destroy().             *)
BlocksAccounted ==
    free + Len(mailbox)
         + Cardinality({c \in Client : pc[c] = "dispatchPut"})
         + (IF worker \in HoldsBlock THEN 1 ELSE 0) = QueueSize

(* The worker never touches an IoRequest or a config after the call that   *)
(* owns them on its stack has returned.                                    *)
RequestOutlivesTransaction ==
    /\ \A i \in DOMAIN mailbox : mailbox[i] \in out
    /\ worker \in HoldsBlock \ {"free"} => current \in out

(* A caller sleeping in wait() is still to be notified.                    *)
NoLostCompletion ==
    \A q \in Request :
        rsp[q].waiting => \/ ~rsp[q].done
                          \/ worker = "doneNotify" /\ current = q

(* _mutex and the mutex of each response admit one thread.                 *)
MutualExclusion ==
    /\ \A c \in Client :
         owner = c <=> pc[c] \in {"instanceTest", "instanceSpin", "dispatchAlloc",
                                  "dispatchPut", "destroyJoin"}
    /\ \A q \in Request :
         /\ \A c \in Client : rsp[q].owner = c
                              <=> pc[c] \in {"waitTest", "waitEnter", "waitReturn"} /\ cur[c] = q
         /\ rsp[q].owner = Worker
              <=> worker \in {"doneSet", "doneNotify", "doneUnlock"} /\ current = q

\* A request whose transaction was in the mailbox when destroy() deleted it.
Forgotten(q) ==
    /\ q \in out /\ ~rsp[q].done /\ current # q
    /\ \A i \in DOMAIN mailbox : mailbox[i] # q

(* dispatch() returns a null response only while as many requests as there *)
(* are blocks are under way, the block the worker is about to give back    *)
(* counting as one of them.                                                *)
NullOnlyWhenFull ==
    \A c \in Client :
        pc[c] = "dispatchAlloc" /\ free = 0 =>
            Cardinality({q \in out : ~Forgotten(q)})
                + (IF worker = "free" THEN 1 ELSE 0) >= QueueSize

-----------------------------------------------------------------------------

\* A request is complete once _is_done is set.
StateOf(q) ==
    CASE q \notin out -> "idle"
      [] q \in out /\ ~rsp[q].done -> "submitted"
      [] q \in out /\ rsp[q].done -> "complete"

OnBus == {"process", "doneLock", "doneSet"}

Service == INSTANCE IoService WITH
               pending <- mailbox,
               active  <- IF worker \in OnBus THEN {current} ELSE {},
               state   <- [q \in Request |-> StateOf(q)]

(* The dispatcher carries out each accepted request once, one at a time,   *)
(* in the order of the calls, and wait() returns only after that.  Only a  *)
(* destroy() drops requests, and never one that is on the bus.             *)
RefinesService == Service!Spec

(* Requests pending on the bus are carried out or dropped.                 *)
ServiceProgress == Service!Progress

\* A destroy() waits for a worker that sleeps in try_get_for(), with nobody left
\* to wake it: dispatch() would need the mutex.
Hung == worker = "get" /\ mailbox = <<>> /\ \E c \in Client : pc[c] = "destroyJoin"

(* A call that began ends, whatever the other clients do, with these       *)
(* exceptions: it met a null response or was left with a dangling          *)
(* reference, it waits for a request that destroy() forgot, or a destroy() *)
(* hangs.                                                                  *)
CallsReturn ==
    \A c \in Client :
        pc[c] # "idle" ~> \/ pc[c] \in {"idle", "null", "dangling"}
                         \/ Hung
                         \/ (cur[c] # NoRequest /\ Forgotten(cur[c]))

(* A destroy() that finds the worker busy, or a request for it, returns.   *)
DestroyReturns ==
    \A c \in Client :
        pc[c] = "destroyJoin" /\ (worker \in HoldsBlock \/ mailbox # <<>>) ~> pc[c] = "idle"
=============================================================================
