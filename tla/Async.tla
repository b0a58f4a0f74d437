-------------------------------- MODULE Async --------------------------------
(***************************************************************************)
(* common/util/async.c: a one-slot mailbox through which the threads of    *)
(* the game hand overlapped requests to a worker thread.                   *)
(*                                                                         *)
(* What happens inside async->lock is one step: no thread sees it half     *)
(* way, except where SleepConditionVariableCS gives the lock up.  The lock *)
(* itself is needed only for the path that returns without leaving it.     *)
(* Every OVERLAPPED has an event, which the game resets before it issues   *)
(* the request.                                                            *)
(***************************************************************************)
EXTENDS Naturals, Sequences

CONSTANTS
  Submitter,      (* threads of the game that call async_submit            *)
  Ovl,            (* the OVERLAPPED structures of the game                 *)
  ThreadMayFail,  (* _beginthreadex may fail                               *)
  Nobody, NULL

ASSUME AsyncAssumption ==
  /\ ThreadMayFail \in BOOLEAN
  /\ NULL \notin Ovl
  /\ Nobody \notin Submitter

VARIABLES
  held,      (* who left async_submit with the lock still taken            *)
  task,      (* the request in the slot: async->task, async->irp           *)
  stop,      (* async->stop                                                *)
  finished,  (* async_fini has returned                                    *)
  wpc,       (* where the worker is                                        *)
  irp,       (* the worker's copy of the request                           *)
  pc,        (* where each submitter is                                    *)
  request,   (* the request it is submitting                               *)
  internal,  (* OVERLAPPED.Internal                                        *)
  event      (* OVERLAPPED.hEvent is set                                   *)

mailbox == <<held, task, stop, finished>>
worker == <<wpc, irp>>
callers == <<pc, request>>
overlapped == <<internal, event>>
vars == <<mailbox, worker, callers, overlapped>>

Init ==
  /\ held = Nobody
  /\ task = NULL
  /\ stop = FALSE
  /\ finished = FALSE
  /\ wpc = "none"
  /\ irp = NULL
  /\ pc = [s \in Submitter |-> "idle"]
  /\ request = [s \in Submitter |-> NULL]
  /\ internal = [o \in Ovl |-> "success"]
  /\ event = [o \in Ovl |-> FALSE]

-----------------------------------------------------------------------------
(* async_submit.                                                           *)

(* The game issues a request.  It does not reuse an OVERLAPPED before it   *)
(* has seen its answer, and issues none once async_fini is called.         *)
Call(s, o) ==
  /\ pc[s] = "idle" /\ ~stop
  /\ internal[o] # "pending"
  /\ \A other \in Submitter : request[other] # o
  /\ pc' = [pc EXCEPT ![s] = "lock"]
  /\ request' = [request EXCEPT ![s] = o]
  /\ event' = [event EXCEPT ![o] = FALSE]
  /\ UNCHANGED <<mailbox, worker, internal>>

(* A request with no OVERLAPPED runs on the caller's own thread.           *)
CallDirect(s) ==
  /\ pc[s] = "idle" /\ ~stop
  /\ pc' = [pc EXCEPT ![s] = "direct"]
  /\ UNCHANGED <<mailbox, worker, request, overlapped>>

ReturnDirect(s) ==
  /\ pc[s] = "direct"
  /\ pc' = [pc EXCEPT ![s] = "idle"]
  /\ UNCHANGED <<mailbox, worker, request, overlapped>>

AtLock(s) == pc[s] = "lock" /\ held \in {Nobody, s}

(* The worker cannot be started: an error return from inside the lock.     *)
SubmitFails(s) ==
  /\ AtLock(s)
  /\ wpc = "none" /\ ThreadMayFail
  /\ held' = s
  /\ pc' = [pc EXCEPT ![s] = "idle"]
  /\ request' = [request EXCEPT ![s] = NULL]
  /\ UNCHANGED <<task, stop, finished, worker, overlapped>>

SubmitWaits(s) ==
  /\ AtLock(s)
  /\ task # NULL
  /\ pc' = [pc EXCEPT ![s] = "asleep"]
  /\ UNCHANGED <<mailbox, worker, request, overlapped>>

(* Broken: does not wait for the slot to be empty.                         *)
SubmitOverwrites(s) ==
  /\ AtLock(s)
  /\ task' = request[s]
  /\ internal' = [internal EXCEPT ![request[s]] = "pending"]
  /\ wpc' = IF wpc \in {"none", "asleep"} THEN "top" ELSE wpc
  /\ pc' = [pc EXCEPT ![s] = "idle"]
  /\ request' = [request EXCEPT ![s] = NULL]
  /\ UNCHANGED <<held, stop, finished, irp, event>>

(* Broken: fills the slot without waking the worker.                       *)
SubmitWakesNobody(s) ==
  /\ AtLock(s) /\ task = NULL
  /\ task' = request[s]
  /\ internal' = [internal EXCEPT ![request[s]] = "pending"]
  /\ wpc' = IF wpc = "none" THEN "top" ELSE wpc
  /\ pc' = [pc EXCEPT ![s] = "idle"]
  /\ request' = [request EXCEPT ![s] = NULL]
  /\ UNCHANGED <<held, stop, finished, irp, event>>

(* Starts the worker if there is none, fills the slot, wakes the worker.   *)
SubmitFills(s) ==
  /\ AtLock(s)
  /\ task = NULL
  /\ task' = request[s]
  /\ internal' = [internal EXCEPT ![request[s]] = "pending"]
  /\ wpc' = IF wpc \in {"none", "asleep"} THEN "top" ELSE wpc
  /\ pc' = [pc EXCEPT ![s] = "idle"]
  /\ request' = [request EXCEPT ![s] = NULL]
  /\ UNCHANGED <<held, stop, finished, irp, event>>

-----------------------------------------------------------------------------
(* async_thread_proc.                                                      *)

WorkerExits ==
  /\ wpc = "top" /\ held = Nobody
  /\ stop
  /\ wpc' = "exited"
  /\ UNCHANGED <<mailbox, irp, callers, overlapped>>

WorkerSleeps ==
  /\ wpc = "top" /\ held = Nobody
  /\ ~stop /\ task = NULL
  /\ wpc' = "asleep"
  /\ UNCHANGED <<mailbox, irp, callers, overlapped>>

(* WakeConditionVariable(&async->avail): any one of the sleepers.          *)
WakeOneSubmitter ==
  \/ /\ \A s \in Submitter : pc[s] # "asleep"
     /\ UNCHANGED pc
  \/ \E s \in Submitter :
       /\ pc[s] = "asleep"
       /\ pc' = [pc EXCEPT ![s] = "lock"]

(* Broken: takes without testing again after it was woken.                 *)
WorkerTakesUnchecked ==
  /\ wpc = "top" /\ held = Nobody /\ ~stop
  /\ irp' = task
  /\ task' = NULL
  /\ WakeOneSubmitter
  /\ wpc' = "run"
  /\ UNCHANGED <<held, stop, finished, request, overlapped>>

WorkerTakes ==
  /\ wpc = "top" /\ held = Nobody
  /\ ~stop /\ task # NULL
  /\ irp' = task
  /\ task' = NULL
  /\ WakeOneSubmitter
  /\ wpc' = "run"
  /\ UNCHANGED <<held, stop, finished, request, overlapped>>

(* Broken: stores the status first and loads ovl->hEvent afterwards.       *)
RunThenStore ==
  /\ wpc = "run"
  /\ wpc' = "load"
  /\ internal' = [internal EXCEPT ![irp] = "success"]
  /\ UNCHANGED <<mailbox, irp, callers, event>>

(* The task runs outside the lock; InternalHigh is written in *ovl.        *)
WorkerRuns ==
  /\ wpc = "run"
  /\ wpc' = "load"
  /\ UNCHANGED <<mailbox, irp, callers, overlapped>>

(* The local copy of ovl->hEvent, then the memory fence.                   *)
WorkerLoadsEvent ==
  /\ wpc = "load"
  /\ wpc' = "store"
  /\ UNCHANGED <<mailbox, irp, callers, overlapped>>

WorkerStores ==
  /\ wpc = "store"
  /\ \E status \in {"success", "error"} :
       internal' = [internal EXCEPT ![irp] = status]
  /\ wpc' = "signal"
  /\ UNCHANGED <<mailbox, irp, callers, event>>

WorkerSignals ==
  /\ wpc = "signal"
  /\ event' = [event EXCEPT ![irp] = TRUE]
  /\ wpc' = "top"
  /\ irp' = NULL
  /\ UNCHANGED <<mailbox, callers, internal>>

(* A condition variable may wake its sleepers for no reason.               *)
SpuriousWakeup ==
  \/ /\ wpc = "asleep"
     /\ wpc' = "top"
     /\ UNCHANGED <<mailbox, irp, callers, overlapped>>
  \/ \E s \in Submitter :
       /\ pc[s] = "asleep"
       /\ pc' = [pc EXCEPT ![s] = "lock"]
       /\ UNCHANGED <<mailbox, worker, request, overlapped>>

-----------------------------------------------------------------------------
(* async_fini, called when no thread is inside async_submit.               *)

(* Broken: does not wake the worker.                                       *)
FiniStopsSilently ==
  /\ ~stop /\ held = Nobody
  /\ \A s \in Submitter : pc[s] = "idle"
  /\ stop' = TRUE
  /\ UNCHANGED <<held, task, finished, worker, callers, overlapped>>

FiniStops ==
  /\ ~stop /\ held = Nobody
  /\ \A s \in Submitter : pc[s] = "idle"
  /\ stop' = TRUE
  /\ wpc' = IF wpc = "asleep" THEN "top" ELSE wpc
  /\ UNCHANGED <<held, task, finished, irp, callers, overlapped>>

(* Broken: does not wait for the worker.                                   *)
FiniReturnsEarly ==
  /\ stop /\ ~finished
  /\ finished' = TRUE
  /\ UNCHANGED <<held, task, stop, worker, callers, overlapped>>

(* The wait for the worker (there is nothing to wait for if none started). *)
FiniReturns ==
  /\ stop /\ ~finished
  /\ wpc \in {"none", "exited"}
  /\ finished' = TRUE
  /\ UNCHANGED <<held, task, stop, worker, callers, overlapped>>

-----------------------------------------------------------------------------
Submit(s) ==
  \/ \E o \in Ovl : Call(s, o)
  \/ CallDirect(s)
  \/ ReturnDirect(s)
  \/ SubmitFails(s)
  \/ SubmitWaits(s)
  \/ SubmitFills(s)

Worker ==
  \/ WorkerExits
  \/ WorkerSleeps
  \/ WorkerTakes
  \/ WorkerRuns
  \/ WorkerLoadsEvent
  \/ WorkerStores
  \/ WorkerSignals

Fini == FiniStops \/ FiniReturns

Next ==
  \/ \E s \in Submitter : Submit(s)
  \/ Worker
  \/ SpuriousWakeup
  \/ Fini

Spec == Init /\ [][Next]_vars

(* The worker is scheduled and async_fini returns when it can; the game    *)
(* need not do anything, nor need a condition variable wake spuriously.    *)
FairSpec == Spec /\ WF_vars(Worker) /\ WF_vars(FiniReturns)

-----------------------------------------------------------------------------
(* Properties.                                                             *)

Busy == wpc \in {"run", "load", "store", "signal"}
InHand == wpc \in {"run", "load", "store"}

TypeOK ==
  /\ held \in Submitter \cup {Nobody}
  /\ task \in Ovl \cup {NULL}
  /\ stop \in BOOLEAN
  /\ finished \in BOOLEAN
  /\ wpc \in {"none", "top", "asleep", "run", "load", "store", "signal", "exited"}
  /\ irp \in IF Busy THEN Ovl ELSE {NULL}
  /\ pc \in [Submitter -> {"idle", "lock", "asleep", "direct"}]
  /\ request \in [Submitter -> Ovl \cup {NULL}]
  /\ internal \in [Ovl -> {"pending", "success", "error"}]
  /\ event \in [Ovl -> BOOLEAN]

(* The comment in async_thread_proc: once Internal is stored, the memory   *)
(* ovl points to ceases to be accessible.  Wherever the worker still needs *)
(* *ovl, the game cannot have been told that the request is over.          *)
OverlappedIsLive == InHand => internal[irp] = "pending"

(* No wake-up is lost, on either condition variable: the worker does not   *)
(* sleep on a full slot or through async_fini, and submitters do not sleep *)
(* on an empty slot unless one of them is on its way to fill it.           *)
NoLostWakeup ==
  /\ wpc = "asleep" => task = NULL /\ ~stop
  /\ task = NULL /\ (\E s \in Submitter : pc[s] = "asleep")
       => \E s \in Submitter : pc[s] = "lock"

(* After async_fini has returned, nothing more happens to the game's       *)
(* OVERLAPPED structures (the lock is deleted, ctx may go away).           *)
NothingAfterFini == [][finished => UNCHANGED <<internal, event>>]_vars

(* The mailbox implements the contract of overlapped reads: the request in *)
(* the worker's hands and the one in the slot are its queue.               *)
InHands == IF InHand THEN <<irp>> ELSE <<>>
Queue == IF task = NULL THEN InHands ELSE Append(InHands, task)

Contract == INSTANCE OverlappedReads WITH
  Port <- {NULL},
  queue <- [p \in {NULL} |-> Queue],
  ovl <- [o \in Ovl |-> IF internal[o] = "pending" THEN "pending" ELSE "success"]

ImplementsOverlappedReads == Contract!Spec

(* io4.c relies on it: the event of a request that returned pending is set *)
(* "a little bit later", unless async_fini intervenes.                     *)
AnswerIsSignalled ==
  \A o \in Ovl : internal[o] = "pending" ~> event[o] \/ stop

(* It is so for any number of submitters, unless the worker could not be   *)
(* started and a submitter left with the lock.                             *)
AnswerUnlessLeaked ==
  \A o \in Ovl : internal[o] = "pending" ~> event[o] \/ stop \/ held # Nobody

(* async_fini does not wait for ever: the worker notices the stop flag.    *)
FiniTerminates == stop ~> finished

(* The mailbox holds at most one request, its worker looks at no           *)
(* OVERLAPPED that the game may have taken back, and no wake-up is lost on *)
(* either condition variable.                                              *)
MailboxIsSafe ==
  /\ TypeOK
  /\ OverlappedIsLive
  /\ NoLostWakeup

(* Each request that was accepted is signalled, unless the worker could    *)
(* not be started, and async_fini returns.                                 *)
EveryCallEnds ==
  /\ AnswerUnlessLeaked
  /\ FiniTerminates

=============================================================================
