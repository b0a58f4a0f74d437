----------------------------- MODULE AsyncProofs -----------------------------
(***************************************************************************)
(* What holds of Async for every number of submitters and requests,        *)
(* whether or not the worker can be started.                               *)
(***************************************************************************)
EXTENDS Async, TLAPS

-----------------------------------------------------------------------------
(* The inductive invariant.                                                *)

(* A submitter inside async_submit has a request of its own, and nobody    *)
(* else's; one that is asleep shows that the worker was started.           *)
CallerInv ==
  /\ \A s \in Submitter : pc[s] \in {"lock", "asleep"} <=> request[s] # NULL
  /\ \A s \in Submitter : request[s] # NULL => internal[request[s]] # "pending"
  /\ \A s, t \in Submitter : s # t /\ request[s] # NULL => request[s] # request[t]
  /\ \A s \in Submitter : pc[s] = "asleep" => wpc # "none"

(* A request is pending exactly while it is in the slot or in the worker's *)
(* hands, and never in both.                                               *)
PendingInv ==
  /\ \A o \in Ovl : internal[o] = "pending" <=> o = task \/ (InHand /\ o = irp)
  /\ InHand /\ task # NULL => task # irp
  /\ task # NULL => wpc # "none"

(* async_fini is called when nobody is inside async_submit.                *)
FiniInv ==
  /\ stop => \A s \in Submitter : pc[s] = "idle"
  /\ finished => stop /\ wpc \in {"none", "exited"}
  /\ wpc = "exited" => stop

IInv == TypeOK /\ CallerInv /\ PendingInv /\ FiniInv /\ NoLostWakeup

-----------------------------------------------------------------------------
LEMMA TypeStep == IInv /\ [Next]_vars => TypeOK'
<1> SUFFICES ASSUME IInv, [Next]_vars PROVE TypeOK'
  OBVIOUS
<1> USE AsyncAssumption
    DEF IInv, TypeOK, Busy, InHand, mailbox, worker, callers, overlapped
<1>1. ASSUME NEW s \in Submitter, Submit(s) PROVE TypeOK'
  <2>1. ASSUME NEW o \in Ovl, Call(s, o) PROVE TypeOK'
    BY <2>1 DEF Call
  <2>2. CASE CallDirect(s)
    BY <2>2 DEF CallDirect
  <2>3. CASE ReturnDirect(s)
    BY <2>3 DEF ReturnDirect
  <2>4. CASE SubmitFails(s)
    BY <2>4 DEF SubmitFails
  <2>5. CASE SubmitWaits(s)
    BY <2>5 DEF SubmitWaits
  <2>6. CASE SubmitFills(s)
    <3>1. request[s] \in Ovl
      BY <2>6 DEF SubmitFills, AtLock, CallerInv
    <3>2. QED
      BY <2>6, <3>1 DEF SubmitFills
  <2>7. QED
    BY <1>1, <2>1, <2>2, <2>3, <2>4, <2>5, <2>6 DEF Submit
<1>2. CASE WorkerTakes
  BY <1>2 DEF WorkerTakes, WakeOneSubmitter
<1>3. CASE WorkerStores
  BY <1>3 DEF WorkerStores
<1>4. CASE WorkerSignals
  BY <1>4 DEF WorkerSignals
<1>5. CASE SpuriousWakeup
  BY <1>5 DEF SpuriousWakeup
<1>6. CASE WorkerExits \/ WorkerSleeps \/ WorkerRuns \/ WorkerLoadsEvent
  BY <1>6 DEF WorkerExits, WorkerSleeps, WorkerRuns, WorkerLoadsEvent
<1>7. CASE Fini
  BY <1>7 DEF Fini, FiniStops, FiniReturns
<1>8. CASE UNCHANGED vars
  BY <1>8 DEF vars
<1>9. QED
  BY <1>1, <1>2, <1>3, <1>4, <1>5, <1>6, <1>7, <1>8 DEF Next, Worker

LEMMA CallerStep == IInv /\ [Next]_vars => CallerInv'
<1> SUFFICES ASSUME IInv, [Next]_vars PROVE CallerInv'
  OBVIOUS
<1> USE AsyncAssumption DEF IInv, TypeOK, CallerInv, mailbox, worker, callers, overlapped
<1>1. ASSUME NEW s \in Submitter, Submit(s) PROVE CallerInv'
  <2>1. ASSUME NEW o \in Ovl, Call(s, o) PROVE CallerInv'
    BY <2>1 DEF Call
  <2>2. CASE CallDirect(s)
    BY <2>2 DEF CallDirect
  <2>3. CASE ReturnDirect(s)
    BY <2>3 DEF ReturnDirect
  <2>4. CASE SubmitFails(s)
    BY <2>4 DEF SubmitFails, AtLock
  <2>5. CASE SubmitWaits(s)
    BY <2>5 DEF SubmitWaits, AtLock, PendingInv
  <2>6. CASE SubmitFills(s)
    BY <2>6 DEF SubmitFills, AtLock
  <2>7. QED
    BY <1>1, <2>1, <2>2, <2>3, <2>4, <2>5, <2>6 DEF Submit
<1>2. CASE WorkerTakes
  BY <1>2 DEF WorkerTakes, WakeOneSubmitter
<1>3. CASE WorkerStores
  <2>1. PICK status \in {"success", "error"} : internal' = [internal EXCEPT ![irp] = status]
    BY <1>3 DEF WorkerStores
  <2>2. UNCHANGED <<pc, request>> /\ wpc' = "signal"
    BY <1>3 DEF WorkerStores
  <2>3. QED
    BY <2>1, <2>2
<1>4. CASE SpuriousWakeup
  BY <1>4 DEF SpuriousWakeup
<1>5. CASE WorkerExits \/ WorkerSleeps \/ WorkerRuns \/ WorkerLoadsEvent \/ WorkerSignals
  BY <1>5 DEF WorkerExits, WorkerSleeps, WorkerRuns, WorkerLoadsEvent, WorkerSignals
<1>6. CASE Fini
  BY <1>6 DEF Fini, FiniStops, FiniReturns
<1>7. CASE UNCHANGED vars
  BY <1>7 DEF vars
<1>8. QED
  BY <1>1, <1>2, <1>3, <1>4, <1>5, <1>6, <1>7 DEF Next, Worker

LEMMA PendingStep == IInv /\ [Next]_vars => PendingInv'
<1> SUFFICES ASSUME IInv, [Next]_vars PROVE PendingInv'
  OBVIOUS
<1> USE AsyncAssumption
    DEF IInv, TypeOK, Busy, PendingInv, InHand, mailbox, worker, callers, overlapped
<1>1. ASSUME NEW s \in Submitter, SubmitFills(s) PROVE PendingInv'
  <2>1. request[s] \in Ovl /\ internal[request[s]] # "pending"
    BY <1>1 DEF SubmitFills, AtLock, CallerInv
  <2>2. QED
    BY <1>1, <2>1 DEF SubmitFills
<1>2. CASE WorkerTakes
  BY <1>2 DEF WorkerTakes
<1>3. CASE WorkerStores
  BY <1>3 DEF WorkerStores
<1>4. CASE WorkerExits \/ WorkerSleeps \/ WorkerRuns \/ WorkerLoadsEvent \/ WorkerSignals
  BY <1>4 DEF WorkerExits, WorkerSleeps, WorkerRuns, WorkerLoadsEvent, WorkerSignals
<1>5. CASE SpuriousWakeup
  BY <1>5 DEF SpuriousWakeup
<1>6. CASE FiniStops
  BY <1>6 DEF FiniStops
<1>7. ASSUME UNCHANGED <<internal, task, wpc, irp>> PROVE PendingInv'
  BY <1>7
<1>8. QED
  BY <1>1, <1>2, <1>3, <1>4, <1>5, <1>6, <1>7
   DEF Next, Worker, Submit, Fini, vars, Call, CallDirect, ReturnDirect,
    SubmitFails, SubmitWaits, FiniReturns

LEMMA FiniStep == IInv /\ [Next]_vars => FiniInv'
<1> SUFFICES ASSUME IInv, [Next]_vars PROVE FiniInv'
  OBVIOUS
<1> USE DEF IInv, TypeOK, FiniInv, mailbox, worker, callers, overlapped
<1>1. ASSUME NEW s \in Submitter, Submit(s) PROVE FiniInv'
  BY <1>1 DEF Submit, Call, CallDirect, ReturnDirect, SubmitFails, SubmitWaits,
    SubmitFills, AtLock
<1>2. CASE Worker
  BY <1>2 DEF Worker, WorkerExits, WorkerSleeps, WorkerTakes, WakeOneSubmitter,
    WorkerRuns, WorkerLoadsEvent, WorkerStores, WorkerSignals
<1>3. CASE SpuriousWakeup
  BY <1>3 DEF SpuriousWakeup
<1>4. CASE Fini
  BY <1>4 DEF Fini, FiniStops, FiniReturns
<1>5. CASE UNCHANGED vars
  BY <1>5 DEF vars
<1>6. QED
  BY <1>1, <1>2, <1>3, <1>4, <1>5 DEF Next

LEMMA WakeupStep == IInv /\ [Next]_vars => NoLostWakeup'
<1> SUFFICES ASSUME IInv, [Next]_vars PROVE NoLostWakeup'
  OBVIOUS
<1> USE AsyncAssumption DEF IInv, TypeOK, NoLostWakeup, mailbox, worker, callers, overlapped
<1>1. ASSUME NEW s \in Submitter, Submit(s) PROVE NoLostWakeup'
  <2>1. ASSUME NEW o \in Ovl, Call(s, o) PROVE NoLostWakeup'
    BY <2>1 DEF Call
  <2>2. CASE CallDirect(s)
    BY <2>2 DEF CallDirect
  <2>3. CASE ReturnDirect(s)
    BY <2>3 DEF ReturnDirect
  <2>4. CASE SubmitFails(s)
    BY <2>4 DEF SubmitFails, CallerInv
  <2>5. CASE SubmitWaits(s)
    BY <2>5 DEF SubmitWaits
  <2>6. CASE SubmitFills(s)
    BY <2>6 DEF SubmitFills, AtLock, CallerInv
  <2>7. QED
    BY <1>1, <2>1, <2>2, <2>3, <2>4, <2>5, <2>6 DEF Submit
<1>2. CASE WorkerTakes
  BY <1>2 DEF WorkerTakes, WakeOneSubmitter
<1>3. CASE SpuriousWakeup
  BY <1>3 DEF SpuriousWakeup
<1>4. CASE Worker /\ ~WorkerTakes
  BY <1>4 DEF Worker, WorkerExits, WorkerSleeps, WorkerRuns, WorkerLoadsEvent,
    WorkerStores, WorkerSignals
<1>5. CASE Fini
  BY <1>5 DEF Fini, FiniStops, FiniReturns
<1>6. CASE UNCHANGED vars
  BY <1>6 DEF vars
<1>7. QED
  BY <1>1, <1>2, <1>3, <1>4, <1>5, <1>6 DEF Next

(* The invariant holds throughout.                                         *)
LEMMA IInvInvariant == Spec => []IInv
<1>1. Init => IInv
  BY AsyncAssumption DEF Init, IInv, TypeOK, Busy, InHand, CallerInv, PendingInv, FiniInv,
    NoLostWakeup
<1>2. IInv /\ [Next]_vars => IInv'
  BY TypeStep, CallerStep, PendingStep, FiniStep, WakeupStep DEF IInv
<1>3. QED
  BY <1>1, <1>2, PTL DEF Spec

-----------------------------------------------------------------------------
(* Every variable keeps its type; the worker never runs without a request. *)
THEOREM TypeCorrect == Spec => []TypeOK
<1>1. IInv => TypeOK
  BY DEF IInv
<1>2. QED
  BY <1>1, IInvInvariant, PTL

(* The worker of async_thread_proc does not look at *ovl once the game may *)
(* have taken it back.                                                     *)
THEOREM OverlappedsAreLive == Spec => []OverlappedIsLive
<1>1. IInv => OverlappedIsLive
  BY DEF IInv, TypeOK, Busy, PendingInv, OverlappedIsLive, InHand
<1>2. QED
  BY <1>1, IInvInvariant, PTL

(* Neither condition variable loses a wake-up.                             *)
THEOREM WakeupsAreNotLost == Spec => []NoLostWakeup
<1>1. IInv => NoLostWakeup
  BY DEF IInv
<1>2. QED
  BY <1>1, IInvInvariant, PTL

(* Nothing happens to the game's requests once async_fini has returned.    *)
THEOREM FiniIsFinal == Spec => NothingAfterFini
<1>1. IInv /\ [Next]_vars => [finished => UNCHANGED <<internal, event>>]_vars
  <2> SUFFICES ASSUME IInv, [Next]_vars, finished
               PROVE  UNCHANGED <<internal, event>>
    OBVIOUS
  <2>1. /\ wpc \in {"none", "exited"}
        /\ stop
        /\ \A s \in Submitter : pc[s] = "idle"
    BY DEF IInv, FiniInv
  <2>2. QED
    BY <2>1 DEF Next, Submit, Worker, Fini, vars, overlapped, Call, CallDirect,
      ReturnDirect, SubmitFails, SubmitWaits, SubmitFills, AtLock, WorkerExits,
      WorkerSleeps, WorkerTakes, WorkerRuns, WorkerLoadsEvent, WorkerStores,
      WorkerSignals, SpuriousWakeup, FiniStops, FiniReturns
<1>2. QED
  BY <1>1, IInvInvariant, PTL DEF Spec, NothingAfterFini

-----------------------------------------------------------------------------
(* Appending to a non-empty queue leaves its head alone.                   *)
LEMMA AppendToNonEmpty ==
  ASSUME NEW S, NEW q \in Seq(S), q # <<>>, NEW o \in S
  PROVE  /\ Append(q, o) # <<>>
         /\ Head(Append(q, o)) = Head(q)
         /\ Tail(Append(q, o)) = Append(Tail(q), o)
<1>1. Head(Append(q, o)) = Head(q)
  OBVIOUS
<1>2. Tail(Append(q, o)) = Append(Tail(q), o)
  OBVIOUS
<1>3. Len(Append(q, o)) # 0 /\ Len(<<>>) = 0
  OBVIOUS
<1>4. Append(q, o) # <<>>
  BY <1>3, Zenon
<1>5. QED
  BY <1>1, <1>2, <1>4

(* Refinement.  Filling the slot is an Accept, storing the status an       *)
(* Answer; taking the request from the slot only moves it along the queue. *)
THEOREM AsyncImplementsOverlappedReads == Spec => ImplementsOverlappedReads
<1> USE DEF Contract!Init, Contract!Next, Contract!vars, Contract!Accept,
    Contract!Answer, Queue, InHand
<1>1. Init => Contract!Init
  BY DEF Init, InHands
<1>2. IInv /\ [Next]_vars => [Contract!Next]_(Contract!vars)
  <2> SUFFICES ASSUME IInv, [Next]_vars PROVE [Contract!Next]_(Contract!vars)
    OBVIOUS
  <2> USE AsyncAssumption DEF IInv, TypeOK, Busy
  <2>1. ASSUME NEW s \in Submitter, SubmitFills(s)
        PROVE  Contract!Accept(NULL, request[s])
    <3>1. request[s] \in Ovl /\ internal[request[s]] # "pending"
      BY <2>1 DEF SubmitFills, AtLock, CallerInv
    <3>2. Queue' = Append(Queue, request[s])
      BY <2>1, <3>1 DEF SubmitFills, InHands
    <3>3. internal' = [internal EXCEPT ![request[s]] = "pending"]
      BY <2>1 DEF SubmitFills
    <3>4. QED
      BY <3>1, <3>2, <3>3
  <2>2. CASE WorkerStores
    <3>1. /\ irp \in Ovl
          /\ InHands = <<irp>> /\ InHands' = <<>>
          /\ task' = task
      BY <2>2 DEF WorkerStores, mailbox, InHands
    <3>2. Queue # <<>> /\ Head(Queue) = irp /\ Queue' = Tail(Queue)
      <4>1. CASE task = NULL
        BY <3>1, <4>1
      <4>2. CASE task # NULL
        <5>1. Queue = Append(<<irp>>, task) /\ Queue' = Append(<<>>, task)
          BY <3>1, <4>2
        <5>2. <<irp>> \in Seq(Ovl) /\ <<irp>> # <<>> /\ Tail(<<irp>>) = <<>> /\ task \in Ovl
          BY <3>1, <4>2
        <5>3. /\ Append(<<irp>>, task) # <<>>
              /\ Head(Append(<<irp>>, task)) = Head(<<irp>>)
              /\ Tail(Append(<<irp>>, task)) = Append(Tail(<<irp>>), task)
          BY <5>2, AppendToNonEmpty
        <5>4. Head(<<irp>>) = irp
          OBVIOUS
        <5>5. QED
          BY <5>1, <5>2, <5>3, <5>4
      <4>3. QED
        BY <4>1, <4>2
    <3>3. PICK status \in {"success", "error"} : internal' = [internal EXCEPT ![irp] = status]
      BY <2>2 DEF WorkerStores
    <3>4. Contract!Answer(NULL)
      BY <3>1, <3>2, <3>3
    <3>5. QED
      BY <3>4
  <2>3. CASE WorkerTakes
    <3>1. Queue' = Queue
      BY <2>3 DEF WorkerTakes, InHands
    <3>2. UNCHANGED internal
      BY <2>3 DEF WorkerTakes, overlapped
    <3>3. QED
      BY <3>1, <3>2
  <2>4. ASSUME UNCHANGED <<task, irp, internal>>, InHand' <=> InHand
        PROVE  [Contract!Next]_(Contract!vars)
    BY <2>4 DEF InHands
  <2>5. ASSUME UNCHANGED <<task, internal>>, ~InHand, ~InHand'
        PROVE  [Contract!Next]_(Contract!vars)
    BY <2>5 DEF InHands
  <2>6. CASE Worker
    <3>1. CASE WorkerExits \/ WorkerSleeps \/ WorkerSignals
      BY <2>5, <3>1 DEF WorkerExits, WorkerSleeps, WorkerSignals, mailbox, overlapped
    <3>2. CASE WorkerRuns \/ WorkerLoadsEvent
      BY <2>4, <3>2 DEF WorkerRuns, WorkerLoadsEvent, mailbox, overlapped
    <3>3. QED
      BY <2>2, <2>3, <2>6, <3>1, <3>2 DEF Worker
  <2>7. ASSUME NEW s \in Submitter, Submit(s) PROVE [Contract!Next]_(Contract!vars)
    <3>1. CASE SubmitFills(s)
      <4>1. request[s] \in Ovl /\ Contract!Accept(NULL, request[s])
        BY <2>1, <3>1 DEF SubmitFills, AtLock, CallerInv
      <4>2. QED
        BY <4>1
    <3>2. CASE ~SubmitFills(s)
      BY <2>4, <2>7, <3>2
       DEF Submit, mailbox, worker, overlapped, Call, CallDirect, ReturnDirect,
        SubmitFails, SubmitWaits
    <3>3. QED
      BY <3>1, <3>2
  <2>8. CASE SpuriousWakeup \/ Fini \/ UNCHANGED vars
    BY <2>4, <2>5, <2>8
     DEF SpuriousWakeup, Fini, FiniStops, FiniReturns, vars, mailbox, worker, overlapped
  <2>9. QED
    BY <2>6, <2>7, <2>8 DEF Next
<1>3. QED
  BY <1>1, <1>2, IInvInvariant, PTL DEF Spec, ImplementsOverlappedReads, Contract!Spec

(* MailboxIsSafe, for any number of submitters and requests.               *)
THEOREM MailboxesAreSafe == Spec => []MailboxIsSafe
<1>1. TypeOK /\ OverlappedIsLive /\ NoLostWakeup => MailboxIsSafe
  BY DEF MailboxIsSafe
<1>2. QED
  BY <1>1, TypeCorrect, OverlappedsAreLive, WakeupsAreNotLost, PTL

=============================================================================
