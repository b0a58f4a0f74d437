------------------------------- MODULE Io4Proofs -------------------------------
(***************************************************************************)
(* What holds of the reports of the IO4 board for every number of reading  *)
(* threads and requests, every input, and every choice of windows.  The    *)
(* board's steps are steps of the mailbox or leave it alone, so what is    *)
(* proved of Async holds here too.  At the end, the coins and the analog   *)
(* inputs of the other games, for every width and speed.                   *)
(***************************************************************************)
EXTENDS Io4, Inputs, AsyncProofs

-----------------------------------------------------------------------------
(* The inductive invariant.                                                *)

BoardTypeOK ==
  /\ window \in Window /\ window_handle \in {"game", "none"}
  /\ input \in Input /\ state \in Input /\ prev_state \in Input /\ lastInput \in Input
  /\ foreground_state \in BOOLEAN /\ failed \in BOOLEAN
  /\ system_status \in Status
  /\ step \in {"fgdet", "poll", "report"}
  /\ wpc # "run" => step = "fgdet"
  /\ report \in [input : Input, status : Status]
  /\ since \in [Ovl -> [inputs : SUBSET Input, statuses : SUBSET Status, focusLost : BOOLEAN]]

(* The history of a request that is not answered has what holds now.       *)
SinceInv ==
  \A o \in Ovl : Unanswered(o) =>
    /\ input \in since[o].inputs
    /\ system_status \in since[o].statuses
    /\ window # "game" => since[o].focusLost

(* In the background the focus has been lost since the request was issued. *)
FocusInv ==
  /\ ~ForegroundOnly => foreground_state
  /\ step \in {"poll", "report"} /\ ~foreground_state => since[irp].focusLost

(* What is about to be reported, and what was reported last.               *)
StateInv ==
  /\ step = "report" => /\ state = prev_state /\ ~failed
                        /\ state \in since[irp].inputs \/ since[irp].focusLost
                        /\ ~foreground_state => state = lastInput
  /\ step # "report" => prev_state = lastInput

HeldInv == BoardTypeOK /\ SinceInv /\ FocusInv /\ StateInv /\ FreshReport

BoardInv == IInv /\ HeldInv

(* Every step of the board is one of the mailbox, or leaves it alone.      *)
LEMMA BoardStepsAreAsyncSteps == Io4Next => [Next]_vars
<1>1. ASSUME NEW s \in Submitter, io4_handle_read(s) PROVE [Next]_vars
  BY <1>1 DEF io4_handle_read, Next, Submit
<1>2. CASE io4_worker
  BY <1>2 DEF io4_worker, fgdet_poll, Poll, PollFails, Freeze, Report, Next, Worker
<1>3. ASSUME NEW i \in Input, Hold(i) PROVE [Next]_vars
  BY <1>3 DEF Hold
<1>4. ASSUME NEW w \in Window, SwitchTo(w) PROVE [Next]_vars
  BY <1>4 DEF SwitchTo
<1>5. ASSUME NEW cmd \in {"SET_COMM_TIMEOUT", "SET_SAMPLING_COUNT", "CLEAR_BOARD_STATUS"},
             io4_handle_write(cmd)
      PROVE  [Next]_vars
  BY <1>5 DEF io4_handle_write
<1>6. QED
  BY <1>1, <1>2, <1>3, <1>4, <1>5 DEF Io4Next, Next

(* The request in the worker's hands is not answered.                      *)
LEMMA InHandIsUnanswered ==
  ASSUME IInv, wpc \in {"run", "load", "store"}
  PROVE  irp \in Ovl /\ internal[irp] = "pending" /\ Unanswered(irp)
  BY DEF IInv, TypeOK, Busy, PendingInv, InHand, Unanswered

(* Observe adds to what is known of a request what holds now, and only to  *)
(* that of requests that are not answered.                                 *)
LEMMA ObserveAdds ==
  ASSUME BoardTypeOK, NEW w \in Window, NEW i \in Input, NEW st \in Status, Observe(w, i, st)
  PROVE  /\ since' \in [Ovl -> [inputs : SUBSET Input, statuses : SUBSET Status,
                                focusLost : BOOLEAN]]
         /\ \A o \in Ovl : Unanswered(o) =>
              /\ since'[o].inputs = since[o].inputs \cup {i}
              /\ since'[o].statuses = since[o].statuses \cup {st}
              /\ since'[o].focusLost = (since[o].focusLost \/ w # "game")
<1> USE DEF BoardTypeOK
<1> DEFINE Then(o) ==
      IF ~Unanswered(o) THEN Nothing ELSE
        [inputs    |-> since[o].inputs \cup {i},
         statuses  |-> since[o].statuses \cup {st},
         focusLost |-> since[o].focusLost \/ w # "game"]
      Kinds == [inputs : SUBSET Input, statuses : SUBSET Status, focusLost : BOOLEAN]
<1>1. since' = [o \in Ovl |-> Then(o)]
  BY DEF Observe
<1>2. ASSUME NEW o \in Ovl PROVE Then(o) \in Kinds
  <2>1. Nothing \in Kinds
    BY DEF Nothing
  <2>2. /\ since[o].inputs \cup {i} \in SUBSET Input
        /\ since[o].statuses \cup {st} \in SUBSET Status
        /\ (since[o].focusLost \/ w # "game") \in BOOLEAN
    OBVIOUS
  <2>3. QED
    BY <2>1, <2>2
<1>3. since' \in [Ovl -> Kinds]
  BY <1>1, <1>2
<1>4. QED
  BY <1>1, <1>3

-----------------------------------------------------------------------------
(* The player, the desktop and output reports.                             *)

LEMMA ObserverStep ==
  ASSUME BoardInv, NEW w \in Window, NEW i \in Input, NEW st \in Status, Observe(w, i, st),
         window' = w, input' = i, system_status' = st,
         UNCHANGED <<vars, detector, prev_state, local, report, lastInput>>
  PROVE  HeldInv'
<1> USE DEF BoardInv, HeldInv
<1>1. /\ since' \in [Ovl -> [inputs : SUBSET Input, statuses : SUBSET Status,
                            focusLost : BOOLEAN]]
      /\ \A o \in Ovl : Unanswered(o) =>
           /\ since'[o].inputs = since[o].inputs \cup {i}
           /\ since'[o].statuses = since[o].statuses \cup {st}
           /\ since'[o].focusLost = (since[o].focusLost \/ w # "game")
  BY ObserveAdds
<1>2. \A o \in Ovl : Unanswered(o)' <=> Unanswered(o)
  BY DEF Unanswered, vars, overlapped, callers
<1>3. wpc \in {"run", "load", "store"} => irp \in Ovl /\ Unanswered(irp)
  BY InHandIsUnanswered
<1> USE DEF vars, worker, detector, local
<1>4. BoardTypeOK'
  BY <1>1 DEF BoardTypeOK
<1>5. SinceInv'
  BY <1>1, <1>2 DEF SinceInv
<1>6. FocusInv'
  BY <1>1, <1>3 DEF FocusInv, BoardTypeOK
<1>7. StateInv'
  BY <1>1, <1>3 DEF StateInv, BoardTypeOK
<1>8. FreshReport'
  BY <1>1, <1>3 DEF FreshReport
<1>9. QED
  BY <1>4, <1>5, <1>6, <1>7, <1>8

LEMMA EnvironmentStep ==
  ASSUME BoardInv,
         \/ \E i \in Input : Hold(i)
         \/ \E w \in Window : SwitchTo(w)
         \/ \E cmd \in {"SET_COMM_TIMEOUT", "SET_SAMPLING_COUNT", "CLEAR_BOARD_STATUS"} :
              io4_handle_write(cmd)
  PROVE  HeldInv'
<1>1. window \in Window /\ input \in Input /\ system_status \in Status
  BY DEF BoardInv, HeldInv, BoardTypeOK
<1>2. ASSUME NEW i \in Input, Hold(i) PROVE HeldInv'
  BY <1>1, <1>2, ObserverStep DEF Hold
<1>3. ASSUME NEW w \in Window, SwitchTo(w) PROVE HeldInv'
  BY <1>1, <1>3, ObserverStep DEF SwitchTo
<1>4. ASSUME NEW cmd \in {"SET_COMM_TIMEOUT", "SET_SAMPLING_COUNT", "CLEAR_BOARD_STATUS"},
             io4_handle_write(cmd)
      PROVE  HeldInv'
  <2>1. system_status' \in Status
    <3>1. CASE cmd = "CLEAR_BOARD_STATUS"
      BY <1>4, <3>1, Zenon DEF io4_handle_write, Status
    <3>2. CASE cmd \in {"SET_COMM_TIMEOUT", "SET_SAMPLING_COUNT"}
      BY <1>4, <3>2, Zenon DEF io4_handle_write, Status
    <3>3. QED
      BY <3>1, <3>2
  <2>2. /\ Observe(window, input, system_status')
        /\ window' = window /\ input' = input
        /\ UNCHANGED <<vars, detector, prev_state, local, report, lastInput>>
    BY <1>4, Zenon DEF io4_handle_write, environment
  <2>3. QED
    BY <1>1, <2>1, <2>2, ObserverStep
<1>5. QED
  BY <1>2, <1>3, <1>4

-----------------------------------------------------------------------------
(* The game.                                                               *)

LEMMA ReadStep ==
  ASSUME BoardInv, NEW s \in Submitter, io4_handle_read(s)
  PROVE  HeldInv'
<1> USE AsyncAssumption
    DEF BoardInv, HeldInv, worker, mailbox, overlapped, environment, detector, local, history,
        board
<1>1. wpc \in {"run", "load", "store"} => irp \in Ovl /\ internal[irp] = "pending"
  BY InHandIsUnanswered
<1>2. ASSUME NEW o \in Ovl, Call(s, o),
             since' = [since EXCEPT ![o] =
               [inputs |-> {input}, statuses |-> {system_status}, focusLost |-> window # "game"]],
             UNCHANGED <<environment, detector, prev_state, system_status, local, report,
                         lastInput>>
      PROVE  HeldInv'
  <2>1. internal[o] # "pending" /\ UNCHANGED <<wpc, irp, internal>>
    BY <1>2 DEF Call
  <2>2. \A x \in Ovl : x # o /\ Unanswered(x)' => Unanswered(x)
    BY <1>2 DEF Call, Unanswered, IInv, TypeOK
  <2>3. BoardTypeOK'
    BY <1>2, <2>1 DEF BoardTypeOK
  <2>4. SinceInv'
    BY <1>2, <2>2 DEF SinceInv, BoardTypeOK
  <2>5. FocusInv'
    BY <1>1, <1>2, <2>1 DEF FocusInv, BoardTypeOK
  <2>6. StateInv'
    BY <1>1, <1>2, <2>1 DEF StateInv, BoardTypeOK
  <2>7. FreshReport'
    BY <1>1, <1>2, <2>1 DEF FreshReport, BoardTypeOK
  <2>8. QED
    BY <2>3, <2>4, <2>5, <2>6, <2>7
<1>3. ASSUME SubmitFails(s) \/ SubmitWaits(s) \/ SubmitFills(s), UNCHANGED board
      PROVE  HeldInv'
  <2>1. wpc \in {"run", "load", "store"} <=> wpc' \in {"run", "load", "store"}
    BY <1>3 DEF SubmitFails, SubmitWaits, SubmitFills
  <2>2. wpc # "run" <=> wpc' # "run"
    BY <1>3 DEF SubmitFails, SubmitWaits, SubmitFills
  <2>3. irp' = irp
    BY <1>3 DEF SubmitFails, SubmitWaits, SubmitFills
  <2>4. \A x \in Ovl : Unanswered(x)' => Unanswered(x)
    <3>1. CASE SubmitFails(s)
      BY <3>1 DEF SubmitFails, Unanswered, IInv, TypeOK
    <3>2. CASE SubmitWaits(s)
      BY <3>2 DEF SubmitWaits, Unanswered
    <3>3. CASE SubmitFills(s)
      BY <3>3 DEF SubmitFills, AtLock, Unanswered, IInv, TypeOK, CallerInv
    <3>4. QED
      BY <1>3, <3>1, <3>2, <3>3
  <2>5. BoardTypeOK'
    BY <1>3, <2>2 DEF BoardTypeOK
  <2>6. SinceInv'
    BY <1>3, <2>4 DEF SinceInv
  <2>7. FocusInv' /\ StateInv'
    BY <1>3, <2>3 DEF FocusInv, StateInv
  <2>8. wpc' \in {"load", "store"} => wpc \in {"load", "store"}
    BY <1>3 DEF SubmitFails, SubmitWaits, SubmitFills
  <2>9. FreshReport'
    BY <1>3, <2>3, <2>8 DEF FreshReport
  <2>10. QED
    BY <2>5, <2>6, <2>7, <2>9
<1>4. QED
  BY <1>2, <1>3 DEF io4_handle_read

-----------------------------------------------------------------------------
(* The worker.                                                             *)

(* A step of io4_async_poll leaves the requests and their history alone.   *)
LEMMA LocalKeepsSince ==
  ASSUME SinceInv, UNCHANGED <<environment, system_status, since, internal, request>>
  PROVE  SinceInv'
  BY DEF SinceInv, Unanswered, environment

LEMMA PollStep ==
  ASSUME BoardInv, fgdet_poll \/ Poll \/ Freeze
  PROVE  HeldInv'
<1> USE Io4Assumption
    DEF BoardInv, HeldInv, vars, worker, overlapped, callers, environment, detector, local, history
<1>1. wpc = "run" /\ irp \in Ovl /\ Unanswered(irp)
  BY InHandIsUnanswered DEF fgdet_poll, Poll, Freeze
<1>2. UNCHANGED <<wpc, irp, internal, request, window, input, since, system_status, report,
                  lastInput>>
  BY DEF fgdet_poll, Poll, Freeze
<1>3. SinceInv'
  BY <1>2, LocalKeepsSince
<1>4. FreshReport'
  BY <1>1, <1>2 DEF FreshReport
<1>5. CASE fgdet_poll
  <2>1. /\ step = "fgdet" /\ step' = "poll"
        /\ UNCHANGED <<prev_state, state, failed>>
    BY <1>5 DEF fgdet_poll
  <2>2. /\ window_handle' \in {"game", "none"}
        /\ foreground_state' \in BOOLEAN
        /\ ~ForegroundOnly => foreground_state'
        /\ ~foreground_state' => window # "game"
    <3>1. CASE ForegroundOnly
      BY <1>5, <3>1 DEF fgdet_poll, BoardTypeOK
    <3>2. CASE ~ForegroundOnly
      BY <1>5, <3>2 DEF fgdet_poll, BoardTypeOK, FocusInv
    <3>3. QED
      BY <3>1, <3>2
  <2>3. BoardTypeOK'
    BY <1>1, <1>2, <2>1, <2>2 DEF BoardTypeOK
  <2>4. FocusInv'
    BY <1>1, <1>2, <2>1, <2>2 DEF FocusInv, SinceInv
  <2>5. StateInv'
    BY <1>2, <2>1 DEF StateInv
  <2>6. QED
    BY <1>3, <1>4, <2>3, <2>4, <2>5
<1>6. CASE Poll
  <2>1. BoardTypeOK'
    BY <1>1, <1>2, <1>6 DEF BoardTypeOK, Poll
  <2>2. FocusInv'
    BY <1>2, <1>6 DEF FocusInv, Poll
  <2>3. StateInv'
    BY <1>1, <1>2, <1>6 DEF StateInv, SinceInv, Poll
  <2>4. QED
    BY <1>3, <1>4, <2>1, <2>2, <2>3
<1>7. CASE Freeze
  <2>1. BoardTypeOK'
    BY <1>1, <1>2, <1>7 DEF BoardTypeOK, Freeze
  <2>2. FocusInv'
    BY <1>2, <1>7 DEF FocusInv, Freeze
  <2>3. StateInv'
    BY <1>1, <1>2, <1>7 DEF StateInv, FocusInv, Freeze
  <2>4. QED
    BY <1>3, <1>4, <2>1, <2>2, <2>3
<1>8. QED
  BY <1>5, <1>6, <1>7

LEMMA PollEndsStep ==
  ASSUME BoardInv, PollFails \/ Report
  PROVE  HeldInv'
<1> USE DEF BoardInv, HeldInv, mailbox, overlapped, callers, environment, detector, local, history
<1>1. wpc = "run" /\ irp \in Ovl /\ Unanswered(irp)
  BY InHandIsUnanswered DEF PollFails, Report, WorkerRuns
<1>2. UNCHANGED <<irp, internal, request, window, input, since, system_status>>
        /\ wpc' = "load" /\ step' = "fgdet"
  BY DEF PollFails, Report, WorkerRuns
<1>3. SinceInv'
  BY <1>2, LocalKeepsSince
<1>4. CASE PollFails
  <2>1. BoardTypeOK'
    BY <1>2, <1>4 DEF BoardTypeOK, PollFails
  <2>2. FocusInv' /\ StateInv' /\ FreshReport'
    BY <1>2, <1>4 DEF FocusInv, StateInv, FreshReport, PollFails
  <2>3. QED
    BY <1>3, <2>1, <2>2
<1>5. CASE Report
  <2>1. BoardTypeOK'
    BY <1>2, <1>5 DEF BoardTypeOK, Report
  <2>2. FocusInv' /\ StateInv'
    BY <1>2, <1>5 DEF FocusInv, StateInv, Report
  <2>3. FreshReport'
    BY <1>1, <1>2, <1>5 DEF FreshReport, StateInv, SinceInv, Report
  <2>4. QED
    BY <1>3, <2>1, <2>2, <2>3
<1>6. QED
  BY <1>4, <1>5

LEMMA WorkerStep ==
  ASSUME BoardInv, io4_worker
  PROVE  HeldInv'
<1> USE AsyncAssumption
    DEF BoardInv, HeldInv, mailbox, worker, overlapped, callers, environment, detector, local,
        history, board
<1>1. CASE WorkerStores /\ since' = [since EXCEPT ![irp] = Nothing]
           /\ UNCHANGED <<environment, detector, prev_state, system_status, local, report,
                          lastInput>>
  <2>1. irp \in Ovl /\ wpc = "store" /\ wpc' = "signal"
    BY <1>1, InHandIsUnanswered DEF WorkerStores
  <2>2. PICK st \in {"success", "error"} : internal' = [internal EXCEPT ![irp] = st]
    BY <1>1 DEF WorkerStores
  <2>3. \A s \in Submitter : request[s] # irp
    BY <2>1, InHandIsUnanswered DEF IInv, CallerInv, TypeOK
  <2>4. \A o \in Ovl : Unanswered(o)' => o # irp /\ Unanswered(o)
    BY <1>1, <2>1, <2>2, <2>3 DEF Unanswered, IInv, TypeOK, WorkerStores
  <2>5. Nothing \in [inputs : SUBSET Input, statuses : SUBSET Status, focusLost : BOOLEAN]
    BY DEF Nothing
  <2>6. BoardTypeOK'
    BY <1>1, <2>1, <2>5 DEF BoardTypeOK
  <2>7. SinceInv'
    BY <1>1, <2>1, <2>4 DEF SinceInv, BoardTypeOK
  <2>8. FocusInv' /\ StateInv' /\ FreshReport'
    BY <1>1, <2>1 DEF FocusInv, StateInv, FreshReport, BoardTypeOK
  <2>9. QED
    BY <2>6, <2>7, <2>8
<1>2. CASE WorkerLoadsEvent /\ UNCHANGED board
  BY <1>2 DEF WorkerLoadsEvent, BoardTypeOK, SinceInv, Unanswered, FocusInv, StateInv, FreshReport
<1>3. CASE WorkerSleeps /\ UNCHANGED board
  BY <1>3 DEF WorkerSleeps, BoardTypeOK, SinceInv, Unanswered, FocusInv, StateInv, FreshReport
<1>4. CASE WorkerSignals /\ UNCHANGED board
  BY <1>4 DEF WorkerSignals, BoardTypeOK, SinceInv, Unanswered, FocusInv, StateInv, FreshReport
<1>5. CASE WorkerTakes /\ UNCHANGED board
  <2>1. step = "fgdet" /\ wpc' = "run" /\ UNCHANGED <<internal, request>>
    BY <1>5 DEF WorkerTakes, BoardTypeOK
  <2>2. BoardTypeOK' /\ SinceInv'
    BY <1>5, <2>1 DEF BoardTypeOK, SinceInv, Unanswered
  <2>3. FocusInv' /\ StateInv' /\ FreshReport'
    BY <1>5, <2>1 DEF FocusInv, StateInv, FreshReport
  <2>4. QED
    BY <2>2, <2>3
<1>6. QED
  BY <1>1, <1>2, <1>3, <1>4, <1>5, PollStep, PollEndsStep DEF io4_worker

LEMMA WakeStep ==
  ASSUME BoardInv, SpuriousWakeup, UNCHANGED board
  PROVE  HeldInv'
<1> USE DEF BoardInv, HeldInv, mailbox, worker, overlapped, environment, detector, local, history,
        board
<1>1. UNCHANGED <<irp, internal, request>>
      /\ (wpc' = wpc \/ (wpc = "asleep" /\ wpc' = "top"))
  BY DEF SpuriousWakeup, callers
<1>2. QED
  BY <1>1 DEF BoardTypeOK, SinceInv, Unanswered, FocusInv, StateInv, FreshReport

(* The invariant holds throughout.                                         *)
LEMMA BoardInvInvariant == Io4Spec => []BoardInv
<1>1. Io4Init => BoardInv
  <2>1. Init => IInv
    BY AsyncAssumption DEF Init, IInv, TypeOK, Busy, InHand, CallerInv, PendingInv, FiniInv,
      NoLostWakeup
  <2>2. ASSUME Io4Init PROVE BoardTypeOK
    BY <2>2, Io4Assumption DEF Io4Init, Init, BoardTypeOK, Status, Nothing
  <2>3. Io4Init => SinceInv /\ FocusInv /\ StateInv /\ FreshReport
    BY AsyncAssumption DEF Io4Init, Init, SinceInv, Unanswered, FocusInv, StateInv, FreshReport
  <2>4. QED
    BY <2>1, <2>2, <2>3 DEF BoardInv, HeldInv, Io4Init
<1>2. BoardInv /\ [Io4Next]_<<vars, board>> => BoardInv'
  <2> SUFFICES ASSUME BoardInv, [Io4Next]_<<vars, board>> PROVE BoardInv'
    OBVIOUS
  <2>1. [Next]_vars
    BY BoardStepsAreAsyncSteps
  <2>2. IInv'
    BY <2>1, TypeStep, CallerStep, PendingStep, FiniStep, WakeupStep DEF IInv, BoardInv
  <2>3. CASE Io4Next
    BY <2>2, <2>3, EnvironmentStep, ReadStep, WorkerStep, WakeStep DEF Io4Next, BoardInv
  <2>4. CASE UNCHANGED <<vars, board>>
    BY <2>2, <2>4 DEF BoardInv, HeldInv, BoardTypeOK, SinceInv, Unanswered, FocusInv, StateInv,
      FreshReport, vars, worker, overlapped, callers, environment, detector, local, history, board
  <2>5. QED
    BY <2>3, <2>4
<1>3. QED
  BY <1>1, <1>2, PTL DEF Io4Spec

-----------------------------------------------------------------------------
(* What io4_async_poll reports is fresh, or frozen in the background, for  *)
(* any number of threads that read.                                        *)
THEOREM ReportsAreRight == Io4Spec => []ReportIsRight
<1>1. BoardInv => Io4TypeOK
  BY DEF BoardInv, HeldInv, BoardTypeOK, Io4TypeOK, IInv
<1>2. BoardInv => FreshReport /\ FrozenInput
  BY DEF BoardInv, HeldInv, StateInv, FrozenInput
<1>3. BoardInv => ReportIsRight
  BY <1>1, <1>2 DEF ReportIsRight
<1>4. QED
  BY <1>3, BoardInvInvariant, PTL

(* The board uses the mailbox as async.c means it to be used.              *)
THEOREM BoardUsesTheMailbox == Io4Spec => Spec
<1>1. Io4Init => Init
  BY DEF Io4Init
<1>2. [Io4Next]_<<vars, board>> => [Next]_vars
  BY BoardStepsAreAsyncSteps
<1>3. QED
  BY <1>1, <1>2, PTL DEF Io4Spec, Spec

(* So its reads are accepted and answered as OverlappedReads says.         *)
THEOREM BoardImplementsOverlappedReads == Io4Spec => ImplementsOverlappedReads
  BY BoardUsesTheMailbox, AsyncImplementsOverlappedReads, PTL

-----------------------------------------------------------------------------
(* The inputs of the other games: for any number of coins, any width of a  *)
(* chute and of an analog input, and any speed.                            *)

(* What a poll may make of the controls of a cabinet.                      *)
InpShape(w) ==
  w = [cabinet |-> w.cabinet, emu |-> w.emu, coin |-> w.coin, coins |-> w.coins,
       chute |-> w.chute, hand |-> w.hand, pos |-> w.pos, ball |-> w.ball,
       analog |-> w.analog, out |-> w.out, last |-> w.last, shown |-> w.shown,
       polled |-> w.polled, read |-> w.read, inserted |-> w.inserted]

(* The counters: no press is left out, and none counted again.             *)
InpCoined(w) ==
  /\ w.coin \in BOOLEAN /\ w.coins \in Nat /\ w.inserted \in 0..InpCoins
  /\ w.chute \in 0..InpByte - 1
  /\ w.cabinet # "apm3_di" => w.coins = w.inserted

(* The analog inputs, and what moves them.                                 *)
InpMoved(w) ==
  /\ w.hand \in 0..6 /\ w.pos \in -InpHalf..InpHalf - 1
  /\ w.ball \in 0..2 * InpHalf - 1 /\ w.analog \in 0..2 * InpHalf - 1

(* The invariant, of the controls and of what a poll has made of them yet. *)
InpGood(w) == w.cabinet \in InpCabinet /\ InpShape(w) /\ InpCoined(w) /\ InpMoved(w)

(* A key that may be pressed leaves room for its press.                    *)
InpRoom(w, key) == key \in BOOLEAN /\ (key => w.coin \/ w.inserted < InpCoins)

(* A press counts once, and only as the key goes down.                     *)
LEMMA InpCoinKeeps ==
  ASSUME NEW w, InpGood(w), NEW key, InpRoom(w, key)
  PROVE  InpGood(IoCoin(w, key)) /\ IoCoin(w, key).cabinet = w.cabinet
<1> DEFINE pressed == key /\ ~w.coin
           coins == IF pressed THEN w.coins + 1 ELSE w.coins
           inserted == IF pressed THEN w.inserted + 1 ELSE w.inserted
           v == IoCoin(w, key)
<1>1. w.coins \in Nat /\ w.inserted \in 0..InpCoins /\ InpCoins \in Nat
  BY InpAssumption DEF InpAssumption, InpGood, InpCoined
<1>2. pressed => w.inserted < InpCoins
  BY DEF InpRoom
<1>3. coins \in Nat /\ inserted \in 0..InpCoins
  BY <1>1, <1>2
<1>4. w.coins = w.inserted => coins = inserted
  OBVIOUS
<1>5. v = [w EXCEPT !.coin = key, !.coins = coins, !.inserted = inserted]
  BY DEF IoCoin, InpGood, InpShape
<1> HIDE DEF coins, inserted, v
<1>6. v = [cabinet |-> w.cabinet, emu |-> w.emu, coin |-> key, coins |-> coins,
           chute |-> w.chute, hand |-> w.hand, pos |-> w.pos, ball |-> w.ball,
           analog |-> w.analog, out |-> w.out, last |-> w.last, shown |-> w.shown,
           polled |-> w.polled, read |-> w.read, inserted |-> inserted]
  BY <1>5 DEF InpGood, InpShape
<1>7. InpShape(v) /\ v.cabinet = w.cabinet
  BY <1>6 DEF InpShape
<1>8. InpCoined(v)
  BY <1>3, <1>4, <1>6 DEF InpGood, InpCoined, InpRoom
<1>9. InpMoved(v)
  BY <1>6 DEF InpGood, InpMoved
<1> QED
  BY <1>7, <1>8, <1>9 DEF InpGood, v

(* A DirectInput device takes the press away.                              *)
LEMMA InpApmKeeps ==
  ASSUME NEW w, InpGood(w), NEW key, InpRoom(w, key), w.cabinet \in {"apm3", "apm3_di"}
  PROVE  InpGood(apm3_io_get_opbtns(w, key))
<1>1. CASE w.cabinet = "apm3"
  BY <1>1, InpCoinKeeps DEF apm3_io_get_opbtns
<1>2. CASE w.cabinet # "apm3" /\ w.cabinet = "apm3_di"
  <2> DEFINE inserted == IF key /\ ~w.coin THEN w.inserted + 1 ELSE w.inserted
             v == apm3_io_get_opbtns(w, key)
  <2>1. w.inserted \in 0..InpCoins /\ InpCoins \in Nat
    BY InpAssumption DEF InpAssumption, InpGood, InpCoined
  <2>2. inserted \in 0..InpCoins
    BY <2>1 DEF InpRoom
  <2>3. v = [w EXCEPT !.coin = key, !.inserted = inserted]
    BY <1>2 DEF apm3_io_get_opbtns, InpGood, InpShape
  <2> HIDE DEF inserted, v
  <2>4. v = [cabinet |-> w.cabinet, emu |-> w.emu, coin |-> key, coins |-> w.coins,
             chute |-> w.chute, hand |-> w.hand, pos |-> w.pos, ball |-> w.ball,
             analog |-> w.analog, out |-> w.out, last |-> w.last, shown |-> w.shown,
             polled |-> w.polled, read |-> w.read, inserted |-> inserted]
    BY <2>3 DEF InpGood, InpShape
  <2>5. InpShape(v) /\ v.cabinet = w.cabinet
    BY <2>4 DEF InpShape
  <2>6. InpCoined(v)
    BY <1>2, <2>2, <2>4 DEF InpGood, InpCoined, InpRoom
  <2>7. InpMoved(v)
    BY <2>4 DEF InpGood, InpMoved
  <2> QED
    BY <2>5, <2>6, <2>7 DEF InpGood, v
<1> QED
  BY <1>1, <1>2

(* What a chute shows is less than it can show.                            *)
LEMMA InpChuteKeeps ==
  ASSUME NEW w, InpGood(w)
  PROVE  InpGood(InpChute(w)) /\ InpChute(w).cabinet = w.cabinet
<1> DEFINE chute == w.coins % InpByte
           v == InpChute(w)
<1>1. chute \in 0..InpByte - 1
  <2>1. w.coins \in Nat /\ InpByte \in Nat \ {0}
    BY InpAssumption DEF InpAssumption, InpGood, InpCoined
  <2> QED
    BY <2>1
<1>2. v = [w EXCEPT !.chute = chute]
  BY DEF InpChute
<1> HIDE DEF chute, v
<1>3. v = [cabinet |-> w.cabinet, emu |-> w.emu, coin |-> w.coin, coins |-> w.coins,
           chute |-> chute, hand |-> w.hand, pos |-> w.pos, ball |-> w.ball,
           analog |-> w.analog, out |-> w.out, last |-> w.last, shown |-> w.shown,
           polled |-> w.polled, read |-> w.read, inserted |-> w.inserted]
  BY <1>2 DEF InpGood, InpShape
<1>4. InpShape(v) /\ v.cabinet = w.cabinet
  BY <1>3 DEF InpShape
<1>5. InpCoined(v)
  BY <1>1, <1>3 DEF InpGood, InpCoined
<1>6. InpMoved(v)
  BY <1>3 DEF InpGood, InpMoved
<1> QED
  BY <1>4, <1>5, <1>6 DEF InpGood, v

(* What is shown of the buttons leaves the counters and levers alone.      *)
LEMMA InpShowKeeps ==
  ASSUME NEW w, InpGood(w), NEW read
  PROVE  /\ InpGood(InpShow(w, read)) /\ InpShow(w, read).cabinet = w.cabinet
         /\ InpShow(w, read).coin = w.coin /\ InpShow(w, read).inserted = w.inserted
<1> DEFINE low == InpLow(w.cabinet)
           switch == InpSwitch[w.cabinet]
           shown == UNION {switch[b] : b \in (read \ low) \cup (low \ read)}
           v == InpShow(w, read)
<1>1. v = [w EXCEPT !.polled = TRUE, !.read = read, !.shown = shown]
  BY DEF InpShow
<1> HIDE DEF low, switch, shown, v
<1>2. v = [cabinet |-> w.cabinet, emu |-> w.emu, coin |-> w.coin, coins |-> w.coins,
           chute |-> w.chute, hand |-> w.hand, pos |-> w.pos, ball |-> w.ball,
           analog |-> w.analog, out |-> w.out, last |-> w.last, shown |-> shown,
           polled |-> TRUE, read |-> read, inserted |-> w.inserted]
  BY <1>1 DEF InpGood, InpShape
<1>3. InpShape(v) /\ v.cabinet = w.cabinet /\ v.coin = w.coin /\ v.inserted = w.inserted
  BY <1>2 DEF InpShape
<1>4. InpCoined(v) /\ InpMoved(v)
  BY <1>2 DEF InpGood, InpCoined, InpMoved
<1> QED
  BY <1>3, <1>4 DEF InpGood, v

(* The hand, the lever or the ball moves, and an analog input shows it.    *)
InpMoveTo(w, hand, pos, ball, analog) ==
  [w EXCEPT !.hand = hand, !.pos = pos, !.ball = ball, !.analog = analog]

(* The controls after it.                                                  *)
LEMMA InpMoveIs ==
  ASSUME NEW w, InpShape(w), NEW hand, NEW pos, NEW ball, NEW analog,
         NEW v, v = InpMoveTo(w, hand, pos, ball, analog)
  PROVE  v = [cabinet |-> w.cabinet, emu |-> w.emu, coin |-> w.coin, coins |-> w.coins,
              chute |-> w.chute, hand |-> hand, pos |-> pos, ball |-> ball,
              analog |-> analog, out |-> w.out, last |-> w.last, shown |-> w.shown,
              polled |-> w.polled, read |-> w.read, inserted |-> w.inserted]
BY DEF InpShape, InpMoveTo

(* All that is asked of it is that it stays in its range.                  *)
LEMMA InpMoveKeeps ==
  ASSUME NEW w, InpGood(w), NEW hand \in 0..6, NEW pos \in -InpHalf..InpHalf - 1,
         NEW ball \in 0..2 * InpHalf - 1, NEW analog \in 0..2 * InpHalf - 1
  PROVE  LET v == InpMoveTo(w, hand, pos, ball, analog)
         IN  /\ InpGood(v) /\ v.cabinet = w.cabinet
             /\ v.coin = w.coin /\ v.inserted = w.inserted
<1> DEFINE v == InpMoveTo(w, hand, pos, ball, analog)
<1>5. InpShape(w)
  BY DEF InpGood
<1>1. v = [cabinet |-> w.cabinet, emu |-> w.emu, coin |-> w.coin, coins |-> w.coins,
           chute |-> w.chute, hand |-> hand, pos |-> pos, ball |-> ball,
           analog |-> analog, out |-> w.out, last |-> w.last, shown |-> w.shown,
           polled |-> w.polled, read |-> w.read, inserted |-> w.inserted]
  BY <1>5, InpMoveIs
<1> HIDE DEF v
<1>2. InpShape(v) /\ v.cabinet = w.cabinet /\ v.coin = w.coin /\ v.inserted = w.inserted
  BY <1>1 DEF InpShape
<1>3. InpCoined(v) /\ InpMoved(v)
  BY <1>1 DEF InpGood, InpCoined, InpMoved
<1>4. InpGood(v)
  BY <1>2, <1>3 DEF InpGood
<1> QED
  BY <1>2, <1>4 DEF v

(* A lever is keys inside of its range, and so is what triggers make of it.*)
LEMMA InpLeverKeeps ==
  ASSUME NEW w, InpGood(w), NEW sticks \in InpMoves, NEW triggers \in InpMoves
  PROVE  InpGood(mu3_io_get_lever(w, sticks, triggers))
<1>1. /\ InpHalf \in Nat \ {0} /\ sticks \in Int /\ triggers \in Int /\ w.pos \in Int
  BY InpAssumption DEF InpAssumption, InpMoves, InpGood, InpMoved
<1>2. \A x \in Int : InpClamp(x) \in -InpHalf..InpHalf - 1
  BY <1>1 DEF InpClamp
<1> DEFINE pos == InpClamp(w.pos + sticks)
           push == InpClamp(pos + triggers)
           analog == InpHalf - 1 - push
           v == mu3_io_get_lever(w, sticks, triggers)
<1>3. v = [w EXCEPT !.pos = pos, !.analog = analog]
  BY DEF mu3_io_get_lever
<1>4. w.pos + sticks \in Int
  BY <1>1
<1>5. pos \in -InpHalf..InpHalf - 1
  BY <1>2, <1>4
<1> HIDE DEF pos, v
<1>6. pos + triggers \in Int
  BY <1>1, <1>5
<1>7. push \in -InpHalf..InpHalf - 1
  BY <1>2, <1>6
<1> HIDE DEF push
<1>8. analog \in 0..2 * InpHalf - 1
  BY <1>1, <1>7
<1> HIDE DEF analog
<1>9. v = InpMoveTo(w, w.hand, pos, w.ball, analog)
  BY <1>3 DEF InpGood, InpShape, InpMoveTo
<1>10. w.hand \in 0..6 /\ w.ball \in 0..2 * InpHalf - 1
  BY DEF InpGood, InpMoved
<1>11. InpGood(v)
  BY <1>5, <1>8, <1>9, <1>10, InpMoveKeeps
<1> QED
  BY <1>11 DEF v

(* The trackball goes round, however far it is rolled.                     *)
LEMMA InpBallKeeps ==
  ASSUME NEW w, InpGood(w), NEW move \in InpMoves
  PROVE  InpGood(ekt_kb_get_trackball(w, move))
<1>1. InpHalf \in Nat \ {0} /\ move \in Int /\ w.ball \in Int
  BY InpAssumption DEF InpAssumption, InpMoves, InpGood, InpMoved
<1> DEFINE ball == (w.ball + move) % (2 * InpHalf)
           v == ekt_kb_get_trackball(w, move)
<1>2. v = [w EXCEPT !.ball = ball, !.analog = ball]
  BY DEF ekt_kb_get_trackball
<1>3. ball \in 0..2 * InpHalf - 1
  <2>1. w.ball + move \in Int /\ 2 * InpHalf \in Nat \ {0}
    BY <1>1
  <2>2. \A i \in Int, d \in Nat \ {0} : i % d \in 0..d - 1
    OBVIOUS
  <2> QED
    BY <2>1, <2>2
<1> HIDE DEF ball, v
<1>4. v = InpMoveTo(w, w.hand, w.pos, ball, ball)
  BY <1>2 DEF InpGood, InpShape, InpMoveTo
<1>5. w.hand \in 0..6 /\ w.pos \in -InpHalf..InpHalf - 1
  BY DEF InpGood, InpMoved
<1>6. InpGood(v)
  BY <1>3, <1>4, <1>5, InpMoveKeeps
<1> QED
  BY <1>6 DEF v

(* A hand has six beams, and none below the lowest.                        *)
LEMMA InpBeamsKeep ==
  ASSUME NEW w, InpGood(w), NEW keys
  PROVE  LET v == chuni_io_jvs_poll(w, keys)
         IN  InpGood(v) /\ v.coin = w.coin /\ v.inserted = w.inserted
<1>1. w.hand \in 0..6
  BY DEF InpGood, InpMoved
<1> DEFINE hand == IF "I1" \in keys THEN Min({6, w.hand + 1}) ELSE Max({0, w.hand - 1})
           v == [w EXCEPT !.hand = hand]
           shown == (keys \cap {"TEST", "SERVICE"}) \cup {Beam[i] : i \in 1..hand}
<1>2. hand \in 0..6
  <2>1. \E x \in {6, w.hand + 1} : \A y \in {6, w.hand + 1} : x <= y
    BY <1>1
  <2>2. Min({6, w.hand + 1}) \in {6, w.hand + 1} /\ Min({6, w.hand + 1}) <= 6
    BY <2>1 DEF Min
  <2>3. \E x \in {0, w.hand - 1} : \A y \in {0, w.hand - 1} : x >= y
    BY <1>1
  <2>4. Max({0, w.hand - 1}) \in {0, w.hand - 1} /\ Max({0, w.hand - 1}) >= 0
    BY <2>3 DEF Max
  <2> QED
    BY <1>1, <2>2, <2>4
<1>3. chuni_io_jvs_poll(w, keys) = IF ~w.emu THEN InpShow(w, keys) ELSE InpShow(v, shown)
  BY DEF chuni_io_jvs_poll
<1> HIDE DEF hand, shown
<1>4. v = InpMoveTo(w, hand, w.pos, w.ball, w.analog)
  BY DEF InpGood, InpShape, InpMoveTo
<1> HIDE DEF v
<1>5. InpGood(v) /\ v.coin = w.coin /\ v.inserted = w.inserted
  <2>1. /\ w.pos \in -InpHalf..InpHalf - 1 /\ w.ball \in 0..2 * InpHalf - 1
        /\ w.analog \in 0..2 * InpHalf - 1
    BY DEF InpGood, InpMoved
  <2> QED
    BY <1>2, <1>4, <2>1, InpMoveKeeps
<1> QED
  BY <1>3, <1>5, InpShowKeeps

(* A sensor that is always on.                                             *)
LEMMA InpShownKeeps ==
  ASSUME NEW w, InpGood(w), NEW shown
  PROVE  InpGood([w EXCEPT !.shown = shown])
<1> DEFINE v == [w EXCEPT !.shown = shown]
<1>1. v = [cabinet |-> w.cabinet, emu |-> w.emu, coin |-> w.coin, coins |-> w.coins,
           chute |-> w.chute, hand |-> w.hand, pos |-> w.pos, ball |-> w.ball,
           analog |-> w.analog, out |-> w.out, last |-> w.last, shown |-> shown,
           polled |-> w.polled, read |-> w.read, inserted |-> w.inserted]
  BY DEF InpGood, InpShape
<1> HIDE DEF v
<1>2. InpShape(v) /\ v.cabinet = w.cabinet
  BY <1>1 DEF InpShape
<1>3. InpCoined(v) /\ InpMoved(v)
  BY <1>1 DEF InpGood, InpCoined, InpMoved
<1> QED
  BY <1>2, <1>3 DEF InpGood, v

(* A key that the polls may find pressed.                                  *)
LEMMA InpKeysHaveRoom ==
  ASSUME NEW key \in InpKeys
  PROVE  InpRoom(inp, key)
BY DEF InpKeys, InpRoom

(* A poll of coins and buttons of most cabinets.                           *)
LEMMA InpPollKeeps ==
  ASSUME InpGood(inp), NEW read, NEW key \in InpKeys
  PROVE  InpGood(InpShow(InpChute(IoCoin(inp, key)), read))
<1>1. InpGood(IoCoin(inp, key))
  BY InpKeysHaveRoom, InpCoinKeeps
<1>2. InpGood(InpChute(IoCoin(inp, key)))
  BY <1>1, InpChuteKeeps
<1> QED
  BY <1>2, InpShowKeeps

(* A stick of Fate/Grand Order has no lowest value.                        *)
LEMMA InpStickKeeps ==
  ASSUME InpGood(inp), fgo_io4_poll
  PROVE  InpGood(inp')
<1>1. PICK key \in InpKeys, x \in {1 - InpHalf, 0, InpHalf - 1} :
        \E read : inp' = [InpShow(InpChute(IoCoin(inp, key)), read)
                            EXCEPT !.analog = InpHalf - x]
  BY DEF fgo_io4_poll, fgo_io_poll, fgo_kb_get_analogs, fgo_xi_get_analogs
<1> PICK read : inp' = [InpShow(InpChute(IoCoin(inp, key)), read)
                          EXCEPT !.analog = InpHalf - x]
  BY <1>1
<1> DEFINE w == InpShow(InpChute(IoCoin(inp, key)), read)
           analog == InpHalf - x
<1>2. InpGood(w)
  BY InpPollKeeps
<1>3. inp' = [w EXCEPT !.analog = analog]
  OBVIOUS
<1>4. analog \in 0..2 * InpHalf - 1
  BY InpAssumption DEF InpAssumption
<1> HIDE DEF w, analog
<1>5. inp' = InpMoveTo(w, w.hand, w.pos, w.ball, analog)
  BY <1>2, <1>3 DEF InpGood, InpShape, InpMoveTo
<1>6. /\ w.hand \in 0..6 /\ w.pos \in -InpHalf..InpHalf - 1
      /\ w.ball \in 0..2 * InpHalf - 1
  BY <1>2 DEF InpGood, InpMoved
<1>7. InpGood(InpMoveTo(w, w.hand, w.pos, w.ball, analog))
  BY <1>2, <1>4, <1>6, InpMoveKeeps
<1> QED
  BY <1>5, <1>7

(* CrossBeats has switches and coins, which it takes itself.               *)
LEMMA InpCxbKeeps ==
  ASSUME InpGood(inp),
         \/ my_cCommIo_GetTrigger \/ my_cCommIo_GetRelease \/ my_cCommIo_SetCoin
  PROVE  InpGood(inp')
<1> DEFINE Shows(o, l, s) == inp' = [inp EXCEPT !.out = o, !.last = l, !.shown = s]
<1>1. \/ my_cCommIo_SetCoin
      \/ \E out, last, shown : Shows(out, last, shown)
  <2>1. CASE my_cCommIo_GetTrigger
    BY <2>1 DEF my_cCommIo_GetTrigger
  <2>2. CASE my_cCommIo_GetRelease
    <3>1. PICK last, shown : inp' = [inp EXCEPT !.last = last, !.shown = shown]
      BY <2>2 DEF my_cCommIo_GetRelease
    <3>2. Shows(inp.out, last, shown)
      BY <3>1 DEF InpGood, InpShape
    <3> QED
      BY <3>2
  <2> QED
    BY <2>1, <2>2
<1>2. 0 \in 0..InpCoins /\ 0 \in 0..InpByte - 1
  BY InpAssumption DEF InpAssumption
<1>3. CASE my_cCommIo_SetCoin
  <2>1. inp' = [cabinet |-> inp.cabinet, emu |-> inp.emu, coin |-> inp.coin, coins |-> 0,
                chute |-> 0, hand |-> inp.hand, pos |-> inp.pos, ball |-> inp.ball,
                analog |-> inp.analog, out |-> inp.out, last |-> inp.last,
                shown |-> inp.shown, polled |-> inp.polled, read |-> inp.read,
                inserted |-> 0]
    BY <1>3 DEF InpGood, InpShape, my_cCommIo_SetCoin
  <2>2. InpShape(inp') /\ inp'.cabinet = inp.cabinet
    BY <2>1 DEF InpShape
  <2>3. InpCoined(inp') /\ InpMoved(inp')
    BY <1>2, <2>1 DEF InpGood, InpCoined, InpMoved
  <2> QED
    BY <2>2, <2>3 DEF InpGood
<1>4. ASSUME NEW out, NEW last, NEW shown, Shows(out, last, shown) PROVE InpGood(inp')
  <2>1. inp' = [cabinet |-> inp.cabinet, emu |-> inp.emu, coin |-> inp.coin,
                coins |-> inp.coins, chute |-> inp.chute, hand |-> inp.hand,
                pos |-> inp.pos, ball |-> inp.ball, analog |-> inp.analog, out |-> out,
                last |-> last, shown |-> shown, polled |-> inp.polled,
                read |-> inp.read, inserted |-> inp.inserted]
    BY <1>4 DEF InpGood, InpShape
  <2>2. InpShape(inp') /\ inp'.cabinet = inp.cabinet
    BY <2>1 DEF InpShape
  <2>3. InpCoined(inp') /\ InpMoved(inp')
    BY <2>1 DEF InpGood, InpCoined, InpMoved
  <2> QED
    BY <2>2, <2>3 DEF InpGood
<1> QED
  BY <1>1, <1>3, <1>4

(* Every step of the inputs keeps the invariant.                           *)
LEMMA InpKeeps ==
  ASSUME InpGood(inp), InpNext
  PROVE  InpGood(inp')
<1>1. CASE \/ mai2_io4_poll \/ mercury_io4_poll \/ cm_io4_poll
  <2>1. PICK key \in InpKeys : \E read : inp' = InpShow(InpChute(IoCoin(inp, key)), read)
    BY <1>1 DEF mai2_io4_poll, mercury_io4_poll, cm_io4_poll, mai2_io_poll,
      mercury_io_coin, cm_io_poll
  <2> QED
    BY <2>1, InpPollKeeps
<1>2. CASE mu3_io4_poll
  <2>1. PICK key \in InpKeys, sticks \in InpMoves, triggers \in InpMoves : \E read :
          inp' = mu3_io_get_lever(InpShow(InpChute(IoCoin(inp, key)), read), sticks,
                                  triggers)
    BY <1>2 DEF mu3_io4_poll, mu3_io_poll
  <2> QED
    BY <2>1, InpPollKeeps, InpLeverKeeps
<1>3. CASE apm3_io4_poll
  <2>1. PICK key \in InpKeys : \E read :
          inp' = InpShow(InpChute(apm3_io_get_opbtns(inp, key)), read)
    BY <1>3 DEF apm3_io4_poll
  <2>2. inp.cabinet \in {"apm3", "apm3_di"}
    BY <1>3 DEF apm3_io4_poll, InpIs
  <2>3. InpGood(apm3_io_get_opbtns(inp, key))
    BY <2>2, InpKeysHaveRoom, InpApmKeeps
  <2> QED
    BY <2>1, <2>3, InpChuteKeeps, InpShowKeeps
<1>4. CASE tokyo_io4_poll
  <2>1. PICK key \in InpKeys : \E read : inp' = InpShow(InpChute(IoCoin(inp, key)), read)
    BY <1>4 DEF tokyo_io4_poll, tokyo_io_get_opbtns
  <2> QED
    BY <2>1, InpPollKeeps
<1>5. CASE ekt_io4_poll
  <2>1. PICK key \in InpKeys, move \in InpMoves : \E read :
          inp' = ekt_kb_get_trackball(InpShow(InpChute(IoCoin(inp, key)), read), move)
    BY <1>5 DEF ekt_io4_poll, ekt_io_poll
  <2> QED
    BY <2>1, InpPollKeeps, InpBallKeeps
<1>6. CASE chusan_io4_poll
  <2>1. PICK key \in InpKeys : \E keys :
          inp' = InpChute(IoCoin(chuni_io_jvs_poll(inp, keys), key))
    BY <1>6 DEF chusan_io4_poll, chuni_io_jvs_read_coin_counter
  <2> PICK keys : inp' = InpChute(IoCoin(chuni_io_jvs_poll(inp, keys), key))
    BY <2>1
  <2> DEFINE w == chuni_io_jvs_poll(inp, keys)
  <2>2. InpGood(w) /\ w.coin = inp.coin /\ w.inserted = inp.inserted
    BY InpBeamsKeep
  <2> HIDE DEF w
  <2>3. InpRoom(w, key)
    BY <2>2, InpKeysHaveRoom DEF InpRoom
  <2>4. InpGood(IoCoin(w, key))
    BY <2>2, <2>3, InpCoinKeeps
  <2> QED
    BY <2>4, InpChuteKeeps DEF w
<1>7. CASE \/ chunithm_jvs_read_coin_counter \/ diva_jvs_read_coin_counter
           \/ carol_jvs_read_coin_counter \/ my_cCommIo_GetCoin
  <2>1. PICK key \in InpKeys : inp' = InpChute(IoCoin(inp, key))
    BY <1>7 DEF chunithm_jvs_read_coin_counter, diva_jvs_read_coin_counter,
      carol_jvs_read_coin_counter, my_cCommIo_GetCoin, chuni_io_jvs_read_coin_counter,
      diva_io_jvs_read_coin_counter, carol_io_jvs_read_coin_counter, cxb_io_revio_get_coins
  <2> QED
    BY <2>1, InpKeysHaveRoom, InpCoinKeeps, InpChuteKeeps
<1>8. CASE chunithm_jvs_read_switches
  <2>1. PICK keys : inp' = chuni_io_jvs_poll(inp, keys)
    BY <1>8 DEF chunithm_jvs_read_switches
  <2> QED
    BY <2>1, InpBeamsKeep
<1>9. CASE sekito_jvs_read_switches
  <2>1. PICK read, shown : \/ inp' = InpShow(inp, read)
                           \/ inp' = [InpShow(inp, read) EXCEPT !.shown = shown]
    BY <1>9 DEF sekito_jvs_read_switches
  <2> QED
    BY <2>1, InpShowKeeps, InpShownKeeps
<1>10. CASE sekito_jvs_read_rotary
  BY <1>10, InpBallKeeps DEF sekito_jvs_read_rotary, sekito_kb_get_trackball
<1>11. CASE kemono_jvs_read_switches
  <2>1. PICK key \in InpKeys : \E read : inp' = InpShow(IoCoin(inp, key), read)
    BY <1>11 DEF kemono_jvs_read_switches, kemono_io_poll
  <2> QED
    BY <2>1, InpKeysHaveRoom, InpCoinKeeps, InpShowKeeps
<1>12. CASE kemono_jvs_read_coin_counter
  BY <1>12, InpChuteKeeps DEF kemono_jvs_read_coin_counter
<1>13. CASE diva_jvs_read_switches \/ carol_jvs_read_switches
  <2>1. PICK read : inp' = InpShow(inp, read)
    BY <1>13 DEF diva_jvs_read_switches, carol_jvs_read_switches
  <2> QED
    BY <2>1, InpShowKeeps
<1> QED
  BY <1>1, <1>2, <1>3, <1>4, <1>5, <1>6, <1>7, <1>8, <1>9, <1>10, <1>11, <1>12, <1>13,
    InpStickKeeps, InpCxbKeeps DEF InpNext

(* The invariant of the inputs.                                            *)
InpInv == InpGood(inp)

(* For any number of coins, any width of a chute and of an analog input,   *)
(* and any speed: each press of the coin key counts once (save where       *)
(* DirectInput takes presses away, as InpCounts says), and what is shown   *)
(* of coins, levers, sticks and balls fits its word.                       *)
THEOREM CoinsAndLeversAreRight == InpSpec => [](InpTypeOK /\ InpCounts /\ InpFits)
<1>1. InpInit => InpInv
  <2>1. InpHalf \in Nat \ {0} /\ InpByte \in Nat \ {0} /\ InpCoins \in Nat
    BY InpAssumption DEF InpAssumption
  <2>2. /\ 0 \in 0..InpCoins /\ 0 \in 0..InpByte - 1 /\ 0 \in 0..2 * InpHalf - 1
        /\ InpHalf \in 0..2 * InpHalf - 1 /\ 0 \in -InpHalf..InpHalf - 1
    BY <2>1
  <2> SUFFICES ASSUME InpInit PROVE InpGood(inp)
    BY DEF InpInv
  <2>3. PICK c \in InpCabinet, emu \in BOOLEAN :
          inp = [cabinet |-> c, emu |-> emu, coin |-> FALSE, coins |-> 0, chute |-> 0,
                 hand |-> 0, pos |-> 0, ball |-> 0, analog |-> InpHalf, out |-> {},
                 last |-> {}, shown |-> {}, polled |-> FALSE, read |-> {}, inserted |-> 0]
    BY DEF InpInit
  <2>4. InpShape(inp) /\ inp.cabinet \in InpCabinet
    BY <2>3 DEF InpShape
  <2>5. InpCoined(inp) /\ InpMoved(inp)
    BY <2>2, <2>3 DEF InpCoined, InpMoved
  <2> QED
    BY <2>4, <2>5 DEF InpGood
<1>2. InpInv /\ [InpNext]_inp => InpInv'
  BY InpKeeps DEF InpInv, InpGood, InpShape, InpCoined, InpMoved
<1>3. InpInv => InpTypeOK /\ InpCounts /\ InpFits
  BY DEF InpInv, InpGood, InpCoined, InpMoved, InpTypeOK, InpCounts, InpFits
<1> QED
  BY <1>1, <1>2, <1>3, PTL DEF InpSpec

===================================================================================
