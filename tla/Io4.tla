--------------------------------- MODULE Io4 ---------------------------------
(***************************************************************************)
(* The IO4 board, common/board/io4.c: input reports are read through the   *)
(* mailbox of Async, whose worker runs io4_async_poll; output reports are  *)
(* handled on the caller's thread.  common/util/fg-detect.c decides        *)
(* whether the inputs are polled or frozen.                                *)
(*                                                                         *)
(* Reads with no OVERLAPPED (a path the code calls untested) and           *)
(* async_fini (never called) are left to Async.  Output reports that only  *)
(* call the I/O DLL change nothing here.                                   *)
(***************************************************************************)
EXTENDS Async

CONSTANTS
  Input,           (* what the player may hold down: a struct io4_state    *)
  Rest,            (* the all-zero input                                   *)
  ForegroundOnly,  (* fgdet_init was called                                *)
  Window           (* what GetForegroundWindow may return                  *)

ASSUME Io4Assumption ==
  /\ Rest \in Input
  /\ ForegroundOnly \in BOOLEAN
  /\ Window \subseteq {"game", "other", "none"}

VARIABLES
  window,            (* what GetForegroundWindow returns                   *)
  input,             (* what the player holds down now                     *)
  window_handle,     (* fg-detect.c                                        *)
  foreground_state,  (* fg-detect.c                                        *)
  prev_state,        (* io4.c                                              *)
  system_status,     (* io4_system_status: 0x02, 0x30 or 0x00              *)
  step,              (* where the worker is in io4_async_poll              *)
  state,             (* the local of io4_async_poll                        *)
  failed,            (* the poll of the request in hand failed             *)
  report,            (* the IN report written for the request in hand      *)
  lastInput,         (* history: the input of the last report              *)
  since              (* history: per request, what held since it was issued *)

environment == <<window, input>>
detector == <<window_handle, foreground_state>>
local == <<step, state, failed>>
history == <<lastInput, since>>
board == <<environment, detector, prev_state, system_status, local, report, history>>

Nothing == [inputs |-> {}, statuses |-> {}, focusLost |-> FALSE]

Io4Init ==
  /\ Init
  /\ window \in Window
  /\ input = Rest
  /\ window_handle = "none"
  /\ foreground_state = TRUE
  /\ prev_state = Rest
  /\ system_status = "0x02"
  /\ step = "fgdet"
  /\ state = Rest
  /\ failed = FALSE
  /\ report = [input |-> Rest, status |-> "0x02"]
  /\ lastInput = Rest
  /\ since = [o \in Ovl |-> Nothing]

(* What has held at some moment since each unanswered request was issued.  *)
Unanswered(o) == internal[o] = "pending" \/ \E s \in Submitter : request[s] = o

Observe(w, i, status) ==
  since' = [o \in Ovl |-> IF ~Unanswered(o) THEN Nothing ELSE
    [inputs    |-> since[o].inputs \cup {i},
     statuses  |-> since[o].statuses \cup {status},
     focusLost |-> since[o].focusLost \/ w # "game"]]

-----------------------------------------------------------------------------
(* The player and the desktop.                                             *)

Hold(i) ==
  /\ input' = i
  /\ Observe(window, i, system_status)
  /\ UNCHANGED <<vars, window, detector, prev_state, system_status, local, report, lastInput>>

SwitchTo(w) ==
  /\ window' = w
  /\ Observe(w, input, system_status)
  /\ UNCHANGED <<vars, input, detector, prev_state, system_status, local, report, lastInput>>

-----------------------------------------------------------------------------
(* The game.                                                               *)

io4_handle_write(cmd) ==
  /\ system_status' = CASE cmd \in {"SET_COMM_TIMEOUT", "SET_SAMPLING_COUNT"} -> "0x30"
                        [] cmd = "CLEAR_BOARD_STATUS" -> "0x00"
  /\ Observe(window, input, system_status')
  /\ UNCHANGED <<vars, environment, detector, prev_state, local, report, lastInput>>

(* async_submit: the history of the request starts when it is issued.      *)
io4_handle_read(s) ==
  \/ \E o \in Ovl :
       /\ Call(s, o)
       /\ since' = [since EXCEPT ![o] =
            [inputs |-> {input}, statuses |-> {system_status}, focusLost |-> window # "game"]]
       /\ UNCHANGED <<environment, detector, prev_state, system_status, local, report,
                      lastInput>>
  \/ /\ SubmitFails(s) \/ SubmitWaits(s) \/ SubmitFills(s)
     /\ UNCHANGED board

-----------------------------------------------------------------------------
(* io4_async_poll, on the worker.                                          *)

fgdet_poll ==
  /\ wpc = "run" /\ step = "fgdet"
  /\ IF ForegroundOnly
     THEN LET handle == IF window_handle = "game" \/ window = "game" THEN "game" ELSE "none"
          IN /\ window_handle' = handle
             /\ foreground_state' = (window = handle)
     ELSE UNCHANGED detector
  /\ step' = "poll"
  /\ UNCHANGED <<vars, environment, prev_state, system_status, state, failed, report, history>>

(* Broken: answers with the inputs of the poll before.                     *)
PollLate ==
  /\ wpc = "run" /\ step = "poll" /\ foreground_state
  /\ state' = prev_state /\ prev_state' = input
  /\ step' = "report" /\ failed' = FALSE
  /\ UNCHANGED <<vars, environment, detector, system_status, report, history>>

(* Broken: does not remember what it polled.                               *)
PollForgets ==
  /\ wpc = "run" /\ step = "poll" /\ foreground_state
  /\ state' = input
  /\ step' = "report" /\ failed' = FALSE
  /\ UNCHANGED <<vars, environment, detector, prev_state, system_status, report, history>>

Poll ==
  /\ wpc = "run" /\ step = "poll"
  /\ foreground_state
  /\ state' = input
  /\ prev_state' = input
  /\ step' = "report"
  /\ failed' = FALSE
  /\ UNCHANGED <<vars, environment, detector, system_status, report, history>>

PollFails ==
  /\ step = "poll"
  /\ foreground_state
  /\ WorkerRuns
  /\ step' = "fgdet"
  /\ failed' = TRUE
  /\ UNCHANGED <<environment, detector, prev_state, system_status, state, report, history>>

Freeze ==
  /\ wpc = "run" /\ step = "poll"
  /\ ~foreground_state
  /\ state' = prev_state
  /\ step' = "report"
  /\ failed' = FALSE
  /\ UNCHANGED <<vars, environment, detector, prev_state, system_status, report, history>>

Report ==
  /\ step = "report"
  /\ WorkerRuns
  /\ report' = [input |-> state, status |-> system_status]
  /\ lastInput' = state
  /\ step' = "fgdet"
  /\ UNCHANGED <<environment, detector, prev_state, system_status, state, failed, since>>

(* The worker of Async; it stores an error exactly when the poll failed.   *)
io4_worker ==
  \/ fgdet_poll \/ Poll \/ PollFails \/ Freeze \/ Report
  \/ /\ WorkerSleeps \/ WorkerTakes \/ WorkerLoadsEvent \/ WorkerSignals
     /\ UNCHANGED board
  \/ /\ WorkerStores
     /\ internal'[irp] = "error" <=> failed
     /\ since' = [since EXCEPT ![irp] = Nothing]
     /\ UNCHANGED <<environment, detector, prev_state, system_status, local, report,
                    lastInput>>

-----------------------------------------------------------------------------
Io4Next ==
  \/ \E i \in Input : Hold(i)
  \/ \E w \in Window : SwitchTo(w)
  \/ \E cmd \in {"SET_COMM_TIMEOUT", "SET_SAMPLING_COUNT", "CLEAR_BOARD_STATUS"} :
       io4_handle_write(cmd)
  \/ \E s \in Submitter : io4_handle_read(s)
  \/ io4_worker
  \/ SpuriousWakeup /\ UNCHANGED board

Io4Spec == Io4Init /\ [][Io4Next]_<<vars, board>>

-----------------------------------------------------------------------------
(* Properties.                                                             *)

Status == {"0x02", "0x30", "0x00"}

Io4TypeOK ==
  /\ TypeOK
  /\ window \in Window /\ window_handle \in {"game", "none"}
  /\ input \in Input /\ state \in Input /\ prev_state \in Input /\ lastInput \in Input
  /\ foreground_state \in BOOLEAN /\ failed \in BOOLEAN
  /\ system_status \in Status
  /\ step \in IF wpc = "run" THEN {"fgdet", "poll", "report"} ELSE {"fgdet"}
  /\ report \in [input : Input, status : Status]

(* A read is answered with what the player held, and the status the board  *)
(* had, at some moment since the read was issued, unless the game lost the *)
(* focus meanwhile: no report is left over from an earlier poll.           *)
FreshReport ==
  wpc \in {"load", "store"} /\ ~failed =>
    /\ report.status \in since[irp].statuses
    /\ report.input \in since[irp].inputs \/ since[irp].focusLost

(* io4_async_poll: "if we're unfocused, freeze the current input": while   *)
(* the game is not in front, reports repeat the last one.                  *)
FrozenInput == step = "report" /\ ~foreground_state => state = lastInput

(* What io4_async_poll puts into a report: in the foreground nothing older *)
(* than the request, in the background what was shown last.                *)
ReportIsRight ==
  /\ Io4TypeOK
  /\ FreshReport
  /\ FrozenInput

=============================================================================
