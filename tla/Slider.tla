-------------------------------- MODULE Slider --------------------------------
(***************************************************************************)
(* The CHUNITHM touch slider: games/chusanhook/slider.c (chunihook has the *)
(* same code) with the slider half of games/chuniio/chuniio.c.             *)
(*                                                                         *)
(* A game thread holds slider_lock while it works through the frames it    *)
(* has written, except while it stops the I/O thread.  The start and stop  *)
(* functions of the DLL have no lock of their own, so each access to their *)
(* shared variables is a step.                                             *)
(*                                                                         *)
(* written holds whole frames, "bad" being one that fails to decode.       *)
(* readable holds the frames written to the uart and not yet read, "torn"  *)
(* being one of which only a part fitted.                                  *)
(***************************************************************************)
EXTENDS Naturals, Sequences, FiniteSets

CONSTANTS
  GameThread,   (* game threads that talk to the slider                    *)
  IoThread,     (* bound: I/O threads alive at once                        *)
  Requests,     (* what the game may write at once: sequences of frames    *)
  WrittenMax,   (* bound: frames in slider_written_bytes                   *)
  Capacity,     (* slider_readable_bytes (520)                             *)
  ReplySize,    (* bytes of an encoded reply                               *)
  ScanSize,     (* bytes of an encoded auto-scan frame                     *)
  Nobody, NULL

Command == {"RESET", "GET_BOARD_INFO", "SET_LED", "START", "STOP", "bad"}

ASSUME SliderAssumption ==
  /\ Requests \subseteq Seq(Command)
  /\ WrittenMax \in Nat
  /\ Capacity \in Nat
  /\ ReplySize \in Nat \ {0}
  /\ ScanSize \in Nat \ {0}
  /\ Nobody \notin GameThread \cup IoThread
  /\ NULL \notin IoThread

VARIABLES
  fd,         (* slider_uart.fd is set                                     *)
  owner,      (* who is inside slider_lock                                 *)
  pc,         (* where a game thread is                                    *)
  written,    (* slider_uart.written                                       *)
  readable,   (* slider_uart.readable: the frames                          *)
  nbytes,     (* slider_uart.readable.pos                                  *)
  thread,     (* chuni_io_slider_thread                                    *)
  stop_flag,  (* chuni_io_slider_stop_flag                                 *)
  target,     (* the thread a game thread waits for                        *)
  iopc,       (* where an I/O thread is                                    *)
  wanted,     (* history: START was handled after the last STOP            *)
  stopped     (* history: every STOP is acknowledged, no START since       *)

uart == <<fd, owner, written>>
buffer == <<readable, nbytes>>
dll == <<thread, stop_flag, iopc>>
history == <<wanted, stopped>>
vars == <<uart, pc, buffer, dll, target, history>>

Init ==
  /\ fd = FALSE
  /\ owner = Nobody
  /\ pc = [g \in GameThread |-> "idle"]
  /\ written = <<>>
  /\ readable = <<>>
  /\ nbytes = 0
  /\ thread = NULL
  /\ stop_flag = FALSE
  /\ target = [g \in GameThread |-> NULL]
  /\ iopc = [t \in IoThread |-> "exited"]
  /\ wanted = FALSE
  /\ stopped = FALSE

Goto(g, where) == pc' = [pc EXCEPT ![g] = where]

(* Broken: no check of the space left.                                     *)
EncodeUnchecked(frame, size) ==
  /\ readable' = Append(readable, frame)
  /\ nbytes' = nbytes + size

(* slider_frame_encode: what does not fit is cut off where the buffer      *)
(* ends; an escaped byte is not split.                                     *)
Encode(frame, size) ==
  \/ /\ nbytes + size <= Capacity
     /\ readable' = Append(readable, frame)
     /\ nbytes' = nbytes + size
  \/ /\ nbytes < Capacity /\ nbytes + size > Capacity
     /\ readable' = Append(readable, "torn")
     /\ nbytes' \in {Capacity - 1, Capacity} /\ nbytes' > nbytes
  \/ /\ nbytes = Capacity
     /\ UNCHANGED buffer

-----------------------------------------------------------------------------
(* slider_handle_irp.                                                      *)

(* OPEN fails if the port is open, CLOSE leaves the buffers and the I/O    *)
(* thread alone, READ takes what there is.                                 *)
Open(g) ==
  /\ pc[g] = "idle" /\ owner = Nobody
  /\ ~fd
  /\ fd' = TRUE
  /\ UNCHANGED <<owner, written, pc, buffer, dll, target, history>>

Close(g) ==
  /\ pc[g] = "idle" /\ owner = Nobody
  /\ fd
  /\ fd' = FALSE
  /\ UNCHANGED <<owner, written, pc, buffer, dll, target, history>>

Read(g) ==
  /\ pc[g] = "idle" /\ owner = Nobody
  /\ fd
  /\ readable # <<>>
  /\ readable' = <<>>
  /\ nbytes' = 0
  /\ UNCHANGED <<uart, pc, dll, target, history>>

Write(g, frames) ==
  /\ pc[g] = "idle" /\ owner = Nobody
  /\ fd
  /\ Len(written) + Len(frames) <= WrittenMax
  /\ written' = written \o frames
  /\ owner' = g
  /\ Goto(g, "decode")
  /\ UNCHANGED <<fd, buffer, dll, target, history>>

(* Nothing left to decode.                                                 *)
Leave(g) ==
  /\ pc[g] = "decode"
  /\ written = <<>>
  /\ owner' = Nobody
  /\ Goto(g, "idle")
  /\ UNCHANGED <<fd, written, buffer, dll, target, history>>

(* A frame that fails to decode ends the request; what was written behind  *)
(* it waits for the next write.                                            *)
DeframeError(g) ==
  /\ pc[g] = "decode"
  /\ written # <<>> /\ Head(written) = "bad"
  /\ written' = Tail(written)
  /\ owner' = Nobody
  /\ Goto(g, "idle")
  /\ UNCHANGED <<fd, buffer, dll, target, history>>

Take(g, commands) ==
  /\ pc[g] = "decode"
  /\ written # <<>> /\ Head(written) \in commands
  /\ written' = Tail(written)

Reply(g) ==
  /\ Take(g, {"RESET", "GET_BOARD_INFO"})
  /\ Encode("reply", ReplySize)
  /\ UNCHANGED <<fd, owner, pc, dll, target, history>>

SetLed(g) ==
  /\ Take(g, {"SET_LED"})
  /\ UNCHANGED <<fd, owner, pc, buffer, dll, target, history>>

AutoScanStart(g) ==
  /\ Take(g, {"START"})
  /\ Goto(g, "start")
  /\ wanted' = TRUE
  /\ stopped' = FALSE
  /\ UNCHANGED <<fd, owner, buffer, dll, target>>

(* Broken: keeps slider_lock while the I/O thread is stopped.              *)
AutoScanStopLocked(g) ==
  /\ Take(g, {"STOP"})
  /\ Goto(g, "stop")
  /\ wanted' = FALSE
  /\ UNCHANGED <<fd, owner, buffer, dll, target, stopped>>

AutoScanStop(g) ==
  /\ Take(g, {"STOP"})
  /\ owner' = Nobody
  /\ Goto(g, "stop")
  /\ wanted' = FALSE
  /\ UNCHANGED <<fd, buffer, dll, target, stopped>>

-----------------------------------------------------------------------------
(* chuni_io_slider_start, called with slider_lock held.                    *)

(* Broken: does not look for a running thread.                             *)
StartAnyway(g) ==
  /\ pc[g] = "start"
  /\ Goto(g, "create")
  /\ UNCHANGED <<uart, buffer, dll, target, history>>

StartTest(g) ==
  /\ pc[g] = "start"
  /\ Goto(g, IF thread = NULL THEN "create" ELSE "decode")
  /\ UNCHANGED <<uart, buffer, dll, target, history>>

StartCreate(g, t) ==
  /\ pc[g] = "create"
  /\ iopc[t] = "exited" /\ t # thread /\ \A h \in GameThread : t # target[h]
  /\ iopc' = [iopc EXCEPT ![t] = "check"]
  /\ thread' = t
  /\ Goto(g, "decode")
  /\ UNCHANGED <<uart, buffer, stop_flag, target, history>>

-----------------------------------------------------------------------------
(* chuni_io_slider_stop, called without slider_lock.                       *)

StopTest(g) ==
  /\ pc[g] = "stop"
  /\ Goto(g, IF thread = NULL THEN "relock" ELSE "flag")
  /\ UNCHANGED <<uart, buffer, dll, target, history>>

StopFlag(g) ==
  /\ pc[g] = "flag"
  /\ stop_flag' = TRUE
  /\ Goto(g, "wait")
  /\ UNCHANGED <<uart, buffer, thread, iopc, target, history>>

(* The argument of WaitForSingleObject; no handle, nothing to wait for.    *)
StopWait(g) ==
  /\ pc[g] = "wait"
  /\ target' = [target EXCEPT ![g] = thread]
  /\ Goto(g, "join")
  /\ UNCHANGED <<uart, buffer, dll, history>>

(* Broken: does not wait.                                                  *)
StopHastily(g) ==
  /\ pc[g] = "join"
  /\ thread' = NULL
  /\ target' = [target EXCEPT ![g] = NULL]
  /\ Goto(g, "unflag")
  /\ UNCHANGED <<uart, buffer, stop_flag, iopc, history>>

StopJoin(g) ==
  /\ pc[g] = "join"
  /\ target[g] # NULL => iopc[target[g]] = "exited"
  /\ thread' = NULL
  /\ target' = [target EXCEPT ![g] = NULL]
  /\ Goto(g, "unflag")
  /\ UNCHANGED <<uart, buffer, stop_flag, iopc, history>>

(* Broken: leaves the flag set.                                            *)
StopKeepsFlag(g) ==
  /\ pc[g] = "unflag"
  /\ Goto(g, "relock")
  /\ UNCHANGED <<uart, buffer, dll, target, history>>

StopUnflag(g) ==
  /\ pc[g] = "unflag"
  /\ stop_flag' = FALSE
  /\ Goto(g, "relock")
  /\ UNCHANGED <<uart, buffer, thread, iopc, target, history>>

Stopping(h) == pc[h] \in {"stop", "flag", "wait", "join", "unflag", "relock"}

(* Back in slider_req_auto_scan_stop: the lock again, and the reply.  The  *)
(* slider counts as stopped when no other STOP is still being handled.     *)
Relock(g) ==
  /\ pc[g] = "relock" /\ owner \in {Nobody, g}
  /\ owner' = g
  /\ Encode("stop_ack", ReplySize)
  /\ Goto(g, "decode")
  /\ stopped' = (~wanted /\ \A h \in GameThread \ {g} : ~Stopping(h))
  /\ UNCHANGED <<fd, written, dll, target, wanted>>

-----------------------------------------------------------------------------
(* chuni_io_slider_thread_proc and its callback, slider_res_auto_scan.     *)

IoCheck(t) ==
  /\ iopc[t] = "check"
  /\ iopc' = [iopc EXCEPT ![t] = IF stop_flag THEN "exited" ELSE "callback"]
  /\ UNCHANGED <<uart, pc, buffer, thread, stop_flag, target, history>>

slider_res_auto_scan(t) ==
  /\ iopc[t] = "callback" /\ owner = Nobody
  /\ Encode("scan", ScanSize)
  /\ iopc' = [iopc EXCEPT ![t] = "check"]
  /\ UNCHANGED <<uart, pc, thread, stop_flag, target, history>>

-----------------------------------------------------------------------------
Request(g) ==
  \/ Open(g)
  \/ Close(g)
  \/ Read(g)
  \/ \E frames \in Requests : Write(g, frames)

Inside(g) ==
  \/ Leave(g)
  \/ DeframeError(g)
  \/ Reply(g)
  \/ SetLed(g)
  \/ AutoScanStart(g)
  \/ AutoScanStop(g)
  \/ StartTest(g)
  \/ \E t \in IoThread : StartCreate(g, t)
  \/ StopTest(g)
  \/ StopFlag(g)
  \/ StopWait(g)
  \/ StopJoin(g)
  \/ StopUnflag(g)

Next ==
  \/ \E g \in GameThread : Request(g) \/ Inside(g) \/ Relock(g)
  \/ \E t \in IoThread : IoCheck(t) \/ slider_res_auto_scan(t)

Spec == Init /\ [][Next]_vars

(* Threads run on, and one that keeps asking for slider_lock gets it: the  *)
(* lock is only ever held for a bounded time.                              *)
Fairness ==
  /\ \A g \in GameThread : WF_vars(Inside(g)) /\ SF_vars(Relock(g))
  /\ \A t \in IoThread : WF_vars(IoCheck(t)) /\ SF_vars(slider_res_auto_scan(t))

FairSpec == Spec /\ Fairness

-----------------------------------------------------------------------------
(* Properties.                                                             *)

Frame == {"reply", "stop_ack", "scan", "torn"}

TypeOK ==
  /\ fd \in BOOLEAN
  /\ owner \in GameThread \cup {Nobody}
  /\ pc \in [GameThread -> {"idle", "decode", "start", "create", "stop", "flag",
                            "wait", "join", "unflag", "relock"}]
  /\ written \in Seq(Command)
  /\ readable \in Seq(Frame)
  /\ nbytes \in 0..Capacity
  /\ thread \in IoThread \cup {NULL}
  /\ stop_flag \in BOOLEAN
  /\ target \in [GameThread -> IoThread \cup {NULL}]
  /\ iopc \in [IoThread -> {"exited", "check", "callback"}]
  /\ wanted \in BOOLEAN /\ stopped \in BOOLEAN

(* games/chuniio/chuniio.h: "You must cease to invoke the input callback   *)
(* before returning from this function": once STOP is acknowledged, no     *)
(* I/O thread is left that could send another auto-scan frame.             *)
StopIsFinal == stopped => \A t \in IoThread : iopc[t] = "exited"

(* At most one I/O thread runs, and the DLL's handle names it.             *)
OneIoThread == \A t \in IoThread : iopc[t] # "exited" => thread = t

(* The comment in slider_req_auto_scan_stop: the lock is given up "so that *)
(* we don't deadlock": every STOP is acknowledged.                         *)
StopReturns == \A g \in GameThread : pc[g] = "stop" ~> pc[g] = "decode"

(* games/chuniio/chuniio.h: "the slider polling loop *will* be restarted   *)
(* after being stopped": if START was the last word, frames keep coming.   *)
ScanIsServed ==
  (<>[]wanted /\ []<>(owner = Nobody)) => []<>(\E t \in IoThread : iopc[t] = "callback")

(* The readable buffer is not overrun, an acknowledged STOP is the end of  *)
(* the I/O thread, and there is never a second one.                        *)
SliderIsSafe ==
  /\ TypeOK
  /\ StopIsFinal
  /\ OneIoThread

(* Each STOP is acknowledged, and a START that is not taken back keeps the *)
(* frames coming.                                                          *)
SliderIsLive ==
  /\ StopReturns
  /\ ScanIsServed

=============================================================================
