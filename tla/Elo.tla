---------------------------------- MODULE Elo ----------------------------------
(***************************************************************************)
(* The Elo touch screen of Project DIVA: games/divahook/elo.c, its framing *)
(* board/elo-frame.c, and the thread of games/divaio/divaio.c that reports *)
(* touches by elo_send_touch.                                              *)
(*                                                                         *)
(* One thread of the game writes commands, one packet at a time, and any   *)
(* thread of it may read.  elo_lock guards the two buffers; the flags      *)
(* elo_touch_started and elo_error_report_required are used by the touch   *)
(* thread outside it.                                                      *)
(***************************************************************************)
EXTENDS Integers, Sequences, FiniteSets

CONSTANTS
  EloPackets,     (* the packets the game may write, damaged ones included *)
  EloCapacity,    (* packets the readable buffer holds (52)                *)
  EloSlots        (* codes elo_last_error holds (4)                        *)

ASSUME EloAssumption == EloCapacity \in Nat \ {0} /\ EloSlots \in Nat \ {0}

VARIABLE elo

(* game: where the thread of the game that writes is; touch: where the     *)
(* touch thread is.  Histories: owed, the acknowledgements owed for the    *)
(* packet that is handled less those that were sent; latest, the code set  *)
(* last since the last hard reset.                                         *)
EloInit ==
  elo = [open |-> FALSE, lock |-> "free", game |-> "idle", req |-> "none",
         written |-> "empty", readable |-> <<>>,
         last_error |-> [i \in 1..EloSlots |-> "NONE"],
         acknowledge_required |-> FALSE, error_report_required |-> FALSE,
         touch_started |-> FALSE, touch |-> "none", stop_flag |-> FALSE, flagged |-> FALSE,
         owed |-> 0, latest |-> "NONE"]

-----------------------------------------------------------------------------
(* Broken: the room is not looked at.                                      *)
EloEncodesPast(e, packet) == [e EXCEPT !.readable = Append(@, packet)]

(* elo_frame_encode: a packet that does not fit is not queued.             *)
elo_frame_encode(e, packet) ==
  IF Len(e.readable) < EloCapacity THEN [e EXCEPT !.readable = Append(@, packet)] ELSE e

(* Broken: a code that finds no slot is dropped.                           *)
EloSetErrorDrops(e, code) ==
  LET free == {i \in 1..EloSlots : e.last_error[i] = "NONE"}
      slot == CHOOSE i \in free : \A j \in free : i <= j
      seen == [e EXCEPT !.error_report_required = TRUE, !.latest = code]
  IN  IF free = {} THEN seen ELSE [seen EXCEPT !.last_error[slot] = code]

elo_set_error(e, code) ==
  LET free == {i \in 1..EloSlots : e.last_error[i] = "NONE"}
      slot == IF free = {} THEN 1 ELSE CHOOSE i \in free : \A j \in free : i <= j
  IN  [e EXCEPT !.last_error[slot] = code, !.error_report_required = TRUE, !.latest = code]

elo_clear_error(e) ==
  [e EXCEPT !.last_error = [i \in 1..EloSlots |-> "NONE"], !.latest = "NONE"]

elo_send_acknowledge(e) ==
  [elo_frame_encode(e, "ack") EXCEPT !.acknowledge_required = FALSE, !.owed = @ - 1]

(* The caller acknowledges before it looks for the next packet.            *)
EloOwes(e) == [e EXCEPT !.acknowledge_required = TRUE, !.owed = @ + 1]

-----------------------------------------------------------------------------
(* The thread of the game.                                                 *)

(* diva_dll.touch_start: a thread that runs already is left alone.         *)
diva_io_touch_start(e) == IF e.touch = "none" THEN [e EXCEPT !.touch = "run"] ELSE e

(* elo_handle_irp_locked for an open, up to the start of the reports.      *)
EloOpen ==
  /\ ~elo.open /\ elo.game = "idle" /\ elo.lock = "free"
  /\ elo' = [diva_io_touch_start(elo) EXCEPT !.lock = "game", !.game = "starting",
                                             !.req = "open"]

EloClose ==
  /\ elo.open /\ elo.game = "idle" /\ elo.lock = "free"
  /\ elo' = [elo EXCEPT !.open = FALSE]

(* The game reads what is queued.                                          *)
EloRead ==
  /\ elo.open /\ elo.lock = "free" /\ elo.readable # <<>>
  /\ elo' = [elo EXCEPT !.readable = <<>>]

EloWrite(packet) ==
  /\ elo.open /\ elo.game = "idle" /\ elo.lock = "free"
  /\ elo' = [elo EXCEPT !.lock = "game", !.game = "loop", !.req = packet,
                        !.owed = 0]

EloReturn(e) == [e EXCEPT !.lock = "free", !.game = "idle", !.req = "none"]

(* elo_handle_irp_locked after the packet: the reports are started if they *)
(* are not and the packet was handled without an error.                    *)
EloHandled(e, ok) ==
  IF ok /\ ~e.touch_started
  THEN [diva_io_touch_start(e) EXCEPT !.game = "starting", !.req = "none"]
  ELSE [e EXCEPT !.req = "none"]

EloStarted ==
  /\ elo.game = "starting"
  /\ elo' = IF elo.req = "open"
            THEN EloReturn([elo EXCEPT !.touch_started = TRUE, !.open = TRUE])
            ELSE [elo EXCEPT !.touch_started = TRUE, !.game = "loop"]

(* elo_frame_decode.  A packet with a wrong checksum is kept as one that   *)
(* is not complete; the first byte of the next overflows the request and   *)
(* goes with it; and elo_frame_sync, which skips the bytes that are left,  *)
(* moves one byte too few, so that the packet behind them is damaged too.  *)
(* Nothing is decoded from then on.                                        *)
elo_frame_decode(e) == [e EXCEPT !.written = "damaged"]

EloDecodable == elo.written = "empty" /\ elo.req # "damaged"

EloAcknowledges ==
  /\ elo.game = "loop" /\ elo.acknowledge_required
  /\ elo' = elo_send_acknowledge(elo)

EloNothingLeft ==
  /\ elo.game = "loop" /\ ~elo.acknowledge_required
  /\ \/ elo.req = "none" /\ elo' = EloReturn(elo)
     \/ elo.req # "none" /\ ~EloDecodable /\ elo' = EloReturn(elo_frame_decode(elo))

EloDispatch(cmd, after) ==
  /\ elo.game = "loop" /\ ~elo.acknowledge_required
  /\ EloDecodable /\ elo.req = cmd
  /\ elo' = after

(* Broken: the answer is owed, and not marked as owed.                     *)
EloForgetsAck ==
  EloDispatch("QUERY_ACKNOWLEDGE", EloHandled([elo EXCEPT !.owed = @ + 1], TRUE))

elo_req_acknowledge == EloDispatch("QUERY_ACKNOWLEDGE", EloHandled(EloOwes(elo), TRUE))

(* Broken: the answer is not acknowledged.                                 *)
EloQueryUnacknowledged ==
  EloDispatch("QUERY_PARAMETER", EloHandled(elo_frame_encode(elo, "param"),
                                            Len(elo.readable) < EloCapacity))

elo_query_parameter ==
  EloDispatch("QUERY_PARAMETER", EloHandled(EloOwes(elo_frame_encode(elo, "param")),
                                            Len(elo.readable) < EloCapacity))

elo_set_parameter ==
  \/ EloDispatch("SET_PARAMETER", EloHandled(EloOwes(elo), TRUE))
  \/ EloDispatch("SET_BAD_BITS",
                 EloHandled(elo_set_error(EloOwes(elo), "BAD_INPUT_PACKET"), FALSE))
  \/ EloDispatch("SET_UNIMPLEMENTED",
                 EloHandled(elo_set_error(EloOwes(elo), "BAD_SERIAL_SETUP"), FALSE))

elo_req_dispatch ==
  \/ EloDispatch("ACKNOWLEDGE", EloHandled(elo_set_error(elo, "SET_UNAVAILABLE"), FALSE))
  \/ EloDispatch("QUERY_RESET", EloHandled(elo_set_error(elo, "QUERY_UNAVAILABLE"), FALSE))
  \/ EloDispatch("unknown", EloHandled(elo_set_error(elo, "ILLEGAL_COMMAND"), TRUE))

EloSoftReset ==
  EloDispatch("SOFT_RESET", EloHandled(elo_frame_encode(elo, "reset"),
                                       Len(elo.readable) < EloCapacity))

(* A hard reset leaves the lock to the touch thread while it is stopped.   *)
elo_req_reset ==
  EloDispatch("HARD_RESET",
              [elo_clear_error(elo) EXCEPT !.lock = "free", !.game = "stopping"])

(* Broken: the thread is not waited for.                                   *)
EloStopsUnjoined ==
  \/ /\ elo.game = "stopping"
     /\ elo' = [elo EXCEPT !.stop_flag = TRUE, !.game = "joining"]
  \/ /\ elo.game = "joining"
     /\ elo' = [elo EXCEPT !.stop_flag = FALSE, !.game = "stopped"]

diva_io_touch_stop ==
  \/ /\ elo.game = "stopping"
     /\ elo' = [elo EXCEPT !.stop_flag = TRUE, !.game = "joining"]
  \/ /\ elo.game = "joining" /\ elo.touch \in {"none", "ended"}
     /\ elo' = [elo EXCEPT !.stop_flag = FALSE, !.touch = "none", !.game = "stopped"]

EloStopped ==
  /\ elo.game = "stopped" /\ elo.lock = "free"
  /\ elo' = EloHandled([elo EXCEPT !.lock = "game", !.touch_started = FALSE, !.game = "loop"],
                       TRUE)

-----------------------------------------------------------------------------
(* The touch thread.                                                       *)

(* diva_io_touch_thread_proc, up to the callback if there is an event; and *)
(* elo_send_touch before it takes the lock.                                *)
diva_io_touch_thread_proc ==
  /\ elo.touch = "run"
  /\ \/ elo.stop_flag /\ elo' = [elo EXCEPT !.touch = "ended"]
     \/ /\ ~elo.stop_flag /\ elo.touch_started
        /\ elo' = [elo EXCEPT !.touch = "send", !.flagged = elo.error_report_required]

elo_send_touch ==
  \/ /\ elo.touch = "send" /\ elo.lock = "free"
     /\ elo' = [elo_frame_encode(elo, IF elo.flagged THEN "touch_error" ELSE "touch")
                  EXCEPT !.touch = "sent"]
  \/ /\ elo.touch = "sent"
     /\ elo' = [elo EXCEPT !.touch = "run", !.error_report_required = FALSE,
                           !.flagged = FALSE]

EloNext ==
  \/ EloOpen \/ EloClose \/ EloRead \/ EloStarted \/ EloAcknowledges \/ EloNothingLeft
  \/ \E packet \in EloPackets : EloWrite(packet)
  \/ elo_req_acknowledge \/ elo_query_parameter \/ elo_set_parameter \/ elo_req_dispatch
  \/ EloSoftReset \/ elo_req_reset \/ diva_io_touch_stop \/ EloStopped
  \/ diva_io_touch_thread_proc \/ elo_send_touch

EloSpec == EloInit /\ [][EloNext]_elo

-----------------------------------------------------------------------------
(* Properties.                                                             *)

EloTypeOK ==
  /\ elo.lock = "game" <=> elo.game \in {"loop", "starting"}
  /\ Len(elo.readable) <= EloCapacity
  /\ elo.touch = "ended" => elo.game = "joining"

(* When a write returns, every command of it that is to be acknowledged    *)
(* has been, once, whatever it left behind or failed with.                 *)
EloAcknowledgedOnce == elo.game = "idle" => elo.owed = 0

(* The answer to a query and its acknowledgement reach the game with no    *)
(* touch report between them, unless the buffer is full.                   *)
EloAnswerIsWhole ==
  elo.game = "idle" =>
    \A i \in 1..Len(elo.readable) :
      elo.readable[i] = "param" /\ i < EloCapacity =>
        i < Len(elo.readable) /\ elo.readable[i + 1] = "ack"

(* The latest error since the last hard reset is in the list of codes that *)
(* is acknowledged, however many there were and though the touch thread    *)
(* may clear the flag of it that it has not reported.                      *)
EloErrorIsListed ==
  elo.latest = "NONE" \/ \E i \in 1..EloSlots : elo.last_error[i] = elo.latest

(* A hard reset waits for the touch thread, which waits for nothing that   *)
(* the thread in the reset holds; no report is queued while it is stopped. *)
EloResetReturns ==
  /\ elo.game \in {"stopping", "joining"} => elo.lock # "game"
  /\ elo.game = "stopped" => elo.touch = "none"

(* The touch screen as a whole: the buffer is not overrun, an answer is    *)
(* acknowledged once and stands unbroken between the reports of the other  *)
(* thread, an error is in the acknowledgement, and a reset stops the       *)
(* reports without waiting for itself.                                     *)
EloIsRight ==
  /\ EloTypeOK
  /\ EloAcknowledgedOnce
  /\ EloAnswerIsWhole
  /\ EloErrorIsListed
  /\ EloResetReturns

=============================================================================
