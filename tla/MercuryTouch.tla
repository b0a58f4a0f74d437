----------------------------- MODULE MercuryTouch -----------------------------
(***************************************************************************)
(* The touch panels of WACCA, games/mercuryhook/touch.c: two serial ports, *)
(* 0 and 1, and the thread of games/mercuryio/mercuryio.c that reports the *)
(* cells of both by touch_res_auto_scan once one was started.              *)
(*                                                                         *)
(* Opening and closing a port changes nothing here, and of a frame that is *)
(* queued only the kind is kept.                                           *)
(*                                                                         *)
(* Each port has its lock.  The frame numbers are counted by the thread    *)
(* and by the start command with no lock in common, so that a count is     *)
(* read in one step and stored in another.  One thread of the game drives  *)
(* both ports; a cell's state is a member of MercuryCells, the same on the *)
(* two sides.                                                              *)
(***************************************************************************)
EXTENDS Integers, Sequences

CONSTANTS
  MercuryQueries,    (* the commands that are just answered                *)
  MercuryCells,      (* what the cells may show                            *)
  MercuryLimit,      (* the highest number of a frame (127)                *)
  MercuryWidth,      (* values of the counter, an uint8_t (256)            *)
  MercuryCapacity    (* frames the readable buffer of a port holds         *)

ASSUME MercuryAssumption ==
  /\ MercuryLimit \in Nat \ {0} /\ MercuryWidth \in Nat \ {0} /\ MercuryLimit < MercuryWidth
  /\ MercuryCapacity \in Nat \ {0}
  /\ 0 \in MercuryCells
  /\ "input" \notin MercuryQueries

VARIABLE mercury

MercuryPort == {0, 1}
MercuryBoth(v) == [p \in MercuryPort |-> v]

(* game: the command the game has written and how far it is; thread: the   *)
(* next step of the reporting thread, port the one it concerns.            *)
(* Histories, per port: number, the number of the latest frame, queued or  *)
(* refused, while raced, that the port was started while the thread ran,   *)
(* is not so; started, that the answer to a start was queued or refused; and shown,   *)
(* what the cells showed when the game was last in the foreground.         *)
MercuryInit ==
  mercury = [auto |-> MercuryBoth(FALSE),
             count |-> MercuryBoth(0), readable |-> MercuryBoth(<<>>),
             game |-> [at |-> "idle", port |-> 0, cmd |-> "none", count |-> 0],
             thread |-> [at |-> "none", port |-> 0, count |-> MercuryBoth(0), data |-> 0],
             prev_data |-> 0,
             number |-> MercuryBoth(-1), raced |-> MercuryBoth(FALSE),
             started |-> MercuryBoth(FALSE), shown |-> 0]

-----------------------------------------------------------------------------
MercuryNumbered(m, p, n) == IF m.raced[p] THEN m ELSE [m EXCEPT !.number[p] = n]

MercuryLocked(p) == mercury.game.at # "idle" /\ mercury.game.port = p

(* Broken: the room is not looked at.                                      *)
MercuryWritesPast(m, p, frame) == [m EXCEPT !.readable[p] = Append(@, frame)]

(* iobuf_write: what does not fit is refused.                              *)
iobuf_write(m, p, frame) ==
  IF Len(m.readable[p]) < MercuryCapacity
  THEN [m EXCEPT !.readable[p] = Append(@, frame)] ELSE m

(* touch0_handle_irp_locked and touch1_handle_irp_locked.                  *)

MercuryRead(p) ==
  /\ mercury.game.at = "idle" /\ mercury.readable[p] # <<>>
  /\ mercury' = [mercury EXCEPT !.readable[p] = <<>>]

MercuryWrite(p, cmd) ==
  /\ mercury.game.at = "idle"
  /\ mercury' = [mercury EXCEPT !.game = [at |-> "dispatch", port |-> p, cmd |-> cmd,
                                          count |-> 0]]

MercuryIdle(m) == [m EXCEPT !.game.at = "idle", !.game.cmd = "none"]

(* The commands that are answered at once, and those that are not.         *)
touch_req_dispatch ==
  /\ mercury.game.at = "dispatch"
  /\ \/ /\ mercury.game.cmd \in MercuryQueries
        /\ mercury' = MercuryIdle(iobuf_write(mercury, mercury.game.port, mercury.game.cmd))
     \/ /\ mercury.game.cmd \in {"BEGIN_WRITE", "NEXT_WRITE", "unknown"}
        /\ mercury' = MercuryIdle(mercury)

(* touch_handle_start_auto_scan: the number is read, and the next stored   *)
(* with the answer.  Its checksum is made before the number is put in.     *)
touch_handle_start_auto_scan ==
  LET p == mercury.game.port
  IN  \/ /\ mercury.game.at = "dispatch" /\ mercury.game.cmd = "START_AUTO_SCAN"
         /\ mercury' = [mercury EXCEPT
              !.game.at = "count", !.game.count = mercury.count[p],
              !.raced[p] = @ \/ mercury.thread.at # "none",
              !.number[p] = IF mercury.thread.at # "none" THEN -1 ELSE @]
      \/ /\ mercury.game.at = "count"
         /\ mercury' = [MercuryNumbered(iobuf_write(mercury, p, "start"), p,
                                        mercury.game.count)
                          EXCEPT !.count[p] = (mercury.game.count + 1) % MercuryWidth,
                                 !.game.at = "auto", !.game.count = 0, !.started[p] = TRUE]
      \/ /\ mercury.game.at = "auto"
         /\ mercury' = [mercury EXCEPT !.auto[p] = TRUE, !.game.at = "thread"]

(* mercury_io_touch_start: the thread is created once.                     *)
mercury_io_touch_start ==
  /\ mercury.game.at = "thread"
  /\ mercury' = MercuryIdle(IF mercury.thread.at = "none"
                            THEN [mercury EXCEPT !.thread.at = "load"] ELSE mercury)

-----------------------------------------------------------------------------
(* touch_res_auto_scan, called by mercury_io_touch_thread_proc.            *)

(* Broken: the highest number is not looked at.                            *)
MercuryCountOn(n) == (n + 1) % MercuryWidth

(* The number of a port's frame is read, and the next is stored.           *)
MercuryCount(n) == LET m == (n + 1) % MercuryWidth IN IF m > MercuryLimit THEN 0 ELSE m

MercuryNumbers ==
  LET p == mercury.thread.port
  IN  \/ /\ mercury.thread.at = "load"
         /\ mercury' = [mercury EXCEPT !.thread.at = "store",
                                       !.thread.count[p] = mercury.count[p]]
      \/ /\ mercury.thread.at = "store"
         /\ mercury' = [mercury EXCEPT
              !.count[p] = MercuryCount(mercury.thread.count[p]),
              !.thread.at = IF p = 0 THEN "load" ELSE "poll", !.thread.port = 1 - p]

(* Broken: what was shown is not kept.                                     *)
MercuryPollForgets ==
  /\ mercury.thread.at = "poll"
  /\ \/ mercury' = [mercury EXCEPT !.thread.at = "send", !.thread.data = mercury.prev_data]
     \/ \E state \in MercuryCells :
          mercury' = [mercury EXCEPT !.thread.at = "send", !.thread.data = state,
                                     !.shown = state]

(* In the foreground the cells are read and kept; else the ones that were  *)
(* kept are used.                                                          *)
MercuryPoll ==
  /\ mercury.thread.at = "poll"
  /\ \/ mercury' = [mercury EXCEPT !.thread.at = "send", !.thread.data = mercury.prev_data]
     \/ \E state \in MercuryCells :
          mercury' = [mercury EXCEPT !.thread.at = "send", !.thread.data = state,
                                     !.prev_data = state, !.shown = state]

MercurySent(m, p) ==
  [m EXCEPT !.thread = [at |-> IF p = 0 THEN "send" ELSE "load", port |-> 1 - p,
                        count |-> IF p = 0 THEN @.count ELSE MercuryBoth(0),
                        data |-> IF p = 0 THEN @.data ELSE 0]]

(* Broken: a port that was not started is not passed over.                 *)
MercurySendsAnyway ==
  LET p == mercury.thread.port
  IN  \/ /\ mercury.thread.at = "send"
         /\ mercury' = [mercury EXCEPT !.thread.at = "lock"]
      \/ /\ mercury.thread.at = "lock" /\ ~MercuryLocked(p)
         /\ mercury' = MercurySent(MercuryNumbered(iobuf_write(mercury, p, "input"), p,
                                                   mercury.thread.count[p]), p)

(* A port is passed over until it was started; the flag is read before the *)
(* lock is taken.                                                          *)
MercurySend ==
  LET p == mercury.thread.port
  IN  \/ /\ mercury.thread.at = "send"
         /\ mercury' = IF mercury.auto[p] THEN [mercury EXCEPT !.thread.at = "lock"]
                       ELSE MercurySent(mercury, p)
      \/ /\ mercury.thread.at = "lock" /\ ~MercuryLocked(p)
         /\ mercury' = MercurySent(MercuryNumbered(iobuf_write(mercury, p, "input"), p,
                                                   mercury.thread.count[p]), p)

MercuryNext ==
  \/ \E p \in MercuryPort : MercuryRead(p)
  \/ \E p \in MercuryPort :
       \E cmd \in MercuryQueries \cup {"BEGIN_WRITE", "START_AUTO_SCAN"} : MercuryWrite(p, cmd)
  \/ touch_req_dispatch \/ touch_handle_start_auto_scan \/ mercury_io_touch_start
  \/ MercuryNumbers \/ MercuryPoll \/ MercurySend

MercurySpec == MercuryInit /\ [][MercuryNext]_mercury

-----------------------------------------------------------------------------
(* Properties.                                                             *)

MercuryTypeOK ==
  /\ \A p \in MercuryPort :
       /\ mercury.count[p] \in 0..MercuryWidth - 1
       /\ Len(mercury.readable[p]) <= MercuryCapacity
  /\ mercury.thread.data \in MercuryCells

(* The frames of a port that was started before the thread was, and not    *)
(* again, are numbered in turn, whatever the game does to the other port;  *)
(* a number that is missing is a frame the full buffer refused.            *)
MercuryInOrder ==
  [][\A p \in MercuryPort :
       mercury'.number[p] # mercury.number[p] /\ mercury.number[p] >= 0
         /\ ~mercury'.raced[p] =>
         mercury'.number[p] = IF mercury.number[p] = MercuryLimit THEN 0
                              ELSE mercury.number[p] + 1]_mercury

(* No frame of input reaches a port before the answer to its start.        *)
MercuryStartFirst ==
  \A p \in MercuryPort : \A i \in 1..Len(mercury.readable[p]) :
    mercury.readable[p][i] = "input" => mercury.started[p]

(* While the game is in the background both ports repeat what the cells    *)
(* showed when it left the foreground.                                     *)
MercuryFrozen ==
  mercury.thread.at \in {"send", "lock"} => mercury.thread.data = mercury.shown

(* The touch ring as a whole: no buffer is overrun, the answer to a start  *)
(* comes before the first report, the cells are frozen in the background,  *)
(* and the frame numbers follow each other.                                *)
MercuryIsRight ==
  /\ [](MercuryTypeOK /\ MercuryStartFirst /\ MercuryFrozen)
  /\ MercuryInOrder

=============================================================================
