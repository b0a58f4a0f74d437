---------------------------------- MODULE DivaIo ----------------------------------
(***************************************************************************)
(* The I/O DLL of Project DIVA (divaio): buttons that are pressed with two *)
(* keys, the slides that are made for a held stick, and the touchscreen,   *)
(* by mouse or by Windows' touch messages.  These are three parts, each    *)
(* with a thread of its own, and one of them is run.                       *)
(***************************************************************************)
EXTENDS Integers

CONSTANTS
  DivaDrop,        (* polls a second key is dropped for (dropped_input_frames) *)
  DivaMin,         (* time after which a button may be passed between its  *)
  DivaMax,         (* two keys, and until when                             *)
  DivaCells,       (* cells of the slider (32)                             *)
  DivaDelay        (* steps before a slide starts again (5)                *)

ASSUME DivaAssumption ==
  /\ DivaDrop \in Nat \ {0} /\ DivaMin \in Nat \ {0} /\ DivaMax \in Nat /\ DivaMin <= DivaMax
  /\ DivaDelay \in Nat \ {0} /\ DivaCells \in Nat \ {0} /\ DivaCells % 2 = 0

VARIABLE diva

(* One of the four buttons stands for all: prev, the keys it had before;   *)
(* drop, dropFrames; since, time since its timeouts were set, up to        *)
(* DivaMax + 1; keys, the keys held and same, for how many polls; seen,    *)
(* what the game was told.  The slides: held, what the sticks do; state,   *)
(* what the back end has read; left and right, the cells the slides are    *)
(* at; lit.  The touch: finger; status, touch and at, where its thread is; *)
(* sent, the last report; shows, whether the reports show a finger; fresh, *)
(* whether the update that runs began after the finger was lifted, and     *)
(* whole, whether such an update has ended.                                *)
DivaInit ==
  \E u \in {"buttons", "slides", "touch"}, m \in {"keyboard", "dinput", "xinput"},
     t \in {"mouse", "wintouch"} :
    /\ u # "slides" => m = "keyboard"
    /\ u # "touch" => t = "mouse"
    /\ diva = [unit |-> u, mode |-> m, screen |-> t, thread |-> "none",
               prev |-> {}, drop |-> 0, since |-> DivaMax + 1, keys |-> {}, same |-> 0,
               seen |-> FALSE, held |-> {}, state |-> {}, left |-> 0, right |-> DivaCells,
               lit |-> {}, finger |-> FALSE, status |-> "none", touch |-> FALSE, at |-> "top",
               sent |-> "none", shows |-> FALSE, fresh |-> TRUE, whole |-> TRUE]

-----------------------------------------------------------------------------
(* A button.  A key that joins or takes over from the other is a press of  *)
(* its own, which the game sees if the button is let go for a few polls,   *)
(* but not in the time in which a held button may be passed on.            *)
DivaKeys == {"primary", "secondary"}

DivaJoins(prev, keys) == keys = DivaKeys /\ prev # DivaKeys
DivaRolls(prev, keys) == {prev, keys} = {{"primary"}, {"secondary"}}

DivaLong == 2 * DivaDrop + 2

DivaSeen(d, keys, seen) ==
  [d EXCEPT !.seen = seen, !.keys = keys,
            !.same = IF keys # d.keys THEN 1 ELSE IF @ < DivaLong THEN @ + 1 ELSE @]

DivaPress(d, keys, presses, passed) ==
  LET since == IF keys # {} /\ d.prev = {} THEN 0 ELSE d.since
      taps == presses /\ ~(passed /\ since \in DivaMin..DivaMax)
      drop == IF taps THEN DivaDrop ELSE 0
  IN  [DivaSeen(d, keys, keys # {} /\ drop = 0)
         EXCEPT !.drop = drop, !.prev = keys, !.since = IF taps THEN 0 ELSE since]

(* Broken: the keys of the poll before are kept while polls are dropped,   *)
(* and afterwards.                                                         *)
DivaKeepsDropping(d, keys) ==
  IF d.drop > 0 THEN [DivaSeen(d, keys, FALSE) EXCEPT !.drop = @ - 1]
  ELSE LET pressed == DivaPress(d, keys, DivaJoins(d.prev, keys) \/ DivaRolls(d.prev, keys), FALSE)
       IN  [pressed EXCEPT !.prev = IF pressed.drop > 0 THEN d.prev ELSE @]

(* Broken: a key that takes over from the other is no press.               *)
DivaMissesRoll(d, keys) ==
  IF d.drop > 0 THEN [DivaSeen(d, keys, FALSE) EXCEPT !.drop = @ - 1]
  ELSE DivaPress(d, keys, DivaJoins(d.prev, keys), TRUE)

diva_io_set_game_button(d, keys) ==
  IF d.drop > 0 THEN [DivaSeen(d, keys, FALSE) EXCEPT !.drop = @ - 1]
  ELSE DivaPress(d, keys, DivaJoins(d.prev, keys) \/ DivaRolls(d.prev, keys), TRUE)

diva_io_jvs_poll ==
  /\ diva.unit = "buttons"
  /\ \E keys \in SUBSET DivaKeys : diva' = diva_io_set_game_button(diva, keys)

DivaTick ==
  /\ diva.unit = "buttons" /\ diva.since <= DivaMax
  /\ diva' = [diva EXCEPT !.since = @ + 1]

-----------------------------------------------------------------------------
(* The threads of the slides and of the touch.  A thread that is told to   *)
(* stop ends when it looks; the caller waits for it.                       *)
diva_io_slider_start ==
  /\ diva.unit # "buttons" /\ diva.thread = "none"
  /\ diva' = [diva EXCEPT !.thread = "run"]

diva_io_slider_stop ==
  /\ diva.thread = "run"
  /\ diva' = [diva EXCEPT !.thread = "stop"]

DivaThreadEnds ==
  /\ diva.thread = "stop" /\ diva.at = "top"
  /\ diva' = [diva EXCEPT !.thread = "none"]

DivaRuns(unit) == diva.unit = unit /\ diva.thread # "none"

-----------------------------------------------------------------------------
(* The slides.  The game's poll clears what the back end knows before it   *)
(* asks the device, while the slides' thread may look.                     *)
diva_di_get_gamebtns ==
  /\ diva.unit = "slides" /\ diva.mode # "keyboard"
  /\ diva' \in {[diva EXCEPT !.state = {}], [diva EXCEPT !.state = diva.held]}

diva_kb_get_auto_status(d) == IF d.mode = "keyboard" THEN d.held ELSE d.state

DivaMiddle == DivaCells \div 2

(* Once in 30 ms a slide goes on, from the middle to its end; past the     *)
(* end it starts again after a while.  Without a stick both go back.       *)
DivaSlide(d, late, back) ==
  LET auto == diva_kb_get_auto_status(d)
      right == IF ~late THEN d.right
               ELSE IF d.right + 1 >= DivaCells + DivaDelay THEN DivaMiddle ELSE d.right + 1
      left == IF ~late THEN d.left
              ELSE IF d.left - 1 < -DivaDelay THEN DivaMiddle - 1 ELSE d.left - 1
      lit == { c \in 0..DivaCells - 1 : \/ "l" \in auto /\ c = left
                                        \/ "r" \in auto /\ c = right }
  IN  [d EXCEPT !.lit = lit, !.left = IF auto \in back THEN DivaMiddle - 1 ELSE left,
                !.right = IF auto \in back THEN DivaMiddle ELSE right]

(* Broken: both slides go back when one stick is let go.                   *)
DivaRestarts(d, late) == DivaSlide(d, late, {{}, {"l"}, {"r"}})

diva_io_slider_thread_proc(d, late) == DivaSlide(d, late, {{}})

DivaSlides ==
  /\ DivaRuns("slides")
  /\ \E late \in BOOLEAN : diva' = diva_io_slider_thread_proc(diva, late)

DivaStick ==
  /\ diva.unit = "slides"
  /\ \E held \in SUBSET {"l", "r"} : diva' = [diva EXCEPT !.held = held]

-----------------------------------------------------------------------------
(* The touch by mouse.  No report is made when the cursor is not known.    *)
DivaReports(d, status) ==
  [d EXCEPT !.sent = status, !.whole = d.fresh,
            !.shows = CASE status \in {"DOWN", "STREAM"} -> TRUE
                        [] status = "LIFTOFF" -> FALSE
                        [] status = "none" -> @]

DivaClick(d) ==
  LET status == CASE d.finger /\ ~d.touch -> "DOWN"
                  [] d.finger /\ d.touch -> "STREAM"
                  [] ~d.finger /\ d.touch -> "LIFTOFF"
                  [] OTHER -> "none"
  IN  DivaReports([d EXCEPT !.touch = d.finger, !.status = status], status)

(* Broken: the finger is forgotten when the cursor is not known.           *)
DivaLosesCursor(d, known) ==
  IF d.finger /\ ~known THEN [d EXCEPT !.touch = FALSE] ELSE DivaClick(d)

diva_mouse_update(d, known) == IF d.finger /\ ~known THEN d ELSE DivaClick(d)

DivaMouse ==
  /\ DivaRuns("touch") /\ diva.screen = "mouse"
  /\ \E known \in BOOLEAN : diva' = diva_mouse_update(diva, known)

(* By messages of the window, which may come between any two steps of the  *)
(* thread: it looks at what they have left, forgets a finger that was      *)
(* lifted, and reports.                                                    *)
DivaLooks ==
  /\ DivaRuns("touch") /\ diva.screen = "wintouch" /\ diva.at = "top"
  /\ diva' = [diva EXCEPT !.fresh = TRUE,
                          !.at = CASE diva.status = "LIFTOFF" -> "forget"
                                   [] diva.status # "LIFTOFF" /\ ~diva.touch -> "idle"
                                   [] OTHER -> "report"]

DivaForgets ==
  \/ /\ diva.at = "forget"
     /\ diva' = [diva EXCEPT !.status = "none", !.at = "lift"]
  \/ /\ diva.at = "lift"
     /\ diva' = [diva EXCEPT !.touch = FALSE, !.at = "report"]
  \/ /\ diva.at = "idle"
     /\ diva' = [diva EXCEPT !.status = "none", !.at = "report"]

diva_wintouch_update ==
  /\ diva.at = "report"
  /\ diva' = [DivaReports(diva, diva.status) EXCEPT !.at = "top"]

DivaMessage(d, what, lifted) ==
  CASE what = "DOWN" -> [d EXCEPT !.finger = TRUE, !.touch = TRUE, !.status = "DOWN",
                                  !.fresh = FALSE, !.whole = FALSE]
    [] what = "MOVE" -> [d EXCEPT !.touch = TRUE, !.status = "STREAM"]
    [] what = "UP" -> [d EXCEPT !.finger = FALSE, !.status = lifted,
                                !.fresh = FALSE, !.whole = FALSE]

(* Broken: a finger that is lifted at once after it was put down is left   *)
(* where it is.                                                            *)
DivaMissesLift(d, what) == DivaMessage(d, what, IF d.status = "DOWN" THEN "DOWN" ELSE "LIFTOFF")

diva_handle_touch(d, what) == DivaMessage(d, what, "LIFTOFF")

DivaFinger ==
  /\ diva.unit = "touch"
  /\ IF diva.screen = "mouse" THEN diva' = [diva EXCEPT !.finger = ~@]
     ELSE \E what \in IF diva.finger THEN {"MOVE", "UP"} ELSE {"DOWN"} :
            diva' = diva_handle_touch(diva, what)

-----------------------------------------------------------------------------
DivaNext ==
  \/ diva_io_jvs_poll \/ DivaTick
  \/ diva_io_slider_start \/ diva_io_slider_stop \/ DivaThreadEnds
  \/ diva_di_get_gamebtns \/ DivaSlides \/ DivaStick
  \/ DivaMouse \/ DivaLooks \/ DivaForgets \/ diva_wintouch_update \/ DivaFinger

(* What one step may do.  A button with keys that stay held is never kept  *)
(* from the game for good: dropping polls (divaio.c:112) does not look at  *)
(* the keys, and the keys of then are compared with those after it.  When  *)
(* one key takes over from the other the game misses the release only in   *)
(* the time in which a held button may be passed on.  A slide whose stick  *)
(* is held goes on cell by cell and starts again only past its end, with   *)
(* the keyboard: the other back ends are cleared by the game's thread      *)
(* (input/xi.c:61) and may start again any time.  With the mouse the   *)
(* thread knows what its reports show, so that a click is one DOWN, any    *)
(* number of STREAM and one LIFTOFF.  A finger that was lifted is reported *)
(* no more once an update has run from its beginning to its end, whatever  *)
(* messages came during the updates before.                                *)
DivaStep ==
  /\ diva'.same = DivaLong /\ diva'.keys # {} => diva'.seen
  /\ diva'.seen => diva'.keys # {}
  /\ diva.seen /\ diva'.seen /\ DivaRolls(diva.keys, diva'.keys)
       => diva'.since \in DivaMin..DivaMax
  /\ diva.mode = "keyboard" /\ diva.held # {} /\ diva'.right # diva.right
       => diva'.right = (IF diva.right + 1 = DivaCells + DivaDelay THEN DivaMiddle
                         ELSE diva.right + 1)
  /\ diva.mode = "keyboard" /\ diva.held # {} /\ diva'.left # diva.left
       => diva'.left = (IF diva.left = -DivaDelay THEN DivaMiddle - 1 ELSE diva.left - 1)
  /\ diva.unit = "touch" /\ diva.screen = "mouse" => diva'.shows = diva'.touch
  /\ ~diva'.finger /\ diva'.whole /\ diva.screen = "wintouch" => diva'.sent = "none"

DivaIsRight == [][DivaStep]_diva
=============================================================================
