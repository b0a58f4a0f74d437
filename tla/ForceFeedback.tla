------------------------------ MODULE ForceFeedback ------------------------------
(***************************************************************************)
(* The motor drive board of the driving games (common/board/ffb.c) and     *)
(* what their I/O DLLs make of its commands: effects of a DirectInput      *)
(* wheel, or the motors of an XInput pad.                                  *)
(*                                                                         *)
(* An effect is created when it is first asked for, and changed after      *)
(* that; each call may fail.  Magnitudes are the force alone: the scaling  *)
(* by the strength of the configuration is left out, but for strength 0,   *)
(* which turns the effect off.  The game writes whole requests.            *)
(***************************************************************************)
EXTENDS Integers

CONSTANTS
  FfbForces,       (* forces of a request                                  *)
  FfbMirror,       (* what a force to the right is subtracted from (128)   *)
  FfbBase          (* the damping that is always there, base_damper        *)

ASSUME FfbAssumption ==
  /\ FfbForces \subseteq Nat /\ FfbMirror \in Nat /\ FfbBase \in Nat
  /\ \A f \in FfbForces : f <= FfbMirror

VARIABLE ffb

FfbGame == {"idz", "idac", "swdc"}
FfbKind == {"constant", "rumble", "spring", "damper"}
FfbNone == {}
FfbAll == [k \in FfbKind |-> FfbNone]

(* weak: the effects whose strength is configured as 0; param: what the    *)
(* effect that is held was last given, in a set, and the empty set if none *)
(* is held; objects: how many effects of a kind the device has.  History:  *)
(* asked, what the game has asked for since it last deactivated the board. *)
FfbInit ==
  \E g \in FfbGame, m \in {"dinput", "xinput"}, on \in BOOLEAN,
     w \in {{}, {"constant", "damper"}} :
    ffb = [game |-> g, mode |-> m, enable |-> on, weak |-> w, pc |-> "init",
           acquired |-> FALSE, param |-> FfbAll, objects |-> [k \in FfbKind |-> 0],
           motors |-> 0, asked |-> FfbAll]

-----------------------------------------------------------------------------
(* DirectInput.  idz_di_dev_start: each of its three calls may fail.       *)
idz_di_dev_start(f) == {f, [f EXCEPT !.acquired = TRUE]}

FfbRelease(f, kinds) ==
  [f EXCEPT !.param = [k \in FfbKind |-> IF k \in kinds THEN FfbNone ELSE @[k]],
            !.objects = [k \in FfbKind |->
              IF k \in kinds /\ f.param[k] # FfbNone THEN @[k] - 1 ELSE @[k]]]

(* Broken: an effect that cannot be changed is replaced, and goes on.      *)
FfbReplaces(f, k, value) ==
  (IF f.param[k] # FfbNone THEN {[f EXCEPT !.param[k] = {value}]} ELSE {})
    \cup {FfbRelease(f, {k}), [f EXCEPT !.param[k] = {value}, !.objects[k] = @ + 1]}

(* Broken: an effect that does not start is not released.                  *)
FfbKeepsUnstarted(f, k, value) ==
  LET none == FfbRelease(f, {k})
  IN  (IF f.param[k] # FfbNone THEN {[f EXCEPT !.param[k] = {value}]} ELSE {})
        \cup {[none EXCEPT !.objects[k] = @ + 1],
              [none EXCEPT !.param[k] = {value}, !.objects[k] = @ + 1]}

(* What cannot be changed is stopped, released and created anew, which     *)
(* fails when the effect is not created or does not start.                 *)
update_or_create_effect(f, k, value) ==
  LET none == FfbRelease(f, {k})
  IN  (IF f.param[k] # FfbNone THEN {[f EXCEPT !.param[k] = {value}]} ELSE {})
        \cup {none, [none EXCEPT !.param[k] = {value}, !.objects[k] = @ + 1]}

(* Broken: the effects go on when the board is deactivated.                *)
FfbForgetsSpring(f, active) ==
  IF active THEN f ELSE FfbRelease(f, {"constant", "rumble", "damper"})

idz_di_ffb_toggle(f, active) == IF active THEN f ELSE FfbRelease(f, FfbKind)

(* Broken: the same sign for both directions.                              *)
FfbPullsOneWay(f, direction, force) ==
  IF "constant" \in f.weak THEN {f} ELSE update_or_create_effect(f, "constant", force)

idz_di_ffb_constant_force(f, direction, force) ==
  IF "constant" \in f.weak THEN {f}
  ELSE update_or_create_effect(f, "constant", IF direction = 0 THEN -force ELSE force)

(* The period of the request is not used.                                  *)
idz_di_ffb_rumble(f, force) ==
  IF "rumble" \in f.weak THEN {f} ELSE update_or_create_effect(f, "rumble", force)

FfbDamping(force) == IF force < FfbBase THEN FfbBase ELSE force

FfbDamper(f, spring, force) ==
  IF "damper" \in f.weak THEN {FfbRelease(f, {"spring", "damper"})}
  ELSE UNION {update_or_create_effect(g, "damper", FfbDamping(force)) :
                g \in update_or_create_effect(f, "spring", spring)}

(* The coefficients of the spring are set from each other, and stay 0 ...  *)
idz_di_ffb_damper(f, force) == FfbDamper(f, 0, force)

(* ... which only idacio has right.                                        *)
idac_di_ffb_damper(f, force) == FfbDamper(f, force, force)

(* The rest of the copies is the same.                                     *)
idac_di_ffb_toggle(f, active) == idz_di_ffb_toggle(f, active)
idac_di_ffb_constant_force(f, direction, force) ==
  idz_di_ffb_constant_force(f, direction, force)
idac_di_ffb_rumble(f, force) == idz_di_ffb_rumble(f, force)

swdc_di_ffb_toggle(f, active) == idz_di_ffb_toggle(f, active)
swdc_di_ffb_constant_force(f, direction, force) ==
  idz_di_ffb_constant_force(f, direction, force)
swdc_di_ffb_rumble(f, force) == idz_di_ffb_rumble(f, force)
swdc_di_ffb_damper(f, force) == idz_di_ffb_damper(f, force)

-----------------------------------------------------------------------------
(* XInput has two motors, and only rumble.  They are stopped by both kinds *)
(* of toggle.                                                              *)
xi_ffb_toggle(f) == [f EXCEPT !.motors = 0]
xi_ffb_rumble(f, force) == [f EXCEPT !.motors = force]

-----------------------------------------------------------------------------
(* ffb_hook_init and, whether or not the board is enabled, the ffb_init of *)
(* the DLL, without which DirectInput gives no input either.               *)
FfbStart(game, started) ==
  /\ ffb.pc = "init" /\ ffb.game = game
  /\ \E f \in IF ffb.mode = "dinput" THEN started ELSE {ffb} :
       ffb' = [f EXCEPT !.pc = IF f.mode = "dinput" /\ ~f.acquired THEN "exit" ELSE "run"]

(* Broken: a board that is not enabled ends the start.                     *)
FfbStartsEnabled ==
  /\ ffb.pc = "init" /\ ffb.game = "idz"
  /\ \E f \in IF ffb.mode = "dinput" /\ ffb.enable THEN idz_di_dev_start(ffb) ELSE {ffb} :
       ffb' = [f EXCEPT !.pc = IF f.mode = "dinput" /\ f.enable /\ ~f.acquired
                               THEN "exit" ELSE "run"]

idz_ffb_hook_init == FfbStart("idz", idz_di_dev_start(ffb))
idac_ffb_hook_init == FfbStart("idac", idz_di_dev_start(ffb))
swdc_ffb_hook_init == FfbStart("swdc", idz_di_dev_start(ffb))

FfbRequest == ffb.pc = "run" /\ ffb.enable

ffb_req_toggle(active) ==
  /\ FfbRequest
  /\ LET f == [ffb EXCEPT !.asked = IF active THEN @ ELSE FfbAll]
     IN  ffb' = CASE f.mode = "xinput" -> xi_ffb_toggle(f)
                  [] f.mode = "dinput" /\ f.game = "idz" -> idz_di_ffb_toggle(f, active)
                  [] f.mode = "dinput" /\ f.game = "idac" -> idac_di_ffb_toggle(f, active)
                  [] f.mode = "dinput" /\ f.game = "swdc" -> swdc_di_ffb_toggle(f, active)

(* A force to the right arrives mirrored.                                  *)
FfbMeant(direction, force) == IF direction = 0 THEN FfbMirror - force ELSE force

ffb_req_constant_force(direction, force) ==
  /\ FfbRequest
  /\ LET meant == FfbMeant(direction, force)
         f == [ffb EXCEPT !.asked["constant"] = {IF direction = 0 THEN -meant ELSE meant}]
     IN  ffb' \in CASE f.mode = "xinput" -> {f}
                    [] f.mode = "dinput" /\ f.game = "idz" ->
                         idz_di_ffb_constant_force(f, direction, meant)
                    [] f.mode = "dinput" /\ f.game = "idac" ->
                         idac_di_ffb_constant_force(f, direction, meant)
                    [] f.mode = "dinput" /\ f.game = "swdc" ->
                         swdc_di_ffb_constant_force(f, direction, meant)

ffb_req_rumble(force) ==
  /\ FfbRequest
  /\ LET f == [ffb EXCEPT !.asked["rumble"] = {force}]
     IN  ffb' \in CASE f.mode = "xinput" -> {xi_ffb_rumble(f, force)}
                    [] f.mode = "dinput" /\ f.game = "idz" -> idz_di_ffb_rumble(f, force)
                    [] f.mode = "dinput" /\ f.game = "idac" -> idac_di_ffb_rumble(f, force)
                    [] f.mode = "dinput" /\ f.game = "swdc" -> swdc_di_ffb_rumble(f, force)

ffb_req_damper(force) ==
  /\ FfbRequest
  /\ LET f == [ffb EXCEPT !.asked["damper"] = {FfbDamping(force)}, !.asked["spring"] = {force}]
     IN  ffb' \in CASE f.mode = "xinput" -> {f}
                    [] f.mode = "dinput" /\ f.game = "idz" -> idz_di_ffb_damper(f, force)
                    [] f.mode = "dinput" /\ f.game = "idac" -> idac_di_ffb_damper(f, force)
                    [] f.mode = "dinput" /\ f.game = "swdc" -> swdc_di_ffb_damper(f, force)

FfbNext ==
  \/ idz_ffb_hook_init \/ idac_ffb_hook_init \/ swdc_ffb_hook_init
  \/ \E active \in BOOLEAN : ffb_req_toggle(active)
  \/ \E direction \in {0, 1}, force \in FfbForces : ffb_req_constant_force(direction, force)
  \/ \E force \in FfbForces : ffb_req_rumble(force) \/ ffb_req_damper(force)

-----------------------------------------------------------------------------
(* Properties.                                                             *)

(* Every effect of the device is one the DLL still holds, so that it can   *)
(* be changed and stopped: none is lost in a failure                       *)
(* (update_or_create_effect).                                              *)
FfbOwned == \A k \in FfbKind : ffb.objects[k] = IF ffb.param[k] = FfbNone THEN 0 ELSE 1

(* What the wheel does is what the game has asked for last, however the    *)
(* calls before failed, and nothing once the board is deactivated.  The    *)
(* spring's force is that of idacio only.                                  *)
FfbObeys ==
  /\ \A k \in FfbKind \ {"spring"} : ffb.param[k] # FfbNone => ffb.param[k] = ffb.asked[k]
  /\ ffb.param["spring"] # FfbNone =>
       /\ ffb.asked["spring"] # FfbNone
       /\ ffb.game = "idac" => ffb.param["spring"] = ffb.asked["spring"]
  /\ ffb.motors # 0 => {ffb.motors} = ffb.asked["rumble"]

(* No game runs with a wheel that was not acquired, also with the board    *)
(* disabled: idz_ffb_hook_init is what acquires it.                        *)
FfbAcquires == ffb.pc = "run" /\ ffb.mode = "dinput" => ffb.acquired

FfbTypeOK ==
  /\ ffb.pc \in {"init", "run", "exit"}
  /\ ffb.objects \in [FfbKind -> Int]
  /\ ffb.motors \in Nat
  /\ DOMAIN ffb.param = FfbKind /\ DOMAIN ffb.asked = FfbKind

(* The wheel is acquired, its effects are owned, and they do what the game *)
(* has asked for.                                                          *)
FfbIsRight ==
  FfbTypeOK /\ FfbOwned /\ FfbObeys /\ FfbAcquires

=============================================================================
