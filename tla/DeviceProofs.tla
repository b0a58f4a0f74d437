------------------------------ MODULE DeviceProofs ------------------------------
(***************************************************************************)
(* Theorems about devices, for every value of their constants.  They share *)
(* no state; each has a section of its own, with the invariant that its    *)
(* properties follow from and why each step keeps it.                      *)
(***************************************************************************)
EXTENDS ForceFeedback, Elo, MercuryTouch, DivaIo, Led15093, Led15070, Wheel,
        SequenceTheorems, WellFoundedInduction, TLAPS

-----------------------------------------------------------------------------
(* Force feedback: for all forces, however the calls of DirectInput fail.  *)

FfbSpec == FfbInit /\ [][FfbNext]_ffb

FfbState ==
  [game : FfbGame, mode : {"dinput", "xinput"}, enable : BOOLEAN,
   weak : SUBSET FfbKind, pc : {"init", "run", "exit"}, acquired : BOOLEAN,
   param : [FfbKind -> SUBSET Int], objects : [FfbKind -> Int],
   motors : Nat, asked : [FfbKind -> SUBSET Int]]

FfbHolds(f) == \A k \in FfbKind : f.objects[k] = IF f.param[k] = FfbNone THEN 0 ELSE 1

(* An effect that is off is never created, a pad has no effects and a wheel *)
(* no motors.                                                              *)
FfbOff(f) ==
  /\ \A k \in {"constant", "rumble"} : k \in f.weak => f.param[k] = FfbNone
  /\ f.mode = "xinput" => \A k \in FfbKind : f.param[k] = FfbNone
  /\ f.mode = "dinput" => f.motors = 0

FfbDoes(f) ==
  /\ \A k \in FfbKind \ {"spring"} : f.param[k] # FfbNone => f.param[k] = f.asked[k]
  /\ f.param["spring"] # FfbNone =>
       /\ f.asked["spring"] # FfbNone
       /\ f.game = "idac" => f.param["spring"] = f.asked["spring"]
  /\ f.motors # 0 => {f.motors} = f.asked["rumble"]

FfbGot(f) == f.pc = "run" /\ f.mode = "dinput" => f.acquired

FfbInv == ffb \in FfbState /\ FfbHolds(ffb) /\ FfbOff(ffb) /\ FfbDoes(ffb) /\ FfbGot(ffb)

-----------------------------------------------------------------------------
(* The calls of DirectInput.                                               *)

(* What is released is gone from the DLL and from the device, and the rest *)
(* is as it was.                                                           *)
LEMMA ReleaseReleases ==
  ASSUME NEW f \in FfbState, FfbHolds(f), NEW kinds
  PROVE  LET g == FfbRelease(f, kinds)
         IN  /\ g \in FfbState /\ FfbHolds(g)
             /\ \A k \in FfbKind : g.param[k] = IF k \in kinds THEN FfbNone ELSE f.param[k]
             /\ g.game = f.game /\ g.mode = f.mode /\ g.enable = f.enable
             /\ g.weak = f.weak /\ g.pc = f.pc /\ g.acquired = f.acquired
             /\ g.motors = f.motors /\ g.asked = f.asked
<1> DEFINE g == FfbRelease(f, kinds)
<1>1. /\ g = [f EXCEPT !.param = g.param, !.objects = g.objects]
      /\ g.param = [k \in FfbKind |-> IF k \in kinds THEN FfbNone ELSE f.param[k]]
      /\ g.objects = [k \in FfbKind |->
           IF k \in kinds /\ f.param[k] # FfbNone THEN f.objects[k] - 1 ELSE f.objects[k]]
  BY DEF FfbRelease, FfbState
<1>2. g.param \in [FfbKind -> SUBSET Int] /\ g.objects \in [FfbKind -> Int]
  BY <1>1 DEF FfbState, FfbNone
<1>3. g \in FfbState
  BY <1>1, <1>2 DEF FfbState
<1>4. FfbHolds(g)
  BY <1>1 DEF FfbHolds, FfbState, FfbNone
<1> QED
  BY <1>1, <1>3, <1>4 DEF FfbState

(* An effect that is set ends up with the new value or not at all, and     *)
(* nothing else changes, whichever of the calls fail.                      *)
LEMMA EffectsAreSet ==
  ASSUME NEW f \in FfbState, FfbHolds(f), NEW k \in FfbKind, NEW value \in Int,
         NEW g \in update_or_create_effect(f, k, value)
  PROVE  /\ g \in FfbState /\ FfbHolds(g)
         /\ g.param[k] \in {FfbNone, {value}}
         /\ \A j \in FfbKind \ {k} : g.param[j] = f.param[j]
         /\ g.game = f.game /\ g.mode = f.mode /\ g.enable = f.enable
         /\ g.weak = f.weak /\ g.pc = f.pc /\ g.acquired = f.acquired
         /\ g.motors = f.motors /\ g.asked = f.asked
<1> DEFINE none == FfbRelease(f, {k})
<1>1. /\ none \in FfbState /\ FfbHolds(none)
      /\ none.param[k] = FfbNone /\ \A j \in FfbKind \ {k} : none.param[j] = f.param[j]
      /\ none.game = f.game /\ none.mode = f.mode /\ none.enable = f.enable
      /\ none.weak = f.weak /\ none.pc = f.pc /\ none.acquired = f.acquired
      /\ none.motors = f.motors /\ none.asked = f.asked
  BY ReleaseReleases
<1>2. CASE f.param[k] # FfbNone /\ g = [f EXCEPT !.param[k] = {value}]
  <2>1. g.param = [f.param EXCEPT ![k] = {value}] /\ g.objects = f.objects
    BY <1>2 DEF FfbState
  <2>2. g.param[k] = {value} /\ \A j \in FfbKind \ {k} : g.param[j] = f.param[j]
    BY <2>1 DEF FfbState
  <2>3. FfbHolds(g)
    BY <1>2, <2>1, <2>2 DEF FfbHolds, FfbNone
  <2>4. g.param \in [FfbKind -> SUBSET Int]
    BY <2>1 DEF FfbState
  <2>5. g \in FfbState
    BY <1>2, <2>4 DEF FfbState
  <2> QED
    BY <1>2, <2>2, <2>3, <2>5 DEF FfbState
<1>3. CASE g = none
  BY <1>1, <1>3
<1>4. CASE g = [none EXCEPT !.param[k] = {value}, !.objects[k] = @ + 1]
  <2> HIDE DEF none
  <2>1. /\ g.param = [none.param EXCEPT ![k] = {value}]
        /\ g.objects = [none.objects EXCEPT ![k] = none.objects[k] + 1]
    BY <1>1, <1>4 DEF FfbState
  <2>2. /\ g.param[k] = {value} /\ \A j \in FfbKind \ {k} : g.param[j] = none.param[j]
        /\ g.objects[k] = none.objects[k] + 1
        /\ \A j \in FfbKind \ {k} : g.objects[j] = none.objects[j]
    BY <1>1, <2>1 DEF FfbState
  <2>3. none.objects[k] = 0
    BY <1>1 DEF FfbHolds
  <2>4. FfbHolds(g)
    BY <1>1, <2>2, <2>3 DEF FfbHolds, FfbNone
  <2>5. g.param \in [FfbKind -> SUBSET Int] /\ g.objects \in [FfbKind -> Int]
    BY <1>1, <2>1 DEF FfbState
  <2>6. g \in FfbState
    BY <1>1, <1>4, <2>5 DEF FfbState
  <2> QED
    BY <1>1, <1>4, <2>2, <2>4, <2>6 DEF FfbState
<1> QED
  BY <1>2, <1>3, <1>4 DEF update_or_create_effect

-----------------------------------------------------------------------------
(* The requests.  A request notes what is asked, f, and then sets effects. *)

(* Only what concerns the effects of f has changed in g.                   *)
FfbSame(f, g) ==
  /\ g.game = f.game /\ g.mode = f.mode /\ g.enable = f.enable
  /\ g.weak = f.weak /\ g.pc = f.pc /\ g.acquired = f.acquired
  /\ g.motors = f.motors /\ g.asked = f.asked

(* One effect that is not switched off is asked for and set.               *)
LEMMA EffectIsObeyed ==
  ASSUME NEW f \in FfbState, FfbHolds(f), FfbOff(f), FfbGot(f),
         NEW k \in {"constant", "rumble"}, NEW value \in Int,
         \A j \in FfbKind \ {"spring", k} : f.param[j] # FfbNone => f.param[j] = f.asked[j],
         f.param["spring"] # FfbNone =>
           /\ f.asked["spring"] # FfbNone
           /\ f.game = "idac" => f.param["spring"] = f.asked["spring"],
         f.asked[k] = {value}, f.mode = "dinput",
         k \notin f.weak,
         NEW g \in update_or_create_effect(f, k, value)
  PROVE  g \in FfbState /\ FfbHolds(g) /\ FfbOff(g) /\ FfbDoes(g) /\ FfbGot(g)
<1>1. k \in FfbKind /\ "spring" # k /\ "spring" \in FfbKind
  BY DEF FfbKind
<1>2. /\ g \in FfbState /\ FfbHolds(g) /\ g.param[k] \in {FfbNone, {value}}
      /\ \A j \in FfbKind \ {k} : g.param[j] = f.param[j]
      /\ FfbSame(f, g)
  BY <1>1, EffectsAreSet DEF FfbSame
<1>3. FfbOff(g)
  BY <1>1, <1>2 DEF FfbOff, FfbSame, FfbKind
<1>4. FfbDoes(g)
  <2>1. \A j \in FfbKind \ {"spring"} : g.param[j] # FfbNone => g.param[j] = g.asked[j]
    BY <1>2 DEF FfbSame
  <2>2. g.param["spring"] = f.param["spring"]
    BY <1>1, <1>2
  <2>3. g.motors = 0
    BY <1>2 DEF FfbOff, FfbSame
  <2> QED
    BY <1>2, <2>1, <2>2, <2>3 DEF FfbDoes, FfbSame
<1>5. FfbGot(g)
  BY <1>2 DEF FfbGot, FfbSame
<1> QED
  BY <1>2, <1>3, <1>4, <1>5

(* The spring and the damper, which are switched off and set together.     *)
LEMMA DamperIsObeyed ==
  ASSUME NEW f \in FfbState, FfbHolds(f), FfbOff(f), FfbGot(f),
         NEW spring \in Int, NEW force \in Nat,
         \A j \in FfbKind \ {"spring", "damper"} :
           f.param[j] # FfbNone => f.param[j] = f.asked[j],
         f.asked["spring"] = {force}, f.asked["damper"] = {FfbDamping(force)},
         f.game = "idac" => spring = force, f.mode = "dinput",
         NEW g \in FfbDamper(f, spring, force)
  PROVE  g \in FfbState /\ FfbHolds(g) /\ FfbOff(g) /\ FfbDoes(g) /\ FfbGot(g)
<1>1. /\ "spring" \in FfbKind /\ "damper" \in FfbKind /\ "constant" \in FfbKind
      /\ FfbDamping(force) \in Int
  BY FfbAssumption DEF FfbKind, FfbAssumption, FfbDamping
<1>2. /\ g \in FfbState /\ FfbHolds(g)
      /\ g.param["spring"] \in {FfbNone, {spring}}
      /\ g.param["damper"] \in {FfbNone, {FfbDamping(force)}}
      /\ \A j \in FfbKind \ {"spring", "damper"} : g.param[j] = f.param[j]
      /\ FfbSame(f, g)
  <2>1. CASE "damper" \in f.weak
    <3>1. g = FfbRelease(f, {"spring", "damper"})
      BY <2>1 DEF FfbDamper
    <3> QED
      BY <1>1, <3>1, ReleaseReleases DEF FfbSame
  <2>2. CASE "damper" \notin f.weak
    <3>1. PICK h \in update_or_create_effect(f, "spring", spring) :
            g \in update_or_create_effect(h, "damper", FfbDamping(force))
      BY <2>2 DEF FfbDamper
    <3>2. /\ h \in FfbState /\ FfbHolds(h) /\ h.param["spring"] \in {FfbNone, {spring}}
          /\ \A j \in FfbKind \ {"spring"} : h.param[j] = f.param[j]
          /\ FfbSame(f, h)
      BY <1>1, <3>1, EffectsAreSet DEF FfbSame
    <3>3. /\ g \in FfbState /\ FfbHolds(g)
          /\ g.param["damper"] \in {FfbNone, {FfbDamping(force)}}
          /\ \A j \in FfbKind \ {"damper"} : g.param[j] = h.param[j]
          /\ FfbSame(h, g)
      BY <1>1, <3>1, <3>2, EffectsAreSet DEF FfbSame
    <3> QED
      BY <1>1, <3>2, <3>3 DEF FfbSame
  <2> QED
    BY <2>1, <2>2
<1>3. FfbOff(g)
  <2>1. \A k \in {"constant", "rumble"} : g.param[k] = f.param[k]
    BY <1>2 DEF FfbKind
  <2>2. f.mode = "dinput" /\ g.mode = f.mode /\ g.weak = f.weak /\ g.motors = f.motors
    BY <1>2 DEF FfbSame
  <2> QED
    BY <2>1, <2>2 DEF FfbOff
<1>4. FfbDoes(g)
  <2>1. \A j \in FfbKind \ {"spring"} : g.param[j] # FfbNone => g.param[j] = g.asked[j]
    BY <1>2 DEF FfbSame
  <2>2. g.motors = 0
    BY <1>2 DEF FfbOff, FfbSame
  <2> QED
    BY <1>2, <2>1, <2>2 DEF FfbDoes, FfbSame, FfbNone
<1>5. FfbGot(g)
  BY <1>2 DEF FfbGot, FfbSame
<1> QED
  BY <1>2, <1>3, <1>4, <1>5

-----------------------------------------------------------------------------
(* The steps.                                                              *)

(* ffb_hook_init: the wheel is acquired, or the game does not run.         *)
LEMMA StartKeeps ==
  ASSUME FfbInv, NEW game, FfbStart(game, idz_di_dev_start(ffb))
  PROVE  FfbInv'
<1>1. PICK f \in IF ffb.mode = "dinput" THEN idz_di_dev_start(ffb) ELSE {ffb} :
        ffb' = [f EXCEPT !.pc = IF f.mode = "dinput" /\ ~f.acquired THEN "exit" ELSE "run"]
  BY DEF FfbStart
<1>2. /\ f \in FfbState /\ f.game = ffb.game /\ f.mode = ffb.mode /\ f.weak = ffb.weak
      /\ f.param = ffb.param /\ f.objects = ffb.objects /\ f.motors = ffb.motors
      /\ f.asked = ffb.asked
  BY <1>1 DEF idz_di_dev_start, FfbInv, FfbState
<1>3. /\ ffb' \in FfbState /\ ffb'.game = ffb.game /\ ffb'.mode = ffb.mode
      /\ ffb'.weak = ffb.weak /\ ffb'.param = ffb.param /\ ffb'.objects = ffb.objects
      /\ ffb'.motors = ffb.motors /\ ffb'.asked = ffb.asked
  BY <1>1, <1>2 DEF FfbState
<1>4. FfbGot(ffb')
  BY <1>1, <1>2 DEF FfbState, FfbGot
<1> QED
  BY <1>3, <1>4 DEF FfbInv, FfbHolds, FfbOff, FfbDoes

(* ffb_req_toggle: what is released obeys an empty request.                *)
LEMMA ToggleKeeps ==
  ASSUME FfbInv, NEW active \in BOOLEAN, ffb_req_toggle(active)
  PROVE  FfbInv'
<1> DEFINE f == [ffb EXCEPT !.asked = IF active THEN @ ELSE FfbAll]
<1>1. /\ f \in FfbState /\ f.param = ffb.param /\ f.objects = ffb.objects
      /\ f.weak = ffb.weak /\ f.mode = ffb.mode /\ f.motors = ffb.motors
      /\ f.game = ffb.game /\ f.pc = ffb.pc /\ f.acquired = ffb.acquired
      /\ active => f = ffb
      /\ ~active => f.asked = FfbAll
  BY DEF FfbInv, FfbState, FfbAll, FfbNone
<1>2. FfbHolds(f) /\ FfbOff(f) /\ FfbGot(f)
  BY <1>1 DEF FfbInv, FfbHolds, FfbOff, FfbGot
<1>3. CASE ffb.mode = "xinput"
  <2>1. ffb' = [f EXCEPT !.motors = 0]
    BY <1>1, <1>3 DEF ffb_req_toggle, xi_ffb_toggle
  <2> HIDE DEF f
  <2>2. /\ ffb' \in FfbState /\ FfbSame([f EXCEPT !.motors = 0], ffb') /\ ffb'.motors = 0
        /\ ffb'.param = f.param /\ ffb'.objects = f.objects /\ ffb'.weak = f.weak
        /\ ffb'.mode = f.mode /\ ffb'.pc = f.pc /\ ffb'.acquired = f.acquired
    BY <1>1, <2>1 DEF FfbState, FfbSame
  <2>3. \A k \in FfbKind : ffb'.param[k] = FfbNone
    BY <1>1, <1>2, <1>3, <2>2 DEF FfbOff
  <2> QED
    BY <1>1, <1>2, <2>2, <2>3 DEF FfbInv, FfbHolds, FfbOff, FfbDoes, FfbGot, FfbKind
<1>4. CASE ffb.mode = "dinput"
  <2>1. ffb' = IF active THEN f ELSE FfbRelease(f, FfbKind)
    <3>1. f.game \in {"idz", "idac", "swdc"} /\ f.mode = "dinput"
      BY <1>1, <1>4 DEF FfbState, FfbGame
    <3> QED
      BY <3>1 DEF ffb_req_toggle, idz_di_ffb_toggle, idac_di_ffb_toggle, swdc_di_ffb_toggle
  <2>2. CASE active
    BY <1>1, <2>1, <2>2 DEF FfbInv
  <2>3. CASE ~active
    <3> HIDE DEF f
    <3>1. /\ ffb' \in FfbState /\ FfbHolds(ffb') /\ FfbSame(f, ffb')
          /\ \A k \in FfbKind : ffb'.param[k] = FfbNone
      BY <1>1, <1>2, <2>1, <2>3, ReleaseReleases DEF FfbSame
    <3>2. ffb'.motors = 0
      BY <1>1, <1>2, <1>4, <3>1 DEF FfbOff, FfbSame
    <3> QED
      BY <1>2, <3>1, <3>2 DEF FfbInv, FfbOff, FfbDoes, FfbGot, FfbSame, FfbKind
  <2> QED
    BY <2>2, <2>3
<1> QED
  BY <1>3, <1>4 DEF FfbInv, FfbState

(* What a request notes, and nothing else, has changed in f.               *)
LEMMA AskingKeeps ==
  ASSUME FfbInv, NEW f \in FfbState, NEW kinds \in SUBSET FfbKind,
         f = [ffb EXCEPT !.asked = f.asked],
         \A k \in FfbKind \ kinds : f.asked[k] = ffb.asked[k]
  PROVE  /\ FfbHolds(f) /\ FfbOff(f) /\ FfbGot(f)
         /\ f.param = ffb.param /\ f.motors = ffb.motors
         /\ \A k \in FfbKind \ ({"spring"} \cup kinds) :
              f.param[k] # FfbNone => f.param[k] = f.asked[k]
         /\ "spring" \notin kinds /\ f.param["spring"] # FfbNone =>
              /\ f.asked["spring"] # FfbNone
              /\ f.game = "idac" => f.param["spring"] = f.asked["spring"]
<1>1. /\ f.game = ffb.game /\ f.mode = ffb.mode /\ f.weak = ffb.weak /\ f.pc = ffb.pc
      /\ f.acquired = ffb.acquired /\ f.param = ffb.param /\ f.objects = ffb.objects
      /\ f.motors = ffb.motors
  BY DEF FfbInv, FfbState
<1>2. FfbHolds(f) /\ FfbOff(f) /\ FfbGot(f)
  BY <1>1 DEF FfbInv, FfbHolds, FfbOff, FfbGot
<1>3. "spring" \in FfbKind
  BY DEF FfbKind
<1> QED
  BY <1>1, <1>2, <1>3 DEF FfbInv, FfbDoes

(* ffb_req_constant_force: the sign of the force follows its direction.    *)
LEMMA ConstantKeeps ==
  ASSUME FfbInv, NEW direction \in {0, 1}, NEW force \in FfbForces,
         ffb_req_constant_force(direction, force)
  PROVE  FfbInv'
<1> DEFINE meant == FfbMeant(direction, force)
           value == IF direction = 0 THEN -meant ELSE meant
           f == [ffb EXCEPT !.asked["constant"] = {value}]
<1>1. meant \in Int /\ value \in Int
  BY FfbAssumption DEF FfbAssumption, FfbMeant
<1>2. /\ f = [ffb EXCEPT !.asked = f.asked]
      /\ f.asked = [ffb.asked EXCEPT !["constant"] = {value}]
      /\ f.mode = ffb.mode /\ f.game = ffb.game /\ f.weak = ffb.weak
  BY DEF FfbInv, FfbState
<1>3. f.asked \in [FfbKind -> SUBSET Int] /\ f.asked["constant"] = {value}
      /\ \A k \in FfbKind \ {"constant"} : f.asked[k] = ffb.asked[k]
  BY <1>1, <1>2 DEF FfbInv, FfbState, FfbKind
<1>4. f \in FfbState
  BY <1>2, <1>3 DEF FfbInv, FfbState
<1>5. {"constant"} \in SUBSET FfbKind /\ "spring" \notin {"constant"}
  BY DEF FfbKind
<1>6. ffb' \in IF f.mode = "xinput" \/ "constant" \in f.weak THEN {f}
               ELSE update_or_create_effect(f, "constant", value)
  <2>1. f.game \in {"idz", "idac", "swdc"} /\ f.mode \in {"xinput", "dinput"}
    BY <1>4 DEF FfbState, FfbGame
  <2> QED
    BY <2>1 DEF ffb_req_constant_force, idz_di_ffb_constant_force, idac_di_ffb_constant_force,
                swdc_di_ffb_constant_force
<1> HIDE DEF f, value, meant
<1>7. /\ FfbHolds(f) /\ FfbOff(f) /\ FfbGot(f) /\ f.param = ffb.param /\ f.motors = ffb.motors
      /\ \A k \in FfbKind \ {"spring", "constant"} : f.param[k] # FfbNone => f.param[k] = f.asked[k]
      /\ f.param["spring"] # FfbNone =>
           /\ f.asked["spring"] # FfbNone
           /\ f.game = "idac" => f.param["spring"] = f.asked["spring"]
  <2>1. ASSUME NEW kinds \in SUBSET FfbKind, kinds = {"constant"}
        PROVE  /\ FfbHolds(f) /\ FfbOff(f) /\ FfbGot(f)
               /\ f.param = ffb.param /\ f.motors = ffb.motors
               /\ \A k \in FfbKind \ ({"spring"} \cup kinds) :
                    f.param[k] # FfbNone => f.param[k] = f.asked[k]
               /\ "spring" \notin kinds /\ f.param["spring"] # FfbNone =>
                    /\ f.asked["spring"] # FfbNone
                    /\ f.game = "idac" => f.param["spring"] = f.asked["spring"]
    BY <1>2, <1>3, <1>4, <2>1, AskingKeeps
  <2> QED
    BY <1>5, <2>1
<1>8. CASE f.mode = "xinput" \/ "constant" \in f.weak
  <2>1. ffb' = f
    BY <1>6, <1>8
  <2>2. f.param["constant"] = FfbNone
    BY <1>7, <1>8 DEF FfbOff, FfbKind
  <2>3. f.motors # 0 => {f.motors} = f.asked["rumble"]
    BY <1>3, <1>7 DEF FfbInv, FfbDoes, FfbKind
  <2>4. FfbDoes(f)
    BY <1>7, <2>2, <2>3 DEF FfbDoes
  <2> QED
    BY <1>4, <1>7, <2>1, <2>4 DEF FfbInv
<1>9. CASE f.mode = "dinput" /\ "constant" \notin f.weak
  <2>1. ffb' \in update_or_create_effect(f, "constant", value)
    BY <1>6, <1>9
  <2>2. ffb' \in FfbState /\ FfbHolds(ffb') /\ FfbOff(ffb') /\ FfbDoes(ffb') /\ FfbGot(ffb')
    BY <1>1, <1>3, <1>4, <1>7, <1>9, <2>1, EffectIsObeyed
  <2> QED
    BY <2>2 DEF FfbInv
<1> QED
  BY <1>4, <1>8, <1>9 DEF FfbState

(* ffb_req_rumble: an effect of a wheel, the motors of a pad.              *)
LEMMA RumbleKeeps ==
  ASSUME FfbInv, NEW force \in FfbForces, ffb_req_rumble(force)
  PROVE  FfbInv'
<1> DEFINE f == [ffb EXCEPT !.asked["rumble"] = {force}]
<1>1. force \in Nat
  BY FfbAssumption DEF FfbAssumption
<1>2. /\ f = [ffb EXCEPT !.asked = f.asked]
      /\ f.asked = [ffb.asked EXCEPT !["rumble"] = {force}]
      /\ f.mode = ffb.mode /\ f.game = ffb.game /\ f.weak = ffb.weak
  BY DEF FfbInv, FfbState
<1>3. f.asked \in [FfbKind -> SUBSET Int] /\ f.asked["rumble"] = {force}
      /\ \A k \in FfbKind \ {"rumble"} : f.asked[k] = ffb.asked[k]
  BY <1>1, <1>2 DEF FfbInv, FfbState, FfbKind
<1>4. f \in FfbState
  BY <1>2, <1>3 DEF FfbInv, FfbState
<1>5. {"rumble"} \in SUBSET FfbKind /\ "spring" \notin {"rumble"}
  BY DEF FfbKind
<1>6. ffb' \in IF f.mode = "xinput" THEN {[f EXCEPT !.motors = force]}
               ELSE IF "rumble" \in f.weak THEN {f}
               ELSE update_or_create_effect(f, "rumble", force)
  <2>1. f.game \in {"idz", "idac", "swdc"} /\ f.mode \in {"xinput", "dinput"}
    BY <1>4 DEF FfbState, FfbGame
  <2> QED
    BY <2>1 DEF ffb_req_rumble, xi_ffb_rumble, idz_di_ffb_rumble, idac_di_ffb_rumble,
                swdc_di_ffb_rumble
<1> HIDE DEF f
<1>7. /\ FfbHolds(f) /\ FfbOff(f) /\ FfbGot(f) /\ f.param = ffb.param /\ f.motors = ffb.motors
      /\ \A k \in FfbKind \ {"spring", "rumble"} : f.param[k] # FfbNone => f.param[k] = f.asked[k]
      /\ f.param["spring"] # FfbNone =>
           /\ f.asked["spring"] # FfbNone
           /\ f.game = "idac" => f.param["spring"] = f.asked["spring"]
  <2>1. ASSUME NEW kinds \in SUBSET FfbKind, kinds = {"rumble"}
        PROVE  /\ FfbHolds(f) /\ FfbOff(f) /\ FfbGot(f)
               /\ f.param = ffb.param /\ f.motors = ffb.motors
               /\ \A k \in FfbKind \ ({"spring"} \cup kinds) :
                    f.param[k] # FfbNone => f.param[k] = f.asked[k]
               /\ "spring" \notin kinds /\ f.param["spring"] # FfbNone =>
                    /\ f.asked["spring"] # FfbNone
                    /\ f.game = "idac" => f.param["spring"] = f.asked["spring"]
    BY <1>2, <1>3, <1>4, <2>1, AskingKeeps
  <2> QED
    BY <1>5, <2>1
<1>8. CASE f.mode = "xinput"
  <2>1. /\ ffb' \in FfbState /\ ffb'.motors = force /\ ffb'.param = f.param
        /\ ffb'.objects = f.objects /\ ffb'.asked = f.asked /\ ffb'.mode = f.mode
        /\ ffb'.weak = f.weak /\ ffb'.pc = f.pc /\ ffb'.acquired = f.acquired
    BY <1>1, <1>4, <1>6, <1>8 DEF FfbState
  <2>2. \A k \in FfbKind : ffb'.param[k] = FfbNone
    BY <1>7, <1>8, <2>1 DEF FfbOff
  <2>3. FfbDoes(ffb')
    BY <1>3, <2>1, <2>2 DEF FfbDoes, FfbKind
  <2> QED
    BY <1>7, <1>8, <2>1, <2>2, <2>3 DEF FfbInv, FfbHolds, FfbOff, FfbGot
<1>9. CASE f.mode = "dinput" /\ "rumble" \notin f.weak
  <2>1. ffb' \in update_or_create_effect(f, "rumble", force)
    BY <1>6, <1>9
  <2>2. force \in Int
    BY <1>1
  <2>3. ffb' \in FfbState /\ FfbHolds(ffb') /\ FfbOff(ffb') /\ FfbDoes(ffb') /\ FfbGot(ffb')
    BY <1>3, <1>4, <1>7, <1>9, <2>1, <2>2, EffectIsObeyed
  <2> QED
    BY <2>3 DEF FfbInv
<1>10. CASE f.mode = "dinput" /\ "rumble" \in f.weak
  <2>1. ffb' = f /\ f.param["rumble"] = FfbNone
    BY <1>6, <1>7, <1>10 DEF FfbOff
  <2>2. f.motors = 0
    BY <1>7, <1>10 DEF FfbOff
  <2> QED
    BY <1>4, <1>7, <2>1, <2>2 DEF FfbInv, FfbDoes
<1> QED
  BY <1>4, <1>8, <1>9, <1>10 DEF FfbState

(* ffb_req_damper: the damping is not below the base, the spring is idacio's. *)
LEMMA DamperKeeps ==
  ASSUME FfbInv, NEW force \in FfbForces, ffb_req_damper(force)
  PROVE  FfbInv'
<1> DEFINE f == [ffb EXCEPT !.asked["damper"] = {FfbDamping(force)}, !.asked["spring"] = {force}]
           spring == IF f.game = "idac" THEN force ELSE 0
<1>1. force \in Nat /\ FfbDamping(force) \in Nat
  BY FfbAssumption DEF FfbAssumption, FfbDamping
<1>2. /\ f = [ffb EXCEPT !.asked = f.asked]
      /\ f.asked = [[ffb.asked EXCEPT !["damper"] = {FfbDamping(force)}] EXCEPT !["spring"] = {force}]
      /\ f.mode = ffb.mode /\ f.game = ffb.game /\ f.weak = ffb.weak
  BY DEF FfbInv, FfbState
<1>3. f.asked \in [FfbKind -> SUBSET Int] /\ f.asked["spring"] = {force}
      /\ f.asked["damper"] = {FfbDamping(force)}
      /\ \A k \in FfbKind \ {"spring", "damper"} : f.asked[k] = ffb.asked[k]
  BY <1>1, <1>2 DEF FfbInv, FfbState, FfbKind
<1>4. f \in FfbState
  BY <1>2, <1>3 DEF FfbInv, FfbState
<1>5. {"spring", "damper"} \in SUBSET FfbKind
  BY DEF FfbKind
<1>6. ffb' \in IF f.mode = "xinput" THEN {f} ELSE FfbDamper(f, spring, force)
  <2>1. f.game \in {"idz", "idac", "swdc"} /\ f.mode \in {"xinput", "dinput"}
    BY <1>4 DEF FfbState, FfbGame
  <2> QED
    BY <2>1 DEF ffb_req_damper, idz_di_ffb_damper, idac_di_ffb_damper, swdc_di_ffb_damper
<1>7. spring \in Int /\ (f.game = "idac" => spring = force)
  BY <1>1
<1> HIDE DEF f, spring
<1>8. /\ FfbHolds(f) /\ FfbOff(f) /\ FfbGot(f) /\ f.param = ffb.param /\ f.motors = ffb.motors
      /\ \A k \in FfbKind \ {"spring", "damper"} : f.param[k] # FfbNone => f.param[k] = f.asked[k]
  <2>1. ASSUME NEW kinds \in SUBSET FfbKind, kinds = {"spring", "damper"}
        PROVE  /\ FfbHolds(f) /\ FfbOff(f) /\ FfbGot(f)
               /\ f.param = ffb.param /\ f.motors = ffb.motors
               /\ \A k \in FfbKind \ ({"spring"} \cup kinds) :
                    f.param[k] # FfbNone => f.param[k] = f.asked[k]
    BY <1>2, <1>3, <1>4, <2>1, AskingKeeps
  <2> QED
    BY <1>5, <2>1
<1>9. CASE f.mode = "xinput"
  <2>1. ffb' = f
    BY <1>6, <1>9
  <2>2. \A k \in FfbKind : f.param[k] = FfbNone
    BY <1>8, <1>9 DEF FfbOff
  <2>3. f.motors # 0 => {f.motors} = f.asked["rumble"]
    BY <1>3, <1>8 DEF FfbInv, FfbDoes, FfbKind
  <2>4. FfbDoes(f)
    BY <2>2, <2>3 DEF FfbDoes, FfbKind
  <2> QED
    BY <1>4, <1>8, <2>1, <2>4 DEF FfbInv
<1>10. CASE f.mode = "dinput"
  <2>1. ffb' \in FfbDamper(f, spring, force)
    BY <1>6, <1>10
  <2>2. ffb' \in FfbState /\ FfbHolds(ffb') /\ FfbOff(ffb') /\ FfbDoes(ffb') /\ FfbGot(ffb')
    BY <1>1, <1>3, <1>4, <1>7, <1>8, <1>10, <2>1, DamperIsObeyed
  <2> QED
    BY <2>2 DEF FfbInv
<1> QED
  BY <1>4, <1>9, <1>10 DEF FfbState

-----------------------------------------------------------------------------

(* Every step of the board keeps the invariant.                            *)
LEMMA FfbKeepsInv == FfbInv /\ [FfbNext]_ffb => FfbInv'
<1> SUFFICES ASSUME FfbInv, [FfbNext]_ffb PROVE FfbInv'
  OBVIOUS
<1>1. CASE idz_ffb_hook_init \/ idac_ffb_hook_init \/ swdc_ffb_hook_init
  BY <1>1, StartKeeps DEF idz_ffb_hook_init, idac_ffb_hook_init, swdc_ffb_hook_init
<1>2. ASSUME NEW active \in BOOLEAN, ffb_req_toggle(active) PROVE FfbInv'
  BY <1>2, ToggleKeeps
<1>3. ASSUME NEW direction \in {0, 1}, NEW force \in FfbForces,
             ffb_req_constant_force(direction, force)
      PROVE  FfbInv'
  BY <1>3, ConstantKeeps
<1>4. ASSUME NEW force \in FfbForces, ffb_req_rumble(force) PROVE FfbInv'
  BY <1>4, RumbleKeeps
<1>5. ASSUME NEW force \in FfbForces, ffb_req_damper(force) PROVE FfbInv'
  BY <1>5, DamperKeeps
<1>6. CASE UNCHANGED ffb
  BY <1>6 DEF FfbInv
<1> QED
  BY <1>1, <1>2, <1>3, <1>4, <1>5, <1>6 DEF FfbNext

LEMMA FfbInitInv == FfbInit => FfbInv
<1> SUFFICES ASSUME FfbInit PROVE FfbInv
  OBVIOUS
<1>1. FfbAll \in [FfbKind -> SUBSET Int] /\ \A k \in FfbKind : FfbAll[k] = FfbNone
  BY DEF FfbAll, FfbNone
<1>2. ffb \in FfbState
  BY <1>1 DEF FfbInit, FfbState, FfbKind
<1>3. /\ ffb.param = FfbAll /\ ffb.objects = [k \in FfbKind |-> 0] /\ ffb.motors = 0
      /\ ffb.pc = "init"
  BY DEF FfbInit
<1> QED
  BY <1>1, <1>2, <1>3 DEF FfbInv, FfbHolds, FfbOff, FfbDoes, FfbGot, FfbKind

(* Whatever the game asks for, however the calls of DirectInput fail, and  *)
(* for any forces: each effect of the wheel is one the DLL holds, it does  *)
(* what was asked for last and nothing once the board is deactivated, and  *)
(* no game runs with a wheel that was not acquired.                        *)
THEOREM WheelsObey == FfbSpec => []FfbIsRight
<1>1. FfbInv => FfbIsRight
  <2> SUFFICES ASSUME FfbInv PROVE FfbIsRight
    OBVIOUS
  <2>1. FfbTypeOK
    BY DEF FfbInv, FfbState, FfbTypeOK
  <2> QED
    BY <2>1 DEF FfbInv, FfbIsRight, FfbOwned, FfbHolds, FfbObeys, FfbDoes, FfbAcquires, FfbGot
<1> QED
  BY <1>1, FfbInitInv, FfbKeepsInv, PTL DEF FfbSpec

-----------------------------------------------------------------------------
(* The Elo touch screen.                                                   *)

(* What can be queued for the game.                                        *)
EloQueued == {"ack", "param", "reset", "touch", "touch_error"}

EloShape(e) ==
  /\ e = [open |-> e.open, lock |-> e.lock, game |-> e.game, req |-> e.req,
          written |-> e.written, readable |-> e.readable, last_error |-> e.last_error,
          acknowledge_required |-> e.acknowledge_required,
          error_report_required |-> e.error_report_required,
          touch_started |-> e.touch_started, touch |-> e.touch, stop_flag |-> e.stop_flag,
          flagged |-> e.flagged, owed |-> e.owed, latest |-> e.latest]

(* Where the game and the touch thread are, and who has the lock.          *)
EloPlaces(e) ==
  /\ e.lock \in {"free", "game"} /\ e.touch \in {"none", "run", "send", "sent", "ended"}
  /\ e.game \in {"idle", "loop", "starting", "stopping", "joining", "stopped"}
  /\ e.acknowledge_required \in BOOLEAN /\ e.touch_started \in BOOLEAN
  /\ e.stop_flag \in BOOLEAN

(* An acknowledgement is owed only under the lock, and one at most.        *)
EloOwed(e) ==
  /\ e.lock = "game" <=> e.game \in {"loop", "starting"}
  /\ e.owed = IF e.acknowledge_required THEN 1 ELSE 0
  /\ e.acknowledge_required =>
       e.game \in {"loop", "starting"} /\ ~(e.game = "starting" /\ e.req = "open")

(* What is queued: an answer has its acknowledgement behind it, or it is   *)
(* the last and the acknowledgement is owed.                               *)
EloBuffer(e) ==
  /\ e.readable \in Seq(EloQueued) /\ Len(e.readable) <= EloCapacity
  /\ \A i \in 1..Len(e.readable) :
       e.readable[i] = "param" =>
         \/ i < Len(e.readable) /\ e.readable[i + 1] = "ack"
         \/ i = Len(e.readable) /\ (e.acknowledge_required \/ i = EloCapacity)

(* The touch thread has left only when it was told to and is waited for.   *)
EloWaits(e) ==
  /\ e.stop_flag => e.game = "joining"
  /\ e.touch = "ended" => e.game = "joining"
  /\ e.game = "stopped" => e.touch = "none"

(* The code that was set last is in the list of errors.                    *)
EloListed(e) ==
  /\ DOMAIN e.last_error = 1..EloSlots
  /\ e.last_error = [i \in 1..EloSlots |-> e.last_error[i]]
  /\ e.latest = "NONE" \/ \E i \in 1..EloSlots : e.last_error[i] = e.latest

(* The invariant, of the record that a handler passes on.                  *)
EloGood(e) ==
  EloShape(e) /\ EloPlaces(e) /\ EloOwed(e) /\ EloBuffer(e) /\ EloWaits(e) /\ EloListed(e)

(* A set of natural numbers has a least one.                               *)
LEMMA LeastExists ==
  ASSUME NEW S \in SUBSET Nat, S # {}
  PROVE  \E x \in S : \A y \in S : x <= y
<1> DEFINE R == OpToRel(<, Nat)
<1>1. IsWellFoundedOn(R, Nat)
  BY NatLessThanWellFounded
<1>2. ASSUME NEW x \in Nat, NEW y \in Nat, y < x
      PROVE  <<y, x>> \in R
  <2> DEFINE pair == <<y, x>>
  <2>1. pair \in Nat \X Nat /\ pair[1] < pair[2]
    BY <1>2
  <2> HIDE DEF pair
  <2>2. pair \in R
    BY <2>1 DEF OpToRel
  <2> QED
    BY <2>2 DEF pair
<1> HIDE DEF R
<1>3. \E x \in S : \A y \in S : ~(<<y, x>> \in R)
  BY <1>1, Zenon, WFMin
<1>4. PICK x \in S : \A y \in S : ~(<<y, x>> \in R)
  BY <1>3
<1>5. ASSUME NEW y \in S PROVE ~(y < x)
  BY <1>2, <1>4
<1>6. \A y \in S : x <= y
  BY <1>5
<1> QED
  BY <1>6

(* The first free slot, or the first slot, is one of the slots.            *)
LEMMA EloSlotExists ==
  ASSUME NEW free \in SUBSET (1..EloSlots)
  PROVE  (IF free = {} THEN 1 ELSE CHOOSE i \in free : \A j \in free : i <= j)
           \in 1..EloSlots
<1>1. CASE free = {}
  BY <1>1, EloAssumption DEF EloAssumption
<1>2. CASE free # {}
  <2>1. \E i \in free : \A j \in free : i <= j
    BY <1>2, EloAssumption, LeastExists DEF EloAssumption
  <2> QED
    BY <1>2, <2>1
<1> QED
  BY <1>1, <1>2

(* A code that is set is listed, and nothing else is disturbed.            *)
LEMMA EloSetErrorKeeps ==
  ASSUME NEW e, EloGood(e), NEW code
  PROVE  /\ EloGood(elo_set_error(e, code))
         /\ elo_set_error(e, code).game = e.game
<1>1. PICK slot \in 1..EloSlots :
        elo_set_error(e, code) =
          [e EXCEPT !.last_error[slot] = code, !.error_report_required = TRUE, !.latest = code]
  <2> DEFINE free == {i \in 1..EloSlots : e.last_error[i] = "NONE"}
             slot == IF free = {} THEN 1 ELSE CHOOSE i \in free : \A j \in free : i <= j
  <2>1. slot \in 1..EloSlots
    <3>1. free \in SUBSET (1..EloSlots)
      OBVIOUS
    <3> HIDE DEF free
    <3> QED
      BY <3>1, EloSlotExists
  <2>2. elo_set_error(e, code) =
          [e EXCEPT !.last_error[slot] = code, !.error_report_required = TRUE, !.latest = code]
    BY DEF elo_set_error
  <2> HIDE DEF slot
  <2> QED
    BY <2>1, <2>2
<1> DEFINE new == elo_set_error(e, code)
<1> HIDE DEF new
<1>2. /\ new = [e EXCEPT !.last_error = [e.last_error EXCEPT ![slot] = code],
                         !.error_report_required = TRUE, !.latest = code]
  BY <1>1 DEF new
<1>3. EloShape(new) /\ EloPlaces(new) /\ EloOwed(new) /\ EloWaits(new)
  BY <1>2 DEF EloGood, EloShape, EloPlaces, EloOwed, EloWaits
<1>4. EloBuffer(new)
  BY <1>2 DEF EloGood, EloShape, EloBuffer
<1>5. EloListed(new)
  BY <1>2 DEF EloGood, EloShape, EloListed
<1>6. new.game = e.game
  BY <1>2 DEF EloGood, EloShape
<1> QED
  BY <1>3, <1>4, <1>5, <1>6 DEF EloGood, new

(* A packet other than an answer is queued when no acknowledgement is      *)
(* owed.                                                                   *)
LEMMA EloEncodeKeeps ==
  ASSUME NEW e, EloGood(e), ~e.acknowledge_required, NEW p \in EloQueued \ {"param"}
  PROVE  /\ EloGood(elo_frame_encode(e, p))
         /\ \E q : elo_frame_encode(e, p) = [e EXCEPT !.readable = q]
<1>1. CASE Len(e.readable) < EloCapacity
  <2>1. PICK q : q = Append(e.readable, p)
    OBVIOUS
  <2>2. elo_frame_encode(e, p) = [e EXCEPT !.readable = q]
    BY <1>1, <2>1 DEF elo_frame_encode
  <2> DEFINE new == [e EXCEPT !.readable = q]
  <2>3. /\ q \in Seq(EloQueued) /\ Len(q) <= EloCapacity
        /\ \A i \in 1..Len(q) :
             q[i] = "param" => (i < Len(q) /\ q[i + 1] = "ack") \/ i = EloCapacity
    BY <1>1, <2>1, EloAssumption DEF EloGood, EloBuffer, EloAssumption
  <2>4. EloShape(new) /\ EloPlaces(new) /\ EloOwed(new) /\ EloWaits(new) /\ EloListed(new)
    BY DEF EloGood, EloShape, EloPlaces, EloOwed, EloWaits, EloListed
  <2>5. EloBuffer(new)
    BY <2>3 DEF EloGood, EloShape, EloBuffer
  <2> QED
    BY <2>2, <2>4, <2>5 DEF EloGood
<1>2. CASE ~(Len(e.readable) < EloCapacity)
  <2>1. elo_frame_encode(e, p) = e
    BY <1>2 DEF elo_frame_encode
  <2>2. e = [e EXCEPT !.readable = e.readable]
    BY DEF EloGood, EloShape
  <2> QED
    BY <2>1, <2>2
<1> QED
  BY <1>1, <1>2

(* An acknowledgement becomes owed.                                        *)
LEMMA EloOwesKeeps ==
  ASSUME NEW e, EloGood(e), ~e.acknowledge_required, e.game = "loop"
  PROVE  EloGood(EloOwes(e)) /\ EloOwes(e).game = "loop"
<1> DEFINE new == EloOwes(e)
<1>1. new = [e EXCEPT !.acknowledge_required = TRUE, !.owed = e.owed + 1]
  BY DEF EloOwes
<1> HIDE DEF new
<1>2. EloShape(new) /\ EloPlaces(new) /\ new.game = "loop"
  BY <1>1 DEF EloGood, EloShape, EloPlaces
<1>3. EloOwed(new) /\ EloWaits(new)
  BY <1>1 DEF EloGood, EloShape, EloOwed, EloWaits
<1>4. EloBuffer(new)
  BY <1>1 DEF EloGood, EloShape, EloBuffer
<1>5. EloListed(new)
  BY <1>1 DEF EloGood, EloShape, EloListed
<1> QED
  BY <1>2, <1>3, <1>4, <1>5 DEF EloGood, new

(* What comes after a packet was handled, for the record it has left.      *)
LEMMA EloHandledKeeps ==
  ASSUME NEW e, EloGood(e), e.game = "loop", NEW ok \in BOOLEAN, elo' = EloHandled(e, ok)
  PROVE  EloGood(elo')
<1>1. \/ elo' = [e EXCEPT !.game = "starting", !.req = "none"]
      \/ elo' = [e EXCEPT !.touch = "run", !.game = "starting", !.req = "none"]
      \/ elo' = [e EXCEPT !.req = "none"]
  BY DEF EloHandled, diva_io_touch_start
<1>2. CASE elo' = [e EXCEPT !.game = "starting", !.req = "none"]
  <2>1. EloShape(elo')
    BY <1>2 DEF EloGood, EloShape
  <2>2. EloPlaces(elo')
    BY <1>2 DEF EloGood, EloShape, EloPlaces
  <2>3. EloOwed(elo')
    BY <1>2 DEF EloGood, EloShape, EloPlaces, EloOwed
  <2>4. EloBuffer(elo')
    BY <1>2 DEF EloGood, EloShape, EloPlaces, EloOwed, EloBuffer
  <2>5. EloWaits(elo')
    BY <1>2 DEF EloGood, EloShape, EloPlaces, EloOwed, EloWaits
  <2>6. EloListed(elo')
    BY <1>2 DEF EloGood, EloShape, EloListed
  <2> QED
    BY <2>1, <2>2, <2>3, <2>4, <2>5, <2>6 DEF EloGood
<1>3. CASE elo' = [e EXCEPT !.touch = "run", !.game = "starting", !.req = "none"]
  <2>1. EloShape(elo')
    BY <1>3 DEF EloGood, EloShape
  <2>2. EloPlaces(elo')
    BY <1>3 DEF EloGood, EloShape, EloPlaces
  <2>3. EloOwed(elo')
    BY <1>3 DEF EloGood, EloShape, EloPlaces, EloOwed
  <2>4. EloBuffer(elo')
    BY <1>3 DEF EloGood, EloShape, EloPlaces, EloOwed, EloBuffer
  <2>5. EloWaits(elo')
    BY <1>3 DEF EloGood, EloShape, EloPlaces, EloOwed, EloWaits
  <2>6. EloListed(elo')
    BY <1>3 DEF EloGood, EloShape, EloListed
  <2> QED
    BY <2>1, <2>2, <2>3, <2>4, <2>5, <2>6 DEF EloGood
<1>4. CASE elo' = [e EXCEPT !.req = "none"]
  <2>1. EloShape(elo')
    BY <1>4 DEF EloGood, EloShape
  <2>2. EloPlaces(elo')
    BY <1>4 DEF EloGood, EloShape, EloPlaces
  <2>3. EloOwed(elo')
    BY <1>4 DEF EloGood, EloShape, EloPlaces, EloOwed
  <2>4. EloBuffer(elo')
    BY <1>4 DEF EloGood, EloShape, EloPlaces, EloOwed, EloBuffer
  <2>5. EloWaits(elo')
    BY <1>4 DEF EloGood, EloShape, EloPlaces, EloOwed, EloWaits
  <2>6. EloListed(elo')
    BY <1>4 DEF EloGood, EloShape, EloListed
  <2> QED
    BY <2>1, <2>2, <2>3, <2>4, <2>5, <2>6 DEF EloGood
<1> QED
  BY <1>1, <1>2, <1>3, <1>4

(* The touch thread is started for an open.                                *)
LEMMA EloOpenKeeps ==
  ASSUME EloGood(elo), EloOpen
  PROVE  EloGood(elo')
<1>1. elo.game = "idle"
  BY DEF EloOpen
<1>2. CASE elo' = [elo EXCEPT !.lock = "game", !.game = "starting", !.req = "open"]
  <2>1. EloShape(elo')
    BY <1>1, <1>2 DEF EloGood, EloShape
  <2>2. EloPlaces(elo')
    BY <1>1, <1>2 DEF EloGood, EloShape, EloPlaces
  <2>3. EloOwed(elo')
    BY <1>1, <1>2 DEF EloGood, EloShape, EloPlaces, EloOwed
  <2>4. EloBuffer(elo')
    BY <1>1, <1>2 DEF EloGood, EloShape, EloPlaces, EloOwed, EloBuffer
  <2>5. EloWaits(elo')
    BY <1>1, <1>2 DEF EloGood, EloShape, EloPlaces, EloOwed, EloWaits
  <2>6. EloListed(elo')
    BY <1>1, <1>2 DEF EloGood, EloShape, EloListed
  <2> QED
    BY <2>1, <2>2, <2>3, <2>4, <2>5, <2>6 DEF EloGood
<1>3. CASE elo' = [elo EXCEPT !.touch = "run", !.lock = "game", !.game = "starting",
                              !.req = "open"]
  <2>1. EloShape(elo')
    BY <1>1, <1>3 DEF EloGood, EloShape
  <2>2. EloPlaces(elo')
    BY <1>1, <1>3 DEF EloGood, EloShape, EloPlaces
  <2>3. EloOwed(elo')
    BY <1>1, <1>3 DEF EloGood, EloShape, EloPlaces, EloOwed
  <2>4. EloBuffer(elo')
    BY <1>1, <1>3 DEF EloGood, EloShape, EloPlaces, EloOwed, EloBuffer
  <2>5. EloWaits(elo')
    BY <1>1, <1>3 DEF EloGood, EloShape, EloPlaces, EloOwed, EloWaits
  <2>6. EloListed(elo')
    BY <1>1, <1>3 DEF EloGood, EloShape, EloListed
  <2> QED
    BY <2>1, <2>2, <2>3, <2>4, <2>5, <2>6 DEF EloGood
<1> QED
  BY <1>1, <1>2, <1>3 DEF EloOpen, diva_io_touch_start

(* The game reads what is queued.                                          *)
LEMMA EloReadKeeps ==
  ASSUME EloGood(elo), EloRead
  PROVE  EloGood(elo')
<1>1. elo' = [elo EXCEPT !.readable = <<>>]
  BY DEF EloRead
<1>2. EloShape(elo') /\ EloPlaces(elo') /\ elo'.readable = <<>>
  BY <1>1 DEF EloGood, EloShape, EloPlaces
<1>3. EloOwed(elo') /\ EloWaits(elo')
  BY <1>1 DEF EloGood, EloShape, EloOwed, EloWaits
<1>4. EloBuffer(elo')
  BY <1>2, EloAssumption DEF EloBuffer, EloAssumption
<1>5. EloListed(elo')
  BY <1>1 DEF EloGood, EloShape, EloListed
<1> QED
  BY <1>2, <1>3, <1>4, <1>5 DEF EloGood

(* The port is closed.                                                     *)
LEMMA EloCloseKeeps ==
  ASSUME EloGood(elo), EloClose
  PROVE  EloGood(elo')
<1>1. EloShape(elo')
  BY DEF EloClose, EloGood, EloShape
<1>2. EloPlaces(elo')
  BY DEF EloClose, EloGood, EloShape, EloPlaces
<1>3. EloOwed(elo')
  BY DEF EloClose, EloGood, EloShape, EloPlaces, EloOwed
<1>4. EloBuffer(elo')
  BY DEF EloClose, EloGood, EloShape, EloPlaces, EloOwed, EloBuffer
<1>5. EloWaits(elo')
  BY DEF EloClose, EloGood, EloShape, EloPlaces, EloOwed, EloWaits
<1>6. EloListed(elo')
  BY DEF EloClose, EloGood, EloShape, EloListed
<1> QED
  BY <1>1, <1>2, <1>3, <1>4, <1>5, <1>6 DEF EloGood

(* A packet comes.                                                         *)
LEMMA EloWriteKeeps ==
  ASSUME EloGood(elo), NEW packet \in EloPackets, EloWrite(packet)
  PROVE  EloGood(elo')
<1>1. EloShape(elo')
  BY DEF EloWrite, EloGood, EloShape
<1>2. EloPlaces(elo')
  BY DEF EloWrite, EloGood, EloShape, EloPlaces
<1>3. EloOwed(elo')
  BY DEF EloWrite, EloGood, EloShape, EloPlaces, EloOwed
<1>4. EloBuffer(elo')
  BY DEF EloWrite, EloGood, EloShape, EloPlaces, EloOwed, EloBuffer
<1>5. EloWaits(elo')
  BY DEF EloWrite, EloGood, EloShape, EloPlaces, EloOwed, EloWaits
<1>6. EloListed(elo')
  BY DEF EloWrite, EloGood, EloShape, EloListed
<1> QED
  BY <1>1, <1>2, <1>3, <1>4, <1>5, <1>6 DEF EloGood

(* The reports are on; an open is done.                                    *)
LEMMA EloStartedKeeps ==
  ASSUME EloGood(elo), EloStarted
  PROVE  EloGood(elo')
<1>1. elo.game = "starting"
  BY DEF EloStarted
<1>2. CASE /\ elo.req = "open"
           /\ elo' = [elo EXCEPT !.touch_started = TRUE, !.open = TRUE, !.lock = "free",
                                 !.game = "idle", !.req = "none"]
  <2>1. EloShape(elo')
    BY <1>1, <1>2 DEF EloGood, EloShape
  <2>2. EloPlaces(elo')
    BY <1>1, <1>2 DEF EloGood, EloShape, EloPlaces
  <2>3. EloOwed(elo')
    BY <1>1, <1>2 DEF EloGood, EloShape, EloPlaces, EloOwed
  <2>4. EloBuffer(elo')
    BY <1>1, <1>2 DEF EloGood, EloShape, EloPlaces, EloOwed, EloBuffer
  <2>5. EloWaits(elo')
    BY <1>1, <1>2 DEF EloGood, EloShape, EloPlaces, EloOwed, EloWaits
  <2>6. EloListed(elo')
    BY <1>1, <1>2 DEF EloGood, EloShape, EloListed
  <2> QED
    BY <2>1, <2>2, <2>3, <2>4, <2>5, <2>6 DEF EloGood
<1>3. CASE elo' = [elo EXCEPT !.touch_started = TRUE, !.game = "loop"]
  <2>1. EloShape(elo')
    BY <1>1, <1>3 DEF EloGood, EloShape
  <2>2. EloPlaces(elo')
    BY <1>1, <1>3 DEF EloGood, EloShape, EloPlaces
  <2>3. EloOwed(elo')
    BY <1>1, <1>3 DEF EloGood, EloShape, EloPlaces, EloOwed
  <2>4. EloBuffer(elo')
    BY <1>1, <1>3 DEF EloGood, EloShape, EloPlaces, EloOwed, EloBuffer
  <2>5. EloWaits(elo')
    BY <1>1, <1>3 DEF EloGood, EloShape, EloPlaces, EloOwed, EloWaits
  <2>6. EloListed(elo')
    BY <1>1, <1>3 DEF EloGood, EloShape, EloListed
  <2> QED
    BY <2>1, <2>2, <2>3, <2>4, <2>5, <2>6 DEF EloGood
<1> QED
  BY <1>1, <1>2, <1>3 DEF EloStarted, EloReturn

(* An acknowledgement that is owed is queued, if it fits.                  *)
LEMMA EloAcknowledgesKeeps ==
  ASSUME EloGood(elo), EloAcknowledges
  PROVE  EloGood(elo')
<1>1. elo.game = "loop" /\ elo.acknowledge_required /\ elo.lock = "game"
  BY DEF EloAcknowledges, EloGood, EloOwed
<1>2. PICK q : /\ q = IF Len(elo.readable) < EloCapacity THEN Append(elo.readable, "ack")
                      ELSE elo.readable
               /\ elo' = [elo EXCEPT !.readable = q, !.acknowledge_required = FALSE,
                                     !.owed = @ - 1]
  <2>1. elo.readable = elo.readable /\ elo = [elo EXCEPT !.readable = elo.readable]
    BY DEF EloGood, EloShape
  <2>2. CASE Len(elo.readable) < EloCapacity
    BY <2>2 DEF EloAcknowledges, elo_send_acknowledge, elo_frame_encode
  <2>3. CASE ~(Len(elo.readable) < EloCapacity)
    <3>1. elo' = [elo EXCEPT !.acknowledge_required = FALSE, !.owed = @ - 1]
      BY <2>3 DEF EloAcknowledges, elo_send_acknowledge, elo_frame_encode
    <3>2. elo' = [elo EXCEPT !.readable = elo.readable, !.acknowledge_required = FALSE,
                             !.owed = @ - 1]
      BY <3>1 DEF EloGood, EloShape
    <3> QED
      BY <2>3, <3>2
  <2> QED
    BY <2>2, <2>3
<1>3. /\ q \in Seq(EloQueued) /\ Len(q) <= EloCapacity
      /\ \A i \in 1..Len(q) :
             q[i] = "param" => (i < Len(q) /\ q[i + 1] = "ack") \/ i = EloCapacity
  <2>1. CASE Len(elo.readable) < EloCapacity
    <3>1. q = Append(elo.readable, "ack")
      BY <1>2, <2>1
    <3> QED
      BY <2>1, <3>1, EloAssumption DEF EloGood, EloBuffer, EloQueued, EloAssumption
  <2>2. CASE ~(Len(elo.readable) < EloCapacity)
    BY <1>2, <2>2, EloAssumption DEF EloGood, EloBuffer, EloAssumption
  <2> QED
    BY <2>1, <2>2
<1>4. elo' = [elo EXCEPT !.readable = q, !.acknowledge_required = FALSE, !.owed = @ - 1]
  BY <1>2
<1>5. EloShape(elo') /\ EloPlaces(elo')
  BY <1>1, <1>4 DEF EloGood, EloShape, EloPlaces
<1>6. EloOwed(elo') /\ EloWaits(elo')
  BY <1>1, <1>4 DEF EloGood, EloShape, EloOwed, EloWaits
<1>7. EloBuffer(elo')
  BY <1>3, <1>4 DEF EloGood, EloShape, EloBuffer
<1>8. EloListed(elo')
  BY <1>4 DEF EloGood, EloShape, EloListed
<1> QED
  BY <1>5, <1>6, <1>7, <1>8 DEF EloGood

(* The write returns.                                                      *)
LEMMA EloNothingLeftKeeps ==
  ASSUME EloGood(elo), EloNothingLeft
  PROVE  EloGood(elo')
<1>1. elo.game = "loop" /\ ~elo.acknowledge_required
  BY DEF EloNothingLeft
<1>2. CASE elo' = [elo EXCEPT !.lock = "free", !.game = "idle", !.req = "none"]
  <2>1. EloShape(elo')
    BY <1>1, <1>2 DEF EloGood, EloShape
  <2>2. EloPlaces(elo')
    BY <1>1, <1>2 DEF EloGood, EloShape, EloPlaces
  <2>3. EloOwed(elo')
    BY <1>1, <1>2 DEF EloGood, EloShape, EloPlaces, EloOwed
  <2>4. EloBuffer(elo')
    BY <1>1, <1>2 DEF EloGood, EloShape, EloPlaces, EloOwed, EloBuffer
  <2>5. EloWaits(elo')
    BY <1>1, <1>2 DEF EloGood, EloShape, EloPlaces, EloOwed, EloWaits
  <2>6. EloListed(elo')
    BY <1>1, <1>2 DEF EloGood, EloShape, EloListed
  <2> QED
    BY <2>1, <2>2, <2>3, <2>4, <2>5, <2>6 DEF EloGood
<1>3. CASE elo' = [elo EXCEPT !.written = "damaged", !.lock = "free", !.game = "idle",
                              !.req = "none"]
  <2>1. EloShape(elo')
    BY <1>1, <1>3 DEF EloGood, EloShape
  <2>2. EloPlaces(elo')
    BY <1>1, <1>3 DEF EloGood, EloShape, EloPlaces
  <2>3. EloOwed(elo')
    BY <1>1, <1>3 DEF EloGood, EloShape, EloPlaces, EloOwed
  <2>4. EloBuffer(elo')
    BY <1>1, <1>3 DEF EloGood, EloShape, EloPlaces, EloOwed, EloBuffer
  <2>5. EloWaits(elo')
    BY <1>1, <1>3 DEF EloGood, EloShape, EloPlaces, EloOwed, EloWaits
  <2>6. EloListed(elo')
    BY <1>1, <1>3 DEF EloGood, EloShape, EloListed
  <2> QED
    BY <2>1, <2>2, <2>3, <2>4, <2>5, <2>6 DEF EloGood
<1> QED
  BY <1>1, <1>2, <1>3 DEF EloNothingLeft, EloReturn, elo_frame_decode

(* The commands that owe no more than an acknowledgement.                  *)
LEMMA EloAckKeeps ==
  ASSUME EloGood(elo), elo_req_acknowledge
  PROVE  EloGood(elo')
<1>1. elo.game = "loop" /\ ~elo.acknowledge_required /\ elo' = EloHandled(EloOwes(elo), TRUE)
  BY DEF elo_req_acknowledge, EloDispatch
<1> QED
  BY <1>1, EloOwesKeeps, EloHandledKeeps

(* An answer is queued, if it fits, and its acknowledgement becomes owed.  *)
LEMMA EloQueryKeeps ==
  ASSUME EloGood(elo), elo_query_parameter
  PROVE  EloGood(elo')
<1> DEFINE fits == Len(elo.readable) < EloCapacity
           new == EloOwes(elo_frame_encode(elo, "param"))
<1>1. elo.game = "loop" /\ ~elo.acknowledge_required /\ elo' = EloHandled(new, fits)
  BY DEF elo_query_parameter, EloDispatch
<1>2. EloGood(new) /\ new.game = "loop"
  <2>1. CASE fits
    <3>1. PICK q : q = Append(elo.readable, "param")
      OBVIOUS
    <3>2. new = [elo EXCEPT !.readable = q, !.acknowledge_required = TRUE, !.owed = elo.owed + 1]
      BY <2>1, <3>1 DEF EloOwes, elo_frame_encode, EloGood, EloShape
    <3>3. /\ q \in Seq(EloQueued) /\ Len(q) <= EloCapacity
          /\ \A i \in 1..Len(q) :
               q[i] = "param" => (i < Len(q) /\ q[i + 1] = "ack") \/ i = Len(q)
      BY <1>1, <2>1, <3>1, EloAssumption
        DEF EloGood, EloBuffer, EloQueued, EloAssumption
    <3> HIDE DEF new
    <3>4. EloShape(new) /\ EloPlaces(new) /\ new.game = "loop"
      BY <1>1, <3>2 DEF EloGood, EloShape, EloPlaces
    <3>5. EloOwed(new) /\ EloWaits(new)
      BY <1>1, <3>2 DEF EloGood, EloShape, EloOwed, EloWaits
    <3>6. EloBuffer(new)
      BY <3>2, <3>3 DEF EloGood, EloShape, EloBuffer
    <3>7. EloListed(new)
      BY <3>2 DEF EloGood, EloShape, EloListed
    <3> QED
      BY <3>4, <3>5, <3>6, <3>7 DEF EloGood
  <2>2. CASE ~fits
    <3>1. new = EloOwes(elo)
      BY <2>2 DEF elo_frame_encode
    <3> QED
      BY <1>1, <3>1, EloOwesKeeps
  <2> QED
    BY <2>1, <2>2
<1>3. fits \in BOOLEAN
  OBVIOUS
<1> HIDE DEF new, fits
<1> QED
  BY <1>1, <1>2, <1>3, EloHandledKeeps

(* A parameter is set, or is refused with an error that is listed.         *)
LEMMA EloSetKeeps ==
  ASSUME EloGood(elo), elo_set_parameter
  PROVE  EloGood(elo')
<1>1. elo.game = "loop" /\ ~elo.acknowledge_required
  BY DEF elo_set_parameter, EloDispatch
<1>2. PICK e : e = EloOwes(elo)
  OBVIOUS
<1>3. EloGood(e) /\ e.game = "loop"
  BY <1>1, <1>2, EloOwesKeeps
<1>4. PICK code, bad : /\ bad = elo_set_error(e, code)
                       /\ elo' = EloHandled(e, TRUE) \/ elo' = EloHandled(bad, FALSE)
  BY <1>2 DEF elo_set_parameter, EloDispatch
<1>5. EloGood(bad) /\ bad.game = "loop"
  BY <1>3, <1>4, EloSetErrorKeeps
<1> QED
  BY <1>3, <1>4, <1>5, EloHandledKeeps

(* A command that is not there is refused with an error that is listed.    *)
LEMMA EloRefusedKeeps ==
  ASSUME EloGood(elo), elo_req_dispatch
  PROVE  EloGood(elo')
<1>1. elo.game = "loop"
  BY DEF elo_req_dispatch, EloDispatch
<1>2. PICK code, bad : /\ bad = elo_set_error(elo, code)
                       /\ elo' = EloHandled(bad, FALSE) \/ elo' = EloHandled(bad, TRUE)
  BY DEF elo_req_dispatch, EloDispatch
<1>3. EloGood(bad) /\ bad.game = "loop"
  BY <1>1, <1>2, EloSetErrorKeeps
<1> QED
  BY <1>2, <1>3, EloHandledKeeps

(* A soft reset is answered.                                               *)
LEMMA EloSoftKeeps ==
  ASSUME EloGood(elo), EloSoftReset
  PROVE  EloGood(elo')
<1> DEFINE fits == Len(elo.readable) < EloCapacity
<1>1. elo.game = "loop" /\ ~elo.acknowledge_required
  BY DEF EloSoftReset, EloDispatch
<1>2. PICK e : e = elo_frame_encode(elo, "reset")
  OBVIOUS
<1>3. elo' = EloHandled(e, fits)
  BY <1>2 DEF EloSoftReset, EloDispatch
<1>4. EloGood(e) /\ \E q : e = [elo EXCEPT !.readable = q]
  BY <1>1, <1>2, EloEncodeKeeps DEF EloQueued
<1>5. e.game = "loop"
  BY <1>1, <1>4 DEF EloGood, EloShape
<1>6. fits \in BOOLEAN
  OBVIOUS
<1> HIDE DEF fits
<1> QED
  BY <1>3, <1>4, <1>5, <1>6, EloHandledKeeps

(* A hard reset clears the errors and leaves the lock.                     *)
LEMMA EloResetKeeps ==
  ASSUME EloGood(elo), elo_req_reset
  PROVE  EloGood(elo')
<1>1. elo.game = "loop" /\ ~elo.acknowledge_required
  BY DEF elo_req_reset, EloDispatch
<1>2. elo' = [elo EXCEPT !.last_error = [i \in 1..EloSlots |-> "NONE"], !.latest = "NONE",
                         !.lock = "free", !.game = "stopping"]
  BY DEF elo_req_reset, EloDispatch, elo_clear_error
<1>3. EloShape(elo')
  BY <1>1, <1>2 DEF EloGood, EloShape
<1>4. EloPlaces(elo')
  BY <1>1, <1>2 DEF EloGood, EloShape, EloPlaces
<1>5. EloOwed(elo')
  BY <1>1, <1>2 DEF EloGood, EloShape, EloPlaces, EloOwed
<1>6. EloBuffer(elo')
  BY <1>1, <1>2 DEF EloGood, EloShape, EloPlaces, EloOwed, EloBuffer
<1>7. EloWaits(elo')
  BY <1>1, <1>2 DEF EloGood, EloShape, EloPlaces, EloOwed, EloWaits
<1>8. EloListed(elo')
  BY <1>1, <1>2 DEF EloGood, EloShape, EloListed
<1> QED
  BY <1>3, <1>4, <1>5, <1>6, <1>7, <1>8 DEF EloGood

(* The touch thread is told to leave and waited for.                       *)
LEMMA EloStopKeeps ==
  ASSUME EloGood(elo), diva_io_touch_stop
  PROVE  EloGood(elo')
<1>1. CASE elo.game = "stopping" /\ elo' = [elo EXCEPT !.stop_flag = TRUE, !.game = "joining"]
  <2>1. EloShape(elo')
    BY <1>1 DEF diva_io_touch_stop, EloGood, EloShape
  <2>2. EloPlaces(elo')
    BY <1>1 DEF diva_io_touch_stop, EloGood, EloShape, EloPlaces
  <2>3. EloOwed(elo')
    BY <1>1 DEF diva_io_touch_stop, EloGood, EloShape, EloPlaces, EloOwed
  <2>4. EloBuffer(elo')
    BY <1>1 DEF diva_io_touch_stop, EloGood, EloShape, EloPlaces, EloOwed, EloBuffer
  <2>5. EloWaits(elo')
    BY <1>1 DEF diva_io_touch_stop, EloGood, EloShape, EloPlaces, EloOwed, EloWaits
  <2>6. EloListed(elo')
    BY <1>1 DEF diva_io_touch_stop, EloGood, EloShape, EloListed
  <2> QED
    BY <2>1, <2>2, <2>3, <2>4, <2>5, <2>6 DEF EloGood
<1>2. CASE /\ elo.game = "joining" /\ elo.touch \in {"none", "ended"}
          /\ elo' = [elo EXCEPT !.stop_flag = FALSE, !.touch = "none", !.game = "stopped"]
  <2>1. EloShape(elo')
    BY <1>2 DEF diva_io_touch_stop, EloGood, EloShape
  <2>2. EloPlaces(elo')
    BY <1>2 DEF diva_io_touch_stop, EloGood, EloShape, EloPlaces
  <2>3. EloOwed(elo')
    BY <1>2 DEF diva_io_touch_stop, EloGood, EloShape, EloPlaces, EloOwed
  <2>4. EloBuffer(elo')
    BY <1>2 DEF diva_io_touch_stop, EloGood, EloShape, EloPlaces, EloOwed, EloBuffer
  <2>5. EloWaits(elo')
    BY <1>2 DEF diva_io_touch_stop, EloGood, EloShape, EloPlaces, EloOwed, EloWaits
  <2>6. EloListed(elo')
    BY <1>2 DEF diva_io_touch_stop, EloGood, EloShape, EloListed
  <2> QED
    BY <2>1, <2>2, <2>3, <2>4, <2>5, <2>6 DEF EloGood
<1> QED
  BY <1>1, <1>2 DEF diva_io_touch_stop

(* After a hard reset the reports are started again.                       *)
LEMMA EloStoppedKeeps ==
  ASSUME EloGood(elo), EloStopped
  PROVE  EloGood(elo')
<1>1. PICK e : e = [elo EXCEPT !.lock = "game", !.touch_started = FALSE, !.game = "loop"]
  OBVIOUS
<1>2. elo.game = "stopped" /\ elo' = EloHandled(e, TRUE)
  BY <1>1 DEF EloStopped
<1>3. EloShape(e) /\ EloPlaces(e) /\ EloOwed(e) /\ EloWaits(e) /\ EloListed(e)
  BY <1>1, <1>2 DEF EloGood, EloShape, EloPlaces, EloOwed, EloWaits, EloListed
<1>4. EloBuffer(e) /\ e.game = "loop"
  BY <1>1 DEF EloGood, EloShape, EloBuffer
<1> QED
  BY <1>2, <1>3, <1>4, EloHandledKeeps DEF EloGood

(* The touch thread leaves, or has something to report.                    *)
LEMMA EloThreadKeeps ==
  ASSUME EloGood(elo), diva_io_touch_thread_proc
  PROVE  EloGood(elo')
<1>1. elo.touch = "run"
  BY DEF diva_io_touch_thread_proc
<1>2. CASE elo.stop_flag /\ elo' = [elo EXCEPT !.touch = "ended"]
  <2>1. EloShape(elo')
    BY <1>1, <1>2 DEF EloGood, EloShape
  <2>2. EloPlaces(elo')
    BY <1>1, <1>2 DEF EloGood, EloShape, EloPlaces
  <2>3. EloOwed(elo')
    BY <1>1, <1>2 DEF EloGood, EloShape, EloPlaces, EloOwed
  <2>4. EloBuffer(elo')
    BY <1>1, <1>2 DEF EloGood, EloShape, EloPlaces, EloOwed, EloBuffer
  <2>5. EloWaits(elo')
    BY <1>1, <1>2 DEF EloGood, EloShape, EloPlaces, EloOwed, EloWaits
  <2>6. EloListed(elo')
    BY <1>1, <1>2 DEF EloGood, EloShape, EloListed
  <2> QED
    BY <2>1, <2>2, <2>3, <2>4, <2>5, <2>6 DEF EloGood
<1>3. CASE elo' = [elo EXCEPT !.touch = "send", !.flagged = elo.error_report_required]
  <2>1. EloShape(elo')
    BY <1>1, <1>3 DEF EloGood, EloShape
  <2>2. EloPlaces(elo')
    BY <1>1, <1>3 DEF EloGood, EloShape, EloPlaces
  <2>3. EloOwed(elo')
    BY <1>1, <1>3 DEF EloGood, EloShape, EloPlaces, EloOwed
  <2>4. EloBuffer(elo')
    BY <1>1, <1>3 DEF EloGood, EloShape, EloPlaces, EloOwed, EloBuffer
  <2>5. EloWaits(elo')
    BY <1>1, <1>3 DEF EloGood, EloShape, EloPlaces, EloOwed, EloWaits
  <2>6. EloListed(elo')
    BY <1>1, <1>3 DEF EloGood, EloShape, EloListed
  <2> QED
    BY <2>1, <2>2, <2>3, <2>4, <2>5, <2>6 DEF EloGood
<1> QED
  BY <1>1, <1>2, <1>3 DEF diva_io_touch_thread_proc

(* A touch is reported under the lock.                                     *)
LEMMA EloSendKeeps ==
  ASSUME EloGood(elo), elo_send_touch
  PROVE  EloGood(elo')
<1>1. ASSUME NEW p \in {"touch", "touch_error"}, elo.touch = "send", elo.lock = "free",
             elo' = [elo_frame_encode(elo, p) EXCEPT !.touch = "sent"]
      PROVE  EloGood(elo')
  <2>1. PICK e : e = elo_frame_encode(elo, p)
    OBVIOUS
  <2>2. ~elo.acknowledge_required
    BY <1>1 DEF EloGood, EloOwed
  <2>3. EloGood(e) /\ \E q : e = [elo EXCEPT !.readable = q]
    BY <2>1, <2>2, EloEncodeKeeps DEF EloQueued
  <2>4. e.touch = "send"
    BY <1>1, <2>3 DEF EloGood, EloShape
  <2>5. elo' = [e EXCEPT !.touch = "sent"]
    BY <1>1, <2>1
  <2>6. EloShape(elo')
    BY <2>3, <2>4, <2>5 DEF EloGood, EloShape
  <2>7. EloPlaces(elo')
    BY <2>3, <2>4, <2>5 DEF EloGood, EloShape, EloPlaces
  <2>8. EloOwed(elo')
    BY <2>3, <2>4, <2>5 DEF EloGood, EloShape, EloPlaces, EloOwed
  <2>9. EloBuffer(elo')
    BY <2>3, <2>4, <2>5 DEF EloGood, EloShape, EloPlaces, EloOwed, EloBuffer
  <2>10. EloWaits(elo')
    BY <2>3, <2>4, <2>5 DEF EloGood, EloShape, EloPlaces, EloOwed, EloWaits
  <2>11. EloListed(elo')
    BY <2>3, <2>4, <2>5 DEF EloGood, EloShape, EloListed
  <2> QED
    BY <2>6, <2>7, <2>8, <2>9, <2>10, <2>11 DEF EloGood
<1>2. CASE /\ elo.touch = "sent"
           /\ elo' = [elo EXCEPT !.touch = "run", !.error_report_required = FALSE,
                                 !.flagged = FALSE]
  <2>1. EloShape(elo')
    BY <1>2 DEF EloGood, EloShape
  <2>2. EloPlaces(elo')
    BY <1>2 DEF EloGood, EloShape, EloPlaces
  <2>3. EloOwed(elo')
    BY <1>2 DEF EloGood, EloShape, EloPlaces, EloOwed
  <2>4. EloBuffer(elo')
    BY <1>2 DEF EloGood, EloShape, EloPlaces, EloOwed, EloBuffer
  <2>5. EloWaits(elo')
    BY <1>2 DEF EloGood, EloShape, EloPlaces, EloOwed, EloWaits
  <2>6. EloListed(elo')
    BY <1>2 DEF EloGood, EloShape, EloListed
  <2> QED
    BY <2>1, <2>2, <2>3, <2>4, <2>5, <2>6 DEF EloGood
<1> QED
  BY <1>1, <1>2 DEF elo_send_touch

EloInv == EloGood(elo)

(* The port is closed and no thread runs.                                  *)
LEMMA EloInitInv == EloInit => EloInv
<1> SUFFICES ASSUME EloInit PROVE EloGood(elo)
  BY DEF EloInv
<1>1. EloShape(elo) /\ EloPlaces(elo) /\ EloOwed(elo) /\ EloWaits(elo)
  BY DEF EloInit, EloShape, EloPlaces, EloOwed, EloWaits
<1>2. EloBuffer(elo) /\ EloListed(elo)
  BY EloAssumption DEF EloInit, EloBuffer, EloListed, EloAssumption
<1> QED
  BY <1>1, <1>2 DEF EloGood

(* Every call of the game and every step of the touch thread keeps it.     *)
LEMMA EloKeepsInv == EloInv /\ [EloNext]_elo => EloInv'
<1> SUFFICES ASSUME EloGood(elo), [EloNext]_elo PROVE EloGood(elo')
  BY DEF EloInv
<1>1. CASE UNCHANGED elo
  BY <1>1
<1>2. CASE EloOpen \/ EloClose \/ EloRead \/ EloStarted \/ EloAcknowledges \/ EloNothingLeft
  BY <1>2, EloOpenKeeps, EloCloseKeeps, EloReadKeeps, EloStartedKeeps,
       EloAcknowledgesKeeps,
     EloNothingLeftKeeps
<1>3. ASSUME NEW packet \in EloPackets, EloWrite(packet) PROVE EloGood(elo')
  BY <1>3, EloWriteKeeps
<1>4. CASE elo_req_acknowledge \/ elo_query_parameter \/ elo_set_parameter \/ elo_req_dispatch
           \/ EloSoftReset \/ elo_req_reset
  BY <1>4, EloAckKeeps, EloQueryKeeps, EloSetKeeps, EloRefusedKeeps, EloSoftKeeps,
     EloResetKeeps
<1>5. CASE diva_io_touch_stop \/ EloStopped \/ diva_io_touch_thread_proc \/ elo_send_touch
  BY <1>5, EloStopKeeps, EloStoppedKeeps, EloThreadKeeps, EloSendKeeps
<1> QED
  BY <1>1, <1>2, <1>3, <1>4, <1>5 DEF EloNext

(* For any packets and sizes: the buffer is not overrun, every command is  *)
(* acknowledged once and its answer stands unbroken, the latest error is   *)
(* listed, and a hard reset is not kept waiting by the lock it has left.   *)
THEOREM TouchScreenIsRight == EloSpec => []EloIsRight
<1>1. EloInv => EloIsRight
  <2> SUFFICES ASSUME EloInv PROVE EloIsRight
    OBVIOUS
  <2>1. EloTypeOK
    BY DEF EloInv, EloGood, EloPlaces, EloOwed, EloBuffer, EloWaits, EloTypeOK
  <2>2. EloAcknowledgedOnce
    BY DEF EloInv, EloGood, EloPlaces, EloOwed, EloAcknowledgedOnce
  <2>3. EloAnswerIsWhole
    BY EloAssumption DEF EloInv, EloGood, EloPlaces, EloOwed, EloBuffer,
       EloAnswerIsWhole, EloAssumption
  <2>4. EloErrorIsListed
    BY DEF EloInv, EloGood, EloListed, EloErrorIsListed
  <2>5. EloResetReturns
    BY DEF EloInv, EloGood, EloPlaces, EloOwed, EloWaits, EloResetReturns
  <2> QED
    BY <2>1, <2>2, <2>3, <2>4, <2>5 DEF EloIsRight
<1> QED
  BY <1>1, EloInitInv, EloKeepsInv, PTL DEF EloSpec

-----------------------------------------------------------------------------
(* The touch ring of WACCA.                                                *)

MercuryCommands == MercuryQueries \cup {"BEGIN_WRITE", "START_AUTO_SCAN", "none"}
MercuryFrames == MercuryQueries \cup {"start", "input"}
MercuryByte == 0..MercuryWidth - 1

(* The fields of the state.                                                *)
MercuryState ==
  [auto : [MercuryPort -> BOOLEAN], count : [MercuryPort -> MercuryByte],
   readable : [MercuryPort -> Seq(MercuryFrames)],
   game : [at : {"idle", "dispatch", "count", "auto", "thread"}, port : MercuryPort,
           cmd : MercuryCommands, count : MercuryByte],
   thread : [at : {"none", "load", "store", "poll", "send", "lock"}, port : MercuryPort,
             count : [MercuryPort -> MercuryByte], data : MercuryCells],
   prev_data : MercuryCells, number : [MercuryPort -> MercuryByte \cup {-1}],
   raced : [MercuryPort -> BOOLEAN], started : [MercuryPort -> BOOLEAN],
   shown : MercuryCells]

(* What is kept of the cells is what they showed last.                     *)
MercuryShows(m) ==
  /\ m.prev_data = m.shown
  /\ m.thread.at \in {"send", "lock"} => m.thread.data = m.shown

(* No buffer is overrun, and input comes after the start.                  *)
MercuryQueued(m) ==
  \A p \in MercuryPort :
    /\ Len(m.readable[p]) <= MercuryCapacity
    /\ ~m.started[p] => \A i \in 1..Len(m.readable[p]) : m.readable[p][i] # "input"

(* How far a start of a port is, and that it races the thread if the       *)
(* thread runs before it has ended.                                        *)
MercuryStarts(m) ==
  /\ \A p \in MercuryPort : m.auto[p] => m.started[p]
  /\ m.game.at \in {"auto", "thread"} => m.started[m.game.port]
  /\ m.game.at = "thread" => m.auto[m.game.port]
  /\ m.game.at \in {"count", "auto", "thread"} /\ m.thread.at # "none" => m.raced[m.game.port]
  /\ m.thread.at = "lock" => m.auto[m.thread.port]
  /\ m.thread.at \in {"none", "poll"} => m.thread.port = 0

(* The number after n.                                                     *)
MercuryAfter(n) == IF n = MercuryLimit THEN 0 ELSE n + 1

(* Where the thread is in its round of the ports: before it reads the      *)
(* number of p, before it stores the next, before it sends, or past that.  *)
MercuryBefore(m, p) ==
  \/ m.thread.at = "load" /\ m.thread.port <= p
  \/ m.thread.at = "store" /\ m.thread.port < p
MercuryLoaded(m, p) == m.thread.at = "store" /\ m.thread.port = p
MercuryStored(m, p) ==
  \/ m.thread.at \in {"load", "store"} /\ m.thread.port > p
  \/ m.thread.at = "poll"
  \/ m.thread.at \in {"send", "lock"} /\ m.thread.port <= p
MercuryPast(m, p) == m.thread.at \in {"send", "lock"} /\ m.thread.port > p

(* The count of a port that was started before the thread goes on from the *)
(* number of its last frame.                                               *)
MercuryGoesOn(m, p) ==
  /\ m.auto[p] /\ m.number[p] \in 0..MercuryLimit
  /\ MercuryBefore(m, p) \/ MercuryPast(m, p) => m.count[p] = MercuryAfter(m.number[p])
  /\ MercuryLoaded(m, p) \/ MercuryStored(m, p) =>
       m.thread.count[p] = MercuryAfter(m.number[p])
  /\ MercuryStored(m, p) => m.count[p] = MercuryAfter(m.thread.count[p])

(* A port whose answer to the start is not queued has no number; one that  *)
(* was started alone has the first, and goes on from there once the thread *)
(* runs.                                                                   *)
MercuryNumbering(m, p) ==
  /\ ~m.started[p] => m.number[p] = -1
  /\ ~m.started[p] /\ m.thread.at = "none" =>
       m.count[p] = 0 /\ (m.game.at = "count" /\ m.game.port = p => m.game.count = 0)
  /\ m.started[p] /\ m.thread.at = "none" =>
       m.game.at \in {"auto", "thread"} /\ m.game.port = p /\ m.number[p] = 0 /\ m.count[p] = 1
  /\ m.started[p] /\ m.thread.at # "none" => MercuryGoesOn(m, p)

(* So it is for the ports that were not started while the thread ran.      *)
MercuryOrder(m) == \A p \in MercuryPort : ~m.raced[p] => MercuryNumbering(m, p)

(* The invariant, of the state a step leaves.                              *)
MercuryGood(m) ==
  m \in MercuryState /\ MercuryShows(m) /\ MercuryQueued(m) /\ MercuryStarts(m) /\ MercuryOrder(m)

MercuryInv == MercuryGood(mercury)

(* What the property says of one step.                                     *)
MercuryTurn(m, n) ==
  \A p \in MercuryPort :
    n.number[p] # m.number[p] /\ m.number[p] >= 0 /\ ~n.raced[p] =>
      n.number[p] = MercuryAfter(m.number[p])

(* What is assumed of the constants, and the first values of a counter.    *)
LEMMA MercuryConstants ==
  /\ MercuryLimit \in Nat \ {0} /\ MercuryWidth \in Nat \ {0} /\ MercuryLimit < MercuryWidth
  /\ MercuryCapacity \in Nat \ {0} /\ 0 \in MercuryCells /\ "input" \notin MercuryQueries
  /\ 0 \in MercuryByte /\ 1 \in MercuryByte /\ 0..MercuryLimit \subseteq MercuryByte
  /\ \A b \in Int : b % MercuryWidth \in MercuryByte
BY MercuryAssumption DEF MercuryAssumption, MercuryByte

(* Counting on in a byte is counting on up to the limit.                   *)
LEMMA MercuryCounts ==
  /\ \A n \in MercuryByte : MercuryCount(n) \in MercuryByte
  /\ \A n \in 0..MercuryLimit : MercuryCount(n) = MercuryAfter(n) /\ MercuryAfter(n) \in 0..MercuryLimit
  /\ 1 % MercuryWidth = 1
<1>1. ASSUME NEW n \in MercuryByte PROVE MercuryCount(n) \in MercuryByte
  <2>1. n + 1 \in Int
    BY MercuryConstants DEF MercuryByte
  <2> QED
    BY <2>1, MercuryConstants DEF MercuryCount
<1>2. ASSUME NEW n \in Nat, n < MercuryWidth PROVE n % MercuryWidth = n
  BY <1>2, MercuryConstants
<1>3. MercuryWidth % MercuryWidth = 0
  BY MercuryConstants
<1>4. ASSUME NEW n \in 0..MercuryLimit
      PROVE  MercuryCount(n) = MercuryAfter(n) /\ MercuryAfter(n) \in 0..MercuryLimit
  <2>1. n \in Nat /\ n <= MercuryLimit /\ n + 1 <= MercuryWidth
    BY MercuryConstants
  <2>2. n + 1 = MercuryWidth \/ (n + 1) % MercuryWidth = n + 1
    BY <1>2, <2>1, MercuryConstants
  <2>3. CASE n + 1 = MercuryWidth
    BY <1>3, <2>1, <2>3, MercuryConstants DEF MercuryCount, MercuryAfter
  <2>4. CASE (n + 1) % MercuryWidth = n + 1
    BY <2>1, <2>4, MercuryConstants DEF MercuryCount, MercuryAfter
  <2> QED
    BY <2>2, <2>3, <2>4
<1>5. 1 % MercuryWidth = 1
  BY <1>2, MercuryConstants
<1> QED
  BY <1>1, <1>4, <1>5

(* What the buffers of both ports may hold.                                *)
MercuryBuffers(m, r) ==
  /\ r \in [MercuryPort -> Seq(MercuryFrames)]
  /\ \A q \in MercuryPort :
       /\ Len(r[q]) <= MercuryCapacity
       /\ ~m.started[q] => \A i \in 1..Len(r[q]) : r[q][i] # "input"

(* A frame is queued or refused, and nothing else changes.                 *)
LEMMA MercuryQueues ==
  ASSUME NEW m \in MercuryState, MercuryQueued(m), NEW p \in MercuryPort,
         NEW frame \in MercuryFrames, frame = "input" => m.started[p]
  PROVE  \E r : iobuf_write(m, p, frame) = [m EXCEPT !.readable = r] /\ MercuryBuffers(m, r)
<1>1. CASE Len(m.readable[p]) < MercuryCapacity
  <2>1. PICK s \in Seq(MercuryFrames) : s = m.readable[p]
    BY DEF MercuryState
  <2>0. PICK t : t = Append(s, frame)
    OBVIOUS
  <2>2. /\ t \in Seq(MercuryFrames) /\ Len(t) = Len(s) + 1 /\ t[Len(s) + 1] = frame
        /\ \A i \in 1..Len(s) : t[i] = s[i]
    <3>1. t \in Seq(MercuryFrames)
      BY <2>0
    <3>2. Len(t) = Len(s) + 1 /\ t[Len(s) + 1] = frame
      BY <2>0, AppendProperties
    <3>3. \A i \in 1..Len(s) : t[i] = s[i]
      BY <2>0, AppendProperties
    <3> QED
      BY <3>1, <3>2, <3>3
  <2>3. Len(t) <= MercuryCapacity
    <3>1. Len(s) \in Nat /\ Len(s) < MercuryCapacity
      BY <1>1, <2>1
    <3> QED
      BY <2>2, <3>1, MercuryConstants
  <2>4. ~m.started[p] => \A i \in 1..Len(t) : t[i] # "input"
    <3> SUFFICES ASSUME ~m.started[p], NEW i \in 1..Len(t) PROVE t[i] # "input"
      OBVIOUS
    <3>1. i \in 1..Len(s) \/ i = Len(s) + 1
      BY <2>2
    <3>2. \A j \in 1..Len(s) : s[j] # "input"
      BY <2>1 DEF MercuryQueued
    <3> QED
      BY <2>2, <3>1, <3>2
  <2>5. PICK r : r = [m.readable EXCEPT ![p] = t]
    OBVIOUS
  <2>6. r \in [MercuryPort -> Seq(MercuryFrames)] /\ r[p] = t
        /\ \A q \in MercuryPort : q # p => r[q] = m.readable[q]
    <3>1. m.readable \in [MercuryPort -> Seq(MercuryFrames)]
      BY DEF MercuryState
    <3> QED
      BY <2>2, <2>5, <3>1
  <2>7. iobuf_write(m, p, frame) = [m EXCEPT !.readable = r]
    BY <1>1, <2>0, <2>1, <2>5 DEF iobuf_write, MercuryState
  <2>8. \A q \in MercuryPort :
          /\ Len(r[q]) <= MercuryCapacity
          /\ ~m.started[q] => \A i \in 1..Len(r[q]) : r[q][i] # "input"
    BY <2>3, <2>4, <2>6 DEF MercuryQueued
  <2> QED
    BY <2>6, <2>7, <2>8 DEF MercuryBuffers
<1>2. CASE ~(Len(m.readable[p]) < MercuryCapacity)
  <2>1. iobuf_write(m, p, frame) = [m EXCEPT !.readable = m.readable]
    BY <1>2 DEF iobuf_write, MercuryState
  <2>2. MercuryBuffers(m, m.readable)
    BY DEF MercuryQueued, MercuryState, MercuryBuffers
  <2> QED
    BY <2>1, <2>2
<1> QED
  BY <1>1, <1>2

(* Nothing is queued, started or shown.                                    *)
LEMMA MercuryInitInv == MercuryInit => MercuryInv
<1> SUFFICES ASSUME MercuryInit PROVE MercuryGood(mercury)
  BY DEF MercuryInv
<1>1. mercury \in MercuryState
  <2>1. /\ MercuryBoth(FALSE) \in [MercuryPort -> BOOLEAN]
        /\ MercuryBoth(0) \in [MercuryPort -> MercuryByte]
        /\ MercuryBoth(-1) \in [MercuryPort -> MercuryByte \cup {-1}]
        /\ MercuryBoth(<<>>) \in [MercuryPort -> Seq(MercuryFrames)]
    BY MercuryConstants DEF MercuryBoth
  <2> QED
    BY <2>1, MercuryConstants
      DEF MercuryInit, MercuryState, MercuryCommands, MercuryPort
<1>2. /\ mercury.started = [p \in MercuryPort |-> FALSE] /\ mercury.auto = [p \in MercuryPort |-> FALSE]
      /\ mercury.number = [p \in MercuryPort |-> -1] /\ mercury.count = [p \in MercuryPort |-> 0]
      /\ mercury.readable = [p \in MercuryPort |-> <<>>]
      /\ mercury.game.at = "idle" /\ mercury.thread.at = "none" /\ mercury.thread.port = 0
      /\ mercury.prev_data = mercury.shown
  BY DEF MercuryInit, MercuryBoth
<1>3. MercuryShows(mercury) /\ MercuryStarts(mercury)
  BY <1>2 DEF MercuryShows, MercuryStarts
<1>4. MercuryQueued(mercury)
  BY <1>2, MercuryConstants DEF MercuryQueued
<1>5. MercuryOrder(mercury)
  BY <1>2 DEF MercuryOrder, MercuryNumbering
<1> QED
  BY <1>1, <1>3, <1>4, <1>5 DEF MercuryGood

(* A step of the game that concerns no number.                             *)
LEMMA MercuryGameKeeps ==
  ASSUME MercuryInv,
         \/ \E p \in MercuryPort : MercuryRead(p)
         \/ \E p \in MercuryPort, cmd \in MercuryQueries \cup {"BEGIN_WRITE", "START_AUTO_SCAN"} :
              MercuryWrite(p, cmd)
         \/ touch_req_dispatch
  PROVE  MercuryGood(mercury') /\ MercuryTurn(mercury, mercury')
<1> DEFINE m == mercury
           n == mercury'
<1>1. m \in MercuryState /\ MercuryShows(m) /\ MercuryQueued(m) /\ MercuryStarts(m) /\ MercuryOrder(m)
  BY DEF MercuryInv, MercuryGood
<1>2. m.readable \in [MercuryPort -> Seq(MercuryFrames)] /\ MercuryBuffers(m, m.readable)
      /\ m.game.port \in MercuryPort /\ m.game.cmd \in MercuryCommands /\ m.game.count \in MercuryByte
  BY <1>1 DEF MercuryState, MercuryQueued, MercuryBuffers
<1>3. PICK game, r :
        /\ n = [m EXCEPT !.readable = r, !.game = game]
        /\ m.game.at \in {"idle", "dispatch"} /\ game.at \in {"idle", "dispatch"}
        /\ game = [at |-> game.at, port |-> game.port, cmd |-> game.cmd, count |-> game.count]
        /\ game.port \in MercuryPort /\ game.cmd \in MercuryCommands /\ game.count \in MercuryByte
        /\ MercuryBuffers(m, r)
  <2>1. CASE \E p \in MercuryPort : MercuryRead(p)
    <3>1. PICK p \in MercuryPort : m.game.at = "idle" /\ n = [m EXCEPT !.readable[p] = <<>>]
      BY <2>1 DEF MercuryRead
    <3>2. PICK r : r = [m.readable EXCEPT ![p] = <<>>]
      OBVIOUS
    <3>3. r \in [MercuryPort -> Seq(MercuryFrames)] /\ r[p] = <<>>
          /\ \A q \in MercuryPort : q # p => r[q] = m.readable[q]
      BY <1>2, <3>2
    <3>4. n = [m EXCEPT !.readable = r, !.game = m.game]
      BY <1>1, <3>1, <3>2 DEF MercuryState
    <3>5. MercuryBuffers(m, r)
      <4>1. Len(r[p]) = 0 /\ 0 <= MercuryCapacity
        BY <3>3, MercuryConstants
      <4>2. \A i \in 1..Len(r[p]) : r[p][i] # "input"
        BY <4>1
      <4> QED
        BY <1>1, <3>3, <4>1, <4>2 DEF MercuryQueued, MercuryBuffers
    <3>6. m.game = [at |-> m.game.at, port |-> m.game.port, cmd |-> m.game.cmd,
                    count |-> m.game.count]
      BY <1>1 DEF MercuryState
    <3> QED
      BY <1>2, <3>1, <3>4, <3>5, <3>6
  <2>2. CASE \E p \in MercuryPort, cmd \in MercuryQueries \cup {"BEGIN_WRITE", "START_AUTO_SCAN"} :
               MercuryWrite(p, cmd)
    <3>1. PICK p \in MercuryPort, cmd \in MercuryCommands :
            /\ m.game.at = "idle"
            /\ n = [m EXCEPT !.game = [at |-> "dispatch", port |-> p, cmd |-> cmd, count |-> 0]]
      BY <2>2 DEF MercuryWrite, MercuryCommands
    <3>2. PICK game : game = [at |-> "dispatch", port |-> p, cmd |-> cmd, count |-> 0]
      OBVIOUS
    <3>3. n = [m EXCEPT !.readable = m.readable, !.game = game]
      BY <1>1, <3>1, <3>2 DEF MercuryState
    <3>4. /\ game.at = "dispatch" /\ game.port = p /\ game.cmd = cmd /\ game.count = 0
          /\ game = [at |-> game.at, port |-> game.port, cmd |-> game.cmd, count |-> game.count]
      BY <3>2
    <3> QED
      BY <1>2, <3>1, <3>3, <3>4, MercuryConstants
  <2>3. CASE touch_req_dispatch
    <3>1. PICK e : n = MercuryIdle(e) /\ m.game.at = "dispatch"
                   /\ (e = m \/ (m.game.cmd \in MercuryQueries
                                  /\ e = iobuf_write(m, m.game.port, m.game.cmd)))
      BY <2>3 DEF touch_req_dispatch
    <3>2. PICK r : e = [m EXCEPT !.readable = r] /\ MercuryBuffers(m, r)
      <4>1. CASE e = m
        <5>1. e = [m EXCEPT !.readable = m.readable]
          BY <1>1, <4>1 DEF MercuryState
        <5> QED
          BY <1>2, <5>1
      <4>2. CASE m.game.cmd \in MercuryQueries /\ e = iobuf_write(m, m.game.port, m.game.cmd)
        <5>1. m.game.cmd \in MercuryFrames /\ m.game.cmd # "input"
          BY <4>2, MercuryConstants DEF MercuryFrames
        <5> QED
          BY <1>1, <1>2, <4>2, <5>1, MercuryQueues
      <4> QED
        BY <3>1, <4>1, <4>2
    <3>3. PICK game : game = [m.game EXCEPT !.at = "idle", !.cmd = "none"]
      OBVIOUS
    <3>4. n = [m EXCEPT !.readable = r, !.game = game]
      <4>1. PICK g : g = m.game
        OBVIOUS
      <4>2. g \in [at : {"idle", "dispatch", "count", "auto", "thread"}, port : MercuryPort,
                   cmd : MercuryCommands, count : MercuryByte]
        BY <1>1, <4>1 DEF MercuryState
      <4>3. [g EXCEPT !.at = "idle", !.cmd = "none"] = game
        BY <3>3, <4>1
      <4>4. e.game = g
        BY <1>1, <3>2, <4>1 DEF MercuryState
      <4>5. MercuryIdle(e) = [e EXCEPT !.game = [g EXCEPT !.at = "idle", !.cmd = "none"]]
        <5>1. e = [auto |-> e.auto, count |-> e.count, readable |-> e.readable, game |-> e.game,
                   thread |-> e.thread, prev_data |-> e.prev_data, number |-> e.number,
                   raced |-> e.raced, started |-> e.started, shown |-> e.shown]
          BY <1>1, <3>2 DEF MercuryState
        <5>2. g = [at |-> g.at, port |-> g.port, cmd |-> g.cmd, count |-> g.count]
          BY <4>2
        <5> HIDE DEF m, n
        <5> QED
          BY <4>4, <5>1, <5>2 DEF MercuryIdle
      <4>6. [e EXCEPT !.game = game] = [m EXCEPT !.readable = r, !.game = game]
        BY <1>1, <3>2 DEF MercuryState
      <4> QED
        BY <3>1, <4>3, <4>5, <4>6
    <3>5. /\ game.at = "idle" /\ game.port = m.game.port /\ game.cmd = "none"
          /\ game.count = m.game.count
          /\ game = [at |-> game.at, port |-> game.port, cmd |-> game.cmd, count |-> game.count]
      BY <1>1, <3>3 DEF MercuryState
    <3> QED
      BY <1>2, <3>1, <3>2, <3>4, <3>5 DEF MercuryCommands
  <2> QED
    BY <2>1, <2>2, <2>3
<1>4. game \in [at : {"idle", "dispatch", "count", "auto", "thread"}, port : MercuryPort,
                cmd : MercuryCommands, count : MercuryByte]
  BY <1>3
<1>5. /\ n \in MercuryState /\ n.auto = m.auto /\ n.count = m.count /\ n.readable = r
      /\ n.game.at \in {"idle", "dispatch"} /\ n.thread = m.thread /\ n.prev_data = m.prev_data
      /\ n.number = m.number /\ n.raced = m.raced /\ n.started = m.started /\ n.shown = m.shown
  BY <1>1, <1>3, <1>4 DEF MercuryState, MercuryBuffers
<1> HIDE DEF m, n
<1>6. MercuryShows(n) /\ MercuryQueued(n)
  BY <1>1, <1>3, <1>5 DEF MercuryShows, MercuryQueued, MercuryBuffers
<1>7. MercuryStarts(n)
  BY <1>1, <1>3, <1>5 DEF MercuryStarts
<1>8. MercuryOrder(n)
  BY <1>1, <1>3, <1>5
    DEF MercuryOrder, MercuryNumbering, MercuryGoesOn, MercuryBefore, MercuryLoaded,
        MercuryStored, MercuryPast
<1>9. MercuryTurn(m, n)
  BY <1>5 DEF MercuryTurn
<1> QED
  BY <1>5, <1>6, <1>7, <1>8, <1>9 DEF MercuryGood, m, n

(* The record has these fields.                                            *)
LEMMA MercuryShape ==
  ASSUME NEW m \in MercuryState
  PROVE  /\ m = [auto |-> m.auto, count |-> m.count, readable |-> m.readable, game |-> m.game,
                 thread |-> m.thread, prev_data |-> m.prev_data, number |-> m.number,
                 raced |-> m.raced, started |-> m.started, shown |-> m.shown]
         /\ m.game = [at |-> m.game.at, port |-> m.game.port, cmd |-> m.game.cmd,
                      count |-> m.game.count]
         /\ m.thread = [at |-> m.thread.at, port |-> m.thread.port, count |-> m.thread.count,
                        data |-> m.thread.data]
BY DEF MercuryState

(* The types of the fields.                                                *)
LEMMA MercuryTypes ==
  ASSUME NEW m \in MercuryState
  PROVE  /\ m.auto \in [MercuryPort -> BOOLEAN] /\ m.count \in [MercuryPort -> MercuryByte]
         /\ m.readable \in [MercuryPort -> Seq(MercuryFrames)]
         /\ m.game.at \in {"idle", "dispatch", "count", "auto", "thread"}
         /\ m.game.port \in MercuryPort /\ m.game.cmd \in MercuryCommands
         /\ m.game.count \in MercuryByte
         /\ m.thread.at \in {"none", "load", "store", "poll", "send", "lock"}
         /\ m.thread.port \in MercuryPort /\ m.thread.count \in [MercuryPort -> MercuryByte]
         /\ m.thread.data \in MercuryCells /\ m.prev_data \in MercuryCells
         /\ m.number \in [MercuryPort -> MercuryByte \cup {-1}]
         /\ m.raced \in [MercuryPort -> BOOLEAN] /\ m.started \in [MercuryPort -> BOOLEAN]
         /\ m.shown \in MercuryCells
BY DEF MercuryState

(* And a record with these fields is a state.                              *)
LEMMA MercuryIsState ==
  ASSUME NEW m,
         m = [auto |-> m.auto, count |-> m.count, readable |-> m.readable, game |-> m.game,
              thread |-> m.thread, prev_data |-> m.prev_data, number |-> m.number,
              raced |-> m.raced, started |-> m.started, shown |-> m.shown],
         m.game = [at |-> m.game.at, port |-> m.game.port, cmd |-> m.game.cmd,
                   count |-> m.game.count],
         m.thread = [at |-> m.thread.at, port |-> m.thread.port, count |-> m.thread.count,
                     data |-> m.thread.data],
         m.auto \in [MercuryPort -> BOOLEAN], m.count \in [MercuryPort -> MercuryByte],
         m.readable \in [MercuryPort -> Seq(MercuryFrames)],
         m.game.at \in {"idle", "dispatch", "count", "auto", "thread"},
         m.game.port \in MercuryPort, m.game.cmd \in MercuryCommands,
         m.game.count \in MercuryByte,
         m.thread.at \in {"none", "load", "store", "poll", "send", "lock"},
         m.thread.port \in MercuryPort, m.thread.count \in [MercuryPort -> MercuryByte],
         m.thread.data \in MercuryCells, m.prev_data \in MercuryCells,
         m.number \in [MercuryPort -> MercuryByte \cup {-1}],
         m.raced \in [MercuryPort -> BOOLEAN], m.started \in [MercuryPort -> BOOLEAN],
         m.shown \in MercuryCells
  PROVE  m \in MercuryState
<1>1. m.game \in [at : {"idle", "dispatch", "count", "auto", "thread"}, port : MercuryPort,
                  cmd : MercuryCommands, count : MercuryByte]
  OBVIOUS
<1>2. m.thread \in [at : {"none", "load", "store", "poll", "send", "lock"}, port : MercuryPort,
                    count : [MercuryPort -> MercuryByte], data : MercuryCells]
  OBVIOUS
<1> QED
  BY <1>1, <1>2 DEF MercuryState

(* A start reads the number of its port; it races the thread if that runs. *)
LEMMA MercuryReadsCount ==
  ASSUME NEW m, NEW n, MercuryGood(m), NEW p, p = m.game.port, m.game.at = "dispatch",
         n = [m EXCEPT !.game.at = "count", !.game.count = m.count[p],
                       !.raced[p] = @ \/ m.thread.at # "none",
                       !.number[p] = IF m.thread.at # "none" THEN -1 ELSE @]
  PROVE  MercuryGood(n) /\ MercuryTurn(m, n)
<1>1. m \in MercuryState /\ MercuryShows(m) /\ MercuryQueued(m) /\ MercuryStarts(m) /\ MercuryOrder(m)
  BY DEF MercuryGood
<1>2. p \in MercuryPort /\ m.count[p] \in MercuryByte
  BY <1>1 DEF MercuryState
<1>3. /\ n = [auto |-> n.auto, count |-> n.count, readable |-> n.readable, game |-> n.game,
              thread |-> n.thread, prev_data |-> n.prev_data, number |-> n.number,
              raced |-> n.raced, started |-> n.started, shown |-> n.shown]
      /\ n.game = [m.game EXCEPT !.at = "count", !.count = m.count[p]]
      /\ n.raced = [m.raced EXCEPT ![p] = m.raced[p] \/ m.thread.at # "none"]
      /\ n.number = [m.number EXCEPT ![p] = IF m.thread.at # "none" THEN -1 ELSE m.number[p]]
      /\ n.auto = m.auto /\ n.count = m.count /\ n.readable = m.readable
      /\ n.thread = m.thread /\ n.prev_data = m.prev_data /\ n.started = m.started
      /\ n.shown = m.shown
  <2> DEFINE g == [m.game EXCEPT !.at = "count", !.count = m.count[p]]
             ra == [m.raced EXCEPT ![p] = m.raced[p] \/ m.thread.at # "none"]
             nu == [m.number EXCEPT ![p] = IF m.thread.at # "none" THEN -1 ELSE m.number[p]]
  <2>1. m = [auto |-> m.auto, count |-> m.count, readable |-> m.readable, game |-> m.game,
             thread |-> m.thread, prev_data |-> m.prev_data, number |-> m.number,
             raced |-> m.raced, started |-> m.started, shown |-> m.shown]
    BY <1>1, MercuryShape
  <2>2. n = [m EXCEPT !.game = g, !.raced = ra, !.number = nu]
    BY ONLY <2>1, n = [m EXCEPT !.game.at = "count", !.game.count = m.count[p],
                       !.raced[p] = @ \/ m.thread.at # "none",
                       !.number[p] = IF m.thread.at # "none" THEN -1 ELSE @]
  <2> HIDE DEF g, ra, nu
  <2>3. n = [auto |-> m.auto, count |-> m.count, readable |-> m.readable, game |-> g,
             thread |-> m.thread, prev_data |-> m.prev_data, number |-> nu,
             raced |-> ra, started |-> m.started, shown |-> m.shown]
    BY ONLY <2>1, <2>2
  <2> QED
    BY <2>3 DEF g, ra, nu
<1>4. /\ n.game = [at |-> n.game.at, port |-> n.game.port, cmd |-> n.game.cmd,
                   count |-> n.game.count]
      /\ n.game.at = "count" /\ n.game.port = p /\ n.game.cmd = m.game.cmd
      /\ n.game.count = m.count[p]
  <2>1. m.game = [at |-> m.game.at, port |-> m.game.port, cmd |-> m.game.cmd,
                  count |-> m.game.count]
    BY <1>1, MercuryShape
  <2>2. PICK g, h, c : g = m.game /\ h = n.game /\ c = m.count[p]
    OBVIOUS
  <2>3. h = [g EXCEPT !.at = "count", !.count = c]
    BY <1>3, <2>2
  <2>4. /\ h = [at |-> h.at, port |-> h.port, cmd |-> h.cmd, count |-> h.count]
        /\ h.at = "count" /\ h.port = g.port /\ h.cmd = g.cmd /\ h.count = c
    BY ONLY <2>1, <2>2, <2>3
  <2> QED
    BY <2>2, <2>4
<1>5. /\ n.raced \in [MercuryPort -> BOOLEAN]
      /\ n.raced[p] = (m.raced[p] \/ m.thread.at # "none")
      /\ \A q \in MercuryPort : q # p => n.raced[q] = m.raced[q]
  BY <1>1, <1>2, <1>3, MercuryTypes
<1>6. /\ n.number \in [MercuryPort -> MercuryByte \cup {-1}]
      /\ m.thread.at = "none" => n.number[p] = m.number[p]
      /\ \A q \in MercuryPort : q # p => n.number[q] = m.number[q]
  BY <1>1, <1>2, <1>3, MercuryTypes
<1>7. n \in MercuryState
  <2>1. /\ n.auto \in [MercuryPort -> BOOLEAN] /\ n.count \in [MercuryPort -> MercuryByte]
        /\ n.readable \in [MercuryPort -> Seq(MercuryFrames)]
        /\ n.started \in [MercuryPort -> BOOLEAN]
        /\ n.prev_data \in MercuryCells /\ n.shown \in MercuryCells
    BY ONLY <1>1, <1>3, MercuryTypes
  <2>2. /\ n.thread = [at |-> n.thread.at, port |-> n.thread.port, count |-> n.thread.count,
                       data |-> n.thread.data]
        /\ n.thread.at \in {"none", "load", "store", "poll", "send", "lock"}
        /\ n.thread.port \in MercuryPort /\ n.thread.count \in [MercuryPort -> MercuryByte]
        /\ n.thread.data \in MercuryCells
    <3>1. n.thread = m.thread
      BY ONLY <1>3
    <3> QED
      BY ONLY <1>1, <3>1, MercuryShape, MercuryTypes
  <2>3. /\ n.game = [at |-> n.game.at, port |-> n.game.port, cmd |-> n.game.cmd,
                     count |-> n.game.count]
        /\ n.game.at \in {"idle", "dispatch", "count", "auto", "thread"}
        /\ n.game.port \in MercuryPort /\ n.game.cmd \in MercuryCommands
        /\ n.game.count \in MercuryByte
    BY ONLY <1>1, <1>2, <1>4, MercuryTypes
  <2>4. n = [auto |-> n.auto, count |-> n.count, readable |-> n.readable, game |-> n.game,
             thread |-> n.thread, prev_data |-> n.prev_data, number |-> n.number,
             raced |-> n.raced, started |-> n.started, shown |-> n.shown]
    BY ONLY <1>3
  <2> QED
    BY ONLY <1>5, <1>6, <2>1, <2>2, <2>3, <2>4, MercuryIsState
<1>8. MercuryShows(n) /\ MercuryQueued(n)
  BY ONLY <1>1, <1>3 DEF MercuryShows, MercuryQueued
<1>9. MercuryStarts(n)
  <2>1. n.auto = m.auto /\ n.thread = m.thread /\ n.started = m.started
    BY ONLY <1>3
  <2> QED
    BY ONLY <1>1, <1>2, <1>4, <1>5, <2>1 DEF MercuryStarts
<1>10. MercuryOrder(n)
  <2> SUFFICES ASSUME NEW q \in MercuryPort, ~n.raced[q] PROVE MercuryNumbering(n, q)
    BY DEF MercuryOrder
  <2>1. MercuryNumbering(m, q) /\ ~m.raced[q] /\ n.number[q] = m.number[q]
    BY <1>1, <1>5, <1>6 DEF MercuryOrder
  <2> QED
    BY <1>1, <1>3, <1>4, <2>1
      DEF MercuryNumbering, MercuryGoesOn, MercuryBefore, MercuryLoaded, MercuryStored,
          MercuryPast
<1>11. MercuryTurn(m, n)
  BY <1>5, <1>6 DEF MercuryTurn
<1> QED
  BY <1>7, <1>8, <1>9, <1>10, <1>11 DEF MercuryGood

(* A frame is queued or refused, and its number is noted.                  *)
LEMMA MercuryFramed ==
  ASSUME NEW m \in MercuryState, MercuryQueued(m), NEW p \in MercuryPort,
         NEW frame \in MercuryFrames, frame = "input" => m.started[p], NEW c
  PROVE  \E r, nu :
           /\ MercuryBuffers(m, r)
           /\ nu = (IF m.raced[p] THEN m.number ELSE [m.number EXCEPT ![p] = c])
           /\ MercuryNumbered(iobuf_write(m, p, frame), p, c)
                = [auto |-> m.auto, count |-> m.count, readable |-> r,
                    game |-> m.game, thread |-> m.thread, prev_data |-> m.prev_data,
                    number |-> nu, raced |-> m.raced, started |-> m.started, shown |-> m.shown]
<1>1. PICK r : iobuf_write(m, p, frame) = [m EXCEPT !.readable = r] /\ MercuryBuffers(m, r)
  BY MercuryQueues
<1>2. PICK nu : nu = (IF m.raced[p] THEN m.number ELSE [m.number EXCEPT ![p] = c])
  OBVIOUS
<1>3. PICK e : e = iobuf_write(m, p, frame)
  OBVIOUS
<1>4. m = [auto |-> m.auto, count |-> m.count, readable |-> m.readable,
           game |-> m.game, thread |-> m.thread, prev_data |-> m.prev_data,
           number |-> m.number, raced |-> m.raced, started |-> m.started, shown |-> m.shown]
  BY MercuryShape
<1>5. e = [auto |-> m.auto, count |-> m.count, readable |-> r,
           game |-> m.game, thread |-> m.thread, prev_data |-> m.prev_data,
           number |-> m.number, raced |-> m.raced, started |-> m.started, shown |-> m.shown]
  BY ONLY <1>1, <1>3, <1>4
<1>6. MercuryNumbered(e, p, c) = [auto |-> m.auto, count |-> m.count, readable |-> r,
                                game |-> m.game, thread |-> m.thread, prev_data |-> m.prev_data,
                                number |-> nu, raced |-> m.raced, started |-> m.started, shown |-> m.shown]
  <2>1. e.raced = m.raced /\ e.number = m.number
    BY ONLY <1>5
  <2>2. CASE m.raced[p]
    BY ONLY <1>2, <1>5, <2>1, <2>2 DEF MercuryNumbered
  <2>3. CASE ~m.raced[p]
    <3>1. MercuryNumbered(e, p, c) = [e EXCEPT !.number = nu]
      BY ONLY <1>2, <1>5, <2>1, <2>3 DEF MercuryNumbered
    <3> QED
      BY ONLY <1>5, <3>1
  <2> QED
    BY <2>2, <2>3
<1> QED
  BY <1>1, <1>2, <1>3, <1>6

(* The answer to a start is queued, with the next number stored.           *)
MercuryAnswers(m, p) ==
  [MercuryNumbered(iobuf_write(m, p, "start"), p, m.game.count)
     EXCEPT !.count[p] = (m.game.count + 1) % MercuryWidth,
            !.game.at = "auto", !.game.count = 0, !.started[p] = TRUE]

(* The answer to a start is queued and the next number stored.             *)
LEMMA MercuryStoresCount ==
  ASSUME NEW m, NEW n, MercuryGood(m), NEW p, p = m.game.port, m.game.at = "count",
         n = MercuryAnswers(m, p)
  PROVE  MercuryGood(n) /\ MercuryTurn(m, n)
<1>1. m \in MercuryState /\ MercuryShows(m) /\ MercuryQueued(m) /\ MercuryStarts(m) /\ MercuryOrder(m)
  BY DEF MercuryGood
<1>2. p \in MercuryPort /\ m.game.count \in MercuryByte
      /\ (m.game.count + 1) % MercuryWidth \in MercuryByte
  <2>1. p \in MercuryPort /\ m.game.count \in MercuryByte
    BY <1>1, MercuryTypes
  <2>2. m.game.count + 1 \in Int
    BY <2>1, MercuryConstants DEF MercuryByte
  <2> QED
    BY <2>1, <2>2, MercuryConstants
<1>3. PICK r, nu, e :
        /\ MercuryBuffers(m, r)
        /\ nu = (IF m.raced[p] THEN m.number ELSE [m.number EXCEPT ![p] = m.game.count])
        /\ e = MercuryNumbered(iobuf_write(m, p, "start"), p, m.game.count)
        /\ e = [auto |-> m.auto, count |-> m.count, readable |-> r,
                 game |-> m.game, thread |-> m.thread, prev_data |-> m.prev_data,
                 number |-> nu, raced |-> m.raced, started |-> m.started, shown |-> m.shown]
  <2>1. "start" \in MercuryFrames /\ "start" # "input"
    BY DEF MercuryFrames
  <2> QED
    BY <1>1, <1>2, <2>1, MercuryFramed
<1>4. PICK g, co, st :
        /\ g = [m.game EXCEPT !.at = "auto", !.count = 0]
        /\ co = [m.count EXCEPT ![p] = (m.game.count + 1) % MercuryWidth]
        /\ st = [m.started EXCEPT ![p] = TRUE]
  OBVIOUS
<1>5. n = [auto |-> m.auto, count |-> co, readable |-> r,
           game |-> g, thread |-> m.thread, prev_data |-> m.prev_data,
           number |-> nu, raced |-> m.raced, started |-> st, shown |-> m.shown]
  <2>1. e.game = m.game /\ e.count = m.count /\ e.started = m.started
    BY ONLY <1>3
  <2>2. n = [e EXCEPT !.count = co, !.game = g, !.started = st]
    <3>1. n = [e EXCEPT !.count[p] = (m.game.count + 1) % MercuryWidth,
                        !.game.at = "auto", !.game.count = 0, !.started[p] = TRUE]
      BY <1>3 DEF MercuryAnswers
    <3>2. e = [auto |-> e.auto, count |-> e.count, readable |-> e.readable,
               game |-> e.game, thread |-> e.thread, prev_data |-> e.prev_data,
               number |-> e.number, raced |-> e.raced, started |-> e.started, shown |-> e.shown]
      BY ONLY <1>3
    <3> QED
      BY ONLY <1>4, <2>1, <3>1, <3>2
  <2>3. e = [auto |-> m.auto, count |-> m.count, readable |-> r,
             game |-> m.game, thread |-> m.thread, prev_data |-> m.prev_data,
             number |-> nu, raced |-> m.raced, started |-> m.started, shown |-> m.shown]
    BY <1>3
  <2> QED
    BY ONLY <2>2, <2>3
<1>6. /\ n.game = [at |-> n.game.at, port |-> n.game.port, cmd |-> n.game.cmd,
                   count |-> n.game.count]
      /\ n.game.at = "auto" /\ n.game.port = p /\ n.game.cmd = m.game.cmd /\ n.game.count = 0
  <2>1. m.game = [at |-> m.game.at, port |-> m.game.port, cmd |-> m.game.cmd,
                  count |-> m.game.count]
    BY <1>1, MercuryShape
  <2>2. n.game = g
    BY <1>5
  <2>3. PICK k : k = m.game
    OBVIOUS
  <2>4. /\ g = [at |-> g.at, port |-> g.port, cmd |-> g.cmd, count |-> g.count]
        /\ g.at = "auto" /\ g.port = k.port /\ g.cmd = k.cmd /\ g.count = 0
    BY ONLY <1>4, <2>1, <2>3
  <2> QED
    BY <2>2, <2>3, <2>4
<1>7. /\ co \in [MercuryPort -> MercuryByte] /\ co[p] = (m.game.count + 1) % MercuryWidth
      /\ \A q \in MercuryPort : q # p => co[q] = m.count[q]
  BY <1>1, <1>2, <1>4, MercuryTypes
<1>8. /\ st \in [MercuryPort -> BOOLEAN] /\ st[p]
      /\ \A q \in MercuryPort : q # p => st[q] = m.started[q]
  BY <1>1, <1>2, <1>4, MercuryTypes
<1>9. /\ nu \in [MercuryPort -> MercuryByte \cup {-1}]
      /\ m.raced[p] => nu[p] = m.number[p]
      /\ ~m.raced[p] => nu[p] = m.game.count
      /\ \A q \in MercuryPort : q # p => nu[q] = m.number[q]
  BY <1>1, <1>2, <1>3, MercuryTypes
<1>10. /\ n.auto = m.auto /\ n.count = co /\ n.readable = r /\ n.thread = m.thread
       /\ n.prev_data = m.prev_data /\ n.number = nu /\ n.raced = m.raced /\ n.started = st
       /\ n.shown = m.shown /\ n = [auto |-> n.auto, count |-> n.count, readable |-> n.readable,
               game |-> n.game, thread |-> n.thread, prev_data |-> n.prev_data,
               number |-> n.number, raced |-> n.raced, started |-> n.started, shown |-> n.shown]
  BY ONLY <1>5
<1>11. n \in MercuryState
  <2>1. n.thread = [at |-> n.thread.at, port |-> n.thread.port, count |-> n.thread.count,
                    data |-> n.thread.data] /\ r \in [MercuryPort -> Seq(MercuryFrames)]
    BY <1>1, <1>3, <1>10, MercuryShape DEF MercuryBuffers
  <2> QED
    <3>1. /\ n.auto \in [MercuryPort -> BOOLEAN] /\ n.count \in [MercuryPort -> MercuryByte]
          /\ n.started \in [MercuryPort -> BOOLEAN] /\ n.raced \in [MercuryPort -> BOOLEAN]
          /\ n.prev_data \in MercuryCells /\ n.shown \in MercuryCells
      BY <1>1, <1>7, <1>8, <1>10, MercuryTypes
    <3>2. /\ n.readable \in [MercuryPort -> Seq(MercuryFrames)]
          /\ n.number \in [MercuryPort -> MercuryByte \cup {-1}]
      BY ONLY <1>9, <1>10, <2>1
    <3>3. /\ n.game = [at |-> n.game.at, port |-> n.game.port, cmd |-> n.game.cmd,
                       count |-> n.game.count]
          /\ n.game.at \in {"idle", "dispatch", "count", "auto", "thread"}
          /\ n.game.port \in MercuryPort /\ n.game.cmd \in MercuryCommands
          /\ n.game.count \in MercuryByte
      BY <1>1, <1>2, <1>6, MercuryTypes, MercuryConstants
    <3>4. n.thread = m.thread
      BY ONLY <1>10
    <3>5. /\ n.thread.at \in {"none", "load", "store", "poll", "send", "lock"}
          /\ n.thread.port \in MercuryPort /\ n.thread.count \in [MercuryPort -> MercuryByte]
          /\ n.thread.data \in MercuryCells
      BY <1>1, <3>4, MercuryTypes
    <3>6. n = [auto |-> n.auto, count |-> n.count, readable |-> n.readable,
               game |-> n.game, thread |-> n.thread, prev_data |-> n.prev_data,
               number |-> n.number, raced |-> n.raced, started |-> n.started, shown |-> n.shown]
      BY ONLY <1>10
    <3>7. n.thread = [at |-> n.thread.at, port |-> n.thread.port, count |-> n.thread.count,
                      data |-> n.thread.data]
      BY ONLY <2>1
    <3> QED
      BY ONLY <3>1, <3>2, <3>3, <3>5, <3>6, <3>7, MercuryIsState
<1>12. MercuryShows(n) /\ MercuryQueued(n)
  <2>1. MercuryShows(n)
    BY <1>1, <1>10 DEF MercuryShows
  <2>2. MercuryQueued(n)
    <3> SUFFICES ASSUME NEW q \in MercuryPort
                 PROVE  /\ Len(n.readable[q]) <= MercuryCapacity
                        /\ ~n.started[q] => \A i \in 1..Len(n.readable[q]) : n.readable[q][i] # "input"
      BY DEF MercuryQueued
    <3>1. n.readable = r /\ n.started = st
      BY ONLY <1>10
    <3>2. ~st[q] => ~m.started[q]
      BY ONLY <1>8
    <3>3. /\ Len(r[q]) <= MercuryCapacity
          /\ ~m.started[q] => \A i \in 1..Len(r[q]) : r[q][i] # "input"
      BY <1>3 DEF MercuryBuffers
    <3> QED
      BY ONLY <3>1, <3>2, <3>3
  <2> QED
    BY <2>1, <2>2
<1>13. MercuryStarts(n)
  BY <1>1, <1>2, <1>6, <1>8, <1>10 DEF MercuryStarts
<1>14. ~m.raced[p] =>
         m.thread.at = "none" /\ ~m.started[p] /\ m.game.count = 0 /\ m.number[p] = -1
  BY <1>1, <1>2 DEF MercuryStarts, MercuryOrder, MercuryNumbering
<1>15. MercuryOrder(n)
  <2> SUFFICES ASSUME NEW q \in MercuryPort, ~n.raced[q] PROVE MercuryNumbering(n, q)
    BY DEF MercuryOrder
  <2>1. MercuryNumbering(m, q) /\ ~m.raced[q]
    BY <1>1, <1>10 DEF MercuryOrder
  <2>2. CASE q = p
    <3>1. co[p] = 1 /\ nu[p] = 0
      BY <1>7, <1>9, <1>14, <2>1, <2>2, MercuryCounts
    <3> QED
      BY <1>6, <1>8, <1>10, <1>14, <2>1, <2>2, <3>1 DEF MercuryNumbering
  <2>3. CASE q # p
    BY <1>1, <1>2, <1>6, <1>7, <1>8, <1>9, <1>10, <2>1, <2>3
      DEF MercuryNumbering, MercuryGoesOn, MercuryBefore, MercuryLoaded, MercuryStored,
          MercuryPast, MercuryPort
  <2> QED
    BY <2>2, <2>3
<1>16. MercuryTurn(m, n)
  BY <1>9, <1>10, <1>14 DEF MercuryTurn
<1> QED
  BY <1>11, <1>12, <1>13, <1>15, <1>16 DEF MercuryGood

(* A step of the thread or the game changes only where these are.          *)
LEMMA MercuryMoves ==
  ASSUME NEW m \in MercuryState, NEW n, NEW au \in [MercuryPort -> BOOLEAN],
         NEW co \in [MercuryPort -> MercuryByte], NEW g, NEW th,
         NEW pr \in MercuryCells, NEW sh \in MercuryCells,
         n = [auto |-> au, count |-> co, readable |-> m.readable,
              game |-> g, thread |-> th, prev_data |-> pr,
              number |-> m.number, raced |-> m.raced, started |-> m.started, shown |-> sh],
         g = [at |-> g.at, port |-> g.port, cmd |-> g.cmd, count |-> g.count],
         g.at \in {"idle", "dispatch", "count", "auto", "thread"}, g.port \in MercuryPort,
         g.cmd \in MercuryCommands, g.count \in MercuryByte,
         th = [at |-> th.at, port |-> th.port, count |-> th.count, data |-> th.data],
         th.at \in {"none", "load", "store", "poll", "send", "lock"}, th.port \in MercuryPort,
         th.count \in [MercuryPort -> MercuryByte], th.data \in MercuryCells
  PROVE  /\ n \in MercuryState
         /\ n.auto = au /\ n.count = co /\ n.readable = m.readable /\ n.game = g
         /\ n.thread = th /\ n.prev_data = pr /\ n.number = m.number /\ n.raced = m.raced
         /\ n.started = m.started /\ n.shown = sh
<1>1. /\ n.auto = au /\ n.count = co /\ n.readable = m.readable /\ n.game = g
      /\ n.thread = th /\ n.prev_data = pr /\ n.number = m.number /\ n.raced = m.raced
      /\ n.started = m.started /\ n.shown = sh
      /\ n = [auto |-> n.auto, count |-> n.count, readable |-> n.readable,
              game |-> n.game, thread |-> n.thread, prev_data |-> n.prev_data,
              number |-> n.number, raced |-> n.raced, started |-> n.started, shown |-> n.shown]
  OBVIOUS
<1>2. n \in MercuryState
  BY <1>1, MercuryTypes, MercuryIsState
<1> QED
  BY <1>1, <1>2

(* A started port is marked to be reported, and the thread is created.     *)
MercuryEnds(m, n) ==
  \/ m.game.at = "auto" /\ n = [m EXCEPT !.auto[m.game.port] = TRUE, !.game.at = "thread"]
  \/ /\ m.game.at = "thread"
     /\ n = MercuryIdle(IF m.thread.at = "none" THEN [m EXCEPT !.thread.at = "load"] ELSE m)

(* What has changed then.                                                  *)
MercuryEnded(m, n, au, g, th) ==
  /\ n = [auto |-> au, count |-> m.count, readable |-> m.readable,
           game |-> g, thread |-> th, prev_data |-> m.prev_data,
           number |-> m.number, raced |-> m.raced, started |-> m.started, shown |-> m.shown]
  /\ g = [at |-> g.at, port |-> g.port, cmd |-> g.cmd, count |-> g.count]
  /\ g.port = m.game.port /\ g.count = m.game.count
  /\ th = [at |-> th.at, port |-> th.port, count |-> th.count, data |-> th.data]
  /\ th.port = m.thread.port /\ th.count = m.thread.count /\ th.data = m.thread.data
  /\ au \in [MercuryPort -> BOOLEAN]
  /\ \/ /\ m.game.at = "auto" /\ g.at = "thread" /\ g.cmd = m.game.cmd
        /\ th.at = m.thread.at
        /\ au[m.game.port] /\ \A q \in MercuryPort : q # m.game.port => au[q] = m.auto[q]
     \/ /\ m.game.at = "thread" /\ g.at = "idle" /\ g.cmd = "none" /\ au = m.auto
        /\ th.at = (IF m.thread.at = "none" THEN "load" ELSE m.thread.at)

(* The port is marked, and the thread is there from then on.               *)
LEMMA MercuryEndsStart ==
  ASSUME NEW m, NEW n, MercuryGood(m), MercuryEnds(m, n)
  PROVE  MercuryGood(n) /\ MercuryTurn(m, n)
<1>1. m \in MercuryState /\ MercuryShows(m) /\ MercuryQueued(m) /\ MercuryStarts(m) /\ MercuryOrder(m)
  BY DEF MercuryGood
<1>2. PICK p \in MercuryPort : p = m.game.port
  BY <1>1, MercuryTypes
<1>3. m = [auto |-> m.auto, count |-> m.count, readable |-> m.readable,
           game |-> m.game, thread |-> m.thread, prev_data |-> m.prev_data,
           number |-> m.number, raced |-> m.raced, started |-> m.started, shown |-> m.shown]
  BY <1>1, MercuryShape
<1>4. m.game = [at |-> m.game.at, port |-> m.game.port, cmd |-> m.game.cmd,
                  count |-> m.game.count]
  BY <1>1, MercuryShape
<1>5. m.thread = [at |-> m.thread.at, port |-> m.thread.port, count |-> m.thread.count,
                    data |-> m.thread.data]
  BY <1>1, MercuryShape
<1>6. PICK au, g, th : MercuryEnded(m, n, au, g, th)
  <2>1. CASE m.game.at = "auto" /\ n = [m EXCEPT !.auto[m.game.port] = TRUE, !.game.at = "thread"]
    <3>1. PICK au, g : au = [m.auto EXCEPT ![p] = TRUE] /\ g = [m.game EXCEPT !.at = "thread"]
      OBVIOUS
    <3>2. n = [m EXCEPT !.auto = au, !.game = g]
      BY ONLY <1>2, <1>3, <2>1, <3>1
    <3>3. n = [auto |-> au, count |-> m.count, readable |-> m.readable,
               game |-> g, thread |-> m.thread, prev_data |-> m.prev_data,
               number |-> m.number, raced |-> m.raced, started |-> m.started, shown |-> m.shown]
      BY ONLY <1>3, <3>2
    <3>4. /\ g = [at |-> g.at, port |-> g.port, cmd |-> g.cmd, count |-> g.count]
          /\ g.port = m.game.port /\ g.count = m.game.count
          /\ g.at = "thread" /\ g.cmd = m.game.cmd
      BY ONLY <1>4, <3>1
    <3>5. /\ au \in [MercuryPort -> BOOLEAN] /\ au[p]
          /\ \A q \in MercuryPort : q # p => au[q] = m.auto[q]
      BY <1>1, <1>2, <3>1, MercuryTypes
    <3>6. PICK th : th = m.thread
      OBVIOUS
    <3>7. n = [auto |-> au, count |-> m.count, readable |-> m.readable,
               game |-> g, thread |-> th, prev_data |-> m.prev_data,
               number |-> m.number, raced |-> m.raced, started |-> m.started, shown |-> m.shown]
      BY <3>3, <3>6
    <3>8. /\ th = [at |-> th.at, port |-> th.port, count |-> th.count, data |-> th.data]
          /\ th.port = m.thread.port /\ th.count = m.thread.count /\ th.data = m.thread.data
          /\ th.at = m.thread.at
      BY <1>5, <3>6
    <3>9. MercuryEnded(m, n, au, g, th)
      BY ONLY <1>2, <2>1, <3>4, <3>5, <3>7, <3>8 DEF MercuryEnded
    <3> QED
      BY <3>9
  <2>2. CASE /\ m.game.at = "thread"
             /\ n = MercuryIdle(IF m.thread.at = "none" THEN [m EXCEPT !.thread.at = "load"] ELSE m)
    <3>1. PICK g, th : /\ g = [m.game EXCEPT !.at = "idle", !.cmd = "none"]
                       /\ th = (IF m.thread.at = "none" THEN [m.thread EXCEPT !.at = "load"]
                                ELSE m.thread)
      OBVIOUS
    <3>2. PICK e : e = (IF m.thread.at = "none" THEN [m EXCEPT !.thread.at = "load"] ELSE m)
      OBVIOUS
    <3>3. e = [auto |-> m.auto, count |-> m.count, readable |-> m.readable,
               game |-> m.game, thread |-> th, prev_data |-> m.prev_data,
               number |-> m.number, raced |-> m.raced, started |-> m.started, shown |-> m.shown]
      <4>1. CASE m.thread.at = "none"
        <5>1. e = [m EXCEPT !.thread = th]
          BY ONLY <1>3, <3>1, <3>2, <4>1
        <5> QED
          BY ONLY <1>3, <5>1
      <4>2. CASE m.thread.at # "none"
        BY ONLY <1>3, <3>1, <3>2, <4>2
      <4> QED
        BY <4>1, <4>2
    <3>4. n = [e EXCEPT !.game = g]
      <4>1. n = MercuryIdle(e) /\ e.game = m.game
        BY <2>2, <3>2, <3>3
      <4> QED
        BY ONLY <3>1, <3>3, <4>1 DEF MercuryIdle
    <3>5. n = [auto |-> m.auto, count |-> m.count, readable |-> m.readable,
               game |-> g, thread |-> th, prev_data |-> m.prev_data,
               number |-> m.number, raced |-> m.raced, started |-> m.started, shown |-> m.shown]
      BY ONLY <3>3, <3>4
    <3>6. /\ g = [at |-> g.at, port |-> g.port, cmd |-> g.cmd, count |-> g.count]
          /\ g.port = m.game.port /\ g.count = m.game.count
          /\ g.at = "idle" /\ g.cmd = "none"
      BY ONLY <1>4, <3>1
    <3>7. /\ th = [at |-> th.at, port |-> th.port, count |-> th.count, data |-> th.data]
          /\ th.port = m.thread.port /\ th.count = m.thread.count /\ th.data = m.thread.data
          /\ th.at = (IF m.thread.at = "none" THEN "load" ELSE m.thread.at)
      <4>1. CASE m.thread.at = "none"
        BY ONLY <1>5, <3>1, <4>1
      <4>2. CASE m.thread.at # "none"
        BY ONLY <1>5, <3>1, <4>2
      <4> QED
        BY <4>1, <4>2
    <3>8. m.auto \in [MercuryPort -> BOOLEAN]
      BY <1>1, MercuryTypes
    <3>9. MercuryEnded(m, n, m.auto, g, th)
      BY ONLY <2>2, <3>5, <3>6, <3>7, <3>8 DEF MercuryEnded
    <3> QED
      BY <3>9
  <2> QED
    BY <2>1, <2>2 DEF MercuryEnds
<1>16. /\ n = [auto |-> au, count |-> m.count, readable |-> m.readable,
               game |-> g, thread |-> th, prev_data |-> m.prev_data,
               number |-> m.number, raced |-> m.raced, started |-> m.started, shown |-> m.shown]
      /\ g = [at |-> g.at, port |-> g.port, cmd |-> g.cmd, count |-> g.count]
      /\ g.port = m.game.port /\ g.count = m.game.count
      /\ th = [at |-> th.at, port |-> th.port, count |-> th.count, data |-> th.data]
      /\ th.port = m.thread.port /\ th.count = m.thread.count /\ th.data = m.thread.data
      /\ au \in [MercuryPort -> BOOLEAN]
      /\ \/ /\ m.game.at = "auto" /\ g.at = "thread" /\ g.cmd = m.game.cmd
            /\ th.at = m.thread.at
            /\ au[p] /\ \A q \in MercuryPort : q # p => au[q] = m.auto[q]
         \/ /\ m.game.at = "thread" /\ g.at = "idle" /\ g.cmd = "none" /\ au = m.auto
            /\ th.at = (IF m.thread.at = "none" THEN "load" ELSE m.thread.at)
  BY <1>2, <1>6 DEF MercuryEnded
<1>7. g.cmd \in MercuryCommands /\ g.at \in {"thread", "idle"}
      /\ th.at \in {"none", "load", "store", "poll", "send", "lock"}
  BY <1>1, <1>16, MercuryTypes DEF MercuryCommands
<1>8. /\ n \in MercuryState
      /\ n.auto = au /\ n.count = m.count /\ n.readable = m.readable /\ n.game = g
      /\ n.thread = th /\ n.prev_data = m.prev_data /\ n.number = m.number
      /\ n.raced = m.raced /\ n.started = m.started /\ n.shown = m.shown
  BY <1>1, <1>16, <1>7, MercuryTypes, MercuryMoves
<1>9. MercuryShows(n) /\ MercuryQueued(n)
  <2>1. MercuryShows(n)
    BY <1>1, <1>16, <1>8 DEF MercuryShows
  <2>2. MercuryQueued(n)
    BY <1>1, <1>8 DEF MercuryQueued
  <2> QED
    BY <2>1, <2>2
<1>10. MercuryStarts(n)
  <2>0. g.port = m.game.port /\ th.port = m.thread.port
    BY <1>16
  <2>1. /\ \A q \in MercuryPort : m.auto[q] => m.started[q]
        /\ m.game.at \in {"auto", "thread"} => m.started[p]
        /\ m.game.at = "thread" => m.auto[p]
        /\ m.game.at \in {"count", "auto", "thread"} /\ m.thread.at # "none" => m.raced[p]
        /\ m.thread.at = "lock" => m.auto[m.thread.port]
        /\ m.thread.at \in {"none", "poll"} => m.thread.port = 0
        /\ m.thread.port \in MercuryPort
    BY <1>1, <1>2, MercuryTypes DEF MercuryStarts
  <2>2. CASE m.game.at = "auto" /\ g.at = "thread" /\ th.at = m.thread.at
             /\ au[p] /\ \A q \in MercuryPort : q # p => au[q] = m.auto[q]
    BY ONLY p \in MercuryPort, <1>2, <1>8, <2>1, <2>2, <2>0
       DEF MercuryStarts
  <2>3. CASE m.game.at = "thread" /\ g.at = "idle" /\ au = m.auto
             /\ th.at = (IF m.thread.at = "none" THEN "load" ELSE m.thread.at)
    BY ONLY <1>2, <1>8, <2>1, <2>3, <2>0
       DEF MercuryStarts
  <2> QED
    BY <1>16, <2>2, <2>3
<1>11. MercuryOrder(n)
  <2> SUFFICES ASSUME NEW q \in MercuryPort, ~n.raced[q] PROVE MercuryNumbering(n, q)
    BY DEF MercuryOrder
  <2>1. MercuryNumbering(m, q) /\ ~m.raced[q]
    BY <1>1, <1>8 DEF MercuryOrder
  <2>2. CASE m.thread.at = "none" /\ th.at = "load"
    <3>1. MercuryAfter(0) = 1 /\ 0 \in 0..MercuryLimit
      BY MercuryConstants DEF MercuryAfter
    <3>2. m.game.at = "thread" /\ au = m.auto /\ th.port = 0
      BY <1>1, <1>16, <2>2 DEF MercuryStarts
    <3>3. m.started[q] => m.auto[q] /\ m.number[q] = 0 /\ m.count[q] = 1
      BY <1>1, <2>1, <2>2, <3>2 DEF MercuryNumbering, MercuryStarts
    <3> QED
      BY <1>16, <1>8, <2>1, <2>2, <3>1, <3>2, <3>3
      DEF MercuryNumbering, MercuryGoesOn, MercuryBefore, MercuryLoaded, MercuryStored,
          MercuryPast, MercuryPort
  <2>3. CASE th.at = m.thread.at
    BY <1>2, <1>16, <1>8, <2>1, <2>3
      DEF MercuryNumbering, MercuryGoesOn, MercuryBefore, MercuryLoaded, MercuryStored,
          MercuryPast, MercuryPort
  <2> QED
    BY <1>16, <2>2, <2>3
<1>12. MercuryTurn(m, n)
  BY <1>8 DEF MercuryTurn
<1> QED
  BY <1>8, <1>9, <1>10, <1>11, <1>12 DEF MercuryGood

(* What one step of the thread changes, from a port to the next.           *)
MercuryRound(m, n, p, co, th, pr, sh) ==
  /\ n = [auto |-> m.auto, count |-> co, readable |-> m.readable,
          game |-> m.game, thread |-> th, prev_data |-> pr,
          number |-> m.number, raced |-> m.raced, started |-> m.started, shown |-> sh]
  /\ th = [at |-> th.at, port |-> th.port, count |-> th.count, data |-> th.data]
  /\ \/ /\ m.thread.at = "load" /\ th.at = "store" /\ th.port = p
        /\ th.count = [m.thread.count EXCEPT ![p] = m.count[p]] /\ th.data = m.thread.data
        /\ co = m.count /\ pr = m.prev_data /\ sh = m.shown
     \/ /\ m.thread.at = "store" /\ th.at = (IF p = 0 THEN "load" ELSE "poll")
        /\ th.port = 1 - p /\ th.count = m.thread.count /\ th.data = m.thread.data
        /\ co = [m.count EXCEPT ![p] = MercuryCount(m.thread.count[p])]
        /\ pr = m.prev_data /\ sh = m.shown
     \/ /\ m.thread.at = "poll" /\ th.at = "send" /\ th.port = p
        /\ th.count = m.thread.count /\ co = m.count
        /\ th.data = pr /\ pr \in MercuryCells
        /\ (pr = m.prev_data /\ sh = m.shown) \/ sh = pr
     \/ /\ m.thread.at = "send" /\ m.auto[p] /\ th.at = "lock" /\ th.port = p
        /\ th.count = m.thread.count /\ th.data = m.thread.data
        /\ co = m.count /\ pr = m.prev_data /\ sh = m.shown
     \/ /\ m.thread.at = "send" /\ ~m.auto[p] /\ th.at = (IF p = 0 THEN "send" ELSE "load")
        /\ th.port = 1 - p /\ th.count = (IF p = 0 THEN m.thread.count ELSE MercuryBoth(0))
        /\ th.data = (IF p = 0 THEN m.thread.data ELSE 0)
        /\ co = m.count /\ pr = m.prev_data /\ sh = m.shown

(* The steps of the thread that queue nothing.                             *)
MercuryTurns(m, n, p) ==
  \/ m.thread.at = "load" /\ n = [m EXCEPT !.thread.at = "store", !.thread.count[p] = m.count[p]]
  \/ /\ m.thread.at = "store"
     /\ n = [m EXCEPT !.count[p] = MercuryCount(m.thread.count[p]),
                      !.thread.at = IF p = 0 THEN "load" ELSE "poll", !.thread.port = 1 - p]
  \/ /\ m.thread.at = "poll"
     /\ \/ n = [m EXCEPT !.thread.at = "send", !.thread.data = m.prev_data]
        \/ \E state \in MercuryCells :
             n = [m EXCEPT !.thread.at = "send", !.thread.data = state, !.prev_data = state,
                           !.shown = state]
  \/ /\ m.thread.at = "send"
     /\ n = IF m.auto[p] THEN [m EXCEPT !.thread.at = "lock"] ELSE MercurySent(m, p)

(* What the thread of a port that is passed on is.                         *)
LEMMA MercurySentIs ==
  ASSUME NEW m, NEW p,
         m = [auto |-> m.auto, count |-> m.count, readable |-> m.readable,
              game |-> m.game, thread |-> m.thread, prev_data |-> m.prev_data,
              number |-> m.number, raced |-> m.raced, started |-> m.started, shown |-> m.shown]
  PROVE  MercurySent(m, p) =
           [auto |-> m.auto, count |-> m.count, readable |-> m.readable, game |-> m.game,
            thread |-> [at |-> IF p = 0 THEN "send" ELSE "load", port |-> 1 - p,
                        count |-> IF p = 0 THEN m.thread.count ELSE MercuryBoth(0),
                        data |-> IF p = 0 THEN m.thread.data ELSE 0],
            prev_data |-> m.prev_data, number |-> m.number, raced |-> m.raced,
            started |-> m.started, shown |-> m.shown]
<1> DEFINE th == [at |-> IF p = 0 THEN "send" ELSE "load", port |-> 1 - p,
                  count |-> IF p = 0 THEN m.thread.count ELSE MercuryBoth(0),
                  data |-> IF p = 0 THEN m.thread.data ELSE 0]
<1>1. MercurySent(m, p) = [m EXCEPT !.thread = th]
  BY DEF MercurySent
<1> HIDE DEF th
<1>2. MercurySent(m, p) = [auto |-> m.auto, count |-> m.count, readable |-> m.readable,
        game |-> m.game, thread |-> th, prev_data |-> m.prev_data, number |-> m.number,
        raced |-> m.raced, started |-> m.started, shown |-> m.shown]
  BY <1>1
<1> QED
  BY <1>2 DEF th

(* Each of those steps changes only this.                                  *)
LEMMA MercuryRounds ==
  ASSUME NEW m \in MercuryState, NEW n, NEW p, p = m.thread.port, MercuryTurns(m, n, p)
  PROVE  \E co, th, pr, sh : MercuryRound(m, n, p, co, th, pr, sh)
<1>1. m = [auto |-> m.auto, count |-> m.count, readable |-> m.readable,
           game |-> m.game, thread |-> m.thread, prev_data |-> m.prev_data,
           number |-> m.number, raced |-> m.raced, started |-> m.started, shown |-> m.shown]
  BY MercuryShape
<1>2. m.thread = [at |-> m.thread.at, port |-> m.thread.port, count |-> m.thread.count,
                    data |-> m.thread.data]
  BY MercuryShape
<1>3. PICK t, c : t = m.thread /\ c = m.count
  OBVIOUS
<1>4. CASE m.thread.at = "load"
           /\ n = [m EXCEPT !.thread.at = "store", !.thread.count[p] = m.count[p]]
  <2>1. PICK k, th : k = [t.count EXCEPT ![p] = c[p]] /\ th = [t EXCEPT !.at = "store", !.count = k]
    OBVIOUS
  <2>2. n = [m EXCEPT !.thread = th]
    BY ONLY <1>1, <1>2, <1>3, <1>4, <2>1
  <2>3. n = [auto |-> m.auto, count |-> m.count, readable |-> m.readable,
             game |-> m.game, thread |-> th, prev_data |-> m.prev_data,
             number |-> m.number, raced |-> m.raced, started |-> m.started, shown |-> m.shown]
    BY ONLY <1>1, <2>2
  <2>4. /\ th = [at |-> th.at, port |-> th.port, count |-> th.count, data |-> th.data]
        /\ th.at = "store" /\ th.port = m.thread.port /\ th.count = k /\ th.data = m.thread.data
    BY ONLY <1>2, <1>3, <2>1
  <2>5. MercuryRound(m, n, p, m.count, th, m.prev_data, m.shown)
    BY <1>3, <1>4, <2>1, <2>3, <2>4 DEF MercuryRound
  <2> QED
    BY <2>5
<1>5. CASE /\ m.thread.at = "store"
           /\ n = [m EXCEPT !.count[p] = MercuryCount(m.thread.count[p]),
                            !.thread.at = IF p = 0 THEN "load" ELSE "poll", !.thread.port = 1 - p]
  <2>1. PICK at, port, x : at = (IF p = 0 THEN "load" ELSE "poll") /\ port = 1 - p
                           /\ x = MercuryCount(m.thread.count[p])
    OBVIOUS
  <2>2. PICK co, th : co = [c EXCEPT ![p] = x] /\ th = [t EXCEPT !.at = at, !.port = port]
    OBVIOUS
  <2>3. n = [m EXCEPT !.count[p] = x, !.thread.at = at, !.thread.port = port]
    BY <1>5, <2>1
  <2>4. n = [m EXCEPT !.count = co, !.thread = th]
    BY ONLY <1>1, <1>2, <1>3, <2>2, <2>3
  <2>5. n = [auto |-> m.auto, count |-> co, readable |-> m.readable,
             game |-> m.game, thread |-> th, prev_data |-> m.prev_data,
             number |-> m.number, raced |-> m.raced, started |-> m.started, shown |-> m.shown]
    BY ONLY <1>1, <2>4
  <2>6. /\ th = [at |-> th.at, port |-> th.port, count |-> th.count, data |-> th.data]
        /\ th.at = at /\ th.port = port /\ th.count = m.thread.count /\ th.data = m.thread.data
    BY ONLY <1>2, <1>3, <2>2
  <2>7. MercuryRound(m, n, p, co, th, m.prev_data, m.shown)
    BY <1>3, <1>5, <2>1, <2>2, <2>5, <2>6 DEF MercuryRound
  <2> QED
    BY <2>7
<1>6. CASE m.thread.at = "poll" /\ n = [m EXCEPT !.thread.at = "send", !.thread.data = m.prev_data]
  <2>1. PICK th : th = [t EXCEPT !.at = "send", !.data = m.prev_data]
    OBVIOUS
  <2>2. n = [m EXCEPT !.thread = th]
    BY ONLY <1>1, <1>2, <1>3, <1>6, <2>1
  <2>3. n = [auto |-> m.auto, count |-> m.count, readable |-> m.readable,
             game |-> m.game, thread |-> th, prev_data |-> m.prev_data,
             number |-> m.number, raced |-> m.raced, started |-> m.started, shown |-> m.shown]
    BY ONLY <1>1, <2>2
  <2>4. /\ th = [at |-> th.at, port |-> th.port, count |-> th.count, data |-> th.data]
        /\ th.at = "send" /\ th.port = m.thread.port /\ th.count = m.thread.count
        /\ th.data = m.prev_data
    BY ONLY <1>2, <1>3, <2>1
  <2>5. MercuryRound(m, n, p, m.count, th, m.prev_data, m.shown)
    BY <1>6, <2>3, <2>4, MercuryTypes DEF MercuryRound
  <2> QED
    BY <2>5
<1>7. ASSUME m.thread.at = "poll", NEW state \in MercuryCells,
             n = [m EXCEPT !.thread.at = "send", !.thread.data = state, !.prev_data = state,
                           !.shown = state]
      PROVE  \E co, th, pr, sh : MercuryRound(m, n, p, co, th, pr, sh)
  <2>1. PICK th : th = [t EXCEPT !.at = "send", !.data = state]
    OBVIOUS
  <2>2. n = [m EXCEPT !.thread = th, !.prev_data = state, !.shown = state]
    BY ONLY <1>1, <1>2, <1>3, <1>7, <2>1
  <2>3. n = [auto |-> m.auto, count |-> m.count, readable |-> m.readable,
             game |-> m.game, thread |-> th, prev_data |-> state,
             number |-> m.number, raced |-> m.raced, started |-> m.started, shown |-> state]
    BY ONLY <1>1, <2>2
  <2>4. /\ th = [at |-> th.at, port |-> th.port, count |-> th.count, data |-> th.data]
        /\ th.at = "send" /\ th.port = m.thread.port /\ th.count = m.thread.count
        /\ th.data = state
    BY ONLY <1>2, <1>3, <2>1
  <2>5. MercuryRound(m, n, p, m.count, th, state, state)
    BY <1>7, <2>3, <2>4 DEF MercuryRound
  <2> QED
    BY <2>5
<1>8. CASE m.thread.at = "send" /\ m.auto[p] /\ n = [m EXCEPT !.thread.at = "lock"]
  <2>1. PICK th : th = [t EXCEPT !.at = "lock"]
    OBVIOUS
  <2>2. n = [m EXCEPT !.thread = th]
    BY ONLY <1>1, <1>2, <1>3, <1>8, <2>1
  <2>3. n = [auto |-> m.auto, count |-> m.count, readable |-> m.readable,
             game |-> m.game, thread |-> th, prev_data |-> m.prev_data,
             number |-> m.number, raced |-> m.raced, started |-> m.started, shown |-> m.shown]
    BY ONLY <1>1, <2>2
  <2>4. /\ th = [at |-> th.at, port |-> th.port, count |-> th.count, data |-> th.data]
        /\ th.at = "lock" /\ th.port = m.thread.port /\ th.count = m.thread.count
        /\ th.data = m.thread.data
    BY ONLY <1>2, <1>3, <2>1
  <2>5. MercuryRound(m, n, p, m.count, th, m.prev_data, m.shown)
    BY <1>8, <2>3, <2>4 DEF MercuryRound
  <2> QED
    BY <2>5
<1>9. CASE m.thread.at = "send" /\ ~m.auto[p] /\ n = MercurySent(m, p)
  <2>1. PICK th : th = [at |-> IF p = 0 THEN "send" ELSE "load", port |-> 1 - p,
                        count |-> IF p = 0 THEN m.thread.count ELSE MercuryBoth(0),
                        data |-> IF p = 0 THEN m.thread.data ELSE 0]
    OBVIOUS
  <2>2. n = [auto |-> m.auto, count |-> m.count, readable |-> m.readable,
             game |-> m.game, thread |-> th, prev_data |-> m.prev_data,
             number |-> m.number, raced |-> m.raced, started |-> m.started, shown |-> m.shown]
    BY <1>1, <1>9, <2>1, MercurySentIs
  <2>3. /\ th = [at |-> th.at, port |-> th.port, count |-> th.count, data |-> th.data]
        /\ th.at = (IF p = 0 THEN "send" ELSE "load") /\ th.port = 1 - p
        /\ th.count = (IF p = 0 THEN m.thread.count ELSE MercuryBoth(0))
        /\ th.data = (IF p = 0 THEN m.thread.data ELSE 0)
    BY ONLY <2>1
  <2>4. MercuryRound(m, n, p, m.count, th, m.prev_data, m.shown)
    BY <1>9, <2>2, <2>3 DEF MercuryRound
  <2> QED
    BY <2>4
<1> QED
  BY <1>4, <1>5, <1>6, <1>7, <1>8, <1>9 DEF MercuryTurns

(* And keeps the invariant.                                                *)
LEMMA MercuryRoundKeeps ==
  ASSUME NEW m, NEW n, MercuryGood(m), NEW p, p = m.thread.port,
         NEW co, NEW th, NEW pr, NEW sh, MercuryRound(m, n, p, co, th, pr, sh)
  PROVE  MercuryGood(n) /\ MercuryTurn(m, n)
<1>1. m \in MercuryState /\ MercuryShows(m) /\ MercuryQueued(m) /\ MercuryStarts(m) /\ MercuryOrder(m)
  BY DEF MercuryGood
<1>2. p \in MercuryPort /\ 1 - p \in MercuryPort
  BY <1>1, MercuryTypes DEF MercuryPort
<1>3. /\ co \in [MercuryPort -> MercuryByte] /\ th.count \in [MercuryPort -> MercuryByte]
      /\ th.data \in MercuryCells /\ pr \in MercuryCells /\ sh \in MercuryCells
      /\ th.port \in MercuryPort
      /\ th.at \in {"none", "load", "store", "poll", "send", "lock"}
  <2>1. /\ m.count[p] \in MercuryByte /\ MercuryCount(m.thread.count[p]) \in MercuryByte
        /\ MercuryBoth(0) \in [MercuryPort -> MercuryByte] /\ 0 \in MercuryCells
    BY <1>1, <1>2, MercuryTypes, MercuryCounts, MercuryConstants DEF MercuryBoth
  <2>2. co \in [MercuryPort -> MercuryByte] /\ th.count \in [MercuryPort -> MercuryByte]
    <3>1. /\ co = m.count \/ co = [m.count EXCEPT ![p] = MercuryCount(m.thread.count[p])]
          /\ \/ th.count = m.thread.count \/ th.count = MercuryBoth(0)
             \/ th.count = [m.thread.count EXCEPT ![p] = m.count[p]]
      BY DEF MercuryRound
    <3>2. m.count \in [MercuryPort -> MercuryByte] /\ m.thread.count \in [MercuryPort -> MercuryByte]
      BY <1>1, MercuryTypes
    <3> QED
      BY ONLY <1>2, <2>1, <3>1, <3>2
  <2>3. th.data \in MercuryCells /\ pr \in MercuryCells /\ sh \in MercuryCells
    BY <1>1, <2>1, MercuryTypes DEF MercuryRound
  <2>4. th.port \in MercuryPort
    BY <1>2 DEF MercuryRound
  <2>5. th.at \in {"none", "load", "store", "poll", "send", "lock"}
    BY DEF MercuryRound
  <2> QED
    BY <2>2, <2>3, <2>4, <2>5
<1>4. /\ n \in MercuryState
      /\ n.auto = m.auto /\ n.count = co /\ n.readable = m.readable /\ n.game = m.game
      /\ n.thread = th /\ n.prev_data = pr /\ n.number = m.number /\ n.raced = m.raced
      /\ n.started = m.started /\ n.shown = sh
  <2>1. /\ n = [auto |-> m.auto, count |-> co, readable |-> m.readable,
                game |-> m.game, thread |-> th, prev_data |-> pr,
                number |-> m.number, raced |-> m.raced, started |-> m.started, shown |-> sh]
        /\ th = [at |-> th.at, port |-> th.port, count |-> th.count, data |-> th.data]
    BY DEF MercuryRound
  <2>2. PICK g : g = m.game
    OBVIOUS
  <2>3. /\ g = [at |-> g.at, port |-> g.port, cmd |-> g.cmd, count |-> g.count]
        /\ g.at \in {"idle", "dispatch", "count", "auto", "thread"} /\ g.port \in MercuryPort
        /\ g.cmd \in MercuryCommands /\ g.count \in MercuryByte
    BY <1>1, <2>2, MercuryShape, MercuryTypes
  <2>4. PICK au \in [MercuryPort -> BOOLEAN] : au = m.auto
    BY <1>1, MercuryTypes
  <2>5. n = [auto |-> au, count |-> co, readable |-> m.readable,
             game |-> g, thread |-> th, prev_data |-> pr,
             number |-> m.number, raced |-> m.raced, started |-> m.started, shown |-> sh]
    BY <2>1, <2>2, <2>4
  <2> QED
    BY <1>1, <1>3, <2>1, <2>2, <2>3, <2>4, <2>5, MercuryMoves
<1>5. MercuryShows(n) /\ MercuryQueued(n)
  <2>1. MercuryShows(n)
    BY <1>1, <1>4 DEF MercuryShows, MercuryRound
  <2>2. MercuryQueued(n)
    BY <1>1, <1>4 DEF MercuryQueued
  <2> QED
    BY <2>1, <2>2
<1>6. /\ th.at # "none" /\ m.thread.at # "none"
      /\ th.at = "lock" => m.auto[th.port]
      /\ th.at = "poll" => th.port = 0
  BY <1>2 DEF MercuryRound, MercuryPort
<1>7. MercuryStarts(n)
  BY <1>1, <1>4, <1>6 DEF MercuryStarts
<1>8. MercuryOrder(n)
  <2> SUFFICES ASSUME NEW q \in MercuryPort, ~n.raced[q] PROVE MercuryNumbering(n, q)
    BY DEF MercuryOrder
  <2>1. MercuryNumbering(m, q)
    BY <1>1, <1>4 DEF MercuryOrder
  <2>2. CASE ~m.started[q]
    BY <1>4, <1>6, <2>1, <2>2 DEF MercuryNumbering
  <2>3. CASE m.started[q]
    <3>1. MercuryGoesOn(m, q)
      BY <1>6, <2>1, <2>3 DEF MercuryNumbering
    <3>2. MercuryCount(m.number[q]) = MercuryAfter(m.number[q])
          /\ MercuryAfter(m.number[q]) \in 0..MercuryLimit
          /\ MercuryCount(MercuryAfter(m.number[q])) = MercuryAfter(MercuryAfter(m.number[q]))
      BY <3>1, MercuryCounts DEF MercuryGoesOn
    <3>3. MercuryGoesOn(n, q)
      <4>1. m.auto[q] /\ m.number[q] \in 0..MercuryLimit
        BY <3>1 DEF MercuryGoesOn
      <4>2. CASE m.thread.at = "load"
        <5>1. /\ th.at = "store" /\ th.port = p /\ co = m.count
              /\ th.count = [m.thread.count EXCEPT ![p] = m.count[p]]
          BY <4>2 DEF MercuryRound
        <5>2. th.count[p] = m.count[p] /\ (q # p => th.count[q] = m.thread.count[q])
          BY <1>1, <1>2, <5>1, MercuryTypes
        <5>3. n.thread.at = "store" /\ n.thread.port = p
          BY <1>4, <5>1
        <5>4. p \in MercuryPort /\ q \in MercuryPort /\ p = m.thread.port
          BY <1>2
        <5>5. CASE q = p
          <6>1. /\ m.thread.at = "load" /\ m.thread.port = q
                /\ n.thread.at = "store" /\ n.thread.port = q
            BY ONLY <4>2, <5>3, <5>4, <5>5
          <6>2. q <= q /\ ~(q < q) /\ ~(q > q)
            BY ONLY <5>4 DEF MercuryPort
          <6>3. MercuryBefore(m, q)
            BY ONLY <6>1, <6>2 DEF MercuryBefore
          <6>4. ~MercuryBefore(n, q)
            BY ONLY <6>1, <6>2 DEF MercuryBefore
          <6>5. MercuryLoaded(n, q)
            BY ONLY <6>1 DEF MercuryLoaded
          <6>6. ~MercuryStored(n, q)
            BY ONLY <6>1, <6>2 DEF MercuryStored
          <6>7. ~MercuryPast(n, q)
            BY ONLY <6>1 DEF MercuryPast
          <6> QED
            BY <1>4, <3>1, <5>1, <5>2, <5>5, <6>3, <6>4, <6>5, <6>6, <6>7
              DEF MercuryGoesOn
        <5>6. CASE q < p
          <6>1. /\ MercuryStored(m, q) /\ ~MercuryBefore(n, q) /\ ~MercuryLoaded(n, q)
                /\ MercuryStored(n, q) /\ ~MercuryPast(n, q)
            BY ONLY <4>2, <5>3, <5>4, <5>6
               DEF MercuryBefore, MercuryLoaded, MercuryStored, MercuryPast, MercuryPort
          <6> QED
            BY <1>4, <3>1, <5>1, <5>2, <5>4, <5>6, <6>1 DEF MercuryGoesOn, MercuryPort
        <5>7. CASE p < q
          <6>1. /\ MercuryBefore(m, q) /\ MercuryBefore(n, q) /\ ~MercuryLoaded(n, q)
                /\ ~MercuryStored(n, q) /\ ~MercuryPast(n, q)
            BY ONLY <4>2, <5>3, <5>4, <5>7
               DEF MercuryBefore, MercuryLoaded, MercuryStored, MercuryPast, MercuryPort
          <6> QED
            BY <1>4, <3>1, <5>1, <6>1 DEF MercuryGoesOn
        <5> QED
          BY <5>4, <5>5, <5>6, <5>7 DEF MercuryPort
      <4>3. CASE m.thread.at = "store"
        BY <1>1, <1>2, <1>4, <3>1, <3>2, <4>3, MercuryTypes
          DEF MercuryRound, MercuryGoesOn, MercuryBefore, MercuryLoaded, MercuryStored,
              MercuryPast, MercuryPort
      <4>4. CASE m.thread.at = "poll"
        <5>1. th.at = "send" /\ th.port = 0 /\ th.count = m.thread.count /\ co = m.count
          BY <1>1, <4>4 DEF MercuryRound, MercuryStarts
        <5> QED
          BY <1>4, <3>1, <4>4, <5>1
            DEF MercuryGoesOn, MercuryBefore, MercuryLoaded, MercuryStored, MercuryPast,
                MercuryPort
      <4>5. CASE m.thread.at = "send"
        BY <1>2, <1>4, <3>1, <4>1, <4>5
          DEF MercuryRound, MercuryGoesOn, MercuryBefore, MercuryLoaded, MercuryStored,
              MercuryPast, MercuryPort
      <4> QED
        BY <4>2, <4>3, <4>4, <4>5 DEF MercuryRound
    <3> QED
      BY <1>4, <1>6, <2>3, <3>3 DEF MercuryNumbering
  <2> QED
    BY <2>2, <2>3
<1>9. MercuryTurn(m, n)
  BY <1>4 DEF MercuryTurn
<1> QED
  BY <1>4, <1>5, <1>7, <1>8, <1>9 DEF MercuryGood

(* A frame of input is queued or refused, and the thread goes on.          *)
LEMMA MercuryFrameKeeps ==
  ASSUME NEW m, NEW n, MercuryGood(m), NEW p, p = m.thread.port, m.thread.at = "lock",
         NEW e, e = MercuryNumbered(iobuf_write(m, p, "input"), p, m.thread.count[p]),
         n = MercurySent(e, p)
  PROVE  MercuryGood(n) /\ MercuryTurn(m, n)
<1>1. m \in MercuryState /\ MercuryShows(m) /\ MercuryQueued(m) /\ MercuryStarts(m) /\ MercuryOrder(m)
  BY DEF MercuryGood
<1>2. p \in MercuryPort /\ 1 - p \in MercuryPort /\ m.thread.count[p] \in MercuryByte
  BY <1>1, MercuryTypes DEF MercuryPort
<1>3. m.auto[p] /\ m.started[p]
  BY <1>1, <1>2 DEF MercuryStarts
<1>16. PICK f, c : f = MercuryNumbered(iobuf_write(m, p, "input"), p, c) /\ c = m.thread.count[p]
  OBVIOUS
<1>4. PICK r, nu :
        /\ MercuryBuffers(m, r)
        /\ nu = (IF m.raced[p] THEN m.number ELSE [m.number EXCEPT ![p] = m.thread.count[p]])
        /\ e = [auto |-> m.auto, count |-> m.count, readable |-> r,
                 game |-> m.game, thread |-> m.thread, prev_data |-> m.prev_data,
                 number |-> nu, raced |-> m.raced, started |-> m.started, shown |-> m.shown]
  <2>1. "input" \in MercuryFrames
    BY DEF MercuryFrames
  <2> QED
    <3>1. PICK r, nu :
            /\ MercuryBuffers(m, r)
            /\ nu = (IF m.raced[p] THEN m.number ELSE [m.number EXCEPT ![p] = c])
            /\ MercuryNumbered(iobuf_write(m, p, "input"), p, c)
                 = [auto |-> m.auto, count |-> m.count, readable |-> r,
                    game |-> m.game, thread |-> m.thread, prev_data |-> m.prev_data,
                    number |-> nu, raced |-> m.raced, started |-> m.started, shown |-> m.shown]
      <4>1. m \in MercuryState /\ MercuryQueued(m) /\ p \in MercuryPort
            /\ ("input" = "input" => m.started[p])
        BY <1>1, <1>2, <1>3
      <4> QED
        BY ONLY <2>1, <4>1, MercuryFramed
    <3> QED
      BY <1>16, <3>1
<1>5. PICK th : th = [at |-> IF p = 0 THEN "send" ELSE "load", port |-> 1 - p,
                      count |-> IF p = 0 THEN m.thread.count ELSE MercuryBoth(0),
                      data |-> IF p = 0 THEN m.thread.data ELSE 0]
  OBVIOUS
<1>6. n = [auto |-> m.auto, count |-> m.count, readable |-> r,
           game |-> m.game, thread |-> th, prev_data |-> m.prev_data,
           number |-> nu, raced |-> m.raced, started |-> m.started, shown |-> m.shown]
  <2>1. e = [auto |-> m.auto, count |-> m.count, readable |-> r,
             game |-> m.game, thread |-> m.thread, prev_data |-> m.prev_data,
             number |-> nu, raced |-> m.raced, started |-> m.started, shown |-> m.shown]
    BY <1>4
  <2>2. e = [auto |-> e.auto, count |-> e.count, readable |-> e.readable,
             game |-> e.game, thread |-> e.thread, prev_data |-> e.prev_data,
             number |-> e.number, raced |-> e.raced, started |-> e.started, shown |-> e.shown]
    BY ONLY <2>1
  <2>3. MercurySent(e, p) = [auto |-> e.auto, count |-> e.count, readable |-> e.readable,
            game |-> e.game,
            thread |-> [at |-> IF p = 0 THEN "send" ELSE "load", port |-> 1 - p,
                        count |-> IF p = 0 THEN e.thread.count ELSE MercuryBoth(0),
                        data |-> IF p = 0 THEN e.thread.data ELSE 0],
            prev_data |-> e.prev_data, number |-> e.number, raced |-> e.raced,
            started |-> e.started, shown |-> e.shown]
    BY ONLY <2>2, MercurySentIs
  <2>4. e.thread = m.thread
    BY ONLY <2>1
  <2> QED
    BY ONLY <1>5, <2>1, <2>3, <2>4, n = MercurySent(e, p)
<1>7. /\ th = [at |-> th.at, port |-> th.port, count |-> th.count, data |-> th.data]
      /\ th.at = (IF p = 0 THEN "send" ELSE "load") /\ th.port = 1 - p
      /\ th.count = (IF p = 0 THEN m.thread.count ELSE MercuryBoth(0))
      /\ th.data = (IF p = 0 THEN m.thread.data ELSE 0)
  BY ONLY <1>5
<1>8. /\ n.auto = m.auto /\ n.count = m.count /\ n.readable = r /\ n.game = m.game
      /\ n.thread = th /\ n.prev_data = m.prev_data /\ n.number = nu /\ n.raced = m.raced
      /\ n.started = m.started /\ n.shown = m.shown
      /\ n = [auto |-> n.auto, count |-> n.count, readable |-> n.readable,
              game |-> n.game, thread |-> n.thread, prev_data |-> n.prev_data,
              number |-> n.number, raced |-> n.raced, started |-> n.started, shown |-> n.shown]
  BY ONLY <1>6
<1>9. /\ nu \in [MercuryPort -> MercuryByte \cup {-1}]
      /\ m.raced[p] => nu[p] = m.number[p]
      /\ ~m.raced[p] => nu[p] = m.thread.count[p]
      /\ \A q \in MercuryPort : q # p => nu[q] = m.number[q]
  BY <1>1, <1>2, <1>4, MercuryTypes
<1>10. n \in MercuryState
  <2>1. /\ MercuryBoth(0) \in [MercuryPort -> MercuryByte] /\ 0 \in MercuryCells
    BY MercuryConstants DEF MercuryBoth
  <2>2. /\ th.at \in {"none", "load", "store", "poll", "send", "lock"} /\ th.port \in MercuryPort
        /\ th.count \in [MercuryPort -> MercuryByte] /\ th.data \in MercuryCells
    BY ONLY <1>1, <1>2, <1>7, <2>1, MercuryTypes
  <2>3. r \in [MercuryPort -> Seq(MercuryFrames)]
    BY <1>4 DEF MercuryBuffers
  <2>4. n.game = [at |-> n.game.at, port |-> n.game.port, cmd |-> n.game.cmd,
                  count |-> n.game.count]
    <3>1. n.game = m.game
      BY <1>8
    <3>2. m.game = [at |-> m.game.at, port |-> m.game.port, cmd |-> m.game.cmd,
                    count |-> m.game.count]
      BY <1>1, MercuryShape
    <3> QED
      BY ONLY <3>1, <3>2
  <2>5. /\ n.thread = [at |-> n.thread.at, port |-> n.thread.port, count |-> n.thread.count,
                       data |-> n.thread.data]
        /\ n.thread.at \in {"none", "load", "store", "poll", "send", "lock"}
        /\ n.thread.port \in MercuryPort /\ n.thread.count \in [MercuryPort -> MercuryByte]
        /\ n.thread.data \in MercuryCells
    BY ONLY <1>7, <1>8, <2>2
  <2> QED
    <3>1. /\ n.auto \in [MercuryPort -> BOOLEAN] /\ n.count \in [MercuryPort -> MercuryByte]
          /\ n.readable \in [MercuryPort -> Seq(MercuryFrames)]
          /\ n.game.at \in {"idle", "dispatch", "count", "auto", "thread"}
          /\ n.game.port \in MercuryPort /\ n.game.cmd \in MercuryCommands
          /\ n.game.count \in MercuryByte /\ n.prev_data \in MercuryCells
          /\ n.raced \in [MercuryPort -> BOOLEAN] /\ n.started \in [MercuryPort -> BOOLEAN]
          /\ n.shown \in MercuryCells /\ n.number \in [MercuryPort -> MercuryByte \cup {-1}]
      <4>1. m.auto \in [MercuryPort -> BOOLEAN] /\ m.count \in [MercuryPort -> MercuryByte]
        BY ONLY <1>1, MercuryTypes
      <4>2. /\ m.game.at \in {"idle", "dispatch", "count", "auto", "thread"}
            /\ m.game.port \in MercuryPort /\ m.game.cmd \in MercuryCommands
            /\ m.game.count \in MercuryByte
        BY ONLY <1>1, MercuryTypes
      <4>3. /\ m.prev_data \in MercuryCells /\ m.shown \in MercuryCells
            /\ m.raced \in [MercuryPort -> BOOLEAN] /\ m.started \in [MercuryPort -> BOOLEAN]
        BY ONLY <1>1, MercuryTypes
      <4>4. n.auto \in [MercuryPort -> BOOLEAN] /\ n.count \in [MercuryPort -> MercuryByte]
        BY ONLY <1>8, <4>1
      <4>5. PICK g : n.game = g /\ m.game = g
        BY ONLY <1>8
      <4>6. /\ n.game.at \in {"idle", "dispatch", "count", "auto", "thread"}
            /\ n.game.port \in MercuryPort /\ n.game.cmd \in MercuryCommands
            /\ n.game.count \in MercuryByte
        BY ONLY <4>2, <4>5
      <4>7. /\ n.prev_data \in MercuryCells /\ n.shown \in MercuryCells
            /\ n.raced \in [MercuryPort -> BOOLEAN] /\ n.started \in [MercuryPort -> BOOLEAN]
        BY ONLY <1>8, <4>3
      <4>8. /\ n.readable \in [MercuryPort -> Seq(MercuryFrames)]
            /\ n.number \in [MercuryPort -> MercuryByte \cup {-1}]
        BY ONLY <1>8, <1>9, <2>3
      <4> QED
        BY ONLY <4>4, <4>6, <4>7, <4>8
    <3>2. n = [auto |-> n.auto, count |-> n.count, readable |-> n.readable,
             game |-> n.game, thread |-> n.thread, prev_data |-> n.prev_data,
             number |-> n.number, raced |-> n.raced, started |-> n.started, shown |-> n.shown]
      BY ONLY <1>8
    <3> QED
      BY ONLY <2>4, <2>5, <3>1, <3>2, MercuryIsState
<1>11. MercuryShows(n) /\ MercuryQueued(n)
  <2>1. MercuryShows(n)
    <3>1. n.prev_data = m.prev_data /\ n.shown = m.shown /\ n.thread = th
      BY ONLY <1>8
    <3> QED
      BY ONLY <1>1, <1>7, <3>1, m.thread.at = "lock" DEF MercuryShows
  <2>2. MercuryQueued(n)
    <3>1. n.readable = r /\ n.started = m.started
      BY ONLY <1>8
    <3> QED
      BY ONLY <1>4, <3>1 DEF MercuryQueued, MercuryBuffers
  <2> QED
    BY <2>1, <2>2
<1>12. MercuryStarts(n)
  <2>1. /\ n.auto = m.auto /\ n.started = m.started /\ n.game = m.game /\ n.raced = m.raced
        /\ n.thread.at \in {"send", "load"} /\ m.thread.at # "none"
    BY ONLY m.thread.at = "lock", <1>7, <1>8
  <2> QED
    BY ONLY <1>1, <2>1 DEF MercuryStarts
<1>13. ~m.raced[p] => /\ MercuryGoesOn(m, p)
                      /\ nu[p] = MercuryAfter(m.number[p]) /\ nu[p] \in 0..MercuryLimit
                      /\ m.count[p] = MercuryAfter(nu[p])
  <2> SUFFICES ASSUME ~m.raced[p] PROVE /\ MercuryGoesOn(m, p)
                      /\ nu[p] = MercuryAfter(m.number[p]) /\ nu[p] \in 0..MercuryLimit
                      /\ m.count[p] = MercuryAfter(nu[p])
    OBVIOUS
  <2>1. MercuryGoesOn(m, p)
    BY <1>1, <1>2, <1>3 DEF MercuryOrder, MercuryNumbering
  <2>2. MercuryStored(m, p)
    BY <1>2 DEF MercuryStored, MercuryPort
  <2> QED
    BY <1>9, <2>1, <2>2, MercuryCounts DEF MercuryGoesOn
<1>14. MercuryOrder(n)
  <2> SUFFICES ASSUME NEW q \in MercuryPort, ~n.raced[q] PROVE MercuryNumbering(n, q)
    BY DEF MercuryOrder
  <2>1. MercuryNumbering(m, q) /\ ~m.raced[q]
    <3>1. n.raced = m.raced
      BY ONLY <1>8
    <3> QED
      BY ONLY <1>1, <3>1, ~n.raced[q] DEF MercuryOrder
  <2>2. CASE q = p
    <3>1. n.thread.at = (IF p = 0 THEN "send" ELSE "load") /\ n.thread.port = 1 - p
      BY ONLY <1>7, <1>8
    <3>2. /\ MercuryBefore(n, q) \/ MercuryPast(n, q)
          /\ ~MercuryLoaded(n, q) /\ ~MercuryStored(n, q)
      BY ONLY <1>2, <2>2, <3>1
         DEF MercuryBefore, MercuryLoaded, MercuryStored, MercuryPast, MercuryPort
    <3>3. MercuryGoesOn(n, q)
      <4>1. n.auto = m.auto /\ n.count = m.count /\ n.number = nu
        BY ONLY <1>8
      <4> QED
        BY ONLY <1>3, <1>13, <2>1, <2>2, <3>2, <4>1 DEF MercuryGoesOn
    <3>4. n.started[q] /\ n.thread.at # "none"
      BY ONLY <1>3, <1>8, <2>2, <3>1
    <3> QED
      BY ONLY <3>3, <3>4 DEF MercuryNumbering
  <2>3. CASE q # p /\ ~m.started[q]
    <3>1. /\ n.started = m.started /\ n.number[q] = m.number[q]
          /\ n.thread.at # "none"
      BY ONLY <1>7, <1>8, <1>9, <2>3
    <3> QED
      BY ONLY <2>1, <2>3, <3>1 DEF MercuryNumbering
  <2>4. CASE q # p /\ m.started[q]
    <3>1. MercuryGoesOn(m, q)
      BY ONLY <2>1, <2>4, m.thread.at = "lock" DEF MercuryNumbering
    <3>2. n.thread.at = (IF p = 0 THEN "send" ELSE "load") /\ n.thread.port = 1 - p
          /\ q \in MercuryPort /\ p = m.thread.port /\ m.thread.at = "lock"
      BY ONLY <1>7, <1>8, p = m.thread.port, m.thread.at = "lock"
    <3>3. ASSUME p = 0 PROVE MercuryGoesOn(n, q)
      <4>1. q = 1
        BY ONLY <2>4, <3>2, <3>3 DEF MercuryPort
      <4>2. /\ m.thread.at = "lock" /\ m.thread.port = 0
            /\ n.thread.at = "send" /\ n.thread.port = 1
        BY ONLY <3>2, <3>3
      <4>3. MercuryStored(m, q)
        BY ONLY <4>1, <4>2 DEF MercuryStored
      <4>4. MercuryStored(n, q)
        BY ONLY <4>1, <4>2 DEF MercuryStored
      <4>5. ~MercuryBefore(n, q)
        BY ONLY <4>2 DEF MercuryBefore
      <4>6. ~MercuryPast(n, q)
        BY ONLY <4>1, <4>2 DEF MercuryPast
      <4>7. /\ n.thread.count = m.thread.count /\ n.number[q] = m.number[q]
            /\ n.count = m.count /\ n.auto = m.auto
        BY ONLY <1>7, <1>8, <1>9, <2>4, <3>2, <3>3
      <4> QED
        BY ONLY <3>1, <4>3, <4>4, <4>5, <4>6, <4>7 DEF MercuryGoesOn
    <3>4. ASSUME p = 1 PROVE MercuryGoesOn(n, q)
      <4>1. q = 0
        BY ONLY <2>4, <3>2, <3>4 DEF MercuryPort
      <4>2. /\ m.thread.at = "lock" /\ m.thread.port = 1
            /\ n.thread.at = "load" /\ n.thread.port = 0
        BY ONLY <3>2, <3>4
      <4>3. MercuryPast(m, q)
        BY ONLY <4>1, <4>2 DEF MercuryPast
      <4>4. ~MercuryLoaded(n, q)
        BY ONLY <4>2 DEF MercuryLoaded
      <4>5. ~MercuryStored(n, q)
        BY ONLY <4>1, <4>2 DEF MercuryStored
      <4>6. n.number[q] = m.number[q] /\ n.count = m.count /\ n.auto = m.auto
        BY ONLY <1>8, <1>9, <2>4, <3>2
      <4> QED
        BY ONLY <3>1, <4>3, <4>4, <4>5, <4>6 DEF MercuryGoesOn
    <3>5. MercuryGoesOn(n, q)
      BY <1>2, <3>3, <3>4 DEF MercuryPort
    <3>6. n.started = m.started /\ n.thread.at # "none"
      BY ONLY <1>8, <3>2
    <3> QED
      BY ONLY <2>4, <3>5, <3>6 DEF MercuryNumbering
  <2> QED
    BY <2>2, <2>3, <2>4
<1>15. MercuryTurn(m, n)
  <2>1. n.number = nu /\ n.raced = m.raced
    BY ONLY <1>8
  <2> QED
    BY ONLY <1>9, <1>13, <2>1 DEF MercuryTurn
<1> QED
  BY <1>10, <1>11, <1>12, <1>14, <1>15 DEF MercuryGood

(* Every step of the game and of the thread keeps it, and numbers the      *)
(* frames in turn.                                                         *)
LEMMA MercuryKeepsInv ==
  MercuryInv /\ [MercuryNext]_mercury => MercuryInv' /\ MercuryTurn(mercury, mercury')
<1> SUFFICES ASSUME MercuryInv, [MercuryNext]_mercury
             PROVE  MercuryGood(mercury') /\ MercuryTurn(mercury, mercury')
  BY DEF MercuryInv
<1>1. MercuryGood(mercury)
  BY DEF MercuryInv
<1>2. CASE UNCHANGED mercury
  BY <1>1, <1>2 DEF MercuryTurn
<1>3. CASE \/ \E p \in MercuryPort : MercuryRead(p)
           \/ \E p \in MercuryPort, cmd \in MercuryQueries \cup {"BEGIN_WRITE", "START_AUTO_SCAN"} :
                MercuryWrite(p, cmd)
           \/ touch_req_dispatch
  BY <1>3, MercuryGameKeeps
<1>4. CASE touch_handle_start_auto_scan
  <2>1. PICK p : p = mercury.game.port
    OBVIOUS
  <2>2. CASE mercury.game.at = "dispatch"
    BY <1>1, <1>4, <2>1, <2>2, MercuryReadsCount DEF touch_handle_start_auto_scan
  <2>3. CASE mercury.game.at = "count"
    BY <1>1, <1>4, <2>1, <2>3, MercuryStoresCount
      DEF touch_handle_start_auto_scan, MercuryAnswers
  <2>4. CASE mercury.game.at = "auto"
    BY <1>1, <1>4, <2>1, <2>4, MercuryEndsStart
      DEF touch_handle_start_auto_scan, MercuryEnds
  <2> QED
    BY <1>4, <2>2, <2>3, <2>4 DEF touch_handle_start_auto_scan
<1>5. CASE mercury_io_touch_start
  BY <1>1, <1>5, MercuryEndsStart DEF mercury_io_touch_start, MercuryEnds
<1>6. CASE MercuryNumbers \/ MercuryPoll \/ MercurySend
  <2>1. PICK p : p = mercury.thread.port
    OBVIOUS
  <2>2. CASE MercuryTurns(mercury, mercury', p)
    <3>1. mercury \in MercuryState
      BY <1>1 DEF MercuryGood
    <3>2. PICK co, th, pr, sh : MercuryRound(mercury, mercury', p, co, th, pr, sh)
      BY <2>1, <2>2, <3>1, MercuryRounds
    <3> QED
      BY <1>1, <2>1, <3>2, MercuryRoundKeeps
  <2>3. CASE /\ mercury.thread.at = "lock"
             /\ mercury' = MercurySent(MercuryNumbered(iobuf_write(mercury, p, "input"), p,
                                                       mercury.thread.count[p]), p)
    BY <1>1, <2>1, <2>3, MercuryFrameKeeps
  <2>4. MercuryNumbers \/ MercuryPoll => MercuryTurns(mercury, mercury', p)
    BY <2>1 DEF MercuryNumbers, MercuryPoll, MercuryTurns
  <2> QED
    BY <1>6, <2>1, <2>2, <2>3, <2>4 DEF MercurySend, MercuryTurns
<1> QED
  BY <1>2, <1>3, <1>4, <1>5, <1>6 DEF MercuryNext

(* For any cells, queries, limit below the width of the counter and room:  *)
(* no buffer is overrun, no input comes before the answer to the start,    *)
(* what is repeated in the background is what was shown last, and the      *)
(* frames of a port that was started before the thread are numbered in     *)
(* turn.                                                                   *)
THEOREM RingIsRight == MercurySpec => MercuryIsRight
<1>1. MercuryInv => MercuryTypeOK /\ MercuryStartFirst /\ MercuryFrozen
  <2> SUFFICES ASSUME MercuryInv PROVE MercuryTypeOK /\ MercuryStartFirst /\ MercuryFrozen
    OBVIOUS
  <2>1. mercury \in MercuryState /\ MercuryShows(mercury) /\ MercuryQueued(mercury)
    BY DEF MercuryInv, MercuryGood
  <2>2. MercuryTypeOK
    BY <2>1, MercuryTypes DEF MercuryTypeOK, MercuryQueued, MercuryByte
  <2>3. MercuryStartFirst
    BY <2>1, MercuryTypes DEF MercuryStartFirst, MercuryQueued
  <2>4. MercuryFrozen
    BY <2>1 DEF MercuryFrozen, MercuryShows
  <2> QED
    BY <2>2, <2>3, <2>4
<1>2. MercuryInv /\ [MercuryNext]_mercury =>
        [\A p \in MercuryPort :
           mercury'.number[p] # mercury.number[p] /\ mercury.number[p] >= 0
             /\ ~mercury'.raced[p] =>
             mercury'.number[p] = IF mercury.number[p] = MercuryLimit THEN 0
                                  ELSE mercury.number[p] + 1]_mercury
  BY MercuryKeepsInv DEF MercuryTurn, MercuryAfter
<1> QED
  BY <1>1, <1>2, MercuryInitInv, MercuryKeepsInv, PTL
    DEF MercurySpec, MercuryIsRight, MercuryInOrder

-----------------------------------------------------------------------------
(* Project DIVA: the buttons, the slides and the touchscreen.              *)

DivaSpec == DivaInit /\ [][DivaNext]_diva

(* The statuses of a report.                                               *)
DivaStatus == {"none", "DOWN", "STREAM", "LIFTOFF"}

(* The fields of the state.                                                *)
DivaState ==
  [unit : {"buttons", "slides", "touch"}, mode : {"keyboard", "dinput", "xinput"},
   screen : {"mouse", "wintouch"}, thread : {"none", "run", "stop"},
   prev : SUBSET DivaKeys, drop : 0..DivaDrop, since : 0..DivaMax + 1,
   keys : SUBSET DivaKeys, same : 0..DivaLong, seen : BOOLEAN,
   held : SUBSET {"l", "r"}, state : SUBSET {"l", "r"},
   left : -DivaDelay..DivaCells, right : 0..DivaCells + DivaDelay - 1, lit : SUBSET Int,
   finger : BOOLEAN, status : DivaStatus, touch : BOOLEAN,
   at : {"top", "forget", "lift", "idle", "report"}, sent : DivaStatus,
   shows : BOOLEAN, fresh : BOOLEAN, whole : BOOLEAN]

(* How long the keys that are held can still be kept from the game: while  *)
(* they are not those that were looked at last, a second press may follow  *)
(* the polls that are dropped now; afterwards none does.                   *)
DivaButton(d) ==
  /\ d.keys # d.prev => d.same + d.drop <= DivaDrop
  /\ d.keys = d.prev /\ d.drop > 0 => d.same + d.drop < DivaLong
  /\ d.keys = d.prev /\ d.drop = 0 /\ d.same = DivaLong => d.seen \/ d.keys = {}
  /\ d.seen => d.keys # {} /\ d.keys = d.prev /\ d.drop = 0

(* With the mouse the thread knows what its reports show.                  *)
DivaKnows(d) == d.screen = "mouse" => d.at = "top" /\ d.shows = d.touch

(* After a finger was lifted nothing but that is left to report, and not   *)
(* even that by an update that began then.                                 *)
DivaLifted(d) ==
  d.screen = "wintouch" /\ ~d.finger =>
    /\ d.status \in {"LIFTOFF", "none"}
    /\ d.fresh /\ d.at \in {"lift", "report"} => d.status = "none"
    /\ d.whole => d.sent = "none"

(* The invariant, of the state that a step leaves.                         *)
DivaGood(d) == d \in DivaState /\ DivaButton(d) /\ DivaKnows(d) /\ DivaLifted(d)

(* So it is for the state.                                                 *)
DivaInv == DivaGood(diva)

(* What is assumed of the constants, and the middle of the slider.         *)
LEMMA DivaConstants ==
  /\ DivaDrop \in Nat \ {0} /\ DivaMin \in Nat \ {0} /\ DivaMax \in Nat
  /\ DivaDelay \in Nat \ {0} /\ DivaCells \in Nat \ {0}
  /\ DivaLong \in Nat /\ DivaLong = 2 * DivaDrop + 2
  /\ DivaMiddle \in 1..DivaCells /\ DivaMiddle < DivaCells
<1>1. DivaDrop \in Nat \ {0} /\ DivaLong \in Nat /\ DivaLong = 2 * DivaDrop + 2
  BY DivaAssumption DEF DivaAssumption, DivaLong
<1>2. DivaCells \in Nat \ {0} /\ DivaCells % 2 = 0
  BY DivaAssumption DEF DivaAssumption
<1>3. DivaMiddle \in 1..DivaCells /\ DivaMiddle < DivaCells
  BY ONLY <1>2 DEF DivaMiddle
<1> QED
  BY <1>1, <1>3, DivaAssumption DEF DivaAssumption

(* Nothing is held, pressed or touched.                                    *)
LEMMA DivaInitInv == DivaInit => DivaInv
<1> SUFFICES ASSUME DivaInit PROVE DivaGood(diva)
  BY DEF DivaInv
<1>1. diva \in DivaState
  BY DivaConstants DEF DivaInit, DivaState, DivaStatus
<1>2. DivaButton(diva) /\ DivaKnows(diva) /\ DivaLifted(diva)
  BY DivaConstants DEF DivaInit, DivaButton, DivaKnows, DivaLifted
<1> QED
  BY <1>1, <1>2 DEF DivaGood

(* A poll of a button changes only these fields.                           *)
DivaPolled(d, keys, n) ==
  n = [d EXCEPT !.drop = n.drop, !.prev = n.prev, !.since = n.since, !.keys = keys,
                !.same = n.same, !.seen = n.seen]

(* The polls for which the keys were the same.                             *)
DivaStays(d, keys) == IF keys # d.keys THEN 1 ELSE IF d.same < DivaLong THEN d.same + 1 ELSE d.same

(* A poll that is dropped.                                                 *)
LEMMA DivaDrops ==
  ASSUME NEW d \in DivaState, NEW keys \in SUBSET DivaKeys, d.drop > 0,
         NEW n, n = diva_io_set_game_button(d, keys)
  PROVE  /\ DivaPolled(d, keys, n) /\ n.drop = d.drop - 1 /\ n.prev = d.prev
         /\ n.since = d.since /\ n.same = DivaStays(d, keys) /\ n.seen = FALSE
<1>1. n = [d EXCEPT !.seen = FALSE, !.keys = keys, !.same = DivaStays(d, keys),
                    !.drop = d.drop - 1]
  BY DEF diva_io_set_game_button, DivaSeen, DivaState, DivaStays
<1> QED
  BY ONLY <1>1, d \in DivaState DEF DivaPolled, DivaState

(* A poll that looks at the keys: a press drops the next ones.             *)
DivaPressed(d, keys, n) ==
  /\ DivaPolled(d, keys, n) /\ n.prev = keys /\ n.same = DivaStays(d, keys)
  /\ \/ /\ DivaJoins(d.prev, keys) \/ DivaRolls(d.prev, keys)
        /\ n.drop = DivaDrop /\ n.since = 0 /\ n.seen = FALSE
     \/ /\ n.drop = 0 /\ n.seen = (keys # {})
        /\ n.since \in {0, d.since}
        /\ DivaRolls(d.prev, keys) => n.since \in DivaMin..DivaMax

(* It changes these fields so.                                             *)
LEMMA DivaPresses ==
  ASSUME NEW d \in DivaState, NEW keys \in SUBSET DivaKeys, d.drop = 0,
         NEW n, n = diva_io_set_game_button(d, keys)
  PROVE  DivaPressed(d, keys, n)
<1> DEFINE since == IF keys # {} /\ d.prev = {} THEN 0 ELSE d.since
           presses == DivaJoins(d.prev, keys) \/ DivaRolls(d.prev, keys)
           taps == presses /\ ~(TRUE /\ since \in DivaMin..DivaMax)
           drop == IF taps THEN DivaDrop ELSE 0
           after == IF taps THEN 0 ELSE since
<1>1. n = [d EXCEPT !.seen = keys # {} /\ drop = 0, !.keys = keys, !.same = DivaStays(d, keys),
                    !.drop = drop, !.prev = keys, !.since = after]
  BY DEF diva_io_set_game_button, DivaPress, DivaSeen, DivaState, DivaStays
<1>2. taps => presses /\ drop = DivaDrop /\ after = 0 /\ drop # 0
  BY DivaConstants
<1>3. ~taps => /\ drop = 0 /\ after \in {0, d.since}
               /\ DivaRolls(d.prev, keys) => after \in DivaMin..DivaMax
  OBVIOUS
<1> HIDE DEF drop, after, taps, since, presses
<1>4. /\ DivaPolled(d, keys, n) /\ n.prev = keys /\ n.same = DivaStays(d, keys)
      /\ n.drop = drop /\ n.since = after /\ n.seen = (keys # {} /\ drop = 0)
  BY ONLY <1>1, d \in DivaState DEF DivaPolled, DivaState
<1> QED
  BY <1>2, <1>3, <1>4 DEF presses, DivaPressed

(* A press takes other keys than those that were looked at last.           *)
LEMMA DivaPressesDiffer ==
  ASSUME NEW prev, NEW keys, DivaJoins(prev, keys) \/ DivaRolls(prev, keys)
  PROVE  prev # keys
<1>1. CASE DivaJoins(prev, keys)
  BY <1>1 DEF DivaJoins
<1>2. CASE DivaRolls(prev, keys)
  <2>1. "primary" # "secondary"
    OBVIOUS
  <2>2. {"primary"} # {"secondary"}
    BY <2>1
  <2> QED
    BY <1>2, <2>2 DEF DivaRolls
<1> QED
  BY <1>1, <1>2

(* The poll of a button keeps the invariant, and a key that takes over     *)
(* from the other without a release does so in time.                       *)
LEMMA DivaPollKeeps ==
  ASSUME NEW d, DivaGood(d), NEW keys \in SUBSET DivaKeys,
         NEW n, n = diva_io_set_game_button(d, keys)
  PROVE  /\ DivaGood(n)
         /\ d.seen /\ n.seen /\ DivaRolls(d.keys, keys) => n.since \in DivaMin..DivaMax
         /\ DivaPolled(d, keys, n)
<1>1. d \in DivaState /\ DivaButton(d) /\ DivaKnows(d) /\ DivaLifted(d)
  BY DEF DivaGood
<1>2. /\ d.drop \in 0..DivaDrop /\ d.since \in 0..DivaMax + 1 /\ d.same \in 0..DivaLong
      /\ d.prev \in SUBSET DivaKeys /\ d.keys \in SUBSET DivaKeys /\ d.seen \in BOOLEAN
  BY ONLY <1>1 DEF DivaState
<1>3. DivaStays(d, keys) \in 1..DivaLong
  BY ONLY <1>2, DivaConstants DEF DivaStays
<1>4. d.drop > 0 \/ d.drop = 0
  BY ONLY <1>2, DivaConstants
<1>5. /\ DivaPolled(d, keys, n) /\ n.same = DivaStays(d, keys)
      /\ \/ /\ d.drop > 0 /\ n.drop = d.drop - 1 /\ n.prev = d.prev /\ n.since = d.since
            /\ n.seen = FALSE
         \/ /\ d.drop = 0 /\ n.prev = keys /\ d.prev # keys
            /\ n.drop = DivaDrop /\ n.since = 0 /\ n.seen = FALSE
         \/ /\ d.drop = 0 /\ n.prev = keys /\ n.drop = 0 /\ n.seen = (keys # {})
            /\ n.since \in {0, d.since}
            /\ DivaRolls(d.prev, keys) => n.since \in DivaMin..DivaMax
  <2>1. CASE d.drop > 0
    <3>1. /\ DivaPolled(d, keys, n) /\ n.drop = d.drop - 1 /\ n.prev = d.prev
          /\ n.since = d.since /\ n.same = DivaStays(d, keys) /\ n.seen = FALSE
      BY <1>1, <2>1, DivaDrops
    <3> QED
      BY ONLY <2>1, <3>1
  <2>2. CASE d.drop = 0
    <3>1. /\ DivaPolled(d, keys, n) /\ n.prev = keys /\ n.same = DivaStays(d, keys)
          /\ \/ /\ DivaJoins(d.prev, keys) \/ DivaRolls(d.prev, keys)
                /\ n.drop = DivaDrop /\ n.since = 0 /\ n.seen = FALSE
             \/ /\ n.drop = 0 /\ n.seen = (keys # {})
                /\ n.since \in {0, d.since}
                /\ DivaRolls(d.prev, keys) => n.since \in DivaMin..DivaMax
      <4>1. DivaPressed(d, keys, n)
        BY <1>1, <2>2, DivaPresses
      <4> QED
        BY ONLY <4>1, Zenon DEF DivaPressed
    <3>2. DivaJoins(d.prev, keys) \/ DivaRolls(d.prev, keys) => d.prev # keys
      BY ONLY DivaPressesDiffer
    <3> QED
      BY ONLY <2>2, <3>1, <3>2, Zenon
  <2> QED
    BY ONLY <1>4, <2>1, <2>2
<1>6. /\ n.keys = keys /\ n.screen = d.screen /\ n.at = d.at /\ n.shows = d.shows
      /\ n.touch = d.touch /\ n.finger = d.finger /\ n.status = d.status /\ n.fresh = d.fresh
      /\ n.whole = d.whole /\ n.sent = d.sent
  BY ONLY <1>1, <1>5 DEF DivaPolled, DivaState
<1>7. n \in DivaState
  <2>1. /\ n.drop \in 0..DivaDrop /\ n.prev \in SUBSET DivaKeys /\ n.since \in 0..DivaMax + 1
        /\ n.same \in 0..DivaLong /\ n.seen \in BOOLEAN
    <3>1. n.drop \in 0..DivaDrop /\ n.since \in 0..DivaMax + 1 /\ n.same \in 0..DivaLong
      BY ONLY <1>2, <1>3, <1>5, DivaConstants
    <3>2. n.prev \in SUBSET DivaKeys /\ n.seen \in BOOLEAN
      BY ONLY <1>2, <1>5
    <3> QED
      BY ONLY <3>1, <3>2
  <2> DEFINE dr == n.drop
             pr == n.prev
             si == n.since
             sa == n.same
             se == n.seen
  <2>2. n = [d EXCEPT !.drop = dr, !.prev = pr, !.since = si, !.keys = keys,
                      !.same = sa, !.seen = se]
    BY <1>5 DEF DivaPolled
  <2>3. /\ dr \in 0..DivaDrop /\ pr \in SUBSET DivaKeys /\ si \in 0..DivaMax + 1
        /\ sa \in 0..DivaLong /\ se \in BOOLEAN
    BY ONLY <2>1
  <2> HIDE DEF dr, pr, si, sa, se
  <2> QED
    BY ONLY <1>1, <2>2, <2>3 DEF DivaState
<1>8. DivaButton(n)
  <2>1. d.same \in Int /\ d.drop \in Int /\ DivaDrop \in Int /\ DivaDrop > 0
        /\ DivaLong = 2 * DivaDrop + 2 /\ DivaLong \in Int /\ d.drop >= 0 /\ d.drop <= DivaDrop
        /\ d.same >= 0 /\ d.same <= DivaLong
    BY ONLY <1>2, DivaConstants
  <2>2. n.same = DivaStays(d, keys) /\ n.keys = keys
    BY <1>5, <1>6
  <2>3. CASE /\ d.drop > 0 /\ n.drop = d.drop - 1 /\ n.prev = d.prev /\ n.seen = FALSE
    BY ONLY <1>1, <2>1, <2>2, <2>3 DEF DivaButton, DivaStays
  <2>4. CASE /\ d.drop = 0 /\ n.prev = keys /\ d.prev # keys /\ n.drop = DivaDrop
             /\ n.seen = FALSE
    BY ONLY <1>1, <2>1, <2>2, <2>4 DEF DivaButton, DivaStays
  <2>5. CASE d.drop = 0 /\ n.prev = keys /\ n.drop = 0 /\ n.seen = (keys # {})
    <3>1. n.seen \/ n.keys = {}
      BY ONLY <2>2, <2>5
    <3>2. n.seen => n.keys # {}
      BY ONLY <2>2, <2>5
    <3> QED
      BY ONLY <2>2, <2>5, <3>1, <3>2 DEF DivaButton
  <2> QED
    BY ONLY <1>5, <2>3, <2>4, <2>5
<1>9. DivaKnows(n) /\ DivaLifted(n)
  BY ONLY <1>1, <1>6 DEF DivaKnows, DivaLifted
<1>10. d.seen /\ n.seen /\ DivaRolls(d.keys, keys) => n.since \in DivaMin..DivaMax
  BY ONLY <1>1, <1>5 DEF DivaButton
<1> QED
  BY <1>5, <1>7, <1>8, <1>9, <1>10 DEF DivaGood

(* A step of the slides goes on by one cell, or starts again past the end. *)
DivaSlid(d, n) ==
  /\ n = [d EXCEPT !.lit = n.lit, !.left = n.left, !.right = n.right]
  /\ d.mode = "keyboard" /\ d.held # {} /\ n.right # d.right
       => n.right = (IF d.right + 1 = DivaCells + DivaDelay THEN DivaMiddle ELSE d.right + 1)
  /\ d.mode = "keyboard" /\ d.held # {} /\ n.left # d.left
       => n.left = (IF d.left = -DivaDelay THEN DivaMiddle - 1 ELSE d.left - 1)

(* The thread of the slides does so, and keeps the invariant.              *)
LEMMA DivaSlideKeeps ==
  ASSUME NEW d, DivaGood(d), NEW late \in BOOLEAN,
         NEW n, n = diva_io_slider_thread_proc(d, late)
  PROVE  DivaGood(n) /\ DivaSlid(d, n)
<1>1. d \in DivaState /\ DivaButton(d) /\ DivaKnows(d) /\ DivaLifted(d)
  BY DEF DivaGood
<1>2. d.left \in -DivaDelay..DivaCells /\ d.right \in 0..DivaCells + DivaDelay - 1
  BY ONLY <1>1 DEF DivaState
<1> DEFINE auto == diva_kb_get_auto_status(d)
           right == IF ~late THEN d.right
                    ELSE IF d.right + 1 >= DivaCells + DivaDelay THEN DivaMiddle ELSE d.right + 1
           left == IF ~late THEN d.left
                   ELSE IF d.left - 1 < -DivaDelay THEN DivaMiddle - 1 ELSE d.left - 1
           lit == {c \in 0..DivaCells - 1 : \/ "l" \in auto /\ c = left
                                            \/ "r" \in auto /\ c = right}
           l == IF auto = {} THEN DivaMiddle - 1 ELSE left
           r == IF auto = {} THEN DivaMiddle ELSE right
<1>3. n = [d EXCEPT !.lit = lit, !.left = l, !.right = r]
  BY DEF diva_io_slider_thread_proc, DivaSlide
<1>4. lit \in SUBSET Int
  OBVIOUS
<1>5. /\ right \in 0..DivaCells + DivaDelay - 1 /\ left \in -DivaDelay..DivaCells
      /\ right # d.right => right = (IF d.right + 1 = DivaCells + DivaDelay THEN DivaMiddle
                                     ELSE d.right + 1)
      /\ left # d.left => left = (IF d.left = -DivaDelay THEN DivaMiddle - 1 ELSE d.left - 1)
  BY ONLY <1>2, DivaConstants
<1>6. d.mode = "keyboard" => auto = d.held
  BY DEF diva_kb_get_auto_status
<1> HIDE DEF auto, right, left, lit
<1>7. r \in 0..DivaCells + DivaDelay - 1 /\ l \in -DivaDelay..DivaCells
  BY ONLY <1>5, DivaConstants
<1>8. auto # {} => r = right /\ l = left
  OBVIOUS
<1> HIDE DEF l, r
<1>9. n.lit = lit /\ n.left = l /\ n.right = r
  BY ONLY <1>1, <1>3 DEF DivaState
<1>10. n = [d EXCEPT !.lit = n.lit, !.left = n.left, !.right = n.right]
  BY ONLY <1>3, <1>9
<1>11. n \in DivaState
  BY ONLY <1>1, <1>3, <1>4, <1>7 DEF DivaState
<1>12. DivaButton(n) /\ DivaKnows(n) /\ DivaLifted(n)
  BY ONLY <1>1, <1>3 DEF DivaButton, DivaKnows, DivaLifted, DivaState
<1>13. DivaSlid(d, n)
  BY <1>5, <1>6, <1>8, <1>9, <1>10 DEF DivaSlid
<1> QED
  BY <1>11, <1>12, <1>13 DEF DivaGood

(* A report shows what its status says.                                    *)
DivaReported(d, status, n) ==
  /\ n \in DivaState
  /\ n = [d EXCEPT !.sent = status, !.whole = d.fresh, !.shows = n.shows]
  /\ status \in {"DOWN", "STREAM"} => n.shows = TRUE
  /\ status = "LIFTOFF" => n.shows = FALSE
  /\ status = "none" => n.shows = d.shows

(* So it is with every report.                                             *)
LEMMA DivaReportIs ==
  ASSUME NEW d \in DivaState, NEW status \in DivaStatus
  PROVE  DivaReported(d, status, DivaReports(d, status))
<1> DEFINE n == DivaReports(d, status)
<1>1. PICK shows : shows = CASE status \in {"DOWN", "STREAM"} -> TRUE
                            [] status = "LIFTOFF" -> FALSE
                            [] status = "none" -> d.shows
  OBVIOUS
<1>2. n = [d EXCEPT !.sent = status, !.whole = d.fresh, !.shows = shows]
  BY <1>1 DEF DivaReports, DivaState
<1> HIDE DEF n
<1>3. d.shows \in BOOLEAN /\ d.fresh \in BOOLEAN
  BY DEF DivaState
<1>4. /\ status \in {"DOWN", "STREAM"} => shows = TRUE
      /\ status = "LIFTOFF" => shows = FALSE
      /\ status = "none" => shows = d.shows
  BY ONLY <1>1
<1>5. shows \in BOOLEAN
  BY ONLY <1>3, <1>4, status \in DivaStatus DEF DivaStatus
<1>6. n.shows = shows
  BY ONLY <1>2, d \in DivaState DEF DivaState
<1>7. n \in DivaState
  BY ONLY <1>2, <1>3, <1>5, d \in DivaState, status \in DivaStatus DEF DivaState
<1>8. DivaReported(d, status, n)
  BY <1>2, <1>4, <1>6, <1>7 DEF DivaReported
<1> QED
  BY <1>8 DEF n

(* An update by mouse.                                                     *)
LEMMA DivaMouseKeeps ==
  ASSUME NEW d, DivaGood(d), d.screen = "mouse", NEW known \in BOOLEAN,
         NEW n, n = diva_mouse_update(d, known)
  PROVE  /\ DivaGood(n) /\ n.keys = d.keys /\ n.same = d.same /\ n.seen = d.seen
         /\ n.left = d.left /\ n.right = d.right /\ n.screen = d.screen
<1>1. d \in DivaState /\ DivaButton(d) /\ DivaKnows(d) /\ DivaLifted(d)
  BY DEF DivaGood
<1>2. CASE n = d
  BY <1>2
<1>3. CASE n = DivaClick(d)
  <2>1. PICK status : status = CASE d.finger /\ ~d.touch -> "DOWN"
                                 [] d.finger /\ d.touch -> "STREAM"
                                 [] ~d.finger /\ d.touch -> "LIFTOFF"
                                 [] OTHER -> "none"
    OBVIOUS
  <2>2. d.finger \in BOOLEAN /\ d.touch \in BOOLEAN /\ d.shows = d.touch /\ d.at = "top"
    BY ONLY <1>1, d.screen = "mouse" DEF DivaState, DivaKnows
  <2>3. /\ status \in DivaStatus
        /\ status \in {"DOWN", "STREAM"} => d.finger
        /\ status = "LIFTOFF" => ~d.finger
        /\ status = "none" => ~d.finger /\ ~d.touch
    BY ONLY <2>1, <2>2 DEF DivaStatus
  <2>4. PICK e : e = [d EXCEPT !.touch = d.finger, !.status = status]
    OBVIOUS
  <2>5. e \in DivaState
    BY ONLY <1>1, <2>2, <2>3, <2>4 DEF DivaState
  <2>6. /\ e.touch = d.finger /\ e.shows = d.shows /\ e.at = d.at /\ e.screen = d.screen
        /\ e.keys = d.keys /\ e.same = d.same /\ e.seen = d.seen /\ e.prev = d.prev
        /\ e.drop = d.drop /\ e.left = d.left /\ e.right = d.right
    BY ONLY <1>1, <2>4 DEF DivaState
  <2>7. n = DivaReports(e, status)
    BY ONLY <1>3, <2>1, <2>4 DEF DivaClick
  <2>8. /\ n \in DivaState
        /\ n = [e EXCEPT !.sent = status, !.whole = e.fresh, !.shows = n.shows]
        /\ status \in {"DOWN", "STREAM"} => n.shows = TRUE
        /\ status = "LIFTOFF" => n.shows = FALSE
        /\ status = "none" => n.shows = e.shows
    <3>1. DivaReported(e, status, n)
      BY ONLY <2>3, <2>5, <2>7, DivaReportIs
    <3> QED
      BY ONLY <3>1 DEF DivaReported
  <2>9. /\ n.touch = e.touch /\ n.at = e.at /\ n.screen = e.screen
        /\ n.keys = e.keys /\ n.same = e.same /\ n.seen = e.seen /\ n.prev = e.prev
        /\ n.drop = e.drop /\ n.left = e.left /\ n.right = e.right
    BY ONLY <2>5, <2>8 DEF DivaState
  <2>10. DivaKnows(n)
    <3>1. n.touch \in BOOLEAN /\ n.shows \in BOOLEAN
      BY ONLY <2>8 DEF DivaState
    <3>2. n.shows = n.touch
      BY ONLY <2>2, <2>3, <2>6, <2>8, <2>9, <3>1 DEF DivaStatus
    <3> QED
      BY ONLY <2>2, <2>6, <2>9, <3>2 DEF DivaKnows
  <2>11. DivaButton(n)
    BY ONLY <1>1, <2>6, <2>9 DEF DivaButton
  <2>12. DivaLifted(n)
    BY ONLY <2>6, <2>9, d.screen = "mouse" DEF DivaLifted
  <2> QED
    BY <2>6, <2>8, <2>9, <2>10, <2>11, <2>12 DEF DivaGood
<1> QED
  BY <1>2, <1>3 DEF diva_mouse_update

(* What a step of the touch by messages leaves alone.                      *)
DivaOnlyTouch(d, n) ==
  /\ n \in DivaState /\ n.keys = d.keys /\ n.same = d.same /\ n.seen = d.seen
  /\ n.prev = d.prev /\ n.drop = d.drop /\ n.left = d.left /\ n.right = d.right
  /\ n.screen = d.screen

(* The thread looks, forgets or reports, and a message comes.              *)
LEMMA DivaTouchKeeps ==
  ASSUME NEW d, DivaGood(d), d.screen = "wintouch", NEW n,
         \/ /\ d.at = "top"
            /\ n = [d EXCEPT !.fresh = TRUE,
                             !.at = CASE d.status = "LIFTOFF" -> "forget"
                                      [] d.status # "LIFTOFF" /\ ~d.touch -> "idle"
                                      [] OTHER -> "report"]
         \/ d.at = "forget" /\ n = [d EXCEPT !.status = "none", !.at = "lift"]
         \/ d.at = "lift" /\ n = [d EXCEPT !.touch = FALSE, !.at = "report"]
         \/ d.at = "idle" /\ n = [d EXCEPT !.status = "none", !.at = "report"]
         \/ d.at = "report" /\ n = [DivaReports(d, d.status) EXCEPT !.at = "top"]
         \/ \E what \in IF d.finger THEN {"MOVE", "UP"} ELSE {"DOWN"} :
              n = diva_handle_touch(d, what)
  PROVE  DivaOnlyTouch(d, n) /\ DivaGood(n)
<1>1. d \in DivaState /\ DivaButton(d) /\ DivaKnows(d) /\ DivaLifted(d)
  BY DEF DivaGood
<1>2. ~d.finger => /\ d.status \in {"LIFTOFF", "none"}
                   /\ d.fresh /\ d.at \in {"lift", "report"} => d.status = "none"
                   /\ d.whole => d.sent = "none"
  BY ONLY <1>1, d.screen = "wintouch" DEF DivaLifted
<1>3. DivaOnlyTouch(d, n) /\ DivaLifted(n) => DivaOnlyTouch(d, n) /\ DivaGood(n)
  BY ONLY <1>1, d.screen = "wintouch" DEF DivaOnlyTouch, DivaGood, DivaButton, DivaKnows
<1>4. CASE /\ d.at = "top"
           /\ n = [d EXCEPT !.fresh = TRUE,
                            !.at = CASE d.status = "LIFTOFF" -> "forget"
                                     [] d.status # "LIFTOFF" /\ ~d.touch -> "idle"
                                     [] OTHER -> "report"]
  <2>1. PICK at : at = CASE d.status = "LIFTOFF" -> "forget"
                         [] d.status # "LIFTOFF" /\ ~d.touch -> "idle"
                         [] OTHER -> "report"
    OBVIOUS
  <2>2. at \in {"forget", "idle", "report"} /\ (at = "report" => d.status # "LIFTOFF")
    BY ONLY <2>1
  <2>3. n = [d EXCEPT !.fresh = TRUE, !.at = at]
    BY ONLY <1>4, <2>1
  <2>4. DivaOnlyTouch(d, n)
    BY ONLY <1>1, <2>2, <2>3 DEF DivaOnlyTouch, DivaState
  <2>5. /\ n.finger = d.finger /\ n.status = d.status /\ n.at = at
        /\ n.whole = d.whole /\ n.sent = d.sent
    BY ONLY <1>1, <2>3 DEF DivaState
  <2>6. DivaLifted(n)
    BY ONLY <1>2, <2>2, <2>5 DEF DivaLifted
  <2> QED
    BY ONLY <1>3, <2>4, <2>6
<1>5. CASE d.at = "forget" /\ n = [d EXCEPT !.status = "none", !.at = "lift"]
  <2>1. DivaOnlyTouch(d, n)
    BY ONLY <1>1, <1>5 DEF DivaOnlyTouch, DivaState, DivaStatus
  <2>2. n.finger = d.finger /\ n.status = "none" /\ n.whole = d.whole /\ n.sent = d.sent
    BY ONLY <1>1, <1>5 DEF DivaState
  <2> QED
    BY ONLY <1>2, <1>3, <2>1, <2>2 DEF DivaLifted
<1>6. CASE d.at = "lift" /\ n = [d EXCEPT !.touch = FALSE, !.at = "report"]
  <2>1. DivaOnlyTouch(d, n)
    BY ONLY <1>1, <1>6 DEF DivaOnlyTouch, DivaState
  <2>2. /\ n.finger = d.finger /\ n.status = d.status /\ n.whole = d.whole
        /\ n.sent = d.sent /\ n.fresh = d.fresh
    BY ONLY <1>1, <1>6 DEF DivaState
  <2> QED
    BY ONLY <1>2, <1>3, <1>6, <2>1, <2>2 DEF DivaLifted
<1>7. CASE d.at = "idle" /\ n = [d EXCEPT !.status = "none", !.at = "report"]
  <2>1. DivaOnlyTouch(d, n)
    BY ONLY <1>1, <1>7 DEF DivaOnlyTouch, DivaState, DivaStatus
  <2>2. n.finger = d.finger /\ n.status = "none" /\ n.whole = d.whole /\ n.sent = d.sent
    BY ONLY <1>1, <1>7 DEF DivaState
  <2> QED
    BY ONLY <1>2, <1>3, <2>1, <2>2 DEF DivaLifted
<1>8. CASE d.at = "report" /\ n = [DivaReports(d, d.status) EXCEPT !.at = "top"]
  <2>1. PICK e : e = DivaReports(d, d.status)
    OBVIOUS
  <2>2. d.status \in DivaStatus
    BY ONLY <1>1 DEF DivaState
  <2>3. e \in DivaState /\ e = [d EXCEPT !.sent = d.status, !.whole = d.fresh, !.shows = e.shows]
    <3>1. DivaReported(d, d.status, e)
      BY ONLY <1>1, <2>1, <2>2, DivaReportIs
    <3> QED
      BY ONLY <3>1 DEF DivaReported
  <2>4. n = [e EXCEPT !.at = "top"]
    BY ONLY <1>8, <2>1
  <2>5. /\ e.keys = d.keys /\ e.same = d.same /\ e.seen = d.seen /\ e.prev = d.prev
        /\ e.drop = d.drop /\ e.left = d.left /\ e.right = d.right /\ e.screen = d.screen
        /\ e.finger = d.finger /\ e.status = d.status /\ e.sent = d.status
        /\ e.whole = d.fresh
    BY ONLY <1>1, <2>3 DEF DivaState
  <2>6. /\ n \in DivaState /\ n.keys = e.keys /\ n.same = e.same /\ n.seen = e.seen
        /\ n.prev = e.prev /\ n.drop = e.drop /\ n.left = e.left /\ n.right = e.right
        /\ n.screen = e.screen /\ n.finger = e.finger /\ n.status = e.status
        /\ n.sent = e.sent /\ n.whole = e.whole /\ n.at = "top"
    BY ONLY <2>3, <2>4 DEF DivaState
  <2>7. DivaOnlyTouch(d, n)
    BY ONLY <2>5, <2>6 DEF DivaOnlyTouch
  <2>8. DivaLifted(n)
    BY ONLY <1>2, <1>8, <2>5, <2>6 DEF DivaLifted
  <2> QED
    BY ONLY <1>3, <2>7, <2>8
<1>9. CASE \E what \in IF d.finger THEN {"MOVE", "UP"} ELSE {"DOWN"} :
             n = diva_handle_touch(d, what)
  <2>1. PICK what \in IF d.finger THEN {"MOVE", "UP"} ELSE {"DOWN"} :
          n = diva_handle_touch(d, what)
    BY <1>9
  <2>2. CASE what = "DOWN"
    <3>1. n = [d EXCEPT !.finger = TRUE, !.touch = TRUE, !.status = "DOWN",
                        !.fresh = FALSE, !.whole = FALSE]
      BY ONLY <2>1, <2>2 DEF diva_handle_touch, DivaMessage
    <3>2. DivaOnlyTouch(d, n) /\ n.finger = TRUE
      BY ONLY <1>1, <3>1 DEF DivaOnlyTouch, DivaState, DivaStatus
    <3> QED
      BY ONLY <1>3, <3>2 DEF DivaLifted
  <2>3. CASE what = "MOVE"
    <3>1. n = [d EXCEPT !.touch = TRUE, !.status = "STREAM"] /\ d.finger
      BY ONLY <2>1, <2>3 DEF diva_handle_touch, DivaMessage
    <3>2. DivaOnlyTouch(d, n) /\ n.finger = d.finger
      BY ONLY <1>1, <3>1 DEF DivaOnlyTouch, DivaState, DivaStatus
    <3> QED
      BY ONLY <1>3, <3>1, <3>2 DEF DivaLifted
  <2>4. CASE what = "UP"
    <3>1. n = [d EXCEPT !.finger = FALSE, !.status = "LIFTOFF",
                        !.fresh = FALSE, !.whole = FALSE]
      BY ONLY <2>1, <2>4 DEF diva_handle_touch, DivaMessage
    <3>2. DivaOnlyTouch(d, n)
      BY ONLY <1>1, <3>1 DEF DivaOnlyTouch, DivaState, DivaStatus
    <3>3. n.status = "LIFTOFF" /\ n.fresh = FALSE /\ n.whole = FALSE
      BY ONLY <1>1, <3>1 DEF DivaState
    <3> QED
      BY ONLY <1>3, <3>2, <3>3 DEF DivaLifted
  <2> QED
    BY <2>1, <2>2, <2>3, <2>4
<1> QED
  BY <1>4, <1>5, <1>6, <1>7, <1>8, <1>9

(* What other steps leave alone.                                           *)
DivaLeaves(d, n) ==
  /\ n \in DivaState /\ n.keys = d.keys /\ n.same = d.same /\ n.seen = d.seen
  /\ n.prev = d.prev /\ n.drop = d.drop /\ n.left = d.left /\ n.right = d.right
  /\ n.screen = d.screen /\ n.at = d.at /\ n.shows = d.shows /\ n.touch = d.touch
  /\ n.status = d.status /\ n.fresh = d.fresh /\ n.whole = d.whole /\ n.sent = d.sent
  /\ d.screen = "mouse" \/ n.finger = d.finger

(* A step that leaves them alone keeps the invariant.                      *)
LEMMA DivaLeavesGood ==
  ASSUME NEW d, DivaGood(d), NEW n, DivaLeaves(d, n)
  PROVE  DivaGood(n)
<1>1. DivaButton(n)
  BY DEF DivaGood, DivaButton, DivaLeaves
<1>2. DivaKnows(n) /\ n \in DivaState
  BY DEF DivaGood, DivaKnows, DivaLeaves
<1>3. DivaLifted(n)
  BY DEF DivaGood, DivaLifted, DivaLeaves
<1> QED
  BY <1>1, <1>2, <1>3 DEF DivaGood

(* The time that passes, the threads that start and stop, the back end of  *)
(* the slides, and the finger on the mouse's button.                       *)
LEMMA DivaOthersLeave ==
  ASSUME NEW d \in DivaState, NEW n,
         \/ d.since <= DivaMax /\ n = [d EXCEPT !.since = d.since + 1]
         \/ \E thread \in {"none", "run", "stop"} : n = [d EXCEPT !.thread = thread]
         \/ \E state \in SUBSET {"l", "r"} : n = [d EXCEPT !.state = state]
         \/ \E held \in SUBSET {"l", "r"} : n = [d EXCEPT !.held = held]
         \/ d.screen = "mouse" /\ n = [d EXCEPT !.finger = ~d.finger]
  PROVE  DivaLeaves(d, n)
<1>1. CASE d.since <= DivaMax /\ n = [d EXCEPT !.since = d.since + 1]
  <2>1. d.since + 1 \in 0..DivaMax + 1
    BY <1>1, DivaConstants DEF DivaState
  <2> QED
    BY ONLY <1>1, <2>1, d \in DivaState DEF DivaLeaves, DivaState
<1>2. CASE \E thread \in {"none", "run", "stop"} : n = [d EXCEPT !.thread = thread]
  <2>1. PICK thread \in {"none", "run", "stop"} : n = [d EXCEPT !.thread = thread]
    BY <1>2
  <2> QED
    BY ONLY <2>1, d \in DivaState DEF DivaLeaves, DivaState
<1>3. CASE \E state \in SUBSET {"l", "r"} : n = [d EXCEPT !.state = state]
  <2>1. PICK state \in SUBSET {"l", "r"} : n = [d EXCEPT !.state = state]
    BY <1>3
  <2> QED
    BY ONLY <2>1, d \in DivaState DEF DivaLeaves, DivaState
<1>4. CASE \E held \in SUBSET {"l", "r"} : n = [d EXCEPT !.held = held]
  <2>1. PICK held \in SUBSET {"l", "r"} : n = [d EXCEPT !.held = held]
    BY <1>4
  <2> QED
    BY ONLY <2>1, d \in DivaState DEF DivaLeaves, DivaState
<1>5. CASE d.screen = "mouse" /\ n = [d EXCEPT !.finger = ~d.finger]
  <2>1. PICK finger : finger = ~d.finger
    OBVIOUS
  <2>2. finger \in BOOLEAN
    BY <2>1
  <2>3. d.screen = "mouse" /\ n = [d EXCEPT !.finger = finger]
    BY ONLY <1>5, <2>1
  <2> QED
    BY ONLY <2>2, <2>3, d \in DivaState DEF DivaLeaves, DivaState
<1> QED
  BY <1>1, <1>2, <1>3, <1>4, <1>5

(* What the invariant says of the state that a step leaves.                *)
LEMMA DivaGoodShows ==
  ASSUME NEW d, DivaGood(d)
  PROVE  /\ d.same = DivaLong /\ d.keys # {} => d.seen
         /\ d.seen => d.keys # {}
         /\ d.screen = "mouse" => d.shows = d.touch
         /\ ~d.finger /\ d.whole /\ d.screen = "wintouch" => d.sent = "none"
<1>1. d.drop \in 0..DivaDrop
  BY DEF DivaGood, DivaState
<1>2. d.same = DivaLong => d.same + d.drop > DivaDrop /\ d.same + d.drop >= DivaLong
  BY ONLY <1>1, DivaConstants
<1>3. d.drop = 0 \/ d.drop > 0
  BY ONLY <1>1, DivaConstants
<1>4. d.same + d.drop > DivaDrop => ~(d.same + d.drop <= DivaDrop)
  BY ONLY <1>1, DivaConstants, DivaGood(d) DEF DivaGood, DivaState
<1>5. d.same + d.drop >= DivaLong => ~(d.same + d.drop < DivaLong)
  BY ONLY <1>1, DivaConstants, DivaGood(d) DEF DivaGood, DivaState
<1>6. d.same = DivaLong /\ d.keys # {} => d.seen
  BY ONLY <1>2, <1>3, <1>4, <1>5, DivaGood(d) DEF DivaGood, DivaButton
<1> QED
  BY <1>6 DEF DivaGood, DivaButton, DivaKnows, DivaLifted

(* DivaStep, of two states.                                                *)
DivaBetween(d, n) ==
  /\ n.screen = d.screen
  /\ d.seen /\ n.seen /\ DivaRolls(d.keys, n.keys) => n.since \in DivaMin..DivaMax
  /\ d.mode = "keyboard" /\ d.held # {} /\ n.right # d.right
       => n.right = (IF d.right + 1 = DivaCells + DivaDelay THEN DivaMiddle ELSE d.right + 1)
  /\ d.mode = "keyboard" /\ d.held # {} /\ n.left # d.left
       => n.left = (IF d.left = -DivaDelay THEN DivaMiddle - 1 ELSE d.left - 1)

(* And the invariant gives the rest.                                       *)
LEMMA DivaBetweenStep ==
  ASSUME DivaGood(diva'), DivaBetween(diva, diva')
  PROVE  DivaStep
<1>1. /\ diva'.same = DivaLong /\ diva'.keys # {} => diva'.seen
      /\ diva'.seen => diva'.keys # {}
      /\ diva'.screen = "mouse" => diva'.shows = diva'.touch
      /\ ~diva'.finger /\ diva'.whole /\ diva'.screen = "wintouch" => diva'.sent = "none"
  BY DivaGoodShows
<1> QED
  BY <1>1 DEF DivaBetween, DivaStep

(* Steps that leave the keys and the slides alone.                         *)
LEMMA DivaSameBetween ==
  ASSUME NEW d, NEW n, n.keys = d.keys, n.screen = d.screen, n.left = d.left,
         n.right = d.right
  PROVE  DivaBetween(d, n)
<1>1. ~DivaRolls(d.keys, n.keys)
  BY DivaPressesDiffer
<1> QED
  BY <1>1 DEF DivaBetween

(* Every step keeps the invariant and is one of those that are allowed.    *)
LEMMA DivaNextKeeps ==
  ASSUME DivaInv, DivaNext
  PROVE  DivaInv' /\ DivaStep
<1> PICK d : d = diva
  OBVIOUS
<1> PICK n : n = diva'
  OBVIOUS
<1>1. DivaGood(d) /\ d \in DivaState
  BY DEF DivaInv, DivaGood
<1>2. DivaGood(n) /\ DivaBetween(d, n) => DivaInv' /\ DivaStep
  BY DivaBetweenStep DEF DivaInv
<1>3. DivaLeaves(d, n) => DivaGood(n) /\ DivaBetween(d, n)
  <2> SUFFICES ASSUME DivaLeaves(d, n) PROVE DivaGood(n) /\ DivaBetween(d, n)
    OBVIOUS
  <2>1. n.keys = d.keys /\ n.screen = d.screen /\ n.left = d.left /\ n.right = d.right
    BY DEF DivaLeaves
  <2> QED
    BY <1>1, <2>1, DivaLeavesGood, DivaSameBetween
<1>4. CASE diva_io_jvs_poll
  <2>1. PICK keys \in SUBSET DivaKeys : n = diva_io_set_game_button(d, keys)
    BY <1>4 DEF diva_io_jvs_poll
  <2>2. /\ DivaGood(n)
        /\ d.seen /\ n.seen /\ DivaRolls(d.keys, keys) => n.since \in DivaMin..DivaMax
        /\ DivaPolled(d, keys, n)
    BY <1>1, <2>1, DivaPollKeeps
  <2>3. n.keys = keys /\ n.screen = d.screen /\ n.left = d.left /\ n.right = d.right
    BY ONLY <1>1, <2>2 DEF DivaPolled, DivaState
  <2>4. DivaBetween(d, n)
    BY ONLY <2>2, <2>3 DEF DivaBetween
  <2> QED
    BY <1>2, <2>2, <2>4
<1>5. CASE DivaTick
  <2>1. DivaLeaves(d, n)
    BY <1>1, <1>5, DivaOthersLeave DEF DivaTick
  <2> QED
    BY <1>2, <1>3, <2>1
<1>6. CASE diva_io_slider_start \/ diva_io_slider_stop \/ DivaThreadEnds
  <2>1. \E thread \in {"none", "run", "stop"} : n = [d EXCEPT !.thread = thread]
    BY <1>6 DEF diva_io_slider_start, diva_io_slider_stop, DivaThreadEnds
  <2>2. DivaLeaves(d, n)
    BY <1>1, <2>1, DivaOthersLeave
  <2> QED
    BY <1>2, <1>3, <2>2
<1>7. CASE diva_di_get_gamebtns
  <2>1. d.held \in SUBSET {"l", "r"} /\ {} \in SUBSET {"l", "r"}
    BY <1>1 DEF DivaState
  <2>2. \E state \in SUBSET {"l", "r"} : n = [d EXCEPT !.state = state]
    BY <1>7, <2>1 DEF diva_di_get_gamebtns
  <2>3. DivaLeaves(d, n)
    BY <1>1, <2>2, DivaOthersLeave
  <2> QED
    BY <1>2, <1>3, <2>3
<1>8. CASE DivaSlides
  <2>1. PICK late \in BOOLEAN : n = diva_io_slider_thread_proc(d, late)
    BY <1>8 DEF DivaSlides
  <2>2. DivaGood(n) /\ DivaSlid(d, n)
    BY <1>1, <2>1, DivaSlideKeeps
  <2>3. n.keys = d.keys /\ n.screen = d.screen
    BY ONLY <1>1, <2>2 DEF DivaState, DivaSlid
  <2>4. ~DivaRolls(d.keys, n.keys)
    BY ONLY <2>3, DivaPressesDiffer
  <2>5. DivaBetween(d, n)
    BY ONLY <2>2, <2>3, <2>4 DEF DivaBetween, DivaSlid
  <2> QED
    BY <1>2, <2>2, <2>5
<1>9. CASE DivaStick
  <2>1. \E held \in SUBSET {"l", "r"} : n = [d EXCEPT !.held = held]
    BY <1>9 DEF DivaStick
  <2>2. DivaLeaves(d, n)
    BY <1>1, <2>1, DivaOthersLeave
  <2> QED
    BY <1>2, <1>3, <2>2
<1>10. CASE DivaMouse
  <2>1. PICK known \in BOOLEAN : n = diva_mouse_update(d, known)
    BY <1>10 DEF DivaMouse
  <2>2. d.screen = "mouse"
    BY <1>10 DEF DivaMouse
  <2>3. /\ DivaGood(n) /\ n.keys = d.keys /\ n.same = d.same /\ n.seen = d.seen
        /\ n.left = d.left /\ n.right = d.right /\ n.screen = d.screen
    BY <1>1, <2>1, <2>2, DivaMouseKeeps
  <2>4. DivaBetween(d, n)
    BY <2>3, DivaSameBetween
  <2> QED
    BY <1>2, <2>3, <2>4
<1>11. CASE DivaFinger /\ diva.screen = "mouse"
  <2>1. DivaLeaves(d, n)
    BY <1>1, <1>11, DivaOthersLeave DEF DivaFinger
  <2> QED
    BY <1>2, <1>3, <2>1
<1>12. CASE \/ DivaLooks \/ DivaForgets \/ diva_wintouch_update
            \/ DivaFinger /\ diva.screen # "mouse"
  <2>1. d.screen = "mouse" => d.at = "top"
    BY <1>1 DEF DivaGood, DivaKnows
  <2>2. d.screen = "wintouch"
    <3>1. d.screen \in {"mouse", "wintouch"}
      BY <1>1 DEF DivaState
    <3>2. d.screen # "mouse"
      BY <1>12, <2>1 DEF DivaLooks, DivaForgets, diva_wintouch_update
    <3> QED
      BY <3>1, <3>2
  <2>3. \/ /\ d.at = "top"
           /\ n = [d EXCEPT !.fresh = TRUE,
                            !.at = CASE d.status = "LIFTOFF" -> "forget"
                                     [] d.status # "LIFTOFF" /\ ~d.touch -> "idle"
                                     [] OTHER -> "report"]
        \/ d.at = "forget" /\ n = [d EXCEPT !.status = "none", !.at = "lift"]
        \/ d.at = "lift" /\ n = [d EXCEPT !.touch = FALSE, !.at = "report"]
        \/ d.at = "idle" /\ n = [d EXCEPT !.status = "none", !.at = "report"]
        \/ d.at = "report" /\ n = [DivaReports(d, d.status) EXCEPT !.at = "top"]
        \/ \E what \in IF d.finger THEN {"MOVE", "UP"} ELSE {"DOWN"} :
             n = diva_handle_touch(d, what)
    <3>1. CASE DivaLooks
      BY <3>1 DEF DivaLooks
    <3>2. CASE DivaForgets
      BY <3>2 DEF DivaForgets
    <3>3. CASE diva_wintouch_update
      BY <3>3 DEF diva_wintouch_update
    <3>4. CASE DivaFinger /\ diva.screen # "mouse"
      BY <3>4 DEF DivaFinger
    <3> QED
      BY <1>12, <3>1, <3>2, <3>3, <3>4
  <2>4. DivaOnlyTouch(d, n) /\ DivaGood(n)
    BY ONLY <1>1, <2>2, <2>3, DivaTouchKeeps
  <2>5. n.keys = d.keys /\ n.screen = d.screen /\ n.left = d.left /\ n.right = d.right
    BY <2>4 DEF DivaOnlyTouch
  <2>6. DivaBetween(d, n)
    BY <2>5, DivaSameBetween
  <2> QED
    BY <1>2, <2>4, <2>6
<1> QED
  BY <1>4, <1>5, <1>6, <1>7, <1>8, <1>9, <1>10, <1>11, <1>12 DEF DivaNext

(* The buttons, the slides and the touchscreen take no step but those that *)
(* DivaStep allows: keys that stay held reach the game, slides go on cell  *)
(* by cell, and a finger that was lifted is reported no more.              *)
THEOREM DivaControlsAreRight == DivaSpec => DivaIsRight
<1>1. DivaInit => DivaInv
  BY DivaInitInv
<1>2. DivaInv /\ [DivaNext]_diva => DivaInv'
  <2>1. CASE UNCHANGED diva
    BY <2>1 DEF DivaInv
  <2>2. CASE DivaNext
    BY <2>2, DivaNextKeeps
  <2> QED
    BY <2>1, <2>2
<1>3. DivaInv /\ [DivaNext]_diva => [DivaStep]_diva
  BY DivaNextKeeps
<1> QED
  BY <1>1, <1>2, <1>3, PTL DEF DivaSpec, DivaIsRight

-----------------------------------------------------------------------------
(* The LED board 837-15093.                                                *)

(* A reply as the game has it, and the board.                              *)
Led93Reply == [status : {"OK", "ERR_SUM"}, err : BOOLEAN, cleared : BOOLEAN]
(* The colours of the LEDs.                                                *)
Led93Lights == [1..Led93Leds -> Led93Colour]
(* The board.                                                              *)
Led93State ==
  [fd : BOOLEAN, started : BOOLEAN, start_hr : {"S_OK", "E_FAIL"}, busy : BOOLEAN,
   written : Seq(Led93Frame), nbytes : 0..Led93Capacity,
   last_hr : {"S_FALSE", "CRC", "E_FAIL"}, boardadr : Nat,
   boardstatus : SUBSET {"UART_ERR_SUM", "CMD_ERR_PARAM"}, status_code : {"OK", "ERR_SUM"},
   report_code : {"OK", "ERR1", "ERR2"}, enable_bootloader : BOOLEAN,
   enable_response : BOOLEAN, led_count : 0..Led93Leds, led : Led93Lights,
   shown : Led93Lights, reply : Led93Reply, sumErr : BOOLEAN]

(* A reply tells of a checksum error if and only if there was one, or the  *)
(* game has asked for the status to be cleared.                            *)
Led93Tells(b) ==
  /\ b.reply.status = "ERR_SUM" => b.reply.err
  /\ b.reply.err /\ ~b.reply.cleared => b.reply.status = "ERR_SUM"
(* An open port was started without an error.                              *)
Led93Opened(b) == b.fd => b.started /\ b.start_hr = "S_OK"
(* The status is an error as long as there is one that no frame has been   *)
(* handled after.                                                          *)
Led93Known(b) == b.status_code = "ERR_SUM" <=> b.sumErr

(* The invariant of the board.                                             *)
Led93Inv ==
  /\ led93 \in Led93State /\ Len(led93.written) <= Led93WrittenMax
  /\ Led93Tells(led93) /\ Led93Opened(led93) /\ Led93Known(led93)
  /\ ~led93.busy /\ led93.written # <<>> => led93.last_hr \in {"CRC", "E_FAIL"}

(* The two action properties, of one step.                                 *)
Led93ShowsStep ==
  LET req == Head(led93.written)
  IN  led93.busy /\ led93.written # <<>> /\ req.cmd = "SET_IMM_LED"
        /\ Len(req.data) <= led93.led_count
      => \A i \in 1..Len(req.data) : led93'.shown[i] = led93'.led[i]

(* An address that was given is only moved by CLEAR_ID, or by a SET_ID for *)
(* this node.                                                              *)
Led93AddressStep ==
  led93.boardadr # 0 /\ led93'.boardadr # led93.boardadr =>
    \/ Head(led93.written).cmd = "CLEAR_ID"
    \/ Head(led93.written).cmd = "SET_ID" /\ Head(led93.written).dest # 0

(* What a step has to keep.                                                *)
Led93Right == Led93Inv' /\ Led93ShowsStep /\ Led93AddressStep

(* What a command may do to the address, and to the colours.               *)
Led93Moves(b) ==
  led93.boardadr # 0 /\ b.boardadr # led93.boardadr =>
    \/ Led93Req.cmd = "CLEAR_ID"
    \/ Led93Req.cmd = "SET_ID" /\ Led93Req.dest # 0
(* SET_IMM_LED shows the colours that it sets.                             *)
Led93Lit(b) ==
  Led93Req.cmd = "SET_IMM_LED" /\ Len(Led93Req.data) <= led93.led_count =>
    \A i \in 1..Len(Led93Req.data) : b.shown[i] = b.led[i]

(* What a command may make of the board, before the status is cleared.     *)
Led93May(b) ==
  /\ b \in Led93State /\ b.busy /\ Len(b.written) <= Led93WrittenMax
  /\ Led93Tells(b) /\ Led93Opened(b)
  /\ Led93Moves(b) /\ Led93Lit(b)

(* The same, of a board that has not answered yet.                         *)
Led93Ready(b) == Led93May(b) /\ Led93Known(b)

(* It differs from the board that took the frame in nothing else.          *)
Led93Alike(b) ==
  /\ b \in Led93State /\ b.busy = Led93Board.busy /\ b.written = Led93Board.written
  /\ b.reply = Led93Board.reply /\ b.fd = Led93Board.fd /\ b.started = Led93Board.started
  /\ b.start_hr = Led93Board.start_hr /\ b.status_code = Led93Board.status_code
  /\ b.sumErr = Led93Board.sumErr

-----------------------------------------------------------------------------
(* The first frame, and what is behind it.                                 *)
LEMMA Led93First ==
  ASSUME Led93Inv, led93.written # <<>>
  PROVE  /\ Led93Req \in Led93Frame /\ Tail(led93.written) \in Seq(Led93Frame)
         /\ Len(Tail(led93.written)) <= Led93WrittenMax
<1>1. led93.written \in Seq(Led93Frame) /\ Len(led93.written) <= Led93WrittenMax
  BY DEF Led93Inv, Led93State
<1> DEFINE w == led93.written
<1>2. w \in Seq(Led93Frame) /\ w # <<>> /\ Len(w) <= Led93WrittenMax
  BY <1>1
<1>3. Led93Req = Head(w)
  BY DEF Led93Req
<1> HIDE DEF w
<1>4. Head(w) \in Led93Frame /\ Tail(w) \in Seq(Led93Frame) /\ Len(Tail(w)) <= Len(w)
  BY <1>2
<1>5. Led93WrittenMax \in Nat /\ Len(w) \in Nat /\ Len(Tail(w)) \in Nat
  BY <1>2, <1>4, Led93Assumption DEF Led93Assumption
<1> QED
  BY <1>2, <1>3, <1>4, <1>5 DEF w

(* The board that took the frame.                                          *)
LEMMA Led93BoardIs ==
  ASSUME Led93Inv, led93.busy, led93.written # <<>>
  PROVE  /\ Led93Board \in Led93State /\ Led93Alike(Led93Board) /\ Led93Board.busy
         /\ Led93Board.boardadr = led93.boardadr /\ Led93Board.led_count = led93.led_count
         /\ Led93Board.enable_response = led93.enable_response
         /\ Len(Led93Board.written) <= Led93WrittenMax
         /\ Led93Tells(Led93Board) /\ Led93Opened(Led93Board) /\ Led93Known(Led93Board)
<1> DEFINE w == Tail(led93.written)
           n == Led93Board
<1>1. led93 \in Led93State /\ w \in Seq(Led93Frame) /\ Len(w) <= Led93WrittenMax
  BY Led93First DEF Led93Inv
<1>2. n = [led93 EXCEPT !.written = w]
  BY DEF Led93Board
<1>3. Led93Tells(led93) /\ Led93Opened(led93) /\ Led93Known(led93)
  BY DEF Led93Inv
<1> HIDE DEF w, n
<1>4. n \in Led93State
  BY <1>1, <1>2 DEF Led93State
<1>5. /\ n.busy = led93.busy /\ n.boardadr = led93.boardadr /\ n.written = w
      /\ n.led_count = led93.led_count /\ n.enable_response = led93.enable_response
      /\ n.reply = led93.reply /\ n.fd = led93.fd /\ n.started = led93.started
      /\ n.start_hr = led93.start_hr /\ n.status_code = led93.status_code
      /\ n.sumErr = led93.sumErr
  BY <1>1, <1>2 DEF Led93State
<1>6. Led93Tells(n) /\ Led93Opened(n) /\ Led93Known(n)
  BY <1>3, <1>5 DEF Led93Tells, Led93Opened, Led93Known
<1>7. Led93Alike(n)
  BY <1>4 DEF Led93Alike, n
<1> QED
  BY <1>1, <1>4, <1>5, <1>6, <1>7 DEF n

(* A board that a command has changed in its settings or colours only is   *)
(* ready to answer.                                                        *)
LEMMA Led93AlikeReady ==
  ASSUME Led93Inv, led93.busy, led93.written # <<>>, NEW b, Led93Alike(b),
         Led93Moves(b), Led93Lit(b)
  PROVE  Led93Ready(b)
<1> DEFINE n == Led93Board
<1>1. /\ n.busy /\ Len(n.written) <= Led93WrittenMax /\ Led93Tells(n) /\ Led93Opened(n)
      /\ Led93Known(n)
  BY Led93BoardIs
<1>2. /\ b \in Led93State /\ b.busy = n.busy /\ b.written = n.written
      /\ b.reply = n.reply /\ b.fd = n.fd /\ b.started = n.started
      /\ b.start_hr = n.start_hr /\ b.status_code = n.status_code
      /\ b.sumErr = n.sumErr
  BY DEF Led93Alike
<1> HIDE DEF n
<1>3. /\ b.busy /\ Len(b.written) <= Led93WrittenMax /\ Led93Tells(b) /\ Led93Opened(b)
      /\ Led93Known(b)
  BY <1>1, <1>2 DEF Led93Tells, Led93Opened, Led93Known
<1> QED
  BY <1>2, <1>3 DEF Led93Ready, Led93May

-----------------------------------------------------------------------------
(* An answer: what the reply tells is what the status was.                 *)
LEMMA Led93EncodeMay ==
  ASSUME NEW b, Led93May(b), NEW cleared \in BOOLEAN,
         b.status_code = "ERR_SUM" => b.sumErr,
         b.sumErr /\ ~cleared => b.status_code = "ERR_SUM",
         NEW x \in Led93Encode(b, cleared)
  PROVE  Led93May(x)
<1> DEFINE r == [status |-> b.status_code, err |-> b.sumErr, cleared |-> cleared]
<1>1. b \in Led93State
  BY DEF Led93May
<1>2. b.nbytes \in 0..Led93Capacity /\ Led93ReplySize \in Nat /\ Led93Capacity \in Nat \ {0}
  BY <1>1, Led93Assumption DEF Led93State, Led93Assumption
<1>3. PICK n \in 0..Led93Capacity : x = [b EXCEPT !.nbytes = n, !.reply = r]
  <2> DEFINE end == b.nbytes + Led93ReplySize
             ends == IF end <= Led93Capacity THEN {end}
                     ELSE {n \in {Led93Capacity - 1, Led93Capacity} : n >= b.nbytes}
  <2>1. ends \subseteq 0..Led93Capacity
    BY <1>2
  <2>2. x \in {[b EXCEPT !.nbytes = n, !.reply = r] : n \in ends}
    BY DEF Led93Encode
  <2> HIDE DEF ends, r
  <2> QED
    BY <2>1, <2>2
<1>4. r \in Led93Reply /\ r.status = b.status_code /\ r.err = b.sumErr /\ r.cleared = cleared
  BY <1>1 DEF Led93State, Led93Reply
<1> HIDE DEF r
<1>5. x \in Led93State
  BY <1>1, <1>3, <1>4 DEF Led93State
<1>6. /\ x.reply = r /\ x.busy = b.busy /\ x.written = b.written /\ x.fd = b.fd
      /\ x.started = b.started /\ x.start_hr = b.start_hr /\ x.boardadr = b.boardadr
      /\ x.shown = b.shown /\ x.led = b.led
  BY <1>1, <1>3 DEF Led93State
<1>7. Led93Tells(x)
  BY <1>4, <1>6 DEF Led93Tells
<1>8. Led93Opened(x)
  BY <1>6 DEF Led93May, Led93Opened
<1> QED
  BY <1>5, <1>6, <1>7, <1>8 DEF Led93May, Led93Moves, Led93Lit

(* The board answers, or has its answers switched off.                     *)
LEMMA Led93AnswerMay ==
  ASSUME NEW b, Led93Ready(b)
  PROVE  /\ \A x \in Led93Answer(b) : Led93May(x)
         /\ \A x \in Led93Acknowledge(b) : Led93May(x)
<1>1. Led93May(b) /\ (b.status_code = "ERR_SUM" <=> b.sumErr) /\ b.sumErr \in BOOLEAN
  BY DEF Led93Ready, Led93Known, Led93May, Led93State
<1>2. ASSUME NEW x \in Led93Answer(b)
      PROVE  Led93May(x)
  <2>1. x \in Led93Encode(b, FALSE)
    BY <1>2 DEF Led93Answer
  <2> QED
    BY <1>1, <2>1, Led93EncodeMay
<1> QED
  BY <1>1, <1>2 DEF Led93Acknowledge

(* The status is cleared after it was told.                                *)
LEMMA Led93TakeIsRight ==
  ASSUME Led93Inv, NEW cmd, NEW boards, Led93Take(cmd, boards),
         \A b \in boards : Led93May(b)
  PROVE  Led93Right
<1>1. led93.written # <<>> /\ led93.busy /\ led93' \in Led93Done(boards) /\ Led93Req.cmd = cmd
  BY DEF Led93Take
<1>2. PICK b \in boards :
        led93' = [Led93ClearReport(Led93ClearStatus(b)) EXCEPT !.sumErr = FALSE]
  BY <1>1 DEF Led93Done
<1>3. Led93May(b) /\ b \in Led93State
  BY <1>2 DEF Led93May
<1>4. led93' = [b EXCEPT !.boardstatus = {}, !.status_code = "OK", !.report_code = "OK",
                  !.sumErr = FALSE]
  BY <1>2, <1>3 DEF Led93ClearReport, Led93ClearStatus, Led93State
<1>5. led93' \in Led93State
  BY <1>3, <1>4 DEF Led93State
<1>6. /\ led93'.status_code = "OK" /\ led93'.sumErr = FALSE /\ led93'.busy = b.busy
      /\ led93'.written = b.written /\ led93'.fd = b.fd /\ led93'.started = b.started
      /\ led93'.start_hr = b.start_hr /\ led93'.boardadr = b.boardadr
      /\ led93'.shown = b.shown /\ led93'.led = b.led /\ led93'.reply = b.reply
  BY <1>3, <1>4 DEF Led93State
<1>7. Led93Tells(led93') /\ Led93Opened(led93') /\ Led93Known(led93')
  BY <1>3, <1>6 DEF Led93May, Led93Tells, Led93Opened, Led93Known
<1>8. Led93Inv'
  BY <1>3, <1>5, <1>6, <1>7 DEF Led93May, Led93Inv, Led93Tells, Led93Opened, Led93Known
<1>9. Led93ShowsStep
  BY <1>3, <1>6 DEF Led93May, Led93Lit, Led93ShowsStep, Led93Req
<1>10. Led93AddressStep
  BY <1>3, <1>6 DEF Led93May, Led93Moves, Led93AddressStep, Led93Req
<1> QED
  BY <1>8, <1>9, <1>10 DEF Led93Right


-----------------------------------------------------------------------------
(* The commands.  Most leave the board as it is and only answer.           *)
LEMMA Led93Answers ==
  ASSUME Led93Inv, NEW cmd, cmd # "SET_IMM_LED", NEW boards,
         Led93Take(cmd, boards),
         boards \in {Led93Answer(Led93Board), Led93Acknowledge(Led93Board)}
  PROVE  Led93Right
<1>1. led93.busy /\ led93.written # <<>> /\ Led93Req.cmd = cmd
  BY DEF Led93Take
<1>2. Led93Ready(Led93Board)
  BY <1>1, Led93BoardIs, Led93AlikeReady DEF Led93Moves, Led93Lit
<1>3. \A b \in boards : Led93May(b)
  BY <1>2, Led93AnswerMay
<1> QED
  BY <1>3, Led93TakeIsRight

(* A command that only answers.                                            *)
LEMMA Led93AnswersKeep ==
  ASSUME Led93Inv,
         \/ led15093_req_set_timeout \/ led15093_req_get_board_info
         \/ led15093_req_get_fw_sum \/ led15093_req_get_protocol_ver
         \/ led15093_req_fw_update \/ led15093_req_update_led
         \/ led15093_req_set_fade_level \/ led15093_req_set_fade_shift
  PROVE  Led93Right
<1> DEFINE A == Led93Answer(Led93Board)
           K == Led93Acknowledge(Led93Board)
<1>1. PICK cmd \in {"SET_TIMEOUT", "GET_BOARD_INFO", "GET_FW_SUM", "GET_PROTOCOL_VER",
                    "FW_UPDATE", "UPDATE_LED", "SET_FADE_LEVEL", "SET_FADE_SHIFT"},
              boards \in {A, K} : Led93Take(cmd, boards)
  <2> HIDE DEF A, K
  <2> QED
    BY DEF led15093_req_set_timeout, led15093_req_get_board_info, led15093_req_get_fw_sum,
           led15093_req_get_protocol_ver, led15093_req_fw_update, led15093_req_update_led,
           led15093_req_set_fade_level, led15093_req_set_fade_shift, A, K
<1>2. cmd # "SET_IMM_LED"
  OBVIOUS
<1> QED
  BY <1>1, <1>2, Led93Answers

(* RESET has the board answer again.                                       *)
LEMMA Led93ResetKeeps ==
  ASSUME Led93Inv, led15093_req_reset
  PROVE  Led93Right
<1> DEFINE b == [Led93Board EXCEPT !.enable_bootloader = FALSE, !.enable_response = TRUE]
           boards == Led93Answer(b)
<1>1. Led93Take("RESET", boards)
  BY DEF led15093_req_reset
<1>2. led93.busy /\ led93.written # <<>> /\ Led93Req.cmd = "RESET"
  BY <1>1 DEF Led93Take
<1>3. Led93Board \in Led93State /\ Led93Alike(Led93Board)
      /\ Led93Board.boardadr = led93.boardadr
  BY <1>2, Led93BoardIs
<1>4. b \in Led93State
  BY <1>3 DEF Led93State
<1>5. Led93Alike(b)
  BY <1>3, <1>4 DEF Led93Alike, Led93State
<1>6. b.boardadr = led93.boardadr
  BY <1>3 DEF Led93State
<1> HIDE DEF b
<1>7. Led93Ready(b)
  BY <1>2, <1>5, <1>6, Led93AlikeReady DEF Led93Moves, Led93Lit
<1>8. \A x \in boards : Led93May(x)
  BY <1>7, Led93AnswerMay DEF Led93Ready
<1> HIDE DEF boards
<1> QED
  BY <1>1, <1>8, Led93TakeIsRight

(* SET_BOOTMODE.                                                           *)
LEMMA Led93BootKeeps ==
  ASSUME Led93Inv, led15093_req_set_bootmode
  PROVE  Led93Right
<1> DEFINE b == [Led93Board EXCEPT !.enable_bootloader = TRUE]
           boards == Led93Answer(b)
<1>1. Led93Take("SET_BOOTMODE", boards)
  BY DEF led15093_req_set_bootmode
<1>2. led93.busy /\ led93.written # <<>> /\ Led93Req.cmd = "SET_BOOTMODE"
  BY <1>1 DEF Led93Take
<1>3. Led93Board \in Led93State /\ Led93Alike(Led93Board)
      /\ Led93Board.boardadr = led93.boardadr
  BY <1>2, Led93BoardIs
<1>4. b \in Led93State
  BY <1>3 DEF Led93State
<1>5. Led93Alike(b)
  BY <1>3, <1>4 DEF Led93Alike, Led93State
<1>6. b.boardadr = led93.boardadr
  BY <1>3 DEF Led93State
<1> HIDE DEF b
<1>7. Led93Ready(b)
  BY <1>2, <1>5, <1>6, Led93AlikeReady DEF Led93Moves, Led93Lit
<1>8. \A x \in boards : Led93May(x)
  BY <1>7, Led93AnswerMay DEF Led93Ready
<1> HIDE DEF boards
<1> QED
  BY <1>1, <1>8, Led93TakeIsRight

(* An unknown command is not answered.                                     *)
LEMMA Led93UnhandledKeeps ==
  ASSUME Led93Inv, Led93Unhandled
  PROVE  Led93Right
<1> DEFINE b == [Led93Board EXCEPT !.report_code = "ERR2"]
           boards == {b}
<1>1. Led93Take("unhandled", boards)
  BY DEF Led93Unhandled
<1>2. led93.busy /\ led93.written # <<>> /\ Led93Req.cmd = "unhandled"
  BY <1>1 DEF Led93Take
<1>3. Led93Board \in Led93State /\ Led93Alike(Led93Board)
      /\ Led93Board.boardadr = led93.boardadr
  BY <1>2, Led93BoardIs
<1>4. b \in Led93State
  BY <1>3 DEF Led93State
<1>5. Led93Alike(b)
  BY <1>3, <1>4 DEF Led93Alike, Led93State
<1>6. b.boardadr = led93.boardadr
  BY <1>3 DEF Led93State
<1> HIDE DEF b
<1>7. Led93Ready(b)
  BY <1>2, <1>5, <1>6, Led93AlikeReady DEF Led93Moves, Led93Lit
<1>8. \A x \in boards : Led93May(x)
  BY <1>7, Led93AnswerMay DEF Led93Ready
<1> HIDE DEF boards
<1> QED
  BY <1>1, <1>8, Led93TakeIsRight

(* CLEAR_ID takes the address away.                                        *)
LEMMA Led93ClearKeeps ==
  ASSUME Led93Inv, led15093_req_clear_id
  PROVE  Led93Right
<1> DEFINE b == [Led93Board EXCEPT !.boardadr = 0]
           boards == Led93Answer(b)
<1>1. Led93Take("CLEAR_ID", boards)
  BY DEF led15093_req_clear_id
<1>2. led93.busy /\ led93.written # <<>> /\ Led93Req.cmd = "CLEAR_ID"
  BY <1>1 DEF Led93Take
<1>3. Led93Board \in Led93State /\ Led93Alike(Led93Board)
      /\ Led93Board.boardadr = led93.boardadr
  BY <1>2, Led93BoardIs
<1>4. b \in Led93State
  BY <1>3 DEF Led93State
<1>5. Led93Alike(b)
  BY <1>3, <1>4 DEF Led93Alike, Led93State
<1>6. Led93Req.cmd # "SET_IMM_LED"
  BY <1>2
<1> HIDE DEF b
<1>7. Led93Ready(b)
  <2>1. Led93Moves(b) /\ Led93Lit(b)
    BY <1>2 DEF Led93Moves, Led93Lit
  <2> QED
    BY <1>2, <1>5, <2>1, Led93AlikeReady
<1>8. \A x \in boards : Led93May(x)
  BY <1>7, Led93AnswerMay DEF Led93Ready
<1> HIDE DEF boards
<1> QED
  BY <1>1, <1>8, Led93TakeIsRight

(* SET_AUTO_SHIFT has a count that the board has.                          *)
LEMMA Led93ShiftKeeps ==
  ASSUME Led93Inv, led15093_req_set_auto_shift
  PROVE  Led93Right
<1> DEFINE b == [Led93Board EXCEPT !.led_count = Led93Req.data[1]]
           boards == Led93Acknowledge(b)
<1>1. Led93Take("SET_AUTO_SHIFT", boards)
  BY DEF led15093_req_set_auto_shift
<1>2. led93.busy /\ led93.written # <<>> /\ Led93Req.cmd = "SET_AUTO_SHIFT"
  BY <1>1 DEF Led93Take
<1>3. Led93Board \in Led93State /\ Led93Alike(Led93Board)
      /\ Led93Board.boardadr = led93.boardadr
  BY <1>2, Led93BoardIs
<1>4. b \in Led93State
  <2>1. Led93Req \in Led93Frame
    BY <1>2, Led93First
  <2>2. Led93Req.data \in Seq(Nat) /\ Len(Led93Req.data) = 1 /\ Led93Req.data[1] <= Led93Leds
    BY <1>2, <2>1 DEF Led93Frame
  <2>3. Led93Req.data[1] \in 0..Led93Leds
    BY <2>2, Led93Assumption DEF Led93Assumption
  <2> QED
    BY <1>3, <2>3 DEF Led93State
<1>5. Led93Alike(b)
  BY <1>3, <1>4 DEF Led93Alike, Led93State
<1>6. b.boardadr = led93.boardadr
  BY <1>3 DEF Led93State
<1> HIDE DEF b
<1>7. Led93Ready(b)
  BY <1>2, <1>5, <1>6, Led93AlikeReady DEF Led93Moves, Led93Lit
<1>8. \A x \in boards : Led93May(x)
  BY <1>7, Led93AnswerMay DEF Led93Ready
<1> HIDE DEF boards
<1> QED
  BY <1>1, <1>8, Led93TakeIsRight

(* SET_DISABLE_RESPONSE sets it, or is a question.                         *)
LEMMA Led93ResponseKeeps ==
  ASSUME Led93Inv, led15093_req_set_response
  PROVE  Led93Right
<1> DEFINE cmd == "SET_DISABLE_RESPONSE"
           on == Led93Req.data[1] = 0
           b == [Led93Board EXCEPT !.enable_response = on]
           c == IF Led93Req.data = <<>> THEN Led93Board ELSE b
<1>1. Led93Take(cmd, Led93Answer(c))
  BY DEF led15093_req_set_response
<1>2. led93.busy /\ led93.written # <<>> /\ Led93Req.cmd = cmd
  BY <1>1 DEF Led93Take
<1>3. Led93Board \in Led93State /\ Led93Alike(Led93Board)
      /\ Led93Board.boardadr = led93.boardadr
  BY <1>2, Led93BoardIs
<1>4. on \in BOOLEAN
  OBVIOUS
<1> HIDE DEF on
<1>5. b \in Led93State
  BY <1>3, <1>4 DEF Led93State
<1>6. Led93Alike(b)
  BY <1>3, <1>5 DEF Led93Alike, Led93State
<1>7. b.boardadr = led93.boardadr
  BY <1>3 DEF Led93State
<1> HIDE DEF b
<1>8. Led93Alike(c) /\ c.boardadr = led93.boardadr
  BY <1>3, <1>6, <1>7
<1> HIDE DEF c
<1>9. Led93Ready(c)
  BY <1>2, <1>8, Led93AlikeReady DEF Led93Moves, Led93Lit
<1>10. \A x \in Led93Answer(c) : Led93May(x)
  BY <1>9, Led93AnswerMay
<1> QED
  BY <1>1, <1>10, Led93TakeIsRight

(* SET_ID gives an address that is not 0, and an assigned one to none but  *)
(* the node that it is sent to.                                            *)
LEMMA Led93IdKeeps ==
  ASSUME Led93Inv, led15093_req_set_id
  PROVE  Led93Right
<1> DEFINE cmd == "SET_ID"
           adr == Led93Req.data[1]
           bad == [Led93Board EXCEPT !.boardstatus = @ \cup {"CMD_ERR_PARAM"}]
           b == [Led93Board EXCEPT !.boardadr = adr]
           kept == Led93Req.dest = 0 /\ led93.boardadr # 0
           c == IF kept THEN Led93Board ELSE b
           boards == IF adr = 0 THEN {bad} ELSE Led93Answer(c)
<1>1. Led93Take(cmd, boards)
  BY DEF led15093_req_set_id
<1>2. led93.busy /\ led93.written # <<>> /\ Led93Req.cmd = cmd
  BY <1>1 DEF Led93Take
<1>3. Led93Board \in Led93State /\ Led93Alike(Led93Board)
      /\ Led93Board.boardadr = led93.boardadr
  BY <1>2, Led93BoardIs
<1>4. adr \in Nat
  <2>1. Led93Req \in Led93Frame
    BY <1>2, Led93First
  <2>2. Led93Req.data \in Seq(Nat) /\ Len(Led93Req.data) = 1
    BY <1>2, <2>1 DEF Led93Frame
  <2> QED
    BY <2>2
<1> HIDE DEF adr
<1>5. b \in Led93State /\ bad \in Led93State
  BY <1>3, <1>4 DEF Led93State
<1>6. Led93Alike(b) /\ Led93Alike(bad)
  BY <1>3, <1>5 DEF Led93Alike, Led93State
<1>7. bad.boardadr = led93.boardadr
  BY <1>3 DEF Led93State
<1> HIDE DEF b, bad
<1>8. Led93Alike(c) /\ (c.boardadr = led93.boardadr \/ led93.boardadr = 0 \/ Led93Req.dest # 0)
  BY <1>3, <1>6
<1> HIDE DEF c
<1>9. Led93Ready(bad) /\ Led93Ready(c)
  BY <1>2, <1>6, <1>7, <1>8, Led93AlikeReady DEF Led93Moves, Led93Lit
<1>10. \A x \in Led93Answer(c) : Led93May(x)
  BY <1>9, Led93AnswerMay
<1>11. \A x \in boards : Led93May(x)
  BY <1>9, <1>10 DEF Led93Ready
<1> HIDE DEF boards
<1> QED
  BY <1>1, <1>11, Led93TakeIsRight

(* GET_BOARD_STATUS may clear the status before it is told.                *)
LEMMA Led93StatusKeeps ==
  ASSUME Led93Inv, led15093_req_get_board_status
  PROVE  Led93Right
<1> DEFINE cmd == "GET_BOARD_STATUS"
           c == Led93ClearStatus(Led93Board)
<1>1. Led93Take(cmd, IF Led93Req.data = <<1>> THEN Led93Encode(c, TRUE)
                     ELSE Led93Answer(Led93Board))
  BY DEF led15093_req_get_board_status
<1>2. led93.busy /\ led93.written # <<>> /\ Led93Req.cmd = cmd
  BY <1>1 DEF Led93Take
<1>3. Led93Board \in Led93State /\ Led93Ready(Led93Board)
  BY <1>2, Led93BoardIs, Led93AlikeReady DEF Led93Moves, Led93Lit
<1>4. Led93May(Led93Board)
  BY <1>3 DEF Led93Ready
<1>5. CASE Led93Req.data = <<1>>
  <2>1. c = [Led93Board EXCEPT !.boardstatus = {}, !.status_code = "OK"]
    BY DEF Led93ClearStatus
  <2>2. c \in Led93State
    BY <1>3, <2>1 DEF Led93State
  <2>3. /\ c.status_code = "OK" /\ c.busy = Led93Board.busy /\ c.written = Led93Board.written
        /\ c.reply = Led93Board.reply /\ c.fd = Led93Board.fd
        /\ c.started = Led93Board.started /\ c.start_hr = Led93Board.start_hr
        /\ c.boardadr = Led93Board.boardadr
    BY <1>3, <2>1 DEF Led93State
  <2> HIDE DEF c
  <2>4. Led93May(c)
    BY <1>2, <1>4, <2>2, <2>3
      DEF Led93May, Led93Tells, Led93Opened, Led93Moves, Led93Lit
  <2>5. \A x \in Led93Encode(c, TRUE) : Led93May(x)
    BY <2>3, <2>4, Led93EncodeMay
  <2> QED
    BY <1>1, <1>5, <2>5, Led93TakeIsRight
<1>6. CASE Led93Req.data # <<1>>
  BY <1>1, <1>6, Led93Answers
<1> QED
  BY <1>5, <1>6

(* The colours that a frame has data for are those of its data.            *)
LEMMA Led93CopyIs ==
  ASSUME NEW leds \in Led93Lights, NEW data \in Seq(Led93Colour)
  PROVE  /\ Led93Copy(leds, data) \in Led93Lights
         /\ \A i \in 1..Led93Leds : i <= Len(data) => Led93Copy(leds, data)[i] = data[i]
  BY DEF Led93Copy, Led93Lights

(* A frame with more colours than there are LEDs is refused.               *)
LEMMA Led93FitsKeep ==
  ASSUME Led93Inv, NEW cmd, NEW boards, Led93Take(cmd, Led93IfItFits(boards)),
         Len(Led93Req.data) <= led93.led_count => \A b \in boards : Led93Ready(b)
  PROVE  Led93Right
<1> DEFINE bad == [Led93Board EXCEPT !.report_code = "ERR1"]
<1>1. led93.busy /\ led93.written # <<>> /\ Led93Req.cmd = cmd
  BY DEF Led93Take
<1>2. CASE Len(Led93Req.data) > led93.led_count
  <2>1. Led93Board \in Led93State /\ Led93Alike(Led93Board)
        /\ Led93Board.boardadr = led93.boardadr
    BY <1>1, Led93BoardIs
  <2>2. bad \in Led93State
    BY <2>1 DEF Led93State
  <2>3. Led93Alike(bad) /\ bad.boardadr = led93.boardadr
    BY <2>1, <2>2 DEF Led93Alike, Led93State
  <2> HIDE DEF bad
  <2>4. ~(Len(Led93Req.data) <= led93.led_count)
    <3>1. led93.led_count \in Nat /\ Len(Led93Req.data) \in Nat
      <4>1. Led93Req \in Led93Frame /\ led93.led_count \in 0..Led93Leds
        BY <1>1, Led93First DEF Led93Inv, Led93State
      <4>2. Led93Req.data \in Seq(Nat)
        BY <4>1 DEF Led93Frame
      <4> QED
        BY <4>1, <4>2, Led93Assumption DEF Led93Assumption
    <3> QED
      BY <1>2, <3>1
  <2>5. Led93Ready(bad)
    BY <1>1, <2>3, <2>4, Led93AlikeReady DEF Led93Moves, Led93Lit
  <2>6. Led93IfItFits(boards) = {bad}
    BY <1>2 DEF Led93IfItFits, bad
  <2> QED
    BY <2>5, <2>6, Led93TakeIsRight DEF Led93Ready
<1>3. CASE ~(Len(Led93Req.data) > led93.led_count)
  <2>1. Len(Led93Req.data) <= led93.led_count
    <3>1. led93.led_count \in Nat /\ Len(Led93Req.data) \in Nat
      <4>1. Led93Req \in Led93Frame /\ led93.led_count \in 0..Led93Leds
        BY <1>1, Led93First DEF Led93Inv, Led93State
      <4>2. Led93Req.data \in Seq(Nat)
        BY <4>1 DEF Led93Frame
      <4> QED
        BY <4>1, <4>2, Led93Assumption DEF Led93Assumption
    <3> QED
      BY <1>3, <3>1
  <2>2. \A x \in Led93IfItFits(boards) : Led93May(x)
    BY <1>3, <2>1, Led93AnswerMay DEF Led93IfItFits
  <2> QED
    BY <2>2, Led93TakeIsRight
<1> QED
  BY <1>2, <1>3

(* SET_LED stores the colours.                                             *)
LEMMA Led93SetLedKeeps ==
  ASSUME Led93Inv, led15093_req_set_led
  PROVE  Led93Right
<1> DEFINE leds == Led93Copy(Led93Board.led, Led93Req.data)
           b == [Led93Board EXCEPT !.led = leds]
<1>1. Led93Take("SET_LED", Led93IfItFits({b}))
  BY DEF led15093_req_set_led
<1>2. led93.busy /\ led93.written # <<>> /\ Led93Req.cmd = "SET_LED"
  BY <1>1 DEF Led93Take
<1>3. Led93Board \in Led93State /\ Led93Alike(Led93Board)
      /\ Led93Board.boardadr = led93.boardadr
  BY <1>2, Led93BoardIs
<1>4. leds \in Led93Lights
  <2>1. Led93Req.data \in Seq(Led93Colour)
    BY <1>2, Led93First DEF Led93Frame
  <2>2. Led93Board.led \in Led93Lights
    BY <1>3 DEF Led93State
  <2> QED
    BY <2>1, <2>2, Led93CopyIs
<1> HIDE DEF leds
<1>5. b \in Led93State
  BY <1>3, <1>4 DEF Led93State
<1>6. Led93Alike(b) /\ b.boardadr = led93.boardadr
  BY <1>3, <1>5 DEF Led93Alike, Led93State
<1> HIDE DEF b
<1>7. Led93Ready(b)
  BY <1>2, <1>6, Led93AlikeReady DEF Led93Moves, Led93Lit
<1> QED
  BY <1>1, <1>7, Led93FitsKeep

(* SET_FADE_LED stores the colours.                                        *)
LEMMA Led93FadeLedKeeps ==
  ASSUME Led93Inv, led15093_req_set_fade_led
  PROVE  Led93Right
<1> DEFINE leds == Led93Copy(Led93Board.led, Led93Req.data)
           b == [Led93Board EXCEPT !.led = leds]
<1>1. Led93Take("SET_FADE_LED", Led93IfItFits({b}))
  BY DEF led15093_req_set_fade_led
<1>2. led93.busy /\ led93.written # <<>> /\ Led93Req.cmd = "SET_FADE_LED"
  BY <1>1 DEF Led93Take
<1>3. Led93Board \in Led93State /\ Led93Alike(Led93Board)
      /\ Led93Board.boardadr = led93.boardadr
  BY <1>2, Led93BoardIs
<1>4. leds \in Led93Lights
  <2>1. Led93Req.data \in Seq(Led93Colour)
    BY <1>2, Led93First DEF Led93Frame
  <2>2. Led93Board.led \in Led93Lights
    BY <1>3 DEF Led93State
  <2> QED
    BY <2>1, <2>2, Led93CopyIs
<1> HIDE DEF leds
<1>5. b \in Led93State
  BY <1>3, <1>4 DEF Led93State
<1>6. Led93Alike(b) /\ b.boardadr = led93.boardadr
  BY <1>3, <1>5 DEF Led93Alike, Led93State
<1> HIDE DEF b
<1>7. Led93Ready(b)
  BY <1>2, <1>6, Led93AlikeReady DEF Led93Moves, Led93Lit
<1> QED
  BY <1>1, <1>7, Led93FitsKeep

(* SET_MAX_BRIGHT stores what nobody looks at.                             *)
LEMMA Led93BrightKeeps ==
  ASSUME Led93Inv, led15093_req_set_max_bright
  PROVE  Led93Right
<1>1. Led93Take("SET_MAX_BRIGHT", Led93IfItFits({Led93Board}))
  BY DEF led15093_req_set_max_bright
<1>2. led93.busy /\ led93.written # <<>> /\ Led93Req.cmd = "SET_MAX_BRIGHT"
  BY <1>1 DEF Led93Take
<1>3. Led93Ready(Led93Board)
  BY <1>2, Led93BoardIs, Led93AlikeReady DEF Led93Moves, Led93Lit
<1> QED
  BY <1>1, <1>3, Led93FitsKeep

(* SET_IMM_LED shows the request, which begins with its data.              *)
LEMMA Led93ImmKeeps ==
  ASSUME Led93Inv, led15093_req_set_imm_led
  PROVE  Led93Right
<1> DEFINE boards == {[Led93Board EXCEPT !.shown = leds, !.led = Led93Copy(@, Led93Req.data)] :
                        leds \in Led93Request(Led93Req.data)}
<1>1. Led93Take("SET_IMM_LED", Led93IfItFits(boards))
  BY DEF led15093_req_set_imm_led
<1>2. led93.busy /\ led93.written # <<>> /\ Led93Req.cmd = "SET_IMM_LED"
  BY <1>1 DEF Led93Take
<1>3. Led93Board \in Led93State /\ Led93Alike(Led93Board)
      /\ Led93Board.boardadr = led93.boardadr
  BY <1>2, Led93BoardIs
<1>4. Led93Req.data \in Seq(Led93Colour)
  BY <1>2, Led93First DEF Led93Frame
<1>5. ASSUME NEW b \in boards, Len(Led93Req.data) <= led93.led_count
      PROVE  Led93Ready(b)
  <2>1. PICK leds \in Led93Request(Led93Req.data) :
          b = [Led93Board EXCEPT !.shown = leds, !.led = Led93Copy(@, Led93Req.data)]
    BY <1>5
  <2> HIDE DEF boards
  <2> DEFINE new == Led93Copy(Led93Board.led, Led93Req.data)
  <2>2. /\ new \in Led93Lights
        /\ \A i \in 1..Led93Leds : i <= Len(Led93Req.data) => new[i] = Led93Req.data[i]
    <3>1. Led93Board.led \in Led93Lights
      BY <1>3 DEF Led93State
    <3> QED
      BY <1>4, <3>1, Led93CopyIs
  <2>3. leds \in Led93Lights /\ \A i \in 1..Len(Led93Req.data) : leds[i] = Led93Req.data[i]
    BY DEF Led93Request, Led93Lights
  <2>4. b = [Led93Board EXCEPT !.shown = leds, !.led = new]
    BY <1>3, <2>1 DEF Led93State
  <2> HIDE DEF new
  <2>5. b \in Led93State
    BY <1>3, <2>2, <2>3, <2>4 DEF Led93State
  <2>6. b.shown = leds /\ b.led = new /\ b.boardadr = led93.boardadr /\ Led93Alike(b)
    BY <1>3, <2>4, <2>5 DEF Led93Alike, Led93State
  <2>7. \A i \in 1..Len(Led93Req.data) : b.shown[i] = b.led[i]
    <3>1. led93.led_count \in 0..Led93Leds /\ Led93Leds \in Nat
      BY Led93Assumption DEF Led93Assumption, Led93Inv, Led93State
    <3>2. Len(Led93Req.data) \in Nat
      BY <1>4, LenProperties
    <3>3. Len(Led93Req.data) <= Led93Leds
      <4> DEFINE n == Len(Led93Req.data)
                 k == led93.led_count
      <4>1. n \in Nat /\ k \in 0..Led93Leds /\ n <= k
        BY <1>5, <3>1, <3>2
      <4> HIDE DEF n, k
      <4>2. n <= Led93Leds
        BY <3>1, <4>1
      <4> QED
        BY <4>2 DEF n
    <3> SUFFICES ASSUME NEW i \in 1..Len(Led93Req.data) PROVE b.shown[i] = b.led[i]
      OBVIOUS
    <3>4. i \in 1..Led93Leds /\ i <= Len(Led93Req.data)
      BY <3>1, <3>2, <3>3
    <3>5. leds[i] = Led93Req.data[i] /\ new[i] = Led93Req.data[i]
      BY <2>2, <2>3, <3>4
    <3> QED
      BY <2>6, <3>5
  <2> QED
    BY <1>2, <2>6, <2>7, Led93AlikeReady DEF Led93Moves, Led93Lit
<1> HIDE DEF boards
<1> QED
  BY <1>1, <1>5, Led93FitsKeep

-----------------------------------------------------------------------------
(* The requests of the game's side, and a frame that fails.                *)
LEMMA Led93HandleKeeps ==
  ASSUME Led93Inv,
         \/ led15093_open \/ led15093_close
         \/ \E n \in Led93Reads : led15093_read(n)
  PROVE  Led93Right
<1>1. led93 \in Led93State /\ ~led93.busy /\ Led93Opened(led93)
  BY DEF Led93Inv, led15093_open, led15093_close, led15093_read
<1>2. PICK fd \in BOOLEAN, started \in BOOLEAN, hr \in {"S_OK", "E_FAIL"}, n \in 0..Led93Capacity :
        /\ led93' = [led93 EXCEPT !.fd = fd, !.started = started, !.start_hr = hr, !.nbytes = n]
        /\ fd => started /\ hr = "S_OK"
  <2>1. led93.nbytes \in 0..Led93Capacity /\ led93.start_hr \in {"S_OK", "E_FAIL"}
        /\ led93.started \in BOOLEAN /\ led93.fd \in BOOLEAN
    BY <1>1 DEF Led93State
  <2>2. led93 = [led93 EXCEPT !.fd = led93.fd, !.started = led93.started,
                   !.start_hr = led93.start_hr, !.nbytes = led93.nbytes]
    BY <1>1 DEF Led93State
  <2>3. CASE led15093_open
    <3>1. PICK hr \in {"S_OK", "E_FAIL"} :
            led93' = [led93 EXCEPT !.started = TRUE, !.start_hr = hr, !.fd = (hr = "S_OK")]
      BY <2>1, <2>3 DEF led15093_open
    <3> DEFINE fd == hr = "S_OK"
    <3>2. fd \in BOOLEAN /\ (fd => hr = "S_OK")
      OBVIOUS
    <3>3. led93' = [led93 EXCEPT !.started = TRUE, !.start_hr = hr, !.fd = fd]
      BY <3>1
    <3> HIDE DEF fd
    <3>4. led93' = [led93 EXCEPT !.fd = fd, !.started = TRUE, !.start_hr = hr,
                      !.nbytes = led93.nbytes]
      BY <1>1, <3>3 DEF Led93State
    <3> QED
      BY <2>1, <3>2, <3>4
  <2>4. CASE led15093_close
    <3>1. led93' = [led93 EXCEPT !.fd = FALSE, !.started = led93.started,
                      !.start_hr = led93.start_hr, !.nbytes = led93.nbytes]
      BY <1>1, <2>4 DEF Led93State, led15093_close
    <3> QED
      BY <2>1, <3>1
  <2>5. ASSUME NEW n \in Led93Reads, led15093_read(n)
        PROVE  \E m \in 0..Led93Capacity : led93' = [led93 EXCEPT !.fd = led93.fd,
                 !.started = led93.started, !.start_hr = led93.start_hr, !.nbytes = m]
    <3> DEFINE m == IF led93.nbytes > n THEN led93.nbytes - n ELSE 0
    <3>1. m \in 0..Led93Capacity
      <4>1. n \in Nat /\ Led93Capacity \in Nat
        BY Led93Assumption DEF Led93Assumption
      <4> QED
        BY <2>1, <4>1
    <3>2. led93' = [led93 EXCEPT !.nbytes = m]
      BY <2>5 DEF led15093_read
    <3> HIDE DEF m
    <3>3. led93' = [led93 EXCEPT !.fd = led93.fd,
                 !.started = led93.started, !.start_hr = led93.start_hr, !.nbytes = m]
      BY <1>1, <3>2 DEF Led93State
    <3> QED
      BY <3>1, <3>3
  <2>6. led93.fd => led93.started /\ led93.start_hr = "S_OK"
    BY <1>1 DEF Led93Opened
  <2> QED
    BY <2>1, <2>3, <2>4, <2>5, <2>6
<1>3. led93' \in Led93State
  BY <1>1, <1>2 DEF Led93State
<1>4. /\ led93'.fd = fd /\ led93'.started = started /\ led93'.start_hr = hr
      /\ led93'.busy = led93.busy /\ led93'.written = led93.written
      /\ led93'.last_hr = led93.last_hr /\ led93'.reply = led93.reply
      /\ led93'.status_code = led93.status_code /\ led93'.sumErr = led93.sumErr
      /\ led93'.boardadr = led93.boardadr
  BY <1>1, <1>2 DEF Led93State
<1>5. Led93Inv'
  BY <1>2, <1>3, <1>4 DEF Led93Inv, Led93Tells, Led93Opened, Led93Known
<1>6. Led93ShowsStep /\ Led93AddressStep
  BY <1>1, <1>4 DEF Led93ShowsStep, Led93AddressStep
<1> QED
  BY <1>5, <1>6 DEF Led93Right

(* A write of the game puts its frames behind what is left.                *)
LEMMA Led93WriteKeeps ==
  ASSUME Led93Inv, NEW frames \in Led93Writes, led15093_write(frames)
  PROVE  Led93Right
<1> DEFINE w == led93.written \o frames
<1>1. led93 \in Led93State /\ ~led93.busy
  BY DEF Led93Inv, led15093_write
<1>2. led93' = [led93 EXCEPT !.written = w, !.busy = TRUE]
  BY DEF led15093_write
<1>3. w \in Seq(Led93Frame) /\ Len(w) <= Led93WrittenMax
  <2>1. led93.written \in Seq(Led93Frame) /\ frames \in Seq(Led93Frame)
    BY <1>1, Led93Assumption DEF Led93State, Led93Assumption
  <2>2. Len(led93.written) + Len(frames) <= Led93WrittenMax
    BY DEF led15093_write
  <2> DEFINE v == led93.written
  <2>3. v \in Seq(Led93Frame) /\ Len(v) + Len(frames) <= Led93WrittenMax
    BY <2>1, <2>2
  <2> HIDE DEF v
  <2>4. v \o frames \in Seq(Led93Frame) /\ Len(v \o frames) = Len(v) + Len(frames)
    BY <2>1, <2>3
  <2> QED
    BY <2>3, <2>4 DEF v
<1> HIDE DEF w
<1>4. led93' \in Led93State
  BY <1>1, <1>2, <1>3 DEF Led93State
<1>5. /\ led93'.fd = led93.fd /\ led93'.started = led93.started
      /\ led93'.start_hr = led93.start_hr /\ led93'.busy = TRUE /\ led93'.written = w
      /\ led93'.reply = led93.reply
      /\ led93'.status_code = led93.status_code /\ led93'.sumErr = led93.sumErr
      /\ led93'.boardadr = led93.boardadr
  BY <1>1, <1>2 DEF Led93State
<1>6. Led93Inv'
  BY <1>3, <1>4, <1>5 DEF Led93Inv, Led93Tells, Led93Opened, Led93Known
<1>7. Led93ShowsStep /\ Led93AddressStep
  BY <1>1, <1>5 DEF Led93ShowsStep, Led93AddressStep
<1> QED
  BY <1>6, <1>7 DEF Led93Right

(* With no frame left, the write returns.                                  *)
LEMMA Led93ReturnKeeps ==
  ASSUME Led93Inv, led15093_return
  PROVE  Led93Right
<1>1. led93 \in Led93State /\ led93.written = <<>>
      /\ led93' = [led93 EXCEPT !.busy = FALSE, !.last_hr = "S_FALSE"]
  BY DEF Led93Inv, led15093_return
<1>2. led93' \in Led93State
  BY <1>1 DEF Led93State
<1>3. /\ led93'.fd = led93.fd /\ led93'.started = led93.started
      /\ led93'.start_hr = led93.start_hr /\ led93'.written = led93.written
      /\ led93'.reply = led93.reply
      /\ led93'.status_code = led93.status_code /\ led93'.sumErr = led93.sumErr
      /\ led93'.boardadr = led93.boardadr
  BY <1>1 DEF Led93State
<1>4. Led93Inv'
  BY <1>1, <1>2, <1>3 DEF Led93Inv, Led93Tells, Led93Opened, Led93Known
<1>5. Led93ShowsStep /\ Led93AddressStep
  BY <1>1, <1>3 DEF Led93ShowsStep, Led93AddressStep
<1> QED
  BY <1>4, <1>5 DEF Led93Right

(* A frame that fails its checksum sets the status; what is behind it      *)
(* stays.                                                                  *)
LEMMA Led93DeframeKeeps ==
  ASSUME Led93Inv, led15093_deframe_error
  PROVE  Led93Right
<1> DEFINE w == Tail(led93.written)
<1>1. led93 \in Led93State /\ led93.written # <<>>
  BY DEF Led93Inv, led15093_deframe_error
<1>2. w \in Seq(Led93Frame) /\ Len(w) <= Led93WrittenMax
  BY <1>1, Led93First
<1>3. PICK hr \in {"CRC", "E_FAIL"}, status \in SUBSET {"UART_ERR_SUM", "CMD_ERR_PARAM"},
           code \in {"OK", "ERR_SUM"}, sum \in BOOLEAN :
        /\ led93' = [led93 EXCEPT !.written = w, !.busy = FALSE, !.last_hr = hr,
                       !.boardstatus = status, !.status_code = code, !.sumErr = sum]
        /\ code = "ERR_SUM" <=> sum
        /\ Head(led93.written).cmd = hr
  <2>1. /\ led93.boardstatus \in SUBSET {"UART_ERR_SUM", "CMD_ERR_PARAM"}
        /\ led93.status_code \in {"OK", "ERR_SUM"} /\ led93.sumErr \in BOOLEAN
        /\ led93.status_code = "ERR_SUM" <=> led93.sumErr
    BY <1>1 DEF Led93State, Led93Inv, Led93Known
  <2> HIDE DEF w
  <2>2. CASE /\ Head(led93.written).cmd = "CRC"
             /\ led93' = [led93 EXCEPT !.written = w, !.busy = FALSE, !.last_hr = "CRC",
                            !.boardstatus = @ \cup {"UART_ERR_SUM"},
                            !.status_code = "ERR_SUM", !.sumErr = TRUE]
    <3> DEFINE status == led93.boardstatus \cup {"UART_ERR_SUM"}
    <3>1. led93' = [led93 EXCEPT !.written = w, !.busy = FALSE, !.last_hr = "CRC",
                      !.boardstatus = status, !.status_code = "ERR_SUM", !.sumErr = TRUE]
      BY <1>1, <2>2 DEF Led93State
    <3>2. status \in SUBSET {"UART_ERR_SUM", "CMD_ERR_PARAM"}
      BY <2>1
    <3> HIDE DEF status
    <3> QED
      BY <2>2, <3>1, <3>2
  <2>3. CASE /\ Head(led93.written).cmd = "E_FAIL"
             /\ led93' = [led93 EXCEPT !.written = w, !.busy = FALSE, !.last_hr = "E_FAIL"]
    <3>1. led93' = [led93 EXCEPT !.written = w, !.busy = FALSE, !.last_hr = "E_FAIL",
                      !.boardstatus = led93.boardstatus, !.status_code = led93.status_code,
                      !.sumErr = led93.sumErr]
      BY <1>1, <2>3 DEF Led93State
    <3> QED
      BY <2>1, <2>3, <3>1
  <2> QED
    BY <2>2, <2>3 DEF led15093_deframe_error, w
<1> HIDE DEF w
<1>4. led93' \in Led93State
  BY <1>1, <1>2, <1>3 DEF Led93State
<1>5. /\ led93'.fd = led93.fd /\ led93'.started = led93.started
      /\ led93'.start_hr = led93.start_hr /\ led93'.written = w
      /\ led93'.reply = led93.reply /\ led93'.last_hr = hr
      /\ led93'.status_code = code /\ led93'.sumErr = sum
      /\ led93'.boardadr = led93.boardadr
  BY <1>1, <1>3 DEF Led93State
<1>6. Led93Inv'
  BY <1>2, <1>3, <1>4, <1>5 DEF Led93Inv, Led93Tells, Led93Opened, Led93Known
<1>7. Led93ShowsStep /\ Led93AddressStep
  BY <1>3, <1>5 DEF Led93ShowsStep, Led93AddressStep
<1> QED
  BY <1>6, <1>7 DEF Led93Right

-----------------------------------------------------------------------------
(* Every step of the board.                                                *)
LEMMA Led93StepRight ==
  ASSUME Led93Inv, Led93Next
  PROVE  Led93Right
<1>1. CASE Led93Command
  BY <1>1, Led93AnswersKeep, Led93ResetKeeps, Led93BootKeeps, Led93UnhandledKeeps,
     Led93ClearKeeps, Led93ShiftKeeps, Led93ResponseKeeps, Led93IdKeeps, Led93StatusKeeps,
     Led93SetLedKeeps, Led93FadeLedKeeps, Led93BrightKeeps, Led93ImmKeeps
     DEF Led93Command
<1>2. CASE \/ led15093_open \/ led15093_close
           \/ \E n \in Led93Reads : led15093_read(n)
  BY <1>2, Led93HandleKeeps
<1>3. ASSUME NEW frames \in Led93Writes, led15093_write(frames)
      PROVE  Led93Right
  BY <1>3, Led93WriteKeeps
<1>4. CASE led15093_return
  BY <1>4, Led93ReturnKeeps
<1>5. CASE led15093_deframe_error
  BY <1>5, Led93DeframeKeeps
<1> QED
  BY <1>1, <1>2, <1>3, <1>4, <1>5 DEF Led93Next

(* The invariant holds at first.                                           *)
LEMMA Led93InitInv ==
  Led93Init => Led93Inv
<1> SUFFICES ASSUME Led93Init PROVE Led93Inv
  OBVIOUS
<1>1. 0 \in Led93Colour /\ Led93Leds \in Nat /\ Led93Capacity \in Nat /\ Led93WrittenMax \in Nat
  BY Led93Assumption DEF Led93Assumption
<1>2. Led93Dark \in Led93Lights /\ Led93Leds \in 0..Led93Leds /\ 0 \in 0..Led93Capacity
  BY <1>1 DEF Led93Dark, Led93Lights
<1> DEFINE r == [status |-> "OK", err |-> FALSE, cleared |-> FALSE]
<1>3. r \in Led93Reply /\ r.status = "OK" /\ r.err = FALSE
  BY DEF Led93Reply
<1> HIDE DEF r
<1>4. led93 = [fd |-> FALSE, started |-> FALSE, start_hr |-> "S_OK", busy |-> FALSE,
           written |-> <<>>, nbytes |-> 0, last_hr |-> "S_FALSE",
           boardadr |-> 1, boardstatus |-> {}, status_code |-> "OK", report_code |-> "OK",
           enable_bootloader |-> FALSE, enable_response |-> TRUE,
           led_count |-> Led93Leds, led |-> Led93Dark, shown |-> Led93Dark,
           reply |-> r, sumErr |-> FALSE]
  BY DEF Led93Init, r
<1>5. <<>> \in Seq(Led93Frame)
  OBVIOUS
<1>6. led93 \in Led93State
  BY <1>2, <1>3, <1>4, <1>5 DEF Led93State
<1>7. /\ led93.fd = FALSE /\ led93.written = <<>> /\ led93.reply = r
      /\ led93.status_code = "OK" /\ led93.sumErr = FALSE
  BY <1>4
<1>8. Len(led93.written) <= Led93WrittenMax
  BY <1>1, <1>7
<1> QED
  BY <1>3, <1>6, <1>7, <1>8 DEF Led93Inv, Led93Tells, Led93Opened, Led93Known

(* The LED board 837-15093, for any writes, LEDs and sizes: a checksum     *)
(* error is told in one reply, frames stay behind only after one that      *)
(* failed, SET_IMM_LED shows the colours of its data, and an address that  *)
(* was given is only moved by CLEAR_ID or by a SET_ID for this node.       *)
THEOREM LedBoard93IsRight == Led93Spec => Led93IsRight
<1>1. Led93Inv /\ [Led93Next]_led93 => Led93Inv'
  <2> SUFFICES ASSUME Led93Inv, [Led93Next]_led93 PROVE Led93Inv'
    OBVIOUS
  <2>1. CASE Led93Next
    BY <2>1, Led93StepRight DEF Led93Right
  <2>2. CASE UNCHANGED led93
    BY <2>2 DEF Led93Inv, Led93Tells, Led93Opened, Led93Known
  <2> QED
    BY <2>1, <2>2
<1>2. Led93Inv => Led93TypeOK /\ Led93ErrorIsToldOnce /\ Led93LeftBehind
  <2> SUFFICES ASSUME Led93Inv PROVE Led93TypeOK /\ Led93ErrorIsToldOnce /\ Led93LeftBehind
    OBVIOUS
  <2>1. led93 \in Led93State /\ Led93Opened(led93) /\ Len(led93.written) <= Led93WrittenMax
    BY DEF Led93Inv
  <2>2. Led93TypeOK
    BY <2>1 DEF Led93TypeOK, Led93State, Led93Lights, Led93Opened
  <2>3. Led93ErrorIsToldOnce /\ Led93LeftBehind
    BY DEF Led93Inv, Led93Tells, Led93ErrorIsToldOnce, Led93LeftBehind
  <2> QED
    BY <2>2, <2>3
<1>3. Led93Inv /\ [Led93Next]_led93 =>
        [LET req == Head(led93.written)
         IN  led93.busy /\ led93.written # <<>> /\ req.cmd = "SET_IMM_LED"
               /\ Len(req.data) <= led93.led_count
             => \A i \in 1..Len(req.data) : led93'.shown[i] = led93'.led[i]]_led93
  BY Led93StepRight DEF Led93Right, Led93ShowsStep
<1>4. Led93Inv /\ [Led93Next]_led93 =>
        [led93.boardadr # 0 /\ led93'.boardadr # led93.boardadr =>
          \/ Head(led93.written).cmd = "CLEAR_ID"
          \/ Head(led93.written).cmd = "SET_ID" /\ Head(led93.written).dest # 0]_led93
  BY Led93StepRight DEF Led93Right, Led93AddressStep
<1> QED
  BY <1>1, <1>2, <1>3, <1>4, Led93InitInv, PTL
     DEF Led93Spec, Led93IsRight, Led93ShowsAtOnce, Led93AddressIsKept

-----------------------------------------------------------------------------
(* The LED board 837-15070.                                                *)

(* The colour of a LED and its speed.                                      *)
Led70Value == Nat \X Nat
(* The values of the LEDs.                                                 *)
Led70Lights == [Led70Index -> Led70Value]
(* What a board may be at: a frame, the start of the process, or nothing.  *)
Led70Requests == Led70Frames \cup {[cmd |-> "INIT"], [cmd |-> "none"]}
(* The board.                                                              *)
Led70State ==
  [fd : BOOLEAN, started : BOOLEAN, start_hr : {"S_OK", "E_FAIL"}, busy : BOOLEAN,
   dll : BOOLEAN, req : Led70Requests, at : {"open", "dispatch", "created", "opened"},
   leaked : BOOLEAN, nbytes : 0..Led70Capacity, gs : Led70Lights, gs_fade : Led70Lights,
   gs_fade_pending : SUBSET Led70Index, enable_bootloader : BOOLEAN,
   enable_response : BOOLEAN, calls : Seq(Led70Lights), touched : SUBSET Led70Index,
   asked : Led70Lights, answer : {"none", "stored", "strange", "eof"},
   stored : [Led70Address -> SUBSET Nat], torn : BOOLEAN]
(* The file of the EEPROM.                                                 *)
Led70File == [exists : BOOLEAN, bytes : Seq(Nat)]

(* An open port was started without an error.                              *)
Led70Opened(b) == b.fd => b.started /\ b.start_hr = "S_OK"

(* A LED that was set is, after the fades, as it was asked.                *)
Led70Shows(b) ==
  /\ b.gs_fade_pending \subseteq b.touched
  /\ \A i \in b.touched :
       /\ i \in b.gs_fade_pending => b.gs_fade[i] = b.asked[i]
       /\ i \notin b.gs_fade_pending => b.gs[i] = b.asked[i]

(* Each byte of the file is one it may be, and so is 0 behind its end,     *)
(* where a write that goes further puts it.                                *)
Led70Stores(b, f) ==
  /\ Len(f.bytes) <= Led70EepromSize
  /\ \A a \in Led70Address : a < Len(f.bytes) => f.bytes[a + 1] \in b.stored[a]
  /\ \A a \in Led70Address : a >= Len(f.bytes) => 0 \in b.stored[a]
  /\ b.at # "dispatch" /\ b.req.cmd = "EEPROM_WRITE" => b.req.data \in b.stored[b.req.addr]
  /\ b.answer # "strange"

(* A file that exists is whole, is being created, or never was.            *)
Led70Whole(b, f) ==
  /\ ~f.exists => f.bytes = <<>>
  /\ b.at = "opened" => f.exists
  /\ b.at = "created" => f.exists /\ f.bytes = <<>>
  /\ f.exists /\ ~b.torn => b.at = "created" \/ Len(f.bytes) = Led70EepromSize
  /\ b.at = "created" /\ ~b.busy => b.torn
  /\ b.answer = "eof" => b.torn

(* What is true of the board and its file at any time.                     *)
Led70Good(b, f) ==
  /\ b \in Led70State /\ f \in Led70File
  /\ Led70Opened(b) /\ Led70Shows(b) /\ Led70Stores(b, f) /\ Led70Whole(b, f)

(* The invariant of the board.                                             *)
Led70Inv == Led70Good(led70, eeprom)

(* What GS_UPDATE does.                                                    *)
Led70Updates(b, c) ==
  b.dll /\ b.touched # {} /\ c.touched = {} /\ c.fd =>
    LET calls == c.calls
    IN  /\ \A i \in b.touched : calls[Len(calls)][i] = b.asked[i]
        /\ b.gs_fade_pending # {} =>
             Len(calls) = 2 /\ \A i \in Led70Index : calls[1][i][2] = 0

(* What a step has to keep.                                                *)
Led70Right == Led70Inv' /\ Led70Updates(led70, led70')

(* It differs from b in what was sent, and has no request.                 *)
Led70Replied(b, x) ==
  /\ x \in Led70State /\ ~x.busy /\ x.req = Led70NoReq
  /\ x.fd = b.fd /\ x.started = b.started /\ x.start_hr = b.start_hr /\ x.dll = b.dll
  /\ x.at = b.at /\ x.leaked = b.leaked /\ x.gs = b.gs /\ x.gs_fade = b.gs_fade
  /\ x.gs_fade_pending = b.gs_fade_pending /\ x.calls = b.calls /\ x.touched = b.touched
  /\ x.asked = b.asked /\ x.answer = b.answer /\ x.stored = b.stored /\ x.torn = b.torn

-----------------------------------------------------------------------------
(* A reply leaves the rest of the board as it is.                          *)
LEMMA Led70Replies ==
  ASSUME NEW b \in Led70State
  PROVE  /\ \A x \in Led70Encode(b) : Led70Replied(b, x)
         /\ \A x \in Led70Acknowledge(b) : Led70Replied(b, x)
         /\ Led70Replied(b, Led70Idle(b))
<1>1. Led70NoReq \in Led70Requests /\ b.nbytes \in Nat /\ Led70Capacity \in Nat \ {0}
      /\ Led70ReplySize \in Nat \ {0} /\ b.nbytes <= Led70Capacity
  BY Led70Assumption DEF Led70NoReq, Led70Requests, Led70State
<1>2. Led70Replied(b, Led70Idle(b))
  BY <1>1 DEF Led70Replied, Led70Idle, Led70State
<1>3. ASSUME NEW x \in Led70Encode(b) PROVE Led70Replied(b, x)
  <2>1. PICK n \in 0..Led70Capacity :
             x = [b EXCEPT !.nbytes = n, !.busy = FALSE, !.req = Led70NoReq]
    <3> DEFINE end == b.nbytes + Led70ReplySize
               ends == IF end <= Led70Capacity THEN {end}
                       ELSE {n \in {Led70Capacity - 1, Led70Capacity} : n >= b.nbytes}
    <3>1. ends \subseteq 0..Led70Capacity
      BY <1>1
    <3>2. x \in {[b EXCEPT !.nbytes = n, !.busy = FALSE, !.req = Led70NoReq] : n \in ends}
      BY <1>3 DEF Led70Encode
    <3> HIDE DEF ends
    <3> QED
      BY <3>1, <3>2
  <2>2. x \in Led70State
    BY <1>1, <2>1 DEF Led70State
  <2> QED
    BY <2>1, <2>2 DEF Led70Replied, Led70State
<1>4. \A x \in Led70Acknowledge(b) : Led70Replied(b, x)
  BY <1>2, <1>3 DEF Led70Acknowledge
<1> QED
  BY <1>2, <1>3, <1>4

(* So it keeps what is good.                                               *)
LEMMA Led70RepliedGood ==
  ASSUME NEW b, NEW f, Led70Good(b, f), b.at # "created", NEW x, Led70Replied(b, x)
  PROVE  Led70Good(x, f)
<1>1. x.req.cmd = "none"
  BY DEF Led70Replied, Led70NoReq
<1>2. Led70Opened(x) /\ Led70Shows(x)
  BY DEF Led70Good, Led70Replied, Led70Opened, Led70Shows
<1>3. Led70Stores(x, f)
  BY <1>1 DEF Led70Good, Led70Replied, Led70Stores
<1>4. Led70Whole(x, f)
  BY DEF Led70Good, Led70Replied, Led70Whole
<1> QED
  BY <1>2, <1>3, <1>4 DEF Led70Good, Led70Replied

(* A command whose board is good, and that forgets no LED, is right.       *)
LEMMA Led70TakeIsRight ==
  ASSUME Led70Inv, NEW cmd, NEW replies, Led70Take(cmd, replies),
         \A x \in replies : Led70Good(x, eeprom) /\ Led70Updates(led70, x)
  PROVE  Led70Right
  BY DEF Led70Take, Led70Right, Led70Inv

(* A step that forgets no LED is not one that shows them.                  *)
LEMMA Led70Forgets ==
  ASSUME NEW b, NEW x, b.touched \subseteq x.touched
  PROVE  Led70Updates(b, x)
  BY DEF Led70Updates

(* A command that changes the board to n and answers.                      *)
LEMMA Led70Answers ==
  ASSUME Led70Inv, NEW cmd, NEW n, NEW replies, Led70Take(cmd, replies),
         replies \in {Led70Encode(n), Led70Acknowledge(n), {Led70Idle(n)}},
         Led70Good(n, eeprom), n.at = led70.at, led70.touched \subseteq n.touched
  PROVE  Led70Right
<1>1. led70.at = "dispatch"
  BY DEF Led70Take
<1>2. ASSUME NEW x \in replies PROVE Led70Good(x, eeprom) /\ Led70Updates(led70, x)
  <2>1. n \in Led70State
    BY DEF Led70Good
  <2>2. Led70Replied(n, x)
    BY <1>2, <2>1, Led70Replies
  <2>3. Led70Good(x, eeprom)
    BY <1>1, <2>2, Led70RepliedGood
  <2>4. led70.touched \subseteq x.touched
    BY <2>2 DEF Led70Replied
  <2> QED
    BY <2>3, <2>4, Led70Forgets
<1> QED
  BY <1>2, Led70TakeIsRight

(* Most commands only answer.                                              *)
LEMMA Led70PlainKeeps ==
  ASSUME Led70Inv,
         \/ led15070_req_set_input \/ led15070_req_set_normal_12bit
         \/ led15070_req_set_palette_7_normal_led \/ led15070_req_set_palette_6_flash_led
         \/ led15070_req_set_15dc_out \/ led15070_req_set_15gs_out \/ led15070_req_set_psc_max
         \/ led15070_req_set_fet_output \/ led15070_req_set_gs_palette
         \/ led15070_req_dc_update \/ led15070_req_rotate \/ led15070_req_set_dc_data
         \/ led15070_req_board_info \/ led15070_req_board_status \/ led15070_req_fw_sum
         \/ led15070_req_protocol_ver \/ led15070_req_fw_update \/ Led70Ignored
  PROVE  Led70Right
<1>1. Led70Good(led70, eeprom) /\ led70.touched \subseteq led70.touched
  BY DEF Led70Inv
<1>2. \A cmd, replies :
        /\ Led70Take(cmd, replies)
        /\ replies \in {Led70Encode(led70), Led70Acknowledge(led70), {Led70Idle(led70)}}
        => Led70Right
  BY <1>1, Led70Answers
<1>3. CASE led15070_req_set_input \/ led15070_req_set_normal_12bit \/ led15070_req_set_palette_7_normal_led \/ led15070_req_set_palette_6_flash_led
  BY <1>2, <1>3
    DEF led15070_req_set_input, led15070_req_set_normal_12bit,
        led15070_req_set_palette_7_normal_led, led15070_req_set_palette_6_flash_led
<1>4. CASE led15070_req_set_15dc_out \/ led15070_req_set_15gs_out \/ led15070_req_set_psc_max \/ led15070_req_set_fet_output
  BY <1>2, <1>4
    DEF led15070_req_set_15dc_out, led15070_req_set_15gs_out, led15070_req_set_psc_max,
        led15070_req_set_fet_output
<1>5. CASE led15070_req_set_gs_palette \/ led15070_req_dc_update \/ led15070_req_rotate \/ led15070_req_set_dc_data
  BY <1>2, <1>5
    DEF led15070_req_set_gs_palette, led15070_req_dc_update, led15070_req_rotate,
        led15070_req_set_dc_data
<1>6. CASE led15070_req_board_info \/ led15070_req_board_status \/ led15070_req_fw_sum \/ led15070_req_protocol_ver \/ led15070_req_fw_update
  BY <1>2, <1>6
    DEF led15070_req_board_info, led15070_req_board_status, led15070_req_fw_sum,
        led15070_req_protocol_ver, led15070_req_fw_update
<1>7. CASE Led70Ignored
  BY <1>2, <1>7 DEF Led70Ignored
<1> QED
  BY <1>3, <1>4, <1>5, <1>6, <1>7

(* The switches of the board.                                              *)
LEMMA Led70SwitchKeeps ==
  ASSUME Led70Inv, NEW n, NEW boot \in BOOLEAN, NEW resp \in BOOLEAN,
         n = [led70 EXCEPT !.enable_bootloader = boot, !.enable_response = resp]
  PROVE  Led70Good(n, eeprom) /\ n.at = led70.at /\ n.touched = led70.touched
<1>1. led70 \in Led70State
  BY DEF Led70Inv, Led70Good
<1>2. n \in Led70State
  BY <1>1 DEF Led70State
<1>3. /\ n.fd = led70.fd /\ n.started = led70.started /\ n.start_hr = led70.start_hr
      /\ n.at = led70.at /\ n.gs = led70.gs /\ n.gs_fade = led70.gs_fade /\ n.busy = led70.busy
      /\ n.gs_fade_pending = led70.gs_fade_pending /\ n.touched = led70.touched
      /\ n.asked = led70.asked /\ n.answer = led70.answer /\ n.stored = led70.stored
      /\ n.torn = led70.torn /\ n.req = led70.req
  BY <1>1 DEF Led70State
<1>4. Led70Opened(n) /\ Led70Shows(n)
  BY <1>3 DEF Led70Inv, Led70Good, Led70Opened, Led70Shows
<1>5. Led70Stores(n, eeprom)
  BY <1>3 DEF Led70Inv, Led70Good, Led70Stores
<1>6. Led70Whole(n, eeprom)
  BY <1>3 DEF Led70Inv, Led70Good, Led70Whole
<1> QED
  BY <1>2, <1>3, <1>4, <1>5, <1>6 DEF Led70Inv, Led70Good

(* RESET, ACK_ON, ACK_OFF and TO_BOOT_MODE.                                *)
LEMMA Led70SettingsKeep ==
  ASSUME Led70Inv,
         \/ led15070_req_reset \/ led15070_req_ack_on \/ led15070_req_ack_off
         \/ led15070_req_to_boot_mode
  PROVE  Led70Right
<1>1. led70 \in Led70State
  BY DEF Led70Inv, Led70Good
<1>2. \A cmd, boot, resp :
        /\ boot \in BOOLEAN /\ resp \in BOOLEAN
        /\ Led70Take(cmd, Led70Encode([led70 EXCEPT !.enable_bootloader = boot,
                                                    !.enable_response = resp]))
        => Led70Right
  <2> SUFFICES ASSUME NEW cmd, NEW boot \in BOOLEAN, NEW resp \in BOOLEAN, NEW n,
                      n = [led70 EXCEPT !.enable_bootloader = boot, !.enable_response = resp],
                      Led70Take(cmd, Led70Encode(n))
               PROVE  Led70Right
    OBVIOUS
  <2>1. Led70Good(n, eeprom) /\ n.at = led70.at /\ led70.touched \subseteq n.touched
    BY Led70SwitchKeeps
  <2> QED
    BY <2>1, Led70Answers
<1>3. led70.enable_bootloader \in BOOLEAN /\ led70.enable_response \in BOOLEAN
  BY <1>1 DEF Led70State
<1>4. CASE led15070_req_reset
  BY <1>2, <1>4 DEF led15070_req_reset
<1>5. CASE led15070_req_ack_on
  <2>1. [led70 EXCEPT !.enable_response = TRUE]
          = [led70 EXCEPT !.enable_bootloader = led70.enable_bootloader, !.enable_response = TRUE]
    BY <1>1 DEF Led70State
  <2> QED
    BY <1>2, <1>3, <1>5, <2>1 DEF led15070_req_ack_on
<1>6. CASE led15070_req_ack_off
  <2>1. [led70 EXCEPT !.enable_response = FALSE]
          = [led70 EXCEPT !.enable_bootloader = led70.enable_bootloader, !.enable_response = FALSE]
    BY <1>1 DEF Led70State
  <2> QED
    BY <1>2, <1>3, <1>6, <2>1 DEF led15070_req_ack_off
<1>7. CASE led15070_req_to_boot_mode
  <2>1. [led70 EXCEPT !.enable_bootloader = TRUE]
          = [led70 EXCEPT !.enable_bootloader = TRUE, !.enable_response = led70.enable_response]
    BY <1>1 DEF Led70State
  <2> QED
    BY <1>2, <1>3, <1>7, <2>1 DEF led15070_req_to_boot_mode
<1> QED
  BY <1>4, <1>5, <1>6, <1>7

(* Colours that are set: at once, or faded to.                             *)
LEMMA Led70SetGood ==
  ASSUME NEW b, NEW f, Led70Good(b, f), NEW leds \in SUBSET Led70Index,
         NEW value \in Led70Value
  PROVE  /\ Led70Good(Led70SetNow(b, leds, value), f)
         /\ Led70SetNow(b, leds, value).at = b.at
         /\ b.touched \subseteq Led70SetNow(b, leds, value).touched
         /\ Led70Good(Led70SetFade(b, leds, value), f)
         /\ Led70SetFade(b, leds, value).at = b.at
         /\ b.touched \subseteq Led70SetFade(b, leds, value).touched
<1> DEFINE set(lights) == [i \in Led70Index |-> IF i \in leds THEN value ELSE lights[i]]
           n == Led70SetNow(b, leds, value)
           m == Led70SetFade(b, leds, value)
<1>1. b \in Led70State
  BY DEF Led70Good
<1>2. \A lights \in Led70Lights :
        /\ set(lights) \in Led70Lights
        /\ \A i \in Led70Index : /\ i \in leds => set(lights)[i] = value
                                 /\ i \notin leds => set(lights)[i] = lights[i]
  BY DEF Led70Lights
<1>3. /\ b.gs \in Led70Lights /\ b.gs_fade \in Led70Lights /\ b.asked \in Led70Lights
      /\ b.touched \subseteq Led70Index /\ b.gs_fade_pending \subseteq Led70Index
  BY <1>1 DEF Led70State
<1> HIDE DEF set
<1>4. /\ n = [b EXCEPT !.touched = @ \cup leds, !.asked = set(@), !.gs = set(@),
                       !.gs_fade_pending = @ \ leds]
      /\ m = [b EXCEPT !.touched = @ \cup leds, !.asked = set(@), !.gs_fade = set(@),
                       !.gs_fade_pending = @ \cup leds]
  BY <1>1 DEF Led70SetNow, Led70SetFade, Led70Asked, Led70State, set
<1> HIDE DEF n, m
<1>5. n \in Led70State /\ m \in Led70State
  BY <1>1, <1>2, <1>3, <1>4 DEF Led70State
<1>6. \A x \in {n, m} :
        /\ x.fd = b.fd /\ x.started = b.started /\ x.start_hr = b.start_hr /\ x.at = b.at
        /\ x.busy = b.busy /\ x.answer = b.answer /\ x.stored = b.stored /\ x.torn = b.torn
        /\ x.req = b.req /\ x.touched = b.touched \cup leds
  BY <1>1, <1>4 DEF Led70State
<1>7. \A x \in {n, m} : Led70Opened(x) /\ Led70Stores(x, f) /\ Led70Whole(x, f)
  <2> SUFFICES ASSUME NEW x \in {n, m}
               PROVE  Led70Opened(x) /\ Led70Stores(x, f) /\ Led70Whole(x, f)
    OBVIOUS
  <2>1. Led70Opened(x)
    BY <1>6 DEF Led70Good, Led70Opened
  <2>2. Led70Stores(x, f)
    BY <1>6 DEF Led70Good, Led70Stores
  <2>3. Led70Whole(x, f)
    BY <1>6 DEF Led70Good, Led70Whole
  <2> QED
    BY <2>1, <2>2, <2>3
<1>8. Led70Shows(b)
  BY DEF Led70Good
<1>9. Led70Shows(n)
  <2>1. n.asked = set(b.asked) /\ n.gs = set(b.gs) /\ n.gs_fade = b.gs_fade
        /\ n.gs_fade_pending = b.gs_fade_pending \ leds /\ n.touched = b.touched \cup leds
    BY <1>1, <1>4 DEF Led70State
  <2> QED
    BY <1>2, <1>3, <1>8, <2>1 DEF Led70Shows
<1>10. Led70Shows(m)
  <2>1. m.asked = set(b.asked) /\ m.gs = b.gs /\ m.gs_fade = set(b.gs_fade)
        /\ m.gs_fade_pending = b.gs_fade_pending \cup leds /\ m.touched = b.touched \cup leds
    BY <1>1, <1>4 DEF Led70State
  <2> QED
    BY <1>2, <1>3, <1>8, <2>1 DEF Led70Shows
<1>11. f \in Led70File
  BY DEF Led70Good
<1>12. Led70Good(n, f) /\ Led70Good(m, f)
  BY <1>5, <1>7, <1>9, <1>10, <1>11 DEF Led70Good
<1> QED
  BY <1>6, <1>12 DEF n, m

(* The three commands that set colours.                                    *)
LEMMA Led70ColoursKeep ==
  ASSUME Led70Inv,
         \/ led15070_req_set_normal_8bit \/ led15070_req_set_multi_flash_8bit
         \/ led15070_req_set_multi_fade_8bit
  PROVE  Led70Right
<1> DEFINE req == led70.req
           range == led15070_calc_range(req.start, req.count, req.skip)
<1>1. Led70Good(led70, eeprom) /\ led70.req \in Led70Requests
  BY DEF Led70Inv, Led70Good, Led70State
<1>2. req.cmd \notin {"INIT", "none"} => req \in Led70Frames
  BY <1>1 DEF Led70Requests
<1>3. range \in SUBSET Led70Index
  BY DEF led15070_calc_range
<1> HIDE DEF range
<1>4. CASE led15070_req_set_normal_8bit
  <2> DEFINE n == Led70SetNow(led70, {req.start}, <<req.colour, 0>>)
  <2>1. Led70Take("SET_NORMAL_8BIT", Led70Acknowledge(n)) /\ req.cmd = "SET_NORMAL_8BIT"
    BY <1>4 DEF led15070_req_set_normal_8bit, Led70Take
  <2>2. {req.start} \in SUBSET Led70Index /\ <<req.colour, 0>> \in Led70Value
    BY <1>2, <2>1, Led70Assumption DEF Led70Value
  <2>3. Led70Good(n, eeprom) /\ n.at = led70.at /\ led70.touched \subseteq n.touched
    BY <1>1, <2>2, Led70SetGood
  <2> HIDE DEF n
  <2> QED
    BY <2>1, <2>3, Led70Answers
<1>5. CASE led15070_req_set_multi_flash_8bit
  <2> DEFINE n == Led70SetNow(led70, range, <<req.colour, req.speed>>)
  <2>1. Led70Take("SET_MULTI_FLASH_8BIT", Led70Acknowledge(n))
        /\ req.cmd = "SET_MULTI_FLASH_8BIT"
    BY <1>5 DEF led15070_req_set_multi_flash_8bit, Led70Take, range
  <2>2. <<req.colour, req.speed>> \in Led70Value
    BY <1>2, <2>1, Led70Assumption DEF Led70Value
  <2>3. Led70Good(n, eeprom) /\ n.at = led70.at /\ led70.touched \subseteq n.touched
    BY <1>1, <1>3, <2>2, Led70SetGood
  <2> HIDE DEF n
  <2> QED
    BY <2>1, <2>3, Led70Answers
<1>6. CASE led15070_req_set_multi_fade_8bit
  <2> DEFINE n == Led70SetFade(led70, range, <<req.colour, req.speed>>)
  <2>1. Led70Take("SET_MULTI_FADE_8BIT", Led70Acknowledge(n))
        /\ req.cmd = "SET_MULTI_FADE_8BIT"
    BY <1>6 DEF led15070_req_set_multi_fade_8bit, Led70Take, range
  <2>2. <<req.colour, req.speed>> \in Led70Value
    BY <1>2, <2>1, Led70Assumption DEF Led70Value
  <2>3. Led70Good(n, eeprom) /\ n.at = led70.at /\ led70.touched \subseteq n.touched
    BY <1>1, <1>3, <2>2, Led70SetGood
  <2> HIDE DEF n
  <2> QED
    BY <2>1, <2>3, Led70Answers
<1> QED
  BY <1>4, <1>5, <1>6

-----------------------------------------------------------------------------
(* GS_UPDATE.  The last call has each LED as it was asked; before a fade   *)
(* there is one with all of them at rest.                                  *)
LEMMA Led70CallsShow ==
  ASSUME NEW b \in Led70State, Led70Shows(b)
  PROVE  /\ Led70Calls(b) \in Seq(Led70Lights) /\ Len(Led70Calls(b)) \in {1, 2}
         /\ \A i \in b.touched : Led70Calls(b)[Len(Led70Calls(b))][i] = b.asked[i]
         /\ b.gs_fade_pending # {} =>
              Len(Led70Calls(b)) = 2 /\ \A i \in Led70Index : Led70Calls(b)[1][i][2] = 0
<1> DEFINE rest == [i \in Led70Index |-> <<b.gs[i][1], 0>>]
           fades == [i \in Led70Index |-> IF i \in b.gs_fade_pending THEN b.gs_fade[i] ELSE b.gs[i]]
<1>1. /\ b.gs \in Led70Lights /\ b.gs_fade \in Led70Lights /\ b.touched \subseteq Led70Index
      /\ b.gs_fade_pending \subseteq Led70Index
  BY DEF Led70State
<1>2. rest \in Led70Lights /\ fades \in Led70Lights
  BY <1>1 DEF Led70Lights, Led70Value
<1>3. \A i \in Led70Index : rest[i][2] = 0
  OBVIOUS
<1>4. \A i \in b.touched : fades[i] = b.asked[i]
  BY <1>1 DEF Led70Shows
<1>5. Led70Calls(b) = IF b.gs_fade_pending = {} THEN <<b.gs>> ELSE <<rest, fades>>
  BY DEF Led70Calls
<1> HIDE DEF rest, fades
<1>6. CASE b.gs_fade_pending = {}
  <2>1. Led70Calls(b) = <<b.gs>>
    BY <1>5, <1>6
  <2>2. \A i \in b.touched : b.gs[i] = b.asked[i]
    BY <1>6 DEF Led70Shows
  <2> QED
    BY <1>1, <1>6, <2>1, <2>2
<1>7. CASE b.gs_fade_pending # {}
  <2>1. Led70Calls(b) = <<rest, fades>>
    BY <1>5, <1>7
  <2> QED
    BY <1>2, <1>3, <1>4, <2>1
<1> QED
  BY <1>6, <1>7

(* GS_UPDATE forgets the LEDs that were set, having shown them.            *)
LEMMA Led70UpdateKeeps ==
  ASSUME Led70Inv, led15070_req_gs_update
  PROVE  Led70Right
<1> DEFINE calls == IF led70.dll THEN Led70Calls(led70) ELSE led70.calls
           n == [led70 EXCEPT !.calls = calls, !.gs_fade_pending = {}, !.touched = {},
                              !.asked = Led70Off]
<1>1. led70 \in Led70State /\ Led70Shows(led70) /\ eeprom \in Led70File
  BY DEF Led70Inv, Led70Good
<1>2. calls \in Seq(Led70Lights)
  BY <1>1, Led70CallsShow DEF Led70State
<1>3. Led70Off \in Led70Lights
  BY DEF Led70Off, Led70Lights, Led70Value
<1>4. Led70Take("GS_UPDATE", Led70Acknowledge(n))
  <2>1. n = [led70 EXCEPT !.calls = IF led70.dll THEN Led70Calls(led70) ELSE @,
                          !.gs_fade_pending = {}, !.touched = {}, !.asked = Led70Off]
    BY <1>1 DEF Led70State
  <2> HIDE DEF n
  <2> QED
    BY <2>1 DEF led15070_req_gs_update
<1>5. led70.at = "dispatch"
  BY <1>4 DEF Led70Take
<1> HIDE DEF calls
<1>6. n \in Led70State
  BY <1>1, <1>2, <1>3 DEF Led70State
<1>7. /\ n.fd = led70.fd /\ n.started = led70.started /\ n.start_hr = led70.start_hr
      /\ n.at = led70.at /\ n.busy = led70.busy /\ n.answer = led70.answer
      /\ n.stored = led70.stored /\ n.torn = led70.torn /\ n.req = led70.req
      /\ n.calls = calls /\ n.gs_fade_pending = {} /\ n.touched = {}
  BY <1>1 DEF Led70State
<1> HIDE DEF n
<1>8. Led70Good(n, eeprom)
  <2>1. Led70Opened(n) /\ Led70Shows(n)
    BY <1>7 DEF Led70Inv, Led70Good, Led70Opened, Led70Shows
  <2>2. Led70Stores(n, eeprom)
    BY <1>7 DEF Led70Inv, Led70Good, Led70Stores
  <2>3. Led70Whole(n, eeprom)
    BY <1>7 DEF Led70Inv, Led70Good, Led70Whole
  <2> QED
    BY <1>1, <1>6, <2>1, <2>2, <2>3 DEF Led70Good
<1>9. ASSUME NEW x \in Led70Acknowledge(n)
      PROVE  Led70Good(x, eeprom) /\ Led70Updates(led70, x)
  <2>1. Led70Replied(n, x)
    BY <1>6, Led70Replies
  <2>2. Led70Good(x, eeprom)
    BY <1>5, <1>7, <1>8, <2>1, Led70RepliedGood
  <2>3. x.calls = calls
    BY <1>7, <2>1 DEF Led70Replied
  <2>4. led70.dll => calls = Led70Calls(led70)
    BY DEF calls
  <2>5. Led70Updates(led70, x)
    BY <1>1, <2>3, <2>4, Led70CallsShow DEF Led70Updates
  <2> QED
    BY <2>2, <2>5
<1> QED
  BY <1>4, <1>9, Led70TakeIsRight

-----------------------------------------------------------------------------
(* The EEPROM.  What is being written is one of what may be there.         *)
LEMMA Led70BeginsKeeps ==
  ASSUME Led70Inv, Led70EepromBegins
  PROVE  Led70Right
<1> DEFINE req == led70.req
           stored == IF req.cmd = "EEPROM_READ" THEN led70.stored
                     ELSE [led70.stored EXCEPT ![req.addr] = @ \cup {req.data}]
<1>1. /\ led70 \in Led70State /\ Led70Opened(led70) /\ Led70Shows(led70)
      /\ Led70Stores(led70, eeprom) /\ Led70Whole(led70, eeprom) /\ eeprom \in Led70File
  BY DEF Led70Inv, Led70Good
<1>2. req.cmd \in {"EEPROM_READ", "EEPROM_WRITE"} /\ led70.at = "dispatch" /\ led70.busy
  BY DEF Led70EepromBegins
<1>3. req \in Led70Frames
  BY <1>1, <1>2 DEF Led70State, Led70Requests
<1>4. req.addr \in Led70Address /\ (req.cmd = "EEPROM_WRITE" => req.data \in Nat)
  BY <1>2, <1>3, Led70Assumption
<1>5. led70.stored \in [Led70Address -> SUBSET Nat]
  BY <1>1 DEF Led70State
<1>6. stored \in [Led70Address -> SUBSET Nat]
  BY <1>2, <1>4, <1>5
<1>7. \A a \in Led70Address : led70.stored[a] \subseteq stored[a]
  BY <1>4, <1>5
<1>8. req.cmd = "EEPROM_WRITE" => req.data \in stored[req.addr]
  BY <1>4, <1>5
<1>9. led70' = [led70 EXCEPT !.at = "open", !.stored = stored] /\ eeprom' = eeprom
  BY <1>1 DEF Led70EepromBegins, Led70State
<1> HIDE DEF stored
<1>10. led70' \in Led70State
  BY <1>1, <1>6, <1>9 DEF Led70State
<1>11. /\ led70'.fd = led70.fd /\ led70'.started = led70.started
       /\ led70'.start_hr = led70.start_hr /\ led70'.at = "open" /\ led70'.stored = stored
       /\ led70'.gs = led70.gs /\ led70'.gs_fade = led70.gs_fade
       /\ led70'.gs_fade_pending = led70.gs_fade_pending /\ led70'.touched = led70.touched
       /\ led70'.asked = led70.asked /\ led70'.answer = led70.answer /\ led70'.req = req
       /\ led70'.torn = led70.torn /\ led70'.busy
  BY <1>1, <1>2, <1>9 DEF Led70State
<1>12. Led70Opened(led70') /\ Led70Shows(led70')
  BY <1>1, <1>11 DEF Led70Opened, Led70Shows
<1>13. Led70Stores(led70', eeprom')
  BY <1>1, <1>7, <1>8, <1>9, <1>11 DEF Led70Stores
<1>14. Led70Whole(led70', eeprom')
  BY <1>1, <1>2, <1>9, <1>11 DEF Led70Whole
<1>15. Led70Updates(led70, led70')
  BY <1>11, Led70Forgets
<1> QED
  BY <1>1, <1>9, <1>10, <1>12, <1>13, <1>14, <1>15 DEF Led70Right, Led70Inv, Led70Good

(* A call that fails ends the request.                                     *)
LEMMA Led70FailsGood ==
  ASSUME NEW b, NEW f, Led70Good(b, f), b.at # "created"
  PROVE  Led70Good(Led70EepromFails(b), f) /\ Led70EepromFails(b).touched = b.touched
<1> DEFINE i == Led70Idle(b)
           n == Led70EepromFails(b)
<1>1. b \in Led70State
  BY DEF Led70Good
<1>2. Led70Replied(b, i)
  BY <1>1, Led70Replies
<1>3. Led70Good(i, f)
  BY <1>2, Led70RepliedGood
<1>4. n = [i EXCEPT !.answer = "none"]
  BY DEF Led70EepromFails
<1>5. i \in Led70State /\ i.touched = b.touched
  BY <1>2 DEF Led70Replied
<1> HIDE DEF i, n
<1>6. n \in Led70State
  BY <1>4, <1>5 DEF Led70State
<1>7. /\ n.fd = i.fd /\ n.started = i.started /\ n.start_hr = i.start_hr
      /\ n.at = i.at /\ n.busy = i.busy /\ n.answer = "none"
      /\ n.stored = i.stored /\ n.torn = i.torn /\ n.req = i.req
      /\ n.gs = i.gs /\ n.gs_fade = i.gs_fade /\ n.asked = i.asked
      /\ n.gs_fade_pending = i.gs_fade_pending /\ n.touched = i.touched
  BY <1>4, <1>5 DEF Led70State
<1>8. Led70Opened(n) /\ Led70Shows(n)
  BY <1>3, <1>7 DEF Led70Good, Led70Opened, Led70Shows
<1>9. Led70Stores(n, f)
  BY <1>3, <1>7 DEF Led70Good, Led70Stores
<1>10. Led70Whole(n, f)
  BY <1>3, <1>7 DEF Led70Good, Led70Whole
<1> QED
  BY <1>3, <1>5, <1>6, <1>7, <1>8, <1>9, <1>10 DEF Led70Good, n

(* Where the request goes on.                                              *)
LEMMA Led70GoesOn ==
  ASSUME NEW b, NEW f, Led70Good(b, f), b.busy, b.at # "dispatch",
         NEW at \in {"created", "opened"}, NEW g \in Led70File,
         g.bytes = f.bytes, g.exists, at = "created" => g.bytes = <<>>,
         at = "opened" => b.torn \/ Len(g.bytes) = Led70EepromSize
  PROVE  LET n == [b EXCEPT !.at = at]
         IN  Led70Good(n, g) /\ n.touched = b.touched
<1> DEFINE n == [b EXCEPT !.at = at]
<1>1. b \in Led70State
  BY DEF Led70Good
<1>2. n \in Led70State
  BY <1>1 DEF Led70State
<1>3. /\ n.fd = b.fd /\ n.started = b.started /\ n.start_hr = b.start_hr
      /\ n.at = at /\ n.busy = b.busy /\ n.answer = b.answer
      /\ n.stored = b.stored /\ n.torn = b.torn /\ n.req = b.req
      /\ n.gs = b.gs /\ n.gs_fade = b.gs_fade /\ n.asked = b.asked
      /\ n.gs_fade_pending = b.gs_fade_pending /\ n.touched = b.touched
  BY <1>1 DEF Led70State
<1> HIDE DEF n
<1>4. Led70Opened(n) /\ Led70Shows(n)
  BY <1>3 DEF Led70Good, Led70Opened, Led70Shows
<1>5. Led70Stores(n, g)
  BY <1>3 DEF Led70Good, Led70Stores
<1>6. Led70Whole(n, g)
  BY <1>3 DEF Led70Good, Led70Whole
<1> QED
  BY <1>2, <1>3, <1>4, <1>5, <1>6 DEF Led70Good, n

(* The file is opened, or created.                                         *)
LEMMA Led70OpenFileKeeps ==
  ASSUME Led70Inv, led15070_eeprom_open
  PROVE  Led70Right
<1>1. Led70Good(led70, eeprom) /\ led70.busy /\ led70.at = "open" /\ eeprom \in Led70File
  BY DEF Led70Inv, Led70Good, led15070_eeprom_open
<1>2. CASE led70' = Led70EepromFails(led70) /\ eeprom' = eeprom
  <2>1. Led70Good(led70', eeprom') /\ led70'.touched = led70.touched
    BY <1>1, <1>2, Led70FailsGood
  <2> QED
    BY <2>1, Led70Forgets DEF Led70Right, Led70Inv
<1>3. CASE eeprom.exists /\ led70' = [led70 EXCEPT !.at = "opened"] /\ eeprom' = eeprom
  <2>1. led70.torn \/ Len(eeprom.bytes) = Led70EepromSize
    BY <1>1, <1>3 DEF Led70Good, Led70Whole
  <2>2. Led70Good(led70', eeprom') /\ led70'.touched = led70.touched
    BY <1>1, <1>3, <2>1, Led70GoesOn
  <2> QED
    BY <2>2, Led70Forgets DEF Led70Right, Led70Inv
<1>4. CASE /\ ~eeprom.exists /\ led70' = [led70 EXCEPT !.at = "created"]
           /\ eeprom' = [exists |-> TRUE, bytes |-> <<>>]
  <2>1. eeprom.bytes = <<>>
    BY <1>1, <1>4 DEF Led70Good, Led70Whole
  <2>2. eeprom' \in Led70File /\ eeprom'.bytes = <<>> /\ eeprom'.exists
    BY <1>4 DEF Led70File
  <2>3. Led70Good(led70', eeprom') /\ led70'.touched = led70.touched
    BY <1>1, <1>4, <2>1, <2>2, Led70GoesOn
  <2> QED
    BY <2>3, Led70Forgets DEF Led70Right, Led70Inv
<1> QED
  BY <1>2, <1>3, <1>4 DEF led15070_eeprom_open

(* Zeros are what each byte may be of a file that was just created.        *)
LEMMA Led70ZerosKeep ==
  ASSUME Led70Inv, Led70EepromZeros
  PROVE  Led70Right
<1> DEFINE zeros == [i \in 1..Led70EepromSize |-> 0]
<1>1. /\ Led70Good(led70, eeprom) /\ led70.busy /\ led70.at = "created"
      /\ eeprom \in Led70File /\ led70 \in Led70State
  BY DEF Led70Inv, Led70Good, Led70EepromZeros
<1>2. eeprom.exists /\ eeprom.bytes = <<>> /\ Led70EepromSize \in Nat \ {0}
  BY <1>1, Led70Assumption DEF Led70Good, Led70Whole
<1>3. zeros \in Seq(Nat) /\ Len(zeros) = Led70EepromSize
      /\ \A a \in Led70Address : zeros[a + 1] = 0
  BY <1>2 DEF Led70Address
<1> HIDE DEF zeros
<1>4. \A a \in Led70Address : a \in Nat /\ a < Led70EepromSize
  BY <1>2 DEF Led70Address
<1>5. \A a \in Led70Address : 0 \in led70.stored[a]
  <2>1. Len(eeprom.bytes) = 0
    BY <1>2
  <2> QED
    BY <1>1, <1>4, <2>1 DEF Led70Good, Led70Stores
<1>6. CASE /\ eeprom' = [eeprom EXCEPT !.bytes = zeros]
           /\ led70' = [led70 EXCEPT !.at = "opened"]
  <2> DEFINE n == led70'
  <2>1. eeprom' \in Led70File /\ eeprom'.bytes = zeros /\ eeprom'.exists
    BY <1>1, <1>2, <1>3, <1>6 DEF Led70File
  <2>2. n \in Led70State
    BY <1>1, <1>6 DEF Led70State
  <2>3. /\ n.fd = led70.fd /\ n.started = led70.started /\ n.start_hr = led70.start_hr
        /\ n.at = "opened" /\ n.answer = led70.answer /\ n.stored = led70.stored
        /\ n.torn = led70.torn /\ n.req = led70.req /\ n.gs = led70.gs
        /\ n.gs_fade = led70.gs_fade /\ n.asked = led70.asked
        /\ n.gs_fade_pending = led70.gs_fade_pending /\ n.touched = led70.touched
    BY <1>1, <1>6 DEF Led70State
  <2> HIDE DEF n
  <2>4. Led70Opened(n) /\ Led70Shows(n)
    BY <1>1, <2>3 DEF Led70Good, Led70Opened, Led70Shows
  <2>5. Led70Stores(n, eeprom')
    BY <1>1, <1>3, <1>4, <1>5, <2>1, <2>3, <1>2 DEF Led70Good, Led70Stores
  <2>6. Led70Whole(n, eeprom')
    BY <1>1, <1>3, <2>1, <2>3 DEF Led70Good, Led70Whole
  <2> QED
    BY <2>1, <2>2, <2>3, <2>4, <2>5, <2>6, Led70Forgets
      DEF Led70Right, Led70Inv, Led70Good, n
<1>7. CASE /\ led70' = [Led70EepromFails(led70) EXCEPT !.leaked = TRUE, !.torn = TRUE]
           /\ eeprom' = eeprom
  <2> DEFINE i == Led70Idle(led70)
             n == led70'
  <2>1. Led70Replied(led70, i)
    BY <1>1, Led70Replies
  <2>2. i \in Led70State /\ n = [i EXCEPT !.answer = "none", !.leaked = TRUE, !.torn = TRUE]
    BY <1>7, <2>1 DEF Led70EepromFails, Led70Replied, Led70State
  <2> HIDE DEF i, n
  <2>3. n \in Led70State
    BY <2>2 DEF Led70State
  <2>4. /\ n.fd = i.fd /\ n.started = i.started /\ n.start_hr = i.start_hr
        /\ n.at = i.at /\ n.answer = "none" /\ n.stored = i.stored /\ n.torn
        /\ n.req = i.req /\ n.gs = i.gs /\ n.gs_fade = i.gs_fade /\ n.asked = i.asked
        /\ n.gs_fade_pending = i.gs_fade_pending /\ n.touched = i.touched
    BY <2>2 DEF Led70State
  <2>5. Led70Opened(n) /\ Led70Shows(n)
    BY <1>1, <2>1, <2>4 DEF Led70Good, Led70Replied, Led70Opened, Led70Shows
  <2>6. n.req.cmd = "none"
    BY <2>1, <2>4 DEF Led70Replied, Led70NoReq
  <2>7. Led70Stores(n, eeprom)
    BY <1>1, <2>1, <2>4, <2>6 DEF Led70Good, Led70Replied, Led70Stores
  <2>8. Led70Whole(n, eeprom)
    BY <1>1, <2>1, <2>4 DEF Led70Good, Led70Replied, Led70Whole
  <2>9. n.touched = led70.touched
    BY <2>1, <2>4 DEF Led70Replied
  <2> QED
    BY <1>1, <1>7, <2>3, <2>5, <2>7, <2>8, <2>9, Led70Forgets
       DEF Led70Right, Led70Inv, Led70Good, n
<1> QED
  BY <1>6, <1>7 DEF Led70EepromZeros, zeros

(* A byte is put where it belongs, with zeros before it.                   *)
LEMMA Led70PutIs ==
  ASSUME NEW f \in Led70File, Len(f.bytes) <= Led70EepromSize, NEW addr \in Led70Address,
         NEW data \in Nat
  PROVE  LET g == Led70Put(f, addr, data)
         IN  /\ g \in Led70File /\ g.exists = f.exists
             /\ Len(f.bytes) <= Len(g.bytes) /\ Len(g.bytes) <= Led70EepromSize
             /\ addr < Len(g.bytes) /\ g.bytes[addr + 1] = data
             /\ \A a \in Led70Address : a # addr /\ a < Len(g.bytes) =>
                   g.bytes[a + 1] = IF a < Len(f.bytes) THEN f.bytes[a + 1] ELSE 0
<1> DEFINE n == Len(f.bytes)
           m == IF addr + 1 > n THEN addr + 1 ELSE n
           s == [i \in 1..m |-> IF i = addr + 1 THEN data ELSE IF i <= n THEN f.bytes[i] ELSE 0]
           g == Led70Put(f, addr, data)
<1>1. f.bytes \in Seq(Nat) /\ n \in Nat /\ Led70EepromSize \in Nat /\ addr \in Nat
      /\ addr < Led70EepromSize
  BY Led70Assumption DEF Led70File, Led70Address
<1>2. m \in Nat /\ n <= m /\ m <= Led70EepromSize /\ addr < m
  BY <1>1
<1>3. \A i \in 1..n : f.bytes[i] \in Nat
  BY <1>1
<1>4. g = [f EXCEPT !.bytes = s]
  BY DEF Led70Put
<1> HIDE DEF m, n
<1>5. s \in Seq(Nat) /\ Len(s) = m
  <2>1. \A i \in 1..m : s[i] \in Nat
    BY <1>1, <1>2, <1>3
  <2> QED
    BY <1>2, <2>1
<1>6. s[addr + 1] = data
  BY <1>1, <1>2
<1>7. \A a \in Led70Address : a \in Nat
  BY <1>1 DEF Led70Address
<1>8. ASSUME NEW a \in Led70Address, a # addr, a < m
      PROVE  s[a + 1] = IF a < n THEN f.bytes[a + 1] ELSE 0
  BY <1>1, <1>2, <1>7, <1>8
<1> HIDE DEF s, g
<1>9. g \in Led70File /\ g.bytes = s /\ g.exists = f.exists
  BY <1>4, <1>5 DEF Led70File
<1> QED
  BY <1>1, <1>2, <1>5, <1>6, <1>8, <1>9 DEF g, n

(* A write that succeeds has one byte there; one that fails may have.      *)
LEMMA Led70EepromWriteKeeps ==
  ASSUME Led70Inv, led15070_req_eeprom_write
  PROVE  Led70Right
<1> DEFINE req == led70.req
           f == Led70Put(eeprom, req.addr, req.data)
           b == led70
           n == [led70 EXCEPT !.answer = "none", !.stored[req.addr] = {req.data}]
<1>1. /\ Led70Good(b, eeprom) /\ b.busy /\ b.at = "opened" /\ req.cmd = "EEPROM_WRITE"
      /\ eeprom \in Led70File /\ b \in Led70State
  BY DEF Led70Inv, Led70Good, led15070_req_eeprom_write
<1>2. req \in Led70Frames
  BY <1>1 DEF Led70State, Led70Requests
<1>3. req.addr \in Led70Address /\ req.data \in Nat
  BY <1>1, <1>2, Led70Assumption
<1>4. Len(eeprom.bytes) <= Led70EepromSize
  BY <1>1 DEF Led70Good, Led70Stores
<1>5. /\ f \in Led70File /\ f.exists = eeprom.exists
      /\ Len(eeprom.bytes) <= Len(f.bytes) /\ Len(f.bytes) <= Led70EepromSize
      /\ req.addr < Len(f.bytes) /\ f.bytes[req.addr + 1] = req.data
      /\ \A a \in Led70Address : a # req.addr /\ a < Len(f.bytes) =>
            f.bytes[a + 1] = IF a < Len(eeprom.bytes) THEN eeprom.bytes[a + 1] ELSE 0
  BY <1>1, <1>3, <1>4, Led70PutIs
<1>6. /\ Len(eeprom.bytes) \in Nat /\ Len(f.bytes) \in Nat /\ Led70EepromSize \in Nat
      /\ \A a \in Led70Address : a \in Nat
  BY <1>1, <1>5, Led70Assumption DEF Led70File, Led70Address
<1>7. CASE eeprom' \in {eeprom, f} /\ led70' = Led70EepromFails(led70)
  <2> HIDE DEF f
  <2>1. Led70Stores(b, f)
    BY <1>1, <1>3, <1>5, <1>6 DEF Led70Good, Led70Stores
  <2>2. Led70Whole(b, f)
    BY <1>1, <1>5, <1>6 DEF Led70Good, Led70Whole
  <2>3. Led70Good(b, f)
    BY <1>1, <1>5, <2>1, <2>2 DEF Led70Good
  <2>4. Led70Good(led70', eeprom') /\ led70'.touched = led70.touched
    BY <1>1, <1>7, <2>3, Led70FailsGood
  <2> QED
    BY <2>4, Led70Forgets DEF Led70Right, Led70Inv
<1>8. CASE eeprom' = f /\ led70' \in Led70Encode(n)
  <2> HIDE DEF f
  <2>1. b.stored \in [Led70Address -> SUBSET Nat]
    BY <1>1 DEF Led70State
  <2> DEFINE stored == [b.stored EXCEPT ![req.addr] = {req.data}]
  <2>2. /\ stored \in [Led70Address -> SUBSET Nat] /\ stored[req.addr] = {req.data}
        /\ \A a \in Led70Address : a # req.addr => stored[a] = b.stored[a]
    BY <1>3, <2>1
  <2>3. n = [b EXCEPT !.answer = "none", !.stored = stored]
    BY <1>1 DEF Led70State
  <2> HIDE DEF stored, n
  <2>4. n \in Led70State
    BY <1>1, <2>2, <2>3 DEF Led70State
  <2>5. /\ n.fd = b.fd /\ n.started = b.started /\ n.start_hr = b.start_hr
        /\ n.at = b.at /\ n.busy = b.busy /\ n.answer = "none" /\ n.stored = stored
        /\ n.torn = b.torn /\ n.req = b.req /\ n.gs = b.gs /\ n.gs_fade = b.gs_fade
        /\ n.asked = b.asked /\ n.gs_fade_pending = b.gs_fade_pending
        /\ n.touched = b.touched
    BY <1>1, <2>3 DEF Led70State
  <2>6. Led70Opened(n) /\ Led70Shows(n)
    BY <1>1, <2>5 DEF Led70Good, Led70Opened, Led70Shows
  <2>7. Led70Stores(n, f)
    <3>1. Led70Stores(b, eeprom)
      BY <1>1 DEF Led70Good
    <3>2. ASSUME NEW a \in Led70Address, a < Len(f.bytes)
          PROVE  f.bytes[a + 1] \in n.stored[a]
      <4>1. CASE a = req.addr
        BY <1>5, <2>2, <2>5, <4>1
      <4>2. CASE a # req.addr
        BY <1>5, <1>6, <2>2, <2>5, <3>1, <3>2, <4>2 DEF Led70Stores
      <4> QED
        BY <4>1, <4>2
    <3>3. ASSUME NEW a \in Led70Address, a >= Len(f.bytes) PROVE 0 \in n.stored[a]
      BY <1>3, <1>5, <1>6, <2>2, <2>5, <3>1, <3>3 DEF Led70Stores
    <3> QED
      BY <1>5, <2>2, <2>5, <3>2, <3>3 DEF Led70Stores
  <2>8. Led70Whole(n, f)
    BY <1>1, <1>5, <1>6, <2>5 DEF Led70Good, Led70Whole
  <2>9. Led70Good(n, f)
    BY <1>5, <2>4, <2>6, <2>7, <2>8 DEF Led70Good
  <2>10. Led70Replied(n, led70')
    BY <1>8, <2>4, Led70Replies
  <2>11. Led70Good(led70', eeprom')
    BY <1>1, <1>8, <2>5, <2>9, <2>10, Led70RepliedGood
  <2>12. led70'.touched = led70.touched
    BY <2>5, <2>10 DEF Led70Replied
  <2> QED
    BY <2>11, <2>12, Led70Forgets DEF Led70Right, Led70Inv
<1> QED
  BY <1>7, <1>8 DEF led15070_req_eeprom_write

(* What is read is what may be there; a byte that is not there is missing  *)
(* from a file that is not whole.                                          *)
LEMMA Led70EepromReadKeeps ==
  ASSUME Led70Inv, led15070_req_eeprom_read
  PROVE  Led70Right
<1> DEFINE b == led70
           addr == led70.req.addr
<1>1. /\ Led70Good(b, eeprom) /\ b.busy /\ b.at = "opened" /\ b.req.cmd = "EEPROM_READ"
      /\ eeprom \in Led70File /\ b \in Led70State /\ eeprom' = eeprom
  BY DEF Led70Inv, Led70Good, led15070_req_eeprom_read
<1>2. b.req \in Led70Frames
  BY <1>1 DEF Led70State, Led70Requests
<1>3. addr \in Led70Address /\ addr \in Nat /\ addr < Led70EepromSize
      /\ Len(eeprom.bytes) \in Nat /\ Led70EepromSize \in Nat
  BY <1>1, <1>2, Led70Assumption DEF Led70Address, Led70File
<1>4. ASSUME NEW answer \in {"stored", "eof"}, answer = "eof" => b.torn
      PROVE  LET n == [led70 EXCEPT !.answer = answer]
             IN  n \in Led70State /\ Led70Good(n, eeprom) /\ n.at = b.at /\ n.touched = b.touched
  <2> DEFINE n == [led70 EXCEPT !.answer = answer]
  <2>1. n \in Led70State
    BY <1>1 DEF Led70State
  <2>2. /\ n.fd = b.fd /\ n.started = b.started /\ n.start_hr = b.start_hr
        /\ n.at = b.at /\ n.busy = b.busy /\ n.answer = answer /\ n.stored = b.stored
        /\ n.torn = b.torn /\ n.req = b.req /\ n.gs = b.gs /\ n.gs_fade = b.gs_fade
        /\ n.asked = b.asked /\ n.gs_fade_pending = b.gs_fade_pending
        /\ n.touched = b.touched
    BY <1>1 DEF Led70State
  <2> HIDE DEF n
  <2>3. Led70Opened(n) /\ Led70Shows(n)
    BY <1>1, <2>2 DEF Led70Good, Led70Opened, Led70Shows
  <2>4. Led70Stores(n, eeprom)
    BY <1>1, <2>2 DEF Led70Good, Led70Stores
  <2>5. Led70Whole(n, eeprom)
    BY <1>1, <1>4, <2>2 DEF Led70Good, Led70Whole
  <2> QED
    BY <1>1, <2>1, <2>2, <2>3, <2>4, <2>5 DEF Led70Good, n
<1>5. CASE led70' = Led70EepromFails(led70)
  <2>1. Led70Good(led70', eeprom') /\ led70'.touched = led70.touched
    BY <1>1, <1>5, Led70FailsGood
  <2> QED
    BY <2>1, Led70Forgets DEF Led70Right, Led70Inv
<1>6. CASE addr >= Len(eeprom.bytes) /\ led70' = [Led70Idle(led70) EXCEPT !.answer = "eof"]
  <2> DEFINE n == [led70 EXCEPT !.answer = "eof"]
  <2>1. b.torn
    BY <1>1, <1>3, <1>6 DEF Led70Good, Led70Whole
  <2>2. n \in Led70State /\ Led70Good(n, eeprom) /\ n.at = b.at /\ n.touched = b.touched
    BY <1>4, <2>1
  <2>3. led70' = Led70Idle(n)
    BY <1>1, <1>6 DEF Led70Idle, Led70State
  <2> HIDE DEF n
  <2>4. Led70Replied(n, led70')
    BY <2>2, <2>3, Led70Replies
  <2>5. Led70Good(led70', eeprom') /\ led70'.touched = led70.touched
    BY <1>1, <2>2, <2>4, Led70RepliedGood DEF Led70Replied
  <2> QED
    BY <2>5, Led70Forgets DEF Led70Right, Led70Inv
<1>7. CASE /\ addr < Len(eeprom.bytes)
           /\ led70' \in Led70Encode([led70 EXCEPT
                  !.answer = IF eeprom.bytes[addr + 1] \in led70.stored[addr] THEN "stored"
                             ELSE "strange"])
  <2> DEFINE n == [led70 EXCEPT !.answer = "stored"]
  <2>1. eeprom.bytes[addr + 1] \in led70.stored[addr]
    BY <1>1, <1>3, <1>7 DEF Led70Good, Led70Stores
  <2>2. n \in Led70State /\ Led70Good(n, eeprom) /\ n.at = b.at /\ n.touched = b.touched
    BY <1>4
  <2>3. led70' \in Led70Encode(n)
    BY <1>7, <2>1
  <2> HIDE DEF n
  <2>4. Led70Replied(n, led70')
    BY <2>2, <2>3, Led70Replies
  <2>5. Led70Good(led70', eeprom') /\ led70'.touched = led70.touched
    BY <1>1, <2>2, <2>4, Led70RepliedGood DEF Led70Replied
  <2> QED
    BY <2>5, Led70Forgets DEF Led70Right, Led70Inv
<1> QED
  BY <1>5, <1>6, <1>7 DEF led15070_req_eeprom_read

-----------------------------------------------------------------------------
(* A process that starts has no LED set, and opens the file.               *)
LEMMA Led70StartsGood ==
  ASSUME NEW dll \in BOOLEAN, NEW stored \in [Led70Address -> SUBSET Nat],
         NEW torn \in BOOLEAN, NEW f \in Led70File,
         Len(f.bytes) <= Led70EepromSize,
         \A a \in Led70Address : a < Len(f.bytes) => f.bytes[a + 1] \in stored[a],
         \A a \in Led70Address : a >= Len(f.bytes) => 0 \in stored[a],
         ~f.exists => f.bytes = <<>>,
         f.exists /\ ~torn => Len(f.bytes) = Led70EepromSize
  PROVE  LET n == Led70Board(dll, stored, torn)
         IN  Led70Good(n, f) /\ ~n.fd
<1> DEFINE n == Led70Board(dll, stored, torn)
<1>1. /\ Led70Off \in Led70Lights /\ [cmd |-> "INIT"] \in Led70Requests
      /\ 0 \in 0..Led70Capacity /\ <<>> \in Seq(Led70Lights)
  BY Led70Assumption DEF Led70Off, Led70Lights, Led70Value, Led70Requests
<1>2. n \in Led70State
  BY <1>1 DEF Led70Board, Led70State
<1>3. /\ ~n.fd /\ n.at = "open" /\ n.answer = "none" /\ n.stored = stored
      /\ n.torn = torn /\ n.req.cmd = "INIT" /\ n.gs_fade_pending = {} /\ n.touched = {}
  BY DEF Led70Board
<1> HIDE DEF n
<1>4. Led70Opened(n) /\ Led70Shows(n)
  BY <1>3 DEF Led70Opened, Led70Shows
<1>5. Led70Stores(n, f)
  BY <1>3 DEF Led70Stores
<1>6. Led70Whole(n, f)
  BY <1>3 DEF Led70Whole
<1> QED
  BY <1>2, <1>3, <1>4, <1>5, <1>6 DEF Led70Good, n

(* What was being created is torn when the process ends.                   *)
LEMMA Led70CrashKeeps ==
  ASSUME Led70Inv, Led70Crash
  PROVE  Led70Right
<1> DEFINE torn == led70.torn \/ led70.at = "created"
<1>1. /\ led70 \in Led70State /\ eeprom \in Led70File
      /\ Led70Stores(led70, eeprom) /\ Led70Whole(led70, eeprom)
  BY DEF Led70Inv, Led70Good
<1>2. led70.dll \in BOOLEAN /\ led70.stored \in [Led70Address -> SUBSET Nat]
      /\ torn \in BOOLEAN
  BY <1>1 DEF Led70State
<1>3. eeprom.exists /\ ~torn => Len(eeprom.bytes) = Led70EepromSize
  BY <1>1 DEF Led70Whole
<1>4. led70' = Led70Board(led70.dll, led70.stored, torn) /\ eeprom' = eeprom
  BY DEF Led70Crash
<1> HIDE DEF torn
<1>5. Led70Good(led70', eeprom) /\ ~led70'.fd
  BY <1>1, <1>2, <1>3, <1>4, Led70StartsGood DEF Led70Stores, Led70Whole
<1> QED
  BY <1>4, <1>5 DEF Led70Right, Led70Inv, Led70Updates

(* The invariant holds at first.                                           *)
LEMMA Led70InitInv ==
  Led70Init => Led70Inv
<1> SUFFICES ASSUME NEW dll \in BOOLEAN, eeprom = [exists |-> FALSE, bytes |-> <<>>],
                    led70 = Led70Board(dll, [a \in Led70Address |-> {0}], FALSE)
             PROVE  Led70Inv
  BY DEF Led70Init
<1> DEFINE stored == [a \in Led70Address |-> {0}]
<1>1. stored \in [Led70Address -> SUBSET Nat] /\ \A a \in Led70Address : 0 \in stored[a]
  OBVIOUS
<1>2. eeprom \in Led70File /\ eeprom.bytes = <<>> /\ Len(eeprom.bytes) = 0 /\ ~eeprom.exists
  BY DEF Led70File
<1>3. Led70EepromSize \in Nat /\ \A a \in Led70Address : a \in Nat
  BY Led70Assumption DEF Led70Address
<1> HIDE DEF stored
<1>4. led70 = Led70Board(dll, stored, FALSE)
  BY DEF stored
<1>5. Len(eeprom.bytes) <= Led70EepromSize /\ \A a \in Led70Address : ~(a < Len(eeprom.bytes))
  BY <1>2, <1>3
<1>6. Led70Good(led70, eeprom)
  BY ONLY <1>1, <1>2, <1>4, <1>5, Led70StartsGood, dll \in BOOLEAN
<1> QED
  BY <1>6 DEF Led70Inv

(* The requests of the game.                                               *)
LEMMA Led70HandleKeeps ==
  ASSUME Led70Inv,
         \/ led15070_open \/ led15070_close \/ led15070_read
         \/ \E req \in Led70Frames : led15070_write(req)
         \/ Led70EepromInit
  PROVE  Led70Right
<1> DEFINE b == led70
           n == led70'
<1>1. /\ Led70Good(b, eeprom) /\ b \in Led70State /\ eeprom \in Led70File
      /\ Led70Opened(b) /\ Led70Shows(b) /\ Led70Stores(b, eeprom) /\ Led70Whole(b, eeprom)
  BY DEF Led70Inv, Led70Good
<1>2. ASSUME eeprom' = eeprom, ~b.busy, n \in Led70State, Led70Opened(n), n.torn = b.torn,
             n.stored = b.stored, n.gs = b.gs, n.gs_fade = b.gs_fade, n.asked = b.asked,
             n.gs_fade_pending = b.gs_fade_pending, n.touched = b.touched,
             \/ n.at = b.at /\ n.req = b.req /\ n.busy = b.busy /\ n.answer = b.answer
             \/ n.at = "dispatch" /\ n.answer = "none"
      PROVE  Led70Right
  <2>1. Led70Shows(n)
    BY <1>1, <1>2 DEF Led70Shows
  <2>2. Led70Stores(n, eeprom)
    BY <1>1, <1>2 DEF Led70Stores
  <2>3. Led70Whole(n, eeprom)
    BY <1>1, <1>2 DEF Led70Whole
  <2>4. Led70Good(n, eeprom')
    BY <1>1, <1>2, <2>1, <2>2, <2>3 DEF Led70Good
  <2> QED
    BY <1>2, <2>4, Led70Forgets DEF Led70Right, Led70Inv
<1>3. CASE led15070_open
  <2>1. PICK hr \in {"S_OK", "E_FAIL"} :
             n = [b EXCEPT !.started = TRUE, !.start_hr = hr, !.fd = (hr = "S_OK")]
    BY <1>1, <1>3 DEF led15070_open, Led70State
  <2>2. n \in Led70State
    BY <1>1, <2>1 DEF Led70State
  <2>3. /\ Led70Opened(n) /\ n.torn = b.torn /\ n.stored = b.stored /\ n.gs = b.gs
        /\ n.gs_fade = b.gs_fade /\ n.asked = b.asked /\ n.touched = b.touched
        /\ n.gs_fade_pending = b.gs_fade_pending
        /\ n.at = b.at /\ n.req = b.req /\ n.busy = b.busy /\ n.answer = b.answer
    BY <1>1, <2>1 DEF Led70State, Led70Opened
  <2> QED
    BY <1>2, <1>3, <2>2, <2>3 DEF led15070_open
<1>4. CASE led15070_close
  <2>1. n = [b EXCEPT !.fd = FALSE] /\ eeprom' = eeprom /\ ~b.busy
    BY <1>4 DEF led15070_close
  <2>2. n \in Led70State
    BY <1>1, <2>1 DEF Led70State
  <2>3. /\ Led70Opened(n) /\ n.torn = b.torn /\ n.stored = b.stored /\ n.gs = b.gs
        /\ n.gs_fade = b.gs_fade /\ n.asked = b.asked /\ n.touched = b.touched
        /\ n.gs_fade_pending = b.gs_fade_pending
        /\ n.at = b.at /\ n.req = b.req /\ n.busy = b.busy /\ n.answer = b.answer
    BY <1>1, <2>1 DEF Led70State, Led70Opened
  <2> QED
    BY <1>2, <2>1, <2>2, <2>3
<1>5. CASE led15070_read
  <2>1. n = [b EXCEPT !.nbytes = 0] /\ eeprom' = eeprom /\ ~b.busy
    BY <1>5 DEF led15070_read
  <2>2. n \in Led70State
    <3>1. 0 \in 0..Led70Capacity
      BY Led70Assumption
    <3> QED
      BY <1>1, <2>1, <3>1 DEF Led70State
  <2>3. /\ Led70Opened(n) /\ n.torn = b.torn /\ n.stored = b.stored /\ n.gs = b.gs
        /\ n.gs_fade = b.gs_fade /\ n.asked = b.asked /\ n.touched = b.touched
        /\ n.gs_fade_pending = b.gs_fade_pending
        /\ n.at = b.at /\ n.req = b.req /\ n.busy = b.busy /\ n.answer = b.answer
    BY <1>1, <2>1 DEF Led70State, Led70Opened
  <2> QED
    BY <1>2, <2>1, <2>2, <2>3
<1>6. ASSUME NEW req \in Led70Frames, led15070_write(req) PROVE Led70Right
  <2>1. /\ n = [b EXCEPT !.busy = TRUE, !.req = req, !.at = "dispatch",
                         !.calls = <<>>, !.answer = "none"]
        /\ eeprom' = eeprom /\ ~b.busy
    BY <1>6 DEF led15070_write
  <2>2. req \in Led70Requests /\ <<>> \in Seq(Led70Lights)
    BY DEF Led70Requests
  <2>3. n \in Led70State
    BY <1>1, <2>1, <2>2 DEF Led70State
  <2>4. /\ Led70Opened(n) /\ n.torn = b.torn /\ n.stored = b.stored /\ n.gs = b.gs
        /\ n.gs_fade = b.gs_fade /\ n.asked = b.asked /\ n.touched = b.touched
        /\ n.gs_fade_pending = b.gs_fade_pending
        /\ n.at = "dispatch" /\ n.answer = "none"
    BY <1>1, <2>1 DEF Led70State, Led70Opened
  <2> QED
    BY <1>2, <2>1, <2>3, <2>4
<1>7. CASE Led70EepromInit
  <2>1. led70' = Led70EepromFails(led70) /\ eeprom' = eeprom /\ b.at # "created"
    BY <1>7 DEF Led70EepromInit
  <2>2. Led70Good(led70', eeprom') /\ led70'.touched = led70.touched
    BY <1>1, <2>1, Led70FailsGood
  <2> QED
    BY <2>2, Led70Forgets DEF Led70Right, Led70Inv
<1> QED
  BY <1>3, <1>4, <1>5, <1>6, <1>7

(* Every step of the board.                                                *)
LEMMA Led70StepRight ==
  ASSUME Led70Inv, Led70Next
  PROVE  Led70Right
<1>1. CASE Led70Command
  BY <1>1, Led70PlainKeeps, Led70SettingsKeep, Led70ColoursKeep, Led70UpdateKeeps
     DEF Led70Command
<1>2. CASE Led70Eeprom
  BY <1>2, Led70BeginsKeeps, Led70OpenFileKeeps, Led70ZerosKeep, Led70HandleKeeps,
     Led70EepromWriteKeeps, Led70EepromReadKeeps DEF Led70Eeprom
<1>3. CASE Led70Crash
  BY <1>3, Led70CrashKeeps
<1> QED
  BY <1>1, <1>2, <1>3, Led70HandleKeeps DEF Led70Next

(* The LED board 837-15070 (Led70IsRight): the EEPROM has what the game    *)
(* was told it has, through any restarts, and is whole unless its creation *)
(* was cut short; GS_UPDATE shows what was asked of each LED last.         *)
THEOREM LedBoard70IsRight == Led70Spec => Led70IsRight
<1>1. Led70Inv /\ [Led70Next]_Led70Vars => Led70Inv'
  <2> SUFFICES ASSUME Led70Inv, [Led70Next]_Led70Vars PROVE Led70Inv'
    OBVIOUS
  <2>1. CASE Led70Next
    BY <2>1, Led70StepRight DEF Led70Right
  <2>2. CASE UNCHANGED Led70Vars
    BY <2>2 DEF Led70Inv, Led70Vars
  <2> QED
    BY <2>1, <2>2
<1>2. Led70Inv => Led70TypeOK /\ Led70EepromKeeps /\ Led70EepromIsWhole
  <2> SUFFICES ASSUME Led70Inv PROVE Led70TypeOK /\ Led70EepromKeeps /\ Led70EepromIsWhole
    OBVIOUS
  <2>1. /\ led70 \in Led70State /\ Led70Opened(led70) /\ Led70Shows(led70)
        /\ Led70Stores(led70, eeprom) /\ Led70Whole(led70, eeprom)
    BY DEF Led70Inv, Led70Good
  <2>2. \A i \in 1..Len(led70.calls) : DOMAIN led70.calls[i] = Led70Index
    <3>1. led70.calls \in Seq(Led70Lights)
      BY <2>1 DEF Led70State
    <3>2. \A i \in 1..Len(led70.calls) : led70.calls[i] \in Led70Lights
      BY <3>1
    <3> QED
      BY <3>2 DEF Led70Lights
  <2>3. led70.nbytes \in 0..Led70Capacity
    BY <2>1 DEF Led70State
  <2>4. (led70.fd => led70.started /\ led70.start_hr = "S_OK")
        /\ led70.gs_fade_pending \subseteq led70.touched
        /\ Len(eeprom.bytes) <= Led70EepromSize
    BY <2>1 DEF Led70Opened, Led70Shows, Led70Stores
  <2>5. Led70TypeOK
    BY ONLY <2>2, <2>3, <2>4 DEF Led70TypeOK
  <2> QED
    BY <2>1, <2>5 DEF Led70EepromKeeps, Led70EepromIsWhole, Led70Stores, Led70Whole
<1>3. Led70Inv /\ [Led70Next]_Led70Vars =>
        [led70.dll /\ led70.touched # {} /\ led70'.touched = {} /\ led70'.fd =>
           LET calls == led70'.calls
           IN  /\ \A i \in led70.touched : calls[Len(calls)][i] = led70.asked[i]
               /\ led70.gs_fade_pending # {} =>
                    Len(calls) = 2 /\ \A i \in Led70Index : calls[1][i][2] = 0]_Led70Vars
  BY Led70StepRight DEF Led70Right, Led70Updates
<1> QED
  BY <1>1, <1>2, <1>3, Led70InitInv, PTL
    DEF Led70Spec, Led70IsRight, Led70UpdateShowsLatest

-----------------------------------------------------------------------------
(* The driving games: steering first.                                      *)

(* The game, its player and the hook.                                      *)
WheelSpec == WheelInit /\ [][WheelNext]_wheel

(* Division, and products of what is not negative.                         *)
LEMMA WheelDivides ==
  ASSUME NEW a \in Nat, NEW d \in Nat \ {0}
  PROVE  /\ a \div d \in Nat /\ d * (a \div d) <= a /\ a < d * (a \div d) + d
<1>1. a % d \in 0..d - 1 /\ a \div d \in Int /\ a = d * (a \div d) + (a % d)
  OBVIOUS
<1> DEFINE q == a \div d
           r == a % d
<1> HIDE DEF q, r
<1>2. q \in Int /\ r \in Int /\ 0 <= r /\ r < d /\ a = d * q + r
  BY <1>1 DEF q, r
<1>3. q >= 0
  <2> SUFFICES ASSUME q <= -1 PROVE FALSE
    BY <1>2
  <2>1. d * q <= d * (-1)
    BY <1>2
  <2> QED
    BY <1>2, <2>1
<1> QED
  BY <1>2, <1>3 DEF q

(* A larger number has no smaller quotient.                                *)
LEMMA WheelDividesMore ==
  ASSUME NEW a \in Nat, NEW b \in Nat, a <= b, NEW d \in Nat \ {0}
  PROVE  a \div d <= b \div d
<1> DEFINE p == a \div d
           q == b \div d
<1>1. p \in Nat /\ q \in Nat /\ d * p <= a /\ b < d * q + d
  BY WheelDivides
<1> HIDE DEF p, q
<1>2. ASSUME q + 1 <= p PROVE FALSE
  <2>1. d * (q + 1) <= d * p
    BY <1>1, <1>2
  <2>2. d * (q + 1) = d * q + d
    BY <1>1
  <2>3. d * p \in Int /\ d * q \in Int
    BY <1>1
  <2> QED
    BY <1>1, <2>1, <2>2, <2>3
<1>3. p <= q
  BY <1>1, <1>2
<1> QED
  BY <1>3 DEF p, q

(* A multiple is divided exactly.                                          *)
LEMMA WheelDividesExactly ==
  ASSUME NEW n \in Nat, NEW d \in Nat \ {0}
  PROVE  (d * n) \div d = n
<1> DEFINE q == (d * n) \div d
<1>1. d * n \in Nat
  OBVIOUS
<1>2. q \in Nat /\ d * q <= d * n /\ d * n < d * q + d
  BY <1>1, WheelDivides
<1> HIDE DEF q
<1>3. ASSUME q + 1 <= n PROVE FALSE
  <2>1. d * (q + 1) <= d * n
    BY <1>2, <1>3
  <2>2. d * (q + 1) = d * q + d
    BY <1>2
  <2> QED
    BY <1>1, <1>2, <2>1, <2>2
<1>4. ASSUME n + 1 <= q PROVE FALSE
  <2>1. d * (n + 1) <= d * q
    BY <1>2, <1>4
  <2>2. d * (n + 1) = d * n + d
    OBVIOUS
  <2> QED
    BY <1>1, <1>2, <2>1, <2>2
<1>5. q = n
  BY <1>2, <1>3, <1>4
<1> QED
  BY <1>5 DEF q

(* Products grow with their factors.                                       *)
LEMMA WheelTimes ==
  ASSUME NEW a \in Nat, NEW b \in Nat, a <= b, NEW c \in Nat, NEW d \in Nat, c <= d
  PROVE  a * c \in Nat /\ b * d \in Nat /\ a * c <= b * d
<1>1. a * c \in Nat /\ b * d \in Nat /\ b * c \in Nat
  OBVIOUS
<1>2. a * c <= b * c
  OBVIOUS
<1>3. b * c <= b * d
  OBVIOUS
<1> QED
  BY <1>1, <1>2, <1>3

(* The range of a part of the room there is.                               *)
WheelPart(part, room, linear) ==
  IF linear THEN (part * WheelRange) \div room
  ELSE (part * part * part * WheelRange) \div (room * room * room)

(* It grows with the part.                                                 *)
LEMMA WheelPartGrows ==
  ASSUME NEW a \in Nat, NEW b \in Nat, a <= b, NEW room \in Nat \ {0}, NEW linear \in BOOLEAN
  PROVE  /\ WheelPart(a, room, linear) \in Nat
         /\ WheelPart(a, room, linear) <= WheelPart(b, room, linear)
<1>1. WheelRange \in Nat
  BY WheelAssumption
<1>2. a * WheelRange \in Nat /\ b * WheelRange \in Nat /\ a * WheelRange <= b * WheelRange
  BY <1>1, WheelTimes
<1>3. a * a \in Nat /\ b * b \in Nat /\ a * a <= b * b
  BY WheelTimes
<1>4. a * a * a \in Nat /\ b * b * b \in Nat /\ a * a * a <= b * b * b
  BY <1>3, WheelTimes
<1>5. /\ a * a * a * WheelRange \in Nat /\ b * b * b * WheelRange \in Nat
      /\ a * a * a * WheelRange <= b * b * b * WheelRange
  BY <1>1, <1>4, WheelTimes
<1>6. room * room \in Nat \ {0}
  OBVIOUS
<1>7. room * room * room \in Nat \ {0}
  BY <1>6
<1>8. CASE linear
  BY <1>2, <1>8, WheelDivides, WheelDividesMore DEF WheelPart
<1>9. CASE ~linear
  <2> DEFINE x == a * a * a * WheelRange
             y == b * b * b * WheelRange
             z == room * room * room
  <2>1. x \in Nat /\ y \in Nat /\ x <= y /\ z \in Nat \ {0}
    BY <1>5, <1>7
  <2> HIDE DEF x, y, z
  <2>2. x \div z \in Nat /\ x \div z <= y \div z
    BY <2>1, WheelDivides, WheelDividesMore
  <2>3. WheelPart(a, room, linear) = x \div z /\ WheelPart(b, room, linear) = y \div z
    BY <1>9 DEF WheelPart, x, y, z
  <2> QED
    BY <2>2, <2>3
<1> QED
  BY <1>8, <1>9

(* No part is nothing, and the room is the range.                          *)
LEMMA WheelPartEnds ==
  ASSUME NEW room \in Nat \ {0}, NEW linear \in BOOLEAN
  PROVE  WheelPart(0, room, linear) = 0 /\ WheelPart(room, room, linear) = WheelRange
<1>1. WheelRange \in Nat
  BY WheelAssumption
<1>2. \A d \in Nat \ {0} : 0 \div d = 0
  <2> SUFFICES ASSUME NEW d \in Nat \ {0} PROVE 0 \div d = 0
    OBVIOUS
  <2>1. d * 0 = 0
    OBVIOUS
  <2> QED
    BY <2>1, WheelDividesExactly
<1>3. room * room \in Nat \ {0}
  OBVIOUS
<1>4. room * room * room \in Nat \ {0}
  BY <1>3
<1>5. 0 * WheelRange = 0 /\ 0 * 0 * 0 * WheelRange = 0
  BY <1>1
<1>6. CASE linear
  BY <1>1, <1>2, <1>5, <1>6, WheelDividesExactly DEF WheelPart
<1>7. CASE ~linear
  <2> DEFINE z == room * room * room
  <2>1. z \in Nat \ {0}
    BY <1>4
  <2>2. WheelPart(0, room, linear) = 0 \div z /\ WheelPart(room, room, linear) = (z * WheelRange) \div z
    BY <1>5, <1>7 DEF WheelPart
  <2> HIDE DEF z
  <2> QED
    BY <1>1, <1>2, <2>1, <2>2, WheelDividesExactly
<1> QED
  BY <1>6, <1>7

(* How far a stick is out of the dead zone.                                *)
WheelOut(axis, deadzone) ==
  LET size == IF WheelAbs(axis) > WheelFull THEN WheelFull ELSE WheelAbs(axis)
  IN  IF WheelAbs(axis) > deadzone THEN size - deadzone ELSE 0

(* Steering is the part of the room that the stick is out, with its sign.  *)
LEMMA WheelSteering ==
  ASSUME NEW d \in 0..WheelFull - 1, NEW linear \in BOOLEAN, NEW x \in Int
  PROVE  /\ WheelOut(x, d) \in 0..WheelFull - d
         /\ WheelPart(WheelOut(x, d), WheelFull - d, linear) \in 0..WheelRange
         /\ calculate_norm_steering(x, d, linear) =
              IF x < 0 THEN -WheelPart(WheelOut(x, d), WheelFull - d, linear)
              ELSE WheelPart(WheelOut(x, d), WheelFull - d, linear)
<1> DEFINE o == WheelOut(x, d)
           room == WheelFull - d
           part == WheelPart(o, room, linear)
<1>1. WheelFull \in Nat /\ WheelRange \in Nat /\ d \in Nat /\ room \in Nat \ {0}
  BY WheelAssumption
<1>2. o \in 0..room
  BY <1>1 DEF WheelOut, WheelAbs
<1>3. part \in Nat /\ part <= WheelPart(room, room, linear)
  BY <1>1, <1>2, WheelPartGrows
<1>4. part \in 0..WheelRange
  BY <1>1, <1>3, WheelPartEnds
<1>5. calculate_norm_steering(x, d, linear) = IF x = 0 THEN 0 ELSE WheelSign(x) * part
  BY DEF calculate_norm_steering, WheelPart, WheelOut
<1>6. x = 0 => part = 0
  <2> SUFFICES ASSUME x = 0 PROVE part = 0
    OBVIOUS
  <2>1. o = 0
    BY <1>1 DEF WheelOut, WheelAbs
  <2> QED
    BY <1>1, <2>1, WheelPartEnds
<1> HIDE DEF part
<1>7. calculate_norm_steering(x, d, linear) = IF x < 0 THEN -part ELSE part
  BY <1>4, <1>5, <1>6 DEF WheelSign
<1> QED
  BY <1>2, <1>4, <1>7 DEF part

(* Steering is sound.                                                      *)
LEMMA WheelSteeringIsSound ==
  WheelSteers
<1> SUFFICES ASSUME NEW d \in WheelDeadzones, NEW linear \in BOOLEAN,
                    NEW x \in -WheelFull - 1..WheelFull
             PROVE  LET at(n) == calculate_norm_steering(n, d, linear)
                    IN  /\ at(x) \in -WheelRange..WheelRange
                        /\ x < WheelFull => at(x) <= at(x + 1)
                        /\ x > 0 => at(-x) = -at(x)
                        /\ WheelAbs(x) <= d => at(x) = 0
                        /\ at(WheelFull) = WheelRange
  BY DEF WheelSteers
<1> DEFINE at(n) == calculate_norm_steering(n, d, linear)
           room == WheelFull - d
           part(n) == WheelPart(WheelOut(n, d), room, linear)
<1>1. WheelFull \in Nat \ {0} /\ WheelRange \in Nat /\ d \in 0..WheelFull - 1 /\ d \in Nat
      /\ room \in Nat \ {0} /\ x \in Int /\ -x \in Int /\ x + 1 \in Int
  BY WheelAssumption
<1>2. \A n \in Int : /\ WheelOut(n, d) \in Nat /\ part(n) \in 0..WheelRange
                     /\ at(n) = IF n < 0 THEN -part(n) ELSE part(n)
  BY <1>1, WheelSteering
<1>3. \A m, n \in Int : WheelOut(m, d) <= WheelOut(n, d) => part(m) <= part(n)
  BY <1>1, <1>2, WheelPartGrows
<1> HIDE DEF at, part
<1>4. at(x) \in -WheelRange..WheelRange
  BY <1>1, <1>2
<1>5. ASSUME x < WheelFull PROVE at(x) <= at(x + 1)
  <2>1. CASE x >= 0
    <3>1. WheelOut(x, d) <= WheelOut(x + 1, d)
      BY <1>1, <1>5, <2>1 DEF WheelOut, WheelAbs
    <3>2. part(x) <= part(x + 1)
      BY <1>1, <1>3, <3>1
    <3> QED
      BY <1>1, <1>2, <2>1, <3>2
  <2>2. CASE x < -1
    <3>1. WheelOut(x + 1, d) <= WheelOut(x, d)
      BY <1>1, <1>5, <2>2 DEF WheelOut, WheelAbs
    <3>2. part(x + 1) <= part(x)
      BY <1>1, <1>3, <3>1
    <3> QED
      BY <1>1, <1>2, <2>2, <3>2
  <2>3. CASE x = -1
    BY <1>1, <1>2, <2>3
  <2> QED
    BY <1>1, <2>1, <2>2, <2>3
<1>6. ASSUME x > 0 PROVE at(-x) = -at(x)
  <2>1. WheelOut(-x, d) = WheelOut(x, d)
    BY <1>1, <1>6 DEF WheelOut, WheelAbs
  <2>2. part(-x) = part(x)
    BY <2>1 DEF part
  <2> QED
    BY <1>1, <1>2, <1>6, <2>2
<1>7. ASSUME WheelAbs(x) <= d PROVE at(x) = 0
  <2>1. WheelOut(x, d) = 0
    BY <1>1, <1>7 DEF WheelOut, WheelAbs
  <2>2. part(x) = 0
    BY <1>1, <2>1, WheelPartEnds DEF part
  <2> QED
    BY <1>1, <1>2, <2>2
<1>8. at(WheelFull) = WheelRange
  <2>1. WheelOut(WheelFull, d) = room
    BY <1>1 DEF WheelOut, WheelAbs
  <2>2. part(WheelFull) = WheelRange
    BY <1>1, <2>1, WheelPartEnds DEF part
  <2> QED
    BY <1>1, <1>2, <2>2
<1> QED
  BY <1>4, <1>5, <1>6, <1>7, <1>8 DEF at

-----------------------------------------------------------------------------
(* The driving games: switches, gears and coins.                           *)

(* The tables of the game that is played.                                  *)
WheelSwitch(game) ==
  CASE game = "idz" -> idz_switch [] game = "idac" -> idac_switch [] game = "swdc" -> swdc_switch
(* The signals of its gears.                                               *)
WheelSignals(game) == IF game = "idz" THEN idz_jvs_gear_signals ELSE idac_gear_signals

(* The buttons that some game has.                                         *)
WheelButtons == DOMAIN idz_switch \cup DOMAIN idac_switch \cup DOMAIN swdc_switch

(* The controls.                                                           *)
WheelState ==
  [game : WheelGame, mode : {"dinput", "xinput"}, named : SUBSET {"pedals", "shifter"},
   plugged : SUBSET WheelDevice, acquired : SUBSET WheelDevice,
   pc : {"init", "ffb", "run", "exit", "crash"}, pressed : SUBSET WheelPressed,
   key : BOOLEAN, stick : 0..WheelGears, gear : 0..WheelGears, shifting : BOOLEAN,
   coin : BOOLEAN, coins : Nat, analog : Int, shown : SUBSET (Nat \X Nat),
   shown_gear : SUBSET Nat, polled : SUBSET WheelButtons, polled_gear : 0..WheelGears,
   seen : SUBSET WheelShift, inserted : 0..WheelCoins]

(* What the game is shown is what was polled.                              *)
WheelShowing(w) ==
  /\ w.polled \subseteq DOMAIN WheelSwitch(w.game)
  /\ w.shown = {WheelSwitch(w.game)[b] : b \in w.polled}
(* And the signals are those of the gear.                                  *)
WheelShowingGear(w) ==
  w.game # "swdc" =>
    w.shown_gear = IF w.polled_gear = 0 THEN {} ELSE WheelSignals(w.game)[w.polled_gear]

(* What is named is acquired at the start, the wheel after it.             *)
WheelHolds(w) ==
  w.mode = "dinput" =>
    /\ w.pc \in {"ffb", "run"} => w.named \subseteq w.acquired
    /\ w.pc = "run" => "wheel" \in w.acquired

(* What is true at any time.                                               *)
WheelGood(w) ==
  /\ w \in WheelState /\ w.shifting = (w.seen # {}) /\ w.coins = w.inserted
  /\ WheelShowing(w) /\ WheelShowingGear(w) /\ WheelHolds(w)

(* The invariant.                                                          *)
WheelInv == WheelGood(wheel)

(* How a gear may change.                                                  *)
WheelMoves(w, v) ==
  v.gear # w.gear =>
    \/ w.seen = {} /\ WheelAbs(v.gear - w.gear) = 1
    \/ w.mode = "xinput" /\ "START" \in w.pressed /\ v.gear \in {0, 1}

(* What a step has to keep.                                                *)
WheelRight == WheelInv' /\ WheelMoves(wheel, wheel')

(* Of the same start, and with the same hands on it.                       *)
WheelSameStart(w, v) ==
  /\ v.game = w.game /\ v.mode = w.mode /\ v.named = w.named /\ v.acquired = w.acquired
  /\ v.pc = w.pc /\ v.pressed = w.pressed
(* The game is shown the same.                                             *)
WheelSameShown(w, v) ==
  /\ v.shown = w.shown /\ v.shown_gear = w.shown_gear /\ v.polled = w.polled
(* The coins are as they were.                                             *)
WheelSameCoins(w, v) == v.coins = w.coins /\ v.inserted = w.inserted
(* The gear is as it was.                                                  *)
WheelGearStays(w, v) == v.gear = w.gear /\ v.shifting = w.shifting /\ v.seen = w.seen

(* A shifter has done this.                                                *)
WheelShifted(w, v) ==
  /\ v \in WheelState /\ v.shifting = (v.seen # {}) /\ WheelMoves(w, v)
  /\ WheelSameStart(w, v) /\ WheelSameShown(w, v) /\ WheelSameCoins(w, v)

-----------------------------------------------------------------------------
(* No two buttons have a switch in common, and no two gears their signals. *)
LEMMA WheelTables ==
  ASSUME NEW game \in WheelGame
  PROVE  /\ DOMAIN WheelSwitch(game) \subseteq WheelButtons
         /\ \A a, b \in DOMAIN WheelSwitch(game) :
              /\ WheelSwitch(game)[a] \in Nat \X Nat
              /\ WheelSwitch(game)[a] = WheelSwitch(game)[b] => a = b
<1>1. CASE game = "idz"
  <2> DEFINE s == idz_switch
  <2>1. WheelSwitch(game) = s
    BY <1>1 DEF WheelSwitch
  <2>2. DOMAIN s = {"START", "VIEW", "UP", "DOWN", "LEFT", "RIGHT", "SERVICE", "TEST"}
    BY DEF idz_switch
  <2>3. /\ s["START"] = <<1, 15>> /\ s["VIEW"] = <<1, 9>>
        /\ s["UP"] = <<1, 13>> /\ s["DOWN"] = <<1, 12>>
        /\ s["LEFT"] = <<1, 11>> /\ s["RIGHT"] = <<1, 10>>
        /\ s["SERVICE"] = <<1, 14>> /\ s["TEST"] = <<0, 7>>
    BY DEF idz_switch
  <2>4. DOMAIN s \subseteq WheelButtons
    BY DEF WheelButtons
  <2> HIDE DEF s
  <2>6. \A a \in DOMAIN s : s[a] \in Nat \X Nat
    BY <2>2, <2>3
  <2>5. \A a, b \in DOMAIN s : s[a] = s[b] => a = b
    BY <2>2, <2>3
  <2> QED
    BY <2>1, <2>4, <2>5, <2>6
<1>2. CASE game = "idac"
  <2> DEFINE s == idac_switch
  <2>1. WheelSwitch(game) = s
    BY <1>2 DEF WheelSwitch
  <2>2. DOMAIN s = {"START", "VIEW", "UP", "DOWN", "LEFT", "RIGHT", "SERVICE", "TEST"}
    BY DEF idac_switch
  <2>3. /\ s["START"] = <<0, 7>> /\ s["VIEW"] = <<0, 1>>
        /\ s["UP"] = <<0, 5>> /\ s["DOWN"] = <<0, 4>>
        /\ s["LEFT"] = <<0, 3>> /\ s["RIGHT"] = <<0, 2>>
        /\ s["SERVICE"] = <<0, 6>> /\ s["TEST"] = <<0, 9>>
    BY DEF idac_switch
  <2>4. DOMAIN s \subseteq WheelButtons
    BY DEF WheelButtons
  <2> HIDE DEF s
  <2>6. \A a \in DOMAIN s : s[a] \in Nat \X Nat
    BY <2>2, <2>3
  <2>5. \A a, b \in DOMAIN s : s[a] = s[b] => a = b
    BY <2>2, <2>3
  <2> QED
    BY <2>1, <2>4, <2>5, <2>6
<1>3. CASE game = "swdc"
  <2> DEFINE s == swdc_switch
  <2>1. WheelSwitch(game) = s
    BY <1>3 DEF WheelSwitch
  <2>2. DOMAIN s = {"START", "VIEW", "UP", "DOWN", "LEFT", "RIGHT", "SERVICE", "TEST",
                     "BLUE", "GREEN", "RED", "YELLOW", "dn", "up"}
    BY DEF swdc_switch
  <2>3. /\ s["START"] = <<0, 7>> /\ s["VIEW"] = <<0, 1>>
        /\ s["UP"] = <<0, 5>> /\ s["DOWN"] = <<0, 4>>
        /\ s["LEFT"] = <<0, 3>> /\ s["RIGHT"] = <<0, 2>>
        /\ s["SERVICE"] = <<0, 6>> /\ s["TEST"] = <<0, 9>>
        /\ s["BLUE"] = <<1, 15>> /\ s["GREEN"] = <<1, 14>>
        /\ s["RED"] = <<1, 13>> /\ s["YELLOW"] = <<1, 12>>
        /\ s["dn"] = <<1, 1>> /\ s["up"] = <<1, 0>>
    BY DEF swdc_switch
  <2>4. DOMAIN s \subseteq WheelButtons
    BY DEF WheelButtons
  <2> HIDE DEF s
  <2>6. \A a \in DOMAIN s : s[a] \in Nat \X Nat
    BY <2>2, <2>3
  <2>5. \A a, b \in DOMAIN s : s[a] = s[b] => a = b
    BY <2>2, <2>3
  <2> QED
    BY <2>1, <2>4, <2>5, <2>6
<1> QED
  BY <1>1, <1>2, <1>3 DEF WheelGame

(* Each gear has signals, and no two have the same.                        *)
LEMMA WheelSignalTables ==
  ASSUME NEW game
  PROVE  \A g \in 1..6 : /\ WheelSignals(game)[g] \subseteq Nat
                         /\ WheelSignals(game)[g] # {}
                         /\ \A h \in 1..6 : WheelSignals(game)[g] = WheelSignals(game)[h] => g = h
<1>3. \A g \in 1..6 : g = 1 \/ g = 2 \/ g = 3 \/ g = 4 \/ g = 5 \/ g = 6
  OBVIOUS
<1>1. CASE game = "idz"
  <2> DEFINE s == WheelSignals(game)
  <2>1. s = <<{13, 11}, {12, 11}, {13}, {12}, {13, 10}, {12, 10}>>
    BY <1>1 DEF WheelSignals, idz_jvs_gear_signals
  <2>2. /\ s[1] = {13, 11} /\ s[2] = {12, 11} /\ s[3] = {13} /\ s[4] = {12}
        /\ s[5] = {13, 10} /\ s[6] = {12, 10}
    BY <2>1
  <2> HIDE DEF s
  <2>3. \A g \in 1..6 : s[g] \subseteq Nat /\ s[g] # {}
    BY <2>2, <1>3
  <2>4. \A g \in 1..6 : /\ 13 \in s[g] <=> g \in {1, 3, 5}
                        /\ 11 \in s[g] <=> g \in {1, 2}
                        /\ 10 \in s[g] <=> g \in {5, 6}
    BY <2>2, <1>3
  <2>5. \A g, h \in 1..6 : s[g] = s[h] => g = h
    BY <2>4
  <2> QED
    BY <2>3, <2>5 DEF s
<1>2. CASE game # "idz"
  <2> DEFINE s == WheelSignals(game)
  <2>1. s = <<{5, 3}, {4, 3}, {5}, {4}, {5, 2}, {4, 2}>>
    BY <1>2 DEF WheelSignals, idac_gear_signals
  <2>2. /\ s[1] = {5, 3} /\ s[2] = {4, 3} /\ s[3] = {5} /\ s[4] = {4}
        /\ s[5] = {5, 2} /\ s[6] = {4, 2}
    BY <2>1
  <2> HIDE DEF s
  <2>3. \A g \in 1..6 : s[g] \subseteq Nat /\ s[g] # {}
    BY <2>2, <1>3
  <2>4. \A g \in 1..6 : /\ 5 \in s[g] <=> g \in {1, 3, 5}
                        /\ 3 \in s[g] <=> g \in {1, 2}
                        /\ 2 \in s[g] <=> g \in {5, 6}
    BY <2>2, <1>3
  <2>5. \A g, h \in 1..6 : s[g] = s[h] => g = h
    BY <2>4
  <2> QED
    BY <2>3, <2>5 DEF s
<1> QED
  BY <1>1, <1>2

(* A press of a shift button moves the gear by one, once.                  *)
LEMMA WheelShifterIs ==
  ASSUME NEW w \in WheelState, NEW buttons
  PROVE  LET v == idz_shifter_update(w, buttons)
         IN  /\ v \in WheelState /\ v.shifting = (v.seen # {}) /\ v.polled_gear = w.polled_gear
             /\ v.gear # w.gear => ~w.shifting /\ WheelAbs(v.gear - w.gear) = 1
             /\ WheelSameStart(w, v) /\ WheelSameShown(w, v) /\ WheelSameCoins(w, v)
<1> DEFINE down == IF "dn" \in buttons /\ w.gear > 0 THEN w.gear - 1 ELSE w.gear
           next == IF "up" \in buttons /\ down < WheelGears THEN down + 1 ELSE down
           gear == IF w.shifting THEN w.gear ELSE next
           seen == buttons \cap WheelShift
           v == idz_shifter_update(w, buttons)
<1>1. w.gear \in 0..WheelGears /\ WheelGears \in 1..6 /\ w.shifting \in BOOLEAN
  BY WheelAssumption DEF WheelState
<1>2. down \in 0..WheelGears /\ down \in {w.gear - 1, w.gear}
  BY <1>1
<1>3. next \in 0..WheelGears /\ next \in {w.gear - 1, w.gear, w.gear + 1}
  BY <1>1, <1>2
<1> HIDE DEF down, next
<1>4. gear \in 0..WheelGears /\ (gear # w.gear => ~w.shifting /\ WheelAbs(gear - w.gear) = 1)
  BY <1>1, <1>3 DEF WheelAbs
<1>5. seen \in SUBSET WheelShift
  OBVIOUS
<1>6. v = [w EXCEPT !.gear = gear, !.shifting = (seen # {}), !.seen = seen]
  BY DEF idz_shifter_update, WheelState, down, next
<1> HIDE DEF gear, seen, v
<1>7. v \in WheelState
  BY <1>4, <1>5, <1>6 DEF WheelState
<1>8. v.gear = gear /\ v.shifting = (seen # {}) /\ v.seen = seen /\ v.polled_gear = w.polled_gear
  BY <1>6 DEF WheelState
<1>9. WheelSameStart(w, v) /\ WheelSameShown(w, v) /\ WheelSameCoins(w, v)
  BY <1>6 DEF WheelState, WheelSameStart, WheelSameShown, WheelSameCoins
<1> QED
  BY <1>4, <1>7, <1>8, <1>9 DEF v

(* The gear that was read is kept.                                         *)
LEMMA WheelInGearIs ==
  ASSUME NEW w \in WheelState, NEW v \in WheelState, WheelShifted(w, v),
         NEW gear \in 0..WheelGears
  PROVE  WheelShifted(w, WheelInGear(v, gear))
<1> DEFINE u == WheelInGear(v, gear)
<1>1. u = [v EXCEPT !.polled_gear = gear]
  BY DEF WheelInGear
<1> HIDE DEF u
<1>2. u \in WheelState
  BY <1>1 DEF WheelState
<1>3. u.gear = v.gear /\ u.shifting = v.shifting /\ u.seen = v.seen
  BY <1>1 DEF WheelState
<1>4. WheelSameStart(v, u) /\ WheelSameShown(v, u) /\ WheelSameCoins(v, u)
  BY <1>1 DEF WheelState, WheelSameStart, WheelSameShown, WheelSameCoins
<1>5. WheelSameStart(w, u) /\ WheelSameShown(w, u) /\ WheelSameCoins(w, u)
  BY <1>4 DEF WheelShifted, WheelSameStart, WheelSameShown, WheelSameCoins
<1> QED
  BY <1>2, <1>3, <1>5 DEF WheelShifted, WheelMoves, u

(* Whatever shifter a game has: it takes the gear of a shifter with a      *)
(* stick, or of the buttons.  Start first goes to neutral.                 *)
LEMMA WheelShifters ==
  ASSUME NEW w \in WheelState, w.shifting = (w.seen # {}), WheelSameStart(wheel, w)
  PROVE  /\ w.mode = "dinput" => WheelShifted(w, idz_di_jvs_read_shifter(w))
         /\ w.mode = "xinput" => WheelShifted(w, idz_xi_jvs_read_shifter(w))
<1>1. WheelShifted(w, w)
  BY DEF WheelShifted, WheelMoves, WheelSameStart, WheelSameShown, WheelSameCoins
<1>2. /\ w.stick \in 0..WheelGears /\ w.gear \in 0..WheelGears /\ 0 \in 0..WheelGears
      /\ WheelGears \in 1..6
  BY WheelAssumption DEF WheelState
<1>3. WheelShifted(w, idz_di_jvs_read_shifter_pos(w))
  BY <1>1, <1>2, WheelInGearIs DEF idz_di_jvs_read_shifter_pos
<1>4. ASSUME NEW buttons PROVE WheelShifted(w, idz_shifter_update(w, buttons))
  BY WheelShifterIs DEF WheelShifted, WheelMoves
<1>5. WheelShifted(w, idz_di_jvs_read_shifter_virt(w))
  <2>1. CASE WheelReads("wheel")
    <3> DEFINE v == idz_shifter_update(w, w.pressed)
    <3>1. WheelShifted(w, v)
      BY <1>4
    <3>2. v \in WheelState /\ v.gear \in 0..WheelGears
      BY <3>1 DEF WheelShifted, WheelState
    <3>3. idz_di_jvs_read_shifter_virt(w) = WheelInGear(v, v.gear)
      BY <2>1 DEF idz_di_jvs_read_shifter_virt
    <3> HIDE DEF v
    <3> QED
      BY <3>1, <3>2, <3>3, WheelInGearIs
  <2>2. CASE ~WheelReads("wheel")
    BY <1>1, <1>2, <2>2, WheelInGearIs DEF idz_di_jvs_read_shifter_virt
  <2> QED
    BY <2>1, <2>2
<1>6. ASSUME w.mode = "xinput" PROVE WheelShifted(w, idz_xi_jvs_read_shifter(w))
  <2> DEFINE pad == idz_xi_jvs_read_buttons
             z == IF "START" \in pad THEN [w EXCEPT !.gear = 0] ELSE w
             v == idz_shifter_update(z, pad)
  <2>1. pad \subseteq w.pressed
    BY DEF idz_xi_jvs_read_buttons, WheelSameStart
  <2>2. /\ z \in WheelState /\ z.shifting = w.shifting /\ z.seen = w.seen
        /\ z.gear = IF "START" \in pad THEN 0 ELSE w.gear
    BY <1>2 DEF WheelState
  <2>3. WheelSameStart(w, z) /\ WheelSameShown(w, z) /\ WheelSameCoins(w, z)
    BY DEF WheelState, WheelSameStart, WheelSameShown, WheelSameCoins
  <2>4. idz_xi_jvs_read_shifter(w) = WheelInGear(v, v.gear)
    BY DEF idz_xi_jvs_read_shifter
  <2> HIDE DEF pad, z
  <2>5. /\ v \in WheelState /\ v.shifting = (v.seen # {})
        /\ v.gear # z.gear => ~z.shifting /\ WheelAbs(v.gear - z.gear) = 1
        /\ WheelSameStart(z, v) /\ WheelSameShown(z, v) /\ WheelSameCoins(z, v)
    BY <2>2, WheelShifterIs
  <2> HIDE DEF v
  <2>6. v.gear \in 0..WheelGears
    BY <2>5 DEF WheelState
  <2>7. WheelMoves(w, v)
    <3>1. CASE "START" \in pad
      <4>1. v.gear \in {0, 1}
        BY <1>2, <2>2, <2>5, <2>6, <3>1 DEF WheelAbs
      <4> QED
        BY <1>6, <2>1, <3>1, <4>1 DEF WheelMoves
    <3>2. CASE "START" \notin pad
      BY <2>2, <2>5, <3>2 DEF WheelMoves
    <3> QED
      BY <3>1, <3>2
  <2>8. WheelSameStart(w, v) /\ WheelSameShown(w, v) /\ WheelSameCoins(w, v)
    BY <2>3, <2>5 DEF WheelSameStart, WheelSameShown, WheelSameCoins
  <2>9. WheelShifted(w, v)
    BY <2>5, <2>7, <2>8 DEF WheelShifted
  <2> QED
    BY <2>4, <2>5, <2>6, <2>9, WheelInGearIs
<1> QED
  BY <1>3, <1>5, <1>6 DEF idz_di_jvs_read_shifter

(* A press of the coin key counts for both.                                *)
LEMMA WheelCoinIs ==
  ASSUME NEW w \in WheelState, w.coins = w.inserted,
         w.inserted < WheelCoins \/ ~w.key \/ w.coin
  PROVE  LET v == idz_io_jvs_read_coin_counter(w)
         IN  /\ v \in WheelState /\ v.coins = v.inserted /\ v.polled_gear = w.polled_gear
             /\ WheelSameStart(w, v) /\ WheelSameShown(w, v) /\ WheelGearStays(w, v)
<1> DEFINE more == IF w.key /\ ~w.coin THEN w.inserted + 1 ELSE w.inserted
           v == idz_io_jvs_read_coin_counter(w)
<1>1. w.inserted \in 0..WheelCoins /\ WheelCoins \in Nat /\ w.key \in BOOLEAN
  BY WheelAssumption DEF WheelState
<1>2. more \in 0..WheelCoins /\ more \in Nat
  BY <1>1
<1>3. v = [w EXCEPT !.coin = w.key, !.coins = more, !.inserted = more]
  BY DEF idz_io_jvs_read_coin_counter, WheelState
<1> HIDE DEF more, v
<1>4. v \in WheelState
  BY <1>1, <1>2, <1>3 DEF WheelState
<1>5. v.coins = more /\ v.inserted = more /\ v.polled_gear = w.polled_gear
  BY <1>3 DEF WheelState
<1>6. WheelSameStart(w, v) /\ WheelSameShown(w, v) /\ WheelGearStays(w, v)
  BY <1>3 DEF WheelState, WheelSameStart, WheelSameShown, WheelGearStays
<1> QED
  BY <1>4, <1>5, <1>6 DEF v

(* The switches of the buttons that the game has.                          *)
LEMMA WheelShownIs ==
  ASSUME NEW w \in WheelState, NEW buttons
  PROVE  LET v == WheelShown(w, WheelSwitch(w.game), buttons)
         IN  /\ v \in WheelState /\ WheelShowing(v) /\ v.polled_gear = w.polled_gear
             /\ v.shown_gear = w.shown_gear
             /\ WheelSameStart(w, v) /\ WheelSameCoins(w, v) /\ WheelGearStays(w, v)
<1> DEFINE switch == WheelSwitch(w.game)
           polled == buttons \cap DOMAIN switch
           shown == {switch[b] : b \in polled}
           v == WheelShown(w, switch, buttons)
<1>1. w.game \in WheelGame
  BY DEF WheelState
<1>2. DOMAIN switch \subseteq WheelButtons /\ \A b \in DOMAIN switch : switch[b] \in Nat \X Nat
  BY <1>1, WheelTables
<1>3. v = [w EXCEPT !.polled = polled, !.shown = shown]
  BY DEF WheelShown
<1> HIDE DEF switch, v
<1>4. polled \subseteq DOMAIN switch /\ polled \in SUBSET WheelButtons
      /\ shown \in SUBSET (Nat \X Nat)
  BY <1>2
<1> DEFINE p == polled
           q == shown
<1>5. q = {switch[b] : b \in p} /\ p \subseteq DOMAIN switch
  BY <1>4
<1>6. v = [w EXCEPT !.polled = p, !.shown = q] /\ p \in SUBSET WheelButtons
      /\ q \in SUBSET (Nat \X Nat)
  BY <1>3, <1>4
<1> HIDE DEF p, q
<1>7. v \in WheelState
  BY <1>6 DEF WheelState
<1>8. v.polled = p /\ v.shown = q /\ v.polled_gear = w.polled_gear /\ v.shown_gear = w.shown_gear
  BY <1>6 DEF WheelState
<1>9. WheelSameStart(w, v) /\ WheelSameCoins(w, v) /\ WheelGearStays(w, v)
  BY <1>6 DEF WheelState, WheelSameStart, WheelSameCoins, WheelGearStays
<1>10. WheelShowing(v)
  BY <1>5, <1>8, <1>9 DEF WheelShowing, WheelSameStart, switch
<1> QED
  BY <1>7, <1>8, <1>9, <1>10 DEF v, switch

(* The signals of the gear.                                                *)
LEMMA WheelShownGearIs ==
  ASSUME NEW w \in WheelState, WheelShowing(w)
  PROVE  LET v == WheelShownGear(w, WheelSignals(w.game))
         IN  /\ v \in WheelState /\ WheelShowing(v) /\ WheelShowingGear(v)
             /\ WheelSameStart(w, v) /\ WheelSameCoins(w, v) /\ WheelGearStays(w, v)
<1> DEFINE signals == WheelSignals(w.game)
           gear == w.polled_gear
           shown == IF gear = 0 THEN {} ELSE signals[gear]
           v == WheelShownGear(w, signals)
<1>1. gear \in 0..WheelGears /\ WheelGears \in 1..6
  BY WheelAssumption DEF WheelState
<1>2. ~(gear > 6) /\ (gear # 0 => gear \in 1..6)
  BY <1>1
<1>3. v = [w EXCEPT !.shown_gear = shown]
  BY <1>2 DEF WheelShownGear
<1>4. shown \in SUBSET Nat
  BY <1>2, WheelSignalTables
<1> HIDE DEF shown, v
<1>5. v \in WheelState
  BY <1>3, <1>4 DEF WheelState
<1>6. v.shown_gear = shown /\ v.polled_gear = gear /\ v.polled = w.polled /\ v.shown = w.shown
  BY <1>3 DEF WheelState
<1>7. WheelSameStart(w, v) /\ WheelSameCoins(w, v) /\ WheelGearStays(w, v)
  BY <1>3 DEF WheelState, WheelSameStart, WheelSameCoins, WheelGearStays
<1>8. WheelShowing(v)
  BY <1>6, <1>7 DEF WheelShowing, WheelSameStart
<1>9. WheelShowingGear(v)
  BY <1>6, <1>7 DEF WheelShowingGear, WheelSameStart, shown
<1> QED
  BY <1>5, <1>7, <1>8, <1>9 DEF v

(* Whatever the stick is, what it comes to is a number.                    *)
LEMMA WheelAnalogIs ==
  ASSUME NEW x \in WheelAnalogs
  PROVE  x \in Int
<1>1. WheelFull \in Nat \ {0} /\ WheelRange \in Nat /\ 0 \in 0..WheelFull - 1
  BY WheelAssumption
<1>2. \A n \in Int : calculate_norm_steering(n, 0, TRUE) \in Int
  <2> SUFFICES ASSUME NEW n \in Int PROVE calculate_norm_steering(n, 0, TRUE) \in Int
    OBVIOUS
  <2> DEFINE part == WheelPart(WheelOut(n, 0), WheelFull - 0, TRUE)
  <2>1. part \in 0..WheelRange
        /\ calculate_norm_steering(n, 0, TRUE) = IF n < 0 THEN -part ELSE part
    BY <1>1, WheelSteering
  <2> HIDE DEF part
  <2>2. part \in Int /\ -part \in Int
    BY <1>1, <2>1
  <2> QED
    BY <2>1, <2>2
<1>3. \A l, r \in Int : WheelSign(l + r) * (WheelAbs(l + r) \div 2) \in Int
  BY DEF WheelSign, WheelAbs
<1>4. \A n \in Int : idz_xi_jvs_read_analogs(n, n, FALSE, 0, TRUE) \in Int
  BY <1>2, <1>3 DEF idz_xi_jvs_read_analogs
<1>5. CASE x \in {idz_xi_jvs_read_analogs(n, n, FALSE, 0, TRUE) : n \in {-WheelFull, 0, WheelFull}}
  <2>1. -WheelFull \in Int /\ WheelFull \in Int
    BY <1>1
  <2>2. PICK n \in {-WheelFull, 0, WheelFull} :
             x = idz_xi_jvs_read_analogs(n, n, FALSE, 0, TRUE)
    BY <1>5
  <2>3. n \in Int
    BY <2>1
  <2> QED
    BY <1>4, <2>2, <2>3
<1>6. CASE x \in {-WheelRange, 0, WheelRange}
  BY <1>1, <1>6
<1> QED
  BY <1>5, <1>6 DEF WheelAnalogs

(* The stick changes nothing else.                                         *)
LEMMA WheelSetsAnalog ==
  ASSUME NEW w \in WheelState, WheelShowing(w), WheelShowingGear(w), NEW x \in WheelAnalogs
  PROVE  LET v == [w EXCEPT !.analog = x]
         IN  /\ v \in WheelState /\ WheelShowing(v) /\ WheelShowingGear(v)
             /\ WheelSameStart(w, v) /\ WheelSameCoins(w, v) /\ WheelGearStays(w, v)
<1> DEFINE v == [w EXCEPT !.analog = x]
<1>1. v \in WheelState
  BY WheelAnalogIs DEF WheelState
<1>2. /\ v.polled = w.polled /\ v.shown = w.shown /\ v.shown_gear = w.shown_gear
      /\ v.polled_gear = w.polled_gear /\ v.game = w.game
  BY DEF WheelState
<1>3. WheelSameStart(w, v) /\ WheelSameCoins(w, v) /\ WheelGearStays(w, v)
  BY DEF WheelState, WheelSameStart, WheelSameCoins, WheelGearStays
<1> HIDE DEF v
<1>4. WheelShowing(v) /\ WheelShowingGear(v)
  BY <1>2 DEF WheelShowing, WheelShowingGear
<1> QED
  BY <1>1, <1>3, <1>4 DEF v

(* A state that a poll leaves.                                             *)
LEMMA WheelPolls ==
  ASSUME WheelInv, NEW v \in WheelState, WheelSameStart(wheel, v), v.shifting = (v.seen # {}),
         v.coins = v.inserted, WheelShowing(v), WheelShowingGear(v), WheelMoves(wheel, v)
  PROVE  WheelGood(v) /\ WheelMoves(wheel, v)
<1>1. WheelHolds(v)
  BY DEF WheelInv, WheelGood, WheelHolds, WheelSameStart
<1> QED
  BY <1>1 DEF WheelGood

-----------------------------------------------------------------------------
(* The polls of each game.                                                 *)
LEMMA WheelSwitchesKeep ==
  ASSUME WheelInv, idz_jvs_read_switches
  PROVE  WheelRight
<1> DEFINE buttons == IF wheel.mode = "dinput" THEN idz_di_jvs_read_buttons
                      ELSE idz_xi_jvs_read_buttons
           w == IF wheel.mode = "dinput" THEN idz_di_jvs_read_shifter(wheel)
                ELSE idz_xi_jvs_read_shifter(wheel)
           u == WheelShown(w, WheelSwitch(w.game), buttons)
           v == WheelShownGear(u, WheelSignals(u.game))
<1>1. wheel \in WheelState /\ wheel.shifting = (wheel.seen # {}) /\ wheel.coins = wheel.inserted
      /\ wheel.game = "idz" /\ wheel.mode \in {"dinput", "xinput"}
  BY DEF WheelInv, WheelGood, WheelState, idz_jvs_read_switches, WheelPlays
<1>2. WheelSameStart(wheel, wheel)
  BY DEF WheelSameStart
<1>3. WheelShifted(wheel, w)
  BY <1>1, <1>2, WheelShifters
<1>4. wheel' = WheelShownGear(WheelShown(w, idz_switch, buttons), idz_jvs_gear_signals)
  BY DEF idz_jvs_read_switches
<1> HIDE DEF w, buttons
<1>5. w \in WheelState /\ w.game = "idz"
  BY <1>1, <1>3 DEF WheelShifted, WheelSameStart
<1>6. /\ u \in WheelState /\ WheelShowing(u)
      /\ WheelSameStart(w, u) /\ WheelSameCoins(w, u) /\ WheelGearStays(w, u)
  BY <1>5, WheelShownIs
<1>7. u.game = "idz" /\ WheelSwitch(w.game) = idz_switch
      /\ WheelSignals(u.game) = idz_jvs_gear_signals
  BY <1>5, <1>6 DEF WheelSameStart, WheelSwitch, WheelSignals
<1>8. wheel' = v
  BY <1>4, <1>7
<1> HIDE DEF u
<1>9. /\ v \in WheelState /\ WheelShowing(v) /\ WheelShowingGear(v)
      /\ WheelSameStart(u, v) /\ WheelSameCoins(u, v) /\ WheelGearStays(u, v)
  BY <1>6, WheelShownGearIs
<1> HIDE DEF v
<1>10. WheelSameStart(wheel, v)
  BY <1>3, <1>6, <1>9 DEF WheelShifted, WheelSameStart
<1>11. v.coins = v.inserted
  BY <1>1, <1>3, <1>6, <1>9 DEF WheelShifted, WheelSameCoins
<1>12. v.shifting = (v.seen # {}) /\ WheelMoves(wheel, v)
  BY <1>3, <1>6, <1>9 DEF WheelShifted, WheelGearStays, WheelMoves
<1> QED
  BY <1>8, <1>9, <1>10, <1>11, <1>12, WheelPolls DEF WheelRight, WheelInv

(* The sticks of Initial D Zero.                                           *)
LEMMA WheelAnalogsKeep ==
  ASSUME WheelInv, idz_jvs_read_analogs
  PROVE  WheelRight
<1>1. PICK x \in WheelAnalogs : wheel' = [wheel EXCEPT !.analog = x]
  BY DEF idz_jvs_read_analogs
<1>2. wheel \in WheelState /\ wheel.shifting = (wheel.seen # {}) /\ wheel.coins = wheel.inserted
      /\ WheelShowing(wheel) /\ WheelShowingGear(wheel)
  BY DEF WheelInv, WheelGood
<1> DEFINE v == wheel'
<1>3. /\ v \in WheelState /\ WheelShowing(v) /\ WheelShowingGear(v)
      /\ WheelSameStart(wheel, v) /\ WheelSameCoins(wheel, v) /\ WheelGearStays(wheel, v)
  BY <1>1, <1>2, WheelSetsAnalog
<1> HIDE DEF v
<1>4. v.coins = v.inserted /\ v.shifting = (v.seen # {}) /\ WheelMoves(wheel, v)
  BY <1>2, <1>3 DEF WheelSameCoins, WheelGearStays, WheelMoves
<1> QED
  BY <1>3, <1>4, WheelPolls DEF WheelRight, WheelInv, v

(* The coins of Initial D Zero.                                            *)
LEMMA WheelCoinKeeps ==
  ASSUME WheelInv, idz_jvs_read_coin_counter
  PROVE  WheelRight
<1> DEFINE v == idz_io_jvs_read_coin_counter(wheel)
<1>1. wheel \in WheelState /\ wheel.shifting = (wheel.seen # {}) /\ wheel.coins = wheel.inserted
      /\ WheelShowing(wheel) /\ WheelShowingGear(wheel)
  BY DEF WheelInv, WheelGood
<1>2. wheel' = v /\ (wheel.inserted < WheelCoins \/ ~wheel.key \/ wheel.coin)
  BY DEF idz_jvs_read_coin_counter
<1>3. /\ v \in WheelState /\ v.coins = v.inserted /\ v.polled_gear = wheel.polled_gear
      /\ WheelSameStart(wheel, v) /\ WheelSameShown(wheel, v) /\ WheelGearStays(wheel, v)
  BY <1>1, <1>2, WheelCoinIs
<1> HIDE DEF v
<1>4. v.shifting = (v.seen # {}) /\ WheelMoves(wheel, v)
  BY <1>1, <1>3 DEF WheelGearStays, WheelMoves
<1>5. WheelShowing(v) /\ WheelShowingGear(v)
  BY <1>1, <1>3 DEF WheelShowing, WheelShowingGear, WheelSameShown, WheelSameStart
<1> QED
  BY <1>2, <1>3, <1>4, <1>5, WheelPolls DEF WheelRight, WheelInv

(* The poll of Initial D THE ARCADE.                                       *)
LEMMA WheelIdacKeeps ==
  ASSUME WheelInv, idac_io4_poll
  PROVE  WheelRight
<1> DEFINE buttons == IF wheel.mode = "dinput" THEN idac_di_get_buttons
                      ELSE idac_xi_get_gamebtns
           counted == idz_io_jvs_read_coin_counter(wheel)
           w == IF wheel.mode = "dinput" THEN idac_di_get_shifter(counted)
                ELSE idac_xi_get_shifter(counted)
           u == WheelShown(w, WheelSwitch(w.game), buttons)
           t == WheelShownGear(u, WheelSignals(u.game))
<1>1. wheel \in WheelState /\ wheel.shifting = (wheel.seen # {}) /\ wheel.coins = wheel.inserted
      /\ wheel.game = "idac" /\ wheel.mode \in {"dinput", "xinput"}
  BY DEF WheelInv, WheelGood, WheelState, idac_io4_poll, WheelPlays
<1>2. wheel.inserted < WheelCoins \/ ~wheel.key \/ wheel.coin
  BY DEF idac_io4_poll
<1>3. /\ counted \in WheelState /\ counted.coins = counted.inserted
      /\ WheelSameStart(wheel, counted) /\ WheelGearStays(wheel, counted)
  BY <1>1, <1>2, WheelCoinIs
<1>4. counted.shifting = (counted.seen # {}) /\ counted.mode = wheel.mode
  BY <1>1, <1>3 DEF WheelGearStays, WheelSameStart
<1>5. PICK x \in WheelAnalogs :
        wheel' = [WheelShownGear(WheelShown(w, idac_switch, buttons), idac_gear_signals)
                    EXCEPT !.analog = x]
  BY DEF idac_io4_poll
<1> HIDE DEF counted, buttons
<1>6. WheelShifted(counted, w)
  BY <1>1, <1>3, <1>4, WheelShifters DEF idac_di_get_shifter, idac_xi_get_shifter
<1> HIDE DEF w
<1>7. w \in WheelState /\ w.game = "idac"
  BY <1>1, <1>3, <1>6 DEF WheelShifted, WheelSameStart
<1>8. /\ u \in WheelState /\ WheelShowing(u)
      /\ WheelSameStart(w, u) /\ WheelSameCoins(w, u) /\ WheelGearStays(w, u)
  BY <1>7, WheelShownIs
<1>9. u.game = "idac" /\ WheelSwitch(w.game) = idac_switch
      /\ WheelSignals(u.game) = idac_gear_signals
  BY <1>7, <1>8 DEF WheelSameStart, WheelSwitch, WheelSignals
<1> DEFINE v == [t EXCEPT !.analog = x]
<1>10. wheel' = v
  BY <1>5, <1>9
<1> HIDE DEF u
<1>11. /\ t \in WheelState /\ WheelShowing(t) /\ WheelShowingGear(t)
       /\ WheelSameStart(u, t) /\ WheelSameCoins(u, t) /\ WheelGearStays(u, t)
  BY <1>8, WheelShownGearIs
<1> HIDE DEF t
<1>12. /\ v \in WheelState /\ WheelShowing(v) /\ WheelShowingGear(v)
       /\ WheelSameStart(t, v) /\ WheelSameCoins(t, v) /\ WheelGearStays(t, v)
  BY <1>11, WheelSetsAnalog
<1> HIDE DEF v
<1>13. WheelSameStart(wheel, v)
  BY <1>3, <1>6, <1>8, <1>11, <1>12 DEF WheelShifted, WheelSameStart
<1>14. v.coins = v.inserted
  BY <1>3, <1>6, <1>8, <1>11, <1>12 DEF WheelShifted, WheelSameCoins
<1>15. v.gear = w.gear /\ v.shifting = w.shifting /\ v.seen = w.seen
  BY <1>8, <1>11, <1>12 DEF WheelGearStays
<1>16. v.shifting = (v.seen # {}) /\ WheelMoves(wheel, v)
  BY <1>3, <1>6, <1>15 DEF WheelShifted, WheelGearStays, WheelSameStart, WheelMoves
<1> QED
  BY <1>10, <1>12, <1>13, <1>14, <1>16, WheelPolls DEF WheelRight, WheelInv

(* The poll of World Drivers Championship.                                 *)
LEMMA WheelSwdcKeeps ==
  ASSUME WheelInv, swdc_io4_poll
  PROVE  WheelRight
<1> DEFINE buttons == IF wheel.mode = "dinput" THEN swdc_di_get_buttons
                      ELSE swdc_xi_get_gamebtns
           counted == idz_io_jvs_read_coin_counter(wheel)
           u == WheelShown(counted, WheelSwitch(counted.game), buttons)
<1>1. wheel \in WheelState /\ wheel.shifting = (wheel.seen # {}) /\ wheel.coins = wheel.inserted
      /\ wheel.game = "swdc"
  BY DEF WheelInv, WheelGood, swdc_io4_poll, WheelPlays
<1>2. wheel.inserted < WheelCoins \/ ~wheel.key \/ wheel.coin
  BY DEF swdc_io4_poll
<1>3. /\ counted \in WheelState /\ counted.coins = counted.inserted
      /\ WheelSameStart(wheel, counted) /\ WheelGearStays(wheel, counted)
  BY <1>1, <1>2, WheelCoinIs
<1>4. PICK x \in WheelAnalogs :
        wheel' = [WheelShown(counted, swdc_switch, buttons) EXCEPT !.analog = x]
  BY DEF swdc_io4_poll
<1> HIDE DEF counted, buttons
<1>5. counted.game = "swdc" /\ WheelSwitch(counted.game) = swdc_switch
  BY <1>1, <1>3 DEF WheelSameStart, WheelSwitch
<1> DEFINE v == [u EXCEPT !.analog = x]
<1>6. wheel' = v
  BY <1>4, <1>5
<1>7. /\ u \in WheelState /\ WheelShowing(u)
      /\ WheelSameStart(counted, u) /\ WheelSameCoins(counted, u) /\ WheelGearStays(counted, u)
  BY <1>3, WheelShownIs
<1> HIDE DEF u
<1>8. WheelShowingGear(u)
  BY <1>5, <1>7 DEF WheelShowingGear, WheelSameStart
<1>9. /\ v \in WheelState /\ WheelShowing(v) /\ WheelShowingGear(v)
      /\ WheelSameStart(u, v) /\ WheelSameCoins(u, v) /\ WheelGearStays(u, v)
  BY <1>7, <1>8, WheelSetsAnalog
<1> HIDE DEF v
<1>10. WheelSameStart(wheel, v)
  BY <1>3, <1>7, <1>9 DEF WheelSameStart
<1>11. v.coins = v.inserted
  BY <1>3, <1>7, <1>9 DEF WheelSameCoins
<1>12. v.gear = wheel.gear /\ v.shifting = wheel.shifting /\ v.seen = wheel.seen
  BY <1>3, <1>7, <1>9 DEF WheelGearStays
<1>13. v.shifting = (v.seen # {}) /\ WheelMoves(wheel, v)
  BY <1>1, <1>12 DEF WheelMoves
<1> QED
  BY <1>6, <1>9, <1>10, <1>11, <1>13, WheelPolls DEF WheelRight, WheelInv

-----------------------------------------------------------------------------
(* The start, and the hands of the player.                                 *)
LEMMA WheelQuiet ==
  ASSUME WheelInv, NEW v \in WheelState, WheelHolds(v), v.game = wheel.game,
         WheelSameShown(wheel, v), v.polled_gear = wheel.polled_gear,
         WheelSameCoins(wheel, v), WheelGearStays(wheel, v)
  PROVE  WheelGood(v) /\ WheelMoves(wheel, v)
<1>1. WheelShowing(v) /\ WheelShowingGear(v)
  BY DEF WheelInv, WheelGood, WheelShowing, WheelShowingGear, WheelSameShown
<1>2. v.shifting = (v.seen # {}) /\ v.coins = v.inserted
  BY DEF WheelInv, WheelGood, WheelGearStays, WheelSameCoins
<1>3. WheelMoves(wheel, v)
  BY DEF WheelMoves, WheelGearStays
<1> QED
  BY <1>1, <1>2, <1>3 DEF WheelGood

(* The start.                                                              *)
LEMMA WheelStartKeeps ==
  ASSUME WheelInv,
         \/ idz_di_init \/ idac_di_init \/ swdc_di_init \/ idz_xi_init \/ idz_di_ffb_init
  PROVE  WheelRight
<1>1. wheel \in WheelState /\ WheelHolds(wheel)
  BY DEF WheelInv, WheelGood
<1>2. /\ wheel.named \in SUBSET WheelDevice /\ wheel.acquired \in SUBSET WheelDevice
      /\ wheel.acquired \cup {"wheel"} \in SUBSET WheelDevice
  BY <1>1 DEF WheelState, WheelDevice
<1>3. PICK pc \in {"ffb", "run", "exit", "crash"}, acquired \in SUBSET WheelDevice :
        /\ wheel' = [wheel EXCEPT !.pc = pc, !.acquired = acquired]
        /\ wheel.mode = "dinput" /\ pc \in {"ffb", "run"} => wheel.named \subseteq acquired
        /\ wheel.mode = "dinput" /\ pc = "run" => "wheel" \in acquired
  <2>1. ASSUME NEW game, NEW found, WheelStarts(game, found)
        PROVE  \/ wheel' = [wheel EXCEPT !.pc = "exit"]
               \/ wheel' = [wheel EXCEPT !.pc = "crash"]
               \/ wheel' = [wheel EXCEPT !.pc = "ffb", !.acquired = wheel.named]
    BY <2>1 DEF WheelStarts
  <2>2. \A pc : [wheel EXCEPT !.pc = pc] = [wheel EXCEPT !.pc = pc, !.acquired = wheel.acquired]
    BY <1>1 DEF WheelState
  <2>3. CASE idz_di_init \/ idac_di_init \/ swdc_di_init
    BY <1>2, <2>1, <2>2, <2>3 DEF idz_di_init, idac_di_init, swdc_di_init
  <2>4. CASE idz_xi_init
    BY <1>2, <2>2, <2>4 DEF idz_xi_init
  <2>5. CASE idz_di_ffb_init
    <3>1. wheel.pc = "ffb" /\ (wheel.mode = "dinput" => wheel.named \subseteq wheel.acquired)
      BY <1>1, <2>5 DEF idz_di_ffb_init, WheelHolds
    <3>2. CASE wheel.mode = "xinput"
      BY <1>2, <2>2, <2>5, <3>2 DEF idz_di_ffb_init
    <3>3. CASE wheel.mode # "xinput"
      <4> DEFINE all == wheel.acquired \cup {"wheel"}
      <4>1. wheel.mode = "dinput" /\ all \in SUBSET WheelDevice
        BY <1>1, <1>2, <3>3 DEF WheelState
      <4>2. wheel.named \subseteq all /\ "wheel" \in all
        BY <3>1, <4>1
      <4>3. wheel' = [wheel EXCEPT !.pc = "run", !.acquired = all]
        BY <2>5, <3>3 DEF idz_di_ffb_init
      <4> HIDE DEF all
      <4> QED
        BY <4>1, <4>2, <4>3
    <3> QED
      BY <3>2, <3>3
  <2> QED
    BY <2>3, <2>4, <2>5
<1> DEFINE v == wheel'
<1>4. v \in WheelState
  BY <1>1, <1>3 DEF WheelState
<1>5. /\ v.mode = wheel.mode /\ v.named = wheel.named /\ v.pc = pc /\ v.acquired = acquired
      /\ v.game = wheel.game /\ v.polled_gear = wheel.polled_gear
  BY <1>1, <1>3 DEF WheelState
<1>6. WheelSameShown(wheel, v) /\ WheelSameCoins(wheel, v) /\ WheelGearStays(wheel, v)
  BY <1>1, <1>3 DEF WheelState, WheelSameShown, WheelSameCoins, WheelGearStays
<1> HIDE DEF v
<1>7. WheelHolds(v)
  BY <1>3, <1>5 DEF WheelHolds
<1> QED
  BY <1>4, <1>5, <1>6, <1>7, WheelQuiet DEF WheelRight, WheelInv, v

(* The player.                                                             *)
LEMMA WheelPlayerKeeps ==
  ASSUME WheelInv,
         \/ \E b \in WheelPressed : WheelHand(b)
         \/ WheelCoinKey
         \/ \E gear \in 0..WheelGears : WheelStick(gear)
         \/ \E d \in {"wheel"} \cup wheel.named : WheelPlug(d)
  PROVE  WheelRight
<1>1. wheel \in WheelState /\ WheelHolds(wheel)
  BY DEF WheelInv, WheelGood
<1>2. ASSUME NEW v, v = wheel', v \in WheelState, v.mode = wheel.mode, v.named = wheel.named,
             v.pc = wheel.pc, v.acquired = wheel.acquired, v.game = wheel.game,
             v.polled_gear = wheel.polled_gear, WheelSameShown(wheel, v),
             WheelSameCoins(wheel, v), WheelGearStays(wheel, v)
      PROVE  WheelRight
  <2>1. WheelHolds(v)
    BY <1>1, <1>2 DEF WheelHolds
  <2> QED
    BY <1>2, <2>1, WheelQuiet DEF WheelRight, WheelInv
<1> DEFINE v == wheel'
<1>3. ASSUME NEW b \in WheelPressed, WheelHand(b) PROVE WheelRight
  <2> DEFINE pressed == IF b \in wheel.pressed THEN wheel.pressed \ {b}
                        ELSE wheel.pressed \cup {b}
  <2>1. v = [wheel EXCEPT !.pressed = pressed]
    BY <1>3 DEF WheelHand
  <2>2. pressed \in SUBSET WheelPressed
    BY <1>1 DEF WheelState
  <2> HIDE DEF pressed
  <2>3. v \in WheelState
    BY <1>1, <2>1, <2>2 DEF WheelState
  <2>4. /\ v.mode = wheel.mode /\ v.named = wheel.named /\ v.pc = wheel.pc
        /\ v.acquired = wheel.acquired /\ v.game = wheel.game
        /\ v.polled_gear = wheel.polled_gear /\ WheelSameShown(wheel, v)
        /\ WheelSameCoins(wheel, v) /\ WheelGearStays(wheel, v)
    BY <1>1, <2>1 DEF WheelState, WheelSameShown, WheelSameCoins, WheelGearStays
  <2> HIDE DEF v
  <2> QED
    BY <1>2, <2>3, <2>4 DEF v
<1>4. CASE WheelCoinKey
  <2>1. v = [wheel EXCEPT !.key = ~wheel.key]
    BY <1>4 DEF WheelCoinKey
  <2>2. v \in WheelState
    BY <1>1, <2>1 DEF WheelState
  <2>3. /\ v.mode = wheel.mode /\ v.named = wheel.named /\ v.pc = wheel.pc
        /\ v.acquired = wheel.acquired /\ v.game = wheel.game
        /\ v.polled_gear = wheel.polled_gear /\ WheelSameShown(wheel, v)
        /\ WheelSameCoins(wheel, v) /\ WheelGearStays(wheel, v)
    BY <1>1, <2>1 DEF WheelState, WheelSameShown, WheelSameCoins, WheelGearStays
  <2> HIDE DEF v
  <2> QED
    BY <1>2, <2>2, <2>3 DEF v
<1>5. ASSUME NEW gear \in 0..WheelGears, WheelStick(gear) PROVE WheelRight
  <2>1. v = [wheel EXCEPT !.stick = gear]
    BY <1>5 DEF WheelStick
  <2>2. v \in WheelState
    BY <1>1, <2>1 DEF WheelState
  <2>3. /\ v.mode = wheel.mode /\ v.named = wheel.named /\ v.pc = wheel.pc
        /\ v.acquired = wheel.acquired /\ v.game = wheel.game
        /\ v.polled_gear = wheel.polled_gear /\ WheelSameShown(wheel, v)
        /\ WheelSameCoins(wheel, v) /\ WheelGearStays(wheel, v)
    BY <1>1, <2>1 DEF WheelState, WheelSameShown, WheelSameCoins, WheelGearStays
  <2> HIDE DEF v
  <2> QED
    BY <1>2, <2>2, <2>3 DEF v
<1>6. ASSUME NEW d \in {"wheel"} \cup wheel.named, WheelPlug(d) PROVE WheelRight
  <2> DEFINE plugged == IF d \in wheel.plugged THEN wheel.plugged \ {d}
                        ELSE wheel.plugged \cup {d}
  <2>1. v = [wheel EXCEPT !.plugged = plugged]
    BY <1>6 DEF WheelPlug
  <2>2. d \in WheelDevice /\ wheel.plugged \in SUBSET WheelDevice
    BY <1>1, <1>6 DEF WheelState, WheelDevice
  <2>3. plugged \in SUBSET WheelDevice
    BY <2>2
  <2> HIDE DEF plugged
  <2>4. v \in WheelState
    BY <1>1, <2>1, <2>3 DEF WheelState
  <2>5. /\ v.mode = wheel.mode /\ v.named = wheel.named /\ v.pc = wheel.pc
        /\ v.acquired = wheel.acquired /\ v.game = wheel.game
        /\ v.polled_gear = wheel.polled_gear /\ WheelSameShown(wheel, v)
        /\ WheelSameCoins(wheel, v) /\ WheelGearStays(wheel, v)
    BY <1>1, <2>1 DEF WheelState, WheelSameShown, WheelSameCoins, WheelGearStays
  <2> HIDE DEF v
  <2> QED
    BY <1>2, <2>4, <2>5 DEF v
<1> QED
  BY <1>3, <1>4, <1>5, <1>6

(* Every step.                                                             *)
LEMMA WheelStepRight ==
  ASSUME WheelInv, WheelNext
  PROVE  WheelRight
  BY WheelStartKeeps, WheelSwitchesKeep, WheelAnalogsKeep, WheelCoinKeeps, WheelIdacKeeps,
     WheelSwdcKeeps, WheelPlayerKeeps DEF WheelNext

(* The invariant holds at first.                                           *)
LEMMA WheelInitInv ==
  WheelInit => WheelInv
<1> SUFFICES ASSUME WheelInit PROVE WheelInv
  OBVIOUS
<1>1. PICK g \in WheelGame, m \in {"dinput", "xinput"}, named \in SUBSET {"pedals", "shifter"},
           plugged \in SUBSET WheelDevice :
        wheel = [game |-> g, mode |-> m, named |-> named, plugged |-> plugged,
                 acquired |-> {}, pc |-> "init", pressed |-> {}, key |-> FALSE, stick |-> 0,
                 gear |-> 0, shifting |-> FALSE, coin |-> FALSE, coins |-> 0, analog |-> 0,
                 shown |-> {}, shown_gear |-> {}, polled |-> {}, polled_gear |-> 0,
                 seen |-> {}, inserted |-> 0]
  BY DEF WheelInit
<1>2. 0 \in 0..WheelGears /\ 0 \in 0..WheelCoins
  BY WheelAssumption
<1>3. wheel \in WheelState
  BY <1>1, <1>2 DEF WheelState
<1>4. /\ wheel.shifting = FALSE /\ wheel.seen = {} /\ wheel.coins = 0 /\ wheel.inserted = 0
      /\ wheel.polled = {} /\ wheel.shown = {} /\ wheel.polled_gear = 0
      /\ wheel.shown_gear = {} /\ wheel.pc = "init"
  BY <1>1
<1>5. WheelShowing(wheel) /\ WheelShowingGear(wheel) /\ WheelHolds(wheel)
  BY <1>4 DEF WheelShowing, WheelShowingGear, WheelHolds
<1> QED
  BY <1>3, <1>4, <1>5 DEF WheelInv, WheelGood

(* What is shown tells which buttons and which gear it was.                *)
LEMMA WheelInvShows ==
  ASSUME WheelInv
  PROVE  WheelShows
<1> DEFINE switch == WheelSwitch(wheel.game)
           signals == WheelSignals(wheel.game)
           gear == wheel.polled_gear
<1>1. wheel \in WheelState /\ WheelShowing(wheel) /\ WheelShowingGear(wheel)
      /\ wheel.game \in WheelGame /\ gear \in 0..WheelGears /\ WheelGears \in 1..6
  BY WheelAssumption DEF WheelInv, WheelGood, WheelState
<1>2. {b \in DOMAIN switch : switch[b] \in wheel.shown} = wheel.polled
  <2>1. \A a, b \in DOMAIN switch : switch[a] = switch[b] => a = b
    BY <1>1, WheelTables
  <2>2. wheel.polled \subseteq DOMAIN switch /\ wheel.shown = {switch[b] : b \in wheel.polled}
    BY <1>1 DEF WheelShowing
  <2> HIDE DEF switch
  <2> QED
    BY <2>1, <2>2
<1>3. ASSUME wheel.game # "swdc"
      PROVE  {g \in 1..6 : signals[g] = wheel.shown_gear} = {gear} \ {0}
  <2>1. \A g \in 1..6 : signals[g] # {} /\ \A h \in 1..6 : signals[g] = signals[h] => g = h
    BY WheelSignalTables
  <2>2. wheel.shown_gear = IF gear = 0 THEN {} ELSE signals[gear]
    BY <1>1, <1>3 DEF WheelShowingGear
  <2>3. gear = 0 \/ gear \in 1..6
    BY <1>1
  <2> HIDE DEF signals
  <2>4. CASE gear = 0
    BY <2>1, <2>2, <2>4
  <2>5. CASE gear \in 1..6
    BY <2>1, <2>2, <2>5
  <2> QED
    BY <2>3, <2>4, <2>5
<1> QED
  BY <1>2, <1>3 DEF WheelShows, WheelSwitch, WheelSignals

(* The driving games (WheelIsRight): the controls are acquired, what is    *)
(* shown are the buttons and the gear that were read, a press of a shift   *)
(* button is one gear, each coin counts once, and steering is odd, grows,  *)
(* and has the whole range outside of the dead zone.                       *)
THEOREM DrivingIsRight == WheelSpec => WheelIsRight
<1>1. WheelInv /\ [WheelNext]_wheel => WheelInv'
  <2> SUFFICES ASSUME WheelInv, [WheelNext]_wheel PROVE WheelInv'
    OBVIOUS
  <2>1. CASE WheelNext
    BY <2>1, WheelStepRight DEF WheelRight
  <2>2. CASE UNCHANGED wheel
    BY <2>2 DEF WheelInv
  <2> QED
    BY <2>1, <2>2
<1>2. WheelInv => WheelTypeOK /\ WheelShows /\ WheelAcquires /\ WheelCountsCoins /\ WheelSteers
  <2> SUFFICES ASSUME WheelInv
               PROVE  WheelTypeOK /\ WheelAcquires /\ WheelCountsCoins
    BY WheelInvShows, WheelSteeringIsSound
  <2>1. wheel \in WheelState /\ wheel.shifting = (wheel.seen # {}) /\ WheelHolds(wheel)
        /\ wheel.coins = wheel.inserted
    BY DEF WheelInv, WheelGood
  <2>2. WheelTypeOK
    BY <2>1 DEF WheelTypeOK, WheelState
  <2>3. WheelAcquires /\ WheelCountsCoins
    BY <2>1 DEF WheelAcquires, WheelCountsCoins, WheelHolds
  <2> QED
    BY <2>2, <2>3
<1>3. WheelInv /\ [WheelNext]_wheel =>
        [wheel'.gear # wheel.gear =>
           \/ wheel.seen = {} /\ WheelAbs(wheel'.gear - wheel.gear) = 1
           \/ /\ wheel.mode = "xinput" /\ "START" \in wheel.pressed
              /\ wheel'.gear \in {0, 1}]_wheel
  BY WheelStepRight DEF WheelRight, WheelMoves
<1> QED
  BY <1>1, <1>2, <1>3, WheelInitInv, PTL DEF WheelSpec, WheelIsRight, WheelShiftsOnce

===================================================================================
