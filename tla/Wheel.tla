---------------------------------- MODULE Wheel ----------------------------------
(***************************************************************************)
(* The controls of the three driving games: the device, read through       *)
(* DirectInput or XInput by the I/O DLL (idzio, idacio, swdcio), and the   *)
(* switches the hook makes of it (idzhook/jvs.c, idachook/io4.c,           *)
(* swdchook/io4.c).                                                        *)
(*                                                                         *)
(* A controller may be unplugged at any time; what cannot be read leaves   *)
(* what the caller put there.  Nothing acquires a device a second time.    *)
(* Buttons are named as the game knows them, and all of them are assigned. *)
(***************************************************************************)
EXTENDS Integers, FiniteSets

CONSTANTS
  WheelPressed,    (* buttons that are pressed in this instance            *)
  WheelGears,      (* gears (6)                                            *)
  WheelFull,       (* full deflection of a stick (32767)                   *)
  WheelRange,      (* what the game gets for it (24831)                    *)
  WheelDeadzones,  (* dead zones of the configuration                      *)
  WheelCoins       (* bound: coins that are inserted                       *)

ASSUME WheelAssumption ==
  /\ WheelGears \in 1..6 /\ WheelFull \in Nat \ {0} /\ WheelRange \in Nat \ {0}
  /\ \A d \in WheelDeadzones : d \in 0..WheelFull - 1
  /\ WheelCoins \in Nat

VARIABLE wheel

WheelGame == {"idz", "idac", "swdc"}
WheelDevice == {"wheel", "pedals", "shifter"}
WheelShift == {"dn", "up"}

(* The devices a configuration that is accepted may name besides the       *)
(* wheel; the last game has no shifter.                                    *)
idz_di_config_apply == SUBSET {"pedals", "shifter"}
idac_di_config_apply == SUBSET {"pedals", "shifter"}
swdc_di_config_apply == SUBSET {"pedals"}

(* named: the devices the configuration names besides the wheel; plugged:  *)
(* those that can be read; pressed: the buttons that are held down; key:   *)
(* the coin key; stick: the gear a shifter is in; coin: idz_io_coin; coins *)
(* and analog: what the game is shown, as is shown, the switches, with the *)
(* gear's apart.  Histories: polled and polled_gear, what the last poll    *)
(* has read; seen, the shift buttons of the last poll that could read      *)
(* them; inserted, presses of the coin key that a poll has met.            *)
WheelInit ==
  \E g \in WheelGame, m \in {"dinput", "xinput"},
     named \in SUBSET {"pedals", "shifter"}, plugged \in SUBSET WheelDevice :
    /\ named \in CASE g = "idz" -> idz_di_config_apply
                    [] g = "idac" -> idac_di_config_apply
                    [] g = "swdc" -> swdc_di_config_apply
    /\ m = "xinput" => named = {} /\ plugged = {"wheel"}
    /\ wheel = [game |-> g, mode |-> m, named |-> named, plugged |-> plugged,
                acquired |-> {}, pc |-> "init", pressed |-> {}, key |-> FALSE, stick |-> 0,
                gear |-> 0, shifting |-> FALSE, coin |-> FALSE, coins |-> 0, analog |-> 0,
                shown |-> {}, shown_gear |-> {}, polled |-> {}, polled_gear |-> 0,
                seen |-> {}, inserted |-> 0]

-----------------------------------------------------------------------------
(* Start.  The devices that are looked for are opened when they are        *)
(* plugged in.                                                             *)
idz_di_enum_callback(named) == ({"wheel"} \cup named) \cap wheel.plugged
idac_di_enum_callback(named) == idz_di_enum_callback(named)
swdc_di_enum_callback(named) == idz_di_enum_callback(named)

(* A call of DirectInput that fails ends the process, and so does a wheel  *)
(* that is missing.  Pedals or a shifter that are missing do it by a null  *)
(* pointer, as it is the wheel that is looked for once more.               *)
WheelStarts(game, found) ==
  /\ wheel.pc = "init" /\ wheel.mode = "dinput" /\ wheel.game = game
  /\ \/ wheel' = [wheel EXCEPT !.pc = "exit"]
     \/ /\ "wheel" \in found
        /\ wheel' = IF wheel.named \subseteq found
                    THEN [wheel EXCEPT !.pc = "ffb", !.acquired = wheel.named]
                    ELSE [wheel EXCEPT !.pc = "crash"]

idz_di_init == WheelStarts("idz", idz_di_enum_callback(wheel.named))
idac_di_init == WheelStarts("idac", idac_di_enum_callback(wheel.named))
swdc_di_init == WheelStarts("swdc", swdc_di_enum_callback(wheel.named))

idz_xi_init ==
  /\ wheel.pc = "init" /\ wheel.mode = "xinput"
  /\ wheel' \in {[wheel EXCEPT !.pc = "ffb"], [wheel EXCEPT !.pc = "exit"]}

(* idz_di_ffb_init: the wheel itself is acquired with the motor board.     *)
idz_di_ffb_init ==
  /\ wheel.pc = "ffb"
  /\ wheel' = IF wheel.mode = "xinput" THEN [wheel EXCEPT !.pc = "run"]
              ELSE [wheel EXCEPT !.pc = "run", !.acquired = @ \cup {"wheel"}]

-----------------------------------------------------------------------------
(* idz_di_dev_poll.                                                        *)
WheelReads(d) == d \in wheel.acquired /\ d \in wheel.plugged

idz_di_jvs_read_buttons == IF WheelReads("wheel") THEN wheel.pressed ELSE {}
idac_di_get_buttons == idz_di_jvs_read_buttons
swdc_di_get_buttons == idz_di_jvs_read_buttons

(* A pad that does not answer reads as one with nothing pressed.           *)
idz_xi_jvs_read_buttons == IF "wheel" \in wheel.plugged THEN wheel.pressed ELSE {}
idac_xi_get_gamebtns == idz_xi_jvs_read_buttons
swdc_xi_get_gamebtns == idz_xi_jvs_read_buttons

(* Broken: shifts on as long as the button is held.                        *)
WheelRepeats(w, buttons) ==
  LET down == IF "dn" \in buttons /\ w.gear > 0 THEN w.gear - 1 ELSE w.gear
  IN  [w EXCEPT !.gear = IF "up" \in buttons /\ down < WheelGears THEN down + 1 ELSE down,
                !.shifting = FALSE, !.seen = buttons \cap WheelShift]

idz_shifter_update(w, buttons) ==
  LET down == IF "dn" \in buttons /\ w.gear > 0 THEN w.gear - 1 ELSE w.gear
      next == IF "up" \in buttons /\ down < WheelGears THEN down + 1 ELSE down
  IN  [w EXCEPT !.gear = IF w.shifting THEN @ ELSE next,
                !.shifting = buttons \cap WheelShift # {},
                !.seen = buttons \cap WheelShift]

(* The shifters map the device to what it becomes, with the gear that was  *)
(* read as polled_gear.                                                    *)
WheelInGear(w, gear) == [w EXCEPT !.polled_gear = gear]

idz_di_jvs_read_shifter_pos(w) == WheelInGear(w, IF WheelReads("shifter") THEN w.stick ELSE 0)

idz_di_jvs_read_shifter_virt(w) ==
  IF WheelReads("wheel")
  THEN LET v == idz_shifter_update(w, w.pressed) IN WheelInGear(v, v.gear)
  ELSE WheelInGear(w, 0)

idz_di_jvs_read_shifter(w) ==
  IF "shifter" \in w.named THEN idz_di_jvs_read_shifter_pos(w)
  ELSE idz_di_jvs_read_shifter_virt(w)

(* Start goes back to neutral first.                                       *)
idz_xi_jvs_read_shifter(w) ==
  LET pad == idz_xi_jvs_read_buttons
      v == idz_shifter_update(IF "START" \in pad THEN [w EXCEPT !.gear = 0] ELSE w, pad)
  IN  WheelInGear(v, v.gear)

idac_di_get_shifter(w) == idz_di_jvs_read_shifter(w)
idac_xi_get_shifter(w) == idz_xi_jvs_read_shifter(w)

-----------------------------------------------------------------------------
(* Steering with sticks, linear or with the third power of the deflection. *)
(* In the middle the code divides by zero and converts what it gets, which *)
(* is 0 on the processors there are.                                       *)
WheelAbs(n) == IF n < 0 THEN -n ELSE n
WheelSign(n) == IF n < 0 THEN -1 ELSE 1

(* Broken: what is in the dead zone is left out of the range only.         *)
WheelOvershoots(axis, deadzone, linear) ==
  LET room == WheelFull - deadzone
      part == IF WheelAbs(axis) > deadzone THEN WheelAbs(axis) ELSE 0
  IN  IF axis = 0 THEN 0
      ELSE WheelSign(axis) * (IF linear THEN (part * WheelRange) \div room
                              ELSE (part * part * part * WheelRange) \div (room * room * room))

calculate_norm_steering(axis, deadzone, linear) ==
  LET size == IF WheelAbs(axis) > WheelFull THEN WheelFull ELSE WheelAbs(axis)
      room == WheelFull - deadzone
      part == IF WheelAbs(axis) > deadzone THEN size - deadzone ELSE 0
  IN  IF axis = 0 THEN 0
      ELSE WheelSign(axis) * (IF linear THEN (part * WheelRange) \div room
                              ELSE (part * part * part * WheelRange) \div (room * room * room))

(* One stick, or the average of both, which C rounds towards zero.         *)
idz_xi_jvs_read_analogs(left, right, single, deadzone, linear) ==
  LET l == calculate_norm_steering(left, deadzone, linear)
      r == calculate_norm_steering(right, deadzone, linear)
  IN  IF single THEN l ELSE WheelSign(l + r) * (WheelAbs(l + r) \div 2)

-----------------------------------------------------------------------------
(* The hooks.  A switch is the group it is in, and its bit.                *)
idz_switch ==
  [START |-> <<1, 15>>, VIEW |-> <<1, 9>>, UP |-> <<1, 13>>, DOWN |-> <<1, 12>>,
   LEFT |-> <<1, 11>>, RIGHT |-> <<1, 10>>, SERVICE |-> <<1, 14>>, TEST |-> <<0, 7>>]

idac_switch ==
  [START |-> <<0, 7>>, VIEW |-> <<0, 1>>, UP |-> <<0, 5>>, DOWN |-> <<0, 4>>,
   LEFT |-> <<0, 3>>, RIGHT |-> <<0, 2>>, SERVICE |-> <<0, 6>>, TEST |-> <<0, 9>>]

swdc_switch ==
  [START |-> <<0, 7>>, VIEW |-> <<0, 1>>, UP |-> <<0, 5>>, DOWN |-> <<0, 4>>,
   LEFT |-> <<0, 3>>, RIGHT |-> <<0, 2>>, SERVICE |-> <<0, 6>>, TEST |-> <<0, 9>>,
   BLUE |-> <<1, 15>>, GREEN |-> <<1, 14>>, RED |-> <<1, 13>>, YELLOW |-> <<1, 12>>,
   dn |-> <<1, 1>>, up |-> <<1, 0>>]

(* Broken: second gear has the switches of first.                          *)
WheelSameGear == <<{13, 11}, {13, 11}, {13}, {12}, {13, 10}, {12, 10}>>

(* The switches of each gear; neutral has none.                            *)
idz_jvs_gear_signals == <<{13, 11}, {12, 11}, {13}, {12}, {13, 10}, {12, 10}>>
idac_gear_signals == <<{5, 3}, {4, 3}, {5}, {4}, {5, 2}, {4, 2}>>

WheelShown(w, switch, buttons) ==
  [w EXCEPT !.polled = buttons \cap DOMAIN switch,
            !.shown = {switch[b] : b \in buttons \cap DOMAIN switch}]

(* A gear beyond the last is the last.                                     *)
WheelShownGear(w, signals) ==
  LET gear == IF w.polled_gear > 6 THEN 6 ELSE w.polled_gear
  IN  [w EXCEPT !.shown_gear = IF gear = 0 THEN {} ELSE signals[gear]]

(* Broken: counts as long as the key is held.                              *)
WheelCountsOn(w) ==
  [w EXCEPT !.coin = w.key, !.coins = IF w.key THEN @ + 1 ELSE @,
            !.inserted = IF w.key /\ ~w.coin THEN @ + 1 ELSE @]

(* A press of the coin key counts in the first poll that sees it.          *)
idz_io_jvs_read_coin_counter(w) ==
  [w EXCEPT !.coin = w.key, !.coins = IF w.key /\ ~w.coin THEN @ + 1 ELSE @,
            !.inserted = IF w.key /\ ~w.coin THEN @ + 1 ELSE @]

WheelPlays(game) == wheel.pc = "run" /\ wheel.game = game

(* The analog value of a wheel that cannot be read is not initialised.     *)
WheelAnalogs ==
  IF wheel.mode = "xinput" \/ WheelReads("wheel")
  THEN {idz_xi_jvs_read_analogs(x, x, FALSE, 0, TRUE) : x \in {-WheelFull, 0, WheelFull}}
  ELSE {-WheelRange, 0, WheelRange}

idz_jvs_read_switches ==
  /\ WheelPlays("idz")
  /\ LET buttons == IF wheel.mode = "dinput" THEN idz_di_jvs_read_buttons
                    ELSE idz_xi_jvs_read_buttons
         w == IF wheel.mode = "dinput" THEN idz_di_jvs_read_shifter(wheel)
              ELSE idz_xi_jvs_read_shifter(wheel)
     IN  wheel' = WheelShownGear(WheelShown(w, idz_switch, buttons), idz_jvs_gear_signals)

idz_jvs_read_analogs ==
  /\ WheelPlays("idz")
  /\ \E x \in WheelAnalogs : wheel' = [wheel EXCEPT !.analog = x]

idz_jvs_read_coin_counter ==
  /\ WheelPlays("idz") /\ (wheel.inserted < WheelCoins \/ ~wheel.key \/ wheel.coin)
  /\ wheel' = idz_io_jvs_read_coin_counter(wheel)

idac_io4_poll ==
  /\ WheelPlays("idac") /\ (wheel.inserted < WheelCoins \/ ~wheel.key \/ wheel.coin)
  /\ LET buttons == IF wheel.mode = "dinput" THEN idac_di_get_buttons
                    ELSE idac_xi_get_gamebtns
         counted == idz_io_jvs_read_coin_counter(wheel)
         w == IF wheel.mode = "dinput" THEN idac_di_get_shifter(counted)
              ELSE idac_xi_get_shifter(counted)
     IN  \E x \in WheelAnalogs :
           wheel' = [WheelShownGear(WheelShown(w, idac_switch, buttons), idac_gear_signals)
                       EXCEPT !.analog = x]

(* World Drivers Championship has paddles, and no gear of its own.         *)
swdc_io4_poll ==
  /\ WheelPlays("swdc") /\ (wheel.inserted < WheelCoins \/ ~wheel.key \/ wheel.coin)
  /\ LET buttons == IF wheel.mode = "dinput" THEN swdc_di_get_buttons
                    ELSE swdc_xi_get_gamebtns
         counted == idz_io_jvs_read_coin_counter(wheel)
     IN  \E x \in WheelAnalogs :
           wheel' = [WheelShown(counted, swdc_switch, buttons) EXCEPT !.analog = x]

-----------------------------------------------------------------------------
(* The player.                                                             *)
WheelHand(b) ==
  /\ wheel.pc = "run"
  /\ wheel' = [wheel EXCEPT !.pressed = IF b \in @ THEN @ \ {b} ELSE @ \cup {b}]

WheelCoinKey == wheel.pc = "run" /\ wheel' = [wheel EXCEPT !.key = ~@]

WheelStick(gear) ==
  /\ wheel.pc = "run" /\ "shifter" \in wheel.named
  /\ wheel' = [wheel EXCEPT !.stick = gear]

WheelPlug(d) ==
  /\ wheel.pc = "run"
  /\ wheel' = [wheel EXCEPT !.plugged = IF d \in @ THEN @ \ {d} ELSE @ \cup {d}]

WheelNext ==
  \/ idz_di_init \/ idac_di_init \/ swdc_di_init \/ idz_xi_init \/ idz_di_ffb_init
  \/ idz_jvs_read_switches \/ idz_jvs_read_analogs \/ idz_jvs_read_coin_counter
  \/ idac_io4_poll \/ swdc_io4_poll
  \/ \E b \in WheelPressed : WheelHand(b)
  \/ WheelCoinKey
  \/ \E gear \in 0..WheelGears : WheelStick(gear)
  \/ \E d \in {"wheel"} \cup wheel.named : WheelPlug(d)

-----------------------------------------------------------------------------
(* Properties.                                                             *)

(* The switches the game is shown are those of exactly the buttons and the *)
(* gear that were read: no two share a switch, in any of the tables        *)
(* (idzhook/jvs.c:36, idachook/io4.c:24).                                  *)
WheelShows ==
  wheel.pc = "run" =>
    LET switch == CASE wheel.game = "idz" -> idz_switch
                    [] wheel.game = "idac" -> idac_switch
                    [] wheel.game = "swdc" -> swdc_switch
        signals == IF wheel.game = "idz" THEN idz_jvs_gear_signals ELSE idac_gear_signals
    IN  /\ {b \in DOMAIN switch : switch[b] \in wheel.shown} = wheel.polled
        /\ wheel.game # "swdc" =>
             {g \in 1..6 : signals[g] = wheel.shown_gear} = {wheel.polled_gear} \ {0}

(* A device of DirectInput the game plays with has been acquired, whether  *)
(* or not the motor board is enabled.                                      *)
WheelAcquires ==
  wheel.pc = "run" /\ wheel.mode = "dinput" => {"wheel"} \cup wheel.named \subseteq wheel.acquired

(* Each press of the coin key that a poll has met counts once, through     *)
(* the DLL's edge and the hook's counter.                                  *)
WheelCountsCoins == wheel.coins = wheel.inserted

(* Steering is odd, grows with the deflection, reaches the whole range and *)
(* no more, and is nothing in the dead zone.                               *)
WheelSteers ==
  \A d \in WheelDeadzones, linear \in BOOLEAN, x \in -WheelFull - 1..WheelFull :
    LET at(n) == calculate_norm_steering(n, d, linear)
    IN  /\ at(x) \in -WheelRange..WheelRange
        /\ x < WheelFull => at(x) <= at(x + 1)
        /\ x > 0 => at(-x) = -at(x)
        /\ WheelAbs(x) <= d => at(x) = 0
        /\ at(WheelFull) = WheelRange

(* A gear is changed by one, and only once until both shift buttons were   *)
(* seen released; only Start goes back to neutral at once                  *)
(* (idz_shifter_update).                                                   *)
WheelShiftsOnce ==
  [][wheel'.gear # wheel.gear =>
       \/ wheel.seen = {} /\ WheelAbs(wheel'.gear - wheel.gear) = 1
       \/ /\ wheel.mode = "xinput" /\ "START" \in wheel.pressed
          /\ wheel'.gear \in {0, 1}]_wheel

WheelTypeOK ==
  /\ wheel.pc \in {"init", "ffb", "run", "exit", "crash"}
  /\ wheel.gear \in 0..WheelGears /\ wheel.stick \in 0..WheelGears
  /\ wheel.coins \in Nat /\ wheel.inserted \in 0..WheelCoins
  /\ wheel.seen \subseteq WheelShift /\ wheel.shifting = (wheel.seen # {})

(* The controls are acquired, their switches, gears and coins are those    *)
(* the player has given, and the steering is sound.                        *)
WheelIsRight ==
  [](WheelTypeOK /\ WheelShows /\ WheelAcquires /\ WheelCountsCoins /\ WheelSteers)
    /\ WheelShiftsOnce

=============================================================================
