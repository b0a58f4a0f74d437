-------------------------------- MODULE GameStart --------------------------------
(***************************************************************************)
(* What happens in a game's process before the game's own entry point: the *)
(* pre_startup of each hook library, and the I/O DLLs it loads             *)
(* (chuni-dll.c and the like, util/dll-bind.c).                            *)
(*                                                                         *)
(* A pre_startup is a sequence of steps.  Most give a result that ends the *)
(* start if it is a failure; some give one nobody looks at.  Every port is *)
(* its default: the ones that are configured are left out.                 *)
(***************************************************************************)
EXTENDS Integers, Sequences, SequencesExt

CONSTANTS
  StartVersions    (* API versions an I/O DLL may say it has               *)

ASSUME StartAssumption == StartVersions \subseteq Nat

VARIABLE start

(* dip: the setting that tells two kinds of cabinet apart; custom: whether *)
(* a DLL is configured; version and bound: of the I/O DLL, after it was    *)
(* loaded; at: the step that comes next; ports: who is on which COM port;  *)
(* aime: functions of the readers' DLL that are bound.  History: failed,   *)
(* steps that have failed.                                                 *)
StartGame == {"chuni", "chusan", "mai2", "mu3", "diva", "fgo", "idz", "idac", "swdc",
              "carol", "ekt", "sekito", "kemono", "tokyo", "mercury", "apm3", "cm", "cxb"}

StartInit ==
  \E g \in StartGame, dip \in BOOLEAN, custom \in BOOLEAN :
    start = [game |-> g, dip |-> dip, custom |-> custom, version |-> 0, bound |-> {},
             at |-> 1, pc |-> "start", ports |-> {}, failed |-> {}, aime |-> {}]

-----------------------------------------------------------------------------
(* The functions of each DLL, in the order they are bound.                 *)
chuni_dll_syms ==
  <<"jvs_init", "jvs_poll", "jvs_read_coin_counter", "slider_init", "slider_start",
    "slider_stop", "slider_set_leds", "led_init", "led_set_leds">>
chusan_dll_syms == chuni_dll_syms
mai2_dll_syms ==
  <<"init", "poll", "get_opbtns", "get_gamebtns", "touch_init", "touch_set_sens",
    "touch_update", "led_init", "led_set_fet_output", "led_dc_update", "led_gs_update",
    "led_set_leds", "led_cam_set">>
mu3_dll_syms ==
  <<"init", "poll", "get_opbtns", "get_gamebtns", "get_lever", "led_init", "led_set_leds">>
diva_dll_syms ==
  <<"jvs_init", "jvs_poll", "jvs_read_coin_counter", "slider_init", "slider_start",
    "slider_stop", "slider_set_leds", "led_init", "led_set_leds", "touch_init",
    "touch_start", "touch_stop">>
fgo_dll_syms ==
  <<"init", "poll", "get_opbtns", "get_gamebtns", "get_analogs", "led_init",
    "led_set_leds">>
idz_dll_syms ==
  <<"jvs_init", "jvs_read_analogs", "jvs_read_buttons", "jvs_read_shifter",
    "jvs_read_coin_counter", "led_init", "led_set_fet_output", "led_gs_update",
    "led_set_leds", "ffb_init", "ffb_toggle", "ffb_constant_force", "ffb_rumble",
    "ffb_damper">>
idac_dll_syms ==
  <<"init", "get_opbtns", "get_gamebtns", "get_shifter", "get_analogs", "led_init",
    "led_set_fet_output", "led_gs_update", "led_set_leds", "ffb_init", "ffb_toggle",
    "ffb_constant_force", "ffb_rumble", "ffb_damper">>
swdc_dll_syms == SelectSeq(idac_dll_syms, LAMBDA f : f # "get_shifter")
carol_dll_syms ==
  <<"jvs_init", "jvs_poll", "jvs_read_coin_counter", "touch_init", "ledbd_init",
    "controlbd_init", "touch_start", "touch_stop">>
ekt_dll_syms ==
  <<"init", "poll", "get_opbtns", "get_gamebtns", "get_trackball_position", "led_init",
    "led_set_leds">>
sekito_dll_syms == ekt_dll_syms
kemono_dll_syms ==
  <<"init", "poll", "jvs_read_coin_counter", "led_init", "led_set_leds", "jvs_write_gpio">>
tokyo_dll_syms ==
  <<"init", "get_opbtns", "get_gamebtns", "get_sensors", "led_init", "led_set_leds">>
mercury_dll_syms ==
  <<"init", "poll", "get_opbtns", "get_gamebtns", "touch_init", "touch_start", "set_leds">>
apm3_dll_syms ==
  <<"init", "poll", "get_opbtns", "get_gamebtns", "led_init", "led_set_leds">>
cm_dll_syms == <<"init", "poll", "get_opbtns">>
cxb_dll_syms ==
  <<"revio_init", "revio_poll", "revio_get_coins", "revio_set_coins", "led_init",
    "led_update">>
aime_dll_syms ==
  <<"init", "nfc_poll", "nfc_get_aime_id", "nfc_get_felica_id", "led_set_color",
    "vfd_set_text", "vfd_set_state", "nfc_get_mifare_block", "nfc_get_mifare_uid", "nfc_mifare_select",
    "nfc_mifare_set_key", "nfc_mifare_authenticate", "nfc_mifare_read_block",
    "nfc_felica_transact", "nfc_radio_on", "nfc_radio_off", "nfc_to_update_mode",
    "nfc_send_hex_data">>

(* dll_bind: functions are bound in order, up to the first that is         *)
(* missing.  Of a DLL only how many of the functions, in that order, it    *)
(* has matters.                                                            *)
StartFirst(syms, n) == {syms[i] : i \in 1..n}
dll_bind(syms, count, has) ==
  IF has >= count THEN [ok |-> TRUE, bound |-> StartFirst(syms, count)]
  ELSE [ok |-> FALSE, bound |-> StartFirst(syms, has)]

(* Broken: a DLL of an old version may lack any function.                  *)
StartEnoughForOld(version, has) == version <= 257 \/ has = 9

(* Of CHUNITHM and O.N.G.E.K.I. the functions for LEDs are younger: all    *)
(* are tried, and a DLL that fails may do.  The chu2to3 bridge has all.    *)
chuni_has_enough_symbols(version, has) == has = IF version <= 257 THEN 7 ELSE 9
chusan_has_enough_symbols(version, has) == has = IF version <= 257 THEN 7 ELSE 9
mu3_has_enough_symbols(version, has) == has = IF version <= 256 THEN 5 ELSE 7

chuni_dll_init(version, has) ==
  LET b == dll_bind(chuni_dll_syms, 9, has)
  IN  [b EXCEPT !.ok = @ \/ chuni_has_enough_symbols(version, has)]
chusan_dll_init(version, has) ==
  LET b == dll_bind(chusan_dll_syms, 9, has)
  IN  [b EXCEPT !.ok = @ \/ chusan_has_enough_symbols(version, has)]
mu3_dll_init(version, has) ==
  LET b == dll_bind(mu3_dll_syms, 7, has)
  IN  [b EXCEPT !.ok = @ \/ mu3_has_enough_symbols(version, has)]

(* Of others the version says how many are tried, ...                      *)
mai2_dll_init(version, has) ==
  dll_bind(mai2_dll_syms, IF version < 258 THEN 11 ELSE 13, has)
diva_dll_init(version, has) ==
  dll_bind(diva_dll_syms, IF version = 257 THEN 12 ELSE 7, has)
aime_dll_init(version, has) ==
  dll_bind(aime_dll_syms, IF version < 257 THEN 5 ELSE 17, has)

(* ... and of most all are needed.                                         *)
fgo_dll_init(version, has) == dll_bind(fgo_dll_syms, Len(fgo_dll_syms), has)
idz_dll_init(version, has) == dll_bind(idz_dll_syms, Len(idz_dll_syms), has)
idac_dll_init(version, has) == dll_bind(idac_dll_syms, Len(idac_dll_syms), has)
swdc_dll_init(version, has) == dll_bind(swdc_dll_syms, Len(swdc_dll_syms), has)
carol_dll_init(version, has) == dll_bind(carol_dll_syms, Len(carol_dll_syms), has)
ekt_dll_init(version, has) == dll_bind(ekt_dll_syms, Len(ekt_dll_syms), has)
sekito_dll_init(version, has) == dll_bind(sekito_dll_syms, Len(sekito_dll_syms), has)
kemono_dll_init(version, has) == dll_bind(kemono_dll_syms, Len(kemono_dll_syms), has)
tokyo_dll_init(version, has) == dll_bind(tokyo_dll_syms, Len(tokyo_dll_syms), has)
mercury_dll_init(version, has) == dll_bind(mercury_dll_syms, Len(mercury_dll_syms), has)
apm3_dll_init(version, has) == dll_bind(apm3_dll_syms, Len(apm3_dll_syms), has)
cm_dll_init(version, has) == dll_bind(cm_dll_syms, Len(cm_dll_syms), has)
cxb_dll_init(version, has) == dll_bind(cxb_dll_syms, Len(cxb_dll_syms), has)

(* What the hooks of a game do without: functions that are looked at       *)
(* before each call, and the init that sekitohook never calls.             *)
StartOptional(g) ==
  CASE g \in {"chuni", "chusan"} -> {"led_init", "led_set_leds"}
    [] g = "mai2" -> {"led_set_leds", "led_cam_set"}
    [] g = "sekito" -> {"init"}
    [] OTHER -> {}
aime_optional ==
  {"vfd_set_text", "vfd_set_state", "nfc_get_mifare_block", "nfc_get_mifare_uid", "nfc_mifare_select",
   "nfc_mifare_set_key", "nfc_mifare_authenticate", "nfc_mifare_read_block",
   "nfc_felica_transact", "nfc_radio_on", "nfc_radio_off", "nfc_to_update_mode",
   "nfc_send_hex_data"}

-----------------------------------------------------------------------------
(* Steps.  fail: what a failure does; ports: what the board is put on when *)
(* it is enabled; needs: functions it asserts to be there; only: functions *)
(* without which the step is left out.                                     *)
StartStep(name, fail, ports, needs) ==
  [name |-> name, fail |-> fail, ports |-> ports, needs |-> needs, only |-> {}]

Does(name) == StartStep(name, "ignore", {}, {})
Must(name) == StartStep(name, "exit", {}, {})
Board(name, ports) == StartStep(name, "exit", ports, {})
Led70(ports) == StartStep("led70", "exit", ports, {"led_init"})
Led93(ports) == StartStep("led93", "exit", ports, {"led_init", "led_set_leds"})
Led93IfAny(ports) == [Led93(ports) EXCEPT !.only = {"led_init", "led_set_leds"}]
Returns(step) == [step EXCEPT !.fail = "return"]
Ignored(step) == [step EXCEPT !.fail = "ignore"]
ChuniSlider == StartStep("slider", "exit", {1}, {"slider_init"})

(* Broken: the second board is put on the display's port.                  *)
StartOnePort(dip) ==
  <<Does("dvd"), Does("gfx"), Does("d3d9"), Does("serial"), Must("platform"), Must("dll"),
    Must("io4"), ChuniSlider>> \o (IF dip THEN <<>> ELSE <<Board("vfd", {2})>>)
  \o <<Led93IfAny({2, 3}), Board("reader", {4}), Does("spike")>>

(* Broken: LEDs are handed over whether or not the DLL has them.           *)
StartUnchecked ==
  <<Does("gfx"), Does("d3d9"), Does("serial"), Must("platform"), Must("dll"), Must("amex"),
    ChuniSlider, Led93({10, 11}), Board("reader", {12}), Does("fgdet"), Does("spike")>>

chuni_pre_startup ==
  <<Does("gfx"), Does("d3d9"), Does("serial"), Must("platform"), Must("dll"), Must("amex"),
    ChuniSlider, Led93IfAny({10, 11}), Board("reader", {12}), Does("fgdet"), Does("spike")>>

(* A DIP switch makes it a cabinet without display and with other ports.   *)
chusan_pre_startup(dip) ==
  <<Does("dvd"), Does("gfx"), Does("d3d9"), Does("serial"), Must("platform"), Must("dll"),
    Must("io4"), ChuniSlider>> \o (IF dip THEN <<>> ELSE <<Board("vfd", {2})>>)
  \o <<Led93IfAny(IF dip THEN {2, 3} ELSE {20, 21}), Board("reader", {4}), Does("spike")>>

(* Broken: the LEDs come before the DLL.                                   *)
StartTooEarly ==
  <<Does("dvd"), Does("serial"), Must("platform"), Board("touch", {3, 4}), Led70({21, 23}),
    Must("dll"), Board("reader", {1}), Board("vfd", {2}), Must("io4"), Does("unity"),
    Does("spike")>>

mai2_pre_startup ==
  <<Does("dvd"), Does("serial"), Must("platform"), Must("dll"), Board("touch", {3, 4}),
    Led70({21, 23}), Board("reader", {1}), Board("vfd", {2}), Must("io4"), Does("unity"),
    Does("spike")>>

mu3_pre_startup ==
  <<Does("dvd"), Does("gfx"), Does("d3d9"), Does("d3d11"), Does("dxgi"), Does("serial"),
    Must("platform"), Must("dll"), Returns(Led93({3})), Board("reader", {1}),
    Board("vfd", {2}), Must("io4"), Does("unity"), Does("spike")>>

diva_pre_startup ==
  <<Does("dvd"), Does("gl"), Does("serial"), Must("platform"), Must("dll"), Must("amex"),
    Board("reader", {10}), Board("slider", {11}), Board("elo", {1}), Must("printer"),
    Does("spike")>>

(* The LED board is behind the adapter, on its port.                       *)
fgo_pre_startup ==
  <<Does("dvd"), Does("gfx"), Does("touch"), Does("serial"), Ignored(Board("printer", {4})),
    Must("platform"), Board("reader", {3}), Board("vfd", {1}), Must("dll"), Must("io4"),
    Board("deck", {2}), Board("ftdi", {17}), Led93({17}), Must("createprocess"),
    Does("spike")>>

idz_pre_startup ==
  <<Does("serial"), Does("gfx"), Does("d3d11"), Does("dxgi"), Does("zinput"), Does("dvd"),
    Does("crt"), Must("platform"), Must("dll"), Must("jvs"), Must("amex"),
    Board("reader", {10}), Board("ffb", {1}), Led70({11}), Does("fgdet"), Does("spike")>>

idac_pre_startup ==
  <<Does("serial"), Does("dvd"), Must("platform"), Must("dll"), Board("reader", {3}),
    Must("io4"), Board("ffb", {1}), Led70({2}), Does("indrun"), Does("spike")>>

swdc_pre_startup ==
  <<Does("serial"), Does("dvd"), Must("platform"), Must("dll"), Board("reader", {3}),
    Returns(Board("vfd", {4})), Must("io4"), Board("ffb", {1}), Led70({2}),
    Does("zinput"), Does("spike")>>

carol_pre_startup ==
  <<Does("cursor"), Does("serial"), Must("platform"), Must("dll"), Must("amex"),
    Board("reader", {10}), Does("gfx"), Does("d3d9"), Board("touch", {1}),
    Board("ledbd", {11}), Board("controlbd", {12}), Must("createprocess"), Does("spike")>>

(* The platform ID tells a terminal; one that is neither ends the start.   *)
ekt_pre_startup(dip) ==
  <<Does("dvd"), Does("gfx"), Does("d3d11"), Does("dxgi"), Does("serial"),
    Does("createprocess"), Must("y3"), Does("printer"), Must("platform"),
    Must("platform_id"), Must("dll"), Must("io4"), Led93({IF dip THEN 3 ELSE 2}),
    Board("reader", {IF dip THEN 1 ELSE 3}), Does("unity"), Does("spike"),
    Must("warning")>>

(* sekito_io_init is the built-in DLL's.                                   *)
sekito_pre_startup(dip) ==
  <<Does("dvd"), Does("gfx"), Does("d3d9"), Does("serial"), Does("sekito_io_init"),
    Must("y3"), Does("printer"), Must("platform"), Must("platform_id"), Must("dll"),
    Led93({IF dip THEN 11 ELSE 1})>>
  \o (IF dip THEN <<Board("reader_queue", {12}), Board("reader", {1})>>
      ELSE <<Board("reader", {12})>>)
  \o <<Must("amex"), Does("fgdet"), Does("spike")>>

kemono_pre_startup ==
  <<Does("dvd"), Does("serial"), Does("firmware"), Does("printer"), Must("platform"),
    Board("reader", {1}), Must("dll"), Must("amex"), Led93({10}), Does("fgdet"),
    Does("extra"), Does("unity"), Does("spike")>>

tokyo_pre_startup ==
  <<Does("dvd"), Does("zinput"), Does("serial"), Must("platform"), Must("dll"),
    Returns(Led93({1})), Must("io4"), Does("spike")>>

mercury_pre_startup ==
  <<Does("dvd"), Does("gfx"), Does("d3d11"), Does("serial"), Must("platform"),
    Board("reader", {1}), Board("vfd", {2}), Must("dll"), Must("io4"),
    Does("elizabeth"), Ignored(StartStep("touch", "exit", {3, 4}, {"touch_init"})),
    Does("spike")>>

apm3_pre_startup ==
  <<Does("dvd"), Does("touch"), Does("serial"), Does("mount"), Does("video"),
    Must("platform"), Board("reader", {3}), Board("vfd", {1}), Must("dll"), Must("io4"),
    Led93({2}), Does("unity"), Does("spike")>>

cm_pre_startup ==
  <<Does("dvd"), Does("touch"), Does("serial"), Does("printer"), Must("platform"),
    Must("dll"), Board("reader", {1}), Board("vfd", {2}), Must("io4"), Does("unity"),
    Does("spike")>>

(* Broken: the reader's failure is not looked at.                          *)
StartCarriesOn ==
  <<Does("gfx"), Does("d3d9"), Does("serial"), Must("platform"), Must("dll"), Must("amex"),
    Ignored(Board("reader", {12})), Must("revio"), Does("fgdet"), Must("led"),
    Does("spike")>>

cxb_pre_startup ==
  <<Does("gfx"), Does("d3d9"), Does("serial"), Must("platform"), Must("dll"), Must("amex"),
    Board("reader", {12}), Must("revio"), Does("fgdet"), Must("led"), Does("spike")>>

StartSteps(dip) ==
  [chuni |-> chuni_pre_startup, chusan |-> chusan_pre_startup(dip),
   mai2 |-> mai2_pre_startup, mu3 |-> mu3_pre_startup, diva |-> diva_pre_startup,
   fgo |-> fgo_pre_startup, idz |-> idz_pre_startup, idac |-> idac_pre_startup,
   swdc |-> swdc_pre_startup, carol |-> carol_pre_startup, ekt |-> ekt_pre_startup(dip),
   sekito |-> sekito_pre_startup(dip), kemono |-> kemono_pre_startup,
   tokyo |-> tokyo_pre_startup, mercury |-> mercury_pre_startup,
   apm3 |-> apm3_pre_startup, cm |-> cm_pre_startup, cxb |-> cxb_pre_startup]

StartSyms ==
  [chuni |-> chuni_dll_syms, chusan |-> chusan_dll_syms, mai2 |-> mai2_dll_syms,
   mu3 |-> mu3_dll_syms, diva |-> diva_dll_syms, fgo |-> fgo_dll_syms,
   idz |-> idz_dll_syms, idac |-> idac_dll_syms, swdc |-> swdc_dll_syms,
   carol |-> carol_dll_syms, ekt |-> ekt_dll_syms, sekito |-> sekito_dll_syms,
   kemono |-> kemono_dll_syms, tokyo |-> tokyo_dll_syms, mercury |-> mercury_dll_syms,
   apm3 |-> apm3_dll_syms, cm |-> cm_dll_syms, cxb |-> cxb_dll_syms]

StartBinds(v, has) ==
  [chuni |-> chuni_dll_init(v, has), chusan |-> chusan_dll_init(v, has),
   mai2 |-> mai2_dll_init(v, has), mu3 |-> mu3_dll_init(v, has),
   diva |-> diva_dll_init(v, has), fgo |-> fgo_dll_init(v, has),
   idz |-> idz_dll_init(v, has), idac |-> idac_dll_init(v, has),
   swdc |-> swdc_dll_init(v, has), carol |-> carol_dll_init(v, has),
   ekt |-> ekt_dll_init(v, has), sekito |-> sekito_dll_init(v, has),
   kemono |-> kemono_dll_init(v, has), tokyo |-> tokyo_dll_init(v, has),
   mercury |-> mercury_dll_init(v, has), apm3 |-> apm3_dll_init(v, has),
   cm |-> cm_dll_init(v, has), cxb |-> cxb_dll_init(v, has)]

(* The version of the DLL that is built in.                                *)
StartBuiltIn(g) ==
  CASE g \in {"chuni", "chusan", "mai2", "idz", "idac", "swdc"} -> 258
    [] g \in {"mu3", "diva"} -> 257
    [] OTHER -> 256

-----------------------------------------------------------------------------
(* Steps are taken in order.                                               *)
StartAt ==
  LET steps == StartSteps(start.dip)[start.game]
  IN  IF start.pc = "start" /\ start.at <= Len(steps) THEN {steps[start.at]} ELSE {}

StartNextStep(s) == [s EXCEPT !.at = @ + 1]
StartFails(s, step) ==
  IF step.fail = "ignore" THEN [StartNextStep(s) EXCEPT !.failed = @ \cup {step.name}]
  ELSE [s EXCEPT !.pc = step.fail, !.failed = @ \cup {step.name}]

(* The DLL of the game.  One that does not load, that is too new or that   *)
(* lacks a function is refused, and freed.                                 *)
StartLoads(step) ==
  /\ step.name = "dll"
  /\ IF start.custom
     THEN \/ start' = StartFails(start, step)
          \/ \E v \in StartVersions, has \in 0..Len(StartSyms[start.game]) :
               LET b == StartBinds(v, has)[start.game]
               IN  start' = IF v < 512 /\ b.ok
                            THEN [StartNextStep(start) EXCEPT !.version = v, !.bound = b.bound]
                            ELSE StartFails(start, step)
     ELSE LET v == StartBuiltIn(start.game)
              b == StartBinds(v, Len(StartSyms[start.game]))[start.game]
          IN  start' = [StartNextStep(start) EXCEPT !.version = v, !.bound = b.bound]

(* A hook is left out for want of functions, asserts them, is disabled,    *)
(* fails, or is there.  The readers load a DLL of their own.               *)
StartHooks(step) ==
  /\ step.name # "dll"
  /\ IF ~(step.only \subseteq start.bound) THEN start' = StartNextStep(start)
     ELSE IF ~(step.needs \subseteq start.bound) THEN start' = [start EXCEPT !.pc = "assert"]
     ELSE \/ step.ports # {} /\ start' = StartNextStep(start)
          \/ step.fail # "ignore" /\ start' = StartFails(start, step)
          \/ step.ports # {} /\ start' = StartFails(start, step)
          \/ LET on == [StartNextStep(start)
                         EXCEPT !.ports = @ \cup {<<step.name, p>> : p \in step.ports}]
             IN  IF step.name \in {"reader", "reader_queue"}
                 THEN \E v \in StartVersions, has \in {5, 17} :
                        LET b == aime_dll_init(v, has)
                        IN  start' = IF v < 512 /\ b.ok THEN [on EXCEPT !.aime = b.bound]
                                     ELSE StartFails(start, step)
                 ELSE start' = on

(* The game's entry point.                                                 *)
StartRuns ==
  /\ start.pc = "start" /\ StartAt = {}
  /\ start' = [start EXCEPT !.pc = "run"]

StartNext == StartRuns \/ \E step \in StartAt : StartLoads(step) \/ StartHooks(step)

-----------------------------------------------------------------------------
(* Properties.                                                             *)

(* No game runs after a step has failed, but for two whose result is not   *)
(* looked at (mercuryhook/dllmain.c:111, printer_chc.c:1082).              *)
StartsWhole == start.pc = "run" => start.failed \subseteq {"printer", "touch"}

(* No two boards of a game are on one port, in either kind of cabinet; the *)
(* adapter and the LED board behind it are one (fgohook/dllmain.c:132).    *)
StartsApart ==
  \A a, b \in start.ports : a[2] = b[2] => a = b \/ {a[1], b[1]} = {"ftdi", "led93"}

(* A game that runs calls no function its DLL lacks: the ones a refused    *)
(* version may lack are looked at first.  Of Project DIVA this is so for   *)
(* DLLs of version 0x0101 only (diva-dll.c:117).                           *)
StartsBound ==
  start.pc = "run" =>
    /\ start.game # "diva" \/ start.version = 257 =>
         ToSet(StartSyms[start.game]) \ StartOptional(start.game) \subseteq start.bound
    /\ (\E p \in start.ports : p[1] \in {"reader", "reader_queue"}) =>
         ToSet(aime_dll_syms) \ aime_optional \subseteq start.aime

(* No board asserts a function that is not there, but for O.N.G.E.K.I.     *)
(* with a DLL of version 0x0100, which mu3-dll.c:40 lets through.          *)
StartsSafely ==
  start.pc = "assert" => start.game = "mu3" /\ start.version <= 256

StartTypeOK ==
  /\ start.game \in StartGame
  /\ start.pc \in {"start", "run", "exit", "return", "assert"}
  /\ start.at \in Nat \ {0}

(* A game that runs has all its boards, each on its own port, and all the  *)
(* functions it calls.                                                     *)
StartIsRight == StartTypeOK /\ StartsWhole /\ StartsApart /\ StartsBound /\ StartsSafely

=============================================================================
