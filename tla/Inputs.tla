---------------------------------- MODULE Inputs ----------------------------------
(***************************************************************************)
(* From the keys to the cabinet's switches: the I/O DLL that reads a       *)
(* keyboard or a pad (chuniio, mu3io and the like), and the hook that      *)
(* makes the words of an IO4 or of a JVS board of it (mu3hook/io4.c,       *)
(* kemonohook/jvs.c and the like), for the games that are not driven.      *)
(*                                                                         *)
(* A switch is the word it is in and its bit.  A cabinet is a game, with   *)
(* what else decides where its buttons go: terminals, beams of I/O DLLs    *)
(* older than 0x0101, DirectInput.  What the keys do is chosen by the      *)
(* poll that reads them; the DLLs are the ones of the repository, whose    *)
(* polls do not fail.                                                      *)
(***************************************************************************)
EXTENDS Integers, FiniteSets, FiniteSetsExt, TLC

CONSTANTS
  InpCoins,        (* bound: presses of the coin key                       *)
  InpByte,         (* coins that a chute can show (256)                    *)
  InpHalf,         (* half of the values of an analog input (32768)        *)
  InpSpeed         (* what a lever, a stick or a ball moves in a poll      *)

ASSUME InpAssumption ==
  InpCoins \in Nat /\ InpByte \in Nat \ {0} /\ InpHalf \in Nat \ {0} /\ InpSpeed \in Nat

VARIABLE inp

InpCabinet == {"mu3", "mai2", "chusan", "chusan_old", "mercury", "fgo", "apm3", "apm3_di",
               "cm", "tokyo", "tokyo_xi", "ekt", "ekt_term", "chuni", "chuni_old",
               "sekito", "sekito_term", "kemono", "diva", "carol", "cxb"}

(* coin: the DLL's flag, that the key was down; coins: the counter; chute: *)
(* what the game was shown of it; hand: of the beams (chuni_io_hand_pos);  *)
(* pos and ball: of the lever and the trackball; analog: what the game was *)
(* shown; out and last: prev_out and last_triggers.  Histories: read, the  *)
(* buttons the last poll has read, and whether there was one; inserted,    *)
(* presses of the coin key.                                                *)
InpInit ==
  \E c \in InpCabinet, emu \in BOOLEAN :
    /\ emu => c \in {"chusan", "chuni"}
    /\ inp = [cabinet |-> c, emu |-> emu, coin |-> FALSE, coins |-> 0, chute |-> 0,
              hand |-> 0, pos |-> 0, ball |-> 0, analog |-> InpHalf, out |-> {}, last |-> {},
              shown |-> {}, polled |-> FALSE, read |-> {}, inserted |-> 0]

-----------------------------------------------------------------------------
(* The switches of each cabinet.                                           *)
In(word, bits) == {<<word, b>> : b \in bits}

io4_switch == "TEST" :> In(0, {9}) @@ "SERVICE" :> In(0, {6})

mu3_switch ==
  io4_switch @@
  [L1 |-> In(0, {0}), L2 |-> In(0, {5}), L3 |-> In(0, {4}), R1 |-> In(0, {1}),
   R2 |-> In(1, {0}), R3 |-> In(0, {15}), LMENU |-> In(1, {14}), RMENU |-> In(0, {13}),
   LSIDE |-> In(1, {15}), RSIDE |-> In(0, {14})]

(* Broken: the second player's select is the first player's.               *)
InpOneSelect ==
  io4_switch @@
  [A1 |-> In(0, {2}), A2 |-> In(0, {3}), A3 |-> In(0, {0}), A4 |-> In(0, {15}),
   A5 |-> In(0, {14}), A6 |-> In(0, {13}), A7 |-> In(0, {12}), A8 |-> In(0, {11}),
   ASELECT |-> In(0, {1}),
   B1 |-> In(1, {2}), B2 |-> In(1, {3}), B3 |-> In(1, {0}), B4 |-> In(1, {15}),
   B5 |-> In(1, {14}), B6 |-> In(1, {13}), B7 |-> In(1, {12}), B8 |-> In(1, {11}),
   BSELECT |-> In(0, {1})]

mai2_switch ==
  io4_switch @@
  [A1 |-> In(0, {2}), A2 |-> In(0, {3}), A3 |-> In(0, {0}), A4 |-> In(0, {15}),
   A5 |-> In(0, {14}), A6 |-> In(0, {13}), A7 |-> In(0, {12}), A8 |-> In(0, {11}),
   ASELECT |-> In(0, {1}),
   B1 |-> In(1, {2}), B2 |-> In(1, {3}), B3 |-> In(1, {0}), B4 |-> In(1, {15}),
   B5 |-> In(1, {14}), B6 |-> In(1, {13}), B7 |-> In(1, {12}), B8 |-> In(1, {11}),
   BSELECT |-> In(1, {4})]

mercury_switch == io4_switch @@ [VOLUP |-> In(0, {1}), VOLDOWN |-> In(0, {0})]

fgo_switch ==
  io4_switch @@
  [SPEED |-> In(0, {4}), TARGET |-> In(0, {5}), ATTACK |-> In(0, {1}),
   NOBLE |-> In(0, {0}), CAMERA |-> In(0, {14})]

apm3_switch ==
  io4_switch @@
  [HOME |-> In(1, {12}), START |-> In(0, {7}), UP |-> In(0, {5}), RIGHT |-> In(0, {2}),
   DOWN |-> In(0, {4}), LEFT |-> In(0, {3}), B1 |-> In(0, {1}), B2 |-> In(0, {0}),
   B3 |-> In(0, {15}), B4 |-> In(0, {14}), B5 |-> In(0, {13}), B6 |-> In(0, {12}),
   B7 |-> In(0, {11}), B8 |-> In(0, {10})]

cm_switch == io4_switch

tokyo_switch ==
  io4_switch @@
  [BLUE |-> In(0, {1}), YELLOW |-> In(0, {0}), RED |-> In(0, {15}), FOOTL |-> In(0, {13}),
   FOOTR |-> In(1, {13}), J1 |-> In(0, {12}), J2 |-> In(1, {12}), J3 |-> In(0, {11}),
   J4 |-> In(1, {11}), J5 |-> In(0, {10}), J6 |-> In(1, {10})]

(* Keys of a number pad are a row and a column; those of a terminal are    *)
(* elsewhere.                                                              *)
Numpad(word, r, c) ==
  [N1 |-> In(word, {r[1], c[1]}), N2 |-> In(word, {r[1], c[2]}), N3 |-> In(word, {r[1], c[3]}),
   N4 |-> In(word, {r[2], c[1]}), N5 |-> In(word, {r[2], c[2]}), N6 |-> In(word, {r[2], c[3]}),
   N7 |-> In(word, {r[3], c[1]}), N8 |-> In(word, {r[3], c[2]}), N9 |-> In(word, {r[3], c[3]}),
   CLEAR |-> In(word, {r[4], c[1]}), N0 |-> In(word, {r[4], c[2]}),
   ENTER |-> In(word, {r[4], c[3]})]
NumpadKeys == DOMAIN Numpad(0, <<1, 2, 3, 4>>, <<5, 6, 7>>)

ekt_switch ==
  io4_switch @@ Numpad(0, <<1, 0, 15, 14>>, <<12, 11, 10>>) @@
  [SW1 |-> In(0, {2}), SW2 |-> In(0, {3}), HOUGU |-> In(1, {14}), RYUUHA |-> In(1, {12}),
   MENU |-> In(0, {13}), START |-> In(0, {7}), STRATAGEM |-> In(1, {15}),
   LOCK |-> In(1, {13}), VOLDOWN |-> In(1, {10}), VOLUP |-> In(1, {11})]

ekt_term_switch ==
  io4_switch @@ Numpad(0, <<1, 0, 15, 14>>, <<13, 12, 11>>) @@
  [SW1 |-> In(0, {2}), SW2 |-> In(0, {3}), CANCEL |-> In(1, {0}), DECIDE |-> In(1, {1}),
   LEFT |-> In(0, {3}), UP |-> In(0, {5}), RIGHT |-> In(0, {2}), DOWN |-> In(0, {4}),
   LEFT2 |-> In(1, {3}), RIGHT2 |-> In(1, {2})]

(* Of a JVS board: 0 is the system's word, 1 and 2 are the players'.       *)
jvs_switch == "TEST" :> In(0, {7}) @@ "SERVICE" :> In(1, {14})

sekito_common ==
  Numpad(1, <<9, 8, 7, 6>>, <<5, 4, 3>>) @@
  [TEST |-> In(0, {7}), SERVICE |-> In(1, {1}), SW1 |-> In(1, {10}), SW2 |-> In(1, {11}),
   COIN |-> In(1, {14})]

sekito_switch ==
  sekito_common @@
  [HOUGU |-> In(2, {6}), MENU |-> In(2, {4}), START |-> In(1, {15}),
   STRATAGEM |-> In(2, {7}), LOCK |-> In(2, {5})]

sekito_term_switch ==
  sekito_common @@
  [CANCEL |-> In(2, {8}), DECIDE |-> In(2, {9}), LEFT |-> In(1, {11}), UP |-> In(1, {13}),
   RIGHT |-> In(1, {10}), DOWN |-> In(1, {12}), LEFT2 |-> In(2, {11}),
   RIGHT2 |-> In(2, {10}), RESERVE |-> In(2, {3})]

kemono_switch ==
  jvs_switch @@
  [UP |-> In(1, {13}), DOWN |-> In(1, {12}), LEFT |-> In(1, {11}), RIGHT |-> In(1, {10}),
   R |-> In(1, {9}), G |-> In(1, {7}), B |-> In(1, {8}), START |-> In(1, {15})]

diva_switch ==
  jvs_switch @@
  [CIRCLE |-> In(1, {6}), CROSS |-> In(1, {7}), SQUARE |-> In(1, {8}),
   TRIANGLE |-> In(1, {9}), START |-> In(1, {15})]

carol_switch ==
  jvs_switch @@
  [G1 |-> In(1, {6}), G2 |-> In(1, {7}), G3 |-> In(1, {8}), G4 |-> In(1, {9}),
   G5 |-> In(1, {15})]

(* The beams, from the lowest; an old DLL numbers each pair the other way. *)
Beams(w1, w2, top) ==
  [I1 |-> In(w1, {top}), I2 |-> In(w2, {top}), I3 |-> In(w1, {top - 1}),
   I4 |-> In(w2, {top - 1}), I5 |-> In(w1, {top - 2}), I6 |-> In(w2, {top - 2})]
Beam == <<"I1", "I2", "I3", "I4", "I5", "I6">>

chusan_switch == io4_switch @@ Beams(0, 1, 13)
chusan_switch_v1 == io4_switch @@ Beams(1, 0, 13)
chunithm_switch == jvs_switch @@ Beams(1, 2, 5)
chunithm_switch_v1 == jvs_switch @@ Beams(2, 1, 5)

InpSwitch ==
  [mu3 |-> mu3_switch, mai2 |-> mai2_switch, chusan |-> chusan_switch,
   chusan_old |-> chusan_switch_v1, mercury |-> mercury_switch, fgo |-> fgo_switch,
   apm3 |-> apm3_switch, apm3_di |-> apm3_switch, cm |-> cm_switch,
   tokyo |-> tokyo_switch, tokyo_xi |-> tokyo_switch, ekt |-> ekt_switch,
   ekt_term |-> ekt_term_switch, chuni |-> chunithm_switch,
   chuni_old |-> chunithm_switch_v1, sekito |-> sekito_switch,
   sekito_term |-> sekito_term_switch, kemono |-> kemono_switch, diva |-> diva_switch,
   carol |-> carol_switch]

(* Switches that are open when the button is pressed.                      *)
InpLow(c) ==
  CASE c = "mu3" -> {"LSIDE", "RSIDE"}
    [] c = "mai2" -> {"A1", "A2", "A3", "A4", "A5", "A6", "A7", "A8",
                      "B1", "B2", "B3", "B4", "B5", "B6", "B7", "B8"}
    [] c \in {"chusan", "chusan_old", "chuni", "chuni_old"} -> {Beam[i] : i \in 1..6}
    [] c \in {"tokyo", "tokyo_xi"} -> {"FOOTL", "FOOTR"}
    [] OTHER -> {}

-----------------------------------------------------------------------------
(* Coins.  The DLL's flag lets a press through once; an IO4 board shows    *)
(* the counter in the upper byte of its first chute.                       *)
IoCoin(w, key) ==
  LET pressed == key /\ ~w.coin
  IN  [w EXCEPT !.coin = key, !.coins = IF pressed THEN @ + 1 ELSE @,
                !.inserted = IF pressed THEN @ + 1 ELSE @]

(* Broken: the key counts as long as it is down.                           *)
InpCountsOn(w, key) ==
  [w EXCEPT !.coin = key, !.coins = IF key THEN (@ + 1) % (2 * InpByte) ELSE @,
            !.inserted = IF key /\ ~w.coin THEN @ + 1 ELSE @]

mu3_io_poll(w, key) == IoCoin(w, key)
mai2_io_poll(w, key) == IoCoin(w, key)
fgo_io_poll(w, key) == IoCoin(w, key)
cm_io_poll(w, key) == IoCoin(w, key)
ekt_io_poll(w, key) == IoCoin(w, key)
tokyo_io_get_opbtns(w, key) == IoCoin(w, key)
chuni_io_jvs_read_coin_counter(w, key) == IoCoin(w, key)
diva_io_jvs_read_coin_counter(w, key) == IoCoin(w, key)
carol_io_jvs_read_coin_counter(w, key) == IoCoin(w, key)
cxb_io_revio_get_coins(w, key) == IoCoin(w, key)
kemono_io_poll(w, key) == IoCoin(w, key)

(* The hook has the flag, not the DLL.                                     *)
mercury_io_coin(w, key) == IoCoin(w, key)

(* Buttons of a DirectInput device take the place of the keyboard's: the   *)
(* press is forgotten, and Test and Service of the keyboard with it.       *)
apm3_io_get_opbtns(w, key) ==
  IF w.cabinet = "apm3" THEN IoCoin(w, key)
  ELSE [w EXCEPT !.coin = key, !.inserted = IF key /\ ~w.coin THEN @ + 1 ELSE @]

InpChute(w) == [w EXCEPT !.chute = w.coins % InpByte]

-----------------------------------------------------------------------------
(* What a poll shows of the buttons it has read.                           *)
InpShow(w, read) ==
  LET low == InpLow(w.cabinet)
      switch == InpSwitch[w.cabinet]
  IN  [w EXCEPT !.polled = TRUE, !.read = read,
                !.shown = UNION {switch[b] : b \in (read \ low) \cup (low \ read)}]

(* Nothing, everything, one button, or all but one.                        *)
InpHeld ==
  LET all == DOMAIN InpSwitch[inp.cabinet]
  IN  {{}, all} \cup {{b} : b \in all} \cup {all \ {b} : b \in all}

(* What the back ends read: a button is a key of the keyboard or a button  *)
(* of the pad, and any of them may be down.                                *)
apm3_kb_get_gamebtns == InpHeld
apm3_xi_get_gamebtns == InpHeld
apm3_di_get_gamebtns == InpHeld
fgo_kb_get_gamebtns == InpHeld
fgo_xi_get_gamebtns == InpHeld
tokyo_kb_get_gamebtns == InpHeld
tokyo_xi_get_gamebtns == InpHeld
ekt_kb_get_gamebtns == InpHeld
sekito_kb_get_gamebtns == InpHeld

InpKeys == IF inp.coin \/ inp.inserted < InpCoins THEN BOOLEAN ELSE {FALSE}
InpIs(cabinets) == inp.cabinet \in cabinets

(* The lever stays where it was moved to; triggers move it while they are  *)
(* held.                                                                   *)
InpClamp(x) == IF x < -InpHalf THEN -InpHalf ELSE IF x > InpHalf - 1 THEN InpHalf - 1 ELSE x

(* Broken: triggers may move the lever out of its range.                   *)
InpLeverOut(w, sticks, triggers) ==
  [w EXCEPT !.pos = InpClamp(@ + sticks),
            !.analog = InpHalf - 1 - (InpClamp(w.pos + sticks) + triggers)]

mu3_io_get_lever(w, sticks, triggers) ==
  LET pos == InpClamp(w.pos + sticks)
  IN  [w EXCEPT !.pos = pos, !.analog = InpHalf - 1 - InpClamp(pos + triggers)]

InpMoves == {-InpSpeed, 0, InpSpeed}

mu3_io4_poll ==
  /\ InpIs({"mu3"})
  /\ \E read \in InpHeld, key \in InpKeys, sticks \in InpMoves, triggers \in InpMoves :
       inp' = mu3_io_get_lever(InpShow(InpChute(mu3_io_poll(inp, key)), read),
                               sticks, triggers)

mai2_io4_poll ==
  /\ InpIs({"mai2"})
  /\ \E read \in InpHeld, key \in InpKeys :
       inp' = InpShow(InpChute(mai2_io_poll(inp, key)), read)

mercury_io4_poll ==
  /\ InpIs({"mercury"})
  /\ \E read \in InpHeld, key \in InpKeys :
       inp' = InpShow(InpChute(mercury_io_coin(inp, key)), read)

(* A stick has no value of its own for the lowest; one that is not moved   *)
(* may be anything, as it is divided by its length, 0.                     *)
fgo_kb_get_analogs == {1 - InpHalf, 0, InpHalf - 1}
fgo_xi_get_analogs == {1 - InpHalf, 0, InpHalf - 1}

fgo_io4_poll ==
  /\ InpIs({"fgo"})
  /\ \E read \in fgo_kb_get_gamebtns \cup fgo_xi_get_gamebtns, key \in InpKeys,
        x \in fgo_kb_get_analogs \cup fgo_xi_get_analogs :
       inp' = [InpShow(InpChute(fgo_io_poll(inp, key)), read) EXCEPT !.analog = InpHalf - x]

apm3_io4_poll ==
  /\ InpIs({"apm3", "apm3_di"})
  /\ \E read \in IF InpIs({"apm3_di"}) THEN apm3_di_get_gamebtns
                 ELSE apm3_kb_get_gamebtns \cup apm3_xi_get_gamebtns, key \in InpKeys :
       inp' = InpShow(InpChute(apm3_io_get_opbtns(inp, key)), read)

cm_io4_poll ==
  /\ InpIs({"cm"})
  /\ \E read \in InpHeld, key \in InpKeys :
       inp' = InpShow(InpChute(cm_io_poll(inp, key)), read)

Jumps == <<"J1", "J2", "J3", "J4", "J5", "J6">>

(* Broken: a jump needs no feet.                                           *)
InpFootless(read) == read

(* A jump is one with both feet.                                           *)
tokyo_kb_get_sensors(read) ==
  IF \E i \in 1..6 : Jumps[i] \in read THEN read \cup {"FOOTL", "FOOTR"} ELSE read

(* Two triggers, in twelfths of their way: more than a sixth is a foot,    *)
(* and both are a jump as high as their mean.                              *)
tokyo_xi_get_sensors(read, left, right) ==
  LET feet == (IF left > 2 THEN {"FOOTL"} ELSE {}) \cup (IF right > 2 THEN {"FOOTR"} ELSE {})
      high == IF Cardinality(feet) = 2 THEN {i \in 1..6 : left + right >= 4 * i} ELSE {}
  IN  (read \cap {"BLUE", "YELLOW", "RED", "TEST", "SERVICE"})
        \cup feet \cup {Jumps[i] : i \in high}

tokyo_io4_poll ==
  /\ InpIs({"tokyo", "tokyo_xi"})
  /\ \E held \in IF InpIs({"tokyo"}) THEN tokyo_kb_get_gamebtns ELSE tokyo_xi_get_gamebtns,
        key \in InpKeys :
       LET w == InpChute(tokyo_io_get_opbtns(inp, key))
       IN  IF InpIs({"tokyo"}) THEN inp' = InpShow(w, tokyo_kb_get_sensors(held))
           ELSE \E left, right \in {0, 2, 3, 7, 12} :
                  inp' = InpShow(w, tokyo_xi_get_sensors(held, left, right))

(* The trackball goes round.                                               *)
ekt_kb_get_trackball(w, move) ==
  LET ball == (w.ball + move) % (2 * InpHalf) IN [w EXCEPT !.ball = ball, !.analog = ball]
sekito_kb_get_trackball(w, move) == ekt_kb_get_trackball(w, move)

ekt_io4_poll ==
  /\ InpIs({"ekt", "ekt_term"})
  /\ \E read \in ekt_kb_get_gamebtns, key \in InpKeys, move \in InpMoves :
       inp' = ekt_kb_get_trackball(InpShow(InpChute(ekt_io_poll(inp, key)), read), move)

(* One key for all beams moves a hand up and down, or each has its own.    *)
chuni_io_jvs_poll(w, held) ==
  IF ~w.emu THEN InpShow(w, held)
  ELSE LET hand == IF "I1" \in held THEN Min({6, w.hand + 1}) ELSE Max({0, w.hand - 1})
       IN  InpShow([w EXCEPT !.hand = hand],
                   (held \cap {"TEST", "SERVICE"}) \cup {Beam[i] : i \in 1..hand})

chusan_io4_poll ==
  /\ InpIs({"chusan", "chusan_old"})
  /\ \E held \in InpHeld, key \in InpKeys :
       inp' = InpChute(chuni_io_jvs_read_coin_counter(chuni_io_jvs_poll(inp, held), key))

chunithm_jvs_read_switches ==
  /\ InpIs({"chuni", "chuni_old"})
  /\ \E held \in InpHeld : inp' = chuni_io_jvs_poll(inp, held)

chunithm_jvs_read_coin_counter ==
  /\ InpIs({"chuni", "chuni_old"})
  /\ \E key \in InpKeys : inp' = InpChute(chuni_io_jvs_read_coin_counter(inp, key))

(* Coins are a button; the counter stays 0.  A satellite's sensors are     *)
(* always on.                                                              *)
sekito_jvs_read_switches ==
  /\ InpIs({"sekito", "sekito_term"})
  /\ \E read \in sekito_kb_get_gamebtns :
       inp' = LET w == InpShow(inp, read)
              IN  IF InpIs({"sekito"}) THEN [w EXCEPT !.shown = @ \cup In(2, {2, 3})] ELSE w

sekito_jvs_read_rotary ==
  /\ InpIs({"sekito", "sekito_term"})
  /\ \E move \in InpMoves : inp' = sekito_kb_get_trackball(inp, move)

kemono_jvs_read_switches ==
  /\ InpIs({"kemono"})
  /\ \E read \in InpHeld, key \in InpKeys : inp' = InpShow(kemono_io_poll(inp, key), read)

kemono_jvs_read_coin_counter == InpIs({"kemono"}) /\ inp' = InpChute(inp)

(* What is read of the buttons is what divaio (DivaIo) made of the keys.   *)
diva_jvs_read_switches ==
  /\ InpIs({"diva"})
  /\ \E read \in InpHeld : inp' = InpShow(inp, read)

diva_jvs_read_coin_counter ==
  /\ InpIs({"diva"})
  /\ \E key \in InpKeys : inp' = InpChute(diva_io_jvs_read_coin_counter(inp, key))

(* carol_io_jvs_poll does not initialise the word it adds buttons to.      *)
carol_jvs_read_switches ==
  /\ InpIs({"carol"})
  /\ \E held \in InpHeld :
       \E junk \in {{}, DOMAIN carol_switch \ {"TEST", "SERVICE"}} :
         inp' = InpShow(inp, held \cup junk)

carol_jvs_read_coin_counter ==
  /\ InpIs({"carol"})
  /\ \E key \in InpKeys : inp' = InpChute(carol_io_jvs_read_coin_counter(inp, key))

-----------------------------------------------------------------------------
(* The Rev. I/O library of CrossBeats, which is asked for changes.  The    *)
(* DLL and the hook do not agree: cancel is taken for up, up for down,     *)
(* down is not known, and any of the others also cancels.                  *)
cxb_io_revio_poll ==
  LET all == {"TEST", "SERVICE", "CANCEL", "UP", "DOWN"} IN {{}, all} \cup {{b} : b \in all}

CxbRaw(b) == CASE b = "TEST" -> 0 [] b = "SERVICE" -> 1 [] b = "CANCEL" -> 2
               [] b = "UP" -> 3 [] b = "DOWN" -> 4
CxbOut(b) == CASE b = "TEST" -> {4, 2} [] b = "SERVICE" -> {5, 2} [] b = "CANCEL" -> {1, 2}
               [] b = "UP" -> {3, 2} [] b = "DOWN" -> {}
CxbOuts(buttons) == UNION {CxbOut(b) : b \in buttons}

(* In the background the buttons are those that were read last.            *)
my_cCommIo_GetTrigger ==
  /\ InpIs({"cxb"})
  /\ \E buttons \in cxb_io_revio_poll, foreground \in BOOLEAN :
       LET out == IF foreground THEN CxbOuts(buttons) ELSE inp.out
       IN  inp' = [inp EXCEPT !.out = out, !.last = out \ @, !.shown = In(0, out \ inp.last)]

(* The buttons are kept, not what was made of them.                        *)
my_cCommIo_GetRelease ==
  /\ InpIs({"cxb"})
  /\ \E buttons \in cxb_io_revio_poll :
       LET raw == {CxbRaw(b) : b \in buttons}
       IN  inp' = [inp EXCEPT !.last = raw,
                              !.shown = In(0, (inp.last \cup CxbOuts(buttons)) \ raw)]

my_cCommIo_GetCoin ==
  /\ InpIs({"cxb"})
  /\ \E key \in InpKeys : inp' = InpChute(cxb_io_revio_get_coins(inp, key))

(* Coins that were taken; the history starts over.                         *)
my_cCommIo_SetCoin ==
  /\ InpIs({"cxb"})
  /\ inp' = [inp EXCEPT !.coins = 0, !.chute = 0, !.inserted = 0]

InpNext ==
  \/ mu3_io4_poll \/ mai2_io4_poll \/ mercury_io4_poll \/ fgo_io4_poll \/ apm3_io4_poll
  \/ cm_io4_poll \/ tokyo_io4_poll \/ ekt_io4_poll \/ chusan_io4_poll
  \/ chunithm_jvs_read_switches \/ chunithm_jvs_read_coin_counter
  \/ sekito_jvs_read_switches \/ sekito_jvs_read_rotary
  \/ kemono_jvs_read_switches \/ kemono_jvs_read_coin_counter
  \/ diva_jvs_read_switches \/ diva_jvs_read_coin_counter
  \/ carol_jvs_read_switches \/ carol_jvs_read_coin_counter
  \/ my_cCommIo_GetTrigger \/ my_cCommIo_GetRelease \/ my_cCommIo_GetCoin
  \/ my_cCommIo_SetCoin

InpSpec == InpInit /\ [][InpNext]_inp

-----------------------------------------------------------------------------
(* Properties.                                                             *)

(* Buttons the games put on one switch: those of the test menu, of a       *)
(* terminal (ekthook/io4.c:194, sekitohook/jvs.c:195).                     *)
InpShared == {{"SW1", "RIGHT"}, {"SW2", "LEFT"}}

(* A game can tell from its switches which buttons were read: no two share *)
(* a switch, in none of the tables, but for the test menu's, and keys of   *)
(* the number pad when more than one of them is down.                      *)
InpTells ==
  inp.polled =>
    LET switch == InpSwitch[inp.cabinet]
        seen(b) == IF b \in InpLow(inp.cabinet) THEN switch[b] \cap inp.shown = {}
                   ELSE switch[b] \subseteq inp.shown
    IN  \A b \in DOMAIN switch :
          /\ b \in inp.read => seen(b)
          /\ seen(b) =>
               \/ b \in inp.read
               \/ \E s \in InpShared : b \in s /\ s \cap inp.read # {}
               \/ b \in NumpadKeys /\ Cardinality(NumpadKeys \cap inp.read) > 1

(* Each press of the coin key counts once, in what a chute can show, but   *)
(* for presses that a DirectInput device takes away (apm3io/dllmain.c:87). *)
InpCounts ==
  inp.cabinet # "apm3_di" => inp.coins = inp.inserted /\ inp.chute \in 0..InpByte - 1

(* Levers, sticks and balls stay in the word that shows them.              *)
InpFits == inp.analog \in 0..2 * InpHalf - 1

(* Nobody jumps without both feet, which the game is shown to have left.   *)
InpJumps ==
  inp.polled /\ InpIs({"tokyo", "tokyo_xi"}) =>
    \A i \in 1..6 : tokyo_switch[Jumps[i]] \subseteq inp.shown =>
      (tokyo_switch.FOOTL \cup tokyo_switch.FOOTR) \cap inp.shown = {}

InpTypeOK ==
  /\ inp.cabinet \in InpCabinet
  /\ inp.hand \in 0..6 /\ inp.pos \in -InpHalf..InpHalf - 1
  /\ inp.coins \in Nat /\ inp.inserted \in 0..InpCoins

(* Buttons, coins and analog inputs arrive as what they are.               *)
InputsAreRight == InpTypeOK /\ InpTells /\ InpCounts /\ InpFits /\ InpJumps

=============================================================================
