-------------------------------- MODULE MCBoards --------------------------------
(***************************************************************************)
(* The serial boards and the codecs for TLC.  They share no state, so one  *)
(* of them is chosen at the start, and only that one is run.               *)
(***************************************************************************)
EXTENDS Led15093, Led15070, Elo, MercuryTouch, JvsBus, Vfd, Frames, MCMai2Touch

(* The board that is run.                                                  *)
VARIABLE device

(* 837-15093: each request alone, and one behind a damaged frame.          *)
Frame93(c, d, x) == [cmd |-> c, dest |-> d, data |-> x]
Plain93 == {"RESET", "SET_TIMEOUT", "UPDATE_LED", "SET_FADE_LEVEL", "SET_FADE_SHIFT",
            "GET_BOARD_INFO", "GET_FW_SUM", "GET_PROTOCOL_VER", "SET_BOOTMODE",
            "FW_UPDATE", "unhandled", "CRC", "E_FAIL", "CLEAR_ID"}
LedWrites93 ==
  {<<Frame93(c, 0, <<>>)>> : c \in Plain93}
  \cup {<<Frame93("SET_DISABLE_RESPONSE", 1, d)>> : d \in {<<>>, <<0>>, <<1>>}}
  \cup {<<Frame93("SET_ID", a, <<i>>)>> : a \in {0, 1}, i \in {0, 2}}
  \cup {<<Frame93(c, 1, d)>> : c \in {"SET_LED", "SET_IMM_LED", "SET_FADE_LED",
                                     "SET_MAX_BRIGHT"}, d \in {<<>>, <<1>>, <<0, 1>>}}
  \cup {<<Frame93("SET_AUTO_SHIFT", 1, <<i>>)>> : i \in 0..1}
  \cup {<<Frame93("GET_BOARD_STATUS", 1, <<i>>)>> : i \in 0..1}
  \cup {<<Frame93("CRC", 0, <<>>), Frame93("SET_LED", 1, <<1>>)>>}

(* 837-15070: runs of LEDs that stay on the board, and that leave it.      *)
LedFrames70 ==
  {[cmd |-> c] :
     c \in {"SET_INPUT", "SET_NORMAL_12BIT", "SET_PALETTE_7_NORMAL_LED",
            "SET_PALETTE_6_FLASH_LED", "SET_15DC_OUT", "SET_15GS_OUT", "SET_PSC_MAX",
            "SET_FET_OUTPUT", "SET_GS_PALETTE", "DC_UPDATE", "ROTATE", "SET_DC_DATA",
            "BOARD_INFO", "BOARD_STATUS", "FW_SUM", "PROTOCOL_VER", "FW_UPDATE", "RESET",
            "ACK_ON", "ACK_OFF", "TO_BOOT_MODE", "ignored", "GS_UPDATE"}}
  \cup {[cmd |-> "SET_NORMAL_8BIT", start |-> 0, colour |-> 1]}
  \cup {[cmd |-> "SET_MULTI_FLASH_8BIT", start |-> 0, count |-> 3, skip |-> 1, colour |-> 0,
          speed |-> 1]}
  \cup {[cmd |-> "SET_MULTI_FADE_8BIT", start |-> 0, count |-> 2, skip |-> 0, colour |-> 1,
          speed |-> 1]}
  \cup {[cmd |-> "EEPROM_READ", addr |-> 1]}
  \cup {[cmd |-> "EEPROM_WRITE", addr |-> 1, data |-> 1]}

(* The JVS bus: packets of one command, and packets that go wrong at their *)
(* second or third.                                                        *)
JvsCmd(c) == [cmd |-> c, valid |-> TRUE]
JvsGpio(v, ok) == [cmd |-> "WRITE_GPIO", value |-> v, valid |-> ok]
JvsSegments ==
  {<<JvsCmd(c)>> : c \in {"READ_ID", "GET_CMD_VERSION", "GET_JVS_VERSION",
                         "GET_COMM_VERSION", "GET_FEATURES", "READ_COIN"}}
  \cup {<<[cmd |-> c, valid |-> ok]>> :
          c \in {"READ_ANALOGS", "READ_ROTARYS", "READ_SWITCHES"}, ok \in BOOLEAN}
  \cup {<<JvsGpio(1, TRUE)>>, <<JvsGpio(0, TRUE)>>, <<JvsGpio(1, FALSE)>>,
        <<JvsGpio(1, TRUE), JvsCmd("unknown")>>, <<JvsGpio(0, TRUE), JvsGpio(1, FALSE)>>,
        <<JvsGpio(1, TRUE), JvsCmd("READ_ID"), JvsCmd("READ_ID")>>,
        <<JvsCmd("READ_ID"), JvsCmd("READ_ID"), JvsGpio(1, TRUE)>>}
JvsAssign == [cmd |-> "ASSIGN_ADDR", addr |-> 1]
JvsPackets ==
  {[to |-> 1, intact |-> TRUE, cmds |-> s] : s \in JvsSegments}
  \cup {[to |-> t, intact |-> FALSE, cmds |-> <<JvsGpio(1, TRUE)>>] : t \in {1, 2}}
  \cup {[to |-> 2, intact |-> TRUE, cmds |-> <<JvsGpio(0, TRUE)>>]}
  \cup {[to |-> 0, intact |-> TRUE, cmds |-> s] :
          s \in {<<JvsCmd("RESET")>>, <<JvsAssign>>, <<JvsCmd("RESET"), JvsAssign>>,
                 <<JvsAssign, JvsCmd("unknown")>>}}

(* The VFD: each command alone, and two in a write, one of them refused.   *)
VfdCmd(c, v) == [cmd |-> c, value |-> v]
VfdCmds ==
  {<<VfdCmd(c, 0)>> :
     c \in {"SET_SCREEN_ON", "SET_H_SCROLL", "SET_TEXT_WND", "SET_TEXT_SPEED", "ROTATE",
            "DISABLE_SCROLL", "RESET", "CLEAR_SCREEN", "WRITE_TEXT", "STATIC",
            "GET_VERSION", "DRAW_IMAGE", "CREATE_CHAR", "CREATE_CHAR2",
            "CLEAR_BRIGHTNESS"}}
  \cup {<<VfdCmd(c, 1)>> : c \in {"SET_BRIGHTNESS", "SET_ENCODING", "SET_CURSOR",
                                  "ENABLE_SCROLL"}}
  \cup {<<VfdCmd("CLEAR_SCREEN", 0), VfdCmd("SET_BRIGHTNESS", 9)>>,
        <<VfdCmd("SET_SCREEN_ON", 9)>>, <<VfdCmd("SET_ENCODING", 9)>>,
        <<VfdCmd("SET_BRIGHTNESS", 1), VfdCmd("CLEAR_BRIGHTNESS", 0)>>}

(* The codecs, on 8 values of a byte: messages that hold the sync and the  *)
(* escape byte, and byte strings for the reader's decoder.                 *)
CodecSlider == [sync |-> 7, esc |-> 5, size |-> 3, overhead |-> 4, negated |-> TRUE]
CodecLed == [sync |-> 6, esc |-> 4, size |-> 4, overhead |-> 5, negated |-> FALSE]
Codecs == [slider |-> CodecSlider, led |-> CodecLed]
CodecMessages == [slider |-> {<<7, 2, 0>>, <<7, 5, 1, 7>>},
                  led |-> {<<6, 1, 4, 0>>, <<6, 4, 2, 1, 6>>}]
SgStrings ==
  UNION {[1..n -> {0, 2, 3, 4, 5, 6}] : n \in 0..4}
  \cup {<<6>> \o s : s \in [1..4 -> {0, 1, 2, 3, 4, 5}]}

-----------------------------------------------------------------------------
BoardsVars == <<led93, led70, eeprom, elo, mercury, jvs, vfd, frames, vars, device>>

(* What is left to choose is chosen for the one that is run only.          *)
BoardsInit ==
  /\ device \in {"led93", "led70", "elo", "mercury", "jvs", "vfd", "frames",
                "mai2"}
  /\ Led93Init
  /\ Led70Init
  /\ EloInit
  /\ MercuryInit
  /\ JvsInit
  /\ VfdInit
  /\ FrameInit
  /\ Init
  /\ device # "led70" => ~led70.dll
  /\ device # "mai2" => nbytes = [o \in Ovl |-> 1]

Led93Only ==
  /\ device = "led93" /\ Led93Next
  /\ UNCHANGED <<led70, eeprom, elo, mercury, jvs, vfd, frames, vars, device>>

Led70Only ==
  /\ device = "led70" /\ Led70Next
  /\ UNCHANGED <<led93, elo, mercury, jvs, vfd, frames, vars, device>>

EloOnly ==
  /\ device = "elo" /\ EloNext
  /\ UNCHANGED <<led93, led70, eeprom, mercury, jvs, vfd, frames, vars, device>>

MercuryOnly ==
  /\ device = "mercury" /\ MercuryNext
  /\ UNCHANGED <<led93, led70, eeprom, elo, jvs, vfd, frames, vars, device>>

JvsOnly ==
  /\ device = "jvs" /\ JvsNext
  /\ UNCHANGED <<led93, led70, eeprom, elo, mercury, vfd, frames, vars, device>>

VfdOnly ==
  /\ device = "vfd" /\ VfdNext
  /\ UNCHANGED <<led93, led70, eeprom, elo, mercury, jvs, frames, vars, device>>

FrameOnly ==
  /\ device = "frames" /\ FrameNext
  /\ UNCHANGED <<led93, led70, eeprom, elo, mercury, jvs, vfd, vars, device>>

Mai2Only ==
  /\ device = "mai2" /\ Next
  /\ UNCHANGED <<led93, led70, eeprom, elo, mercury, jvs, vfd, frames, device>>

BoardsNext ==
  \/ Led93Only \/ Led70Only \/ EloOnly \/ MercuryOnly
  \/ JvsOnly \/ VfdOnly \/ FrameOnly \/ Mai2Only

BoardsSpec == BoardsInit /\ [][BoardsNext]_BoardsVars

=============================================================================
