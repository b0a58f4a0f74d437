-------------------------------- MODULE Led15070 --------------------------------
(***************************************************************************)
(* The LED board 837-15070, common/board/led15070.c.  It keeps the colours *)
(* that are set until GS_UPDATE hands them to the I/O DLL, and a small     *)
(* EEPROM in a file.  The file outlives the process, which may end at any  *)
(* moment, while it is being created too.                                  *)
(*                                                                         *)
(* As for the 837-15093 the critical section is copied before it is        *)
(* entered, so the game must not use a board from two threads.             *)
(* A LED has a colour and a speed, <<colour, speed>>.  FET outputs, DC     *)
(* data and palette are stored and handed on, and decide nothing here.     *)
(* The indexes that are sent are those of LEDs the board has.  Frames are  *)
(* written one at a time; how several share a write is in Led15093.        *)
(***************************************************************************)
EXTENDS Integers, Sequences

CONSTANTS
  Led70Frames,      (* the frames the game may write                       *)
  Led70Capacity,    (* readable_bytes (520)                                *)
  Led70ReplySize,   (* bytes of an encoded reply                           *)
  Led70Leds,        (* led15070_nleds (32)                                 *)
  Led70EepromSize   (* bytes of the EEPROM (8)                             *)

Led70Index == 0..Led70Leds - 1
Led70Address == 0..Led70EepromSize - 1

ASSUME Led70Assumption ==
  /\ Led70Capacity \in Nat \ {0} /\ Led70ReplySize \in Nat \ {0}
  /\ Led70Leds \in Nat \ {0} /\ Led70EepromSize \in Nat \ {0}
  /\ \A req \in Led70Frames :
       /\ req.cmd = "SET_NORMAL_8BIT" => req.start \in Led70Index /\ req.colour \in Nat
       /\ req.cmd \in {"SET_MULTI_FLASH_8BIT", "SET_MULTI_FADE_8BIT"} =>
            {req.start, req.count, req.skip, req.colour, req.speed} \subseteq Nat
       /\ req.cmd \in {"EEPROM_READ", "EEPROM_WRITE"} => req.addr \in Led70Address
       /\ req.cmd = "EEPROM_WRITE" => req.data \in Nat

VARIABLES
  led70,    (* the board, and what a request has come to                   *)
  eeprom    (* the file: whether it exists, and the bytes in it            *)

Led70Off == [i \in Led70Index |-> <<0, 0>>]

(* led15070_hook_init, which creates the file by opening it once.          *)
(* Histories: calls, those of the DLL for the frame handled last; touched  *)
(* and asked, the LEDs set since the last GS_UPDATE and what was asked of  *)
(* each at last; stored, what each byte of the EEPROM may be, given the    *)
(* writes that were acknowledged; torn, that the process ended while it    *)
(* was creating the file, or could not.                                    *)
Led70Board(dll, stored, torn) ==
  [fd |-> FALSE, started |-> FALSE, start_hr |-> "S_OK", busy |-> TRUE, dll |-> dll,
   req |-> [cmd |-> "INIT"], at |-> "open", leaked |-> FALSE, nbytes |-> 0,
   gs |-> Led70Off, gs_fade |-> Led70Off, gs_fade_pending |-> {},
   enable_bootloader |-> FALSE, enable_response |-> FALSE, calls |-> <<>>,
   touched |-> {}, asked |-> Led70Off, answer |-> "none",
   stored |-> stored, torn |-> torn]

Led70Init ==
  /\ eeprom = [exists |-> FALSE, bytes |-> <<>>]
  /\ \E dll \in BOOLEAN : led70 = Led70Board(dll, [a \in Led70Address |-> {0}], FALSE)

-----------------------------------------------------------------------------
Led70NoReq == [cmd |-> "none"]
Led70Idle(b) == [b EXCEPT !.busy = FALSE, !.req = Led70NoReq]

(* Broken: the end of the buffer is not looked at.                         *)
Led70EncodePast(b) ==
  {[b EXCEPT !.nbytes = @ + Led70ReplySize, !.busy = FALSE, !.req = Led70NoReq]}

(* led15070_frame_encode; what does not fit is cut.                        *)
Led70Encode(b) ==
  LET end == b.nbytes + Led70ReplySize
      ends == IF end <= Led70Capacity THEN {end}
              ELSE {n \in {Led70Capacity - 1, Led70Capacity} : n >= b.nbytes}
  IN  {[b EXCEPT !.nbytes = n, !.busy = FALSE, !.req = Led70NoReq] : n \in ends}

Led70Acknowledge(b) ==
  IF b.enable_response THEN Led70Encode(b) ELSE {Led70Idle(b)}

-----------------------------------------------------------------------------
(* led15070_handle_irp_locked.                                             *)

led15070_open ==
  /\ ~led70.busy /\ ~led70.fd
  /\ \E hr \in IF led70.started THEN {led70.start_hr} ELSE {"S_OK", "E_FAIL"} :
       led70' = [led70 EXCEPT !.started = TRUE, !.start_hr = hr, !.fd = (hr = "S_OK")]
  /\ UNCHANGED eeprom

led15070_close ==
  /\ ~led70.busy /\ led70.fd
  /\ led70' = [led70 EXCEPT !.fd = FALSE]
  /\ UNCHANGED eeprom

led15070_read ==
  /\ ~led70.busy /\ led70.fd
  /\ led70' = [led70 EXCEPT !.nbytes = 0]
  /\ UNCHANGED eeprom

(* A frame of a write is decoded; an EEPROM command opens the file first.  *)
led15070_write(req) ==
  /\ ~led70.busy /\ led70.fd
  /\ led70' = [led70 EXCEPT !.busy = TRUE, !.req = req, !.at = "dispatch",
                            !.calls = <<>>, !.answer = "none"]
  /\ UNCHANGED eeprom

Led70Take(cmd, replies) ==
  /\ led70.busy /\ led70.at = "dispatch"
  /\ led70.req.cmd = cmd
  /\ led70' \in replies
  /\ UNCHANGED eeprom

-----------------------------------------------------------------------------
(* LEDs.                                                                   *)

(* led15070_calc_range: count LEDs from start, the first skip of them left *)
(* out, and none behind the last of the board.                             *)
led15070_calc_range(start, count, skip) ==
  LET c == IF count >= Led70Leds THEN Led70Leds ELSE count
      k == IF skip <= c THEN skip ELSE 0
  IN  {i \in Led70Index : start + k <= i /\ i < start + c}

Led70Asked(b, leds, value) ==
  [b EXCEPT !.touched = @ \cup leds,
            !.asked = [i \in Led70Index |-> IF i \in leds THEN value ELSE @[i]]]

(* Broken: a fade that was pending is not forgotten.                       *)
Led70SetNowKeepsFade(b, leds, value) ==
  [Led70Asked(b, leds, value) EXCEPT
     !.gs = [i \in Led70Index |-> IF i \in leds THEN value ELSE @[i]]]

(* A colour set at once; a fade that was pending is forgotten.             *)
Led70SetNow(b, leds, value) ==
  [Led70Asked(b, leds, value) EXCEPT
     !.gs = [i \in Led70Index |-> IF i \in leds THEN value ELSE @[i]],
     !.gs_fade_pending = @ \ leds]

Led70SetFade(b, leds, value) ==
  [Led70Asked(b, leds, value) EXCEPT
     !.gs_fade = [i \in Led70Index |-> IF i \in leds THEN value ELSE @[i]],
     !.gs_fade_pending = @ \cup leds]

led15070_req_set_normal_8bit ==
  Led70Take("SET_NORMAL_8BIT",
    Led70Acknowledge(Led70SetNow(led70, {led70.req.start}, <<led70.req.colour, 0>>)))

led15070_req_set_multi_flash_8bit ==
  Led70Take("SET_MULTI_FLASH_8BIT",
    LET req == led70.req
    IN  Led70Acknowledge(
          Led70SetNow(led70, led15070_calc_range(req.start, req.count, req.skip),
                      <<req.colour, req.speed>>)))

led15070_req_set_multi_fade_8bit ==
  Led70Take("SET_MULTI_FADE_8BIT",
    LET req == led70.req
    IN  Led70Acknowledge(
          Led70SetFade(led70, led15070_calc_range(req.start, req.count, req.skip),
                       <<req.colour, req.speed>>)))

(* The DLL is called with the colours at rest, and again with the fades    *)
(* that start from them.                                                   *)
Led70Calls(b) ==
  IF b.gs_fade_pending = {} THEN <<b.gs>>
  ELSE << [i \in Led70Index |-> <<b.gs[i][1], 0>>],
          [i \in Led70Index |-> IF i \in b.gs_fade_pending THEN b.gs_fade[i] ELSE b.gs[i]] >>

led15070_req_gs_update ==
  Led70Take("GS_UPDATE",
    Led70Acknowledge([led70 EXCEPT !.calls = IF led70.dll THEN Led70Calls(led70) ELSE @,
                               !.gs_fade_pending = {}, !.touched = {}, !.asked = Led70Off]))

-----------------------------------------------------------------------------
(* The commands that change no colour.  Those that concern the LEDs are    *)
(* acknowledged if that is asked for, the others always.                   *)

led15070_req_set_input == Led70Take("SET_INPUT", Led70Acknowledge(led70))
led15070_req_set_normal_12bit == Led70Take("SET_NORMAL_12BIT", Led70Acknowledge(led70))
led15070_req_set_palette_7_normal_led ==
  Led70Take("SET_PALETTE_7_NORMAL_LED", Led70Acknowledge(led70))
led15070_req_set_palette_6_flash_led ==
  Led70Take("SET_PALETTE_6_FLASH_LED", Led70Acknowledge(led70))
led15070_req_set_15dc_out == Led70Take("SET_15DC_OUT", Led70Acknowledge(led70))
led15070_req_set_15gs_out == Led70Take("SET_15GS_OUT", Led70Acknowledge(led70))
led15070_req_set_psc_max == Led70Take("SET_PSC_MAX", Led70Acknowledge(led70))
led15070_req_set_fet_output == Led70Take("SET_FET_OUTPUT", Led70Acknowledge(led70))
led15070_req_set_gs_palette == Led70Take("SET_GS_PALETTE", Led70Acknowledge(led70))
led15070_req_dc_update == Led70Take("DC_UPDATE", Led70Acknowledge(led70))
led15070_req_rotate == Led70Take("ROTATE", Led70Acknowledge(led70))
led15070_req_set_dc_data == Led70Take("SET_DC_DATA", Led70Acknowledge(led70))

led15070_req_board_info == Led70Take("BOARD_INFO", Led70Encode(led70))
led15070_req_board_status == Led70Take("BOARD_STATUS", Led70Encode(led70))
led15070_req_fw_sum == Led70Take("FW_SUM", Led70Encode(led70))
led15070_req_protocol_ver == Led70Take("PROTOCOL_VER", Led70Encode(led70))
led15070_req_fw_update == Led70Take("FW_UPDATE", Led70Encode(led70))

led15070_req_reset ==
  Led70Take("RESET",
    Led70Encode([led70 EXCEPT !.enable_bootloader = FALSE, !.enable_response = TRUE]))

led15070_req_ack_on ==
  Led70Take("ACK_ON", Led70Encode([led70 EXCEPT !.enable_response = TRUE]))

led15070_req_ack_off ==
  Led70Take("ACK_OFF", Led70Encode([led70 EXCEPT !.enable_response = FALSE]))

led15070_req_to_boot_mode ==
  Led70Take("TO_BOOT_MODE", Led70Encode([led70 EXCEPT !.enable_bootloader = TRUE]))

(* An unknown command, or a frame that fails to decode.                    *)
Led70Ignored == Led70Take("ignored", {Led70Idle(led70)})

-----------------------------------------------------------------------------
(* The EEPROM, step by step.                                               *)

Led70EepromFails(b) == [Led70Idle(b) EXCEPT !.answer = "none"]

Led70EepromBegins ==
  /\ led70.busy /\ led70.at = "dispatch"
  /\ led70.req.cmd \in {"EEPROM_READ", "EEPROM_WRITE"}
  /\ led70' = IF led70.req.cmd = "EEPROM_READ" THEN [led70 EXCEPT !.at = "open"]
              ELSE [led70 EXCEPT !.at = "open",
                                 !.stored[led70.req.addr] = @ \cup {led70.req.data}]
  /\ UNCHANGED eeprom

(* led15070_eeprom_open: the file is there, or is created empty.  A handle *)
(* that was not closed keeps it from being opened for writing again.       *)
led15070_eeprom_open ==
  /\ led70.busy /\ led70.at = "open"
  /\ \/ led70' = Led70EepromFails(led70) /\ UNCHANGED eeprom
     \/ /\ ~led70.leaked
        /\ eeprom.exists
        /\ led70' = [led70 EXCEPT !.at = "opened"]
        /\ UNCHANGED eeprom
     \/ /\ ~led70.leaked
        /\ ~eeprom.exists
        /\ led70' = [led70 EXCEPT !.at = "created"]
        /\ eeprom' = [exists |-> TRUE, bytes |-> <<>>]

(* Broken: a new file is left empty.                                       *)
Led70EepromNoZeros ==
  /\ led70.busy /\ led70.at = "created"
  /\ led70' = [led70 EXCEPT !.at = "opened"]
  /\ UNCHANGED eeprom

(* The zeros are written; if that fails the handle stays open.             *)
Led70EepromZeros ==
  /\ led70.busy /\ led70.at = "created"
  /\ \/ /\ eeprom' = [eeprom EXCEPT !.bytes = [i \in 1..Led70EepromSize |-> 0]]
        /\ led70' = [led70 EXCEPT !.at = "opened"]
     \/ /\ led70' = [Led70EepromFails(led70) EXCEPT !.leaked = TRUE, !.torn = TRUE]
        /\ UNCHANGED eeprom

(* SetFilePointer and WriteFile: a file that ends before is filled up.     *)
Led70Put(file, addr, data) ==
  LET n == Len(file.bytes)
  IN  [file EXCEPT !.bytes = [i \in 1..(IF addr + 1 > n THEN addr + 1 ELSE n) |->
                                IF i = addr + 1 THEN data ELSE IF i <= n THEN @[i] ELSE 0]]

Led70EepromInit ==
  /\ led70.busy /\ led70.at = "opened" /\ led70.req.cmd = "INIT"
  /\ led70' = Led70EepromFails(led70)
  /\ UNCHANGED eeprom

(* Broken: a write that failed is acknowledged like one that did not.      *)
Led70EepromWriteBlind ==
  /\ led70.busy /\ led70.at = "opened" /\ led70.req.cmd = "EEPROM_WRITE"
  /\ LET req == led70.req
     IN  /\ eeprom' \in {eeprom, Led70Put(eeprom, req.addr, req.data)}
         /\ led70' \in Led70Encode([led70 EXCEPT !.answer = "none",
                                                 !.stored[req.addr] = {req.data}])

led15070_req_eeprom_write ==
  /\ led70.busy /\ led70.at = "opened" /\ led70.req.cmd = "EEPROM_WRITE"
  /\ LET req == led70.req
     IN  \/ /\ eeprom' \in {eeprom, Led70Put(eeprom, req.addr, req.data)}
            /\ led70' = Led70EepromFails(led70)
         \/ /\ eeprom' = Led70Put(eeprom, req.addr, req.data)
            /\ led70' \in Led70Encode([led70 EXCEPT !.answer = "none",
                                                    !.stored[req.addr] = {req.data}])

(* Nothing is answered if the byte is behind the end of the file.          *)
led15070_req_eeprom_read ==
  /\ led70.busy /\ led70.at = "opened" /\ led70.req.cmd = "EEPROM_READ"
  /\ LET addr == led70.req.addr
     IN  \/ led70' = Led70EepromFails(led70)
         \/ /\ addr >= Len(eeprom.bytes)
            /\ led70' = [Led70Idle(led70) EXCEPT !.answer = "eof"]
         \/ /\ addr < Len(eeprom.bytes)
            /\ led70' \in Led70Encode([led70 EXCEPT
                  !.answer = IF eeprom.bytes[addr + 1] \in led70.stored[addr] THEN "stored"
                             ELSE "strange"])
  /\ UNCHANGED eeprom

(* The process ends, and is started again; only the file is kept.          *)
Led70Crash ==
  /\ led70' = Led70Board(led70.dll, led70.stored, led70.torn \/ led70.at = "created")
  /\ UNCHANGED eeprom

-----------------------------------------------------------------------------
Led70Command ==
  \/ led15070_req_reset \/ led15070_req_set_input
  \/ led15070_req_set_normal_12bit \/ led15070_req_set_normal_8bit
  \/ led15070_req_set_multi_flash_8bit \/ led15070_req_set_multi_fade_8bit
  \/ led15070_req_set_palette_7_normal_led \/ led15070_req_set_palette_6_flash_led
  \/ led15070_req_set_15dc_out \/ led15070_req_set_15gs_out \/ led15070_req_set_psc_max
  \/ led15070_req_set_fet_output \/ led15070_req_set_gs_palette
  \/ led15070_req_dc_update \/ led15070_req_gs_update \/ led15070_req_rotate
  \/ led15070_req_set_dc_data \/ led15070_req_ack_on \/ led15070_req_ack_off
  \/ led15070_req_board_info \/ led15070_req_board_status \/ led15070_req_fw_sum
  \/ led15070_req_protocol_ver \/ led15070_req_to_boot_mode \/ led15070_req_fw_update
  \/ Led70Ignored

Led70Eeprom ==
  \/ Led70EepromBegins \/ led15070_eeprom_open \/ Led70EepromZeros \/ Led70EepromInit
  \/ led15070_req_eeprom_write \/ led15070_req_eeprom_read

Led70Next ==
  \/ led15070_open \/ led15070_close \/ led15070_read
  \/ \E req \in Led70Frames : led15070_write(req)
  \/ Led70Command \/ Led70Eeprom \/ Led70Crash

Led70Vars == <<led70, eeprom>>

Led70Spec == Led70Init /\ [][Led70Next]_Led70Vars

-----------------------------------------------------------------------------
(* Properties.                                                             *)

Led70TypeOK ==
  /\ led70.fd => led70.started /\ led70.start_hr = "S_OK"
  /\ led70.nbytes \in 0..Led70Capacity
  /\ led70.gs_fade_pending \subseteq led70.touched
  /\ \A i \in 1..Len(led70.calls) : DOMAIN led70.calls[i] = Led70Index
  /\ Len(eeprom.bytes) <= Led70EepromSize

(* GS_UPDATE leaves every LED that was set since the last one as was asked *)
(* at last, fading or at once, however the two were mixed; and a fade      *)
(* begins with a call that puts every LED at rest.                         *)
Led70UpdateShowsLatest ==
  [][led70.dll /\ led70.touched # {} /\ led70'.touched = {} /\ led70'.fd =>
       LET calls == led70'.calls
       IN  /\ \A i \in led70.touched : calls[Len(calls)][i] = led70.asked[i]
           /\ led70.gs_fade_pending # {} =>
                Len(calls) = 2 /\ \A i \in Led70Index : calls[1][i][2] = 0]_Led70Vars

(* What the game reads from the EEPROM is what it was told had been        *)
(* written, or what was being written after that when the process ended or *)
(* a call failed.                                                          *)
Led70EepromKeeps == led70.answer # "strange"

(* A byte of the EEPROM that cannot be read, though no call fails, is one  *)
(* of a file whose creation was cut short.                                 *)
Led70EepromIsWhole == led70.answer = "eof" => led70.torn

(* The board as a whole: the EEPROM keeps what was written through         *)
(* restarts and is whole unless its creation was cut short, and GS_UPDATE  *)
(* shows what was asked of each LED last.                                  *)
Led70IsRight ==
  /\ [](Led70TypeOK /\ Led70EepromKeeps /\ Led70EepromIsWhole)
  /\ Led70UpdateShowsLatest

=============================================================================
