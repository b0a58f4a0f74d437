-------------------------------- MODULE Led15093 --------------------------------
(***************************************************************************)
(* The LED board 837-15093, common/board/led15093.c, with its one node.    *)
(* A write of the game may hold several frames; they are handled one by    *)
(* one until one fails to decode, and what is behind that one waits for    *)
(* the next write.                                                         *)
(*                                                                         *)
(* The handler enters a copy of the board's CRITICAL_SECTION, so the game  *)
(* itself must not use a board from two threads: the model has one.        *)
(* A frame is a record: its command, its address (0 is "every node"), and  *)
(* its data.  "CRC" fails its checksum, "E_FAIL" is malformed otherwise.   *)
(* The addresses and counts that are sent are those the board has.         *)
(***************************************************************************)
EXTENDS Integers, Sequences

CONSTANTS
  Led93Writes,      (* what the game may write at once: sequences of frames *)
  Led93WrittenMax,  (* bound: frames in written_bytes                       *)
  Led93Capacity,    (* readable_bytes (520)                                 *)
  Led93ReplySize,   (* bytes of an encoded reply                            *)
  Led93Reads,       (* bytes the game may ask for in one read               *)
  Led93Leds,        (* led15093_led_count_max (66)                          *)
  Led93Colour       (* colours, 0 among them                                *)

(* A frame of the game: an address, a count of LEDs and colours that the   *)
(* board has.                                                              *)
Led93Frame ==
  {f \in [cmd : STRING, dest : Nat, data : Seq(Nat)] :
    /\ f.cmd \in {"SET_ID", "SET_AUTO_SHIFT"} => Len(f.data) = 1
    /\ f.cmd = "SET_AUTO_SHIFT" => f.data[1] <= Led93Leds
    /\ f.cmd \in {"SET_LED", "SET_IMM_LED", "SET_FADE_LED"} => f.data \in Seq(Led93Colour)}

ASSUME Led93Assumption ==
  /\ Led93WrittenMax \in Nat /\ Led93Leds \in Nat
  /\ Led93Capacity \in Nat \ {0} /\ Led93ReplySize \in Nat \ {0}
  /\ Led93Reads \subseteq Nat
  /\ 0 \in Led93Colour /\ Led93Colour \subseteq Nat
  /\ \A frames \in Led93Writes : frames \in Seq(Led93Frame)

VARIABLE led93

Led93Dark == [i \in 1..Led93Leds |-> 0]

(* led15093_hook_init.  reply and sumErr are histories: the last reply,    *)
(* and whether a checksum has failed since a frame was last handled.       *)
Led93Init ==
  led93 = [fd |-> FALSE, started |-> FALSE, start_hr |-> "S_OK", busy |-> FALSE,
           written |-> <<>>, nbytes |-> 0, last_hr |-> "S_FALSE",
           boardadr |-> 1, boardstatus |-> {}, status_code |-> "OK", report_code |-> "OK",
           enable_bootloader |-> FALSE, enable_response |-> TRUE,
           led_count |-> Led93Leds, led |-> Led93Dark, shown |-> Led93Dark,
           reply |-> [status |-> "OK", err |-> FALSE, cleared |-> FALSE], sumErr |-> FALSE]

-----------------------------------------------------------------------------
(* Broken: the end of the buffer is not looked at.                         *)
Led93EncodePast(b, cleared) ==
  {[b EXCEPT !.nbytes = @ + Led93ReplySize,
             !.reply = [status |-> b.status_code, err |-> b.sumErr, cleared |-> cleared]]}

(* led15093_frame_encode: what does not fit is cut where the buffer ends,  *)
(* and an escaped byte is not split.                                       *)
Led93Encode(b, cleared) ==
  LET end == b.nbytes + Led93ReplySize
      ends == IF end <= Led93Capacity THEN {end}
              ELSE {n \in {Led93Capacity - 1, Led93Capacity} : n >= b.nbytes}
  IN  {[b EXCEPT !.nbytes = n,
                 !.reply = [status |-> b.status_code, err |-> b.sumErr, cleared |-> cleared]] :
         n \in ends}

(* led15093_clear_status and led15093_clear_report.                        *)
Led93ClearStatus(b) == [b EXCEPT !.boardstatus = {}, !.status_code = "OK"]
Led93ClearReport(b) == [b EXCEPT !.report_code = "OK"]

(* The loop clears both when a command has been handled.                   *)
Led93Done(boards) ==
  {[Led93ClearReport(Led93ClearStatus(b)) EXCEPT !.sumErr = FALSE] : b \in boards}

-----------------------------------------------------------------------------
(* led15093_handle_irp_locked: OPEN starts the I/O DLL the first time.     *)
led15093_open ==
  /\ ~led93.busy
  /\ ~led93.fd
  /\ \E hr \in IF led93.started THEN {led93.start_hr} ELSE {"S_OK", "E_FAIL"} :
       led93' = [led93 EXCEPT !.started = TRUE, !.start_hr = hr, !.fd = (hr = "S_OK")]

led15093_close ==
  /\ ~led93.busy
  /\ led93.fd
  /\ led93' = [led93 EXCEPT !.fd = FALSE]

led15093_read(n) ==
  /\ ~led93.busy
  /\ led93.fd
  /\ led93' = [led93 EXCEPT !.nbytes = IF @ > n THEN @ - n ELSE 0]

led15093_write(frames) ==
  /\ ~led93.busy
  /\ led93.fd
  /\ Len(led93.written) + Len(frames) <= Led93WrittenMax
  /\ led93' = [led93 EXCEPT !.written = @ \o frames, !.busy = TRUE]

(* Broken: only the first frame of a write is handled.                     *)
Led93ReturnsAfterOne ==
  /\ led93.busy
  /\ Len(led93.written) < Led93WrittenMax
  /\ led93' = [led93 EXCEPT !.busy = FALSE, !.last_hr = "S_FALSE"]

(* Nothing is left to decode.                                              *)
led15093_return ==
  /\ led93.busy
  /\ led93.written = <<>>
  /\ led93' = [led93 EXCEPT !.busy = FALSE, !.last_hr = "S_FALSE"]

(* A frame that fails to decode ends the write.  Broken: says nothing.     *)
Led93QuietError ==
  /\ led93.busy
  /\ led93.written # <<>>
  /\ Head(led93.written).cmd \in {"CRC", "E_FAIL"}
  /\ led93' = [led93 EXCEPT !.written = Tail(@), !.busy = FALSE,
                            !.last_hr = Head(led93.written).cmd,
                            !.sumErr = @ \/ Head(led93.written).cmd = "CRC"]

led15093_deframe_error ==
  /\ led93.busy
  /\ led93.written # <<>>
  /\ \/ /\ Head(led93.written).cmd = "CRC"
        /\ led93' = [led93 EXCEPT !.written = Tail(@), !.busy = FALSE, !.last_hr = "CRC",
                                  !.boardstatus = @ \cup {"UART_ERR_SUM"},
                                  !.status_code = "ERR_SUM", !.sumErr = TRUE]
     \/ /\ Head(led93.written).cmd = "E_FAIL"
        /\ led93' = [led93 EXCEPT !.written = Tail(@), !.busy = FALSE, !.last_hr = "E_FAIL"]

-----------------------------------------------------------------------------
(* led15093_req_dispatch.  Each command maps the board to what it may      *)
(* become; the rest of the loop is Led93Done.                              *)
Led93Board == [led93 EXCEPT !.written = Tail(@)]
Led93Req == Head(led93.written)

Led93Take(cmd, boards) ==
  /\ led93.busy
  /\ led93.written # <<>>
  /\ Led93Req.cmd = cmd
  /\ led93' \in Led93Done(boards)

(* Most only answer, the questions always ...                              *)
Led93Answer(b) == Led93Encode(b, FALSE)

led15093_req_set_timeout == Led93Take("SET_TIMEOUT", Led93Answer(Led93Board))
led15093_req_get_board_info == Led93Take("GET_BOARD_INFO", Led93Answer(Led93Board))
led15093_req_get_fw_sum == Led93Take("GET_FW_SUM", Led93Answer(Led93Board))
led15093_req_get_protocol_ver == Led93Take("GET_PROTOCOL_VER", Led93Answer(Led93Board))
led15093_req_fw_update == Led93Take("FW_UPDATE", Led93Answer(Led93Board))

(* ... and what concerns the LEDs only if it has been told to.             *)
Led93Acknowledge(b) == IF b.enable_response THEN Led93Answer(b) ELSE {b}

led15093_req_update_led == Led93Take("UPDATE_LED", Led93Acknowledge(Led93Board))
led15093_req_set_fade_level == Led93Take("SET_FADE_LEVEL", Led93Acknowledge(Led93Board))
led15093_req_set_fade_shift == Led93Take("SET_FADE_SHIFT", Led93Acknowledge(Led93Board))

led15093_req_reset ==
  Led93Take("RESET",
    Led93Answer([Led93Board EXCEPT !.enable_bootloader = FALSE, !.enable_response = TRUE]))

(* data is empty when the game only asks for the setting.                  *)
led15093_req_set_response ==
  Led93Take("SET_DISABLE_RESPONSE",
    Led93Answer(IF Led93Req.data = <<>> THEN Led93Board
                ELSE [Led93Board EXCEPT !.enable_response = (Led93Req.data[1] = 0)]))

(* Broken: overwrites an address that was assigned before.                 *)
Led93SetIdOverwrites ==
  Led93Take("SET_ID",
    IF Led93Req.data[1] = 0 THEN {[Led93Board EXCEPT !.boardstatus = @ \cup {"CMD_ERR_PARAM"}]}
    ELSE Led93Answer([Led93Board EXCEPT !.boardadr = Led93Req.data[1]]))

(* An address given to every node goes to one that has none.               *)
led15093_req_set_id ==
  Led93Take("SET_ID",
    IF Led93Req.data[1] = 0 THEN {[Led93Board EXCEPT !.boardstatus = @ \cup {"CMD_ERR_PARAM"}]}
    ELSE Led93Answer(IF Led93Req.dest = 0 /\ led93.boardadr # 0 THEN Led93Board
                     ELSE [Led93Board EXCEPT !.boardadr = Led93Req.data[1]]))

led15093_req_clear_id ==
  Led93Take("CLEAR_ID", Led93Answer([Led93Board EXCEPT !.boardadr = 0]))

(* Data for fewer LEDs than the board has is taken, for more it is not.    *)
Led93IfItFits(boards) ==
  IF Len(Led93Req.data) > led93.led_count THEN {[Led93Board EXCEPT !.report_code = "ERR1"]}
  ELSE UNION {Led93Acknowledge(b) : b \in boards}

Led93Copy(leds, data) == [i \in 1..Led93Leds |-> IF i <= Len(data) THEN data[i] ELSE leds[i]]

(* The brightness is stored, and never looked at.                          *)
led15093_req_set_max_bright ==
  Led93Take("SET_MAX_BRIGHT",
    Led93IfItFits({Led93Board}))

led15093_req_set_led ==
  Led93Take("SET_LED",
    Led93IfItFits({[Led93Board EXCEPT !.led = Led93Copy(@, Led93Req.data)]}))

led15093_req_set_fade_led ==
  Led93Take("SET_FADE_LED",
    Led93IfItFits({[Led93Board EXCEPT !.led = Led93Copy(@, Led93Req.data)]}))

(* The DLL is handed the request buffer as it is: behind the data of a     *)
(* short request is whatever the buffer held before.                       *)
Led93Request(data) ==
  {leds \in [1..Led93Leds -> Led93Colour] : \A i \in 1..Len(data) : leds[i] = data[i]}

(* Broken: hands over the board's colours before it takes the new ones.    *)
Led93ShowsOld ==
  Led93Take("SET_IMM_LED",
    Led93IfItFits({[Led93Board EXCEPT !.shown = led93.led, !.led = Led93Copy(@, Led93Req.data)]}))

led15093_req_set_imm_led ==
  Led93Take("SET_IMM_LED",
    Led93IfItFits({[Led93Board EXCEPT !.shown = leds, !.led = Led93Copy(@, Led93Req.data)] :
                             leds \in Led93Request(Led93Req.data)}))

led15093_req_set_auto_shift ==
  Led93Take("SET_AUTO_SHIFT",
    Led93Acknowledge([Led93Board EXCEPT !.led_count = Led93Req.data[1]]))

(* data is <<1>> to clear the status, which is done before it is told.     *)
led15093_req_get_board_status ==
  Led93Take("GET_BOARD_STATUS",
    IF Led93Req.data = <<1>> THEN Led93Encode(Led93ClearStatus(Led93Board), TRUE)
    ELSE Led93Answer(Led93Board))

led15093_req_set_bootmode ==
  Led93Take("SET_BOOTMODE",
    Led93Answer([Led93Board EXCEPT !.enable_bootloader = TRUE]))

Led93Unhandled ==
  Led93Take("unhandled", {[Led93Board EXCEPT !.report_code = "ERR2"]})

-----------------------------------------------------------------------------
Led93Command ==
  \/ led15093_req_reset \/ led15093_req_set_timeout \/ led15093_req_set_response
  \/ led15093_req_set_id \/ led15093_req_clear_id
  \/ led15093_req_set_max_bright \/ led15093_req_update_led \/ led15093_req_set_led
  \/ led15093_req_set_imm_led \/ led15093_req_set_fade_led
  \/ led15093_req_set_fade_level \/ led15093_req_set_fade_shift
  \/ led15093_req_set_auto_shift
  \/ led15093_req_get_board_info \/ led15093_req_get_board_status
  \/ led15093_req_get_fw_sum \/ led15093_req_get_protocol_ver
  \/ led15093_req_set_bootmode \/ led15093_req_fw_update
  \/ Led93Unhandled

Led93Next ==
  \/ led15093_open \/ led15093_close
  \/ \E n \in Led93Reads : led15093_read(n)
  \/ \E frames \in Led93Writes : led15093_write(frames)
  \/ led15093_return \/ led15093_deframe_error
  \/ Led93Command

Led93Spec == Led93Init /\ [][Led93Next]_led93

-----------------------------------------------------------------------------
(* Properties.                                                             *)

Led93TypeOK ==
  /\ led93.fd \in BOOLEAN /\ led93.busy \in BOOLEAN
  /\ led93.fd => led93.started /\ led93.start_hr = "S_OK"
  /\ Len(led93.written) <= Led93WrittenMax
  /\ led93.nbytes \in 0..Led93Capacity
  /\ led93.led_count \in 0..Led93Leds
  /\ led93.led \in [1..Led93Leds -> Led93Colour]
  /\ led93.shown \in [1..Led93Leds -> Led93Colour]

(* A checksum error is told in the next reply, once: no reply has an       *)
(* error from before the frame that was handled last, and none hides one   *)
(* from the game, unless it has asked for the status to be cleared.        *)
Led93ErrorIsToldOnce ==
  LET r == led93.reply
  IN  /\ r.status = "ERR_SUM" => r.err
      /\ r.err /\ ~r.cleared => r.status = "ERR_SUM"

(* Frames are left behind by a write only if one before them failed to     *)
(* decode.                                                                 *)
Led93LeftBehind ==
  ~led93.busy /\ led93.written # <<>> => led93.last_hr \in {"CRC", "E_FAIL"}

(* SET_IMM_LED shows at once, of every LED in its data, the colour that    *)
(* the board now holds for it.                                             *)
Led93ShowsAtOnce ==
  [][LET req == Head(led93.written)
     IN  led93.busy /\ led93.written # <<>> /\ req.cmd = "SET_IMM_LED"
           /\ Len(req.data) <= led93.led_count
         => \A i \in 1..Len(req.data) : led93'.shown[i] = led93'.led[i]]_led93

(* A node that has an address keeps it when an address is offered to every *)
(* node: it loses it by CLEAR_ID, or by a SET_ID of its own.               *)
Led93AddressIsKept ==
  [][led93.boardadr # 0 /\ led93'.boardadr # led93.boardadr =>
       \/ Head(led93.written).cmd = "CLEAR_ID"
       \/ Head(led93.written).cmd = "SET_ID" /\ Head(led93.written).dest # 0]_led93

(* The board as a whole: a checksum error is told in one reply, frames     *)
(* stay behind only after a frame that failed, the colours of SET_IMM_LED  *)
(* are those of its data, and only CLEAR_ID or an addressed SET_ID moves   *)
(* the address.                                                            *)
Led93IsRight ==
  /\ [](Led93TypeOK /\ Led93ErrorIsToldOnce /\ Led93LeftBehind)
  /\ Led93ShowsAtOnce
  /\ Led93AddressIsKept

=============================================================================
