----------------------------------- MODULE Vfd -----------------------------------
(***************************************************************************)
(* The text display, common/board/vfd.c.  What the game writes is a        *)
(* sequence of commands and of plain text; they are handled in turn, and   *)
(* the written buffer is emptied when all of them were.  A command that    *)
(* fails ends the handling with the buffer as it is, so that the next      *)
(* write begins with what was handled before.                              *)
(*                                                                         *)
(* A write holds whole commands.  The settings are one function from the   *)
(* field to its value; a value of a command is one it may hold, or         *)
(* VfdInvalid, which the command refuses.                                  *)
(***************************************************************************)
EXTENDS Integers, Sequences

CONSTANTS
  VfdWrites,       (* the sequences of commands the game may write         *)
  VfdInvalid,      (* an argument out of range                             *)
  VfdWritten,      (* commands the written buffer holds (4096 bytes)       *)
  VfdReadable,     (* answers the readable buffer holds (4096 bytes)       *)
  VfdClears        (* clears that are counted apart (2^32)                 *)

ASSUME VfdAssumption ==
  /\ VfdWritten \in Nat \ {0} /\ VfdReadable \in Nat \ {0} /\ VfdClears \in Nat \ {0}
  /\ \A cmds \in VfdWrites : cmds \in Seq({cmds[i] : i \in 1..Len(cmds)})

VARIABLE vfd

VfdField == {"brightness", "screen_on", "h_scroll", "cursor", "encoding", "text_wnd",
             "text_speed", "scroll_enabled", "rotate"}

(* Zeros, which is not the encoding (shift-jis).                           *)
VfdReset == [f \in VfdField |-> IF f = "encoding" THEN 2 ELSE 0]

(* todo: what of the written buffer is not handled yet.  Histories:        *)
(* published, what the DLL was told last; written_fields, what the         *)
(* settings are if every command is handled once, in the order of the      *)
(* writes, and clears, how often the screen is cleared then; refused, that *)
(* a command has failed, after which the other two are not kept.           *)
VfdInit ==
  vfd = [at |-> "idle", written |-> <<>>, todo |-> <<>>, readable |-> 0,
         fields |-> VfdReset, clear_seq |-> 0, text |-> "none",
         published |-> [fields |-> VfdReset, clear_seq |-> 0],
         written_fields |-> VfdReset, clears |-> 0, refused |-> FALSE]

-----------------------------------------------------------------------------
vfd_publish_state(v) ==
  [v EXCEPT !.published = [fields |-> v.fields, clear_seq |-> v.clear_seq]]

(* A command is taken from the buffer; the rest follows.                   *)
VfdDone(v) == [v EXCEPT !.todo = Tail(@)]

(* Broken: the buffer is emptied then too.                                 *)
VfdFailsClean(v) == [v EXCEPT !.at = "idle", !.todo = <<>>, !.refused = TRUE, !.written = <<>>,
                          !.written_fields = VfdReset, !.clears = 0]

(* vfd_handle_irp, when a command has failed.                              *)
VfdFails(v) == [v EXCEPT !.at = "idle", !.todo = <<>>, !.refused = TRUE,
                     !.written_fields = VfdReset, !.clears = 0]

VfdTake(cmd) == vfd.at = "handle" /\ vfd.todo # <<>> /\ Head(vfd.todo).cmd = cmd

(* A setting is stored and published.                                      *)
VfdSet(cmd, field, value) ==
  /\ VfdTake(cmd)
  /\ vfd' = VfdDone(vfd_publish_state([vfd EXCEPT !.fields[field] = value]))

(* One whose argument is checked.                                          *)
VfdSetChecked(cmd, field) ==
  \/ VfdTake(cmd) /\ Head(vfd.todo).value # VfdInvalid
     /\ VfdSet(cmd, field, Head(vfd.todo).value)
  \/ VfdTake(cmd) /\ Head(vfd.todo).value = VfdInvalid /\ vfd' = VfdFails(vfd)

(* Broken: the brightness is stored, and not published.                    *)
VfdBrightnessUntold ==
  \/ VfdTake("SET_BRIGHTNESS") /\ Head(vfd.todo).value # VfdInvalid
     /\ vfd' = VfdDone([vfd EXCEPT !.fields["brightness"] = Head(vfd.todo).value])
  \/ VfdTake("SET_BRIGHTNESS") /\ Head(vfd.todo).value = VfdInvalid /\ vfd' = VfdFails(vfd)

vfd_handle_set_brightness == VfdSetChecked("SET_BRIGHTNESS", "brightness")
vfd_handle_set_screen_on == VfdSetChecked("SET_SCREEN_ON", "screen_on")
vfd_handle_set_encoding == VfdSetChecked("SET_ENCODING", "encoding")

vfd_handle_set_h_scroll ==
  vfd.todo # <<>> /\ VfdSet("SET_H_SCROLL", "h_scroll", Head(vfd.todo).value)
vfd_handle_set_cursor ==
  vfd.todo # <<>> /\ VfdSet("SET_CURSOR", "cursor", Head(vfd.todo).value)
vfd_handle_set_text_wnd ==
  vfd.todo # <<>> /\ VfdSet("SET_TEXT_WND", "text_wnd", Head(vfd.todo).value)
vfd_handle_set_text_speed ==
  vfd.todo # <<>> /\ VfdSet("SET_TEXT_SPEED", "text_speed", Head(vfd.todo).value)
vfd_handle_rotate ==
  vfd.todo # <<>> /\ VfdSet("ROTATE", "rotate", Head(vfd.todo).value)
vfd_handle_enable_scroll == VfdSet("ENABLE_SCROLL", "scroll_enabled", 1)
vfd_handle_disable_scroll == VfdSet("DISABLE_SCROLL", "scroll_enabled", 0)

vfd_handle_reset ==
  /\ VfdTake("RESET")
  /\ vfd' = VfdDone(vfd_publish_state([vfd EXCEPT !.fields = VfdReset, !.clear_seq = 0]))

(* Followed by a small byte, which cannot be text, the command sets the    *)
(* brightness.                                                             *)
vfd_handle_clear_screen ==
  \/ vfd.todo # <<>> /\ VfdSet("CLEAR_BRIGHTNESS", "brightness", Head(vfd.todo).value)
  \/ /\ VfdTake("CLEAR_SCREEN")
     /\ vfd' = VfdDone(vfd_publish_state([vfd EXCEPT !.clear_seq = (@ + 1) % VfdClears]))

(* Text reaches the DLL if its conversion does not fail.                   *)
print_vfd_text(v, text) == {v, [v EXCEPT !.text = text]}

vfd_handle_write_text ==
  /\ VfdTake("WRITE_TEXT")
  /\ vfd' \in {VfdDone(v) : v \in print_vfd_text(vfd, "text")}

(* Plain text, and text behind WRITE_STATIC.                               *)
vfd_read_text_until_sync ==
  /\ VfdTake("STATIC")
  /\ vfd' \in {VfdDone(v) : v \in print_vfd_text(vfd, "static")}

(* Broken: the room is not looked at.                                      *)
VfdAnswersPast ==
  /\ VfdTake("GET_VERSION")
  /\ vfd' = VfdDone([vfd EXCEPT !.readable = @ + 1])

(* An answer that does not fit fails like a command does.                  *)
vfd_handle_get_version ==
  /\ VfdTake("GET_VERSION")
  /\ vfd' = IF vfd.readable < VfdReadable THEN VfdDone([vfd EXCEPT !.readable = @ + 1])
            ELSE VfdFails(vfd)

(* Images, characters and unknown commands are skipped.                    *)
vfd_handle_draw_image == VfdTake("DRAW_IMAGE") /\ vfd' = VfdDone(vfd)
vfd_handle_create_char == VfdTake("CREATE_CHAR") /\ vfd' = VfdDone(vfd)
vfd_handle_create_char2 == VfdTake("CREATE_CHAR2") /\ vfd' = VfdDone(vfd)

-----------------------------------------------------------------------------
(* vfd_handle_irp.                                                         *)

(* What a command should do, as far as it is followed here.                *)
VfdMeans(s, c) ==
  CASE c.cmd \in {"SET_BRIGHTNESS", "CLEAR_BRIGHTNESS"} -> [s EXCEPT !.fields["brightness"] = c.value]
    [] c.cmd = "SET_CURSOR" -> [s EXCEPT !.fields["cursor"] = c.value]
    [] c.cmd = "SET_ENCODING" -> [s EXCEPT !.fields["encoding"] = c.value]
    [] c.cmd = "RESET" -> [fields |-> VfdReset, clears |-> 0]
    [] c.cmd = "CLEAR_SCREEN" -> [s EXCEPT !.clears = (@ + 1) % VfdClears]
    [] OTHER -> s

(* The settings and the clears after each command of a write.              *)
VfdMeantAfter(s, cmds) ==
  LET after[n \in 0..Len(cmds)] == IF n = 0 THEN s ELSE VfdMeans(after[n - 1], cmds[n])
  IN  after

VfdMeant(v, cmds) ==
  VfdMeantAfter([fields |-> v.written_fields, clears |-> v.clears], cmds)[Len(cmds)]

(* uart_handle_irp appends; a write that does not fit is refused.          *)
VfdWrite(cmds) ==
  /\ vfd.at = "idle" /\ Len(vfd.written) + Len(cmds) <= VfdWritten
  /\ vfd' = [vfd EXCEPT !.at = "handle", !.written = @ \o cmds, !.todo = vfd.written \o cmds,
               !.written_fields = IF vfd.refused THEN @ ELSE VfdMeant(vfd, cmds).fields,
               !.clears = IF vfd.refused THEN @ ELSE VfdMeant(vfd, cmds).clears]

VfdRead ==
  /\ vfd.at = "idle" /\ vfd.readable > 0
  /\ vfd' = [vfd EXCEPT !.readable = 0]

(* Broken: the buffer is not emptied.                                      *)
VfdReturnKeeps ==
  /\ vfd.at = "handle" /\ vfd.todo = <<>>
  /\ vfd' = [vfd EXCEPT !.at = "idle"]

VfdReturn ==
  /\ vfd.at = "handle" /\ vfd.todo = <<>>
  /\ vfd' = [vfd EXCEPT !.at = "idle", !.written = <<>>]

VfdCommand ==
  \/ vfd_handle_set_brightness \/ vfd_handle_set_screen_on \/ vfd_handle_set_encoding
  \/ vfd_handle_set_h_scroll \/ vfd_handle_set_cursor \/ vfd_handle_set_text_wnd
  \/ vfd_handle_set_text_speed \/ vfd_handle_rotate \/ vfd_handle_enable_scroll
  \/ vfd_handle_disable_scroll \/ vfd_handle_reset \/ vfd_handle_clear_screen
  \/ vfd_handle_write_text \/ vfd_read_text_until_sync \/ vfd_handle_get_version
  \/ vfd_handle_draw_image \/ vfd_handle_create_char \/ vfd_handle_create_char2

VfdNext == (\E cmds \in VfdWrites : VfdWrite(cmds)) \/ VfdRead \/ VfdReturn \/ VfdCommand

VfdSpec == VfdInit /\ [][VfdNext]_vfd

-----------------------------------------------------------------------------
(* Properties.                                                             *)

VfdTypeOK ==
  /\ Len(vfd.todo) <= Len(vfd.written) /\ Len(vfd.written) <= VfdWritten
  /\ vfd.readable <= VfdReadable
  /\ vfd.at = "idle" => vfd.todo = <<>>

(* Until a command fails, each is handled once, and in the order in which  *)
(* the game wrote them, however they are spread over the writes.           *)
VfdHandledOnce ==
  vfd.at = "idle" /\ ~vfd.refused =>
    /\ vfd.clear_seq = vfd.clears
    /\ \A f \in {"brightness", "cursor", "encoding"} :
         vfd.fields[f] = vfd.written_fields[f]

(* The DLL is never behind the settings.                                   *)
VfdIsPublished ==
  vfd.published = [fields |-> vfd.fields, clear_seq |-> vfd.clear_seq]

(* After a command that failed on its argument nothing that was written    *)
(* behind it is ever handled: it is met again first by every later write.  *)
VfdRefusalStays ==
  [][LET bad(s) == {i \in 1..Len(s) : s[i].cmd \in {"SET_BRIGHTNESS", "SET_SCREEN_ON",
                                                    "SET_ENCODING"}
                                      /\ s[i].value = VfdInvalid}
     IN  bad(vfd.written) # {} => bad(vfd'.written) # {}]_vfd

(* The display as a whole: a command is handled once unless one before it  *)
(* in the same buffer is refused, the state is told as soon as it changes, *)
(* and a refused command stays where it is.                                *)
VfdIsRight ==
  /\ [](VfdTypeOK /\ VfdHandledOnce /\ VfdIsPublished)
  /\ VfdRefusalStays

=============================================================================
