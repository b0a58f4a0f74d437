-------------------------------- MODULE PrinterCx --------------------------------
(***************************************************************************)
(* hooklib/printer_cx.c: the card printer CX-7000, which numbers its       *)
(* cards.  The number is a counter in a file that is saved before the      *)
(* number is told; the save makes an empty file and then writes it, and    *)
(* the machine can be switched off in between.                             *)
(*                                                                         *)
(* The images of a card go to files that carry its number; nothing of them *)
(* outlives the card, and they are left out.                               *)
(***************************************************************************)
EXTENDS Integers, FiniteSets

CONSTANTS
  CxCardsMax,       (* bound: cards                                        *)
  CxStarts          (* bound: starts of the game                           *)

ASSUME CxAssumption == CxCardsMax \in Nat /\ CxStarts \in Nat

(* counter, sinceClean, transport: printer_data; file, saved: what there   *)
(* is of the file and in it; id: current_card_id; pc: "down", "idle", or   *)
(* the step of a save; after: what the call does when the save is done.    *)
(* ids, card: the numbers told, and how many cards there were; lost: a     *)
(* save was not finished; starts: of the game                              *)
VARIABLE cx

CxData == [counter |-> cx.counter, sinceClean |-> cx.sinceClean, transport |-> cx.transport]

CxInit ==
  cx = [counter |-> 0, sinceClean |-> 0, transport |-> FALSE, file |-> "none",
        saved |-> [counter |-> 0, sinceClean |-> 0, transport |-> FALSE],
        id |-> 0, pc |-> "down", after |-> "nothing",
        ids |-> {}, card |-> 0, lost |-> FALSE, starts |-> 0]

CxWith(data) ==
  [cx EXCEPT !.counter = data.counter, !.sinceClean = data.sinceClean,
             !.transport = data.transport]

-----------------------------------------------------------------------------
(* Broken: only the counter of the cards begins anew.                      *)
CxLoadsHalf ==
  /\ cx.pc = "down" /\ cx.starts < CxStarts
  /\ cx' = IF cx.file = "whole"
           THEN [CxWith(cx.saved) EXCEPT !.pc = "idle", !.starts = @ + 1]
           ELSE [CxWith([cx.saved EXCEPT !.counter = 0]) EXCEPT
                   !.pc = "save", !.after = "nothing", !.starts = @ + 1]

(* printer_cx_hook_init: the counters begin anew when the file cannot be   *)
(* loaded, and are saved.                                                  *)
load_printer_data ==
  /\ cx.pc = "down" /\ cx.starts < CxStarts
  /\ cx' = IF cx.file = "whole"
           THEN [CxWith(cx.saved) EXCEPT !.pc = "idle", !.starts = @ + 1]
           ELSE [CxWith([counter |-> 0, sinceClean |-> 0, transport |-> FALSE]) EXCEPT
                   !.pc = "save", !.after = "nothing", !.starts = @ + 1]

(* The memory of the process is gone.                                      *)
CxOff ==
  /\ cx.pc # "down"
  /\ cx' = [cx EXCEPT !.pc = "down", !.id = 0,
              !.lost = @ \/ cx.file = "short"]

(* save_printer_data, in two steps; an error is only logged.               *)
CxCreate ==
  /\ cx.pc = "save"
  /\ \/ cx' = [cx EXCEPT !.pc = "write", !.file = "short"]
     \/ cx' = [cx EXCEPT !.pc = "saved", !.lost = TRUE]

(* Broken: the counter of the cards is forgotten.                          *)
CxSavesOptions ==
  /\ cx.pc = "write"
  /\ cx' = [cx EXCEPT !.pc = "saved", !.file = "whole",
              !.saved = [CxData EXCEPT !.counter = cx.saved.counter]]

save_printer_data ==
  /\ cx.pc = "write"
  /\ \/ cx' = [cx EXCEPT !.pc = "saved", !.file = "whole", !.saved = CxData]
     \/ cx' = [cx EXCEPT !.pc = "saved", !.lost = TRUE]

(* The call that has saved returns: only then a number is told.            *)
CxReturns ==
  /\ cx.pc = "saved"
  /\ cx' = [cx EXCEPT !.pc = "idle",
              !.ids = IF cx.after = "tell" THEN @ \cup {[card |-> cx.card, id |-> cx.id]}
                      ELSE @]

-----------------------------------------------------------------------------
(* The calls of the game.                                                  *)

(* hook_CXCMD_ReadBuffer with ReadCode: the number of the next card.       *)
hook_CXCMD_ReadBuffer ==
  /\ cx.pc = "idle" /\ cx.card < CxCardsMax
  /\ cx' = [cx EXCEPT !.pc = "save", !.after = "tell", !.sinceClean = @ + 1,
              !.counter = @ + 1, !.id = cx.counter + 1, !.card = @ + 1]

(* hook_CXCMD_SendDiagnostic: cleaned, transport mode on and off.          *)
hook_CXCMD_SendDiagnostic(mode) ==
  /\ cx.pc = "idle"
  /\ cx' = [cx EXCEPT !.pc = "save", !.after = "nothing",
              !.sinceClean = IF mode = 17 THEN 0 ELSE @,
              !.transport = IF mode = 17 THEN @ ELSE mode = 18]

CxNext ==
  \/ load_printer_data \/ CxOff \/ CxCreate \/ save_printer_data \/ CxReturns
  \/ hook_CXCMD_ReadBuffer
  \/ \E mode \in {17, 18, 20} : hook_CXCMD_SendDiagnostic(mode)

CxSpec == CxInit /\ [][CxNext]_cx

-----------------------------------------------------------------------------
(* Properties.                                                             *)

CxTypeOK ==
  /\ cx.pc \in {"down", "idle", "save", "write", "saved"}
  /\ cx.file \in {"none", "short", "whole"}
  /\ cx.counter \in 0..CxCardsMax /\ cx.sinceClean \in 0..cx.counter

(* As long as each save was finished no number is told of two cards,       *)
(* however often the game is stopped, even between the number and the      *)
(* answer.                                                                 *)
CxIdsUnique ==
  ~cx.lost => \A a, b \in cx.ids : a.id = b.id => a.card = b.card

(* The card printer as a whole: the counters stay within the cards that    *)
(* there are, and no number is told of two cards unless a save was cut     *)
(* short.                                                                  *)
CxIsRight ==
  /\ CxTypeOK
  /\ CxIdsUnique

=============================================================================
