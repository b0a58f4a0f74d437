--------------------------------- MODULE Printer ---------------------------------
(***************************************************************************)
(* hooklib/printer_chc.c: the card printers C300 and C330 (and C310, C320, *)
(* which act like the latter).  A print is standby, start of the page, one *)
(* image per side, end of the page, a wait and the exit of the card.  The  *)
(* images become files that are named after the second and the side.       *)
(*                                                                         *)
(* The card's RFID is told by the printer's DLL, and by an RFID board on a *)
(* serial port, which answers READ over several reads of the port.         *)
(*                                                                         *)
(* The game makes the calls from one thread, in the order of a print: it   *)
(* starts a page when the printer says that it is ready, and goes on after *)
(* the page when the printer no longer says that it prints.                *)
(***************************************************************************)
EXTENDS Integers, Sequences, FiniteSets

CONSTANTS
  PrnModels,        (* "300", "330"                                        *)
  PrnWaits,         (* values of waitTime, in ticks                        *)
  PrnSecond,        (* ticks of a second                                   *)
  PrnEnd,           (* bound: ticks that pass                              *)
  PrnSides,         (* images of a page                                    *)
  PrnData,          (* what a block of the card's memory can be            *)
  PrnOpens,         (* bound: calls of chcusb_open                         *)
  PrnPages          (* bound: pages that are printed                       *)

ASSUME PrnAssumption ==
  /\ PrnModels \subseteq {"300", "330"} /\ PrnWaits \subseteq Nat
  /\ PrnSecond \in Nat \ {0} /\ PrnEnd \in Nat /\ PrnSides \in Nat \ {0}
  /\ PrnOpens \in Nat /\ PrnPages \in Nat

(* The RFID and the block, or nothing.                                     *)
PrnCard(rfid, x) == <<rfid, x>>
PrnUnknown == <<>>

(* model, wait: the configuration; now: the time; status, awaiting, finish,*)
(* side, rfid, data: the globals STATUS, awaitingCardExit, finishTime,     *)
(* printSide, cardRFID and cardDataBuffer; an RFID is the seed and the     *)
(* place in the sequence of rand; idx, pending, readable: the RFID board's *)
(* current_card_idx, read_pending and replies.                             *)
(* at: where the game is; files: the files; pages, images, told: how many  *)
(* pages were started, images written, and prints reported as done; knows: *)
(* what the RFID board told of the card in the printer; took: the replies  *)
(* the game took since READ; opens: calls of chcusb_open                   *)
VARIABLE prn

PrnInit ==
  \E mo \in PrnModels, w \in PrnWaits, x \in PrnData :
    prn = [model |-> mo, wait |-> w, now |-> 0, status |-> 0, awaiting |-> FALSE,
           finish |-> 0, side |-> 0, rfid |-> <<0, 0>>, data |-> x, idx |-> 0,
           pending |-> FALSE, readable |-> <<>>, at |-> "closed", files |-> {},
           pages |-> 0, images |-> 0, told |-> 0, knows |-> PrnUnknown, took |-> <<>>,
           opens |-> 0]

PrnTick == prn.now < PrnEnd /\ prn' = [prn EXCEPT !.now = @ + 1]

check_for_wait_time == prn.finish > 0 /\ prn.now < prn.finish

PrnSeconds == prn.now \div PrnSecond

generate_rfid == <<prn.rfid[1], prn.rfid[2] + 1>>

-----------------------------------------------------------------------------
(* The printer.                                                            *)

(* Seeds rand with the second.  Again when the game opens it anew between  *)
(* two prints.                                                             *)
chcusb_open ==
  /\ prn.at \in {"closed", "idle"} /\ prn.opens < PrnOpens
  /\ prn' = [prn EXCEPT !.at = "idle", !.opens = @ + 1, !.knows = PrnUnknown,
                     !.rfid = <<PrnSeconds, 0>>]

chcusb_setPrintStandby ==
  /\ prn.model = "330" /\ prn.at = "idle"
  /\ prn' = [prn EXCEPT !.at = "standby", !.status = IF @ = 0 THEN 1 ELSE @]

(* Broken: taken over from the C330, where exitCard has made way.          *)
PrnStandbyAsks ==
  /\ prn.model = "300" /\ prn.at = "idle"
  /\ prn' = [prn EXCEPT !.at = "standby", !.status = IF @ = 0 THEN 1 ELSE @]

chcusb_setPrintStandby_300 ==
  /\ prn.model = "300" /\ prn.at = "idle"
  /\ prn' = [prn EXCEPT !.at = "standby", !.awaiting = FALSE,
       !.finish = IF prn.awaiting THEN 0 ELSE @,
       !.status = IF prn.awaiting \/ @ = 0 THEN 1 ELSE @]

(* chcusb_getPrinterInfo with the tag printStandby.                        *)
PrnInfo == IF prn.awaiting THEN 240 ELSE IF prn.status = 1 THEN 1 ELSE 0

PrnBoardIsQuiet == ~prn.pending /\ prn.readable = <<>>

chcusb_startpage ==
  /\ prn.at = "standby" /\ PrnInfo = 1 /\ PrnBoardIsQuiet /\ prn.pages < PrnPages
  /\ prn' = [prn EXCEPT !.at = "page", !.status = 2, !.pages = @ + 1]

(* Creates the file anew when there is one of that name.                   *)
chcusb_write ==
  LET Name(f) == <<f.second, f.side>>
      image == [second |-> PrnSeconds, side |-> prn.side, page |-> prn.pages,
                rfid |-> prn.rfid, data |-> prn.data, knows |-> prn.knows]
  IN  /\ prn.at = "page" /\ prn.side < PrnSides
      /\ prn' = [prn EXCEPT !.side = @ + 1, !.images = @ + 1,
                   !.files = {f \in @ : Name(f) # Name(image)} \cup {image}]

(* Broken: the wait is not begun.                                          *)
PrnEndsAtOnce ==
  /\ prn.at = "page" /\ prn.side > 0
  /\ prn' = [prn EXCEPT !.at = "wait", !.awaiting = TRUE, !.side = 0, !.took = <<>>]

chcusb_endpage ==
  /\ prn.at = "page" /\ prn.side > 0
  /\ prn' = [prn EXCEPT !.at = "wait", !.awaiting = TRUE, !.side = 0, !.took = <<>>,
               !.finish = IF prn.wait > 0 THEN prn.now + prn.wait ELSE @]

(* The game asks on until it no longer hears 2203; 2212 is a print done.   *)
chcusb_getPrintIDStatus ==
  /\ prn.at = "wait"
  /\ ~check_for_wait_time
  /\ prn' = [prn EXCEPT !.at = IF prn.model = "330" THEN "exit" ELSE "idle",
       !.told = IF prn.status > 1 THEN @ + 1 ELSE @,
       !.status = IF @ > 1 THEN 0 ELSE @,
       !.knows = IF prn.model = "330" THEN @ ELSE PrnUnknown]

(* Broken: the next card has the RFID of this one.                         *)
PrnExitKeepsCard ==
  /\ prn.at = "exit" /\ ~check_for_wait_time /\ PrnBoardIsQuiet
  /\ prn' = [prn EXCEPT !.at = "idle", !.awaiting = FALSE, !.finish = 0,
               !.knows = PrnUnknown]

(* The game does it on a C330 only, until it is not refused with 2203.     *)
chcusb_exitCard ==
  /\ prn.at = "exit" /\ ~check_for_wait_time /\ PrnBoardIsQuiet
  /\ prn' = [prn EXCEPT !.at = "idle", !.awaiting = FALSE, !.finish = 0,
               !.rfid = generate_rfid, !.knows = PrnUnknown]

(* A block of the card's memory, over the DLL.                             *)
PrnWritten(x) ==
  [prn EXCEPT !.data = x,
     !.knows = IF @ = PrnUnknown THEN @ ELSE PrnCard(@[1], x)]

chcusb_commCardRfidReader(x) ==
  /\ prn.at = "standby" /\ PrnBoardIsQuiet
  /\ prn' = PrnWritten(x)

-----------------------------------------------------------------------------
(* The RFID board.  The game talks to it before it starts the page, and    *)
(* reads each answer to the end.                                           *)

PrnReply(s, text) == [cmd |-> s, card |-> text]

(* deck_handle_irp_locked for a write: one request; here WRITE and READ.   *)
deck_req_write(x) ==
  /\ prn.at = "standby" /\ PrnBoardIsQuiet
  /\ prn' = [PrnWritten(x) EXCEPT !.readable = Append(@, PrnReply("WRITE", PrnUnknown))]

(* Broken: the card that was read before is taken for this one.            *)
PrnReadGoesOn ==
  /\ prn.at = "standby" /\ PrnBoardIsQuiet
  /\ prn' = [prn EXCEPT !.pending = TRUE, !.took = <<>>,
               !.readable = Append(@, PrnReply("START", PrnUnknown))]

deck_req_read ==
  /\ prn.at = "standby" /\ PrnBoardIsQuiet
  /\ prn' = [prn EXCEPT !.idx = 0, !.pending = TRUE, !.took = <<>>,
               !.readable = Append(@, PrnReply("START", PrnUnknown))]

deck_req_read_data ==
  /\ prn.at = "standby" /\ PrnBoardIsQuiet
  /\ prn' = [prn EXCEPT !.readable = Append(@, PrnReply("READ_DATA", PrnUnknown))]

(* DATA with the card, then END.                                           *)
deck_read_one(p) ==
  IF p.idx < 1
  THEN [p EXCEPT !.idx = @ + 1,
          !.readable = Append(@, PrnReply("DATA", PrnCard(p.rfid, p.data)))]
  ELSE [p EXCEPT !.pending = FALSE, !.readable = Append(@, PrnReply("END", PrnUnknown))]

(* Broken: the port hands out its replies and keeps them.                  *)
PrnReadsAgain ==
  /\ prn.at = "standby" /\ ~PrnBoardIsQuiet
  /\ prn' = IF prn.pending THEN deck_read_one(prn) ELSE [prn EXCEPT !.readable = <<>>]

(* The parts of a card among the replies that the game takes.              *)
PrnTakes(took, replies) ==
  LET after[i \in 0..Len(replies)] ==
        IF i = 0 THEN took
        ELSE IF replies[i].cmd \in {"START", "DATA", "END"}
             THEN Append(after[i - 1], replies[i].cmd)
             ELSE after[i - 1]
  IN  after[Len(replies)]

(* deck_handle_irp_locked for a read: what is there goes to the game, and  *)
(* the next part of a card comes after it.                                 *)
PrnReads ==
  LET Cards == {r \in {prn.readable[i] : i \in 1..Len(prn.readable)} : r.cmd = "DATA"}
      taken == [prn EXCEPT !.readable = <<>>,
                  !.took = PrnTakes(@, prn.readable),
                  !.knows = IF Cards = {} THEN @ ELSE (CHOOSE r \in Cards : TRUE).card]
  IN  /\ prn.at = "standby" /\ ~PrnBoardIsQuiet
      /\ prn' = IF prn.pending THEN deck_read_one(taken) ELSE taken

PrnNext ==
  \/ PrnTick \/ chcusb_open \/ chcusb_setPrintStandby \/ chcusb_setPrintStandby_300
  \/ chcusb_startpage \/ chcusb_write \/ chcusb_endpage \/ chcusb_getPrintIDStatus
  \/ chcusb_exitCard \/ deck_req_read \/ deck_req_read_data \/ PrnReads
  \/ \E x \in PrnData : chcusb_commCardRfidReader(x) \/ deck_req_write(x)

PrnSpec == PrnInit /\ [][PrnNext]_prn

-----------------------------------------------------------------------------
(* Properties.                                                             *)

PrnTypeOK ==
  /\ prn.status \in 0..2 /\ prn.awaiting \in BOOLEAN /\ prn.side \in 0..PrnSides
  /\ prn.at \in {"closed", "idle", "standby", "page", "wait", "exit"}
  /\ Len(prn.readable) <= 1 /\ prn.idx \in 0..1 /\ prn.pending \in BOOLEAN
  /\ prn.told \in 0..prn.pages

(* When the printer has been told to get ready it is: no print leaves it   *)
(* in a state in which it never takes a page again, nor reports it twice.  *)
PrnGetsReady ==
  /\ prn.at = "standby" => PrnInfo = 1
  /\ prn.at \in {"idle", "standby", "exit"} => prn.told = prn.pages

(* With a wait of a second or more no image of a card is written over.     *)
PrnFilesAreKept ==
  prn.wait >= PrnSecond => Cardinality(prn.files) = prn.images

(* With such a wait two cards of a C330 never have the same RFID, although *)
(* rand starts from the second each time the printer is opened.            *)
PrnCardsDiffer ==
  prn.wait >= PrnSecond /\ prn.model = "330" =>
    \A f, g \in prn.files : f.rfid = g.rfid => f.page = g.page

(* An image carries the card that the RFID board told the game of, and the *)
(* board tells a card as START, DATA, END.                                 *)
PrnImageIsOfCard ==
  /\ \A f \in prn.files :
       f.knows # PrnUnknown => f.knows = PrnCard(f.rfid, f.data)
  /\ prn.at = "page" => prn.took \in {<<>>, <<"START", "DATA", "END">>}

(* The printer as a whole: a print leaves it ready for the next, files of  *)
(* earlier prints are kept, cards have numbers of their own, and an image  *)
(* names the card whose data it shows.                                     *)
PrnIsRight ==
  /\ PrnTypeOK
  /\ PrnGetsReady
  /\ PrnFilesAreKept
  /\ PrnCardsDiffer
  /\ PrnImageIsOfCard

=============================================================================
