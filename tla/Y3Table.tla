--------------------------------- MODULE Y3Table ---------------------------------
(***************************************************************************)
(* The Y3 card table: the API of its reader (hooklib/y3.c) and the DLL     *)
(* behind it that is told by websocket clients which cards lie on the      *)
(* table (y3ws.c).                                                         *)
(*                                                                         *)
(* The websocket server, a library, handles one message at a time in a     *)
(* thread of its own.  The game asks for the cards at any time.  The size  *)
(* of the field is set to 0 before the lock is taken, so the game may see  *)
(* it fall to 0 while it copies.                                           *)
(***************************************************************************)
EXTENDS Integers, Sequences, SequencesExt

CONSTANTS
  Y3Cards,        (* valid cards                                           *)
  Y3MaxCards,     (* GAME_MAX_CARDS (32)                                   *)
  Y3Fields,       (* the sequences of cards a client may send; 0 an object *)
                  (* without the right members                             *)
  Y3Messages      (* bound: messages sent                                  *)

ASSUME Y3Assumption ==
  Y3MaxCards \in Nat \ {0} /\ Y3Messages \in Nat /\ Y3Fields \subseteq Seq(Y3Cards \cup {0})

Y3Invalid == 0
Y3Empty == [i \in 1..Y3MaxCards |-> Y3Invalid]

(* is_initialized, card_info, card_info_size, lock as in y3ws.c; open: the *)
(* handle of the field port is open; ws, todo: what the server is doing    *)
(* and the cards it has still to put down; at, i, out, num: the game's     *)
(* call, the cards it has copied and the number it was told; field: what   *)
(* the last message should lay; during: what lay there in the call.        *)
VARIABLE y3

Y3Init ==
  y3 = [is_initialized |-> FALSE, card_info |-> Y3Empty, card_info_size |-> 0,
        lock |-> "free", open |-> FALSE, ws |-> "stopped", todo |-> <<>>,
        at |-> "idle", i |-> 0, out |-> <<>>, num |-> 0,
        field |-> <<>>, during |-> {<<>>}, messages |-> 0]

-----------------------------------------------------------------------------
(* API_Connect of the field port calls y3_io_init; wws_start may fail.     *)
API_Connect ==
  /\ y3.at = "idle" /\ ~y3.open
  /\ \/ /\ ~y3.is_initialized
        /\ y3' = [y3 EXCEPT !.card_info = Y3Empty, !.is_initialized = TRUE,
                            !.open = TRUE, !.ws = "idle"]
     \/ /\ ~y3.is_initialized
        /\ y3' = [y3 EXCEPT !.card_info = Y3Empty]
     \/ y3.is_initialized /\ y3' = [y3 EXCEPT !.open = TRUE]

(* API_Close calls y3_io_close.  wws_stop returns when the server has      *)
(* finished the message it is handling.                                    *)
API_Close ==
  /\ y3.at = "idle" /\ y3.open /\ y3.ws = "idle"
  /\ y3' = [y3 EXCEPT !.is_initialized = FALSE, !.open = FALSE, !.ws = "stopped"]

-----------------------------------------------------------------------------
(* y3ws_set_cards_from_json: the size is reset; then, under the lock, the  *)
(* cards are cleared and put down one by one.  An object that is no card   *)
(* takes a place all the same, and what is too much is left out.           *)
Y3SetField(field) ==
  /\ y3.ws = "idle" /\ y3.messages < Y3Messages
  /\ y3' = [y3 EXCEPT !.ws = "lock", !.todo = field, !.card_info_size = 0,
                      !.messages = @ + 1, !.during = @ \cup {<<>>},
                      !.field = IF Len(field) > Y3MaxCards THEN SubSeq(field, 1, Y3MaxCards)
                                ELSE field]

Y3Lock ==
  /\ y3.ws = "lock" /\ y3.lock = "free"
  /\ y3' = [y3 EXCEPT !.ws = "fill", !.lock = "server", !.card_info = Y3Empty]

(* Broken: a field that is too long runs out of the array.                 *)
Y3PutCardPast ==
  /\ y3.ws = "fill" /\ y3.todo # <<>>
  /\ y3' = [y3 EXCEPT !.card_info = [j \in DOMAIN @ \cup {y3.card_info_size + 1} |->
                                       IF j = y3.card_info_size + 1 THEN Head(y3.todo) ELSE @[j]],
                      !.card_info_size = @ + 1, !.todo = Tail(@)]

(* Broken: the last place is left empty.                                   *)
Y3PutCardShort ==
  /\ y3.ws = "fill" /\ y3.todo # <<>> /\ y3.card_info_size < Y3MaxCards
  /\ y3' = [y3 EXCEPT !.card_info[y3.card_info_size + 1] =
                         IF y3.card_info_size + 1 < Y3MaxCards THEN Head(y3.todo) ELSE @,
                      !.card_info_size = @ + 1, !.todo = Tail(@)]

Y3PutCard ==
  /\ y3.ws = "fill" /\ y3.todo # <<>> /\ y3.card_info_size < Y3MaxCards
  /\ y3' = [y3 EXCEPT !.card_info[y3.card_info_size + 1] = Head(y3.todo),
                      !.card_info_size = @ + 1, !.todo = Tail(@)]

Y3Now == SubSeq(y3.card_info, 1, y3.card_info_size)

Y3Unlock ==
  /\ y3.ws = "fill" /\ (y3.todo = <<>> \/ y3.card_info_size >= Y3MaxCards)
  /\ y3' = [y3 EXCEPT !.ws = "idle", !.lock = "free", !.todo = <<>>,
                      !.during = @ \cup {Y3Now}]

-----------------------------------------------------------------------------
(* Broken: the lock is not taken.                                          *)
Y3GetUnlocked ==
  /\ y3.at = "idle" /\ y3.open
  /\ y3' = [y3 EXCEPT !.at = "copy", !.lock = IF @ = "free" THEN "game" ELSE @,
                      !.i = 0, !.out = <<>>, !.during = {Y3Now}]

(* API_GetCardInfo of the field port, with room for Y3MaxCards cards:      *)
(* y3_io_get_cards takes the lock and copies; it looks at the size before  *)
(* each card and once more at the end.                                     *)
API_GetCardInfo ==
  /\ y3.at = "idle" /\ y3.open /\ y3.lock = "free"
  /\ y3' = [y3 EXCEPT !.at = "copy", !.lock = "game", !.i = 0, !.out = <<>>,
                      !.during = {Y3Now}]

Y3CopyCard ==
  /\ y3.at = "copy" /\ y3.i < y3.card_info_size
  /\ y3' = [y3 EXCEPT !.out = Append(@, y3.card_info[y3.i + 1]), !.i = @ + 1]

Y3CopyEnds ==
  /\ y3.at = "copy" /\ y3.i >= y3.card_info_size
  /\ y3' = [y3 EXCEPT !.at = "size"]

y3_io_get_cards ==
  /\ y3.at = "size"
  /\ y3' = [y3 EXCEPT !.at = "told", !.num = y3.card_info_size,
                      !.lock = IF @ = "game" THEN "free" ELSE @]

(* The game goes on with the cards it was told of.                         *)
Y3Use ==
  /\ y3.at = "told"
  /\ y3' = [y3 EXCEPT !.at = "idle", !.i = 0, !.out = <<>>, !.num = 0, !.during = {}]

Y3Next ==
  \/ API_Connect \/ API_Close
  \/ (\E field \in Y3Fields : Y3SetField(field))
  \/ Y3Lock \/ Y3PutCard \/ Y3Unlock
  \/ API_GetCardInfo \/ Y3CopyCard \/ Y3CopyEnds \/ y3_io_get_cards \/ Y3Use

Y3Spec == Y3Init /\ [][Y3Next]_y3

-----------------------------------------------------------------------------
(* Properties.                                                             *)

Y3TypeOK ==
  /\ y3.card_info \in [1..Y3MaxCards -> Y3Cards \cup {Y3Invalid}]
  /\ y3.card_info_size \in 0..Y3MaxCards
  /\ y3.lock \in {"free", "server", "game"}

(* The cards the game is told of are those of one field that lay on the    *)
(* table during its call, or of none: never some of one and some of the    *)
(* next, nor a field that is being laid.                                   *)
Y3TellsOneField ==
  y3.at = "told" => /\ y3.num <= Len(y3.out)
                    /\ SubSeq(y3.out, 1, y3.num) \in y3.during

(* When a client has been answered, the field it has sent is what lies on  *)
(* the table, in the order of its message and cut to the size of the       *)
(* table, until the next message.                                          *)
Y3FieldIsLaid ==
  y3.ws = "idle" => \/ Y3Now = y3.field
                    \/ y3.card_info = Y3Empty

(* The table as a whole: the game is told the cards of one field, or none, *)
(* and the field that was received last is the one that lies there.        *)
Y3IsRight ==
  /\ Y3TypeOK
  /\ Y3TellsOneField
  /\ Y3FieldIsLaid

=============================================================================
