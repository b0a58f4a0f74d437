-------------------------------- MODULE SgReader --------------------------------
(***************************************************************************)
(* The NFC readers: sg-reader.c (unit 0) and sg-reader-queue.c (unit 1,    *)
(* the second reader of a Sangokushi Taisen terminal), the request handler *)
(* of both, sg-nfc.c, and the card I/O of aimeio.c behind it.              *)
(*                                                                         *)
(* Each unit has a lock, so that a unit has one request at a time; POLL is *)
(* taken apart into the steps that touch what aimeio.c keeps once for all  *)
(* units: the presence flags, the ids and the radio switch.  The other     *)
(* requests are one step.  A card is a text file that the player puts down *)
(* and takes away, seen while the scan key is held.                        *)
(* Of the replies in the readable buffer the model keeps the last one.     *)
(***************************************************************************)
EXTENDS Naturals

CONSTANTS
  Unit,       (* the readers                                               *)
  MainUnit,   (* unit 0, the only one that can switch the radio            *)
  Overlap,    (* TRUE if the game uses each reader from a thread of its own *)
  Card,       (* AiMe ids                                                  *)
  BadCard,    (* AiMe ids that are not binary-coded decimal                *)
  Felica,     (* FeliCa ids                                                *)
  Partial,    (* an id of which only a beginning is there, the rest zeros  *)
  MaxMoves,   (* bound: how often the player does something                *)
  NoFile, Unreadable, NULL

Kind == {"aime", "felica"}

Place == {"idle", "reset", "sense", "open", "fill", "generate", "save", "ask", "copy"}

Id == [k \in Kind |-> IF k = "aime" THEN Card \cup BadCard ELSE Felica]

AnyId == Card \cup BadCard \cup Felica \cup {Partial}

ASSUME SgReaderAssumption ==
  /\ MainUnit \in Unit
  /\ Overlap \in BOOLEAN
  /\ MaxMoves \in Nat
  /\ Card # {} /\ Felica # {}
  /\ NULL \notin AnyId
  /\ {NoFile, Unreadable} \cap (AnyId \cup {NULL}) = {}
  /\ NoFile # Unreadable
  /\ Partial \notin Card \cup BadCard \cup Felica
  /\ Card \cap BadCard = {} /\ (Card \cup BadCard) \cap Felica = {}

VARIABLES
  fd,         (* sg_reader_uart.fd is set                                  *)
  started,    (* sg_reader_started                                         *)
  start_ok,   (* sg_reader_start_hr                                        *)
  pc,         (* where the unit's request is                               *)
  kind,       (* the kind of card POLL is trying                           *)
  text,       (* what the file held when POLL opened it                    *)
  mifare,     (* nfc->mifare: the id in the card emulator                  *)
  felica,     (* nfc->felica.IDm                                           *)
  answer,     (* the last reply of a unit (the card of POLL is in reported) *)
  present,    (* aime_io_aime_id_present, aime_io_felica_id_present        *)
  id,         (* aime_io_aime_id, aime_io_felica_id                        *)
  radio_on,   (* aime_io_radio_on                                          *)
  gen,        (* aime_io_cfg.aime_gen, aime_io_cfg.felica_gen              *)
  scan,       (* the player holds the scan key                             *)
  file,       (* aime.txt, felica.txt                                      *)
  moves,      (* what the player has done so far: only for the bound       *)
  reported,   (* history: the card in the last reply to POLL               *)
  watch       (* history: what was to be seen since POLL began             *)

port == <<fd, started, start_ok>>
handler == <<pc, kind, text>>
emulator == <<mifare, felica>>
aimeio == <<present, id, radio_on, gen>>
player == <<scan, file, moves>>
vars == <<port, handler, emulator, answer, aimeio, player, reported, watch>>

(* The ids in the files at some time, whether the key was held and the     *)
(* radio on at some time, and whether a valid AiMe card was there and both *)
(* were so at all times.                                                   *)
Unseen == [ids |-> {}, held |-> FALSE, steady |-> TRUE]

Look(w, r, s, f) ==
  [ids |-> w.ids \cup ({f[k] : k \in Kind} \cap AnyId),
   held |-> w.held \/ (r /\ s),
   steady |-> w.steady /\ r /\ s /\ f["aime"] \in Card]

Watch ==
  watch' = [u \in Unit |-> IF pc[u] = "idle" THEN watch[u]
                           ELSE Look(watch[u], radio_on', scan', file')]

Answer(u, cmd, ok, card) == [unit |-> u, cmd |-> cmd, ok |-> ok, card |-> card]

Init ==
  /\ fd = [u \in Unit |-> FALSE]
  /\ started = [u \in Unit |-> FALSE]
  /\ start_ok = [u \in Unit |-> FALSE]
  /\ pc = [u \in Unit |-> "idle"]
  /\ kind = [u \in Unit |-> "aime"]
  /\ text = [u \in Unit |-> NULL]
  /\ mifare = [u \in Unit |-> Partial]
  /\ felica = [u \in Unit |-> Partial]
  /\ answer = Answer(MainUnit, "other", TRUE, NULL)
  /\ present = [k \in Kind |-> FALSE]
  /\ id = [k \in Kind |-> Partial]
  /\ radio_on = TRUE
  /\ gen \in [Kind -> BOOLEAN]
  /\ scan \in BOOLEAN
  /\ file = [k \in Kind |-> NoFile]
  /\ moves = 0
  /\ reported = [u \in Unit |-> NULL]
  /\ watch = [u \in Unit |-> Unseen]

-----------------------------------------------------------------------------
(* sg_reader_handle_irp.  A game with one thread has one request at a time *)
(* at all units together.                                                  *)

MayEnter(u) == pc[u] = "idle" /\ (Overlap \/ \A v \in Unit : pc[v] = "idle")

(* Broken: only the first OPEN looks at how the backend started.           *)
OpenForgets(u) ==
  /\ MayEnter(u)
  /\ ~fd[u]
  /\ \E ok \in BOOLEAN :
       /\ IF started[u] THEN UNCHANGED <<started, start_ok>> /\ ok
          ELSE /\ started' = [started EXCEPT ![u] = TRUE]
               /\ start_ok' = [start_ok EXCEPT ![u] = ok]
       /\ fd' = [fd EXCEPT ![u] = ok]
  /\ UNCHANGED <<handler, emulator, answer, aimeio, player, reported, watch>>

(* The first OPEN starts the backend, and its result is kept.              *)
Open(u) ==
  /\ MayEnter(u)
  /\ ~fd[u]
  /\ IF started[u] THEN UNCHANGED <<started, start_ok>>
     ELSE /\ started' = [started EXCEPT ![u] = TRUE]
          /\ \E ok \in BOOLEAN : start_ok' = [start_ok EXCEPT ![u] = ok]
  /\ fd' = [fd EXCEPT ![u] = start_ok'[u]]
  /\ UNCHANGED <<handler, emulator, answer, aimeio, player, reported, watch>>

Close(u) ==
  /\ MayEnter(u)
  /\ fd[u]
  /\ fd' = [fd EXCEPT ![u] = FALSE]
  /\ UNCHANGED <<started, start_ok, handler, emulator, answer, aimeio, player, reported, watch>>

(* Requests that ask for nothing the model keeps: reset, versions, tag     *)
(* selection, keys, update mode, hex data, the LED's reset and info; or    *)
(* are refused: an unknown command, a wrong size, a block out of range.    *)
(* A frame for neither address, one that does not decode, and SET_COLOR    *)
(* have no reply and change nothing.                                       *)
Acknowledge(u, ok) ==
  /\ MayEnter(u) /\ fd[u]
  /\ answer' = Answer(u, "other", ok, NULL)
  /\ UNCHANGED <<port, handler, emulator, aimeio, player, reported, watch>>

(* The queue reader has no radio functions: it agrees and does nothing.    *)
sg_nfc_cmd_radio(u, on) ==
  /\ MayEnter(u) /\ fd[u]
  /\ radio_on' = IF u = MainUnit THEN on ELSE radio_on
  /\ answer' = Answer(u, "other", TRUE, NULL)
  /\ UNCHANGED <<port, handler, emulator, present, id, gen, player, reported>>
  /\ Watch

(* Broken: reads the block from the card that is on the reader now.        *)
ReadBlockOfNow(u) ==
  /\ MayEnter(u) /\ fd[u]
  /\ answer' = Answer(u, "READ", TRUE, id["aime"])
  /\ UNCHANGED <<port, handler, emulator, aimeio, player, reported, watch>>

sg_nfc_cmd_mifare_read_block(u) ==
  /\ MayEnter(u) /\ fd[u]
  /\ answer' = Answer(u, "READ", TRUE, mifare[u])
  /\ UNCHANGED <<port, handler, emulator, aimeio, player, reported, watch>>

(* Any command but the FeliCa poll names the card it is meant for.         *)
sg_nfc_cmd_felica_encap(u, IDm) ==
  /\ MayEnter(u) /\ fd[u]
  /\ answer' = IF IDm \in {NULL, felica[u]} THEN Answer(u, "ENCAP", TRUE, felica[u])
               ELSE Answer(u, "ENCAP", FALSE, IDm)
  /\ UNCHANGED <<port, handler, emulator, aimeio, player, reported, watch>>

-----------------------------------------------------------------------------
(* POLL: aime_io_nfc_poll, step by step.                                   *)

PollBegins(u) ==
  /\ MayEnter(u) /\ fd[u]
  /\ pc' = [pc EXCEPT ![u] = "reset"]
  /\ watch' = [watch EXCEPT ![u] = Look(Unseen, radio_on, scan, file)]
  /\ UNCHANGED <<port, kind, text, emulator, answer, aimeio, player, reported>>

Step(u, from, to) == pc[u] = from /\ pc' = [pc EXCEPT ![u] = to]

(* Broken: the flags of the last poll stay.                                *)
PollResetsNothing(u) ==
  /\ Step(u, "reset", "sense")
  /\ UNCHANGED <<port, kind, text, emulator, answer, aimeio, player, reported, watch>>

PollResets(u) ==
  /\ Step(u, "reset", "sense")
  /\ present' = [k \in Kind |-> FALSE]
  /\ UNCHANGED <<port, kind, text, emulator, answer, id, radio_on, gen, player, reported, watch>>

PollSenses(u) ==
  /\ \/ radio_on /\ scan /\ Step(u, "sense", "open") /\ kind' = [kind EXCEPT ![u] = "aime"]
     \/ ~(radio_on /\ scan) /\ Step(u, "sense", "ask") /\ kind' = [kind EXCEPT ![u] = "felica"]
  /\ UNCHANGED <<port, text, emulator, answer, aimeio, player, reported, watch>>

(* No card of this kind: make one, or try the next kind, or give up.       *)
NoCard(u, from) ==
  \/ /\ gen[kind[u]]
     /\ Step(u, from, "generate")
     /\ UNCHANGED kind
  \/ /\ ~gen[kind[u]] /\ kind[u] = "aime"
     /\ Step(u, from, "open")
     /\ kind' = [kind EXCEPT ![u] = "felica"]
  \/ /\ ~gen[kind[u]] /\ kind[u] = "felica"
     /\ Step(u, from, "ask")
     /\ UNCHANGED kind

(* aime_io_read_id_file: no file; or the id is zeroed ...                  *)
OpenFile(u) ==
  /\ \/ /\ file[kind[u]] = NoFile
        /\ NoCard(u, "open")
        /\ UNCHANGED <<text, id>>
     \/ /\ file[kind[u]] # NoFile
        /\ Step(u, "open", "fill")
        /\ text' = [text EXCEPT ![u] = file[kind[u]]]
        /\ id' = [id EXCEPT ![kind[u]] = Partial]
        /\ UNCHANGED kind
  /\ UNCHANGED <<port, emulator, answer, present, radio_on, gen, player, reported, watch>>

(* Broken: nobody is told of the card.                                     *)
FillIdQuietly(u) ==
  /\ \/ /\ text[u] = Unreadable
        /\ NoCard(u, "fill")
        /\ UNCHANGED id
     \/ /\ text[u] # Unreadable
        /\ Step(u, "fill", "ask")
        /\ kind' = [kind EXCEPT ![u] = "felica"]
        /\ id' = [id EXCEPT ![kind[u]] = text[u]]
  /\ text' = [text EXCEPT ![u] = NULL]
  /\ UNCHANGED <<port, emulator, answer, present, radio_on, gen, player, reported, watch>>

(* ... and filled from the file, as far as it can be read.                 *)
FillId(u) ==
  /\ \/ /\ text[u] = Unreadable
        /\ NoCard(u, "fill")
        /\ UNCHANGED <<id, present>>
     \/ /\ text[u] # Unreadable
        /\ Step(u, "fill", "ask")
        /\ kind' = [kind EXCEPT ![u] = "felica"]
        /\ id' = [id EXCEPT ![kind[u]] = text[u]]
        /\ present' = [present EXCEPT ![kind[u]] = TRUE]
  /\ text' = [text EXCEPT ![u] = NULL]
  /\ UNCHANGED <<port, emulator, answer, radio_on, gen, player, reported, watch>>

(* aime_io_generate_aime, aime_io_generate_felica: the file is emptied ... *)
Generate(u) ==
  /\ Step(u, "generate", "save")
  /\ \E c \in Id[kind[u]] \ BadCard : id' = [id EXCEPT ![kind[u]] = c]
  /\ file' = [file EXCEPT ![kind[u]] = Unreadable]
  /\ UNCHANGED <<port, kind, text, emulator, answer, present, radio_on, gen, scan, moves, reported>>
  /\ Watch

(* ... or cannot be, and the poll fails ...                                *)
GenerateFails(u) ==
  /\ Step(u, "generate", "idle")
  /\ \E c \in Id[kind[u]] \ BadCard : id' = [id EXCEPT ![kind[u]] = c]
  /\ kind' = [kind EXCEPT ![u] = "aime"]
  /\ answer' = Answer(u, "other", FALSE, NULL)
  /\ watch' = [watch EXCEPT ![u] = Unseen]
  /\ UNCHANGED <<port, text, emulator, present, radio_on, gen, player, reported>>

(* ... and the id is written to it from where it is kept.                  *)
SaveId(u) ==
  /\ Step(u, "save", "ask")
  /\ file' = [file EXCEPT ![kind[u]] = id[kind[u]]]
  /\ present' = [present EXCEPT ![kind[u]] = TRUE]
  /\ kind' = [kind EXCEPT ![u] = "felica"]
  /\ UNCHANGED <<port, text, emulator, answer, id, radio_on, gen, scan, moves, reported>>
  /\ Watch

-----------------------------------------------------------------------------
(* sg_nfc_cmd_poll: which card is there?  FeliCa is asked for first.       *)

PollEnds(u, card) ==
  /\ kind' = [kind EXCEPT ![u] = "aime"]
  /\ answer' = Answer(u, "other", TRUE, NULL)
  /\ reported' = [reported EXCEPT ![u] = card]
  /\ watch' = [watch EXCEPT ![u] = Unseen]

Ask(u) ==
  /\ \/ /\ present[kind[u]]
        /\ Step(u, "ask", "copy")
        /\ UNCHANGED <<kind, answer, reported, watch>>
     \/ /\ ~present[kind[u]] /\ kind[u] = "felica"
        /\ pc[u] = "ask"
        /\ kind' = [kind EXCEPT ![u] = "aime"]
        /\ UNCHANGED <<pc, answer, reported, watch>>
     \/ /\ ~present[kind[u]] /\ kind[u] = "aime"
        /\ Step(u, "ask", "idle")
        /\ PollEnds(u, NULL)
  /\ UNCHANGED <<port, text, emulator, aimeio, player>>

CopyFelica(u) ==
  /\ kind[u] = "felica"
  /\ Step(u, "copy", "idle")
  /\ felica' = [felica EXCEPT ![u] = id["felica"]]
  /\ PollEnds(u, id["felica"])
  /\ UNCHANGED <<port, text, mifare, aimeio, player>>

(* Broken: takes any id.                                                   *)
CopyAimeUnchecked(u) ==
  /\ kind[u] = "aime"
  /\ Step(u, "copy", "idle")
  /\ mifare' = [mifare EXCEPT ![u] = id["aime"]]
  /\ PollEnds(u, id["aime"])
  /\ UNCHANGED <<port, text, felica, aimeio, player>>

(* aime_card_populate refuses what is not binary-coded decimal, when it    *)
(* has the digits before it in the emulator already.                       *)
CopyAime(u) ==
  /\ kind[u] = "aime"
  /\ Step(u, "copy", "idle")
  /\ \/ /\ id["aime"] \notin BadCard
        /\ mifare' = [mifare EXCEPT ![u] = id["aime"]]
        /\ PollEnds(u, id["aime"])
     \/ /\ id["aime"] \in BadCard
        /\ mifare' = [mifare EXCEPT ![u] = Partial]
        /\ PollEnds(u, NULL)
  /\ UNCHANGED <<port, text, felica, aimeio, player>>

-----------------------------------------------------------------------------
(* The player.                                                             *)

PressOrRelease ==
  /\ moves < MaxMoves /\ moves' = moves + 1
  /\ scan' = ~scan
  /\ UNCHANGED <<port, handler, emulator, answer, aimeio, file, reported>>
  /\ Watch

PutDown(k, f) ==
  /\ moves < MaxMoves /\ moves' = moves + 1
  /\ f # file[k]
  /\ file' = [file EXCEPT ![k] = f]
  /\ UNCHANGED <<port, handler, emulator, answer, aimeio, scan, reported>>
  /\ Watch

-----------------------------------------------------------------------------
Request(u) ==
  \/ Open(u)
  \/ Close(u)
  \/ \E ok \in BOOLEAN : Acknowledge(u, ok)
  \/ \E on \in BOOLEAN : sg_nfc_cmd_radio(u, on)
  \/ sg_nfc_cmd_mifare_read_block(u)
  \/ \E IDm \in Felica \cup {NULL} : sg_nfc_cmd_felica_encap(u, IDm)
  \/ PollBegins(u)

Poll(u) ==
  \/ PollResets(u)
  \/ PollSenses(u)
  \/ OpenFile(u)
  \/ FillId(u)
  \/ Generate(u)
  \/ GenerateFails(u)
  \/ SaveId(u)
  \/ Ask(u)
  \/ CopyFelica(u)
  \/ CopyAime(u)

Player ==
  \/ PressOrRelease
  \/ \E k \in Kind : \E f \in Id[k] \cup {NoFile, Unreadable} : PutDown(k, f)

Next == Player \/ \E u \in Unit : Request(u) \/ Poll(u)

Spec == Init /\ [][Next]_vars

-----------------------------------------------------------------------------
(* Properties.                                                             *)

TypeOK ==
  /\ fd \in [Unit -> BOOLEAN]
  /\ started \in [Unit -> BOOLEAN]
  /\ start_ok \in [Unit -> BOOLEAN]
  /\ pc \in [Unit -> Place]
  /\ kind \in [Unit -> Kind]
  /\ text \in [Unit -> AnyId \cup {NULL, Unreadable}]
  /\ mifare \in [Unit -> Card \cup {Partial}]
  /\ felica \in [Unit -> Felica \cup {Partial}]
  /\ answer \in [unit : Unit, cmd : {"other", "READ", "ENCAP"}, ok : BOOLEAN,
                 card : AnyId \cup {NULL}]
  /\ present \in [Kind -> BOOLEAN]
  /\ DOMAIN id = Kind
  /\ \A k \in Kind : id[k] \in Id[k] \cup {Partial}
  /\ radio_on \in BOOLEAN
  /\ gen \in [Kind -> BOOLEAN]
  /\ scan \in BOOLEAN
  /\ DOMAIN file = Kind
  /\ \A k \in Kind : file[k] \in Id[k] \cup {Partial, NoFile, Unreadable}
  /\ moves \in 0..MaxMoves
  /\ reported \in [Unit -> AnyId \cup {NULL}]
  /\ watch \in [Unit -> [ids : SUBSET AnyId, held : BOOLEAN, steady : BOOLEAN]]

(* A port is open only if its backend started, however often the game      *)
(* opens and closes it.                                                    *)
PortNeedsBackend == \A u \in Unit : fd[u] => start_ok[u]

(* The card the game was told about is the one whose blocks it then reads, *)
(* and a FeliCa card it names is not denied: whatever the player does with *)
(* the cards meanwhile, and whatever the other unit polls.                 *)
CardStaysItself ==
  LET card == reported[answer.unit] IN
    /\ answer.cmd = "READ" /\ card \in Card => answer.card = card
    /\ answer.cmd = "ENCAP" /\ card \in Felica => (answer.ok <=> answer.card = card)

(* POLL answers "card present" only for a card that was to be seen at some *)
(* time since it began: not an old one, and not half of one; and only if   *)
(* the radio was on and the scan key was held.                             *)
PollReported(u) == pc[u] = "copy" /\ pc'[u] = "idle" /\ reported'[u] # NULL

NoGhostCard == [][\A u \in Unit : PollReported(u)
                               => watch[u].held /\ reported'[u] \in watch[u].ids]_vars

(* A valid AiMe card that is to be seen for the whole of a POLL is         *)
(* reported.                                                               *)
CardIsNoticed ==
  [][\A u \in Unit : watch[u].steady /\ pc[u] # "idle" /\ pc'[u] = "idle" => PollReported(u)]_vars

(* What doc/config/common.md says of aimeGen and felicaGen: an id is made  *)
(* up only if the file does not exist.                                     *)
GeneratedOnlyIfMissing ==
  [][\A u \in Unit : pc[u] # "generate" /\ pc'[u] = "generate" => file[kind'[u]] = NoFile]_vars

(* No id that is not decimal gets into the emulator, a port is open only   *)
(* over a backend that started, and what is read of a card is the card     *)
(* that was reported.                                                      *)
CardsAreSafe ==
  /\ TypeOK
  /\ PortNeedsBackend
  /\ CardStaysItself

(* A POLL reports the card that is there: none that was not to be seen     *)
(* during it, and none left out that was to be seen throughout.            *)
PollIsTruthful ==
  /\ NoGhostCard
  /\ CardIsNoticed

=============================================================================
