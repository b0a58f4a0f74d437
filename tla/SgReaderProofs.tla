---------------------------- MODULE SgReaderProofs ----------------------------
(***************************************************************************)
(* What holds of SgReader for any units, any cards and any player; and     *)
(* what holds in addition if one thread uses all the readers.              *)
(***************************************************************************)
EXTENDS SgReader, TLAPS

Looking == {"open", "fill", "generate", "save"}

(* The file that POLL has opened is of the kind it is trying.              *)
TextInv == \A u \in Unit : pc[u] = "fill" => text[u] \in Id[kind[u]] \cup {Partial, Unreadable}

(* What was reported last is what the emulator holds.                      *)
EmulatorInv == \A u \in Unit : /\ reported[u] \in Card => mifare[u] = reported[u]
                               /\ reported[u] \in Felica => felica[u] = reported[u]

(* History has seen what is to be seen now.                                *)
SeesInv ==
  \A u \in Unit : pc[u] # "idle" =>
    /\ \A k \in Kind : file[k] \in AnyId => file[k] \in watch[u].ids
    /\ radio_on /\ scan => watch[u].held
    /\ watch[u].steady => radio_on /\ scan /\ file["aime"] \in Card

IInv == TypeOK /\ TextInv /\ PortNeedsBackend /\ EmulatorInv /\ CardStaysItself /\ SeesInv

(* With one thread a unit that polls polls alone.                          *)
AloneInv == \A u, v \in Unit : pc[u] # "idle" /\ pc[v] # "idle" => u = v

(* What a unit knows about the card at each step of its poll.              *)
Found(u) ==
  /\ pc[u] \in Looking \cup {"sense"} => \A k \in Kind : ~present[k]
  /\ pc[u] \in Looking => watch[u].held
  /\ pc[u] = "open" /\ watch[u].steady => kind[u] = "aime"
  /\ pc[u] = "fill" /\ text[u] # Unreadable => text[u] \in watch[u].ids
  /\ pc[u] = "fill" /\ watch[u].steady => kind[u] = "aime" /\ text[u] \in Card
  /\ pc[u] \in {"generate", "save"} => ~watch[u].steady
  /\ pc[u] \in {"ask", "copy"} =>
       \A k \in Kind : present[k] => watch[u].held /\ id[k] \in watch[u].ids
  /\ pc[u] \in {"ask", "copy"} /\ watch[u].steady => present["aime"] /\ id["aime"] \in Card
  /\ pc[u] = "copy" => present[kind[u]]

FoundInv == \A u \in Unit : Found(u)

JInv == IInv /\ AloneInv /\ FoundInv

-----------------------------------------------------------------------------
LEMMA InitInv == Init => JInv
<1> SUFFICES ASSUME Init PROVE JInv
  OBVIOUS
<1> USE SgReaderAssumption
<1>1. TypeOK
  BY DEF Init, TypeOK, Kind, Id, AnyId, Answer, Unseen, Place
<1>2. TextInv /\ PortNeedsBackend /\ EmulatorInv /\ CardStaysItself /\ SeesInv
  BY DEF Init, TextInv, PortNeedsBackend, EmulatorInv, CardStaysItself, SeesInv, Answer, AnyId
<1>3. AloneInv /\ FoundInv
  BY DEF Init, AloneInv, FoundInv, Found, Looking
<1>4. QED
  BY <1>1, <1>2, <1>3 DEF IInv, JInv

(* History keeps up with the player, the radio and the files.              *)
LEMMA WatchKeepsType ==
  ASSUME TypeOK, Watch, radio_on' \in BOOLEAN, scan' \in BOOLEAN
  PROVE  watch' \in [Unit -> [ids : SUBSET AnyId, held : BOOLEAN, steady : BOOLEAN]]
  BY DEF TypeOK, Watch, Look

LEMMA WatchSees ==
  ASSUME IInv, Watch, \A u \in Unit : pc'[u] # "idle" => pc[u] # "idle"
  PROVE  SeesInv'
  BY DEF IInv, TypeOK, SeesInv, Watch, Look, Kind

-----------------------------------------------------------------------------
(* Requests of one step.                                                   *)
LEMMA OpenStep == ASSUME IInv, NEW u \in Unit, Open(u) PROVE IInv'
<1> USE DEF IInv, Open, handler, emulator, aimeio, player
<1>1. TypeOK'
  <2>1. started' \in [Unit -> BOOLEAN] /\ start_ok' \in [Unit -> BOOLEAN]
    BY DEF TypeOK
  <2>2. fd' \in [Unit -> BOOLEAN]
    BY <2>1 DEF TypeOK
  <2>3. QED
    BY <2>1, <2>2 DEF TypeOK
<1>2. PortNeedsBackend'
  BY DEF TypeOK, PortNeedsBackend
<1>3. TextInv' /\ EmulatorInv' /\ CardStaysItself' /\ SeesInv'
  BY DEF TextInv, EmulatorInv, CardStaysItself, SeesInv
<1>4. QED
  BY <1>1, <1>2, <1>3

LEMMA CloseStep == ASSUME IInv, NEW u \in Unit, Close(u) PROVE IInv'
<1> USE DEF IInv, Close, handler, emulator, aimeio, player
<1>1. TypeOK'
  BY DEF TypeOK
<1>2. PortNeedsBackend'
  BY DEF TypeOK, PortNeedsBackend
<1>3. TextInv' /\ EmulatorInv' /\ CardStaysItself' /\ SeesInv'
  BY DEF TextInv, EmulatorInv, CardStaysItself, SeesInv
<1>4. QED
  BY <1>1, <1>2, <1>3

LEMMA AcknowledgeStep ==
  ASSUME IInv, NEW u \in Unit, NEW ok \in BOOLEAN, Acknowledge(u, ok) PROVE IInv'
<1> USE DEF IInv, Acknowledge, Answer, port, handler, emulator, aimeio, player
<1>1. TypeOK'
  BY DEF TypeOK
<1>2. CardStaysItself'
  BY DEF CardStaysItself
<1>3. TextInv' /\ EmulatorInv' /\ PortNeedsBackend' /\ SeesInv'
  BY DEF TextInv, EmulatorInv, PortNeedsBackend, SeesInv
<1>4. QED
  BY <1>1, <1>2, <1>3

LEMMA RadioStep ==
  ASSUME IInv, NEW u \in Unit, NEW on \in BOOLEAN, sg_nfc_cmd_radio(u, on) PROVE IInv'
<1> USE DEF IInv, sg_nfc_cmd_radio, Answer, port, handler, emulator, player
<1>1. radio_on' \in BOOLEAN /\ scan' \in BOOLEAN
  BY DEF TypeOK
<1>2. TypeOK'
  BY <1>1, WatchKeepsType DEF TypeOK
<1>3. SeesInv'
  BY WatchSees
<1>4. CardStaysItself'
  BY DEF CardStaysItself
<1>5. TextInv' /\ EmulatorInv' /\ PortNeedsBackend'
  BY DEF TextInv, EmulatorInv, PortNeedsBackend
<1>6. QED
  BY <1>2, <1>3, <1>4, <1>5

(* A block is read from what was reported.                                 *)
LEMMA ReadBlockStep ==
  ASSUME IInv, NEW u \in Unit, sg_nfc_cmd_mifare_read_block(u) PROVE IInv'
<1> USE DEF IInv, sg_nfc_cmd_mifare_read_block, Answer, port, handler, emulator, aimeio, player
<1>1. TypeOK'
  BY DEF TypeOK, AnyId
<1>2. CardStaysItself'
  BY DEF CardStaysItself, EmulatorInv
<1>3. TextInv' /\ EmulatorInv' /\ PortNeedsBackend' /\ SeesInv'
  BY DEF TextInv, EmulatorInv, PortNeedsBackend, SeesInv
<1>4. QED
  BY <1>1, <1>2, <1>3

LEMMA EncapStep ==
  ASSUME IInv, NEW u \in Unit, NEW IDm \in Felica \cup {NULL}, sg_nfc_cmd_felica_encap(u, IDm)
  PROVE  IInv'
<1> USE SgReaderAssumption
        DEF IInv, sg_nfc_cmd_felica_encap, Answer, port, handler, emulator, aimeio, player
<1>1. TypeOK'
  BY DEF TypeOK, AnyId
<1>2. CardStaysItself'
  BY DEF CardStaysItself, EmulatorInv
<1>3. TextInv' /\ EmulatorInv' /\ PortNeedsBackend' /\ SeesInv'
  BY DEF TextInv, EmulatorInv, PortNeedsBackend, SeesInv
<1>4. QED
  BY <1>1, <1>2, <1>3

-----------------------------------------------------------------------------
(* The steps of POLL.                                                      *)
LEMMA PollBeginsStep == ASSUME IInv, NEW u \in Unit, PollBegins(u) PROVE IInv'
<1> USE DEF IInv, PollBegins, Look, Unseen, port, emulator, aimeio, player
<1>1. TypeOK'
  BY DEF TypeOK, Place
<1>2. SeesInv'
  BY DEF SeesInv, TypeOK, Kind
<1>3. TextInv' /\ EmulatorInv' /\ CardStaysItself' /\ PortNeedsBackend'
  BY DEF TextInv, EmulatorInv, CardStaysItself, PortNeedsBackend, TypeOK
<1>4. QED
  BY <1>1, <1>2, <1>3

(* A step from one busy place to another that leaves the files, the radio  *)
(* and what was reported alone.                                            *)
LEMMA InnerStep ==
  ASSUME IInv, NEW u \in Unit, pc[u] # "idle", TypeOK', TextInv',
         pc' = [pc EXCEPT ![u] = pc'[u]],
         UNCHANGED <<port, emulator, answer, radio_on, scan, file, reported, watch>>
  PROVE  IInv'
<1> USE DEF IInv, port, emulator
<1>1. SeesInv'
  BY DEF SeesInv, TypeOK
<1>2. EmulatorInv' /\ CardStaysItself' /\ PortNeedsBackend'
  BY DEF EmulatorInv, CardStaysItself, PortNeedsBackend
<1>3. QED
  BY <1>1, <1>2

LEMMA InnerType ==
  ASSUME TypeOK, pc' \in [Unit -> Place], kind' \in [Unit -> Kind],
         text' \in [Unit -> AnyId \cup {NULL, Unreadable}], present' \in [Kind -> BOOLEAN],
         DOMAIN id' = Kind, \A k \in Kind : id'[k] \in Id[k] \cup {Partial},
         UNCHANGED <<port, emulator, answer, radio_on, gen, player, reported, watch>>
  PROVE  TypeOK'
  BY DEF TypeOK, port, emulator, player

LEMMA PollResetsStep == ASSUME IInv, NEW u \in Unit, PollResets(u) PROVE IInv'
<1> USE DEF PollResets, Step, player
<1>1. TypeOK' /\ TextInv'
  BY DEF IInv, TypeOK, TextInv, port, emulator, Place
<1>2. QED
  BY <1>1, InnerStep DEF IInv, TypeOK

LEMMA PollSensesStep == ASSUME IInv, NEW u \in Unit, PollSenses(u) PROVE IInv'
<1> USE DEF PollSenses, Step, player, aimeio
<1>1. pc' \in [Unit -> Place] /\ kind' \in [Unit -> Kind]
  BY DEF IInv, TypeOK, Kind, Place
<1>2. TypeOK'
  BY <1>1, InnerType DEF IInv, TypeOK
<1>3. TextInv'
  BY DEF IInv, TypeOK, TextInv
<1>4. QED
  BY <1>2, <1>3, InnerStep DEF IInv, TypeOK

LEMMA NoCardType ==
  ASSUME TypeOK, NEW u \in Unit, NEW from, NoCard(u, from)
  PROVE  /\ pc[u] = from
         /\ pc' = [pc EXCEPT ![u] = pc'[u]]
         /\ pc' \in [Unit -> Place] /\ pc'[u] \in {"generate", "open", "ask"}
         /\ kind' \in [Unit -> Kind]
         /\ \A v \in Unit : v # u => kind'[v] = kind[v]
  BY DEF TypeOK, NoCard, Step, Kind, Place

LEMMA IdKeepsType ==
  ASSUME TypeOK, NEW k \in Kind, NEW c \in Id[k] \cup {Partial},
         id' = [id EXCEPT ![k] = c]
  PROVE  DOMAIN id' = Kind /\ \A j \in Kind : id'[j] \in Id[j] \cup {Partial}
  BY DEF TypeOK

LEMMA OpenFileStep == ASSUME IInv, NEW u \in Unit, OpenFile(u), pc[u] = "open" PROVE IInv'
<1> USE SgReaderAssumption DEF OpenFile, player
<1>1. kind[u] \in Kind /\ Id[kind[u]] \subseteq AnyId
  BY DEF IInv, TypeOK, Kind, Id, AnyId
<1>2. CASE file[kind[u]] = NoFile
  <2>1. NoCard(u, "open") /\ UNCHANGED <<text, id>>
    BY <1>2
  <2>2. TypeOK'
    <3>1. pc' \in [Unit -> Place] /\ kind' \in [Unit -> Kind]
      BY <2>1, NoCardType DEF IInv
    <3>2. QED
      BY <2>1, <3>1, InnerType DEF IInv, TypeOK
  <2>3. TextInv'
    BY <2>1, NoCardType DEF IInv, TypeOK, TextInv
  <2>4. QED
    BY <2>1, <2>2, <2>3, NoCardType, InnerStep DEF IInv, TypeOK
<1>3. CASE file[kind[u]] # NoFile
  <2>1. file[kind[u]] \in Id[kind[u]] \cup {Partial, Unreadable}
    BY <1>1, <1>3 DEF IInv, TypeOK
  <2>2. id' = [id EXCEPT ![kind[u]] = Partial]
    BY <1>3
  <2>3. DOMAIN id' = Kind /\ \A j \in Kind : id'[j] \in Id[j] \cup {Partial}
    BY <1>1, <2>2, IdKeepsType DEF IInv
  <2>4. text' \in [Unit -> AnyId \cup {NULL, Unreadable}]
    BY <1>1, <1>3, <2>1 DEF IInv, TypeOK, AnyId
  <2>5. TypeOK'
    <3>1. pc' \in [Unit -> Place]
      BY <1>3 DEF IInv, TypeOK, Step, Place
    <3>2. QED
      BY <1>3, <2>3, <2>4, <3>1, InnerType DEF IInv, TypeOK
  <2>6. TextInv'
    BY <1>3, <2>1 DEF IInv, TypeOK, TextInv, Step
  <2>7. QED
    BY <1>3, <2>5, <2>6, InnerStep DEF IInv, TypeOK, Step
<1>4. QED
  BY <1>2, <1>3

LEMMA FillIdStep == ASSUME IInv, NEW u \in Unit, FillId(u), pc[u] = "fill" PROVE IInv'
<1> USE SgReaderAssumption DEF FillId, player
<1>1. kind[u] \in Kind /\ Id[kind[u]] \subseteq AnyId
  BY DEF IInv, TypeOK, Kind, Id, AnyId
<1>2. text' \in [Unit -> AnyId \cup {NULL, Unreadable}]
  BY DEF IInv, TypeOK
<1>3. CASE text[u] = Unreadable
  <2>1. NoCard(u, "fill") /\ UNCHANGED <<id, present>>
    BY <1>3
  <2>2. TypeOK'
    <3>1. pc' \in [Unit -> Place] /\ kind' \in [Unit -> Kind]
      BY <2>1, NoCardType DEF IInv
    <3>2. QED
      BY <1>2, <2>1, <3>1, InnerType DEF IInv, TypeOK
  <2>3. TextInv'
    BY <2>1, NoCardType DEF IInv, TypeOK, TextInv
  <2>4. QED
    BY <2>1, <2>2, <2>3, NoCardType, InnerStep DEF IInv, TypeOK
<1>4. CASE text[u] # Unreadable
  <2>1. text[u] \in Id[kind[u]] \cup {Partial}
    BY <1>4 DEF IInv, TextInv
  <2>2. DOMAIN id' = Kind /\ \A j \in Kind : id'[j] \in Id[j] \cup {Partial}
    BY <1>1, <1>4, <2>1, IdKeepsType DEF IInv
  <2>3. present' \in [Kind -> BOOLEAN] /\ kind' \in [Unit -> Kind]
    <3>1. present \in [Kind -> BOOLEAN] /\ kind \in [Unit -> Kind] /\ "felica" \in Kind
      BY DEF IInv, TypeOK, Kind
    <3>2. present' = [present EXCEPT ![kind[u]] = TRUE] /\ kind' = [kind EXCEPT ![u] = "felica"]
      BY <1>4
    <3>3. present' \in [Kind -> BOOLEAN]
      BY <1>1, <3>1, <3>2
    <3>4. kind' \in [Unit -> Kind]
      BY <3>1, <3>2
    <3>5. QED
      BY <3>3, <3>4
  <2>4. TypeOK'
    <3>1. pc' \in [Unit -> Place]
      BY <1>4 DEF IInv, TypeOK, Step, Place
    <3>2. QED
      BY <1>2, <1>4, <2>2, <2>3, <3>1, InnerType DEF IInv
  <2>5. TextInv'
    BY <1>4 DEF IInv, TypeOK, TextInv, Step
  <2>6. QED
    BY <1>4, <2>4, <2>5, InnerStep DEF IInv, TypeOK, Step
<1>5. QED
  BY <1>3, <1>4

(* An id that is made up is a possible one of its kind.                    *)
LEMMA MadeUpIsTyped ==
  ASSUME TypeOK, NEW u \in Unit, NEW c \in Id[kind[u]] \ BadCard,
         id' = [id EXCEPT ![kind[u]] = c]
  PROVE  DOMAIN id' = Kind /\ \A j \in Kind : id'[j] \in Id[j] \cup {Partial}
<1>1. kind[u] \in Kind
  BY DEF TypeOK
<1>2. QED
  BY <1>1, IdKeepsType

LEMMA FileKeepsType ==
  ASSUME TypeOK, NEW k \in Kind, NEW c \in Id[k] \cup {Partial, NoFile, Unreadable},
         file' = [file EXCEPT ![k] = c]
  PROVE  /\ DOMAIN file' = Kind
         /\ \A j \in Kind : file'[j] \in Id[j] \cup {Partial, NoFile, Unreadable}
  BY DEF TypeOK

LEMMA GenerateStep == ASSUME IInv, NEW u \in Unit, Generate(u) PROVE IInv'
<1> USE DEF IInv, Generate, Step, port, emulator
<1>1. DOMAIN id' = Kind /\ \A j \in Kind : id'[j] \in Id[j] \cup {Partial}
  BY MadeUpIsTyped
<1>2. kind[u] \in Kind
  BY DEF TypeOK
<1>3. /\ DOMAIN file' = Kind
      /\ \A j \in Kind : file'[j] \in Id[j] \cup {Partial, NoFile, Unreadable}
  BY <1>2, FileKeepsType
<1>4. watch' \in [Unit -> [ids : SUBSET AnyId, held : BOOLEAN, steady : BOOLEAN]]
  BY WatchKeepsType DEF TypeOK
<1>5. TypeOK'
  BY <1>1, <1>3, <1>4 DEF TypeOK, Place
<1>6. SeesInv'
  BY WatchSees DEF TypeOK
<1>7. TextInv' /\ EmulatorInv' /\ CardStaysItself' /\ PortNeedsBackend'
  BY DEF TypeOK, TextInv, EmulatorInv, CardStaysItself, PortNeedsBackend
<1>8. QED
  BY <1>5, <1>6, <1>7

LEMMA GenerateFailsStep == ASSUME IInv, NEW u \in Unit, GenerateFails(u) PROVE IInv'
<1> USE DEF IInv, GenerateFails, Step, Answer, Unseen, port, emulator, player
<1>1. DOMAIN id' = Kind /\ \A j \in Kind : id'[j] \in Id[j] \cup {Partial}
  BY MadeUpIsTyped
<1>2. kind' \in [Unit -> Kind]
  BY DEF TypeOK, Kind
<1>3. TypeOK'
  BY <1>1, <1>2 DEF TypeOK, Place
<1>4. SeesInv' /\ CardStaysItself'
  BY DEF TypeOK, SeesInv, CardStaysItself
<1>5. TextInv' /\ EmulatorInv' /\ PortNeedsBackend'
  BY DEF TypeOK, TextInv, EmulatorInv, PortNeedsBackend
<1>6. QED
  BY <1>3, <1>4, <1>5

LEMMA SaveIdStep == ASSUME IInv, NEW u \in Unit, SaveId(u) PROVE IInv'
<1> USE DEF IInv, SaveId, Step, port, emulator
<1>1. kind[u] \in Kind /\ id[kind[u]] \in Id[kind[u]] \cup {Partial}
  BY DEF TypeOK
<1>2. /\ DOMAIN file' = Kind
      /\ \A j \in Kind : file'[j] \in Id[j] \cup {Partial, NoFile, Unreadable}
  BY <1>1, FileKeepsType
<1>3. present' \in [Kind -> BOOLEAN]
  BY <1>1 DEF TypeOK
<1>4. kind' \in [Unit -> Kind]
  BY DEF TypeOK, Kind
<1>5. watch' \in [Unit -> [ids : SUBSET AnyId, held : BOOLEAN, steady : BOOLEAN]]
  BY WatchKeepsType DEF TypeOK
<1>6. TypeOK'
  BY <1>2, <1>3, <1>4, <1>5 DEF TypeOK, Place
<1>7. SeesInv'
  BY WatchSees DEF TypeOK
<1>8. TextInv' /\ EmulatorInv' /\ CardStaysItself' /\ PortNeedsBackend'
  BY DEF TypeOK, TextInv, EmulatorInv, CardStaysItself, PortNeedsBackend
<1>9. QED
  BY <1>6, <1>7, <1>8

(* The reply to POLL: the emulator holds what is reported.                 *)
LEMMA PollEndsStep ==
  ASSUME IInv, NEW u \in Unit, NEW card \in AnyId \cup {NULL}, PollEnds(u, card),
         Step(u, pc[u], "idle"),
         card \in Card => mifare'[u] = card, card \in Felica => felica'[u] = card,
         mifare' \in [Unit -> Card \cup {Partial}], felica' \in [Unit -> Felica \cup {Partial}],
         \A v \in Unit : v # u => mifare'[v] = mifare[v] /\ felica'[v] = felica[v],
         UNCHANGED <<port, text, aimeio, player>>
  PROVE  IInv'
<1> USE DEF IInv, PollEnds, Step, Answer, Unseen, port, aimeio, player
<1>1. kind' \in [Unit -> Kind]
  BY DEF TypeOK, Kind
<1>2. TypeOK'
  BY <1>1 DEF TypeOK, Place
<1>3. EmulatorInv'
  BY DEF TypeOK, EmulatorInv
<1>4. SeesInv' /\ CardStaysItself'
  BY DEF TypeOK, SeesInv, CardStaysItself
<1>5. TextInv' /\ PortNeedsBackend'
  BY DEF TypeOK, TextInv, PortNeedsBackend
<1>6. QED
  BY <1>2, <1>3, <1>4, <1>5

LEMMA AskStep == ASSUME IInv, NEW u \in Unit, Ask(u) PROVE IInv'
<1> USE DEF Ask
<1>1. CASE present[kind[u]]
  <2>1. pc' \in [Unit -> Place]
    BY <1>1 DEF IInv, TypeOK, Place, Step
  <2>2. TypeOK'
    BY <1>1, <2>1, InnerType DEF IInv, TypeOK, aimeio, player, PollEnds
  <2>3. TextInv'
    BY <1>1 DEF IInv, TypeOK, TextInv, Step, PollEnds
  <2>4. QED
    BY <1>1, <2>2, <2>3, InnerStep DEF IInv, TypeOK, Step, aimeio, player, PollEnds
<1>2. CASE ~present[kind[u]] /\ kind[u] = "felica"
  <2>1. kind' \in [Unit -> Kind]
    BY <1>2 DEF IInv, TypeOK, Kind
  <2>2. TypeOK' /\ TextInv'
    BY <1>2, <2>1 DEF IInv, TypeOK, TextInv, Step, PollEnds, port, emulator, aimeio, player
  <2>3. pc' = [pc EXCEPT ![u] = pc'[u]] /\ pc[u] = "ask"
    BY <1>2 DEF IInv, TypeOK
  <2>4. UNCHANGED <<port, emulator, answer, radio_on, scan, file, reported, watch>>
    BY <1>2 DEF aimeio, player
  <2>5. QED
    BY <2>2, <2>3, <2>4, InnerStep
<1>3. CASE ~present[kind[u]] /\ kind[u] # "felica"
  <2>1. /\ Step(u, pc[u], "idle") /\ PollEnds(u, NULL)
        /\ UNCHANGED <<port, text, emulator, aimeio, player>>
    BY <1>3 DEF Step
  <2>2. NULL \notin Card /\ NULL \notin Felica
    BY SgReaderAssumption DEF AnyId
  <2>3. QED
    BY <2>1, <2>2, PollEndsStep DEF IInv, TypeOK, emulator
<1>4. QED
  BY <1>1, <1>2, <1>3

LEMMA CopyFelicaStep == ASSUME IInv, NEW u \in Unit, CopyFelica(u) PROVE IInv'
<1>1. "felica" \in Kind /\ Id["felica"] = Felica
  BY DEF Kind, Id
<1>2. id["felica"] \in Felica \cup {Partial}
  BY <1>1 DEF IInv, TypeOK
<1>3. id["felica"] \notin Card /\ id["felica"] \in AnyId
  BY <1>2, SgReaderAssumption DEF AnyId
<1>4. Step(u, pc[u], "idle") /\ UNCHANGED <<port, text, aimeio, player>>
  BY DEF CopyFelica, Step
<1>5. QED
  BY <1>2, <1>3, <1>4, PollEndsStep DEF CopyFelica, IInv, TypeOK

LEMMA CopyAimeStep == ASSUME IInv, NEW u \in Unit, CopyAime(u) PROVE IInv'
<1>1. "aime" \in Kind /\ Id["aime"] = Card \cup BadCard
  BY DEF Kind, Id
<1>2. id["aime"] \in Card \cup BadCard \cup {Partial}
  BY <1>1 DEF IInv, TypeOK
<1>3. id["aime"] \notin Felica /\ id["aime"] \in AnyId /\ NULL \notin Card \cup Felica
  BY <1>2, SgReaderAssumption DEF AnyId
<1>4. Step(u, pc[u], "idle") /\ UNCHANGED <<port, text, felica, aimeio, player>>
  BY DEF CopyAime, Step
<1>5. CASE id["aime"] \notin BadCard
  <2>1. PollEnds(u, id["aime"]) /\ mifare' = [mifare EXCEPT ![u] = id["aime"]]
    BY <1>5 DEF CopyAime
  <2>2. mifare' \in [Unit -> Card \cup {Partial}] /\ felica' \in [Unit -> Felica \cup {Partial}]
    BY <1>2, <1>4, <1>5, <2>1 DEF IInv, TypeOK
  <2>3. mifare'[u] = id["aime"] /\ felica' = felica
    BY <1>4, <2>1 DEF IInv, TypeOK
  <2>4. QED
    BY <1>3, <1>4, <2>1, <2>2, <2>3, PollEndsStep
<1>6. CASE id["aime"] \in BadCard
  <2>1. PollEnds(u, NULL) /\ mifare' = [mifare EXCEPT ![u] = Partial]
    BY <1>6 DEF CopyAime
  <2>2. mifare' \in [Unit -> Card \cup {Partial}] /\ felica' \in [Unit -> Felica \cup {Partial}]
    BY <1>4, <2>1 DEF IInv, TypeOK
  <2>3. QED
    BY <1>3, <1>4, <2>1, <2>2, PollEndsStep
<1>7. QED
  BY <1>5, <1>6

-----------------------------------------------------------------------------
(* The player.                                                             *)
LEMMA PlayerStep == ASSUME IInv, Player PROVE IInv'
<1> USE DEF IInv, port, handler, emulator, aimeio
<1>1. CASE PressOrRelease
  <2> USE <1>1 DEF PressOrRelease
  <2>1. watch' \in [Unit -> [ids : SUBSET AnyId, held : BOOLEAN, steady : BOOLEAN]]
    BY WatchKeepsType DEF TypeOK
  <2>2. moves' \in 0..MaxMoves
    BY SgReaderAssumption DEF TypeOK
  <2>3. TypeOK'
    BY <2>1, <2>2 DEF TypeOK
  <2>4. SeesInv'
    BY WatchSees
  <2>5. QED
    BY <2>3, <2>4 DEF TextInv, EmulatorInv, CardStaysItself, PortNeedsBackend
<1>2. ASSUME NEW k \in Kind, NEW f \in Id[k] \cup {NoFile, Unreadable}, PutDown(k, f)
      PROVE  IInv'
  <2> USE <1>2 DEF PutDown
  <2>1. watch' \in [Unit -> [ids : SUBSET AnyId, held : BOOLEAN, steady : BOOLEAN]]
    BY WatchKeepsType DEF TypeOK
  <2>2. moves' \in 0..MaxMoves
    BY SgReaderAssumption DEF TypeOK
  <2>3. /\ DOMAIN file' = Kind
        /\ \A j \in Kind : file'[j] \in Id[j] \cup {Partial, NoFile, Unreadable}
    BY FileKeepsType
  <2>4. TypeOK'
    BY <2>1, <2>2, <2>3 DEF TypeOK
  <2>5. SeesInv'
    BY WatchSees
  <2>6. QED
    BY <2>4, <2>5 DEF TextInv, EmulatorInv, CardStaysItself, PortNeedsBackend
<1>3. QED
  BY <1>1, <1>2 DEF Player

LEMMA NextInv == IInv /\ [Next]_vars => IInv'
<1> SUFFICES ASSUME IInv, [Next]_vars PROVE IInv'
  OBVIOUS
<1>1. CASE Player
  BY <1>1, PlayerStep
<1>2. ASSUME NEW u \in Unit, Request(u) PROVE IInv'
  BY <1>2, OpenStep, CloseStep, AcknowledgeStep, RadioStep, ReadBlockStep, EncapStep,
     PollBeginsStep DEF Request
<1>3. ASSUME NEW u \in Unit, Poll(u) PROVE IInv'
  <2>1. OpenFile(u) => pc[u] = "open"
    BY DEF OpenFile, NoCard, Step
  <2>2. FillId(u) => pc[u] = "fill"
    BY DEF FillId, NoCard, Step
  <2>3. QED
    BY <1>3, <2>1, <2>2, PollResetsStep, PollSensesStep, OpenFileStep, FillIdStep, GenerateStep,
       GenerateFailsStep, SaveIdStep, AskStep, CopyFelicaStep, CopyAimeStep DEF Poll
<1>4. CASE UNCHANGED vars
  BY <1>4 DEF vars, port, handler, emulator, aimeio, player, IInv, TypeOK, TextInv,
     PortNeedsBackend, EmulatorInv, CardStaysItself, SeesInv
<1>5. QED
  BY <1>1, <1>2, <1>3, <1>4 DEF Next

THEOREM Invariance == Spec => []IInv
<1>1. Init => IInv
  BY InitInv DEF JInv
<1>2. QED
  BY <1>1, NextInv, PTL DEF Spec

(* The types are kept: in particular no id that is not binary-coded        *)
(* decimal gets into the card emulator, and it never holds a FeliCa id.    *)
THEOREM TypeCorrect == Spec => []TypeOK
<1>1. IInv => TypeOK
  BY DEF IInv
<1>2. QED
  BY <1>1, Invariance, PTL

(* A reader port is open only if its backend started.                      *)
THEOREM PortsNeedBackends == Spec => []PortNeedsBackend
<1>1. IInv => PortNeedsBackend
  BY DEF IInv
<1>2. QED
  BY <1>1, Invariance, PTL

(* What is read from a card is the card that was reported last: even if    *)
(* each unit has a thread of its own, and the player takes the card away.  *)
THEOREM CardsStayThemselves == Spec => []CardStaysItself
<1>1. IInv => CardStaysItself
  BY DEF IInv
<1>2. QED
  BY <1>1, Invariance, PTL

-----------------------------------------------------------------------------
(* One thread for all readers.                                             *)
LEMMA RequestsComeAlone ==
  ASSUME Overlap = FALSE, NEW u \in Unit, Request(u)
  PROVE  \A v \in Unit : pc[v] = "idle"
  BY DEF Request, Open, Close, Acknowledge, sg_nfc_cmd_radio, sg_nfc_cmd_mifare_read_block,
     sg_nfc_cmd_felica_encap, PollBegins, MayEnter

LEMMA RequestsAreShort ==
  ASSUME TypeOK, NEW u \in Unit, Request(u), ~PollBegins(u)
  PROVE  pc' = pc
  BY DEF Request, Open, Close, Acknowledge, sg_nfc_cmd_radio, sg_nfc_cmd_mifare_read_block,
     sg_nfc_cmd_felica_encap, handler

LEMMA PollIsBusy ==
  ASSUME TypeOK, NEW u \in Unit, Poll(u)
  PROVE  pc[u] # "idle" /\ \A v \in Unit : v # u => pc'[v] = pc[v]
  BY DEF TypeOK, Poll, PollResets, PollSenses, OpenFile, FillId, NoCard, Generate, GenerateFails,
     SaveId, Ask, CopyFelica, CopyAime, Step

LEMMA AloneStep ==
  ASSUME Overlap = FALSE, IInv, AloneInv, [Next]_vars PROVE AloneInv'
<1>1. CASE Player
  BY <1>1 DEF Player, PressOrRelease, PutDown, handler, AloneInv
<1>2. ASSUME NEW u \in Unit, Request(u) PROVE AloneInv'
  <2>1. CASE PollBegins(u)
    BY <1>2, <2>1, RequestsComeAlone DEF PollBegins, AloneInv, IInv, TypeOK
  <2>2. CASE ~PollBegins(u)
    BY <1>2, <2>2, RequestsAreShort DEF AloneInv, IInv
  <2>3. QED
    BY <2>1, <2>2
<1>3. ASSUME NEW u \in Unit, Poll(u) PROVE AloneInv'
  BY <1>3, PollIsBusy DEF AloneInv, IInv
<1>4. CASE UNCHANGED vars
  BY <1>4 DEF vars, handler, AloneInv
<1>5. QED
  BY <1>1, <1>2, <1>3, <1>4 DEF Next

LEMMA IdleFound ==
  ASSUME NEW u \in Unit, pc'[u] = "idle" PROVE Found(u)'
  BY DEF Found, Looking

LEMMA WatchGrows ==
  ASSUME TypeOK, Watch, NEW u \in Unit, pc[u] # "idle"
  PROVE  /\ watch[u].ids \subseteq watch'[u].ids
         /\ watch[u].held => watch'[u].held
         /\ watch'[u].steady => watch[u].steady /\ radio_on' /\ scan' /\ file'["aime"] \in Card
         /\ \A k \in Kind : file'[k] \in AnyId => file'[k] \in watch'[u].ids
  BY DEF TypeOK, Watch, Look

LEMMA PlayerFound ==
  ASSUME IInv, FoundInv, Player, NEW u \in Unit PROVE Found(u)'
<1>1. UNCHANGED <<pc, kind, text, present, id>> /\ Watch
  BY DEF Player, PressOrRelease, PutDown, handler, aimeio
<1>2. CASE pc[u] = "idle"
  BY <1>1, <1>2, IdleFound
<1>3. CASE pc[u] # "idle"
  <2>1. Found(u)
    BY DEF FoundInv
  <2>2. /\ watch[u].ids \subseteq watch'[u].ids
        /\ watch[u].held => watch'[u].held
        /\ watch'[u].steady => watch[u].steady
    BY <1>1, <1>3, WatchGrows DEF IInv
  <2>3. QED
    BY <1>1, <2>1, <2>2 DEF Found
<1>4. QED
  BY <1>2, <1>3

(* Not to find a card means that none was there for all the time.          *)
LEMMA NoCardFound ==
  ASSUME IInv, NEW u \in Unit, Found(u), NEW from \in {"open", "fill"}, NoCard(u, from),
         ~watch[u].steady, UNCHANGED <<present, id, watch>>
  PROVE  Found(u)'
  BY DEF IInv, TypeOK, Found, Looking, NoCard, Step, Kind

LEMMA PollFound ==
  ASSUME IInv, NEW u \in Unit, Found(u), Poll(u) PROVE Found(u)'
<1> USE DEF IInv, TypeOK, Found, Looking, Step
<1>1. CASE PollResets(u)
  BY <1>1 DEF PollResets
<1>2. CASE PollSenses(u)
  <2>1. \A k \in Kind : ~present[k] /\ ~present'[k]
    BY <1>2 DEF PollSenses, aimeio
  <2>2. watch' = watch /\ (pc'[u] = "open" => watch[u].held /\ kind'[u] = "aime")
    BY <1>2 DEF PollSenses, SeesInv
  <2>3. pc'[u] \in {"open", "ask"} /\ (pc'[u] = "ask" => ~watch[u].steady)
    BY <1>2 DEF PollSenses, SeesInv
  <2>4. QED
    BY <2>1, <2>2, <2>3
<1>3. CASE OpenFile(u)
  <2>1. pc[u] = "open" /\ kind[u] \in Kind
    BY <1>3 DEF OpenFile, NoCard
  <2>2. watch[u].steady => file[kind[u]] \in Card
    BY <2>1 DEF SeesInv
  <2>3. CASE file[kind[u]] = NoFile
    <3>1. ~watch[u].steady
      BY <2>2, <2>3, SgReaderAssumption DEF AnyId
    <3>2. QED
      BY <1>3, <2>3, <3>1, NoCardFound DEF OpenFile
  <2>4. CASE file[kind[u]] # NoFile
    <3>1. /\ pc'[u] = "fill" /\ text'[u] = file[kind[u]]
          /\ UNCHANGED <<kind, present, watch>>
      BY <1>3, <2>4 DEF OpenFile
    <3>2. file[kind[u]] # Unreadable => file[kind[u]] \in watch[u].ids
      BY <2>1, <2>4 DEF SeesInv, Kind, Id, AnyId
    <3>3. QED
      BY <2>1, <2>2, <3>1, <3>2
  <2>5. QED
    BY <2>3, <2>4
<1>4. CASE FillId(u)
  <2>1. pc[u] = "fill" /\ kind[u] \in Kind
    BY <1>4 DEF FillId, NoCard
  <2>2. CASE text[u] = Unreadable
    <3>1. ~watch[u].steady
      BY <2>1, <2>2, SgReaderAssumption DEF AnyId
    <3>2. QED
      BY <1>4, <2>2, <3>1, NoCardFound DEF FillId
  <2>3. CASE text[u] # Unreadable
    <3>1. /\ pc'[u] = "ask" /\ watch' = watch
          /\ id' = [id EXCEPT ![kind[u]] = text[u]]
          /\ present' = [present EXCEPT ![kind[u]] = TRUE]
      BY <1>4, <2>3 DEF FillId
    <3>2. \A k \in Kind : present'[k] => k = kind[u]
      BY <2>1, <3>1
    <3>3. id'[kind[u]] = text[u] /\ present'[kind[u]]
      BY <2>1, <3>1
    <3>4. QED
      BY <2>1, <2>3, <3>1, <3>2, <3>3
  <2>4. QED
    BY <2>2, <2>3
<1>5. CASE Generate(u)
  <2>1. pc[u] = "generate" /\ pc'[u] = "save" /\ UNCHANGED <<present, kind>> /\ Watch
    BY <1>5 DEF Generate
  <2>2. watch'[u].held /\ ~watch'[u].steady
    BY <2>1, WatchGrows
  <2>3. QED
    BY <2>1, <2>2
<1>6. CASE GenerateFails(u)
  BY <1>6, IdleFound DEF GenerateFails
<1>7. CASE SaveId(u)
  <2>1. /\ pc[u] = "save" /\ pc'[u] = "ask" /\ kind[u] \in Kind /\ Watch
        /\ id' = id /\ file'[kind[u]] = id[kind[u]]
        /\ present' = [present EXCEPT ![kind[u]] = TRUE]
    BY <1>7 DEF SaveId
  <2>2. watch'[u].held /\ ~watch'[u].steady
    BY <2>1, WatchGrows
  <2>3. id'[kind[u]] \in AnyId
    BY <2>1 DEF Kind, Id, AnyId
  <2>4. id'[kind[u]] \in watch'[u].ids
    BY <2>1, <2>3, WatchGrows
  <2>5. \A k \in Kind : present'[k] => k = kind[u]
    BY <2>1
  <2>6. QED
    BY <2>1, <2>2, <2>4, <2>5
<1>8. CASE Ask(u)
  BY <1>8 DEF Ask, aimeio, Kind, PollEnds
<1>9. CASE CopyFelica(u)
  BY <1>9, IdleFound DEF CopyFelica
<1>10. CASE CopyAime(u)
  BY <1>10, IdleFound DEF CopyAime
<1>11. QED
  BY <1>1, <1>2, <1>3, <1>4, <1>5, <1>6, <1>7, <1>8, <1>9, <1>10 DEF Poll

LEMMA FoundStep ==
  ASSUME Overlap = FALSE, JInv, [Next]_vars PROVE FoundInv'
<1> SUFFICES ASSUME NEW w \in Unit PROVE Found(w)'
  BY DEF FoundInv
<1> USE DEF JInv
<1>1. CASE Player
  BY <1>1, PlayerFound
<1>2. ASSUME NEW u \in Unit, Request(u) PROVE Found(w)'
  <2>1. pc[w] = "idle"
    BY <1>2, RequestsComeAlone
  <2>2. CASE PollBegins(u)
    BY <2>1, <2>2 DEF PollBegins, Found, Looking, IInv, TypeOK
  <2>3. CASE ~PollBegins(u)
    BY <1>2, <2>1, <2>3, RequestsAreShort, IdleFound DEF IInv
  <2>4. QED
    BY <2>2, <2>3
<1>3. ASSUME NEW u \in Unit, Poll(u) PROVE Found(w)'
  <2>1. CASE w = u
    BY <1>3, <2>1, PollFound DEF FoundInv
  <2>2. CASE w # u
    <3>1. pc[w] = "idle" /\ pc'[w] = pc[w]
      BY <1>3, <2>2, PollIsBusy DEF AloneInv, IInv
    <3>2. QED
      BY <3>1, IdleFound
  <2>3. QED
    BY <2>1, <2>2
<1>4. CASE UNCHANGED vars
  BY <1>4 DEF vars, handler, aimeio, FoundInv, Found
<1>5. QED
  BY <1>1, <1>2, <1>3, <1>4 DEF Next

LEMMA JStep == ASSUME Overlap = FALSE, JInv, [Next]_vars PROVE JInv'
  BY NextInv, AloneStep, FoundStep DEF JInv

(* The reply of a poll, in a state where JInv holds.                       *)
LEMMA ReplyIsRight ==
  ASSUME JInv, [Next]_vars, NEW u \in Unit, pc[u] # "idle", pc'[u] = "idle"
  PROVE  /\ PollReported(u) => watch[u].held /\ reported'[u] \in watch[u].ids
         /\ watch[u].steady => PollReported(u)
<1> USE DEF JInv, IInv
<1>1. Found(u)
  BY DEF FoundInv
<1>2. Poll(u)
  <2>1. ~UNCHANGED vars
    BY DEF vars, handler
  <2>2. ~Player
    BY DEF Player, PressOrRelease, PutDown, handler
  <2>3. ASSUME NEW v \in Unit, Request(v) PROVE FALSE
    <3>1. CASE PollBegins(v)
      BY <3>1 DEF PollBegins, MayEnter, TypeOK
    <3>2. CASE ~PollBegins(v)
      BY <2>3, <3>2, RequestsAreShort
    <3>3. QED
      BY <3>1, <3>2
  <2>4. \A v \in Unit : Poll(v) => v = u
    BY PollIsBusy
  <2>5. QED
    BY <2>1, <2>2, <2>3, <2>4 DEF Next
<1>3. \/ GenerateFails(u)
      \/ Ask(u) /\ pc[u] = "ask" /\ ~present["aime"]
      \/ CopyFelica(u)
      \/ CopyAime(u)
  BY <1>2 DEF Poll, PollResets, PollSenses, OpenFile, FillId, NoCard, Generate, SaveId, Ask, Step,
     TypeOK
<1>4. CASE GenerateFails(u)
  BY <1>1, <1>4 DEF GenerateFails, Step, PollReported, Found
<1>5. CASE Ask(u) /\ pc[u] = "ask" /\ ~present["aime"]
  BY <1>1, <1>5 DEF PollReported, Found
<1>6. CASE CopyFelica(u)
  <2>1. pc[u] = "copy" /\ kind[u] = "felica" /\ reported'[u] = id["felica"]
    BY <1>6 DEF CopyFelica, Step, PollEnds, TypeOK
  <2>2. "felica" \in Kind /\ id["felica"] # NULL
    BY SgReaderAssumption DEF TypeOK, Kind, Id, AnyId
  <2>3. QED
    BY <1>1, <2>1, <2>2 DEF Found, PollReported
<1>7. CASE CopyAime(u)
  <2>1. pc[u] = "copy" /\ kind[u] = "aime"
    BY <1>7 DEF CopyAime, Step
  <2>2. "aime" \in Kind /\ id["aime"] # NULL
    BY SgReaderAssumption DEF TypeOK, Kind, Id, AnyId
  <2>3. CASE id["aime"] \notin BadCard
    <3>1. reported'[u] = id["aime"]
      BY <1>7, <2>3 DEF CopyAime, PollEnds, TypeOK
    <3>2. QED
      BY <1>1, <2>1, <2>2, <3>1 DEF Found, PollReported
  <2>4. CASE id["aime"] \in BadCard
    <3>1. reported'[u] = NULL
      BY <1>7, <2>4 DEF CopyAime, PollEnds, TypeOK
    <3>2. id["aime"] \notin Card
      BY <2>4, SgReaderAssumption
    <3>3. QED
      BY <1>1, <2>1, <3>1, <3>2 DEF Found, PollReported
  <2>5. QED
    BY <2>3, <2>4
<1>8. QED
  BY <1>3, <1>4, <1>5, <1>6, <1>7

(* If one thread uses all the readers, a card is reported only if it was   *)
(* there to be seen.                                                       *)
THEOREM GhostsAreNotReported == ASSUME Overlap = FALSE PROVE Spec => NoGhostCard
<1>1. JInv /\ [Next]_vars => JInv'
  BY JStep
<1>2. JInv /\ [Next]_vars =>
        [\A u \in Unit : PollReported(u) => watch[u].held /\ reported'[u] \in watch[u].ids]_vars
  BY ReplyIsRight DEF PollReported
<1>3. QED
  BY <1>1, <1>2, InitInv, PTL DEF Spec, NoGhostCard

(* If one thread uses all the readers, a valid AiMe card that is to be     *)
(* seen for the whole of a poll is reported.                               *)
THEOREM CardsAreNoticed == ASSUME Overlap = FALSE PROVE Spec => CardIsNoticed
<1>1. JInv /\ [Next]_vars => JInv'
  BY JStep
<1>2. JInv /\ [Next]_vars =>
        [\A u \in Unit : watch[u].steady /\ pc[u] # "idle" /\ pc'[u] = "idle"
                        => PollReported(u)]_vars
  BY ReplyIsRight
<1>3. QED
  BY <1>1, <1>2, InitInv, PTL DEF Spec, CardIsNoticed

(* CardsAreSafe, for any units, cards and number of threads.               *)
THEOREM CardsStaySafe == Spec => []CardsAreSafe
<1>1. TypeOK /\ PortNeedsBackend /\ CardStaysItself => CardsAreSafe
  BY DEF CardsAreSafe
<1>2. QED
  BY <1>1, TypeCorrect, PortsNeedBackends, CardsStayThemselves, PTL

(* PollIsTruthful, if one thread uses all the readers.                     *)
THEOREM PollsAreTruthful ==
  ASSUME Overlap = FALSE
  PROVE  Spec => PollIsTruthful
<1>1. Spec => NoGhostCard
  BY GhostsAreNotReported
<1>2. Spec => CardIsNoticed
  BY CardsAreNoticed
<1>3. QED
  BY <1>1, <1>2, PTL DEF PollIsTruthful

=============================================================================
