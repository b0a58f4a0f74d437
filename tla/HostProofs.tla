-------------------------------- MODULE HostProofs --------------------------------
(***************************************************************************)
(* Theorems about parts of the hook library and of the platform, for every *)
(* value of their constants.  The parts share no state; each one has a     *)
(* section of its own, with the invariant that its steps keep.             *)
(***************************************************************************)
EXTENDS PrinterCx, Chu2to3, LedPipe, Y3Table, Clock, Nusec, Amex, Ewf, Printer, Dns, Registry,
        FiniteSetTheorems, SequenceTheorems, WellFoundedInduction, TLAPS

-----------------------------------------------------------------------------
(* The card printer CX-7000.                                               *)

CxPrinterData == [counter : Nat, sinceClean : Nat, transport : BOOLEAN]

CxState ==
  [counter : Nat, sinceClean : Nat, transport : BOOLEAN, file : {"none", "short", "whole"},
   saved : CxPrinterData, id : Nat, pc : {"down", "idle", "save", "write", "saved"},
   after : {"nothing", "tell"}, ids : SUBSET [card : Nat, id : Nat], card : Nat,
   lost : BOOLEAN, starts : Nat]

(* What the machine and the file have counted is no more than the cards.   *)
CxCounts ==
  /\ cx.counter <= cx.card /\ cx.saved.counter <= cx.card /\ cx.card <= CxCardsMax
  /\ cx.sinceClean <= cx.counter /\ cx.saved.sinceClean <= cx.saved.counter
  /\ \A a \in cx.ids : a.card <= cx.card

(* As long as no save was lost: the file covers every number told, or is   *)
(* being written; the counter covers them while the machine is on.         *)
CxCovered ==
  ~cx.lost =>
    /\ cx.file = "whole" => \A a \in cx.ids : a.id <= cx.saved.counter
    /\ cx.file = "none" => cx.ids = {}
    /\ cx.file = "short" => cx.pc = "write"
    /\ cx.pc # "down" => \A a \in cx.ids : a.id <= cx.counter
    /\ cx.pc = "saved" => cx.file = "whole" /\ cx.saved.counter = cx.counter

(* A number that is about to be told is a new one, for a new card.         *)
CxPending ==
  ~cx.lost /\ cx.pc \in {"save", "write", "saved"} /\ cx.after = "tell" =>
    cx.id = cx.counter /\ \A a \in cx.ids : a.id < cx.counter /\ a.card < cx.card

CxInv == cx \in CxState /\ CxCounts /\ CxCovered /\ CxPending /\ CxIdsUnique

LEMMA CxInitInv == CxInit => CxInv
<1> SUFFICES ASSUME CxInit PROVE CxInv
  OBVIOUS
<1>1. cx \in CxState
  BY DEF CxInit, CxState, CxPrinterData
<1>2. CxCounts
  BY CxAssumption DEF CxAssumption, CxInit, CxCounts
<1>3. CxCovered /\ CxPending /\ CxIdsUnique
  BY DEF CxInit, CxCovered, CxPending, CxIdsUnique
<1> QED
  BY <1>1, <1>2, <1>3 DEF CxInv

(* At a start only the place and the number of the start change.           *)
LEMMA CxStartsIdle ==
  ASSUME NEW r \in CxState, NEW s,
         s = [r EXCEPT !.pc = "idle", !.starts = r.starts + 1]
  PROVE  /\ s \in CxState /\ s.pc = "idle" /\ s.counter = r.counter
         /\ s.sinceClean = r.sinceClean /\ s.ids = r.ids /\ s.card = r.card
         /\ s.file = r.file /\ s.saved = r.saved /\ s.lost = r.lost
<1>1. r.starts + 1 \in Nat
  BY DEF CxState
<1> QED
  BY <1>1 DEF CxState

LEMMA CxStartsSaving ==
  ASSUME NEW r \in CxState, NEW s,
         s = [r EXCEPT !.pc = "save", !.after = "nothing", !.starts = r.starts + 1]
  PROVE  /\ s \in CxState /\ s.pc = "save" /\ s.after = "nothing"
         /\ s.counter = r.counter /\ s.sinceClean = r.sinceClean /\ s.ids = r.ids
         /\ s.card = r.card /\ s.file = r.file /\ s.saved = r.saved /\ s.lost = r.lost
<1>1. r.starts + 1 \in Nat
  BY DEF CxState
<1> QED
  BY <1>1 DEF CxState

(* Each step leads to a state that is known by its fields, and they keep   *)
(* the invariant.                                                          *)
LEMMA CxNextInv == CxInv /\ [CxNext]_cx => CxInv'
<1> SUFFICES ASSUME CxInv, [CxNext]_cx PROVE CxInv'
  OBVIOUS
<1> USE CxAssumption DEF CxAssumption
<1>0. cx \in CxState /\ CxCounts /\ CxCovered /\ CxPending /\ CxIdsUnique
  BY DEF CxInv
<1>1. CASE load_printer_data
  <2>1. CASE cx.file = "whole"
    <3> DEFINE read == CxWith(cx.saved)
    <3>t. read \in CxState
      BY <1>0 DEF CxWith, CxState, CxPrinterData
    <3>0. cx' = [read EXCEPT !.pc = "idle", !.starts = read.starts + 1]
      BY <1>1, <2>1 DEF load_printer_data
    <3>r. /\ read.counter = cx.saved.counter /\ read.sinceClean = cx.saved.sinceClean
          /\ read.ids = cx.ids /\ read.card = cx.card
          /\ read.file = cx.file /\ read.saved = cx.saved /\ read.lost = cx.lost
      BY <1>0 DEF CxWith, CxState, CxPrinterData
    <3> HIDE DEF read
    <3>1. /\ cx' \in CxState /\ cx'.pc = "idle" /\ cx'.counter = cx.saved.counter
          /\ cx'.sinceClean = cx.saved.sinceClean /\ cx'.ids = cx.ids /\ cx'.card = cx.card
          /\ cx'.file = cx.file /\ cx'.saved = cx.saved /\ cx'.lost = cx.lost
      <4>1. /\ cx' \in CxState /\ cx'.pc = "idle" /\ cx'.counter = read.counter
            /\ cx'.sinceClean = read.sinceClean /\ cx'.ids = read.ids
            /\ cx'.card = read.card /\ cx'.file = read.file /\ cx'.saved = read.saved
            /\ cx'.lost = read.lost
        BY <3>t, <3>0, CxStartsIdle, Zenon
      <4> QED
        BY <4>1, <3>r
    <3>2. CxCounts'
      BY <1>0, <3>1 DEF CxCounts
    <3>3. CxCovered' /\ CxPending' /\ CxIdsUnique'
      BY <1>0, <3>1, <2>1 DEF CxCovered, CxPending, CxIdsUnique
    <3> QED
      BY <3>1, <3>2, <3>3 DEF CxInv
  <2>2. CASE cx.file # "whole"
    <3> DEFINE new == CxWith([counter |-> 0, sinceClean |-> 0, transport |-> FALSE])
    <3>t. new \in CxState
      BY <1>0 DEF CxWith, CxState, CxPrinterData
    <3>0. cx' = [new EXCEPT !.pc = "save", !.after = "nothing", !.starts = new.starts + 1]
      BY <1>1, <2>2 DEF load_printer_data
    <3>r. /\ new.counter = 0 /\ new.sinceClean = 0
          /\ new.ids = cx.ids /\ new.card = cx.card
          /\ new.file = cx.file /\ new.saved = cx.saved /\ new.lost = cx.lost
      BY <1>0 DEF CxWith, CxState, CxPrinterData
    <3> HIDE DEF new
    <3>1. /\ cx' \in CxState /\ cx'.pc = "save" /\ cx'.after = "nothing" /\ cx'.counter = 0
          /\ cx'.sinceClean = 0 /\ cx'.ids = cx.ids /\ cx'.card = cx.card
          /\ cx'.file = cx.file /\ cx'.saved = cx.saved /\ cx'.lost = cx.lost
      <4>1. /\ cx' \in CxState /\ cx'.pc = "save" /\ cx'.after = "nothing"
            /\ cx'.counter = new.counter /\ cx'.sinceClean = new.sinceClean
            /\ cx'.ids = new.ids /\ cx'.card = new.card /\ cx'.file = new.file
            /\ cx'.saved = new.saved /\ cx'.lost = new.lost
        BY <3>t, <3>0, CxStartsSaving, Zenon
      <4> QED
        BY <4>1, <3>r
    <3>2. CxCounts'
      BY <1>0, <3>1 DEF CxCounts, CxState, CxPrinterData
    <3>3. ~cx.lost => cx.file = "none"
      BY <1>0, <1>1, <2>2 DEF CxCovered, CxState, load_printer_data
    <3>4. CxCovered' /\ CxPending' /\ CxIdsUnique'
      BY <1>0, <3>1, <3>3 DEF CxCovered, CxPending, CxIdsUnique
    <3> QED
      BY <3>1, <3>2, <3>4 DEF CxInv
  <2> QED
    BY <2>1, <2>2
<1>2. CASE CxOff
  <2>1. /\ cx' \in CxState /\ cx'.pc = "down" /\ cx'.lost = (cx.lost \/ cx.file = "short")
        /\ cx'.counter = cx.counter /\ cx'.sinceClean = cx.sinceClean /\ cx'.ids = cx.ids
        /\ cx'.card = cx.card /\ cx'.file = cx.file /\ cx'.saved = cx.saved
    BY <1>0, <1>2 DEF CxOff, CxState, CxPrinterData
  <2>2. CxCounts'
    BY <1>0, <2>1 DEF CxCounts
  <2>3. CxCovered' /\ CxPending' /\ CxIdsUnique'
    BY <1>0, <2>1 DEF CxCovered, CxPending, CxIdsUnique
  <2> QED
    BY <2>1, <2>2, <2>3 DEF CxInv
<1>3. CASE CxCreate
  <2>1. /\ cx' \in CxState /\ cx.pc = "save" /\ cx'.after = cx.after /\ cx'.id = cx.id
        /\ \/ cx'.pc = "write" /\ cx'.file = "short" /\ cx'.lost = cx.lost
           \/ cx'.pc = "saved" /\ cx'.lost
        /\ cx'.counter = cx.counter /\ cx'.sinceClean = cx.sinceClean /\ cx'.ids = cx.ids
        /\ cx'.card = cx.card /\ cx'.saved = cx.saved
    BY <1>0, <1>3 DEF CxCreate, CxState, CxPrinterData
  <2>2. CxCounts'
    BY <1>0, <2>1 DEF CxCounts
  <2>3. CxCovered' /\ CxPending' /\ CxIdsUnique'
    BY <1>0, <2>1 DEF CxCovered, CxPending, CxIdsUnique
  <2> QED
    BY <2>1, <2>2, <2>3 DEF CxInv
<1>4. CASE save_printer_data
  <2>1. /\ cx' \in CxState /\ cx.pc = "write" /\ cx'.pc = "saved"
        /\ cx'.after = cx.after /\ cx'.id = cx.id
        /\ \/ /\ cx'.file = "whole" /\ cx'.lost = cx.lost
              /\ cx'.saved.counter = cx.counter /\ cx'.saved.sinceClean = cx.sinceClean
           \/ cx'.saved = cx.saved /\ cx'.lost
        /\ cx'.counter = cx.counter /\ cx'.sinceClean = cx.sinceClean /\ cx'.ids = cx.ids
        /\ cx'.card = cx.card
    <3>0. CxData \in CxPrinterData /\ CxData.counter = cx.counter
          /\ CxData.sinceClean = cx.sinceClean
      BY <1>0 DEF CxData, CxState, CxPrinterData
    <3>1. CASE cx' = [cx EXCEPT !.pc = "saved", !.file = "whole", !.saved = CxData]
      BY <1>0, <1>4, <3>0, <3>1 DEF save_printer_data, CxState
    <3>2. CASE cx' = [cx EXCEPT !.pc = "saved", !.lost = TRUE]
      BY <1>0, <1>4, <3>2 DEF save_printer_data, CxState
    <3> QED
      BY <1>4, <3>1, <3>2 DEF save_printer_data
  <2>2. CxCounts'
    BY <1>0, <2>1 DEF CxCounts
  <2>3. CxCovered' /\ CxPending' /\ CxIdsUnique'
    BY <1>0, <2>1 DEF CxCovered, CxPending, CxIdsUnique
  <2> QED
    BY <2>1, <2>2, <2>3 DEF CxInv
<1>5. CASE CxReturns
  <2>1. /\ cx' \in CxState /\ cx.pc = "saved" /\ cx'.pc = "idle"
        /\ cx'.ids = IF cx.after = "tell" THEN cx.ids \cup {[card |-> cx.card, id |-> cx.id]}
                     ELSE cx.ids
        /\ cx'.counter = cx.counter /\ cx'.sinceClean = cx.sinceClean
        /\ cx'.card = cx.card /\ cx'.file = cx.file /\ cx'.saved = cx.saved
        /\ cx'.lost = cx.lost
    <3> DEFINE told == IF cx.after = "tell"
                       THEN cx.ids \cup {[card |-> cx.card, id |-> cx.id]} ELSE cx.ids
    <3>1. told \in SUBSET [card : Nat, id : Nat]
      BY <1>0 DEF CxState
    <3>2. cx.pc = "saved" /\ cx' = [cx EXCEPT !.pc = "idle", !.ids = told]
      BY <1>0, <1>5 DEF CxReturns, CxState
    <3> HIDE DEF told
    <3>3. /\ cx' \in CxState /\ cx'.pc = "idle" /\ cx'.ids = told
          /\ cx'.counter = cx.counter /\ cx'.sinceClean = cx.sinceClean
          /\ cx'.card = cx.card /\ cx'.file = cx.file /\ cx'.saved = cx.saved
          /\ cx'.lost = cx.lost
      BY <1>0, <3>1, <3>2 DEF CxState
    <3> QED
      BY <3>2, <3>3 DEF told
  <2>2. CxCounts'
    BY <1>0, <2>1 DEF CxCounts, CxState
  <2>3. CASE cx.lost
    BY <1>0, <2>1, <2>2, <2>3 DEF CxInv, CxCovered, CxPending, CxIdsUnique
  <2>4. CASE ~cx.lost /\ cx.after = "tell"
    <3>1. /\ cx.file = "whole" /\ cx.saved.counter = cx.counter /\ cx.id = cx.counter
          /\ \A a \in cx.ids : a.id < cx.counter
      BY <1>0, <2>1, <2>4 DEF CxCovered, CxPending
    <3>2. \A a \in cx'.ids : a \in cx.ids \/ a = [card |-> cx.card, id |-> cx.counter]
      BY <2>1, <2>4, <3>1
    <3>3. \A a \in cx'.ids : a.id <= cx.counter
      BY <1>0, <3>1, <3>2 DEF CxState
    <3>4. CxIdsUnique'
      BY <1>0, <2>1, <3>1, <3>2 DEF CxIdsUnique, CxState
    <3>5. CxCovered' /\ CxPending'
      BY <2>1, <3>1, <3>3 DEF CxCovered, CxPending
    <3> QED
      BY <2>1, <2>2, <3>4, <3>5 DEF CxInv
  <2>5. CASE ~cx.lost /\ cx.after # "tell"
    BY <1>0, <2>1, <2>2, <2>5 DEF CxInv, CxCovered, CxPending, CxIdsUnique
  <2> QED
    BY <2>3, <2>4, <2>5
<1>6. CASE hook_CXCMD_ReadBuffer
  <2>1. /\ cx' \in CxState /\ cx.pc = "idle" /\ cx'.pc = "save" /\ cx'.after = "tell"
        /\ cx.card < CxCardsMax /\ cx'.card = cx.card + 1 /\ cx'.counter = cx.counter + 1
        /\ cx'.id = cx.counter + 1 /\ cx'.sinceClean = cx.sinceClean + 1
        /\ cx'.ids = cx.ids /\ cx'.file = cx.file /\ cx'.saved = cx.saved
        /\ cx'.lost = cx.lost
    <3>1. /\ cx.pc = "idle" /\ cx.card < CxCardsMax
          /\ cx' = [cx EXCEPT !.pc = "save", !.after = "tell",
                              !.sinceClean = cx.sinceClean + 1, !.counter = cx.counter + 1,
                              !.id = cx.counter + 1, !.card = cx.card + 1]
      BY <1>0, <1>6 DEF hook_CXCMD_ReadBuffer, CxState
    <3>2. cx.sinceClean + 1 \in Nat /\ cx.counter + 1 \in Nat /\ cx.card + 1 \in Nat
      BY <1>0 DEF CxState
    <3> QED
      BY <1>0, <3>1, <3>2 DEF CxState
  <2>2. CxCounts'
    BY <1>0, <2>1 DEF CxCounts, CxState, CxPrinterData
  <2>3. CxCovered' /\ CxPending' /\ CxIdsUnique'
    BY <1>0, <2>1 DEF CxCounts, CxCovered, CxPending, CxIdsUnique, CxState
  <2> QED
    BY <2>1, <2>2, <2>3 DEF CxInv
<1>7. ASSUME NEW mode \in {17, 18, 20}, hook_CXCMD_SendDiagnostic(mode) PROVE CxInv'
  <2>1. /\ cx' \in CxState /\ cx.pc = "idle" /\ cx'.pc = "save" /\ cx'.after = "nothing"
        /\ cx'.card = cx.card /\ cx'.counter = cx.counter
        /\ cx'.sinceClean \in {0, cx.sinceClean}
        /\ cx'.ids = cx.ids /\ cx'.file = cx.file /\ cx'.saved = cx.saved
        /\ cx'.lost = cx.lost
    BY <1>0, <1>7 DEF hook_CXCMD_SendDiagnostic, CxState, CxPrinterData
  <2>2. CxCounts'
    BY <1>0, <2>1 DEF CxCounts, CxState, CxPrinterData
  <2>3. CxCovered' /\ CxPending' /\ CxIdsUnique'
    BY <1>0, <2>1 DEF CxCovered, CxPending, CxIdsUnique
  <2> QED
    BY <2>1, <2>2, <2>3 DEF CxInv
<1>8. CASE UNCHANGED cx
  BY <1>8 DEF CxInv, CxCounts, CxCovered, CxPending, CxIdsUnique
<1> QED
  BY <1>1, <1>2, <1>3, <1>4, <1>5, <1>6, <1>7, <1>8 DEF CxNext

LEMMA CxInvHolds == CxSpec => []CxInv
BY CxInitInv, CxNextInv, PTL DEF CxSpec

(* The counters of the printer stay in their bounds, and what is loaded is *)
(* what had been counted, whatever saves fail.                             *)
THEOREM CxTypeCorrect == CxSpec => []CxTypeOK
<1>1. CxInv => CxTypeOK
  BY CxAssumption DEF CxAssumption, CxInv, CxState, CxPrinterData, CxCounts, CxTypeOK
<1> QED
  BY <1>1, CxInvHolds, PTL

(* As long as each save was finished no number is told of two cards, with  *)
(* any number of cards and of starts.                                      *)
THEOREM CxIdsAreUnique == CxSpec => []CxIdsUnique
<1>1. CxInv => CxIdsUnique
  BY DEF CxInv
<1> QED
  BY <1>1, CxInvHolds, PTL

(* CxIsRight, for any number of cards and of starts.                       *)
THEOREM CardPrinterIsRight == CxSpec => []CxIsRight
<1>1. CxTypeOK /\ CxIdsUnique => CxIsRight
  BY DEF CxIsRight
<1>2. QED
  BY <1>1, CxTypeCorrect, CxIdsAreUnique, PTL

-----------------------------------------------------------------------------
(* The bridge chu2to3.                                                     *)

ChuState ==
  [coins : Nat, held : BOOLEAN, x86 : [ChuFields -> Nat], x64 : [ChuFields -> Nat],
   page : [ChuFields -> Nat], at86 : {"load", "version", "first", "coin", "poll", "copy"},
   todo86 : SUBSET ChuFields, made : BOOLEAN, at64 : {"load", "read", "idle", "failed"},
   todo64 : SUBSET ChuFields, tries : Nat, call : {"none", "version", "coin", "poll"},
   version : Nat, coin : Nat, dll : Nat, seen : BOOLEAN, pressed : BOOLEAN]

(* Each struct has the version that was published, or none yet.            *)
ChuVersionPasses(c) ==
  /\ c.at86 \notin {"load", "version"} => c.x86["version"] = ChuVersion(c.dll)
  /\ c.at86 \in {"load", "version"} => c.x86["version"] = 0
  /\ c.page["version"] \in {0, ChuVersion(c.dll)}
  /\ c.x64["version"] \in {0, ChuVersion(c.dll)}
  /\ c.at64 = "idle" \/ (c.at64 = "read" /\ c.call # "version") =>
       c.version \in {ChuVersion(c.dll), ChuDefault}

(* Coins reach one struct after the other.                                 *)
ChuCoinsPass(c) ==
  /\ c.coin <= c.x64["coin_counter"]
  /\ c.x64["coin_counter"] <= c.page["coin_counter"]
  /\ c.page["coin_counter"] <= c.x86["coin_counter"]
  /\ c.x86["coin_counter"] <= c.coins

(* A press that was seen is on the page until it ends: the struct that is  *)
(* cleared is copied only after the next poll.                             *)
ChuPressStays(c) ==
  /\ \A f \in ChuFields \ c.todo86 : c.at86 \in {"first", "copy"} => c.page[f] = c.x86[f]
  /\ c.seen => /\ c.held /\ c.page["buttons"] = 1
               /\ c.at86 \in {"coin", "poll", "copy"}
               /\ c.at86 = "copy" => c.x86["buttons"] = 1
  /\ c.pressed => c.seen
  /\ c.pressed /\ c.at64 = "read" /\ "buttons" \notin c.todo64 => c.x64["buttons"] = 1

ChuInv ==
  chu \in ChuState /\ ChuVersionPasses(chu) /\ ChuCoinsPass(chu) /\ ChuPressStays(chu)

(* What the game is told does not shrink, and is what was inserted.        *)
ChuGrows == chu'.coin >= chu.coin /\ chu'.coin <= chu.coins

(* The player inserts a coin, or presses or leaves the button.             *)
LEMMA ChuPlayerKeeps ==
  ASSUME ChuInv, ChuPlayer
  PROVE  ChuInv' /\ ChuGrows
<1>1. CASE chu' = [chu EXCEPT !.coins = @ + 1]
  <2>1. chu' \in ChuState
    BY <1>1 DEF ChuInv, ChuState
  <2>2. ChuVersionPasses(chu')
    BY <1>1 DEF ChuInv, ChuState, ChuFields, ChuVersionPasses
  <2>3. ChuCoinsPass(chu') /\ ChuGrows
    BY <1>1 DEF ChuInv, ChuState, ChuFields, ChuCoinsPass, ChuGrows
  <2>4. ChuPressStays(chu')
    BY <1>1 DEF ChuInv, ChuState, ChuFields, ChuPressStays
  <2> QED
    BY <2>1, <2>2, <2>3, <2>4 DEF ChuInv
<1>2. CASE \E held \in BOOLEAN :
        chu' = [chu EXCEPT !.held = held, !.seen = FALSE, !.pressed = FALSE]
  <2> PICK held \in BOOLEAN :
        chu' = [chu EXCEPT !.held = held, !.seen = FALSE, !.pressed = FALSE]
    BY <1>2
  <2>1. chu' \in ChuState
    BY DEF ChuInv, ChuState
  <2>2. ChuVersionPasses(chu')
    BY DEF ChuInv, ChuState, ChuFields, ChuVersionPasses
  <2>3. ChuCoinsPass(chu') /\ ChuGrows
    BY DEF ChuInv, ChuState, ChuFields, ChuCoinsPass, ChuGrows
  <2>4. ChuPressStays(chu')
    BY DEF ChuInv, ChuState, ChuFields, ChuPressStays
  <2> QED
    BY <2>1, <2>2, <2>3, <2>4 DEF ChuInv
<1>3. CASE chu' = [chu EXCEPT !.held = ~@, !.seen = FALSE, !.pressed = FALSE]
  <2>1. chu.held = TRUE \/ chu.held = FALSE
    BY DEF ChuInv, ChuState
  <2>2. CASE chu.held = TRUE
    BY <1>2, <1>3, <2>2
  <2>3. CASE chu.held = FALSE
    BY <1>2, <1>3, <2>3
  <2> QED
    BY <2>1, <2>2, <2>3
<1> QED
  BY <1>1, <1>3 DEF ChuPlayer

(* The page is made.                                                       *)
LEMMA ChuCreateKeeps ==
  ASSUME ChuInv, shmem_create
  PROVE  ChuInv' /\ ChuGrows
<1>1. chu' \in ChuState
  BY DEF shmem_create, ChuInv, ChuState
<1>2. ChuVersionPasses(chu')
  BY DEF shmem_create, ChuInv, ChuState, ChuFields, ChuVersionPasses
<1>3. ChuCoinsPass(chu') /\ ChuGrows
  BY DEF shmem_create, ChuInv, ChuState, ChuFields, ChuCoinsPass, ChuGrows
<1>4. ChuPressStays(chu')
  BY DEF shmem_create, ChuInv, ChuState, ChuFields, ChuPressStays
<1> QED
  BY <1>1, <1>2, <1>3, <1>4 DEF ChuInv

(* The version is asked for, and published.                                *)
LEMMA ChuVersion86Keeps ==
  ASSUME ChuInv, ChuGetVersion86
  PROVE  ChuInv' /\ ChuGrows
<1> DEFINE v == ChuVersion(chu.dll)
<1>1. /\ v \in Nat /\ v = ChuVersion(chu.dll) /\ chu.at86 = "version"
      /\ chu' = [chu EXCEPT !.at86 = "first", !.x86 = [@ EXCEPT !["version"] = v],
                            !.todo86 = ChuFields]
  BY DEF ChuGetVersion86, ChuPublishes, ChuVersion, ChuDefault, ChuInv, ChuState
<1> HIDE DEF v
<1>2. chu' \in ChuState
  BY <1>1 DEF ChuInv, ChuState
<1>3. ChuVersionPasses(chu')
  BY <1>1 DEF ChuInv, ChuState, ChuFields, ChuVersionPasses
<1>4. ChuCoinsPass(chu') /\ ChuGrows
  BY <1>1 DEF ChuInv, ChuState, ChuFields, ChuCoinsPass, ChuGrows
<1>5. ChuPressStays(chu')
  BY <1>1 DEF ChuInv, ChuState, ChuFields, ChuPressStays
<1> QED
  BY <1>2, <1>3, <1>4, <1>5 DEF ChuInv

(* Coins are counted, and the buttons cleared, in the struct only.         *)
LEMMA ChuPollCoinKeeps ==
  ASSUME ChuInv, ChuPollCoin
  PROVE  ChuInv' /\ ChuGrows
<1>1. chu' \in ChuState
  BY DEF ChuPollCoin, ChuInv, ChuState
<1>2. ChuVersionPasses(chu')
  BY DEF ChuPollCoin, ChuInv, ChuState, ChuFields, ChuVersionPasses
<1>3. ChuCoinsPass(chu') /\ ChuGrows
  BY DEF ChuPollCoin, ChuInv, ChuState, ChuFields, ChuCoinsPass, ChuGrows
<1>4. ChuPressStays(chu')
  BY DEF ChuPollCoin, ChuInv, ChuState, ChuFields, ChuPressStays
<1> QED
  BY <1>1, <1>2, <1>3, <1>4 DEF ChuInv

(* The buttons are polled.                                                 *)
LEMMA ChuPollKeeps ==
  ASSUME ChuInv, ChuPoll
  PROVE  ChuInv' /\ ChuGrows
<1>1. chu' \in ChuState
  BY DEF ChuPoll, ChuPublishes, ChuInv, ChuState
<1>2. ChuVersionPasses(chu')
  BY DEF ChuPoll, ChuPublishes, ChuInv, ChuState, ChuFields, ChuVersionPasses
<1>3. ChuCoinsPass(chu') /\ ChuGrows
  BY DEF ChuPoll, ChuPublishes, ChuInv, ChuState, ChuFields, ChuCoinsPass, ChuGrows
<1>4. ChuPressStays(chu')
  BY DEF ChuPoll, ChuPublishes, ChuInv, ChuState, ChuFields, ChuPressStays
<1> QED
  BY <1>1, <1>2, <1>3, <1>4 DEF ChuInv

(* A field is copied to the page.                                          *)
LEMMA ChuWriteKeeps ==
  ASSUME ChuInv, NEW f \in ChuFields, ChuWrite(f)
  PROVE  ChuInv' /\ ChuGrows
<1>1. chu' \in ChuState
  BY DEF ChuWrite, ChuInv, ChuState
<1>2. ChuVersionPasses(chu')
  BY DEF ChuWrite, ChuInv, ChuState, ChuFields, ChuVersionPasses
<1>3. ChuCoinsPass(chu') /\ ChuGrows
  BY DEF ChuWrite, ChuInv, ChuState, ChuFields, ChuCoinsPass, ChuGrows
<1>4. ChuPressStays(chu')
  BY DEF ChuWrite, ChuInv, ChuState, ChuFields, ChuPressStays
<1> QED
  BY <1>1, <1>2, <1>3, <1>4 DEF ChuInv

(* All fields are on the page.                                             *)
LEMMA ChuWrittenKeeps ==
  ASSUME ChuInv, ChuWritten
  PROVE  ChuInv' /\ ChuGrows
<1>1. chu' \in ChuState
  BY DEF ChuWritten, ChuInv, ChuState
<1>2. ChuVersionPasses(chu')
  BY DEF ChuWritten, ChuInv, ChuState, ChuFields, ChuVersionPasses
<1>3. ChuCoinsPass(chu') /\ ChuGrows
  BY DEF ChuWritten, ChuInv, ChuState, ChuFields, ChuCoinsPass, ChuGrows
<1>4. ChuPressStays(chu')
  BY DEF ChuWritten, ChuInv, ChuState, ChuFields, ChuPressStays
<1> QED
  BY <1>1, <1>2, <1>3, <1>4 DEF ChuInv

(* The page is opened, or tried again, or given up.                        *)
LEMMA ChuLoadKeeps ==
  ASSUME ChuInv, shmem_load
  PROVE  ChuInv' /\ ChuGrows
<1>1. CASE chu' = [chu EXCEPT !.at64 = "read", !.tries = 0, !.call = "version",
                               !.todo64 = ChuFields]
  <2>1. chu' \in ChuState
    BY <1>1 DEF ChuInv, ChuState
  <2>2. ChuVersionPasses(chu')
    BY <1>1 DEF ChuInv, ChuState, ChuFields, ChuVersionPasses
  <2>3. ChuCoinsPass(chu') /\ ChuGrows
    BY <1>1 DEF ChuInv, ChuState, ChuFields, ChuCoinsPass, ChuGrows
  <2>4. ChuPressStays(chu')
    BY <1>1 DEF ChuInv, ChuState, ChuFields, ChuPressStays
  <2> QED
    BY <2>1, <2>2, <2>3, <2>4 DEF ChuInv
<1>2. CASE chu' = [chu EXCEPT !.tries = @ + 1]
  <2>1. chu' \in ChuState
    BY <1>2 DEF ChuInv, ChuState
  <2>2. ChuVersionPasses(chu')
    BY <1>2 DEF ChuInv, ChuState, ChuFields, ChuVersionPasses
  <2>3. ChuCoinsPass(chu') /\ ChuGrows
    BY <1>2 DEF ChuInv, ChuState, ChuFields, ChuCoinsPass, ChuGrows
  <2>4. ChuPressStays(chu')
    BY <1>2 DEF ChuInv, ChuState, ChuFields, ChuPressStays
  <2> QED
    BY <2>1, <2>2, <2>3, <2>4 DEF ChuInv
<1>3. CASE chu' = [chu EXCEPT !.at64 = "failed"]
  <2>1. chu' \in ChuState
    BY <1>3 DEF ChuInv, ChuState
  <2>2. ChuVersionPasses(chu')
    BY <1>3 DEF ChuInv, ChuState, ChuFields, ChuVersionPasses
  <2>3. ChuCoinsPass(chu') /\ ChuGrows
    BY <1>3 DEF ChuInv, ChuState, ChuFields, ChuCoinsPass, ChuGrows
  <2>4. ChuPressStays(chu')
    BY <1>3 DEF ChuInv, ChuState, ChuFields, ChuPressStays
  <2> QED
    BY <2>1, <2>2, <2>3, <2>4 DEF ChuInv
<1> QED
  BY <1>1, <1>2, <1>3 DEF shmem_load

(* A field is copied from the page.                                        *)
LEMMA ChuReadKeeps ==
  ASSUME ChuInv, NEW f \in ChuFields, ChuRead(f)
  PROVE  ChuInv' /\ ChuGrows
<1>1. chu' \in ChuState
  BY DEF ChuRead, ChuInv, ChuState
<1>2. ChuVersionPasses(chu')
  BY DEF ChuRead, ChuInv, ChuState, ChuFields, ChuVersionPasses
<1>3. ChuCoinsPass(chu') /\ ChuGrows
  BY DEF ChuRead, ChuInv, ChuState, ChuFields, ChuCoinsPass, ChuGrows
<1>4. ChuPressStays(chu')
  BY DEF ChuRead, ChuInv, ChuState, ChuFields, ChuPressStays
<1> QED
  BY <1>1, <1>2, <1>3, <1>4 DEF ChuInv

(* The version is read again, or taken.                                    *)
LEMMA ChuVersion64Keeps ==
  ASSUME ChuInv, ChuGetVersion64
  PROVE  ChuInv' /\ ChuGrows
<1>1. CASE chu' = [chu EXCEPT !.tries = @ + 1, !.todo64 = ChuFields]
  <2> DEFINE tries == chu.tries + 1
             todo == ChuFields
  <2>1. tries \in Nat /\ todo \in SUBSET ChuFields /\ "buttons" \in todo
    BY DEF ChuInv, ChuState, ChuFields
  <2>2. chu' = [chu EXCEPT !.tries = tries, !.todo64 = todo]
    BY <1>1
  <2> HIDE DEF tries, todo
  <2>3. chu' \in ChuState
    BY <2>2, <2>1 DEF ChuInv, ChuState
  <2>4. ChuVersionPasses(chu')
    BY <2>2, <2>1 DEF ChuInv, ChuState, ChuFields, ChuVersionPasses
  <2>5. ChuCoinsPass(chu') /\ ChuGrows
    BY <2>2, <2>1 DEF ChuInv, ChuState, ChuFields, ChuCoinsPass, ChuGrows
  <2>6. ChuPressStays(chu')
    BY <2>2, <2>1 DEF ChuInv, ChuState, ChuFields, ChuPressStays
  <2> QED
    BY <2>3, <2>4, <2>5, <2>6 DEF ChuInv
<1> DEFINE v == ChuVersion(chu.x64["version"])
<1>2. v \in Nat /\ v \in {ChuVersion(chu.dll), ChuDefault}
  BY DEF ChuVersion, ChuDefault, ChuInv, ChuState, ChuFields, ChuVersionPasses
<1> HIDE DEF v
<1>3. CASE chu' = [chu EXCEPT !.at64 = "idle", !.version = v]
  <2>1. chu' \in ChuState
    BY <1>2, <1>3 DEF ChuInv, ChuState
  <2>2. ChuVersionPasses(chu')
    BY <1>2, <1>3 DEF ChuInv, ChuState, ChuFields, ChuVersionPasses
  <2>3. ChuCoinsPass(chu') /\ ChuGrows
    BY <1>2, <1>3 DEF ChuInv, ChuState, ChuFields, ChuCoinsPass, ChuGrows
  <2>4. ChuPressStays(chu')
    BY <1>2, <1>3 DEF ChuInv, ChuState, ChuFields, ChuPressStays
  <2> QED
    BY <2>1, <2>2, <2>3, <2>4 DEF ChuInv
<1> QED
  BY <1>1, <1>3 DEF ChuGetVersion64, v

(* The game calls.                                                         *)
LEMMA ChuCallKeeps ==
  ASSUME ChuInv, NEW call \in {"coin", "poll"}, ChuCall(call)
  PROVE  ChuInv' /\ ChuGrows
<1>1. chu.call # "version" \/ chu.at64 = "idle"
  BY DEF ChuCall
<1>2. chu' \in ChuState
  BY DEF ChuCall, ChuInv, ChuState
<1>3. ChuVersionPasses(chu')
  BY DEF ChuCall, ChuInv, ChuState, ChuFields, ChuVersionPasses
<1>4. ChuCoinsPass(chu') /\ ChuGrows
  BY DEF ChuCall, ChuInv, ChuState, ChuFields, ChuCoinsPass, ChuGrows
<1>5. ChuPressStays(chu')
  BY DEF ChuCall, ChuInv, ChuState, ChuFields, ChuPressStays
<1> QED
  BY <1>2, <1>3, <1>4, <1>5 DEF ChuInv

(* The game is told of the coins.                                          *)
LEMMA ChuCoinKeeps ==
  ASSUME ChuInv, chu2to3_io_jvs_read_coin_counter
  PROVE  ChuInv' /\ ChuGrows
<1>1. chu' \in ChuState
  BY DEF chu2to3_io_jvs_read_coin_counter, ChuHasRead, ChuInv, ChuState, ChuFields
<1>2. ChuVersionPasses(chu')
  BY DEF chu2to3_io_jvs_read_coin_counter, ChuHasRead, ChuInv, ChuState, ChuFields,
       ChuVersionPasses
<1>3. ChuCoinsPass(chu') /\ ChuGrows
  BY DEF chu2to3_io_jvs_read_coin_counter, ChuHasRead, ChuInv, ChuState, ChuFields,
       ChuCoinsPass, ChuGrows
<1>4. ChuPressStays(chu')
  BY DEF chu2to3_io_jvs_read_coin_counter, ChuHasRead, ChuInv, ChuState, ChuFields,
       ChuPressStays
<1> QED
  BY <1>1, <1>2, <1>3, <1>4 DEF ChuInv

(* The game is told of the buttons.                                        *)
LEMMA ChuPolledKeeps ==
  ASSUME ChuInv, chu2to3_io_jvs_poll
  PROVE  ChuInv' /\ ChuGrows
<1>1. chu' \in ChuState
  BY DEF chu2to3_io_jvs_poll, ChuHasRead, ChuInv, ChuState
<1>2. ChuVersionPasses(chu')
  BY DEF chu2to3_io_jvs_poll, ChuHasRead, ChuInv, ChuState, ChuFields, ChuVersionPasses
<1>3. ChuCoinsPass(chu') /\ ChuGrows
  BY DEF chu2to3_io_jvs_poll, ChuHasRead, ChuInv, ChuState, ChuFields, ChuCoinsPass,
       ChuGrows
<1>4. ChuPressStays(chu')
  BY DEF chu2to3_io_jvs_poll, ChuHasRead, ChuInv, ChuState, ChuFields, ChuPressStays
<1> QED
  BY <1>1, <1>2, <1>3, <1>4 DEF ChuInv

(* Nothing was read: every field of the page is zero.                      *)
LEMMA ChuInitInv == ChuInit => ChuInv
<1> SUFFICES ASSUME ChuInit PROVE ChuInv
  OBVIOUS
<1>1. ChuZero \in [ChuFields -> Nat] /\ \A f \in ChuFields : ChuZero[f] = 0
  BY DEF ChuZero
<1>2. chu \in ChuState
  BY <1>1, ChuAssumption DEF ChuAssumption, ChuInit, ChuState
<1>3. ChuVersionPasses(chu) /\ ChuCoinsPass(chu) /\ ChuPressStays(chu)
  BY <1>1 DEF ChuInit, ChuVersionPasses, ChuCoinsPass, ChuPressStays, ChuFields
<1> QED
  BY <1>2, <1>3 DEF ChuInv

(* Every step of the two processes keeps it, and lets the coins only grow. *)
LEMMA ChuKeepsInv == ChuInv /\ [ChuNext]_chu => ChuInv' /\ ChuGrows
<1> SUFFICES ASSUME ChuInv, [ChuNext]_chu PROVE ChuInv' /\ ChuGrows
  OBVIOUS
<1>1. CASE UNCHANGED chu
  BY <1>1 DEF ChuInv, ChuState, ChuGrows, ChuCoinsPass, ChuFields
<1>2. CASE ChuNext
  BY <1>2, ChuPlayerKeeps, ChuCreateKeeps, ChuVersion86Keeps, ChuPollCoinKeeps,
       ChuPollKeeps,
     ChuWriteKeeps, ChuWrittenKeeps, ChuLoadKeeps, ChuReadKeeps, ChuVersion64Keeps,
     ChuCallKeeps, ChuCoinKeeps, ChuPolledKeeps DEF ChuNext
<1> QED
  BY <1>1, <1>2

(* For any DLL, any number of coins and of attempts: the version is that   *)
(* of the DLL (or the default, where the x86 process is late), a button    *)
(* that is held is seen by every call, and the coins that are told only    *)
(* grow and are coins, however the two copies of the page interleave.      *)
THEOREM BridgeIsRight == ChuSpec => ChuIsRight
<1>1. ChuInv => ChuTypeOK /\ ChuVersionIsRight /\ ChuHeldIsSeen
  <2> SUFFICES ASSUME ChuInv PROVE ChuTypeOK /\ ChuVersionIsRight /\ ChuHeldIsSeen
    OBVIOUS
  <2>1. ChuVersion(chu.dll) # 0
    BY DEF ChuVersion, ChuDefault
  <2>2. ChuTypeOK
    BY <2>1 DEF ChuInv, ChuState, ChuVersionPasses, ChuTypeOK
  <2>3. ChuVersionIsRight
    BY DEF ChuInv, ChuState, ChuVersionPasses, ChuVersionIsRight
  <2>4. ChuHeldIsSeen
    BY DEF ChuInv, ChuPressStays, ChuHeldIsSeen, ChuHasRead
  <2> QED
    BY <2>2, <2>3, <2>4
<1>2. ChuInv /\ [ChuNext]_chu => [chu'.coin >= chu.coin /\ chu'.coin <= chu.coins]_chu
  <2> SUFFICES ASSUME ChuInv, ChuNext PROVE chu'.coin >= chu.coin /\ chu'.coin <= chu.coins
    OBVIOUS
  <2> QED
    <3>1. ChuInv' /\ ChuGrows
      BY ChuKeepsInv
    <3> QED
      BY <3>1 DEF ChuGrows
<1> QED
  BY <1>1, <1>2, ChuInitInv, ChuKeepsInv, PTL DEF ChuSpec, ChuIsRight, ChuCoinsGrow

-----------------------------------------------------------------------------
(* The LED output.                                                         *)

LedShape(l) ==
  l = [pc |-> l.pc, unescaped |-> l.unescaped, write_buf |-> l.write_buf,
          update |-> l.update, sent |-> l.sent, is_init |-> l.is_init,
          init_lock |-> l.init_lock, mutex |-> l.mutex, threads |-> l.threads, at |-> l.at,
          i |-> l.i, client |-> l.client, clients |-> l.clients]

(* For each board: its thread, whether it is marked, its bytes and what    *)
(* was sent of them.                                                       *)
LedTables(l) ==
  /\ l.pc \in [LedBoard -> {"start", "init", "idle", "wait", "copy"}]
  /\ l.update \in [LedBoard -> BOOLEAN]
  /\ l.unescaped = [b \in LedBoard |-> l.unescaped[b]]
  /\ l.write_buf = [b \in LedBoard |-> l.write_buf[b]]
  /\ l.sent = [b \in LedBoard |-> l.sent[b]]

(* Who has the mutex (-1 before it is made, 0 nobody) and where the thread *)
(* that writes is.                                                         *)
LedPlaces(l) ==
  /\ l.is_init \in BOOLEAN
  /\ l.mutex \in -1..LedPipeOwner /\ l.threads \in 0..1 /\ l.i \in LedBoard
  /\ l.at \in {"none", "create", "connect", "lock", "write", "written", "close"}

(* Before the first board is used nothing has been made.                   *)
LedFresh(l) ==
  /\ l.mutex = -1 => l.at = "none" /\ \A b \in LedBoard : l.sent[b] = l.write_buf[b]
  /\ ~l.is_init => l.mutex = -1 /\ l.threads = 0

(* The mutex is with who is between taking it and giving it back, and with *)
(* nobody else.                                                            *)
LedHeld(l) ==
  /\ l.mutex \in LedBoard => l.pc[l.mutex] = "copy"
  /\ \A b \in LedBoard : l.pc[b] = "copy" => l.mutex = b
  /\ l.mutex = LedPipeOwner <=> l.at \in {"write", "written"}

(* What is being shown has been written, or is marked.                     *)
LedMarked(l) ==
  /\ \A b \in LedBoard : l.update[b] \/ l.sent[b] = l.write_buf[b]
  /\ l.at = "written" => l.sent[l.i] = l.write_buf[l.i]

LedInv ==
  /\ LedShape(ledpipe) /\ LedTables(ledpipe) /\ LedPlaces(ledpipe)
  /\ LedFresh(ledpipe) /\ LedHeld(ledpipe) /\ LedMarked(ledpipe)

(* The places of the threads and of the mutex are told apart.              *)
LEMMA LedOwnersDiffer ==
  /\ LedBoards \in Nat \ {0} /\ LedBoard = 1..LedBoards
  /\ LedPipeOwner = LedBoards + 1 /\ LedPipeOwner \notin LedBoard
  /\ 0 \notin LedBoard /\ -1 \notin LedBoard /\ LedBoard \subseteq -1..LedPipeOwner
  /\ 0 \in -1..LedPipeOwner /\ LedPipeOwner \in -1..LedPipeOwner /\ 1 \in LedBoard
  /\ LedPipeOwner # -1 /\ LedPipeOwner # 0
BY LedAssumption DEF LedAssumption, LedBoard, LedPipeOwner

(* A thread waits for the mutex of the start.                              *)
LEMMA LedInitWaitKeeps ==
  ASSUME LedInv, NEW b \in LedBoard, LedInitWait(b)
  PROVE  LedInv'
<1>1. LedShape(ledpipe')
  BY LedOwnersDiffer DEF LedInitWait, LedInv, LedShape
<1>2. LedTables(ledpipe')
  BY LedOwnersDiffer DEF LedInitWait, LedInv, LedShape, LedTables
<1>3. LedPlaces(ledpipe')
  BY LedOwnersDiffer DEF LedInitWait, LedInv, LedShape, LedPlaces
<1>4. LedFresh(ledpipe')
  BY LedOwnersDiffer DEF LedInitWait, LedInv, LedShape, LedTables, LedPlaces, LedFresh
<1>5. LedHeld(ledpipe')
  BY LedOwnersDiffer DEF LedInitWait, LedInv, LedShape, LedTables, LedPlaces, LedHeld
<1>6. LedMarked(ledpipe')
  BY LedOwnersDiffer DEF LedInitWait, LedInv, LedShape, LedTables, LedPlaces, LedFresh,
     LedHeld, LedMarked
<1> QED
  BY <1>1, <1>2, <1>3, <1>4, <1>5, <1>6 DEF LedInv

(* The pipe is made at the first start, or cannot be made.                 *)
LEMMA LedInitKeeps ==
  ASSUME LedInv, NEW b \in LedBoard, led_output_init(b)
  PROVE  LedInv'
<1>1. PICK l \in IF ledpipe.is_init THEN {ledpipe} ELSE led_pipe_init(ledpipe) :
        ledpipe' = [l EXCEPT !.is_init = TRUE, !.init_lock = 0, !.pc[b] = "idle"]
  BY DEF led_output_init
<1>2. ledpipe.pc[b] = "init"
  BY DEF led_output_init
<1>3. CASE l = ledpipe
  <2>1. LedShape(ledpipe')
    BY <1>1, <1>2, <1>3, LedOwnersDiffer DEF LedInv, LedShape
  <2>2. LedTables(ledpipe')
    BY <1>1, <1>2, <1>3, LedOwnersDiffer DEF LedInv, LedShape, LedTables
  <2>3. LedPlaces(ledpipe')
    BY <1>1, <1>2, <1>3, LedOwnersDiffer DEF LedInv, LedShape, LedPlaces
  <2>4. LedFresh(ledpipe')
    BY <1>1, <1>2, <1>3, LedOwnersDiffer DEF LedInv, LedShape, LedTables, LedPlaces,
       LedFresh
  <2>5. LedHeld(ledpipe')
    BY <1>1, <1>2, <1>3, LedOwnersDiffer
      DEF LedInv, LedShape, LedTables, LedPlaces, LedHeld
  <2>6. LedMarked(ledpipe')
    BY <1>1, <1>2, <1>3, LedOwnersDiffer DEF LedInv, LedShape, LedTables, LedPlaces,
       LedFresh, LedHeld, LedMarked
  <2> QED
    BY <2>1, <2>2, <2>3, <2>4, <2>5, <2>6 DEF LedInv
<1>4. CASE /\ ~ledpipe.is_init
           /\ l = [ledpipe EXCEPT !.mutex = 0, !.update = [c \in LedBoard |-> FALSE],
                                  !.threads = @ + 1, !.at = "create"]
  <2>1. /\ ledpipe.mutex = -1 /\ ledpipe.threads = 0 /\ ledpipe.at = "none"
        /\ \A c \in LedBoard : ledpipe.sent[c] = ledpipe.write_buf[c]
    BY <1>4 DEF LedInv, LedFresh
  <2>2. LedShape(l)
    BY <1>4 DEF LedInv, LedShape
  <2>3. /\ l.mutex = 0 /\ l.update = [c \in LedBoard |-> FALSE]
        /\ l.threads = 1 /\ l.at = "create" /\ l.pc = ledpipe.pc /\ l.sent = ledpipe.sent
        /\ l.write_buf = ledpipe.write_buf /\ l.unescaped = ledpipe.unescaped
        /\ l.i = ledpipe.i /\ l.is_init = ledpipe.is_init
    BY <1>4, <2>1 DEF LedInv, LedShape
  <2>4. LedTables(l) /\ LedPlaces(l)
    BY <2>1, <2>3, LedOwnersDiffer DEF LedInv, LedTables, LedPlaces
  <2>5. LedHeld(l) /\ LedMarked(l)
    BY <2>1, <2>3, LedOwnersDiffer DEF LedInv, LedTables, LedHeld, LedMarked
  <2>6. LedShape(ledpipe')
    BY <1>1, <1>2, <2>2, <2>3, <2>4, <2>5, LedOwnersDiffer DEF LedInv, LedShape
  <2>7. LedTables(ledpipe')
    BY <1>1, <1>2, <2>2, <2>3, <2>4, <2>5, LedOwnersDiffer
      DEF LedInv, LedShape, LedTables
  <2>8. LedPlaces(ledpipe')
    BY <1>1, <1>2, <2>2, <2>3, <2>4, <2>5, LedOwnersDiffer
      DEF LedInv, LedShape, LedPlaces
  <2>9. LedFresh(ledpipe')
    BY <1>1, <1>2, <2>2, <2>3, <2>4, <2>5, LedOwnersDiffer
      DEF LedInv, LedShape, LedTables,
       LedPlaces, LedFresh
  <2>10. LedHeld(ledpipe')
    BY <1>1, <1>2, <2>2, <2>3, <2>4, <2>5, LedOwnersDiffer
      DEF LedInv, LedShape, LedTables,
       LedPlaces, LedHeld
  <2>11. LedMarked(ledpipe')
    BY <1>1, <1>2, <2>2, <2>3, <2>4, <2>5, LedOwnersDiffer
      DEF LedInv, LedShape, LedTables,
       LedPlaces, LedFresh, LedHeld, LedMarked
  <2> QED
    BY <2>6, <2>7, <2>8, <2>9, <2>10, <2>11 DEF LedInv
<1> QED
  BY <1>1, <1>3, <1>4 DEF led_pipe_init

(* A board is told to show something.                                      *)
LEMMA LedUpdateKeeps ==
  ASSUME LedInv, NEW b \in LedBoard, led_output_update(b)
  PROVE  LedInv'
<1>1. ledpipe.pc[b] = "idle"
  BY DEF led_output_update
<1>2. PICK data : ledpipe' = [ledpipe EXCEPT !.pc[b] = "wait", !.unescaped[b] = data]
  BY DEF led_output_update
<1>3. LedShape(ledpipe')
  BY <1>1, <1>2, LedOwnersDiffer DEF LedInv, LedShape
<1>4. LedTables(ledpipe')
  BY <1>1, <1>2, LedOwnersDiffer DEF LedInv, LedShape, LedTables
<1>5. LedPlaces(ledpipe')
  BY <1>1, <1>2, LedOwnersDiffer DEF LedInv, LedShape, LedPlaces
<1>6. LedFresh(ledpipe')
  BY <1>1, <1>2, LedOwnersDiffer DEF LedInv, LedShape, LedTables, LedPlaces, LedFresh
<1>7. LedHeld(ledpipe')
  BY <1>1, <1>2, LedOwnersDiffer DEF LedInv, LedShape, LedTables, LedPlaces, LedHeld
<1>8. LedMarked(ledpipe')
  BY <1>1, <1>2, LedOwnersDiffer DEF LedInv, LedShape, LedTables, LedPlaces, LedFresh,
     LedHeld, LedMarked
<1> QED
  BY <1>3, <1>4, <1>5, <1>6, <1>7, <1>8 DEF LedInv

(* The mutex is taken for the copy; without one the wait fails.            *)
LEMMA LedUpdateWaitKeeps ==
  ASSUME LedInv, NEW b \in LedBoard, LedUpdateWait(b)
  PROVE  LedInv'
<1>1. CASE ledpipe.mutex = 0 /\ ledpipe' = [ledpipe EXCEPT !.pc[b] = "copy", !.mutex = b]
  <2>1. LedShape(ledpipe')
    BY <1>1, LedOwnersDiffer DEF LedUpdateWait, LedInv, LedShape
  <2>2. LedTables(ledpipe')
    BY <1>1, LedOwnersDiffer DEF LedUpdateWait, LedInv, LedShape, LedTables
  <2>3. LedPlaces(ledpipe')
    BY <1>1, LedOwnersDiffer DEF LedUpdateWait, LedInv, LedShape, LedPlaces
  <2>4. LedFresh(ledpipe')
    BY <1>1, LedOwnersDiffer DEF LedUpdateWait, LedInv, LedShape, LedTables, LedPlaces,
       LedFresh
  <2>5. LedHeld(ledpipe')
    BY <1>1, LedOwnersDiffer DEF LedUpdateWait, LedInv, LedShape, LedTables, LedPlaces,
       LedHeld
  <2>6. LedMarked(ledpipe')
    BY <1>1, LedOwnersDiffer DEF LedUpdateWait, LedInv, LedShape, LedTables, LedPlaces,
       LedFresh, LedHeld, LedMarked
  <2> QED
    BY <2>1, <2>2, <2>3, <2>4, <2>5, <2>6 DEF LedInv
<1>2. CASE ledpipe' = [ledpipe EXCEPT !.pc[b] = "idle"]
  <2>1. LedShape(ledpipe')
    BY <1>2, LedOwnersDiffer DEF LedUpdateWait, LedInv, LedShape
  <2>2. LedTables(ledpipe')
    BY <1>2, LedOwnersDiffer DEF LedUpdateWait, LedInv, LedShape, LedTables
  <2>3. LedPlaces(ledpipe')
    BY <1>2, LedOwnersDiffer DEF LedUpdateWait, LedInv, LedShape, LedPlaces
  <2>4. LedFresh(ledpipe')
    BY <1>2, LedOwnersDiffer DEF LedUpdateWait, LedInv, LedShape, LedTables, LedPlaces,
       LedFresh
  <2>5. LedHeld(ledpipe')
    BY <1>2, LedOwnersDiffer DEF LedUpdateWait, LedInv, LedShape, LedTables, LedPlaces,
       LedHeld
  <2>6. LedMarked(ledpipe')
    BY <1>2, LedOwnersDiffer DEF LedUpdateWait, LedInv, LedShape, LedTables, LedPlaces,
       LedFresh, LedHeld, LedMarked
  <2> QED
    BY <2>1, <2>2, <2>3, <2>4, <2>5, <2>6 DEF LedInv
<1> QED
  BY <1>1, <1>2 DEF LedUpdateWait, LedFree

(* The packet is copied and marked.                                        *)
LEMMA LedCopyKeeps ==
  ASSUME LedInv, NEW b \in LedBoard, led_pipe_update(b)
  PROVE  LedInv'
<1>1. ledpipe.mutex = b /\ ledpipe.is_init
  BY LedOwnersDiffer DEF led_pipe_update, LedInv, LedFresh, LedHeld, LedPlaces
<1>2. PICK packet : ledpipe' = [ledpipe EXCEPT !.write_buf[b] = packet, !.update[b] = TRUE,
                                               !.mutex = 0, !.pc[b] = "idle"]
  BY DEF led_pipe_update
<1>3. LedShape(ledpipe')
  BY <1>1, <1>2, LedOwnersDiffer DEF LedInv, LedShape
<1>4. LedTables(ledpipe')
  BY <1>1, <1>2, LedOwnersDiffer DEF LedInv, LedShape, LedTables
<1>5. LedPlaces(ledpipe')
  BY <1>1, <1>2, LedOwnersDiffer DEF LedInv, LedShape, LedPlaces
<1>6. LedFresh(ledpipe')
  BY <1>1, <1>2, LedOwnersDiffer DEF LedInv, LedShape, LedTables, LedPlaces, LedFresh
<1>7. LedHeld(ledpipe')
  BY <1>1, <1>2, LedOwnersDiffer DEF LedInv, LedShape, LedTables, LedPlaces, LedHeld
<1>8. LedMarked(ledpipe')
  BY <1>1, <1>2, LedOwnersDiffer DEF LedInv, LedShape, LedTables, LedPlaces, LedFresh,
     LedHeld, LedMarked
<1> QED
  BY <1>3, <1>4, <1>5, <1>6, <1>7, <1>8 DEF LedInv

(* The pipe is made.                                                       *)
LEMMA LedCreateKeeps ==
  ASSUME LedInv, pipe_create
  PROVE  LedInv'
<1>1. LedShape(ledpipe')
  BY LedOwnersDiffer DEF pipe_create, LedInv, LedShape
<1>2. LedTables(ledpipe')
  BY LedOwnersDiffer DEF pipe_create, LedInv, LedShape, LedTables
<1>3. LedPlaces(ledpipe')
  BY LedOwnersDiffer DEF pipe_create, LedInv, LedShape, LedPlaces
<1>4. LedFresh(ledpipe')
  BY LedOwnersDiffer DEF pipe_create, LedInv, LedShape, LedTables, LedPlaces, LedFresh
<1>5. LedHeld(ledpipe')
  BY LedOwnersDiffer DEF pipe_create, LedInv, LedShape, LedTables, LedPlaces, LedHeld
<1>6. LedMarked(ledpipe')
  BY LedOwnersDiffer DEF pipe_create, LedInv, LedShape, LedTables, LedPlaces, LedFresh,
     LedHeld, LedMarked
<1> QED
  BY <1>1, <1>2, <1>3, <1>4, <1>5, <1>6 DEF LedInv

(* A client connects, or the wait fails.                                   *)
LEMMA LedConnectKeeps ==
  ASSUME LedInv, LedConnected
  PROVE  LedInv'
<1>1. CASE ledpipe' = [ledpipe EXCEPT !.at = "lock", !.client = "reads"]
  <2>1. LedShape(ledpipe')
    BY <1>1, LedOwnersDiffer DEF LedConnected, LedInv, LedShape
  <2>2. LedTables(ledpipe')
    BY <1>1, LedOwnersDiffer DEF LedConnected, LedInv, LedShape, LedTables
  <2>3. LedPlaces(ledpipe')
    BY <1>1, LedOwnersDiffer DEF LedConnected, LedInv, LedShape, LedPlaces
  <2>4. LedFresh(ledpipe')
    BY <1>1, LedOwnersDiffer DEF LedConnected, LedInv, LedShape, LedTables, LedPlaces,
       LedFresh
  <2>5. LedHeld(ledpipe')
    BY <1>1, LedOwnersDiffer DEF LedConnected, LedInv, LedShape, LedTables, LedPlaces,
       LedHeld
  <2>6. LedMarked(ledpipe')
    BY <1>1, LedOwnersDiffer DEF LedConnected, LedInv, LedShape, LedTables, LedPlaces,
       LedFresh, LedHeld, LedMarked
  <2> QED
    BY <2>1, <2>2, <2>3, <2>4, <2>5, <2>6 DEF LedInv
<1>2. CASE ledpipe' = [ledpipe EXCEPT !.at = "close"]
  <2>1. LedShape(ledpipe')
    BY <1>2, LedOwnersDiffer DEF LedConnected, LedInv, LedShape
  <2>2. LedTables(ledpipe')
    BY <1>2, LedOwnersDiffer DEF LedConnected, LedInv, LedShape, LedTables
  <2>3. LedPlaces(ledpipe')
    BY <1>2, LedOwnersDiffer DEF LedConnected, LedInv, LedShape, LedPlaces
  <2>4. LedFresh(ledpipe')
    BY <1>2, LedOwnersDiffer DEF LedConnected, LedInv, LedShape, LedTables, LedPlaces,
       LedFresh
  <2>5. LedHeld(ledpipe')
    BY <1>2, LedOwnersDiffer DEF LedConnected, LedInv, LedShape, LedTables, LedPlaces,
       LedHeld
  <2>6. LedMarked(ledpipe')
    BY <1>2, LedOwnersDiffer DEF LedConnected, LedInv, LedShape, LedTables, LedPlaces,
       LedFresh, LedHeld, LedMarked
  <2> QED
    BY <2>1, <2>2, <2>3, <2>4, <2>5, <2>6 DEF LedInv
<1> QED
  BY <1>1, <1>2 DEF LedConnected

(* The thread of the pipe takes the mutex.                                 *)
LEMMA LedLockKeeps ==
  ASSUME LedInv, LedPipeLock
  PROVE  LedInv'
<1>1. LedShape(ledpipe')
  BY LedOwnersDiffer DEF LedPipeLock, LedFree, LedInv, LedShape
<1>2. LedTables(ledpipe')
  BY LedOwnersDiffer DEF LedPipeLock, LedFree, LedInv, LedShape, LedTables
<1>3. LedPlaces(ledpipe')
  BY LedOwnersDiffer DEF LedPipeLock, LedFree, LedInv, LedShape, LedPlaces
<1>4. LedFresh(ledpipe')
  BY LedOwnersDiffer DEF LedPipeLock, LedFree, LedInv, LedShape, LedTables, LedPlaces,
     LedFresh
<1>5. LedHeld(ledpipe')
  BY LedOwnersDiffer DEF LedPipeLock, LedFree, LedInv, LedShape, LedTables, LedPlaces,
     LedHeld
<1>6. LedMarked(ledpipe')
  BY LedOwnersDiffer DEF LedPipeLock, LedFree, LedInv, LedShape, LedTables, LedPlaces,
     LedFresh, LedHeld, LedMarked
<1> QED
  BY <1>1, <1>2, <1>3, <1>4, <1>5, <1>6 DEF LedInv

(* After a board comes the next, or the mutex is given back: for a record  *)
(* in which the thread has the mutex and this board needs no mark.         *)
LEMMA LedNextKeeps ==
  ASSUME NEW l, LedShape(l), LedTables(l), LedPlaces(l), LedFresh(l), LedHeld(l),
         l.at \in {"write", "written"},
         \A b \in LedBoard : l.update[b] \/ l.sent[b] = l.write_buf[b],
         ledpipe' = LedNextBoard(l)
  PROVE  LedInv'
<1>1. CASE l.i < LedBoards /\ ledpipe' = [l EXCEPT !.i = @ + 1, !.at = "write"]
  <2>1. LedShape(ledpipe')
    BY <1>1, LedOwnersDiffer DEF LedInv, LedShape
  <2>2. LedTables(ledpipe')
    BY <1>1, LedOwnersDiffer DEF LedInv, LedShape, LedTables
  <2>3. LedPlaces(ledpipe')
    BY <1>1, LedOwnersDiffer DEF LedInv, LedShape, LedPlaces
  <2>4. LedFresh(ledpipe')
    BY <1>1, LedOwnersDiffer DEF LedInv, LedShape, LedTables, LedPlaces, LedFresh
  <2>5. LedHeld(ledpipe')
    BY <1>1, LedOwnersDiffer DEF LedInv, LedShape, LedTables, LedPlaces, LedHeld
  <2>6. LedMarked(ledpipe')
    BY <1>1, LedOwnersDiffer
      DEF LedInv, LedShape, LedTables, LedPlaces, LedFresh, LedHeld,
       LedMarked
  <2> QED
    BY <2>1, <2>2, <2>3, <2>4, <2>5, <2>6 DEF LedInv
<1>2. CASE ledpipe' = [l EXCEPT !.at = "lock", !.mutex = 0]
  <2>1. LedShape(ledpipe')
    BY <1>2, LedOwnersDiffer DEF LedInv, LedShape
  <2>2. LedTables(ledpipe')
    BY <1>2, LedOwnersDiffer DEF LedInv, LedShape, LedTables
  <2>3. LedPlaces(ledpipe')
    BY <1>2, LedOwnersDiffer DEF LedInv, LedShape, LedPlaces
  <2>4. LedFresh(ledpipe')
    BY <1>2, LedOwnersDiffer DEF LedInv, LedShape, LedTables, LedPlaces, LedFresh
  <2>5. LedHeld(ledpipe')
    BY <1>2, LedOwnersDiffer DEF LedInv, LedShape, LedTables, LedPlaces, LedHeld
  <2>6. LedMarked(ledpipe')
    BY <1>2, LedOwnersDiffer
      DEF LedInv, LedShape, LedTables, LedPlaces, LedFresh, LedHeld,
       LedMarked
  <2> QED
    BY <2>1, <2>2, <2>3, <2>4, <2>5, <2>6 DEF LedInv
<1> QED
  BY <1>1, <1>2 DEF LedNextBoard

(* A board is passed over, written, or finds no client.                    *)
LEMMA LedPassKeeps ==
  ASSUME LedInv, pipe_write
  PROVE  LedInv'
<1>1. CASE ledpipe' = LedNextBoard(ledpipe)
  BY <1>1, LedNextKeeps DEF pipe_write, LedInv, LedMarked
<1>2. CASE /\ ledpipe.update[ledpipe.i]
           /\ ledpipe' = [ledpipe EXCEPT !.at = "written",
                              !.sent[ledpipe.i] = ledpipe.write_buf[ledpipe.i]]
  <2>1. LedShape(ledpipe')
    BY <1>2, LedOwnersDiffer DEF pipe_write, LedInv, LedShape
  <2>2. LedTables(ledpipe')
    BY <1>2, LedOwnersDiffer DEF pipe_write, LedInv, LedShape, LedTables
  <2>3. LedPlaces(ledpipe')
    BY <1>2, LedOwnersDiffer DEF pipe_write, LedInv, LedShape, LedPlaces
  <2>4. LedFresh(ledpipe')
    BY <1>2, LedOwnersDiffer DEF pipe_write, LedInv, LedShape, LedTables, LedPlaces,
       LedFresh
  <2>5. LedHeld(ledpipe')
    BY <1>2, LedOwnersDiffer
      DEF pipe_write, LedInv, LedShape, LedTables, LedPlaces, LedHeld
  <2>6. LedMarked(ledpipe')
    BY <1>2, LedOwnersDiffer DEF pipe_write, LedInv, LedShape, LedTables, LedPlaces,
       LedFresh, LedHeld, LedMarked
  <2> QED
    BY <2>1, <2>2, <2>3, <2>4, <2>5, <2>6 DEF LedInv
<1>3. CASE ledpipe' = [ledpipe EXCEPT !.at = "close", !.mutex = 0]
  <2>1. LedShape(ledpipe')
    BY <1>3, LedOwnersDiffer DEF pipe_write, LedInv, LedShape
  <2>2. LedTables(ledpipe')
    BY <1>3, LedOwnersDiffer DEF pipe_write, LedInv, LedShape, LedTables
  <2>3. LedPlaces(ledpipe')
    BY <1>3, LedOwnersDiffer DEF pipe_write, LedInv, LedShape, LedPlaces
  <2>4. LedFresh(ledpipe')
    BY <1>3, LedOwnersDiffer DEF pipe_write, LedInv, LedShape, LedTables, LedPlaces,
       LedFresh
  <2>5. LedHeld(ledpipe')
    BY <1>3, LedOwnersDiffer
      DEF pipe_write, LedInv, LedShape, LedTables, LedPlaces, LedHeld
  <2>6. LedMarked(ledpipe')
    BY <1>3, LedOwnersDiffer DEF pipe_write, LedInv, LedShape, LedTables, LedPlaces,
       LedFresh, LedHeld, LedMarked
  <2> QED
    BY <2>1, <2>2, <2>3, <2>4, <2>5, <2>6 DEF LedInv
<1> QED
  BY <1>1, <1>2, <1>3 DEF pipe_write

(* What was written loses its mark.                                        *)
LEMMA LedWrittenKeeps ==
  ASSUME LedInv, LedWritten
  PROVE  LedInv'
<1> DEFINE l == [ledpipe EXCEPT !.update[ledpipe.i] = FALSE]
<1>1. ledpipe.at = "written" /\ ledpipe.i \in LedBoard
  BY DEF LedWritten, LedInv, LedPlaces
<1>2. LedShape(l)
  <2>1. PICK marks : l = [ledpipe EXCEPT !.update = marks]
    OBVIOUS
  <2> HIDE DEF l
  <2> QED
    BY <2>1 DEF LedInv, LedShape
<1>3. LedTables(l) /\ LedPlaces(l)
  BY <1>1 DEF LedInv, LedShape, LedTables, LedPlaces
<1>4. LedFresh(l) /\ LedHeld(l) /\ l.at = "written"
  BY <1>1 DEF LedInv, LedShape, LedFresh, LedHeld
<1>5. \A b \in LedBoard : l.update[b] \/ l.sent[b] = l.write_buf[b]
  BY <1>1 DEF LedInv, LedShape, LedTables, LedMarked
<1> QED
  BY <1>1, <1>2, <1>3, <1>4, <1>5, LedNextKeeps DEF LedWritten

(* The pipe is closed.                                                     *)
LEMMA LedCloseKeeps ==
  ASSUME LedInv, LedClose
  PROVE  LedInv'
<1>1. LedShape(ledpipe')
  BY LedOwnersDiffer DEF LedClose, LedInv, LedShape
<1>2. LedTables(ledpipe')
  BY LedOwnersDiffer DEF LedClose, LedInv, LedShape, LedTables
<1>3. LedPlaces(ledpipe')
  BY LedOwnersDiffer DEF LedClose, LedInv, LedShape, LedPlaces
<1>4. LedFresh(ledpipe')
  BY LedOwnersDiffer DEF LedClose, LedInv, LedShape, LedTables, LedPlaces, LedFresh
<1>5. LedHeld(ledpipe')
  BY LedOwnersDiffer DEF LedClose, LedInv, LedShape, LedTables, LedPlaces, LedHeld
<1>6. LedMarked(ledpipe')
  BY LedOwnersDiffer DEF LedClose, LedInv, LedShape, LedTables, LedPlaces, LedFresh,
     LedHeld, LedMarked
<1> QED
  BY <1>1, <1>2, <1>3, <1>4, <1>5, <1>6 DEF LedInv

(* A client comes, stalls, reads or goes.                                  *)
LEMMA LedClientKeeps ==
  ASSUME LedInv, LedClient
  PROVE  LedInv'
<1>1. PICK client, clients : ledpipe' = [ledpipe EXCEPT !.client = client, !.clients = clients]
  <2>1. ledpipe = [ledpipe EXCEPT !.client = ledpipe.client, !.clients = ledpipe.clients]
    BY DEF LedInv, LedShape
  <2>2. CASE ledpipe' = [ledpipe EXCEPT !.client = "waits", !.clients = ledpipe.clients + 1]
    BY <2>2
  <2>3. ASSUME NEW c, ledpipe' = [ledpipe EXCEPT !.client = c]
        PROVE  ledpipe' = [ledpipe EXCEPT !.client = c, !.clients = ledpipe.clients]
    BY <2>1, <2>3 DEF LedInv, LedShape
  <2> QED
    BY <2>2, <2>3 DEF LedClient
<1>2. LedShape(ledpipe')
  BY <1>1, LedOwnersDiffer DEF LedInv, LedShape
<1>3. LedTables(ledpipe')
  BY <1>1, LedOwnersDiffer DEF LedInv, LedShape, LedTables
<1>4. LedPlaces(ledpipe')
  BY <1>1, LedOwnersDiffer DEF LedInv, LedShape, LedPlaces
<1>5. LedFresh(ledpipe')
  BY <1>1, LedOwnersDiffer DEF LedInv, LedShape, LedTables, LedPlaces, LedFresh
<1>6. LedHeld(ledpipe')
  BY <1>1, LedOwnersDiffer DEF LedInv, LedShape, LedTables, LedPlaces, LedHeld
<1>7. LedMarked(ledpipe')
  BY <1>1, LedOwnersDiffer
    DEF LedInv, LedShape, LedTables, LedPlaces, LedFresh, LedHeld,
     LedMarked
<1> QED
  BY <1>2, <1>3, <1>4, <1>5, <1>6, <1>7 DEF LedInv

(* Nothing was made, so nothing is held or shown.                          *)
LEMMA LedInitInv == LedInit => LedInv
<1> SUFFICES ASSUME LedInit PROVE LedInv
  OBVIOUS
<1>1. LedShape(ledpipe) /\ LedTables(ledpipe) /\ LedPlaces(ledpipe)
  BY LedOwnersDiffer DEF LedInit, LedShape, LedTables, LedPlaces
<1>2. LedFresh(ledpipe) /\ LedHeld(ledpipe) /\ LedMarked(ledpipe)
  BY LedOwnersDiffer DEF LedInit, LedFresh, LedHeld, LedMarked
<1> QED
  BY <1>1, <1>2 DEF LedInv

(* Every step of the boards, of the writer and of the client keeps it.     *)
LEMMA LedKeepsInv == LedInv /\ [LedNext]_ledpipe => LedInv'
<1> SUFFICES ASSUME LedInv, [LedNext]_ledpipe PROVE LedInv'
  OBVIOUS
<1>1. CASE UNCHANGED ledpipe
  BY <1>1 DEF LedInv
<1>2. ASSUME NEW b \in LedBoard, LedGame(b) PROVE LedInv'
  BY <1>2, LedInitWaitKeeps, LedInitKeeps, LedUpdateKeeps, LedUpdateWaitKeeps,
       LedCopyKeeps
    DEF LedGame
<1>3. CASE LedPipeThread
  BY <1>3, LedCreateKeeps, LedConnectKeeps, LedLockKeeps, LedPassKeeps, LedWrittenKeeps,
     LedCloseKeeps DEF LedPipeThread
<1>4. CASE LedClient
  BY <1>4, LedClientKeeps
<1> QED
  BY <1>1, <1>2, <1>3, <1>4 DEF LedNext

(* For any boards, patterns and clients: what a board was told to show     *)
(* stays marked until a client has read it whole, and the mutex is always  *)
(* with a thread that will give it back.                                   *)
THEOREM ColoursAreNotLost == LedSpec => [](LedTypeOK /\ LedNothingIsLost /\ LedMutexIsHeld)
<1>1. LedInv => LedTypeOK /\ LedNothingIsLost /\ LedMutexIsHeld
  BY DEF LedInv, LedTables, LedPlaces, LedHeld, LedMarked, LedTypeOK, LedNothingIsLost,
       LedMutexIsHeld
<1> QED
  BY <1>1, LedInitInv, LedKeepsInv, PTL DEF LedSpec

-----------------------------------------------------------------------------
(* The Y3 card table.                                                      *)

Y3Places == Y3Cards \cup {Y3Invalid}

Y3Shape(y) ==
  y = [is_initialized |-> y.is_initialized, card_info |-> y.card_info,
       card_info_size |-> y.card_info_size, lock |-> y.lock, open |-> y.open, ws |-> y.ws,
       todo |-> y.todo, at |-> y.at, i |-> y.i, out |-> y.out, num |-> y.num,
       field |-> y.field, during |-> y.during, messages |-> y.messages]

(* The cards of the table, of a message and of a copy are cards or the one *)
(* that is not valid; the counters are bounded.                            *)
Y3Types(y) ==
  /\ y.is_initialized \in BOOLEAN /\ y.open \in BOOLEAN
  /\ y.card_info \in [1..Y3MaxCards -> Y3Places] /\ y.card_info_size \in 0..Y3MaxCards
  /\ y.lock \in {"free", "server", "game"} /\ y.ws \in {"stopped", "idle", "lock", "fill"}
  /\ y.todo \in Seq(Y3Places) /\ y.field \in Seq(Y3Places) /\ y.out \in Seq(Y3Places)
  /\ y.at \in {"idle", "copy", "size", "told"} /\ y.i \in Nat /\ y.num \in Nat

(* The cards that lie on the table in a state.                             *)
Y3Lie(y) == SubSeq(y.card_info, 1, y.card_info_size)

(* The lock is with who copies or fills.                                   *)
Y3Held(y) ==
  /\ y.lock = "game" <=> y.at \in {"copy", "size"}
  /\ y.lock = "server" <=> y.ws = "fill"
  /\ ~y.is_initialized => y.ws = "stopped"

(* What the game has copied are the first cards of the table, and what     *)
(* lies there now, or nothing, lay there during the call.                  *)
Y3Copied(y) ==
  y.at \in {"copy", "size"} =>
    /\ Len(y.out) = y.i /\ y.i <= Y3MaxCards
    /\ \A j \in 1..y.i : y.out[j] = y.card_info[j]
    /\ Y3Lie(y) \in y.during
    /\ y.at = "size" => y.card_info_size <= y.i

(* What the game uses lay on the table at one moment of its call.          *)
Y3Told(y) == y.at = "told" => y.num <= Len(y.out) /\ SubSeq(y.out, 1, y.num) \in y.during

(* The field that is laid is that of the message, cut to the table: what   *)
(* lies there is its beginning, and what is left to do its end.            *)
Y3Cut(n) == IF n < Y3MaxCards THEN n ELSE Y3MaxCards
Y3Laid(y) ==
  /\ y.ws = "lock" =>
       /\ y.card_info_size = 0 /\ Len(y.field) = Y3Cut(Len(y.todo))
       /\ \A j \in 1..Len(y.field) : y.field[j] = y.todo[j]
  /\ y.ws = "fill" =>
       /\ Len(y.field) = Y3Cut(y.card_info_size + Len(y.todo))
       /\ \A j \in 1..y.card_info_size : y.field[j] = y.card_info[j]
       /\ \A j \in 1..Len(y.todo) : y.card_info_size + j <= Y3MaxCards =>
            y.field[y.card_info_size + j] = y.todo[j]
  /\ y.ws = "idle" => Y3Lie(y) = y.field \/ y.card_info = Y3Empty

Y3Inv ==
  /\ Y3Shape(y3) /\ Y3Types(y3) /\ Y3Held(y3)
  /\ Y3Copied(y3) /\ Y3Told(y3) /\ Y3Laid(y3)

(* The cards of a field are cards.                                         *)
LEMMA Y3Constants ==
  /\ Y3MaxCards \in Nat \ {0} /\ Y3Empty \in [1..Y3MaxCards -> Y3Places]
  /\ Y3Fields \subseteq Seq(Y3Places)
BY Y3Assumption DEF Y3Assumption, Y3Empty, Y3Places, Y3Invalid

(* The first cards of a table or of a copy.                                *)
LEMMA Y3FirstCards ==
  ASSUME NEW s, NEW n \in Nat, \A j \in 1..n : s[j] \in Y3Places
  PROVE  /\ SubSeq(s, 1, n) \in Seq(Y3Places) /\ Len(SubSeq(s, 1, n)) = n
         /\ \A j \in 1..n : SubSeq(s, 1, n)[j] = s[j]
         /\ n = 0 => SubSeq(s, 1, n) = <<>>
<1>1. n \in Int /\ 1 \in Int
  OBVIOUS
<1>2. PICK first : first = SubSeq(s, 1, n)
  OBVIOUS
<1>3. /\ first \in Seq(Y3Places)
      /\ Len(first) = IF 1 <= n THEN n - 1 + 1 ELSE 0
      /\ \A j \in 1..n - 1 + 1 : first[j] = s[1 + j - 1]
  BY <1>1, <1>2, SubSeqProperties
<1>4. n = 0 => first = <<>>
  BY <1>1, <1>2, SubSeqEmpty
<1>5. Len(first) = n
  BY <1>3
<1>6. \A j \in 1..n : first[j] = s[j]
  BY <1>3
<1> QED
  BY <1>2, <1>3, <1>4, <1>5, <1>6

(* The cards that lie on a table, as a sequence.                           *)
LEMMA Y3LieIs ==
  ASSUME NEW info \in [1..Y3MaxCards -> Y3Places], NEW n \in 0..Y3MaxCards
  PROVE  /\ SubSeq(info, 1, n) \in Seq(Y3Places) /\ Len(SubSeq(info, 1, n)) = n
         /\ \A j \in 1..n : SubSeq(info, 1, n)[j] = info[j]
         /\ n = 0 => SubSeq(info, 1, n) = <<>>
<1>1. n \in Nat /\ \A j \in 1..n : info[j] \in Y3Places
  BY Y3Constants
<1> QED
  BY <1>1, Y3FirstCards

(* The port is opened, and with the first the server is started.           *)
LEMMA Y3ConnectKeeps ==
  ASSUME Y3Inv, API_Connect
  PROVE  Y3Inv'
<1>1. CASE /\ y3.at = "idle" /\ ~y3.is_initialized
           /\ y3' = [y3 EXCEPT !.card_info = Y3Empty, !.is_initialized = TRUE,
                               !.open = TRUE, !.ws = "idle"]
  <2>1. Y3Shape(y3')
    BY <1>1, Y3Constants DEF Y3Inv, Y3Shape
  <2>2. Y3Types(y3')
    BY <1>1, Y3Constants DEF Y3Inv, Y3Shape, Y3Types
  <2>3. Y3Held(y3')
    BY <1>1, Y3Constants DEF Y3Inv, Y3Shape, Y3Types, Y3Held
  <2>4. Y3Copied(y3')
    BY <1>1, Y3Constants DEF Y3Inv, Y3Shape, Y3Types, Y3Held, Y3Copied, Y3Lie
  <2>5. Y3Told(y3')
    BY <1>1, Y3Constants DEF Y3Inv, Y3Shape, Y3Types, Y3Held, Y3Told
  <2>6. Y3Laid(y3')
    BY <1>1, Y3Constants DEF Y3Inv, Y3Shape, Y3Types, Y3Held, Y3Laid, Y3Lie
  <2> QED
    BY <2>1, <2>2, <2>3, <2>4, <2>5, <2>6 DEF Y3Inv
<1>2. CASE /\ y3.at = "idle" /\ ~y3.is_initialized
           /\ y3' = [y3 EXCEPT !.card_info = Y3Empty]
  <2>1. Y3Shape(y3')
    BY <1>2, Y3Constants DEF Y3Inv, Y3Shape
  <2>2. Y3Types(y3')
    BY <1>2, Y3Constants DEF Y3Inv, Y3Shape, Y3Types
  <2>3. Y3Held(y3')
    BY <1>2, Y3Constants DEF Y3Inv, Y3Shape, Y3Types, Y3Held
  <2>4. Y3Copied(y3')
    BY <1>2, Y3Constants DEF Y3Inv, Y3Shape, Y3Types, Y3Held, Y3Copied, Y3Lie
  <2>5. Y3Told(y3')
    BY <1>2, Y3Constants DEF Y3Inv, Y3Shape, Y3Types, Y3Held, Y3Told
  <2>6. Y3Laid(y3')
    BY <1>2, Y3Constants DEF Y3Inv, Y3Shape, Y3Types, Y3Held, Y3Laid, Y3Lie
  <2> QED
    BY <2>1, <2>2, <2>3, <2>4, <2>5, <2>6 DEF Y3Inv
<1>3. CASE y3.at = "idle" /\ y3' = [y3 EXCEPT !.open = TRUE]
  <2>1. Y3Shape(y3')
    BY <1>3, Y3Constants DEF Y3Inv, Y3Shape
  <2>2. Y3Types(y3')
    BY <1>3, Y3Constants DEF Y3Inv, Y3Shape, Y3Types
  <2>3. Y3Held(y3')
    BY <1>3, Y3Constants DEF Y3Inv, Y3Shape, Y3Types, Y3Held
  <2>4. Y3Copied(y3')
    BY <1>3, Y3Constants DEF Y3Inv, Y3Shape, Y3Types, Y3Held, Y3Copied, Y3Lie
  <2>5. Y3Told(y3')
    BY <1>3, Y3Constants DEF Y3Inv, Y3Shape, Y3Types, Y3Held, Y3Told
  <2>6. Y3Laid(y3')
    BY <1>3, Y3Constants DEF Y3Inv, Y3Shape, Y3Types, Y3Held, Y3Laid, Y3Lie
  <2> QED
    BY <2>1, <2>2, <2>3, <2>4, <2>5, <2>6 DEF Y3Inv
<1> QED
  BY <1>1, <1>2, <1>3 DEF API_Connect

(* The server is stopped between two messages.                             *)
LEMMA Y3CloseKeeps ==
  ASSUME Y3Inv, API_Close
  PROVE  Y3Inv'
<1>1. Y3Shape(y3')
  BY Y3Constants DEF API_Close, Y3Inv, Y3Shape
<1>2. Y3Types(y3')
  BY Y3Constants DEF API_Close, Y3Inv, Y3Shape, Y3Types
<1>3. Y3Held(y3')
  BY Y3Constants DEF API_Close, Y3Inv, Y3Shape, Y3Types, Y3Held
<1>4. Y3Copied(y3')
  BY Y3Constants DEF API_Close, Y3Inv, Y3Shape, Y3Types, Y3Held, Y3Copied, Y3Lie
<1>5. Y3Told(y3')
  BY Y3Constants DEF API_Close, Y3Inv, Y3Shape, Y3Types, Y3Held, Y3Told
<1>6. Y3Laid(y3')
  BY Y3Constants DEF API_Close, Y3Inv, Y3Shape, Y3Types, Y3Held, Y3Laid, Y3Lie
<1> QED
  BY <1>1, <1>2, <1>3, <1>4, <1>5, <1>6 DEF Y3Inv

(* A message comes: the size is reset.                                     *)
LEMMA Y3SetKeeps ==
  ASSUME Y3Inv, NEW field \in Y3Fields, Y3SetField(field)
  PROVE  Y3Inv'
<1>1. PICK cut : cut = IF Len(field) > Y3MaxCards THEN SubSeq(field, 1, Y3MaxCards) ELSE field
  OBVIOUS
<1>2. /\ field \in Seq(Y3Places) /\ cut \in Seq(Y3Places) /\ Len(cut) = Y3Cut(Len(field))
      /\ \A j \in 1..Len(cut) : cut[j] = field[j]
  <2>1. field \in Seq(Y3Places) /\ Len(field) \in Nat
    BY Y3Constants
  <2>2. CASE Len(field) > Y3MaxCards
    <3>1. \A j \in 1..Y3MaxCards : field[j] \in Y3Places
      BY <2>1, <2>2, Y3Constants
    <3>2. /\ SubSeq(field, 1, Y3MaxCards) \in Seq(Y3Places)
          /\ Len(SubSeq(field, 1, Y3MaxCards)) = Y3MaxCards
          /\ \A j \in 1..Y3MaxCards : SubSeq(field, 1, Y3MaxCards)[j] = field[j]
      BY <3>1, Y3Constants, Y3FirstCards
    <3> QED
      BY <1>1, <2>1, <2>2, <3>2, Y3Constants DEF Y3Cut
  <2>3. CASE ~(Len(field) > Y3MaxCards)
    BY <1>1, <2>1, <2>3, Y3Constants DEF Y3Cut
  <2> QED
    BY <2>2, <2>3
<1>3. /\ y3.ws = "idle"
      /\ y3' = [y3 EXCEPT !.ws = "lock", !.todo = field, !.card_info_size = 0,
                          !.messages = @ + 1, !.during = @ \cup {<<>>}, !.field = cut]
  BY <1>1 DEF Y3SetField
<1>4. Y3Lie(y3') = <<>>
  BY <1>3, Y3Constants, Y3LieIs DEF Y3Inv, Y3Shape, Y3Types, Y3Lie
<1>5. Y3Shape(y3')
  BY <1>2, <1>3, <1>4, Y3Constants DEF Y3Inv, Y3Shape
<1>6. Y3Types(y3')
  BY <1>2, <1>3, <1>4, Y3Constants DEF Y3Inv, Y3Shape, Y3Types
<1>7. Y3Held(y3')
  BY <1>2, <1>3, <1>4, Y3Constants DEF Y3Inv, Y3Shape, Y3Types, Y3Held
<1>8. Y3Copied(y3')
  BY <1>2, <1>3, <1>4, Y3Constants DEF Y3Inv, Y3Shape, Y3Types, Y3Held, Y3Copied, Y3Lie
<1>9. Y3Told(y3')
  BY <1>2, <1>3, <1>4, Y3Constants DEF Y3Inv, Y3Shape, Y3Types, Y3Held, Y3Told
<1>10. Y3Laid(y3')
  BY <1>2, <1>3, <1>4, Y3Constants DEF Y3Inv, Y3Shape, Y3Types, Y3Held, Y3Laid, Y3Lie
<1> QED
  BY <1>5, <1>6, <1>7, <1>8, <1>9, <1>10 DEF Y3Inv

(* The table is cleared under the lock.                                    *)
LEMMA Y3LockKeeps ==
  ASSUME Y3Inv, Y3Lock
  PROVE  Y3Inv'
<1>1. Y3Shape(y3')
  BY Y3Constants DEF Y3Lock, Y3Inv, Y3Shape
<1>2. Y3Types(y3')
  BY Y3Constants DEF Y3Lock, Y3Inv, Y3Shape, Y3Types
<1>3. Y3Held(y3')
  BY Y3Constants DEF Y3Lock, Y3Inv, Y3Shape, Y3Types, Y3Held
<1>4. Y3Copied(y3')
  BY Y3Constants DEF Y3Lock, Y3Inv, Y3Shape, Y3Types, Y3Held, Y3Copied, Y3Lie
<1>5. Y3Told(y3')
  BY Y3Constants DEF Y3Lock, Y3Inv, Y3Shape, Y3Types, Y3Held, Y3Told
<1>6. Y3Laid(y3')
  <2>1. /\ y3.ws = "lock"
        /\ y3' = [y3 EXCEPT !.ws = "fill", !.lock = "server", !.card_info = Y3Empty]
        /\ Len(y3.todo) \in Nat
    BY DEF Y3Lock, Y3Inv, Y3Types
  <2>2. /\ y3'.ws = "fill" /\ y3'.card_info_size = 0
        /\ y3'.todo = y3.todo /\ y3'.field = y3.field
        /\ Len(y3.field) = Y3Cut(Len(y3.todo))
        /\ \A j \in 1..Len(y3.field) : y3.field[j] = y3.todo[j]
    BY <2>1 DEF Y3Inv, Y3Shape, Y3Laid
  <2> QED
    BY <2>1, <2>2, Y3Constants DEF Y3Laid, Y3Cut
<1> QED
  BY <1>1, <1>2, <1>3, <1>4, <1>5, <1>6 DEF Y3Inv

(* A card is put down.                                                     *)
LEMMA Y3PutKeeps ==
  ASSUME Y3Inv, Y3PutCard
  PROVE  Y3Inv'
<1>1. PICK card, rest, size : card = Head(y3.todo) /\ rest = Tail(y3.todo)
                             /\ size = y3.card_info_size + 1
  OBVIOUS
<1>2. /\ y3.ws = "fill" /\ y3.todo # <<>> /\ y3.card_info_size < Y3MaxCards
      /\ y3' = [y3 EXCEPT !.card_info[size] = card, !.card_info_size = size, !.todo = rest]
  BY <1>1 DEF Y3PutCard
<1>3. /\ card \in Y3Places /\ rest \in Seq(Y3Places) /\ Len(rest) = Len(y3.todo) - 1
      /\ card = y3.todo[1] /\ \A j \in 1..Len(rest) : rest[j] = y3.todo[j + 1]
      /\ Len(y3.todo) \in Nat \ {0}
  BY <1>1, <1>2, HeadTailProperties, EmptySeq DEF Y3Inv, Y3Types
<1>4. size \in 1..Y3MaxCards /\ size = y3.card_info_size + 1
  BY <1>1, <1>2, Y3Constants DEF Y3Inv, Y3Types
<1>5. Y3Shape(y3')
  BY <1>2, <1>3, <1>4, Y3Constants DEF Y3Inv, Y3Shape
<1>6. Y3Types(y3')
  BY <1>2, <1>3, <1>4, Y3Constants DEF Y3Inv, Y3Shape, Y3Types
<1>7. Y3Held(y3')
  BY <1>2, <1>3, <1>4, Y3Constants DEF Y3Inv, Y3Shape, Y3Types, Y3Held
<1>8. Y3Copied(y3')
  BY <1>2, <1>3, <1>4, Y3Constants DEF Y3Inv, Y3Shape, Y3Types, Y3Held, Y3Copied, Y3Lie
<1>9. Y3Told(y3')
  BY <1>2, <1>3, <1>4, Y3Constants DEF Y3Inv, Y3Shape, Y3Types, Y3Held, Y3Told
<1>10. Y3Laid(y3')
  <2>1. /\ y3'.ws = "fill" /\ y3'.card_info_size = size /\ y3'.todo = rest
        /\ y3'.field = y3.field /\ y3'.card_info = [y3.card_info EXCEPT ![size] = card]
    BY <1>2 DEF Y3Inv, Y3Shape
  <2>2. /\ Len(y3.field) = Y3Cut(y3.card_info_size + Len(y3.todo))
        /\ \A j \in 1..y3.card_info_size : y3.field[j] = y3.card_info[j]
        /\ \A j \in 1..Len(y3.todo) : y3.card_info_size + j <= Y3MaxCards =>
             y3.field[y3.card_info_size + j] = y3.todo[j]
        /\ y3.card_info_size \in Nat
    BY <1>2, Y3Constants DEF Y3Inv, Y3Laid, Y3Types
  <2>3. y3.card_info_size + Len(y3.todo) = size + Len(rest)
    <3>1. PICK n, m, k : n = y3.card_info_size /\ m = Len(y3.todo) /\ k = Len(rest)
      OBVIOUS
    <3>2. n \in Nat /\ m \in Nat /\ k = m - 1 /\ size = n + 1
      BY <1>3, <1>4, <2>2, <3>1
    <3>3. n + m = size + k
      BY ONLY <3>2
    <3> QED
      BY <3>1, <3>3
  <2>4. y3.field[size] = card
    <3>1. 1 \in 1..Len(y3.todo) /\ y3.card_info_size + 1 <= Y3MaxCards
      BY <1>3, <1>4, Y3Constants
    <3>2. y3.field[y3.card_info_size + 1] = y3.todo[1]
      BY ONLY <2>2, <3>1
    <3> QED
      BY <1>3, <1>4, <3>2
  <2>5. ASSUME NEW j \in 1..size PROVE y3.field[j] = y3'.card_info[j]
    <3>1. size \in DOMAIN y3.card_info /\ j \in DOMAIN y3.card_info
      BY <1>4, Y3Constants DEF Y3Inv, Y3Types
    <3>2. CASE j = size
      BY <2>1, <2>4, <3>1, <3>2
    <3>3. CASE j # size
      <4>1. j \in 1..y3.card_info_size
        BY <1>4, <2>2, <3>3, Y3Constants
      <4> QED
        BY <2>1, <2>2, <3>1, <3>3, <4>1
    <3> QED
      BY <3>2, <3>3
  <2>6. ASSUME NEW j \in 1..Len(rest), size + j <= Y3MaxCards
        PROVE  y3.field[size + j] = rest[j]
    <3>1. j \in Nat /\ j + 1 \in 1..Len(y3.todo) /\ y3.card_info_size + (j + 1) = size + j
      <4>1. PICK n, m, k : n = y3.card_info_size /\ m = Len(y3.todo) /\ k = Len(rest)
        OBVIOUS
      <4>2. n \in Nat /\ m \in Nat /\ k = m - 1 /\ size = n + 1 /\ j \in 1..k
        BY <1>3, <1>4, <2>2, <4>1
      <4>3. j \in Nat /\ j + 1 \in 1..m /\ n + (j + 1) = size + j
        BY ONLY <4>2
      <4> QED
        BY <4>1, <4>3
    <3>2. y3.field[y3.card_info_size + (j + 1)] = y3.todo[j + 1]
      BY ONLY <2>2, <2>6, <3>1
    <3> QED
      BY <1>3, <3>1, <3>2
  <2> QED
    BY <2>1, <2>2, <2>3, <2>5, <2>6 DEF Y3Laid
<1> QED
  BY <1>5, <1>6, <1>7, <1>8, <1>9, <1>10 DEF Y3Inv

(* The field lies there.                                                   *)
LEMMA Y3UnlockKeeps ==
  ASSUME Y3Inv, Y3Unlock
  PROVE  Y3Inv'
<1>1. /\ y3.ws = "fill" /\ (y3.todo = <<>> \/ y3.card_info_size >= Y3MaxCards)
      /\ y3' = [y3 EXCEPT !.ws = "idle", !.lock = "free", !.todo = <<>>,
                          !.during = @ \cup {Y3Lie(y3)}]
  BY DEF Y3Unlock, Y3Now, Y3Lie
<1>2. Y3Lie(y3) = y3.field
  <2>1. /\ Y3Lie(y3) \in Seq(Y3Places) /\ Len(Y3Lie(y3)) = y3.card_info_size
        /\ \A j \in 1..y3.card_info_size : Y3Lie(y3)[j] = y3.card_info[j]
    BY Y3LieIs DEF Y3Inv, Y3Types, Y3Lie
  <2>2. Len(y3.field) = y3.card_info_size
    BY <1>1, Y3Constants, EmptySeq DEF Y3Inv, Y3Types, Y3Laid, Y3Cut
  <2>3. y3.field \in Seq(Y3Places) /\ \A j \in 1..y3.card_info_size : Y3Lie(y3)[j] = y3.field[j]
    BY <1>1, <2>1 DEF Y3Inv, Y3Types, Y3Laid
  <2> QED
    BY <2>1, <2>2, <2>3, SeqEqual
<1>3. Y3Shape(y3')
  BY <1>1, <1>2, Y3Constants DEF Y3Inv, Y3Shape
<1>4. Y3Types(y3')
  BY <1>1, <1>2, Y3Constants DEF Y3Inv, Y3Shape, Y3Types
<1>5. Y3Held(y3')
  BY <1>1, <1>2, Y3Constants DEF Y3Inv, Y3Shape, Y3Types, Y3Held
<1>6. Y3Copied(y3')
  BY <1>1, <1>2, Y3Constants DEF Y3Inv, Y3Shape, Y3Types, Y3Held, Y3Copied, Y3Lie
<1>7. Y3Told(y3')
  BY <1>1, <1>2, Y3Constants DEF Y3Inv, Y3Shape, Y3Types, Y3Held, Y3Told
<1>8. Y3Laid(y3')
  BY <1>1, <1>2, Y3Constants DEF Y3Inv, Y3Shape, Y3Types, Y3Held, Y3Laid, Y3Lie
<1> QED
  BY <1>3, <1>4, <1>5, <1>6, <1>7, <1>8 DEF Y3Inv

(* The game asks for the cards.                                            *)
LEMMA Y3GetKeeps ==
  ASSUME Y3Inv, API_GetCardInfo
  PROVE  Y3Inv'
<1>1. /\ y3.at = "idle" /\ y3.lock = "free"
      /\ y3' = [y3 EXCEPT !.at = "copy", !.lock = "game", !.i = 0, !.out = <<>>,
                          !.during = {Y3Lie(y3)}]
  BY DEF API_GetCardInfo, Y3Now, Y3Lie
<1>2. <<>> \in Seq(Y3Places) /\ Len(<<>>) = 0
  BY EmptySeq
<1>3. Y3Shape(y3')
  BY <1>1, <1>2, Y3Constants DEF Y3Inv, Y3Shape
<1>4. Y3Types(y3')
  BY <1>1, <1>2, Y3Constants DEF Y3Inv, Y3Shape, Y3Types
<1>5. Y3Held(y3')
  BY <1>1, <1>2, Y3Constants DEF Y3Inv, Y3Shape, Y3Types, Y3Held
<1>6. Y3Copied(y3')
  BY <1>1, <1>2, Y3Constants DEF Y3Inv, Y3Shape, Y3Types, Y3Held, Y3Copied, Y3Lie
<1>7. Y3Told(y3')
  BY <1>1, <1>2, Y3Constants DEF Y3Inv, Y3Shape, Y3Types, Y3Held, Y3Told
<1>8. Y3Laid(y3')
  BY <1>1, <1>2, Y3Constants DEF Y3Inv, Y3Shape, Y3Types, Y3Held, Y3Laid, Y3Lie
<1> QED
  BY <1>3, <1>4, <1>5, <1>6, <1>7, <1>8 DEF Y3Inv

(* A card is copied.                                                       *)
LEMMA Y3CopyKeeps ==
  ASSUME Y3Inv, Y3CopyCard
  PROVE  Y3Inv'
<1>1. PICK out : out = Append(y3.out, y3.card_info[y3.i + 1])
  OBVIOUS
<1>2. /\ y3.at = "copy" /\ y3.i < y3.card_info_size
      /\ y3' = [y3 EXCEPT !.out = out, !.i = @ + 1]
  BY <1>1 DEF Y3CopyCard
<1>3. /\ out \in Seq(Y3Places) /\ Len(out) = y3.i + 1
      /\ \A j \in 1..y3.i + 1 : out[j] = y3.card_info[j]
  <2>1. /\ y3.out \in Seq(Y3Places) /\ y3.i \in Nat /\ y3.i + 1 \in 1..Y3MaxCards
        /\ y3.card_info \in [1..Y3MaxCards -> Y3Places]
    BY <1>2, Y3Constants DEF Y3Inv, Y3Types
  <2>2. y3.card_info[y3.i + 1] \in Y3Places
    BY <2>1
  <2>3. Len(y3.out) = y3.i /\ \A j \in 1..y3.i : y3.out[j] = y3.card_info[j]
    BY <1>2 DEF Y3Inv, Y3Copied
  <2> QED
    BY <1>1, <2>1, <2>2, <2>3
<1>4. Y3Shape(y3')
  BY <1>2, <1>3, Y3Constants DEF Y3Inv, Y3Shape
<1>5. Y3Types(y3')
  BY <1>2, <1>3, Y3Constants DEF Y3Inv, Y3Shape, Y3Types
<1>6. Y3Held(y3')
  BY <1>2, <1>3, Y3Constants DEF Y3Inv, Y3Shape, Y3Types, Y3Held
<1>7. Y3Copied(y3')
  BY <1>2, <1>3, Y3Constants DEF Y3Inv, Y3Shape, Y3Types, Y3Held, Y3Copied, Y3Lie
<1>8. Y3Told(y3')
  BY <1>2, <1>3, Y3Constants DEF Y3Inv, Y3Shape, Y3Types, Y3Held, Y3Told
<1>9. Y3Laid(y3')
  BY <1>2, <1>3, Y3Constants DEF Y3Inv, Y3Shape, Y3Types, Y3Held, Y3Laid, Y3Lie
<1> QED
  BY <1>4, <1>5, <1>6, <1>7, <1>8, <1>9 DEF Y3Inv

(* All cards were copied.                                                  *)
LEMMA Y3EndsKeeps ==
  ASSUME Y3Inv, Y3CopyEnds
  PROVE  Y3Inv'
<1>1. Y3Shape(y3')
  BY Y3Constants DEF Y3CopyEnds, Y3Inv, Y3Shape
<1>2. Y3Types(y3')
  BY Y3Constants DEF Y3CopyEnds, Y3Inv, Y3Shape, Y3Types
<1>3. Y3Held(y3')
  BY Y3Constants DEF Y3CopyEnds, Y3Inv, Y3Shape, Y3Types, Y3Held
<1>4. Y3Copied(y3')
  BY Y3Constants DEF Y3CopyEnds, Y3Inv, Y3Shape, Y3Types, Y3Held, Y3Copied, Y3Lie
<1>5. Y3Told(y3')
  BY Y3Constants DEF Y3CopyEnds, Y3Inv, Y3Shape, Y3Types, Y3Held, Y3Told
<1>6. Y3Laid(y3')
  BY Y3Constants DEF Y3CopyEnds, Y3Inv, Y3Shape, Y3Types, Y3Held, Y3Laid, Y3Lie
<1> QED
  BY <1>1, <1>2, <1>3, <1>4, <1>5, <1>6 DEF Y3Inv

(* The game is told how many there are.                                    *)
LEMMA Y3TellKeeps ==
  ASSUME Y3Inv, y3_io_get_cards
  PROVE  Y3Inv'
<1>1. /\ y3.at = "size"
      /\ y3' = [y3 EXCEPT !.at = "told", !.num = y3.card_info_size, !.lock = "free"]
  BY DEF y3_io_get_cards, Y3Inv, Y3Held
<1>2. y3.card_info_size <= Len(y3.out) /\ SubSeq(y3.out, 1, y3.card_info_size) = Y3Lie(y3)
  <2> DEFINE n == y3.card_info_size
  <2>1. /\ Y3Lie(y3) \in Seq(Y3Places) /\ Len(Y3Lie(y3)) = n
        /\ \A j \in 1..n : Y3Lie(y3)[j] = y3.card_info[j]
    BY Y3LieIs DEF Y3Inv, Y3Types, Y3Lie
  <2>2. n \in Nat /\ n <= Len(y3.out) /\ \A j \in 1..n : y3.out[j] = y3.card_info[j]
    BY <1>1, Y3Constants DEF Y3Inv, Y3Types, Y3Copied
  <2>3. \A j \in 1..n : y3.out[j] \in Y3Places
    BY <2>2, Y3Constants DEF Y3Inv, Y3Types
  <2> HIDE DEF n
  <2>4. PICK told : told = SubSeq(y3.out, 1, n)
    OBVIOUS
  <2>5. told \in Seq(Y3Places) /\ Len(told) = n /\ \A j \in 1..n : told[j] = y3.out[j]
    BY <2>2, <2>3, <2>4, Y3FirstCards
  <2>6. \A j \in 1..Len(told) : told[j] = Y3Lie(y3)[j]
    BY <2>1, <2>2, <2>5
  <2>7. told = Y3Lie(y3)
    BY <2>1, <2>5, <2>6, SeqEqual
  <2> QED
    BY <2>2, <2>4, <2>7 DEF n
<1>3. Y3Lie(y3) \in y3.during /\ y3.card_info_size \in Nat
  BY <1>1, Y3Constants DEF Y3Inv, Y3Copied, Y3Types
<1>4. Y3Shape(y3')
  BY <1>1, <1>2, <1>3, Y3Constants DEF Y3Inv, Y3Shape
<1>5. Y3Types(y3')
  BY <1>1, <1>2, <1>3, Y3Constants DEF Y3Inv, Y3Shape, Y3Types
<1>6. Y3Held(y3')
  BY <1>1, <1>2, <1>3, Y3Constants DEF Y3Inv, Y3Shape, Y3Types, Y3Held
<1>7. Y3Copied(y3')
  BY <1>1, <1>2, <1>3, Y3Constants DEF Y3Inv, Y3Shape, Y3Types, Y3Held, Y3Copied, Y3Lie
<1>8. Y3Told(y3')
  BY <1>1, <1>2, <1>3, Y3Constants DEF Y3Inv, Y3Shape, Y3Types, Y3Held, Y3Told
<1>9. Y3Laid(y3')
  BY <1>1, <1>2, <1>3, Y3Constants DEF Y3Inv, Y3Shape, Y3Types, Y3Held, Y3Laid, Y3Lie
<1> QED
  BY <1>4, <1>5, <1>6, <1>7, <1>8, <1>9 DEF Y3Inv

(* The game goes on with the cards.                                        *)
LEMMA Y3UseKeeps ==
  ASSUME Y3Inv, Y3Use
  PROVE  Y3Inv'
<1>1. <<>> \in Seq(Y3Places) /\ Len(<<>>) = 0
  BY EmptySeq
<1>2. Y3Shape(y3')
  BY <1>1, Y3Constants DEF Y3Use, Y3Inv, Y3Shape
<1>3. Y3Types(y3')
  BY <1>1, Y3Constants DEF Y3Use, Y3Inv, Y3Shape, Y3Types
<1>4. Y3Held(y3')
  BY <1>1, Y3Constants DEF Y3Use, Y3Inv, Y3Shape, Y3Types, Y3Held
<1>5. Y3Copied(y3')
  BY <1>1, Y3Constants DEF Y3Use, Y3Inv, Y3Shape, Y3Types, Y3Held, Y3Copied, Y3Lie
<1>6. Y3Told(y3')
  BY <1>1, Y3Constants DEF Y3Use, Y3Inv, Y3Shape, Y3Types, Y3Held, Y3Told
<1>7. Y3Laid(y3')
  BY <1>1, Y3Constants DEF Y3Use, Y3Inv, Y3Shape, Y3Types, Y3Held, Y3Laid, Y3Lie
<1> QED
  BY <1>2, <1>3, <1>4, <1>5, <1>6, <1>7 DEF Y3Inv

(* The table is empty and nobody looks at it.                              *)
LEMMA Y3InitInv == Y3Init => Y3Inv
<1> SUFFICES ASSUME Y3Init PROVE Y3Inv
  OBVIOUS
<1>1. <<>> \in Seq(Y3Places) /\ Len(<<>>) = 0
  BY EmptySeq
<1>2. Y3Shape(y3) /\ Y3Types(y3) /\ Y3Held(y3)
  BY <1>1, Y3Constants DEF Y3Init, Y3Shape, Y3Types, Y3Held
<1>3. Y3Copied(y3) /\ Y3Told(y3) /\ Y3Laid(y3)
  BY DEF Y3Init, Y3Copied, Y3Told, Y3Laid
<1> QED
  BY <1>2, <1>3 DEF Y3Inv

(* Every step of the server, of the messages and of the game keeps it.     *)
LEMMA Y3KeepsInv == Y3Inv /\ [Y3Next]_y3 => Y3Inv'
<1> SUFFICES ASSUME Y3Inv, [Y3Next]_y3 PROVE Y3Inv'
  OBVIOUS
<1>1. CASE UNCHANGED y3
  BY <1>1 DEF Y3Inv
<1>2. CASE API_Connect \/ API_Close \/ Y3Lock \/ Y3PutCard \/ Y3Unlock
  BY <1>2, Y3ConnectKeeps, Y3CloseKeeps, Y3LockKeeps, Y3PutKeeps, Y3UnlockKeeps
<1>3. ASSUME NEW field \in Y3Fields, Y3SetField(field) PROVE Y3Inv'
  BY <1>3, Y3SetKeeps
<1>4. CASE API_GetCardInfo \/ Y3CopyCard \/ Y3CopyEnds \/ y3_io_get_cards \/ Y3Use
  BY <1>4, Y3GetKeeps, Y3CopyKeeps, Y3EndsKeeps, Y3TellKeeps, Y3UseKeeps
<1> QED
  BY <1>1, <1>2, <1>3, <1>4 DEF Y3Next

(* For any cards, table and messages: the game is told the cards of one    *)
(* field that lay there during its call, or none, and what lies there when *)
(* a message was answered is the field of it.                              *)
THEOREM TableIsRight == Y3Spec => []Y3IsRight
<1>1. Y3Inv => Y3IsRight
  BY DEF Y3Inv, Y3Types, Y3Told, Y3Laid, Y3Lie, Y3Now, Y3Places, Y3IsRight, Y3TypeOK,
     Y3TellsOneField, Y3FieldIsLaid
<1> QED
  BY <1>1, Y3InitInv, Y3KeepsInv, PTL DEF Y3Spec

-----------------------------------------------------------------------------
(* Division with a remainder.                                              *)

(* A quotient and a remainder are unique.                                  *)
LEMMA DivUnique ==
  ASSUME NEW d \in Nat \ {0}, NEW k \in Int, NEW l \in Int,
         NEW r \in 0..d - 1, NEW s \in 0..d - 1,
         d * k + r = d * l + s
  PROVE  k = l /\ r = s
<1>1. ASSUME k < l PROVE FALSE
  <2>1. d * (k + 1) <= d * l
    BY <1>1
  <2>2. d * (k + 1) = d * k + d
    OBVIOUS
  <2> QED
    BY <2>1, <2>2
<1>2. ASSUME l < k PROVE FALSE
  <2>1. d * (l + 1) <= d * k
    BY <1>2
  <2>2. d * (l + 1) = d * l + d
    OBVIOUS
  <2> QED
    BY <2>1, <2>2
<1> QED
  BY <1>1, <1>2

(* Every number has a quotient, and what is left is its remainder.         *)
LEMMA ModIs ==
  ASSUME NEW d \in Nat \ {0}, NEW b \in Int
  PROVE  \E q \in Int, r \in 0..d - 1 : b = d * q + r /\ b % d = r
<1>1. b % d \in 0..d - 1 /\ b \div d \in Int /\ b = d * (b \div d) + (b % d)
  OBVIOUS
<1> QED
  BY <1>1

(* The remainder of a number whose quotient is known.                      *)
LEMMA ModOf ==
  ASSUME NEW d \in Nat \ {0}, NEW k \in Int, NEW r \in 0..d - 1
  PROVE  (d * k + r) % d = r
<1>1. PICK b \in Int : b = d * k + r
  OBVIOUS
<1>2. PICK q \in Int, s \in 0..d - 1 : b = d * q + s /\ b % d = s
  BY ModIs
<1>3. d * k + r = d * q + s
  BY <1>1, <1>2
<1>4. r = s
  BY ONLY d \in Nat \ {0}, k \in Int, q \in Int, r \in 0..d - 1, s \in 0..d - 1, <1>3,
       DivUnique
<1> QED
  BY <1>1, <1>2, <1>4

(* Remainders go up by one, and from the last back to zero.                *)
LEMMA ModNext ==
  ASSUME NEW d \in Nat \ {0}, NEW b \in Int
  PROVE  (b + 1) % d = IF (b % d) + 1 < d THEN (b % d) + 1 ELSE 0
<1>1. PICK q \in Int, r \in 0..d - 1 : b = d * q + r /\ b % d = r
  BY ModIs
<1>2. CASE r + 1 < d
  <2>1. b + 1 = d * q + (r + 1) /\ r + 1 \in 0..d - 1
    BY <1>1, <1>2
  <2>2. (b + 1) % d = r + 1
    BY <2>1, ModOf
  <2> QED
    BY <1>1, <1>2, <2>2
<1>3. CASE r + 1 = d
  <2>1. b + 1 = d * (q + 1) + 0 /\ 0 \in 0..d - 1 /\ q + 1 \in Int
    BY <1>1, <1>3
  <2>2. (b + 1) % d = 0
    BY <2>1, ModOf
  <2> QED
    BY <1>1, <1>3, <2>2
<1> QED
  BY <1>2, <1>3

-----------------------------------------------------------------------------
(* The clock.                                                              *)

(* What is assumed of the constants, and the length of a day.              *)
LEMMA ClockConstants ==
  /\ ClockHour \in Nat \ {0} /\ ClockEnd \in Nat /\ ClockStart \in 24 * ClockHour..ClockEnd
  /\ ClockDay \in Nat \ {0} /\ ClockDay = 24 * ClockHour
BY ClockAssumption DEF ClockAssumption, ClockDay

(* The warp of a time: its day, and the hour of the day made shorter.      *)
LEMMA ClockWarpIs ==
  ASSUME NEW real \in Nat
  PROVE  \E q \in Int, t \in 0..ClockDay - 1, w \in Int :
           /\ real + 2 * ClockHour = ClockDay * q + t
           /\ (real + 2 * ClockHour) % ClockDay = t
           /\ w = (t * 19) \div 24 /\ 24 * w <= 19 * t /\ 19 * t < 24 * w + 24
           /\ ClockWarp(real) = real - t + w
<1>1. PICK biased : biased = real + 2 * ClockHour
  OBVIOUS
<1>2. biased \in Nat /\ biased = real + 2 * ClockHour
  BY <1>1, ClockConstants
<1>3. PICK q \in Int, t \in 0..ClockDay - 1 : biased = ClockDay * q + t /\ biased % ClockDay = t
  BY <1>2, ClockConstants, ModIs
<1>4. PICK w \in Int : w = (t * 19) \div 24 /\ 24 * w <= 19 * t /\ 19 * t < 24 * w + 24
  <2>1. t \in Nat
    BY ClockConstants
  <2>2. (t * 19) \div 24 \in Int /\ 24 * ((t * 19) \div 24) <= 19 * t
        /\ 19 * t < 24 * ((t * 19) \div 24) + 24
    BY <2>1
  <2> QED
    BY <2>2
<1>5. ClockWarp(real) = (biased - t) + w - 2 * ClockHour
  BY <1>1, <1>3, <1>4 DEF ClockWarp
<1>6. ClockWarp(real) = real - t + w
  BY <1>2, <1>5, ClockConstants
<1> QED
  BY <1>2, <1>3, <1>4, <1>6

(* The time told is not ahead of the time that is, nor five hours behind.  *)
LEMMA ClockWarpIsNear ==
  ASSUME NEW real \in Nat
  PROVE  ClockWarp(real) \in real - 5 * ClockHour..real
<1>1. PICK q \in Int, t \in 0..ClockDay - 1, w \in Int :
        24 * w <= 19 * t /\ 19 * t < 24 * w + 24 /\ ClockWarp(real) = real - t + w
  BY ClockWarpIs
<1> QED
  BY <1>1, ClockConstants

(* A tick does not take the time told back, not at the end of a day.       *)
LEMMA ClockWarpGrows ==
  ASSUME NEW real \in Nat
  PROVE  ClockWarp(real) <= ClockWarp(real + 1)
<1>1. PICK q \in Int, t \in 0..ClockDay - 1, w \in Int :
        /\ (real + 2 * ClockHour) % ClockDay = t
        /\ 24 * w <= 19 * t /\ 19 * t < 24 * w + 24 /\ ClockWarp(real) = real - t + w
  BY ClockWarpIs
<1>2. PICK next \in Nat : next = real + 1
  OBVIOUS
<1>3. PICK r \in Int, u \in 0..ClockDay - 1, x \in Int :
        /\ (next + 2 * ClockHour) % ClockDay = u
        /\ 24 * x <= 19 * u /\ 19 * u < 24 * x + 24 /\ ClockWarp(next) = next - u + x
  BY ClockWarpIs
<1>4. u = IF t + 1 < ClockDay THEN t + 1 ELSE 0
  <2>1. real + 2 * ClockHour \in Int /\ next + 2 * ClockHour = real + 2 * ClockHour + 1
    BY <1>2, ClockConstants
  <2> QED
    BY <1>1, <1>3, <2>1, ClockConstants, ModNext
<1>5. CASE u = t + 1
  BY <1>1, <1>2, <1>3, <1>5, ClockConstants
<1>6. CASE t + 1 = ClockDay /\ u = 0
  BY <1>1, <1>2, <1>3, <1>6, ClockConstants
<1> QED
  BY <1>2, <1>4, <1>5, <1>6, ClockConstants

(* The warp of a time is outside of the maintenance.                       *)
LEMMA ClockWarpSkips ==
  ASSUME NEW real \in Nat
  PROVE  ~(ClockWarp(real) % ClockDay \in 17 * ClockHour..22 * ClockHour - 1)
<1>1. PICK q \in Int, t \in 0..ClockDay - 1, w \in Int :
        /\ real + 2 * ClockHour = ClockDay * q + t
        /\ 24 * w <= 19 * t /\ 19 * t < 24 * w + 24 /\ ClockWarp(real) = real - t + w
  BY ClockWarpIs
<1>2. w \in 0..19 * ClockHour - 1 /\ ClockWarp(real) = ClockDay * q + (w - 2 * ClockHour)
  BY <1>1, ClockConstants
<1>3. CASE w >= 2 * ClockHour
  <2>1. w - 2 * ClockHour \in 0..ClockDay - 1
    BY <1>2, <1>3, ClockConstants
  <2>2. ClockWarp(real) % ClockDay = w - 2 * ClockHour
    BY <1>2, <2>1, ClockConstants, ModOf
  <2> QED
    BY <1>2, <1>3, <2>2, ClockConstants
<1>4. CASE w < 2 * ClockHour
  <2>1. /\ w + 22 * ClockHour \in 0..ClockDay - 1 /\ q - 1 \in Int
        /\ ClockWarp(real) = ClockDay * (q - 1) + (w + 22 * ClockHour)
    BY <1>2, <1>4, ClockConstants
  <2>2. ClockWarp(real) % ClockDay = w + 22 * ClockHour
    BY <2>1, ClockConstants, ModOf
  <2> QED
    BY <1>2, <1>4, <2>2, ClockConstants
<1> QED
  BY <1>2, <1>3, <1>4, ClockConstants

ClockState == [cfg : ClockSwitches, real : Int, told : Int, next : BOOLEAN]

(* The time of Windows is one the model gets to; nothing was told, or a    *)
(* time five hours before the start at the earliest.                       *)
ClockTypes(c) ==
  /\ c.real \in ClockStart..ClockEnd
  /\ c.told = 0 \/ c.told \in ClockStart - 5 * ClockHour..ClockEnd

(* The game is told no time of the maintenance.                            *)
ClockOutside(c) ==
  c.cfg.timewarp /\ c.cfg.timezone /\ c.told # 0 =>
    ~(c.told % ClockDay \in 17 * ClockHour..22 * ClockHour - 1)

(* What the game was told is not ahead of what it would be told now.       *)
ClockBehind(c) ==
  ~c.cfg.writeable /\ (c.cfg.timezone \/ ~c.cfg.timewarp) =>
    c.told <= IF c.cfg.timewarp THEN ClockWarp(c.real) ELSE c.real

(* An answer that came through the pointer came after it was set.          *)
ClockLinked(c) == c.next => "GetSystemTimeAsFileTime" \in ClockHooked(c.cfg)

ClockGood(c) ==
  c \in ClockState /\ ClockTypes(c) /\ ClockOutside(c) /\ ClockBehind(c) /\ ClockLinked(c)

ClockInv == ClockGood(clock)

(* Nothing was told at the start, and the warp of its time is not negative.*)
LEMMA ClockInitInv == ClockInit => ClockInv
<1> SUFFICES ASSUME ClockInit PROVE ClockInv
  OBVIOUS
<1>1. PICK cfg \in ClockSwitches :
        clock = [cfg |-> cfg, real |-> ClockStart, told |-> 0, next |-> FALSE]
  BY DEF ClockInit
<1>2. ClockStart \in Nat /\ ClockWarp(ClockStart) \in ClockStart - 5 * ClockHour..ClockStart
  BY ClockConstants, ClockWarpIsNear
<1>3. clock \in ClockState /\ ClockTypes(clock)
  BY <1>1, ClockConstants DEF ClockState, ClockTypes
<1>4. ClockOutside(clock) /\ ClockLinked(clock)
  BY <1>1 DEF ClockOutside, ClockLinked
<1>5. ClockBehind(clock)
  BY <1>1, <1>2, ClockConstants DEF ClockBehind
<1> QED
  BY <1>3, <1>4, <1>5 DEF ClockInv, ClockGood

(* A tick takes what would be told forward.                                *)
LEMMA ClockTickKeeps ==
  ASSUME ClockInv, ClockTick PROVE ClockGood(clock')
<1>1. clock \in ClockState /\ ClockTypes(clock) /\ ClockOutside(clock) /\ ClockBehind(clock)
      /\ ClockLinked(clock)
  BY DEF ClockInv, ClockGood
<1>2. clock.real < ClockEnd /\ clock' = [clock EXCEPT !.real = @ + 1]
  BY DEF ClockTick
<1>3. /\ clock'.real = clock.real + 1 /\ clock'.told = clock.told /\ clock'.cfg = clock.cfg
      /\ clock'.next = clock.next /\ clock' \in ClockState
  BY <1>1, <1>2 DEF ClockState
<1>4. clock.real \in Nat /\ ClockWarp(clock.real) <= ClockWarp(clock.real + 1)
      /\ ClockWarp(clock.real) \in Int /\ ClockWarp(clock.real + 1) \in Int
  <2>1. clock.real \in Nat /\ clock.real + 1 \in Nat
    BY <1>1, ClockConstants DEF ClockTypes
  <2>2. PICK next \in Nat : next = clock.real + 1
    BY <2>1
  <2>3. ClockWarp(next) \in next - 5 * ClockHour..next
    BY ClockWarpIsNear
  <2>4. ClockWarp(clock.real) \in clock.real - 5 * ClockHour..clock.real
    BY <2>1, ClockWarpIsNear
  <2>5. ClockWarp(clock.real) <= ClockWarp(clock.real + 1)
    BY <2>1, ClockWarpGrows
  <2> QED
    BY <2>1, <2>2, <2>3, <2>4, <2>5
<1>5. ClockTypes(clock')
  BY <1>1, <1>2, <1>3, ClockConstants DEF ClockTypes
<1>6. ClockOutside(clock') /\ ClockLinked(clock')
  BY <1>1, <1>3 DEF ClockOutside, ClockLinked
<1>7. ClockBehind(clock')
  BY <1>1, <1>3, <1>4 DEF ClockBehind, ClockState
<1> QED
  BY <1>3, <1>5, <1>6, <1>7 DEF ClockGood

(* What an answer is: the time of Windows, or its warp.                    *)
LEMMA ClockAnswerIs ==
  ASSUME ClockInv, NEW api \in ClockAPIs, ClockAsk(api)
  PROVE  /\ clock'.cfg = clock.cfg /\ clock'.real = clock.real /\ clock' \in ClockState
         /\ clock'.next = (api \in ClockHooked(clock.cfg))
         /\ clock'.told = IF api \in ClockHooked(clock.cfg) /\ clock.cfg.timewarp
                          THEN ClockWarp(clock.real) ELSE clock.real
         /\ clock'.told \in clock.real - 5 * ClockHour..clock.real
<1>1. clock \in ClockState /\ clock.real \in Nat
  BY ClockConstants DEF ClockInv, ClockGood, ClockTypes
<1>2. ClockWarp(clock.real) \in clock.real - 5 * ClockHour..clock.real
  BY <1>1, ClockWarpIsNear
<1>3. PICK hooked \in BOOLEAN : hooked = (api \in ClockHooked(clock.cfg))
  <2>1. (api \in ClockHooked(clock.cfg)) \in BOOLEAN
    OBVIOUS
  <2> QED
    BY <2>1, Zenon
<1>4. PICK told \in Int : told = IF hooked /\ clock.cfg.timewarp THEN ClockWarp(clock.real)
                                  ELSE clock.real
  BY <1>1, <1>2, ClockConstants
<1>5. clock' = [clock EXCEPT !.next = hooked, !.told = told]
  BY <1>3, <1>4 DEF ClockAsk
<1>6. /\ clock'.cfg = clock.cfg /\ clock'.real = clock.real /\ clock' \in ClockState
      /\ clock'.next = hooked /\ clock'.told = told
  BY <1>1, <1>5 DEF ClockState
<1>7. told \in clock.real - 5 * ClockHour..clock.real
  BY <1>1, <1>2, <1>4, ClockConstants
<1> QED
  BY <1>3, <1>4, <1>6, <1>7

(* With timezone every function is taken over; with any switch that of     *)
(* file times is.                                                          *)
LEMMA ClockAskKeeps ==
  ASSUME ClockInv, NEW api \in ClockAPIs, ClockAsk(api) PROVE ClockGood(clock')
<1>1. clock \in ClockState /\ ClockTypes(clock) /\ clock.real \in Nat
  BY ClockConstants DEF ClockInv, ClockGood, ClockTypes
<1>2. /\ clock'.cfg = clock.cfg /\ clock'.real = clock.real /\ clock' \in ClockState
      /\ clock'.next = (api \in ClockHooked(clock.cfg))
      /\ clock'.told = IF api \in ClockHooked(clock.cfg) /\ clock.cfg.timewarp
                       THEN ClockWarp(clock.real) ELSE clock.real
      /\ clock'.told \in clock.real - 5 * ClockHour..clock.real
  BY ClockAnswerIs
<1>3. clock.cfg.timezone => api \in ClockHooked(clock.cfg)
  BY DEF ClockHooked, ClockAPIs
<1>4. ClockTypes(clock')
  BY <1>1, <1>2, ClockConstants DEF ClockTypes
<1>5. ClockOutside(clock')
  <2>1. ~(ClockWarp(clock.real) % ClockDay \in 17 * ClockHour..22 * ClockHour - 1)
    BY <1>1, ClockWarpSkips
  <2> QED
    BY <1>2, <1>3, <2>1 DEF ClockOutside
<1>6. ClockBehind(clock')
  <2>1. ASSUME ~clock.cfg.timewarp PROVE ClockBehind(clock')
    BY <1>1, <1>2, <2>1 DEF ClockBehind
  <2>2. ASSUME clock.cfg.timewarp, clock.cfg.timezone PROVE ClockBehind(clock')
    <3>1. clock'.told = ClockWarp(clock.real) /\ clock'.told \in Int
      BY <1>1, <1>2, <1>3, <2>2 DEF ClockState
    <3> QED
      BY <1>2, <2>2, <3>1 DEF ClockBehind
  <2> QED
    BY <1>2, <2>1, <2>2 DEF ClockBehind
<1>7. ClockLinked(clock')
  BY <1>2 DEF ClockLinked, ClockHooked
<1> QED
  BY <1>2, <1>4, <1>5, <1>6, <1>7 DEF ClockGood

(* Only a clock that can be set goes back.                                 *)
LEMMA ClockSetKeeps ==
  ASSUME ClockInv, my_SetSystemTime PROVE ClockGood(clock')
<1>1. clock \in ClockState /\ ClockTypes(clock) /\ ClockOutside(clock) /\ ClockBehind(clock)
      /\ ClockLinked(clock)
  BY DEF ClockInv, ClockGood
<1>2. CASE ~clock.cfg.writeable
  <2>1. clock' = [clock EXCEPT !.real = clock.real]
    BY <1>2 DEF my_SetSystemTime
  <2>2. clock' = clock
    BY <1>1, <2>1 DEF ClockState
  <2> QED
    BY <1>1, <2>2 DEF ClockGood
<1>3. CASE clock.cfg.writeable
  <2>1. clock' = [clock EXCEPT !.real = clock.real - ClockHour]
        /\ clock.real >= ClockStart + ClockHour
    BY <1>3 DEF my_SetSystemTime
  <2>2. /\ clock'.real = clock.real - ClockHour /\ clock'.told = clock.told
        /\ clock'.cfg = clock.cfg /\ clock'.next = clock.next /\ clock' \in ClockState
    BY <1>1, <2>1, ClockConstants DEF ClockState
  <2>3. ClockTypes(clock')
    BY <1>1, <2>1, <2>2, ClockConstants DEF ClockTypes
  <2>4. ClockOutside(clock') /\ ClockLinked(clock') /\ ClockBehind(clock')
    BY <1>1, <1>3, <2>2 DEF ClockOutside, ClockLinked, ClockBehind
  <2> QED
    BY <2>2, <2>3, <2>4 DEF ClockGood
<1> QED
  BY <1>2, <1>3

(* Every step keeps it: a tick, an answer of each function, an attempt to  *)
(* set the time.                                                           *)
LEMMA ClockKeepsInv == ClockInv /\ [ClockNext]_clock => ClockInv'
<1> SUFFICES ASSUME ClockInv, [ClockNext]_clock PROVE ClockGood(clock')
  BY DEF ClockInv
<1>1. CASE ClockTick
  BY <1>1, ClockTickKeeps
<1>2. ASSUME NEW api \in ClockAPIs, ClockAsk(api) PROVE ClockGood(clock')
  BY <1>2, ClockAskKeeps
<1>3. CASE my_SetSystemTime
  BY <1>3, ClockSetKeeps
<1>4. CASE UNCHANGED clock
  BY <1>4 DEF ClockInv
<1> QED
  BY <1>1, <1>2, <1>3, <1>4 DEF ClockNext

(* An answer is not before the one told last, nor ahead of the time that   *)
(* is, nor five hours behind it.                                           *)
LEMMA ClockStepIsRight ==
  ASSUME ClockInv, [ClockNext]_clock
  PROVE  /\ ~clock.cfg.writeable /\ (clock.cfg.timezone \/ ~clock.cfg.timewarp)
              => clock'.told >= clock.told
         /\ clock'.told # clock.told =>
              clock'.told \in clock.real - 5 * ClockHour..clock.real
<1>1. clock \in ClockState /\ ClockTypes(clock) /\ ClockBehind(clock)
  BY DEF ClockInv, ClockGood
<1>2. ASSUME NEW api \in ClockAPIs, ClockAsk(api)
      PROVE  /\ ~clock.cfg.writeable /\ (clock.cfg.timezone \/ ~clock.cfg.timewarp)
                  => clock'.told >= clock.told
             /\ clock'.told \in clock.real - 5 * ClockHour..clock.real
  <2>1. /\ clock'.told = IF api \in ClockHooked(clock.cfg) /\ clock.cfg.timewarp
                         THEN ClockWarp(clock.real) ELSE clock.real
        /\ clock'.told \in clock.real - 5 * ClockHour..clock.real
    BY <1>2, ClockAnswerIs
  <2>2. clock.cfg.timezone => api \in ClockHooked(clock.cfg)
    BY <1>2 DEF ClockHooked, ClockAPIs
  <2> QED
    BY <1>1, <2>1, <2>2 DEF ClockBehind, ClockState
<1>3. ASSUME ClockTick \/ my_SetSystemTime \/ UNCHANGED clock PROVE clock'.told = clock.told
  BY <1>1, <1>3 DEF ClockTick, my_SetSystemTime, ClockState
<1>4. clock.told \in Int
  BY <1>1 DEF ClockState
<1> QED
  BY <1>2, <1>3, <1>4 DEF ClockNext

(* The clock of every game: the time told skips the maintenance, does not  *)
(* go back, is near the time that is, and each function that is taken over *)
(* has that of Windows to ask.                                             *)
THEOREM TimeToldIsRight == ClockSpec => ClockIsRight
<1>1. ClockInv => ClockTypeOK /\ ClockSkipsMaintenance /\ ClockLinks
  <2> SUFFICES ASSUME ClockInv PROVE ClockTypeOK /\ ClockSkipsMaintenance /\ ClockLinks
    OBVIOUS
  <2>1. clock \in ClockState /\ ClockTypes(clock) /\ ClockOutside(clock) /\ ClockLinked(clock)
    BY DEF ClockInv, ClockGood
  <2>2. ClockTypeOK
    BY <2>1 DEF ClockTypeOK, ClockState, ClockTypes
  <2> QED
    BY <2>1, <2>2 DEF ClockSkipsMaintenance, ClockLinks, ClockOutside, ClockLinked
<1>2. ClockInv /\ [ClockNext]_clock =>
        [~clock.cfg.writeable /\ (clock.cfg.timezone \/ ~clock.cfg.timewarp)
           => clock'.told >= clock.told]_clock
  BY ClockStepIsRight
<1>3. ClockInv /\ [ClockNext]_clock =>
        [clock'.told # clock.told =>
           clock'.told \in clock.real - 5 * ClockHour..clock.real]_clock
  BY ClockStepIsRight
<1> QED
  BY <1>1, <1>2, <1>3, ClockInitInv, ClockKeepsInv, PTL
    DEF ClockSpec, ClockIsRight, ClockForward, ClockIsClose

-----------------------------------------------------------------------------
(* The keychip's trace log and its file.                                   *)

(* Two numbers less than d apart have different remainders.                *)
LEMMA ModDiffer ==
  ASSUME NEW d \in Nat \ {0}, NEW a \in Int, NEW b \in Int, a < b, b < a + d
  PROVE  a % d # b % d
<1>1. PICK q \in Int, r \in 0..d - 1 : a = d * q + r /\ a % d = r
  BY ModIs
<1>2. PICK p \in Int, s \in 0..d - 1 : b = d * p + s /\ b % d = s
  BY ModIs
<1> SUFFICES ASSUME r = s PROVE FALSE
  BY <1>1, <1>2
<1>3. d * q < d * p /\ d * p < d * q + d
  BY <1>1, <1>2
<1>4. ASSUME p <= q PROVE FALSE
  <2>1. d * p <= d * q
    BY <1>4
  <2> QED
    BY <1>3, <2>1
<1>5. ASSUME q < p PROVE FALSE
  <2>1. d * (q + 1) <= d * p
    BY <1>5
  <2>2. d * (q + 1) = d * q + d
    OBVIOUS
  <2> QED
    BY <1>3, <2>1, <2>2
<1> QED
  BY <1>4, <1>5

(* What a place of the log can hold.                                       *)
NusecAnything == NusecRecords \cup {NusecNoRecord}

(* The structure has these fields and no others.                           *)
NusecShape(n) ==
  n = [data |-> n.data, file |-> n.file, saved |-> n.saved, persistence |-> n.persistence,
       pc |-> n.pc, told |-> n.told, puts |-> n.puts]

(* A ring of records between its tail and its head.                        *)
NusecRing(d) ==
  /\ d = [log_head |-> d.log_head, log_tail |-> d.log_tail, play_count |-> d.play_count,
          play_limit |-> d.play_limit, nearfull |-> d.nearfull, log |-> d.log]
  /\ d.log_head \in Nat /\ d.log_tail \in 0..d.log_head
  /\ d.log_head - d.log_tail <= NusecLogSize
  /\ d.log \in [0..NusecLogSize - 1 -> NusecAnything]

(* The program is down, idle or in a save, and both what is in memory and  *)
(* what is on file are rings.                                              *)
NusecPlaces(n) ==
  /\ n.pc \in {"down", "idle", "save", "write"}
  /\ NusecRing(n.data) /\ NusecRing(n.saved)

(* What the ring holds from its tail on.                                   *)
NusecHolds(d, puts) ==
  /\ puts \in Seq(NusecAnything) /\ Len(puts) = d.log_head - d.log_tail
  /\ \A i \in 1..Len(puts) : puts[i] = d.log[(d.log_tail + i - 1) % NusecLogSize]

(* The file is what the game was told, or it is not whole; without one it  *)
(* was told of nothing.                                                    *)
NusecOnFile(n) ==
  n.persistence =>
    /\ n.file = "none" => n.told = NusecDefault
    /\ n.file = "whole" => n.told = n.saved

(* The invariant, of the keychip a handler leaves.                         *)
NusecGood(n) ==
  /\ NusecShape(n) /\ NusecPlaces(n) /\ NusecOnFile(n)
  /\ n.pc # "down" => NusecHolds(n.data, n.puts)

NusecInv == NusecGood(nusec)

(* The remainders are places of the ring.                                  *)
LEMMA NusecConstants ==
  /\ NusecLogSize \in Nat \ {0}
  /\ \A b \in Int : b % NusecLogSize \in 0..NusecLogSize - 1
BY NusecAssumption DEF NusecAssumption

(* A record in a place of the log, and another head.                       *)
LEMMA NusecRingPut ==
  ASSUME NEW d, NusecRing(d), NEW r \in NusecAnything, NEW at \in 0..NusecLogSize - 1,
         NEW e, e = [log_head |-> e.log_head, log_tail |-> e.log_tail, play_count |-> e.play_count,
                     play_limit |-> e.play_limit, nearfull |-> e.nearfull, log |-> e.log],
         e.log_head = d.log_head + 1, e.log_tail = d.log_tail, e.log = [d.log EXCEPT ![at] = r],
         d.log_head - d.log_tail < NusecLogSize
  PROVE  NusecRing(e)
<1>1. /\ e.log_head \in Nat /\ e.log_tail \in 0..e.log_head
      /\ e.log_head - e.log_tail <= NusecLogSize
  BY NusecConstants DEF NusecRing
<1>2. e.log \in [0..NusecLogSize - 1 -> NusecAnything]
  BY DEF NusecRing
<1> QED
  BY <1>1, <1>2 DEF NusecRing

(* Another head and tail.                                                  *)
LEMMA NusecRingEmpty ==
  ASSUME NEW d, NusecRing(d), NEW at \in Nat,
         NEW e, e = [d EXCEPT !.log_head = at, !.log_tail = at]
  PROVE  NusecRing(e) /\ e.log_head = at /\ e.log_tail = at
<1>1. /\ e = [log_head |-> e.log_head, log_tail |-> e.log_tail, play_count |-> e.play_count,
              play_limit |-> e.play_limit, nearfull |-> e.nearfull, log |-> e.log]
      /\ e.log_head = at /\ e.log_tail = at /\ e.log = d.log
  BY DEF NusecRing
<1> QED
  BY <1>1, NusecConstants DEF NusecRing

(* The defaults are an empty ring.                                         *)
LEMMA NusecDefaultIs == NusecRing(NusecDefault)
BY NusecConstants DEF NusecRing, NusecDefault, NusecAnything

(* There is no file and the program is down.                               *)
LEMMA NusecInitInv == NusecInit => NusecInv
<1> SUFFICES ASSUME NusecInit PROVE NusecInv
  OBVIOUS
<1>1. PICK p : nusec = [data |-> NusecDefault, file |-> "none", saved |-> NusecDefault,
                        persistence |-> p, pc |-> "down", told |-> NusecDefault, puts |-> <<>>]
  BY DEF NusecInit
<1>2. NusecShape(nusec) /\ NusecOnFile(nusec) /\ nusec.pc = "down"
  BY <1>1 DEF NusecShape, NusecOnFile
<1>3. NusecPlaces(nusec)
  BY <1>1, NusecDefaultIs DEF NusecPlaces
<1> QED
  BY <1>2, <1>3 DEF NusecInv, NusecGood

(* What is kept of a ring is what it holds.                                *)
LEMMA NusecKeptIs ==
  ASSUME NEW d, NusecRing(d) PROVE NusecHolds(d, NusecKept(d))
<1> DEFINE n == d.log_head - d.log_tail
           puts == [i \in 1..n |-> d.log[(d.log_tail + i - 1) % NusecLogSize]]
<1>1. n \in Nat /\ d.log_tail \in Nat
  BY DEF NusecRing
<1>2. ASSUME NEW i \in 1..n PROVE d.log[(d.log_tail + i - 1) % NusecLogSize] \in NusecAnything
  <2>1. d.log_tail + i - 1 \in Int
    BY <1>1
  <2>2. (d.log_tail + i - 1) % NusecLogSize \in 0..NusecLogSize - 1
    BY <2>1, NusecConstants
  <2> QED
    BY <2>2 DEF NusecRing
<1>3. puts \in [1..n -> NusecAnything]
  BY <1>2
<1>4. puts \in Seq(NusecAnything) /\ Len(puts) = n
  <2> HIDE DEF puts, n
  <2>1. puts \in Seq(NusecAnything)
    BY <1>1, <1>3
  <2> QED
    BY <1>1, <1>3, <2>1
<1>5. puts = NusecKept(d)
  BY DEF NusecKept
<1> QED
  BY <1>4, <1>5 DEF NusecHolds

(* A start takes the defaults or the file, which the game was told of.     *)
LEMMA NusecLoadKeeps ==
  ASSUME NusecInv, nusec_load_data
  PROVE  NusecGood(nusec') /\ (nusec.persistence => nusec'.data = nusec.told)
<1>1. NusecShape(nusec) /\ NusecPlaces(nusec) /\ NusecOnFile(nusec)
  BY DEF NusecInv, NusecGood
<1>2. PICK d \in {NusecDefault, nusec.saved} :
        /\ nusec' = [nusec EXCEPT !.pc = "idle", !.data = d, !.told = d, !.puts = NusecKept(d)]
        /\ nusec.persistence => d = nusec.told
        /\ nusec.persistence =>
             \/ nusec.file = "none" /\ d = NusecDefault
             \/ nusec.file = "whole" /\ d = nusec.saved
  BY <1>1 DEF nusec_load_data, NusecStartWith, NusecOnFile
<1>3. NusecRing(d)
  BY <1>1, NusecDefaultIs DEF NusecPlaces
<1>4. PICK puts : puts = NusecKept(d)
  OBVIOUS
<1>5. NusecHolds(d, puts)
  BY <1>3, <1>4, NusecKeptIs
<1>6. nusec' = [nusec EXCEPT !.pc = "idle", !.data = d, !.told = d, !.puts = puts]
  BY <1>2, <1>4
<1>7. /\ nusec'.pc = "idle" /\ nusec'.data = d /\ nusec'.told = d /\ nusec'.puts = puts
      /\ nusec'.saved = nusec.saved /\ nusec'.file = nusec.file
      /\ nusec'.persistence = nusec.persistence /\ NusecShape(nusec')
  BY <1>1, <1>6 DEF NusecShape
<1>8. NusecPlaces(nusec')
  BY <1>1, <1>3, <1>7 DEF NusecPlaces
<1>9. NusecOnFile(nusec')
  BY <1>2, <1>7 DEF NusecOnFile
<1> QED
  BY <1>2, <1>5, <1>7, <1>8, <1>9 DEF NusecGood

(* A change leaves the file and what was told of it.                       *)
LEMMA NusecChangeKeeps ==
  ASSUME NusecInv, NEW d, NEW puts, NusecRing(d), NusecHolds(d, puts), NusecChange(d, puts)
  PROVE  NusecGood(nusec')
<1>1. NusecShape(nusec) /\ NusecPlaces(nusec) /\ NusecOnFile(nusec)
  BY DEF NusecInv, NusecGood
<1>2. PICK pc, told :
        /\ pc = (IF nusec.persistence THEN "save" ELSE "idle")
        /\ told = (IF nusec.persistence THEN nusec.told ELSE d)
        /\ nusec' = [nusec EXCEPT !.data = d, !.puts = puts, !.pc = pc, !.told = told]
  BY DEF NusecChange
<1>3. /\ nusec'.pc = pc /\ nusec'.data = d /\ nusec'.told = told /\ nusec'.puts = puts
      /\ nusec'.saved = nusec.saved /\ nusec'.file = nusec.file
      /\ nusec'.persistence = nusec.persistence /\ NusecShape(nusec')
  BY <1>1, <1>2 DEF NusecShape
<1>4. NusecPlaces(nusec')
  BY <1>1, <1>2, <1>3 DEF NusecPlaces
<1>5. NusecOnFile(nusec')
  BY <1>1, <1>2, <1>3 DEF NusecOnFile
<1> QED
  BY <1>3, <1>4, <1>5 DEF NusecGood

(* While a handler may run the ring holds what was put.                    *)
LEMMA NusecIdleHolds ==
  ASSUME NusecInv, nusec.pc = "idle"
  PROVE  NusecRing(nusec.data) /\ NusecHolds(nusec.data, nusec.puts)
BY DEF NusecInv, NusecGood, NusecPlaces

(* The first len of puts lie in the log from tail on.                      *)
NusecInOrder(puts, len, log, tail) ==
  \A i \in 1..len : puts[i] = log[(tail + i - 1) % NusecLogSize]

(* A record is put at the head of a log that holds len of them.            *)
NusecPuts(head, tail, len, log, puts, r, at, ring, sum) ==
  /\ head \in Nat /\ tail \in Nat /\ len \in Nat /\ len = head - tail /\ len < NusecLogSize
  /\ log \in [0..NusecLogSize - 1 -> NusecAnything]
  /\ puts \in Seq(NusecAnything) /\ Len(puts) = len /\ NusecInOrder(puts, len, log, tail)
  /\ r \in NusecAnything /\ at \in 0..NusecLogSize - 1 /\ at = head % NusecLogSize
  /\ ring = [log EXCEPT ![at] = r] /\ sum = Append(puts, r)

(* Its place is none of the others', so the ring holds one more.           *)
LEMMA NusecRingHolds ==
  ASSUME NEW head, NEW tail, NEW len, NEW log, NEW puts, NEW r, NEW at, NEW ring, NEW sum,
         NusecPuts(head, tail, len, log, puts, r, at, ring, sum)
  PROVE  /\ sum \in Seq(NusecAnything) /\ Len(sum) = len + 1
         /\ NusecInOrder(sum, len + 1, ring, tail)
<1>0. /\ head \in Nat /\ tail \in Nat /\ len \in Nat /\ len = head - tail /\ len < NusecLogSize
      /\ log \in [0..NusecLogSize - 1 -> NusecAnything]
      /\ puts \in Seq(NusecAnything) /\ Len(puts) = len /\ NusecInOrder(puts, len, log, tail)
      /\ r \in NusecAnything /\ at \in 0..NusecLogSize - 1 /\ at = head % NusecLogSize
      /\ ring = [log EXCEPT ![at] = r] /\ sum = Append(puts, r)
  BY DEF NusecPuts
<1>1. /\ sum \in Seq(NusecAnything) /\ Len(sum) = len + 1 /\ sum[len + 1] = r
      /\ \A i \in 1..len : sum[i] = puts[i]
  <2>1. Append(puts, r) \in Seq(NusecAnything)
    BY <1>0
  <2>2. Len(Append(puts, r)) = len + 1 /\ Append(puts, r)[len + 1] = r
    BY <1>0, AppendProperties
  <2>3. \A i \in 1..len : Append(puts, r)[i] = puts[i]
    BY <1>0, AppendProperties
  <2> QED
    BY <1>0, <2>1, <2>2, <2>3
<1>2. ring[at] = r /\ \A i \in 0..NusecLogSize - 1 : i # at => ring[i] = log[i]
  BY <1>0
<1>3. ASSUME NEW i \in 1..len PROVE sum[i] = ring[(tail + i - 1) % NusecLogSize]
  <2>1. PICK b \in Int : b = tail + i - 1
    BY <1>0
  <2>2. b < head /\ head < b + NusecLogSize
    BY <1>0, <2>1, NusecConstants
  <2>3. b % NusecLogSize # head % NusecLogSize
    <3>1. NusecLogSize \in Nat \ {0} /\ head \in Int
      BY <1>0, NusecConstants
    <3> QED
      BY ONLY b \in Int, <2>2, <3>1, ModDiffer, ZenonT(30)
  <2>4. b % NusecLogSize \in 0..NusecLogSize - 1
    BY NusecConstants
  <2>5. ring[b % NusecLogSize] = log[b % NusecLogSize]
    BY ONLY <1>2, <2>3, <2>4, <1>0
  <2>6. puts[i] = log[b % NusecLogSize]
    BY <1>0, <2>1 DEF NusecInOrder
  <2> QED
    BY <1>1, <2>1, <2>5, <2>6
<1>4. sum[len + 1] = ring[(tail + (len + 1) - 1) % NusecLogSize]
  <2>1. tail + (len + 1) - 1 = head
    BY <1>0
  <2> QED
    BY <1>0, <1>1, <1>2, <2>1
<1>5. ASSUME NEW i \in 1..len + 1 PROVE sum[i] = ring[(tail + i - 1) % NusecLogSize]
  <2>1. i \in 1..len \/ i = len + 1
    BY <1>0
  <2> QED
    BY <1>3, <1>4, <2>1
<1> QED
  BY <1>1, <1>5 DEF NusecInOrder

(* A record is put.                                                        *)
LEMMA NusecPutKeeps ==
  ASSUME NusecInv, NEW r \in NusecRecords, nusec_ioctl_put_trace_log_data(r)
  PROVE  NusecGood(nusec')
<1>1. PICK d, at, new, puts :
        /\ d = nusec.data /\ at = d.log_head % NusecLogSize /\ puts = nusec.puts
        /\ d.log_head - d.log_tail < NusecLogSize
        /\ new = [d EXCEPT !.log[at] = r, !.log_head = @ + 1]
        /\ NusecChange(new, Append(puts, r))
  BY DEF nusec_ioctl_put_trace_log_data
<1>2. NusecRing(d) /\ NusecHolds(d, puts)
  BY <1>1, NusecIdleHolds DEF NusecChange
<1>3. r \in NusecAnything
  BY DEF NusecAnything
<1>4. PICK head, tail, len \in Nat :
        /\ head = d.log_head /\ tail = d.log_tail /\ len = Len(puts) /\ len = head - tail
  BY <1>2 DEF NusecRing, NusecHolds
<1>5. PICK log \in [0..NusecLogSize - 1 -> NusecAnything] : log = d.log
  BY <1>2 DEF NusecRing
<1>6. at \in 0..NusecLogSize - 1 /\ at = head % NusecLogSize
  BY ONLY <1>1, <1>4, head \in Nat, NusecConstants
<1>7. NusecRing(new) /\ new.log_head = head + 1 /\ new.log_tail = tail
      /\ new.log = [log EXCEPT ![at] = r]
  <2>1. d.log_head - d.log_tail < NusecLogSize /\ new = [d EXCEPT !.log[at] = r, !.log_head = @ + 1]
    BY <1>1
  <2>2. NusecRing(new) /\ new.log_head = d.log_head + 1 /\ new.log_tail = d.log_tail
        /\ new.log = [d.log EXCEPT ![at] = r]
    <3>1. /\ new = [log_head |-> new.log_head, log_tail |-> new.log_tail, play_count |-> new.play_count,
                    play_limit |-> new.play_limit, nearfull |-> new.nearfull, log |-> new.log]
          /\ new.log_head = d.log_head + 1 /\ new.log_tail = d.log_tail
          /\ new.log = [d.log EXCEPT ![at] = r]
      BY ONLY <1>2, <2>1 DEF NusecRing
    <3> QED
      BY ONLY <1>2, <1>3, <1>6, <2>1, <3>1, NusecRingPut
  <2> QED
    BY <1>4, <1>5, <2>2
<1>8. len < NusecLogSize
  BY <1>1, <1>4
<1>9. puts \in Seq(NusecAnything) /\ NusecInOrder(puts, len, log, tail)
  BY <1>2, <1>4, <1>5 DEF NusecHolds, NusecInOrder
<1>10. /\ Append(puts, r) \in Seq(NusecAnything) /\ Len(Append(puts, r)) = len + 1
       /\ NusecInOrder(Append(puts, r), len + 1, new.log, tail)
  <2>1. PICK ring, sum : ring = new.log /\ sum = Append(puts, r)
    OBVIOUS
  <2>2. ring = [log EXCEPT ![at] = r] /\ len = head - tail /\ Len(puts) = len
    BY <1>4, <1>7, <2>1
  <2>3. sum \in Seq(NusecAnything) /\ Len(sum) = len + 1 /\ NusecInOrder(sum, len + 1, ring, tail)
    <3>1. NusecPuts(head, tail, len, log, puts, r, at, ring, sum)
      BY ONLY head \in Nat, tail \in Nat, len \in Nat,
              log \in [0..NusecLogSize - 1 -> NusecAnything],
              <1>3, <1>6, <1>8, <1>9, <2>1, <2>2 DEF NusecPuts
    <3> QED
      BY ONLY <3>1, NusecRingHolds
  <2> QED
    BY <2>1, <2>3
<1>11. NusecHolds(new, Append(puts, r))
  <2>1. new.log_head - new.log_tail = len + 1
    BY ONLY <1>4, <1>7
  <2> QED
    BY ONLY <1>7, <1>10, <2>1 DEF NusecHolds, NusecInOrder
<1> QED
  BY <1>1, <1>7, <1>11, NusecChangeKeeps

(* Everything that is erased leaves an empty ring.                         *)
LEMMA NusecEraseKeeps ==
  ASSUME NusecInv, NEW n \in 0..NusecLogSize, nusec_ioctl_erase_trace_log(n)
  PROVE  NusecGood(nusec')
<1>1. PICK d, avail, new :
        /\ d = nusec.data /\ NusecRing(d) /\ avail = d.log_head - d.log_tail /\ n <= avail
        /\ new = [d EXCEPT !.log_tail = @ + (IF n < avail THEN avail ELSE n)]
        /\ NusecChange(new, <<>>)
  BY NusecIdleHolds DEF nusec_ioctl_erase_trace_log, NusecChange
<1>2. d.log_tail + (IF n < avail THEN avail ELSE n) = d.log_head
  BY <1>1, NusecConstants DEF NusecRing
<1>3. new = [d EXCEPT !.log_tail = d.log_head]
  BY <1>1, <1>2
<1>4. /\ new = [log_head |-> new.log_head, log_tail |-> new.log_tail,
                play_count |-> new.play_count, play_limit |-> new.play_limit,
                nearfull |-> new.nearfull, log |-> new.log]
      /\ new.log_head = d.log_head /\ new.log_tail = d.log_head /\ new.log = d.log
  BY <1>1, <1>3 DEF NusecRing
<1>5. NusecRing(new)
  BY <1>1, <1>4, NusecConstants DEF NusecRing
<1>6. NusecHolds(new, <<>>)
  BY <1>1, <1>4 DEF NusecHolds, NusecRing
<1> QED
  BY <1>1, <1>5, <1>6, NusecChangeKeeps

(* Erasing what was used also starts the numbers anew.                     *)
LEMMA NusecEraseUsedKeeps ==
  ASSUME NusecInv, nusec_ioctl_td_erase_used
  PROVE  NusecGood(nusec')
<1>1. PICK d, new :
        /\ d = nusec.data /\ NusecRing(d)
        /\ new = [d EXCEPT !.log_head = 0, !.log_tail = 0] /\ NusecChange(new, <<>>)
  BY NusecIdleHolds DEF nusec_ioctl_td_erase_used, NusecChange
<1>2. NusecRing(new) /\ new.log_head = 0 /\ new.log_tail = 0
  BY <1>1, NusecRingEmpty
<1>3. NusecHolds(new, <<>>)
  BY <1>2 DEF NusecHolds
<1> QED
  BY <1>1, <1>2, <1>3, NusecChangeKeeps

(* The counters are not of the ring.                                       *)
LEMMA NusecCountersKeep ==
  ASSUME NusecInv,
         \/ \E delta \in 0..1 : nusec_ioctl_add_play_count(delta)
         \/ \E n \in NusecLimits : nusec_ioctl_put_play_limit(n) \/ nusec_ioctl_put_nearfull(n)
  PROVE  NusecGood(nusec')
<1>1. PICK new, x :
        /\ NusecChange(new, nusec.puts)
        /\ \/ new = [nusec.data EXCEPT !.play_count = x]
           \/ new = [nusec.data EXCEPT !.play_limit = x]
           \/ new = [nusec.data EXCEPT !.nearfull = x]
  BY DEF nusec_ioctl_add_play_count, nusec_ioctl_put_play_limit, nusec_ioctl_put_nearfull
<1>2. NusecRing(nusec.data) /\ NusecHolds(nusec.data, nusec.puts)
  BY <1>1, NusecIdleHolds DEF NusecChange
<1>3. /\ NusecRing(new) /\ new.log = nusec.data.log /\ new.log_head = nusec.data.log_head
      /\ new.log_tail = nusec.data.log_tail
  BY <1>1, <1>2 DEF NusecRing
<1>4. NusecHolds(new, nusec.puts)
  BY <1>2, <1>3 DEF NusecHolds
<1> QED
  BY <1>1, <1>3, <1>4, NusecChangeKeeps

(* A power cut, and the two calls of Windows that save.                    *)
LEMMA NusecSaveKeeps ==
  ASSUME NusecInv, NusecOff \/ NusecCreate \/ nusec_save_data
  PROVE  NusecGood(nusec')
<1>1. /\ NusecShape(nusec) /\ NusecPlaces(nusec) /\ NusecOnFile(nusec)
      /\ nusec.pc # "down" => NusecHolds(nusec.data, nusec.puts)
  BY DEF NusecInv, NusecGood
<1>2. CASE NusecOff
  <2>1. nusec' = [nusec EXCEPT !.pc = "down"]
    BY <1>2 DEF NusecOff
  <2> QED
    BY <1>1, <2>1 DEF NusecShape, NusecPlaces, NusecOnFile, NusecGood
<1>3. CASE nusec.pc = "save" /\ nusec' = [nusec EXCEPT !.pc = "write", !.file = "short"]
  BY <1>1, <1>3 DEF NusecShape, NusecPlaces, NusecOnFile, NusecGood
<1>4. CASE nusec.pc \in {"save", "write"} /\ nusec' = [nusec EXCEPT !.pc = "idle"]
  BY <1>1, <1>4 DEF NusecShape, NusecPlaces, NusecOnFile, NusecGood
<1>5. CASE nusec.pc = "write" /\ nusec' = [nusec EXCEPT !.pc = "idle", !.file = "whole",
                                             !.saved = nusec.data, !.told = nusec.data]
  BY <1>1, <1>5 DEF NusecShape, NusecPlaces, NusecOnFile, NusecGood
<1> QED
  BY <1>2, <1>3, <1>4, <1>5 DEF NusecCreate, nusec_save_data

(* Every handler, every call of a save and every power cut keeps it.       *)
LEMMA NusecKeepsInv == NusecInv /\ [NusecNext]_nusec => NusecInv'
<1> SUFFICES ASSUME NusecInv, [NusecNext]_nusec PROVE NusecGood(nusec')
  BY DEF NusecInv
<1>1. CASE UNCHANGED nusec
  BY <1>1 DEF NusecInv
<1>2. CASE nusec_load_data
  BY <1>2, NusecLoadKeeps
<1>3. CASE NusecOff \/ NusecCreate \/ nusec_save_data
  BY <1>3, NusecSaveKeeps
<1>4. CASE nusec_ioctl_td_erase_used
  BY <1>4, NusecEraseUsedKeeps
<1>5. CASE \E r \in NusecRecords : nusec_ioctl_put_trace_log_data(r)
  BY <1>5, NusecPutKeeps
<1>6. CASE \E n \in 0..NusecLogSize : nusec_ioctl_erase_trace_log(n)
  BY <1>6, NusecEraseKeeps
<1>7. CASE \/ \E delta \in 0..1 : nusec_ioctl_add_play_count(delta)
           \/ \E n \in NusecLimits : nusec_ioctl_put_play_limit(n) \/ nusec_ioctl_put_nearfull(n)
  BY <1>7, NusecCountersKeep
<1> QED
  BY <1>1, <1>2, <1>3, <1>4, <1>5, <1>6, <1>7 DEF NusecNext

(* What is read from any place of the log is that part of what was put.    *)
LEMMA NusecReadIs ==
  ASSUME NusecInv, nusec.pc # "down",
         NEW i \in 0..Len(nusec.puts), NEW n \in 0..Len(nusec.puts)
  PROVE  nusec_ioctl_get_trace_log_data(nusec.data.log_tail + i, n)
           = SubSeq(nusec.puts, i + 1, IF i + n < Len(nusec.puts) THEN i + n
                                       ELSE Len(nusec.puts))
<1>1. NusecRing(nusec.data) /\ NusecHolds(nusec.data, nusec.puts)
  BY DEF NusecInv, NusecGood, NusecPlaces
<1>2. PICK head, tail, len, log, puts :
        /\ head = nusec.data.log_head /\ tail = nusec.data.log_tail /\ len = Len(nusec.puts)
        /\ log = nusec.data.log /\ puts = nusec.puts
        /\ head \in Nat /\ tail \in 0..head /\ len = head - tail
        /\ puts \in Seq(NusecAnything) /\ Len(puts) = len
        /\ \A j \in 1..len : puts[j] = log[(tail + j - 1) % NusecLogSize]
  <2>1. /\ nusec.data.log_head \in Nat /\ nusec.data.log_tail \in 0..nusec.data.log_head
        /\ Len(nusec.puts) = nusec.data.log_head - nusec.data.log_tail
        /\ nusec.puts \in Seq(NusecAnything)
    BY <1>1 DEF NusecRing, NusecHolds
  <2>2. \A j \in 1..Len(nusec.puts) :
          nusec.puts[j] = nusec.data.log[(nusec.data.log_tail + j - 1) % NusecLogSize]
    BY <1>1 DEF NusecHolds
  <2> QED
    BY ONLY <2>1, <2>2
<1>3. i \in 0..len /\ n \in 0..len /\ len \in Nat
  BY <1>2
<1>4. PICK last : last = IF i + n < len THEN i + n ELSE len
  OBVIOUS
<1>5. PICK many \in Nat : many = last - i /\ last \in i..len /\ many = IF n < len - i THEN n ELSE len - i
  BY <1>3, <1>4
<1> DEFINE read == [j \in 1..many |-> log[(tail + i + j - 1) % NusecLogSize]]
           part == [j \in 1..many |-> puts[j + i]]
<1>6. nusec_ioctl_get_trace_log_data(tail + i, n) = read
  <2>1. head - (tail + i) = len - i
    BY <1>2, <1>3
  <2>2. many = IF n < head - (tail + i) THEN n ELSE head - (tail + i)
    BY <1>5, <2>1
  <2> QED
    BY <1>2, <2>2 DEF nusec_ioctl_get_trace_log_data
<1>7. read = part
  <2>1. ASSUME NEW j \in 1..many PROVE log[(tail + i + j - 1) % NusecLogSize] = puts[j + i]
    <3>1. i \in Int /\ 0 <= i /\ len \in Int /\ many \in Int /\ i + many <= len
      BY ONLY <1>3, <1>5
    <3>2. tail \in Int
      BY ONLY <1>2
    <3>3. j \in Int /\ 1 <= j /\ j <= many
      BY ONLY <3>1
    <3>4. PICK k : k = j + i
      OBVIOUS
    <3>5. k \in 1..len /\ tail + k - 1 = tail + i + j - 1
      BY ONLY <3>1, <3>2, <3>3, <3>4
    <3>6. puts[k] = log[(tail + k - 1) % NusecLogSize]
      BY ONLY <1>2, <3>5
    <3> QED
      BY ONLY <3>4, <3>5, <3>6
  <2> QED
    BY <2>1
<1>8. part = SubSeq(puts, i + 1, last)
  <2>1. last - (i + 1) + 1 = many /\ i + 1 \in Int /\ last \in Int
    BY <1>3, <1>5
  <2>2. PICK s : s = SubSeq(puts, i + 1, last)
    OBVIOUS
  <2>3. ASSUME NEW j \in i + 1..last PROVE puts[j] \in NusecAnything
    <3>1. j \in 1..len
      BY <1>3, <1>5
    <3>2. puts \in Seq(NusecAnything) /\ Len(puts) = len
      BY <1>2
    <3> QED
      BY <3>1, <3>2
  <2>4. /\ s \in Seq(NusecAnything)
        /\ Len(s) = IF i + 1 <= last THEN last - (i + 1) + 1 ELSE 0
        /\ \A j \in 1..last - (i + 1) + 1 : s[j] = puts[(i + 1) + j - 1]
    BY <2>1, <2>2, <2>3, SubSeqProperties
  <2>5. Len(s) = many
    BY <1>3, <1>5, <2>4
  <2>6. \A j \in 1..many : s[j] = puts[j + i]
    <3>1. \A j \in 1..many : (i + 1) + j - 1 = j + i
      BY <1>3, <1>5
    <3> QED
      BY <2>1, <2>4, <3>1
  <2>7. s = [j \in 1..many |-> s[j]]
    BY <2>4, <2>5
  <2> QED
    BY <2>2, <2>6, <2>7
<1> HIDE DEF read, part
<1> QED
  BY <1>2, <1>4, <1>6, <1>7, <1>8

(* For any log, records and limits: the log is read as it was put, however *)
(* often it wrapped, was erased or loaded again, and a start brings back   *)
(* what the game was told of.                                              *)
THEOREM KeychipIsRight == NusecSpec => NusecIsRight
<1>1. NusecInv => NusecTypeOK /\ NusecLogIsKept
  <2> SUFFICES ASSUME NusecInv PROVE NusecTypeOK /\ NusecLogIsKept
    OBVIOUS
  <2>1. NusecRing(nusec.data) /\ nusec.pc \in {"down", "idle", "save", "write"}
        /\ (nusec.pc # "down" => NusecHolds(nusec.data, nusec.puts))
    BY DEF NusecInv, NusecGood, NusecPlaces
  <2>2. NusecTypeOK
    <3>1. PICK head, tail, log :
            /\ head \in Nat /\ tail \in Nat
            /\ nusec.data.log_head = head /\ nusec.data.log_tail = tail
            /\ nusec.data.log = log /\ log \in [0..NusecLogSize - 1 -> NusecAnything]
            /\ tail <= head /\ head - tail <= NusecLogSize
      BY <2>1 DEF NusecRing
    <3>2. NusecLogSize - (head - tail) \in 0..NusecLogSize
      <4>1. head \in Nat /\ tail \in Nat /\ tail <= head /\ head - tail <= NusecLogSize
        BY ONLY <3>1
      <4>2. NusecLogSize \in Nat
        BY NusecConstants
      <4> QED
        BY ONLY <4>1, <4>2
    <3> QED
      BY <2>1, <3>1, <3>2
        DEF NusecTypeOK, NusecAnything, nusec_ioctl_get_nvram_available
  <2>3. NusecLogIsKept
    <3> SUFFICES ASSUME nusec.pc # "down" PROVE NusecLogIsKept
      BY DEF NusecLogIsKept
    <3>1. nusec_ioctl_get_trace_log_state = <<Len(nusec.puts), nusec.data.log_tail>>
      BY <2>1 DEF NusecHolds, nusec_ioctl_get_trace_log_state
    <3> QED
      BY <3>1, NusecReadIs DEF NusecLogIsKept
  <2> QED
    BY <2>2, <2>3
<1>2. NusecInv /\ [NusecNext]_nusec =>
        [nusec.pc = "down" /\ nusec'.pc = "idle" /\ nusec.persistence
           => nusec'.data \in {nusec.told, nusec.data}]_nusec
  <2> SUFFICES ASSUME NusecInv, NusecNext, nusec.pc = "down", nusec.persistence
               PROVE  nusec'.data \in {nusec.told, nusec.data}
    OBVIOUS
  <2>1. nusec_load_data
    BY DEF NusecNext, NusecOff, NusecCreate, nusec_save_data, nusec_ioctl_td_erase_used,
       nusec_ioctl_put_trace_log_data, nusec_ioctl_erase_trace_log,
       nusec_ioctl_add_play_count, nusec_ioctl_put_play_limit, nusec_ioctl_put_nearfull,
       NusecChange
  <2> QED
    BY <2>1, NusecLoadKeeps
<1> QED
  BY <1>1, <1>2, NusecInitInv, NusecKeepsInv, PTL
    DEF NusecSpec, NusecIsRight, NusecStartIsWhole

-----------------------------------------------------------------------------
(* The Amex board: the lists of devices, and the backing store.            *)

(* The fields of the state of the lists.                                   *)
AmexDevices == AmexGuids \cup UNION {ToSet(AmexReal[guid]) : guid \in AmexGuids}
(* An entry of setupapi_classes.                                           *)
AmexClass == [guid : AmexGuids, cur_handle : AmexSets \cup {AmexNone, AmexJunk}]
(* What is known of a list of devices.                                     *)
AmexListType ==
  [guid : AmexGuids \cup {AmexNone}, told : Seq(AmexDevices), all : BOOLEAN,
   newest : BOOLEAN, stray : BOOLEAN]

(* The types of both.                                                      *)
AmexSetup(u) ==
  /\ u = [classes |-> u.classes, lists |-> u.lists]
  /\ DOMAIN u.classes \subseteq Nat /\ u.classes \in [DOMAIN u.classes -> AmexClass]
  /\ u.lists \in [AmexSets -> AmexListType]

(* What was told of a list: perhaps an emulated device, of its own class   *)
(* unless it was taken for another's; then the devices of the PC in turn.  *)
AmexTells(c, l) ==
  LET real == AmexReal[l.guid]
  IN  /\ l.told # <<>> =>
           \/ 1 \in DOMAIN real /\ l.told[1] = real[1]
           \/ \E i \in DOMAIN c : l.told[1] = c[i].guid /\ (l.stray \/ c[i].guid = l.guid)
      /\ \A k \in 2..Len(l.told) : k - 1 \in DOMAIN real /\ l.told[k] = real[k - 1]
      /\ l.all => \A k \in DOMAIN real : k + 1 \in DOMAIN l.told
      /\ l.newest /\ ~l.stray /\ l.told # <<>> /\ (\E i \in DOMAIN c : c[i].guid = l.guid)
           => l.told[1] = l.guid

(* Which classes have the handle of a list.                                *)
AmexOwns(c, l, s) ==
  /\ l.newest /\ l.guid # AmexNone
       => \A i \in DOMAIN c : c[i].guid = l.guid => c[i].cur_handle = s
  /\ \A i \in DOMAIN c :
       c[i].cur_handle = s => l.guid # AmexNone /\ (l.stray \/ c[i].guid = l.guid)

(* The lists are as told, and the classes have the handles they were asked *)
(* with.                                                                   *)
AmexListsInv(u) ==
  /\ AmexSetup(u)
  /\ \A s \in AmexSets :
       /\ u.lists[s].guid # AmexNone => AmexTells(u.classes, u.lists[s])
       /\ AmexOwns(u.classes, u.lists[s], s)

(* A set of natural numbers has a least one.                               *)
LEMMA LeastExists ==
  ASSUME NEW S \in SUBSET Nat, S # {}
  PROVE  \E x \in S : \A y \in S : x <= y
<1> DEFINE R == OpToRel(<, Nat)
<1>1. IsWellFoundedOn(R, Nat)
  BY NatLessThanWellFounded
<1>2. ASSUME NEW x \in Nat, NEW y \in Nat, y < x
      PROVE  <<y, x>> \in R
  <2> DEFINE pair == <<y, x>>
  <2>1. pair \in Nat \X Nat /\ pair[1] < pair[2]
    BY <1>2
  <2> HIDE DEF pair
  <2>2. pair \in R
    BY <2>1 DEF OpToRel
  <2> QED
    BY <2>2 DEF pair
<1> HIDE DEF R
<1>3. \E x \in S : \A y \in S : ~(<<y, x>> \in R)
  BY <1>1, Zenon, WFMin
<1>4. PICK x \in S : \A y \in S : ~(<<y, x>> \in R)
  BY <1>3
<1>5. ASSUME NEW y \in S PROVE ~(y < x)
  BY <1>2, <1>4
<1>6. \A y \in S : x <= y
  BY <1>5
<1> QED
  BY <1>6

(* What is assumed of a class of devices.                                  *)
LEMMA AmexRealIs ==
  ASSUME NEW guid \in AmexGuids
  PROVE  /\ DOMAIN AmexReal[guid] = 1..Len(AmexReal[guid]) /\ Len(AmexReal[guid]) \in Nat
         /\ \A k \in DOMAIN AmexReal[guid] : AmexReal[guid][k] \in ToSet(AmexReal[guid])
         /\ \A k \in DOMAIN AmexReal[guid] : AmexReal[guid][k] \in AmexDevices
         /\ \A i, j \in DOMAIN AmexReal[guid] : AmexReal[guid][i] = AmexReal[guid][j] => i = j
         /\ \A k \in DOMAIN AmexReal[guid] : AmexReal[guid][k] \notin AmexGuids
<1>1. AmexReal[guid] \in Seq(ToSet(AmexReal[guid]))
  BY AmexPaths DEF AmexPaths
<1>2. DOMAIN AmexReal[guid] = 1..Len(AmexReal[guid]) /\ Len(AmexReal[guid]) \in Nat
  BY <1>1
<1>3. \A k \in DOMAIN AmexReal[guid] : AmexReal[guid][k] \in ToSet(AmexReal[guid])
  BY DEF ToSet
<1>4. ToSet(AmexReal[guid]) \subseteq AmexDevices
  BY DEF AmexDevices
<1>5. ToSet(AmexReal[guid]) \cap AmexGuids = {}
  BY AmexPaths DEF AmexPaths
<1>6. \A i, j \in DOMAIN AmexReal[guid] : AmexReal[guid][i] = AmexReal[guid][j] => i = j
  BY AmexPaths DEF AmexPaths
<1> QED
  BY <1>2, <1>3, <1>4, <1>5, <1>6

(* What the invariant says of the lists.                                   *)
LEMMA AmexListsShow ==
  ASSUME AmexListsInv(setupapi)
  PROVE  /\ AmexListsAreRight
         /\ \A i \in DOMAIN setupapi.classes :
              setupapi.classes[i].cur_handle \in AmexSets \cup {AmexNone, AmexJunk}
<1>1. ASSUME NEW i \in DOMAIN setupapi.classes
      PROVE  setupapi.classes[i].cur_handle \in AmexSets \cup {AmexNone, AmexJunk}
  BY DEF AmexListsInv, AmexSetup, AmexClass
<1>2. ASSUME NEW s \in AmexSets, setupapi.lists[s].guid # AmexNone
      PROVE  LET l == setupapi.lists[s]
                 real == AmexReal[l.guid]
             IN  /\ ToSet(l.told) \subseteq
                      ToSet(real) \cup (AmexEmulated \cap (IF l.stray THEN AmexGuids
                                                           ELSE {l.guid}))
                 /\ l.all => /\ ToSet(real) \subseteq ToSet(l.told)
                             /\ \A i, j \in DOMAIN l.told :
                                  i # j /\ l.told[i] = l.told[j] => {i, j} = {1, 2}
                 /\ l.newest /\ ~l.stray /\ l.guid \in AmexEmulated /\ l.told # <<>>
                      => Head(l.told) = l.guid
  <2> DEFINE l == setupapi.lists[s]
             c == setupapi.classes
             real == AmexReal[l.guid]
  <2>1. AmexTells(c, l) /\ l \in AmexListType /\ c \in [DOMAIN c -> AmexClass]
    BY <1>2 DEF AmexListsInv, AmexSetup
  <2>2. l.guid \in AmexGuids /\ l.told \in Seq(AmexDevices)
    BY <1>2, <2>1 DEF AmexListType
  <2>3. DOMAIN l.told = 1..Len(l.told) /\ Len(l.told) \in Nat
    BY <2>2
  <2>4. \A i \in DOMAIN c : c[i].guid \in AmexEmulated /\ c[i].guid \in AmexGuids
    BY <2>1 DEF AmexEmulated, AmexClass
  <2>5. /\ DOMAIN real = 1..Len(real) /\ Len(real) \in Nat
        /\ \A k \in DOMAIN real : real[k] \in ToSet(real)
        /\ \A i, j \in DOMAIN real : real[i] = real[j] => i = j
        /\ \A k \in DOMAIN real : real[k] \notin AmexGuids
    BY <2>2, AmexRealIs
  <2>6. l.guid \in AmexEmulated => \E i \in DOMAIN c : c[i].guid = l.guid
    BY DEF AmexEmulated
  <2> HIDE DEF l, c, real
  <2>7. /\ l.told # <<>> =>
             \/ 1 \in DOMAIN real /\ l.told[1] = real[1]
             \/ \E i \in DOMAIN c : l.told[1] = c[i].guid /\ (l.stray \/ c[i].guid = l.guid)
        /\ \A k \in 2..Len(l.told) : k - 1 \in DOMAIN real /\ l.told[k] = real[k - 1]
        /\ l.all => \A k \in DOMAIN real : k + 1 \in DOMAIN l.told
        /\ l.newest /\ ~l.stray /\ l.told # <<>> /\ (\E i \in DOMAIN c : c[i].guid = l.guid)
             => l.told[1] = l.guid
    BY <2>1 DEF AmexTells, real
  <2>8. \A k \in DOMAIN l.told : k = 1 \/ k \in 2..Len(l.told)
    BY ONLY <2>3
  <2>9. 1 \in DOMAIN l.told => l.told # <<>>
    BY ONLY <2>3
  <2>10. ASSUME NEW k \in DOMAIN l.told
         PROVE  l.told[k] \in ToSet(real) \cup (AmexEmulated \cap (IF l.stray THEN AmexGuids
                                                                  ELSE {l.guid}))
    <3>1. CASE k = 1
      BY <2>4, <2>5, <2>7, <2>9, <3>1
    <3>2. CASE k \in 2..Len(l.told)
      BY <2>5, <2>7, <3>2
    <3> QED
      BY <2>8, <3>1, <3>2
  <2>11. ToSet(l.told) \subseteq
           ToSet(real) \cup (AmexEmulated \cap (IF l.stray THEN AmexGuids ELSE {l.guid}))
    BY <2>10 DEF ToSet
  <2>12. ASSUME l.all PROVE ToSet(real) \subseteq ToSet(l.told)
    <3>1. ASSUME NEW k \in DOMAIN real PROVE real[k] \in ToSet(l.told)
      <4>1. k + 1 \in DOMAIN l.told /\ k \in Nat /\ k >= 1
        BY <2>5, <2>7, <2>12
      <4>2. k + 1 \in 2..Len(l.told) /\ (k + 1) - 1 = k
        BY <2>3, <4>1
      <4>3. l.told[k + 1] = real[k]
        BY <2>7, <4>2
      <4> QED
        BY <4>1, <4>3 DEF ToSet
    <3> QED
      BY <3>1 DEF ToSet
  <2>13. ASSUME NEW j \in 2..Len(l.told), l.told[1] = l.told[j] PROVE j = 2
    <3>1. j - 1 \in DOMAIN real /\ l.told[j] = real[j - 1] /\ real[j - 1] \notin AmexGuids
      BY <2>5, <2>7
    <3>2. l.told # <<>>
      BY <2>3, <2>9
    <3>3. 1 \in DOMAIN real /\ real[1] = real[j - 1]
      BY <2>4, <2>7, <2>13, <3>1, <3>2
    <3>4. j - 1 = 1
      BY <2>5, <3>1, <3>3
    <3> QED
      BY ONLY <3>4, j \in 2..Len(l.told)
  <2>14. ASSUME NEW i \in 2..Len(l.told), NEW j \in 2..Len(l.told), l.told[i] = l.told[j]
         PROVE  i = j
    <3>1. i - 1 \in DOMAIN real /\ j - 1 \in DOMAIN real /\ real[i - 1] = real[j - 1]
      BY <2>7, <2>14
    <3>2. i - 1 = j - 1
      BY <2>5, <3>1
    <3> QED
      BY ONLY <3>2, i \in 2..Len(l.told), j \in 2..Len(l.told)
  <2>15. ASSUME NEW i \in DOMAIN l.told, NEW j \in DOMAIN l.told, i # j, l.told[i] = l.told[j]
         PROVE  {i, j} = {1, 2}
    BY ONLY <2>8, <2>13, <2>14, <2>15
  <2>16. l.newest /\ ~l.stray /\ l.guid \in AmexEmulated /\ l.told # <<>>
           => Head(l.told) = l.guid
    BY <2>2, <2>6, <2>7
  <2> QED
    BY <2>11, <2>12, <2>15, <2>16 DEF l, real
<1> QED
  BY <1>1, <1>2 DEF AmexListsAreRight

(* A class whose place is the first of those that have the handle.         *)
LEMMA AmexFirstIs ==
  ASSUME NEW S \in SUBSET Nat, S # {}
  PROVE  (CHOOSE i \in S : \A j \in S : i <= j) \in S
  BY LeastExists

(* The game asks for the next device of a list.                            *)
LEMMA AmexEnumKeeps ==
  ASSUME AmexListsInv(setupapi), NEW s \in AmexSets, my_SetupDiEnumDeviceInterfaces(s)
  PROVE  AmexListsInv(setupapi')
<1> DEFINE c == setupapi.classes
           l == setupapi.lists[s]
           real == AmexReal[l.guid]
           index == Len(l.told)
           at == IF index = 0 THEN 1 ELSE index
           first == CHOOSE i \in AmexPhantoms(s) : \A j \in AmexPhantoms(s) : i <= j
           m == AmexTellNext(s)
<1>1. AmexSetup(setupapi) /\ l.guid # AmexNone /\ ~l.all
  BY DEF AmexListsInv, my_SetupDiEnumDeviceInterfaces
<1>2. setupapi' = [setupapi EXCEPT !.lists[s] = m]
  BY DEF my_SetupDiEnumDeviceInterfaces
<1>3. l \in AmexListType /\ AmexTells(c, l) /\ AmexOwns(c, l, s) /\ c \in [DOMAIN c -> AmexClass]
      /\ DOMAIN c \subseteq Nat
  BY <1>1 DEF AmexListsInv, AmexSetup
<1>4. l.guid \in AmexGuids /\ l.told \in Seq(AmexDevices)
  BY <1>1, <1>3 DEF AmexListType
<1>5. /\ DOMAIN real = 1..Len(real) /\ Len(real) \in Nat
      /\ \A k \in DOMAIN real : real[k] \in AmexDevices
  BY <1>4, AmexRealIs
<1>6. index \in Nat /\ DOMAIN l.told = 1..index /\ (index = 0 <=> l.told = <<>>)
  BY <1>4
<1>7. AmexPhantoms(s) # {} => first \in DOMAIN c /\ c[first].cur_handle = s
  <2>1. AmexPhantoms(s) \subseteq DOMAIN c /\ \A i \in AmexPhantoms(s) : c[i].cur_handle = s
    BY DEF AmexPhantoms
  <2> QED
    BY <1>3, <2>1, AmexFirstIs
<1>8. AmexPhantoms(s) = {} => \A i \in DOMAIN c : c[i].cur_handle # s
  BY DEF AmexPhantoms
<1>9. /\ l.newest => \A i \in DOMAIN c : c[i].guid = l.guid => c[i].cur_handle = s
      /\ \A i \in DOMAIN c : c[i].cur_handle = s => l.stray \/ c[i].guid = l.guid
  BY <1>1, <1>3 DEF AmexOwns
<1>10. setupapi'.classes = c /\ setupapi'.lists = [setupapi.lists EXCEPT ![s] = m]
       /\ setupapi' = [classes |-> setupapi'.classes, lists |-> setupapi'.lists]
  <2> HIDE DEF m
  <2> QED
    BY ONLY <1>1, <1>2 DEF AmexSetup
<1>11. /\ m \in AmexListType /\ m.guid = l.guid /\ m.newest = l.newest /\ m.stray = l.stray
       /\ AmexTells(c, m)
  <2>1. CASE index = 0 /\ AmexPhantoms(s) # {}
    <3> DEFINE f == c[first].guid
    <3>1. f \in AmexGuids /\ first \in DOMAIN c /\ (l.stray \/ f = l.guid)
      BY <1>3, <1>7, <1>9, <2>1 DEF AmexClass
    <3>2. f \in AmexDevices /\ m = [l EXCEPT !.told = <<f>>]
      BY <2>1, <3>1 DEF AmexDevices, AmexTellNext
    <3>3. \E i \in DOMAIN c : f = c[i].guid /\ (l.stray \/ c[i].guid = l.guid)
      BY <3>1
    <3> HIDE DEF f, m, c, l
    <3>4. m \in AmexListType /\ m.guid = l.guid /\ m.newest = l.newest /\ m.stray = l.stray
          /\ m.told = <<f>> /\ m.all = l.all
      <4>1. <<f>> \in Seq(AmexDevices)
        BY ONLY <3>2
      <4> QED
        BY ONLY <1>3, <3>2, <4>1 DEF AmexListType
    <3>5. \A k \in 2..Len(m.told) : FALSE
      BY ONLY <3>4
    <3>6. m.told[1] = f
      BY ONLY <3>4
    <3>7. AmexTells(c, m)
      BY ONLY <1>1, <3>1, <3>3, <3>4, <3>5, <3>6 DEF AmexTells
    <3> QED
      BY <3>4, <3>7
  <2>2. CASE ~(index = 0 /\ AmexPhantoms(s) # {}) /\ at \in DOMAIN real
    <3>1. real[at] \in AmexDevices
      BY <1>5, <2>2
    <3> DEFINE x == real[at]
    <3>2. m = [l EXCEPT !.told = Append(l.told, x)]
      BY <2>2 DEF AmexTellNext
    <3>3. index = 0 => ~l.newest \/ \A i \in DOMAIN c : c[i].guid # l.guid
      BY <1>8, <1>9, <2>2
    <3>4. index = 0 => x = real[1] /\ 1 \in DOMAIN real
      BY <2>2
    <3>5. index # 0 => x = real[index] /\ index \in DOMAIN real
      BY <2>2
    <3> HIDE DEF x, m, c
    <3>6. /\ m \in AmexListType /\ m.guid = l.guid /\ m.newest = l.newest /\ m.stray = l.stray
          /\ m.told = Append(l.told, x) /\ m.all = l.all
      <4>1. Append(l.told, x) \in Seq(AmexDevices)
        BY ONLY <1>4, <3>1 DEF x
      <4> HIDE DEF l
      <4> QED
        BY ONLY <1>3, <3>2, <4>1 DEF AmexListType
    <3>7. /\ Len(m.told) = index + 1 /\ m.told[index + 1] = x
          /\ \A k \in 1..index : m.told[k] = l.told[k]
          /\ m.told # <<>>
      <4>1. PICK told : told = l.told /\ told \in Seq(AmexDevices) /\ m.told = Append(told, x)
        BY ONLY <1>4, <3>6
      <4>2. index = Len(told)
        BY ONLY <4>1 DEF index
      <4> HIDE DEF index
      <4>3. /\ Len(Append(told, x)) = index + 1 /\ Append(told, x)[index + 1] = x
            /\ \A k \in 1..index : Append(told, x)[k] = told[k]
            /\ Append(told, x) # <<>>
        <5>1. x \in AmexDevices
          BY <3>1 DEF x
        <5> QED
          BY ONLY <4>1, <4>2, <5>1, AppendProperties
      <4> QED
        BY ONLY <4>1, <4>3
    <3>8. /\ l.told # <<>> =>
               \/ 1 \in DOMAIN real /\ l.told[1] = real[1]
               \/ \E i \in DOMAIN c : l.told[1] = c[i].guid /\ (l.stray \/ c[i].guid = l.guid)
          /\ \A k \in 2..Len(l.told) : k - 1 \in DOMAIN real /\ l.told[k] = real[k - 1]
          /\ l.newest /\ ~l.stray /\ l.told # <<>> /\ (\E i \in DOMAIN c : c[i].guid = l.guid)
               => l.told[1] = l.guid
      BY <1>3 DEF AmexTells
    <3>9. index # 0 => m.told[1] = l.told[1] /\ l.told # <<>>
      BY ONLY <1>6, <3>7
    <3>10. index = 0 => m.told[1] = x
      BY ONLY <3>7
    <3>11. \/ 1 \in DOMAIN real /\ m.told[1] = real[1]
           \/ \E i \in DOMAIN c : m.told[1] = c[i].guid /\ (l.stray \/ c[i].guid = l.guid)
      BY ONLY <3>4, <3>8, <3>9, <3>10
    <3>12. ASSUME NEW k \in 2..Len(m.told)
           PROVE  k - 1 \in DOMAIN real /\ m.told[k] = real[k - 1]
      <4>1. CASE k \in 2..index
        <5>1. m.told[k] = l.told[k]
          BY ONLY <3>7, <4>1
        <5> QED
          BY ONLY <3>8, <4>1, <5>1
      <4>2. CASE k = index + 1
        <5>1. index # 0 /\ k - 1 = index
          BY ONLY <1>6, <4>2, k \in 2..Len(m.told)
        <5> QED
          BY ONLY <3>5, <3>7, <4>2, <5>1
      <4>3. Len(m.told) = index + 1
        BY ONLY <3>7
      <4>4. k \in 2..index + 1
        BY ONLY <4>3, k \in 2..Len(m.told)
      <4>5. k \in 2..index \/ k = index + 1
        BY ONLY <1>6, <4>4
      <4> QED
        BY ONLY <4>1, <4>2, <4>5
    <3>13. l.newest /\ ~l.stray /\ (\E i \in DOMAIN c : c[i].guid = l.guid)
             => m.told[1] = l.guid
      BY ONLY <3>3, <3>8, <3>9
    <3>14. ~m.all
      BY ONLY <1>1, <3>6
    <3> HIDE DEF l
    <3>15. AmexTells(c, m)
      BY ONLY <3>6, <3>11, <3>12, <3>13, <3>14 DEF AmexTells, real
    <3> QED
      BY <3>6, <3>15
  <2>3. CASE ~(index = 0 /\ AmexPhantoms(s) # {}) /\ at \notin DOMAIN real
    <3>1. m = [l EXCEPT !.all = TRUE]
      BY <2>3 DEF AmexTellNext
    <3>2. \A k \in DOMAIN real : k + 1 \in DOMAIN l.told
      <4>1. at > Len(real)
        BY <1>5, <1>6, <2>3
      <4>2. ASSUME NEW k \in 1..Len(real) PROVE k + 1 \in 1..index
        BY ONLY <1>5, <1>6, <4>1, k \in 1..Len(real)
      <4> QED
        BY <1>5, <1>6, <4>2
    <3> HIDE DEF m, c, l
    <3>3. m \in AmexListType /\ m.guid = l.guid /\ m.newest = l.newest /\ m.stray = l.stray
          /\ m.told = l.told
      BY ONLY <1>3, <3>1 DEF AmexListType
    <3>4. AmexTells(c, m)
      BY ONLY <1>3, <3>2, <3>3 DEF AmexTells, real
    <3> QED
      BY <3>3, <3>4
  <2> QED
    BY <2>1, <2>2, <2>3
<1> HIDE DEF m
<1>12. AmexSetup(setupapi')
  BY <1>1, <1>10, <1>11 DEF AmexSetup
<1>13. AmexOwns(c, m, s)
  BY <1>3, <1>11 DEF AmexOwns
<1>14. ASSUME NEW r \in AmexSets
       PROVE  /\ setupapi'.lists[r].guid # AmexNone
                   => AmexTells(setupapi'.classes, setupapi'.lists[r])
              /\ AmexOwns(setupapi'.classes, setupapi'.lists[r], r)
  <2>1. setupapi'.lists[r] = IF r = s THEN m ELSE setupapi.lists[r]
    BY <1>1, <1>10 DEF AmexSetup
  <2>2. CASE r = s
    BY <1>10, <1>11, <1>13, <2>1, <2>2
  <2>3. CASE r # s
    BY <1>10, <2>1, <2>3 DEF AmexListsInv
  <2> QED
    BY <2>2, <2>3
<1> QED
  BY <1>12, <1>14 DEF AmexListsInv

(* Classes that were given a handle.                                       *)
AmexGave(c, entries, handle, d) ==
  /\ DOMAIN d = DOMAIN c /\ d \in [DOMAIN c -> AmexClass]
  /\ \A i \in DOMAIN c :
       /\ d[i].guid = c[i].guid
       /\ d[i].cur_handle = IF i \in entries THEN handle ELSE c[i].cur_handle

(* A handle that is not in use is given to a class and to those it is      *)
(* taken for.                                                              *)
LEMMA AmexGives ==
  ASSUME NEW c, c \in [DOMAIN c -> AmexClass], NEW entries,
         NEW handle \in AmexSets \cup {AmexNone, AmexJunk}
  PROVE  AmexGave(c, entries, handle, AmexGive(c, entries, handle))
<1> DEFINE d == AmexGive(c, entries, handle)
<1>1. ASSUME NEW i \in DOMAIN c
      PROVE  /\ d[i] \in AmexClass /\ d[i].guid = c[i].guid
             /\ d[i].cur_handle = IF i \in entries THEN handle ELSE c[i].cur_handle
  <2>1. c[i] \in AmexClass
    OBVIOUS
  <2>2. d[i] = IF i \in entries THEN [c[i] EXCEPT !.cur_handle = handle] ELSE c[i]
    BY DEF AmexGive
  <2> HIDE DEF d
  <2> QED
    BY ONLY <2>1, <2>2, handle \in AmexSets \cup {AmexNone, AmexJunk} DEF AmexClass
<1>2. DOMAIN d = DOMAIN c /\ d = [i \in DOMAIN c |-> d[i]]
  BY DEF AmexGive
<1> HIDE DEF d
<1>3. AmexGave(c, entries, handle, d)
  BY ONLY <1>1, <1>2 DEF AmexGave
<1> QED
  BY <1>3 DEF d

(* What a list tells does not depend on the handles of the classes.        *)
LEMMA AmexTellsSame ==
  ASSUME NEW c, NEW d, DOMAIN d = DOMAIN c, \A i \in DOMAIN c : d[i].guid = c[i].guid,
         NEW l, NEW m, m.guid = l.guid, m.told = l.told, m.all = l.all,
         m.newest => l.newest, m.stray = l.stray, AmexTells(c, l)
  PROVE  AmexTells(d, m)
  BY DEF AmexTells

(* The game asks for a list of devices.                                    *)
LEMMA AmexOpenKeeps ==
  ASSUME AmexListsInv(setupapi), NEW s \in AmexSets, NEW guid \in AmexGuids,
         my_SetupDiGetClassDevs(s, guid)
  PROVE  AmexListsInv(setupapi')
<1> DEFINE c == setupapi.classes
           d == setupapi'.classes
<1>1. AmexSetup(setupapi) /\ setupapi.lists[s].guid = AmexNone
  BY DEF AmexListsInv, my_SetupDiGetClassDevs
<1>2. PICK chance \in SUBSET AmexUnset(guid) :
        AmexListed(s, guid, AmexOfClass(guid) \cup chance, chance)
  BY DEF my_SetupDiGetClassDevs
<1> DEFINE entries == AmexOfClass(guid) \cup chance
           classes == AmexGive(c, entries, s)
           new == [AmexNoList EXCEPT !.guid = guid, !.newest = TRUE, !.stray = chance # {}]
           lists == AmexList(setupapi.lists, s, guid, chance # {})
<1>3. setupapi' = [setupapi EXCEPT !.classes = classes, !.lists = lists]
  BY <1>2 DEF AmexListed
<1>4. setupapi' = [classes |-> classes, lists |-> lists]
  <2> HIDE DEF classes, lists
  <2> QED
    BY ONLY <1>1, <1>3 DEF AmexSetup
<1>5. d = classes /\ setupapi'.lists = lists
  <2> HIDE DEF classes, lists
  <2> QED
    BY ONLY <1>4
<1>6. DOMAIN c \subseteq Nat /\ c \in [DOMAIN c -> AmexClass]
      /\ setupapi.lists \in [AmexSets -> AmexListType]
  BY <1>1 DEF AmexSetup
<1>7. /\ DOMAIN d = DOMAIN c /\ d \in [DOMAIN c -> AmexClass]
      /\ \A i \in DOMAIN c : /\ d[i].guid = c[i].guid
                             /\ d[i].cur_handle = IF i \in entries THEN s ELSE c[i].cur_handle
  <2>1. AmexGave(c, entries, s, d)
    BY <1>5, <1>6, AmexGives
  <2> HIDE DEF c, d, entries
  <2> QED
    BY ONLY <2>1 DEF AmexGave
<1>8. \A i \in DOMAIN c : i \in entries <=> c[i].guid = guid \/ i \in chance
  BY DEF AmexOfClass
<1>9. \A i \in chance : i \in DOMAIN c /\ c[i].guid # guid /\ c[i].cur_handle = AmexJunk
  BY DEF AmexUnset
<1>10. /\ new \in AmexListType /\ new.guid = guid /\ new.told = <<>> /\ new.all = FALSE
       /\ new.newest = TRUE /\ new.stray = (chance # {})
  <2>1. <<>> \in Seq(AmexDevices) /\ (chance # {}) \in BOOLEAN
    OBVIOUS
  <2>2. PICK stray : stray = (chance # {})
    OBVIOUS
  <2>3. new = [AmexNoList EXCEPT !.guid = guid, !.newest = TRUE, !.stray = stray]
    BY <2>2
  <2>4. stray \in BOOLEAN
    BY <2>2
  <2> HIDE DEF new
  <2>5. /\ new \in AmexListType /\ new.guid = guid /\ new.told = <<>> /\ new.all = FALSE
        /\ new.newest = TRUE /\ new.stray = stray
    BY ONLY <2>1, <2>3, <2>4, guid \in AmexGuids DEF AmexNoList, AmexListType
  <2> QED
    BY <2>2, <2>5
<1>11. ASSUME NEW r \in AmexSets, r # s
       PROVE  /\ lists[r] \in AmexListType /\ lists[r].guid = setupapi.lists[r].guid
              /\ lists[r].told = setupapi.lists[r].told /\ lists[r].all = setupapi.lists[r].all
              /\ lists[r].stray = setupapi.lists[r].stray
              /\ lists[r].newest => setupapi.lists[r].newest /\ setupapi.lists[r].guid # guid
  <2> DEFINE l == setupapi.lists[r]
  <2>1. l \in AmexListType
    BY <1>6
  <2>2. PICK newest : newest = (l.newest /\ l.guid # guid)
    OBVIOUS
  <2>3. lists[r] = [l EXCEPT !.newest = newest]
    BY <1>11, <2>2 DEF AmexList
  <2>4. newest \in BOOLEAN
    BY <2>2
  <2> HIDE DEF l, lists
  <2>5. /\ lists[r] \in AmexListType /\ lists[r].guid = l.guid /\ lists[r].told = l.told
        /\ lists[r].all = l.all /\ lists[r].stray = l.stray /\ lists[r].newest = newest
    BY ONLY <2>1, <2>3, <2>4 DEF AmexListType
  <2> QED
    BY <2>2, <2>5 DEF l
<1>12. lists[s] = new
  BY DEF AmexList
<1>13. lists \in [AmexSets -> AmexListType]
  <2>1. \A r \in AmexSets : lists[r] \in AmexListType
    BY <1>10, <1>11, <1>12
  <2>2. lists = [r \in AmexSets |-> lists[r]]
    BY DEF AmexList
  <2> QED
    BY <2>1, <2>2
<1> HIDE DEF lists, classes, new
<1>14. AmexSetup(setupapi')
  BY <1>4, <1>5, <1>6, <1>7, <1>13 DEF AmexSetup
<1>15. ASSUME NEW r \in AmexSets
       PROVE  /\ lists[r].guid # AmexNone => AmexTells(d, lists[r])
              /\ AmexOwns(d, lists[r], r)
  <2>1. /\ setupapi.lists[r].guid # AmexNone => AmexTells(c, setupapi.lists[r])
        /\ AmexOwns(c, setupapi.lists[r], r)
    BY DEF AmexListsInv
  <2>2. CASE r = s
    <3>1. AmexTells(d, new)
      BY ONLY <1>10 DEF AmexTells
    <3>2. \A i \in DOMAIN c : c[i].cur_handle # s
      BY <1>1, <2>1, <2>2 DEF AmexOwns
    <3>3. \A i \in DOMAIN d : d[i].cur_handle = s <=> i \in entries
      BY <1>7, <3>2
    <3>4. AmexOwns(d, new, s)
      <4>1. guid # AmexNone
        BY AmexAssumption DEF AmexAssumption
      <4>2. \A i \in DOMAIN d : d[i].guid = guid => d[i].cur_handle = s
        BY <1>7, <1>8, <3>3
      <4>3. \A i \in DOMAIN d : d[i].cur_handle = s => chance # {} \/ d[i].guid = guid
        BY <1>7, <1>8, <3>3
      <4> QED
        BY ONLY <1>10, <4>1, <4>2, <4>3 DEF AmexOwns
    <3> QED
      BY <1>12, <2>2, <3>1, <3>4
  <2>3. CASE r # s
    <3>1. /\ lists[r].guid = setupapi.lists[r].guid
          /\ lists[r].told = setupapi.lists[r].told /\ lists[r].all = setupapi.lists[r].all
          /\ lists[r].stray = setupapi.lists[r].stray
          /\ lists[r].newest => setupapi.lists[r].newest /\ setupapi.lists[r].guid # guid
      BY <1>11, <2>3
    <3> DEFINE l == setupapi.lists[r]
               m == lists[r]
    <3>2. l.guid # AmexNone => AmexTells(d, m)
      <4> HIDE DEF c, d, l, m
      <4>1. /\ m.guid = l.guid /\ m.told = l.told /\ m.all = l.all /\ m.stray = l.stray
            /\ m.newest => l.newest
        BY <3>1 DEF l, m
      <4>2. l.guid # AmexNone => AmexTells(c, l)
        BY <2>1 DEF l
      <4> QED
        BY ONLY <1>7, <4>1, <4>2, AmexTellsSame
    <3>3. \A i \in DOMAIN c : d[i].cur_handle = r => c[i].cur_handle = r
      BY <1>7, <2>3
    <3>4. ASSUME m.newest, m.guid # AmexNone, NEW i \in DOMAIN c, c[i].guid = m.guid
          PROVE  d[i].cur_handle = r
      <4>1. c[i].cur_handle = r /\ c[i].guid # guid
        BY <2>1, <3>1, <3>4 DEF AmexOwns
      <4>2. i \notin entries
        BY <1>8, <1>9, <4>1, AmexAssumption DEF AmexAssumption
      <4> QED
        BY <1>7, <4>1, <4>2
    <3>5. AmexOwns(d, m, r)
      <4>1. \A i \in DOMAIN c :
              d[i].cur_handle = r => m.guid # AmexNone /\ (m.stray \/ d[i].guid = m.guid)
        BY <1>7, <2>1, <3>1, <3>3 DEF AmexOwns
      <4>2. m.newest /\ m.guid # AmexNone
              => \A i \in DOMAIN c : d[i].guid = m.guid => d[i].cur_handle = r
        BY <1>7, <3>4
      <4> HIDE DEF c, d, m
      <4> QED
        BY ONLY <1>7, <4>1, <4>2 DEF AmexOwns
    <3> QED
      BY <3>1, <3>2, <3>5
  <2> QED
    BY <2>2, <2>3
<1> QED
  BY <1>5, <1>14, <1>15 DEF AmexListsInv

(* The game gives a list back.                                             *)
LEMMA AmexDestroyKeeps ==
  ASSUME AmexListsInv(setupapi), NEW s \in AmexSets, my_SetupDiDestroyDeviceInfoList(s)
  PROVE  AmexListsInv(setupapi')
<1> DEFINE c == setupapi.classes
           d == setupapi'.classes
           entries == AmexPhantoms(s)
           classes == AmexGive(c, entries, AmexNone)
           lists == [setupapi.lists EXCEPT ![s] = AmexNoList]
<1>1. AmexSetup(setupapi)
  BY DEF AmexListsInv
<1>2. setupapi' = [setupapi EXCEPT !.lists[s] = AmexNoList, !.classes = classes]
  BY DEF my_SetupDiDestroyDeviceInfoList
<1>3. setupapi' = [classes |-> classes, lists |-> lists]
  <2> HIDE DEF classes
  <2> QED
    BY ONLY <1>1, <1>2 DEF AmexSetup
<1>4. d = classes /\ setupapi'.lists = lists
  <2> HIDE DEF classes, lists
  <2> QED
    BY ONLY <1>3
<1>5. DOMAIN c \subseteq Nat /\ c \in [DOMAIN c -> AmexClass]
      /\ setupapi.lists \in [AmexSets -> AmexListType]
  BY <1>1 DEF AmexSetup
<1>6. /\ DOMAIN d = DOMAIN c /\ d \in [DOMAIN c -> AmexClass]
      /\ \A i \in DOMAIN c :
           /\ d[i].guid = c[i].guid
           /\ d[i].cur_handle = IF i \in entries THEN AmexNone ELSE c[i].cur_handle
  <2>1. AmexGave(c, entries, AmexNone, d)
    BY <1>4, <1>5, AmexGives
  <2> HIDE DEF c, d, entries
  <2> QED
    BY ONLY <2>1 DEF AmexGave
<1>7. AmexNoList \in AmexListType /\ AmexNoList.guid = AmexNone /\ AmexNoList.newest = FALSE
  <2>1. <<>> \in Seq(AmexDevices)
    OBVIOUS
  <2> QED
    BY ONLY <2>1 DEF AmexNoList, AmexListType
<1>8. lists \in [AmexSets -> AmexListType]
  BY <1>5, <1>7
<1>9. ASSUME NEW r \in AmexSets
      PROVE  /\ lists[r].guid # AmexNone => AmexTells(d, lists[r])
             /\ AmexOwns(d, lists[r], r)
  <2>1. /\ setupapi.lists[r].guid # AmexNone => AmexTells(c, setupapi.lists[r])
        /\ AmexOwns(c, setupapi.lists[r], r)
    BY DEF AmexListsInv
  <2>2. r # AmexNone
    BY AmexAssumption DEF AmexAssumption
  <2>3. CASE r = s
    <3>1. lists[r] = AmexNoList
      BY <1>5, <2>3
    <3>2. \A i \in DOMAIN d : d[i].cur_handle # s
      BY <1>6, <2>2, <2>3 DEF AmexPhantoms
    <3> QED
      BY ONLY <1>7, <2>3, <3>1, <3>2 DEF AmexOwns
  <2>4. CASE r # s
    <3> DEFINE l == setupapi.lists[r]
    <3>1. lists[r] = l
      BY <1>5, <2>4
    <3>2. l.guid # AmexNone => AmexTells(d, l)
      <4>1. l.guid # AmexNone => AmexTells(c, l)
        BY <2>1
      <4> HIDE DEF c, d, l
      <4> QED
        BY ONLY <1>6, <4>1, AmexTellsSame
    <3>3. \A i \in DOMAIN c : d[i].cur_handle = r <=> c[i].cur_handle = r
      BY <1>6, <2>2, <2>4 DEF AmexPhantoms
    <3>4. AmexOwns(d, l, r)
      <4>1. AmexOwns(c, l, r)
        BY <2>1
      <4> HIDE DEF c, d, l
      <4> QED
        BY ONLY <1>6, <3>3, <4>1 DEF AmexOwns
    <3> QED
      BY <3>1, <3>2, <3>4
  <2> QED
    BY <2>3, <2>4
<1>10. AmexSetup(setupapi')
  <2> HIDE DEF lists, classes
  <2> QED
    BY <1>3, <1>4, <1>5, <1>6, <1>8 DEF AmexSetup
<1> QED
  BY <1>4, <1>9, <1>10 DEF AmexListsInv


(* A game that starts or ends has no list.                                 *)
LEMMA AmexStartKeeps ==
  ASSUME NEW classes, DOMAIN classes \subseteq Nat, classes \in [DOMAIN classes -> AmexClass],
         \A i \in DOMAIN classes : classes[i].cur_handle = AmexJunk,
         NEW u, u = [classes |-> classes, lists |-> [s \in AmexSets |-> AmexNoList]]
  PROVE  AmexListsInv(u)
<1>1. AmexNoList \in AmexListType /\ AmexNoList.guid = AmexNone
  <2>1. <<>> \in Seq(AmexDevices)
    OBVIOUS
  <2> QED
    BY ONLY <2>1 DEF AmexNoList, AmexListType
<1>2. u.classes = classes /\ u.lists = [s \in AmexSets |-> AmexNoList]
  OBVIOUS
<1>3. AmexSetup(u)
  BY <1>1, <1>2 DEF AmexSetup
<1>4. ASSUME NEW s \in AmexSets
      PROVE  u.lists[s].guid = AmexNone /\ AmexOwns(u.classes, u.lists[s], s)
  <2>1. s # AmexJunk
    BY AmexAssumption DEF AmexAssumption
  <2>2. u.lists[s].guid = AmexNone
    BY <1>1, <1>2
  <2> QED
    BY <1>2, <2>1, <2>2 DEF AmexOwns
<1> QED
  BY <1>3, <1>4 DEF AmexListsInv

(* The lists are those of a game that has not started.                     *)
AmexNoLists(u) ==
  u.classes = <<>> => u.lists = [s \in AmexSets |-> AmexNoList]

(* The fields of the state of the store.                                   *)
AmexPlaces == {"off", "idle", "clear", "create", "size", "take"}
(* The fields of the state of the store.                                   *)
AmexStoreType ==
  [file : AmexThreads \cup {0}, os : AmexThreads \cup {0}, size : {"none", "short", "whole"},
   data : [AmexCells -> Int], true : [AmexCells -> Int], pc : [AmexThreads -> AmexPlaces],
   fd : [AmexThreads -> AmexThreads \cup {0}], raced : BOOLEAN, starts : Nat]

(* What is in the store, and who is sure that it is whole.                 *)
AmexKept(a) ==
  /\ a.data = a.true
  /\ \A t \in AmexThreads : a.fd[t] # 0 \/ a.pc[t] = "take" => a.size = "whole"
  /\ a.size # "whole" => a.true = AmexBlank

(* Until two opens were inside each other, one thread opens the store or   *)
(* holds it, and the device and Windows have its handle or none.           *)
AmexBusy == {"clear", "create", "size", "take"}

(* As long as no two threads are inside the open: who has the device has   *)
(* it alone, and how far an open has come.                                 *)
AmexAlone(a) ==
  /\ \A t \in AmexThreads :
       a.fd[t] # 0 => a.fd[t] = t /\ a.file = t /\ a.os = t /\ a.pc[t] = "idle"
  /\ \A t, u \in AmexThreads :
       a.pc[t] \in AmexBusy => a.fd[u] = 0 /\ (a.pc[u] \in AmexBusy => u = t)
  /\ \A t \in AmexThreads :
       /\ a.pc[t] \in {"clear", "create"} => a.file = 0 /\ a.os = 0
       /\ a.pc[t] = "size" => a.file = 0 /\ a.os = t
       /\ a.pc[t] = "take" => a.file = t /\ a.os = t
  /\ (\A t \in AmexThreads : a.pc[t] \notin AmexBusy /\ a.fd[t] = 0) => a.file = 0 /\ a.os = 0

(* No thread of a game that has ended has anything open.                   *)
AmexRests(a) == \A t \in AmexThreads : a.pc[t] = "off" /\ a.fd[t] = 0

(* All of it, of the store.                                                *)
AmexStoreGood(a) == a \in AmexStoreType /\ AmexKept(a) /\ (~a.raced => AmexAlone(a))

(* A thread takes a step of an open.                                       *)
LEMMA AmexOpenStep ==
  ASSUME NEW a, AmexStoreGood(a), NEW t \in AmexThreads, NEW n,
         \/ /\ a.pc[t] = "idle" /\ a.fd[t] = 0 /\ a.file = 0
            /\ n = [a EXCEPT !.pc[t] = "clear",
                     !.raced = a.raced \/ \E u \in AmexThreads \ {t} : a.pc[u] \notin {"off", "idle"}]
         \/ /\ a.pc[t] = "clear"
            /\ n = [a EXCEPT !.pc[t] = "create", !.file = 0]
  PROVE  AmexStoreGood(n)
<1>1. a \in AmexStoreType /\ AmexKept(a) /\ (~a.raced => AmexAlone(a))
  BY DEF AmexStoreGood
<1>2. 0 \notin AmexThreads
  BY AmexAssumption DEF AmexAssumption
<1>3. CASE /\ a.pc[t] = "idle" /\ a.fd[t] = 0 /\ a.file = 0
           /\ n = [a EXCEPT !.pc[t] = "clear",
                    !.raced = a.raced \/ \E u \in AmexThreads \ {t} : a.pc[u] \notin {"off", "idle"}]
  <2>1. PICK raced : raced = (a.raced \/ \E u \in AmexThreads \ {t} : a.pc[u] \notin {"off", "idle"})
    OBVIOUS
  <2>2. raced \in BOOLEAN
    BY <1>1, <2>1 DEF AmexStoreType
  <2>3. n = [a EXCEPT !.pc[t] = "clear", !.raced = raced]
    BY <1>3, <2>1
  <2>4. /\ n \in AmexStoreType /\ n.pc = [a.pc EXCEPT ![t] = "clear"] /\ n.raced = raced
        /\ n.file = a.file /\ n.os = a.os /\ n.size = a.size /\ n.data = a.data
        /\ n.true = a.true /\ n.fd = a.fd
    BY ONLY <1>1, <2>2, <2>3, t \in AmexThreads DEF AmexStoreType, AmexPlaces
  <2>5. \A u \in AmexThreads : n.pc[u] = IF u = t THEN "clear" ELSE a.pc[u]
    BY <1>1, <2>4 DEF AmexStoreType
  <2>6. AmexKept(n)
    BY ONLY <1>1, <2>4, <2>5 DEF AmexKept
  <2>7. ASSUME ~n.raced PROVE AmexAlone(n)
    <3>1. \A u \in AmexThreads : a.pc[u] \notin AmexBusy
      BY <1>3, <2>1, <2>4, <2>7 DEF AmexBusy
    <3>2. AmexAlone(a)
      BY <1>1, <2>1, <2>4, <2>7
    <3>3. \A u \in AmexThreads : a.fd[u] = 0
      BY ONLY <1>2, <1>3, <3>2 DEF AmexAlone
    <3>4. a.file = 0 /\ a.os = 0
      BY ONLY <3>1, <3>2, <3>3 DEF AmexAlone
    <3>5. \A u \in AmexThreads : n.pc[u] \in AmexBusy => u = t /\ n.pc[u] = "clear"
      BY ONLY <2>5, <3>1
    <3>6. n.pc[t] \in AmexBusy
      BY ONLY <2>5, t \in AmexThreads DEF AmexBusy
    <3> QED
      BY ONLY <2>4, <3>3, <3>4, <3>5, <3>6, t \in AmexThreads DEF AmexAlone, AmexBusy
  <2> QED
    BY <2>4, <2>6, <2>7 DEF AmexStoreGood
<1>4. CASE a.pc[t] = "clear" /\ n = [a EXCEPT !.pc[t] = "create", !.file = 0]
  <2>1. /\ n \in AmexStoreType /\ n.pc = [a.pc EXCEPT ![t] = "create"] /\ n.raced = a.raced
        /\ n.file = 0 /\ n.os = a.os /\ n.size = a.size /\ n.data = a.data
        /\ n.true = a.true /\ n.fd = a.fd
    BY ONLY <1>1, <1>4, t \in AmexThreads DEF AmexStoreType, AmexPlaces
  <2>2. \A u \in AmexThreads : n.pc[u] = IF u = t THEN "create" ELSE a.pc[u]
    BY <1>1, <2>1 DEF AmexStoreType
  <2>3. AmexKept(n)
    BY ONLY <1>1, <2>1, <2>2 DEF AmexKept
  <2>4. ASSUME ~n.raced PROVE AmexAlone(n)
    <3>1. AmexAlone(a)
      BY <1>1, <2>1, <2>4
    <3>2. /\ a.os = 0 /\ \A u \in AmexThreads : a.fd[u] = 0
          /\ \A u \in AmexThreads : a.pc[u] \in AmexBusy => u = t
      BY ONLY <1>4, <3>1, t \in AmexThreads DEF AmexAlone, AmexBusy
    <3>3. \A u \in AmexThreads : n.pc[u] \in AmexBusy => u = t /\ n.pc[u] = "create"
      BY ONLY <2>2, <3>2
    <3>4. n.pc[t] \in AmexBusy
      BY ONLY <2>2, t \in AmexThreads DEF AmexBusy
    <3> QED
      BY ONLY <2>1, <3>2, <3>3, <3>4, t \in AmexThreads DEF AmexAlone, AmexBusy
  <2> QED
    BY <2>1, <2>3, <2>4 DEF AmexStoreGood
<1> QED
  BY <1>3, <1>4

(* A thread that opens gives up.                                           *)
LEMMA AmexGivesUp ==
  ASSUME NEW a, AmexStoreGood(a), NEW t \in AmexThreads, NEW n,
         \/ a.pc[t] = "create" /\ n = [a EXCEPT !.pc[t] = "idle"]
         \/ a.pc[t] = "size" /\ n = [a EXCEPT !.pc[t] = "idle", !.os = 0]
  PROVE  AmexStoreGood(n)
<1>1. a \in AmexStoreType /\ AmexKept(a) /\ (~a.raced => AmexAlone(a))
  BY DEF AmexStoreGood
<1>2. /\ n \in AmexStoreType /\ n.pc = [a.pc EXCEPT ![t] = "idle"] /\ n.raced = a.raced
      /\ n.file = a.file /\ n.os \in {0, a.os} /\ n.size = a.size /\ n.data = a.data
      /\ n.true = a.true /\ n.fd = a.fd
      /\ a.pc[t] = "size" => n.os = 0
      /\ a.pc[t] \in {"create", "size"}
  <2>1. CASE a.pc[t] = "create" /\ n = [a EXCEPT !.pc[t] = "idle"]
    BY ONLY <1>1, <2>1, t \in AmexThreads DEF AmexStoreType, AmexPlaces
  <2>2. CASE a.pc[t] = "size" /\ n = [a EXCEPT !.pc[t] = "idle", !.os = 0]
    BY ONLY <1>1, <2>2, t \in AmexThreads DEF AmexStoreType, AmexPlaces
  <2> QED
    BY <2>1, <2>2
<1>3. \A u \in AmexThreads : n.pc[u] = IF u = t THEN "idle" ELSE a.pc[u]
  BY <1>1, <1>2 DEF AmexStoreType
<1>4. AmexKept(n)
  BY ONLY <1>1, <1>2, <1>3 DEF AmexKept
<1>5. ASSUME ~n.raced PROVE AmexAlone(n)
  <2>1. AmexAlone(a)
    BY <1>1, <1>2, <1>5
  <2>2. /\ a.file = 0 /\ \A u \in AmexThreads : a.fd[u] = 0
        /\ \A u \in AmexThreads : a.pc[u] \in AmexBusy => u = t
        /\ a.pc[t] = "create" => a.os = 0
    BY ONLY <1>2, <2>1, t \in AmexThreads DEF AmexAlone, AmexBusy
  <2>3. \A u \in AmexThreads : n.pc[u] \notin AmexBusy
    BY ONLY <1>3, <2>2 DEF AmexBusy
  <2>4. n.os = 0
    BY ONLY <1>2, <2>2
  <2>5. \A u \in AmexThreads : n.pc[u] \notin {"clear", "create"} /\ n.pc[u] # "size" /\ n.pc[u] # "take"
    BY ONLY <2>3 DEF AmexBusy
  <2> QED
    BY ONLY <1>2, <2>2, <2>3, <2>4, <2>5 DEF AmexAlone
<1> QED
  BY <1>2, <1>4, <1>5 DEF AmexStoreGood

(* A thread opens the store, gives it its size, and takes it.              *)
LEMMA AmexTakeStep ==
  ASSUME NEW a, AmexStoreGood(a), NEW t \in AmexThreads, NEW n,
         \/ /\ a.pc[t] = "create" /\ a.os = 0
            /\ n = [a EXCEPT !.pc[t] = "size", !.os = t,
                             !.size = IF a.size = "none" THEN "short" ELSE a.size]
         \/ /\ a.pc[t] = "size"
            /\ n = [a EXCEPT !.pc[t] = "take", !.size = "whole", !.file = t]
         \/ a.pc[t] = "take" /\ n = [a EXCEPT !.pc[t] = "idle", !.fd[t] = a.file]
  PROVE  AmexStoreGood(n)
<1>1. a \in AmexStoreType /\ AmexKept(a) /\ (~a.raced => AmexAlone(a))
  BY DEF AmexStoreGood
<1>2. 0 \notin AmexThreads /\ t # 0
  BY AmexAssumption DEF AmexAssumption
<1>3. ASSUME AmexAlone(a), a.pc[t] \in AmexBusy
      PROVE  /\ \A u \in AmexThreads : a.fd[u] = 0
             /\ \A u \in AmexThreads : u # t => a.pc[u] \notin AmexBusy
  BY ONLY <1>3, t \in AmexThreads DEF AmexAlone
<1>4. CASE /\ a.pc[t] = "create" /\ a.os = 0
           /\ n = [a EXCEPT !.pc[t] = "size", !.os = t,
                            !.size = IF a.size = "none" THEN "short" ELSE a.size]
  <2>1. PICK size : size = IF a.size = "none" THEN "short" ELSE a.size
    OBVIOUS
  <2>2. size \in {"none", "short", "whole"} /\ (size = "whole" <=> a.size = "whole")
    BY <1>1, <2>1 DEF AmexStoreType
  <2>3. n = [a EXCEPT !.pc[t] = "size", !.os = t, !.size = size]
    BY <1>4, <2>1
  <2>4. /\ n \in AmexStoreType /\ n.pc = [a.pc EXCEPT ![t] = "size"] /\ n.raced = a.raced
        /\ n.file = a.file /\ n.os = t /\ n.size = size /\ n.data = a.data
        /\ n.true = a.true /\ n.fd = a.fd
    BY ONLY <1>1, <2>2, <2>3, t \in AmexThreads DEF AmexStoreType, AmexPlaces
  <2>5. \A u \in AmexThreads : n.pc[u] = IF u = t THEN "size" ELSE a.pc[u]
    BY <1>1, <2>4 DEF AmexStoreType
  <2>6. AmexKept(n)
    BY ONLY <1>1, <2>2, <2>4, <2>5 DEF AmexKept
  <2>7. ASSUME ~n.raced PROVE AmexAlone(n)
    <3>1. AmexAlone(a) /\ a.pc[t] \in AmexBusy
      BY <1>1, <1>4, <2>4, <2>7 DEF AmexBusy
    <3>2. a.file = 0
      BY ONLY <1>4, <3>1, t \in AmexThreads DEF AmexAlone
    <3>3. \A u \in AmexThreads : n.pc[u] \in AmexBusy => u = t /\ n.pc[u] = "size"
      BY ONLY <1>3, <2>5, <3>1
    <3>4. n.pc[t] \in AmexBusy
      BY ONLY <2>5, t \in AmexThreads DEF AmexBusy
    <3> QED
      BY ONLY <1>3, <2>4, <3>1, <3>2, <3>3, <3>4, t \in AmexThreads
        DEF AmexAlone, AmexBusy
  <2> QED
    BY <2>4, <2>6, <2>7 DEF AmexStoreGood
<1>5. CASE /\ a.pc[t] = "size"
           /\ n = [a EXCEPT !.pc[t] = "take", !.size = "whole", !.file = t]
  <2>1. /\ n \in AmexStoreType /\ n.pc = [a.pc EXCEPT ![t] = "take"] /\ n.raced = a.raced
        /\ n.file = t /\ n.os = a.os /\ n.size = "whole" /\ n.data = a.data
        /\ n.true = a.true /\ n.fd = a.fd
    BY ONLY <1>1, <1>5, t \in AmexThreads DEF AmexStoreType, AmexPlaces
  <2>2. \A u \in AmexThreads : n.pc[u] = IF u = t THEN "take" ELSE a.pc[u]
    BY <1>1, <2>1 DEF AmexStoreType
  <2>3. AmexKept(n)
    BY ONLY <1>1, <2>1, <2>2 DEF AmexKept
  <2>4. ASSUME ~n.raced PROVE AmexAlone(n)
    <3>1. AmexAlone(a) /\ a.pc[t] \in AmexBusy
      BY <1>1, <1>5, <2>1, <2>4 DEF AmexBusy
    <3>2. a.os = t
      BY ONLY <1>5, <3>1, t \in AmexThreads DEF AmexAlone
    <3>3. \A u \in AmexThreads : n.pc[u] \in AmexBusy => u = t /\ n.pc[u] = "take"
      BY ONLY <1>3, <2>2, <3>1
    <3>4. n.pc[t] \in AmexBusy
      BY ONLY <2>2, t \in AmexThreads DEF AmexBusy
    <3> QED
      BY ONLY <1>3, <2>1, <3>1, <3>2, <3>3, <3>4, t \in AmexThreads
        DEF AmexAlone, AmexBusy
  <2> QED
    BY <2>1, <2>3, <2>4 DEF AmexStoreGood
<1>6. CASE a.pc[t] = "take" /\ n = [a EXCEPT !.pc[t] = "idle", !.fd[t] = a.file]
  <2>1. /\ n \in AmexStoreType /\ n.pc = [a.pc EXCEPT ![t] = "idle"] /\ n.raced = a.raced
        /\ n.file = a.file /\ n.os = a.os /\ n.size = a.size /\ n.data = a.data
        /\ n.true = a.true /\ n.fd = [a.fd EXCEPT ![t] = a.file]
    BY ONLY <1>1, <1>6, t \in AmexThreads DEF AmexStoreType, AmexPlaces
  <2>2. \A u \in AmexThreads : /\ n.pc[u] = IF u = t THEN "idle" ELSE a.pc[u]
                               /\ n.fd[u] = IF u = t THEN a.file ELSE a.fd[u]
    BY <1>1, <2>1 DEF AmexStoreType
  <2>3. AmexKept(n)
    BY ONLY <1>1, <1>6, <2>1, <2>2, t \in AmexThreads DEF AmexKept
  <2>4. ASSUME ~n.raced PROVE AmexAlone(n)
    <3>1. AmexAlone(a) /\ a.pc[t] \in AmexBusy
      BY <1>1, <1>6, <2>1, <2>4 DEF AmexBusy
    <3>2. a.os = t /\ a.file = t
      BY ONLY <1>6, <3>1, t \in AmexThreads DEF AmexAlone
    <3>3. \A u \in AmexThreads : n.pc[u] \notin AmexBusy
      BY ONLY <1>3, <2>2, <3>1 DEF AmexBusy
    <3>4. \A u \in AmexThreads : n.fd[u] # 0 => u = t /\ n.fd[u] = t /\ n.pc[u] = "idle"
      BY ONLY <1>3, <2>2, <3>1, <3>2
    <3>5. n.fd[t] # 0 /\ n.file = t /\ n.os = t
      BY ONLY <1>2, <2>1, <2>2, <3>2, t \in AmexThreads
    <3>6. \A u \in AmexThreads : n.pc[u] \notin {"clear", "create"} /\ n.pc[u] # "size"
                                 /\ n.pc[u] # "take"
      BY ONLY <3>3 DEF AmexBusy
    <3> QED
      BY ONLY <3>3, <3>4, <3>5, <3>6, t \in AmexThreads DEF AmexAlone
  <2> QED
    BY <2>1, <2>3, <2>4 DEF AmexStoreGood
<1> QED
  BY <1>4, <1>5, <1>6

(* A thread writes, and closes the store.                                  *)
LEMMA AmexHeldStep ==
  ASSUME NEW a, AmexStoreGood(a), NEW t \in AmexThreads, a.pc[t] = "idle", a.fd[t] # 0, NEW n,
         \/ n = [a EXCEPT !.file = IF a.fd[t] = a.file THEN 0 ELSE a.file, !.os = 0, !.fd[t] = 0]
         \/ \E c \in AmexCells :
              n = [a EXCEPT !.data[c] = 1 - a.data[c], !.true[c] = 1 - a.data[c]]
  PROVE  AmexStoreGood(n)
<1>1. a \in AmexStoreType /\ AmexKept(a) /\ (~a.raced => AmexAlone(a))
  BY DEF AmexStoreGood
<1>2. CASE n = [a EXCEPT !.file = IF a.fd[t] = a.file THEN 0 ELSE a.file, !.os = 0, !.fd[t] = 0]
  <2>1. PICK file : file = IF a.fd[t] = a.file THEN 0 ELSE a.file
    OBVIOUS
  <2>2. file \in AmexThreads \cup {0}
    BY <1>1, <2>1 DEF AmexStoreType
  <2>3. n = [a EXCEPT !.file = file, !.os = 0, !.fd[t] = 0]
    BY <1>2, <2>1
  <2>4. /\ n \in AmexStoreType /\ n.pc = a.pc /\ n.raced = a.raced
        /\ n.file = file /\ n.os = 0 /\ n.size = a.size /\ n.data = a.data
        /\ n.true = a.true /\ n.fd = [a.fd EXCEPT ![t] = 0]
    BY ONLY <1>1, <2>2, <2>3, t \in AmexThreads DEF AmexStoreType, AmexPlaces
  <2>5. \A u \in AmexThreads : n.fd[u] = IF u = t THEN 0 ELSE a.fd[u]
    BY <1>1, <2>4 DEF AmexStoreType
  <2>6. AmexKept(n)
    BY ONLY <1>1, <2>4, <2>5 DEF AmexKept
  <2>7. ASSUME ~n.raced PROVE AmexAlone(n)
    <3>1. AmexAlone(a)
      BY <1>1, <2>4, <2>7
    <3>2. a.fd[t] = t /\ a.file = t
      BY ONLY <3>1, a.fd[t] # 0, t \in AmexThreads DEF AmexAlone
    <3>3. \A u \in AmexThreads : u # t => a.fd[u] = 0
      BY ONLY <3>1, <3>2 DEF AmexAlone
    <3>4. \A u \in AmexThreads : a.pc[u] \notin AmexBusy
      BY ONLY <3>1, a.fd[t] # 0, t \in AmexThreads DEF AmexAlone
    <3>5. n.file = 0 /\ \A u \in AmexThreads : n.fd[u] = 0
      BY ONLY <2>1, <2>4, <2>5, <3>2, <3>3
    <3>6. \A u \in AmexThreads : n.pc[u] \notin {"clear", "create"} /\ n.pc[u] # "size"
                                 /\ n.pc[u] # "take"
      BY ONLY <2>4, <3>4 DEF AmexBusy
    <3> QED
      BY ONLY <2>4, <3>4, <3>5, <3>6 DEF AmexAlone
  <2> QED
    BY <2>4, <2>6, <2>7 DEF AmexStoreGood
<1>3. CASE \E c \in AmexCells :
             n = [a EXCEPT !.data[c] = 1 - a.data[c], !.true[c] = 1 - a.data[c]]
  <2>1. PICK c \in AmexCells :
          n = [a EXCEPT !.data[c] = 1 - a.data[c], !.true[c] = 1 - a.data[c]]
    BY <1>3
  <2>2. PICK x : x = 1 - a.data[c]
    OBVIOUS
  <2>3. x \in Int
    <3>1. a.data \in [AmexCells -> Int]
      BY ONLY <1>1 DEF AmexStoreType
    <3> QED
      BY ONLY <2>2, <3>1, c \in AmexCells
  <2>4. n = [a EXCEPT !.data[c] = x, !.true[c] = x]
    BY <2>1, <2>2
  <2>5. /\ n \in AmexStoreType /\ n.pc = a.pc /\ n.raced = a.raced
        /\ n.file = a.file /\ n.os = a.os /\ n.size = a.size
        /\ n.data = [a.data EXCEPT ![c] = x]
        /\ n.true = [a.true EXCEPT ![c] = x] /\ n.fd = a.fd
    <3>1. PICK d, e : d = [a.data EXCEPT ![c] = x] /\ e = [a.true EXCEPT ![c] = x]
      OBVIOUS
    <3>2. d \in [AmexCells -> Int] /\ e \in [AmexCells -> Int]
      BY <1>1, <2>3, <3>1 DEF AmexStoreType
    <3>3. n = [a EXCEPT !.data = d, !.true = e]
      BY ONLY <1>1, <2>4, <3>1 DEF AmexStoreType
    <3>4. /\ n \in AmexStoreType /\ n.pc = a.pc /\ n.raced = a.raced
          /\ n.file = a.file /\ n.os = a.os /\ n.size = a.size /\ n.data = d
          /\ n.true = e /\ n.fd = a.fd
      BY ONLY <1>1, <3>2, <3>3 DEF AmexStoreType
    <3> QED
      BY ONLY <3>1, <3>4
  <2>6. a.size = "whole"
    BY <1>1 DEF AmexKept
  <2>7. AmexKept(n)
    BY ONLY <1>1, <2>5, <2>6 DEF AmexKept
  <2>8. AmexAlone(a) => AmexAlone(n)
    BY ONLY <2>5 DEF AmexAlone
  <2> QED
    BY <1>1, <2>5, <2>7, <2>8 DEF AmexStoreGood
<1> QED
  BY <1>2, <1>3

(* The invariant: the lists, the store, and that a game that has not       *)
(* started has neither.                                                    *)
AmexInv ==
  /\ AmexListsInv(setupapi) /\ AmexNoLists(setupapi)
  /\ AmexStoreGood(amex)
  /\ ~AmexRuns => AmexRests(amex)

(* No list was asked for and nothing was opened.                           *)
LEMMA AmexInitInv == AmexInit => AmexInv
<1> SUFFICES ASSUME AmexInit PROVE AmexInv
  OBVIOUS
<1>1. AmexListsInv(setupapi)
  <2> DEFINE classes == <<>>
  <2>1. DOMAIN classes = {}
    OBVIOUS
  <2>2. classes \in [DOMAIN classes -> AmexClass]
    BY <2>1
  <2>3. setupapi = [classes |-> classes, lists |-> [s \in AmexSets |-> AmexNoList]]
    BY DEF AmexInit
  <2> HIDE DEF classes
  <2> QED
    BY <2>1, <2>2, <2>3, AmexStartKeeps
<1>2. AmexNoLists(setupapi)
  BY DEF AmexInit, AmexNoLists
<1>3. amex \in AmexStoreType
  <2>1. AmexBlank \in [AmexCells -> Int]
    BY DEF AmexBlank, AmexZero
  <2> QED
    BY <2>1 DEF AmexInit, AmexStoreType, AmexPlaces
<1>4. /\ amex.file = 0 /\ amex.os = 0 /\ amex.data = amex.true /\ amex.true = AmexBlank
      /\ \A t \in AmexThreads : amex.pc[t] = "off" /\ amex.fd[t] = 0
  BY DEF AmexInit
<1>5. AmexKept(amex) /\ AmexAlone(amex) /\ AmexRests(amex)
  BY ONLY <1>4 DEF AmexKept, AmexAlone, AmexRests, AmexBusy
<1> QED
  BY <1>1, <1>2, <1>3, <1>5 DEF AmexInv, AmexStoreGood

(* The game starts, with some of the devices, or ends.                     *)
LEMMA AmexStartedKeeps ==
  ASSUME AmexInv, AmexStarted
  PROVE  AmexInv'
<1>1. CASE AmexOff
  <2> DEFINE classes == <<>>
             a == amex
             n == amex'
  <2>1. DOMAIN classes = {} /\ classes \in [DOMAIN classes -> AmexClass]
    OBVIOUS
  <2>2. setupapi' = [classes |-> classes, lists |-> [s \in AmexSets |-> AmexNoList]]
    BY <1>1 DEF AmexOff
  <2>3. AmexListsInv(setupapi')
    <3> HIDE DEF classes
    <3> QED
      BY <2>1, <2>2, AmexStartKeeps
  <2>4. AmexNoLists(setupapi')
    BY <2>2 DEF AmexNoLists
  <2>5. a \in AmexStoreType /\ AmexKept(a)
    BY DEF AmexInv, AmexStoreGood
  <2>6. n = [a EXCEPT !.file = 0, !.os = 0, !.pc = [t \in AmexThreads |-> "off"],
                      !.fd = [t \in AmexThreads |-> 0], !.raced = FALSE]
    BY <1>1 DEF AmexOff
  <2> HIDE DEF a, n
  <2>7. /\ n \in AmexStoreType /\ n.file = 0 /\ n.os = 0 /\ n.size = a.size
        /\ n.data = a.data /\ n.true = a.true
        /\ n.pc = [t \in AmexThreads |-> "off"] /\ n.fd = [t \in AmexThreads |-> 0]
    BY ONLY <2>5, <2>6 DEF AmexStoreType, AmexPlaces
  <2>8. \A t \in AmexThreads : n.pc[t] = "off" /\ n.fd[t] = 0
    BY ONLY <2>7
  <2>9. AmexKept(n) /\ AmexAlone(n) /\ AmexRests(n)
    BY ONLY <2>5, <2>7, <2>8 DEF AmexKept, AmexAlone, AmexRests, AmexBusy
  <2> QED
    BY <2>3, <2>4, <2>7, <2>9 DEF AmexInv, AmexStoreGood, n
<1>2. ASSUME NEW enabled \in SUBSET ToSet(AmexClasses), enabled # {}, amex_hook_init(enabled)
      PROVE  AmexInv'
  <2> DEFINE added == {i \in DOMAIN AmexClasses : AmexClasses[i] \in enabled}
             classes == [i \in added |-> setupapi_add_phantom_dev(AmexClasses[i])]
             a == amex
             n == amex'
             first == IF "eeprom" \in enabled THEN "idle" ELSE "off"
  <2>1. /\ setupapi.classes = <<>> /\ setupapi' = [setupapi EXCEPT !.classes = classes]
        /\ n = [a EXCEPT !.starts = a.starts + 1, !.pc = [t \in AmexThreads |-> first]]
    BY <1>2 DEF amex_hook_init, AmexRuns
  <2>2. AmexSetup(setupapi) /\ setupapi.lists = [s \in AmexSets |-> AmexNoList]
    BY <2>1 DEF AmexInv, AmexListsInv, AmexNoLists
  <2>3. DOMAIN classes = added /\ added # {} /\ added \subseteq Nat
        /\ \A i \in added : AmexClasses[i] \in AmexGuids
    <3>1. DOMAIN AmexClasses \subseteq Nat
          /\ \A i \in DOMAIN AmexClasses : AmexClasses[i] \in AmexGuids
      BY AmexAssumption DEF AmexAssumption
    <3>2. PICK e \in enabled : TRUE
      BY <1>2
    <3>3. \E i \in DOMAIN AmexClasses : AmexClasses[i] = e
      BY <3>2 DEF ToSet
    <3> QED
      BY <3>1, <3>2, <3>3
  <2>4. \A i \in added : /\ classes[i] \in AmexClass /\ classes[i].cur_handle = AmexJunk
    BY <2>3 DEF setupapi_add_phantom_dev, AmexClass
  <2>5. classes = [i \in DOMAIN classes |-> classes[i]]
    OBVIOUS
  <2> HIDE DEF classes, added, first
  <2>6. classes \in [DOMAIN classes -> AmexClass]
    BY <2>3, <2>4, <2>5
  <2>7. setupapi' = [classes |-> classes, lists |-> [s \in AmexSets |-> AmexNoList]]
    BY ONLY <2>1, <2>2 DEF AmexSetup
  <2>8. AmexListsInv(setupapi')
    BY <2>3, <2>4, <2>6, <2>7, AmexStartKeeps
  <2>9. setupapi'.classes = classes /\ setupapi'.lists = [s \in AmexSets |-> AmexNoList]
    BY ONLY <2>7
  <2>10. classes # <<>>
    BY <2>3
  <2>11. /\ a \in AmexStoreType /\ AmexKept(a) /\ (~a.raced => AmexAlone(a)) /\ AmexRests(a)
    BY <2>1 DEF AmexInv, AmexStoreGood, AmexRuns
  <2>12. first \in {"idle", "off"}
    BY DEF first
  <2>13. a.starts + 1 \in Nat
    <3>1. a.starts \in Nat
      BY ONLY <2>11 DEF AmexStoreType
    <3> QED
      BY ONLY <3>1
  <2> DEFINE starts == a.starts + 1
  <2> HIDE DEF starts
  <2>14. starts \in Nat /\ n = [a EXCEPT !.starts = starts, !.pc = [t \in AmexThreads |-> first]]
    BY <2>1, <2>13 DEF starts
  <2> HIDE DEF a, n
  <2>15. /\ n \in AmexStoreType /\ n.file = a.file /\ n.os = a.os /\ n.size = a.size
         /\ n.data = a.data /\ n.true = a.true /\ n.raced = a.raced /\ n.fd = a.fd
         /\ n.pc = [t \in AmexThreads |-> first]
    BY ONLY <2>11, <2>12, <2>14 DEF AmexStoreType, AmexPlaces
  <2>16. \A t \in AmexThreads : n.pc[t] \in {"idle", "off"} /\ n.fd[t] = 0 /\ a.fd[t] = 0
                                /\ a.pc[t] = "off"
    BY ONLY <2>11, <2>12, <2>15 DEF AmexRests
  <2>17. AmexKept(n)
    BY ONLY <2>11, <2>15, <2>16 DEF AmexKept
  <2>18. AmexAlone(a) => AmexAlone(n)
    BY ONLY <2>15, <2>16 DEF AmexAlone, AmexBusy
  <2> QED
    BY <2>8, <2>9, <2>10, <2>11, <2>15, <2>17, <2>18
       DEF AmexInv, AmexStoreGood, AmexNoLists, AmexRuns, n
<1> QED
  BY <1>1, <1>2 DEF AmexStarted

(* Steps of the lists leave the store alone.                               *)
LEMMA AmexListsStepKeeps ==
  ASSUME AmexInv, NEW s \in AmexSets,
         \/ \E guid \in AmexGuids : my_SetupDiGetClassDevs(s, guid)
         \/ my_SetupDiEnumDeviceInterfaces(s) \/ my_SetupDiDestroyDeviceInfoList(s)
  PROVE  AmexInv'
<1>1. AmexListsInv(setupapi) /\ AmexStoreGood(amex)
  BY DEF AmexInv
<1>2. AmexListsInv(setupapi')
  BY <1>1, AmexOpenKeeps, AmexEnumKeeps, AmexDestroyKeeps
<1>3. AmexRuns /\ UNCHANGED amex
  BY DEF my_SetupDiGetClassDevs, my_SetupDiEnumDeviceInterfaces,
       my_SetupDiDestroyDeviceInfoList
<1>4. DOMAIN setupapi'.classes = DOMAIN setupapi.classes
  <2> DEFINE c == setupapi.classes
  <2>1. AmexSetup(setupapi)
    BY <1>1 DEF AmexListsInv
  <2>2. CASE my_SetupDiEnumDeviceInterfaces(s)
    BY <2>1, <2>2 DEF my_SetupDiEnumDeviceInterfaces, AmexSetup
  <2>3. CASE my_SetupDiDestroyDeviceInfoList(s)
    <3> DEFINE d == AmexGive(c, AmexPhantoms(s), AmexNone)
    <3>1. setupapi' = [setupapi EXCEPT !.lists[s] = AmexNoList, !.classes = d]
      BY <2>3 DEF my_SetupDiDestroyDeviceInfoList
    <3>2. DOMAIN d = DOMAIN c
      BY DEF AmexGive
    <3> HIDE DEF d
    <3>3. setupapi'.classes = d
      BY ONLY <2>1, <3>1 DEF AmexSetup
    <3> QED
      BY <3>2, <3>3
  <2>4. CASE \E guid \in AmexGuids : my_SetupDiGetClassDevs(s, guid)
    <3>1. PICK entries, lists :
            setupapi' = [setupapi EXCEPT !.classes = AmexGive(c, entries, s), !.lists = lists]
      BY <2>4 DEF my_SetupDiGetClassDevs, AmexListed
    <3> DEFINE d == AmexGive(c, entries, s)
    <3>2. DOMAIN d = DOMAIN c
      BY DEF AmexGive
    <3>3. setupapi' = [setupapi EXCEPT !.classes = d, !.lists = lists]
      BY <3>1
    <3> HIDE DEF d
    <3>4. setupapi'.classes = d
      BY ONLY <2>1, <3>3 DEF AmexSetup
    <3> QED
      BY <3>2, <3>4
  <2> QED
    BY <2>2, <2>3, <2>4
<1>5. setupapi.classes # <<>> /\ AmexSetup(setupapi)
  BY <1>1, <1>3 DEF AmexRuns, AmexListsInv
<1>6. DOMAIN setupapi.classes # {}
  <2>1. setupapi.classes \in [DOMAIN setupapi.classes -> AmexClass]
    BY <1>5 DEF AmexSetup
  <2>2. SUFFICES ASSUME DOMAIN setupapi.classes = {} PROVE FALSE
    OBVIOUS
  <2>3. setupapi.classes \in [1..0 -> AmexClass]
    BY <2>1, <2>2
  <2>4. setupapi.classes \in Seq(AmexClass) /\ Len(setupapi.classes) = 0
    BY <2>3
  <2>5. setupapi.classes = <<>>
    BY <2>4, EmptySeq
  <2> QED
    BY <1>5, <2>5
<1>7. setupapi'.classes # <<>>
  BY <1>4, <1>6
<1> QED
  BY <1>1, <1>2, <1>3, <1>7 DEF AmexInv, AmexNoLists, AmexRuns

(* Steps of the store leave the lists alone.                               *)
LEMMA AmexStoreStepKeeps ==
  ASSUME AmexInv, NEW t \in AmexThreads,
         \/ eeprom_handle_open(t) \/ AmexClear(t) \/ AmexCreate(t) \/ nvram_open_file(t)
         \/ AmexTake(t) \/ eeprom_handle_close(t)
         \/ \E c \in AmexCells : eeprom_handle_write(t, c)
  PROVE  AmexInv'
<1>1. AmexListsInv(setupapi) /\ AmexNoLists(setupapi) /\ AmexStoreGood(amex)
  BY DEF AmexInv
<1>2. amex.pc[t] # "off" /\ UNCHANGED setupapi
  BY DEF eeprom_handle_open, AmexClear, AmexCreate, nvram_open_file, AmexTake,
         eeprom_handle_close, eeprom_handle_write
<1>3. AmexRuns
  BY <1>2 DEF AmexInv, AmexRests
<1>4. AmexStoreGood(amex')
  <2>1. CASE eeprom_handle_open(t)
    BY <1>1, <2>1, AmexOpenStep DEF eeprom_handle_open, AmexOpening
  <2>2. CASE AmexClear(t)
    BY <1>1, <2>2, AmexOpenStep DEF AmexClear
  <2>3. CASE AmexCreate(t)
    BY <1>1, <2>3, AmexGivesUp, AmexTakeStep DEF AmexCreate
  <2>4. CASE nvram_open_file(t)
    BY <1>1, <2>4, AmexGivesUp, AmexTakeStep DEF nvram_open_file
  <2>5. CASE AmexTake(t)
    BY <1>1, <2>5, AmexTakeStep DEF AmexTake
  <2>6. CASE eeprom_handle_close(t)
    BY <1>1, <2>6, AmexHeldStep DEF eeprom_handle_close
  <2>7. CASE \E c \in AmexCells : eeprom_handle_write(t, c)
    BY <1>1, <2>7, AmexHeldStep DEF eeprom_handle_write
  <2> QED
    BY <2>1, <2>2, <2>3, <2>4, <2>5, <2>6, <2>7
<1> QED
  BY <1>1, <1>2, <1>3, <1>4 DEF AmexInv, AmexNoLists, AmexRuns

(* What the invariant says.                                                *)
LEMMA AmexInvRight == AmexInv => AmexIsRight
<1> SUFFICES ASSUME AmexInv PROVE AmexIsRight
  OBVIOUS
<1> DEFINE a == amex
<1>1. AmexListsAreRight
      /\ \A i \in DOMAIN setupapi.classes :
           setupapi.classes[i].cur_handle \in AmexSets \cup {AmexNone, AmexJunk}
  BY AmexListsShow DEF AmexInv
<1>2. a \in AmexStoreType /\ AmexKept(a) /\ (~a.raced => AmexAlone(a))
  BY DEF AmexInv, AmexStoreGood
<1>3. AmexTypeOK
  <2>1. /\ a.size \in {"none", "short", "whole"} /\ {a.file, a.os} \subseteq AmexThreads \cup {0}
        /\ \A t \in AmexThreads : a.pc[t] \in {"off", "idle", "clear", "create", "size", "take"}
    BY ONLY <1>2 DEF AmexStoreType, AmexPlaces
  <2> QED
    BY <1>1, <2>1 DEF AmexTypeOK
<1>4. AmexStoreIsKept
  <2>1. ASSUME AmexAlone(a), \A t \in AmexThreads : a.pc[t] \in {"off", "idle"} /\ a.fd[t] = 0
        PROVE  a.file = 0 /\ a.os = 0
    BY ONLY <2>1 DEF AmexAlone, AmexBusy
  <2>2. ASSUME AmexAlone(a), NEW t \in AmexThreads, a.fd[t] # 0
        PROVE  a.fd[t] = t /\ a.file = t /\ a.os = t
    BY ONLY <2>2 DEF AmexAlone
  <2>3. /\ a.data = a.true
        /\ \A t \in AmexThreads : a.fd[t] # 0 => a.size = "whole"
        /\ a.size # "whole" => a.true = AmexBlank
    BY ONLY <1>2 DEF AmexKept
  <2> QED
    BY <1>2, <2>1, <2>2, <2>3 DEF AmexStoreIsKept
<1> QED
  BY <1>1, <1>3, <1>4 DEF AmexIsRight

(* The devices of the board are found in the lists of Windows, for any     *)
(* classes, devices of the PC and handles, and the stores keep what was    *)
(* written, for any threads that open them and whenever the game ends.     *)
THEOREM BoardIsFound == AmexSpec => []AmexIsRight
<1>1. AmexInit => AmexInv
  BY AmexInitInv
<1>2. AmexInv /\ [AmexLists \/ AmexStore]_AmexVars => AmexInv'
  <2> SUFFICES ASSUME AmexInv, [AmexLists \/ AmexStore]_AmexVars PROVE AmexInv'
    OBVIOUS
  <2>1. CASE AmexLists
    BY <2>1, AmexStartedKeeps, AmexListsStepKeeps DEF AmexLists
  <2>2. CASE AmexStore
    BY <2>2, AmexStartedKeeps, AmexStoreStepKeeps DEF AmexStore
  <2>3. CASE UNCHANGED AmexVars
    BY <2>3 DEF AmexVars, AmexInv, AmexRuns
  <2> QED
    BY <2>1, <2>2, <2>3
<1>3. AmexInv => AmexIsRight
  BY AmexInvRight
<1> QED
  BY <1>1, <1>2, <1>3, PTL DEF AmexSpec

-----------------------------------------------------------------------------
(* The write filter.                                                       *)

(* The fields of a file and of a handle.                                   *)
EwfFileType ==
  [path : EwfPaths \cup {<<>>}, length : 0..EwfEnd, alloc : Nat, data : Seq(Int),
   freed : BOOLEAN, spoilt : BOOLEAN, true : Seq(Int)]
(* A handle: of file 0 when it is not in use.                              *)
EwfHandleType == [file : 0..EwfFiles, offset : 0..EwfEnd]

(* A file has room for its length, even when its buffer was given back,    *)
(* and a buffer that was not has all its bytes, which are those of a disk. *)
EwfGood(f) ==
  /\ f \in EwfFileType
  /\ f.length <= f.alloc /\ Len(f.true) <= f.length
  /\ f.freed => f.true = <<>>
  /\ ~f.freed => Len(f.data) = f.alloc
  /\ ~f.freed /\ ~f.spoilt => \A k \in 1..Len(f.true) : f.true[k] \in {EwfJunk, f.data[k]}

(* As long as the files are plain, a file is as long as on a disk.         *)
EwfPlain(f) ==
  /\ ~f.spoilt /\ f.length = Len(f.true)
  /\ ~f.freed => \A k \in 1..f.length : f.true[k] = f.data[k]

(* A path belongs to one file, which is virtual; on the disk none is.      *)
EwfNames(files, disk) ==
  /\ \A i, j \in 1..EwfFiles : files[i].path = files[j].path /\ files[i].path # <<>> => i = j
  /\ \A i \in 1..EwfFiles : files[i].path # <<>> => ewf_needs_virtualization(files[i].path)
  /\ \A path \in disk : ~ewf_needs_virtualization(path)

(* The types of the filter's state.                                        *)
EwfState ==
  [files : [1..EwfFiles -> EwfFileType], handles : [1..EwfHandles -> EwfHandleType],
   full : BOOLEAN, pc : {"run", "full", "twice", "stray"}, plain : BOOLEAN, right : BOOLEAN,
   disk : SUBSET EwfPaths, calls : Nat]

(* All of it; as long as the game is plain, nothing was answered or        *)
(* written amiss.                                                          *)
EwfInv ==
  /\ ewf \in EwfState /\ EwfNames(ewf.files, ewf.disk)
  /\ \A i \in 1..EwfFiles : EwfGood(ewf.files[i])
  /\ ewf.plain => ewf.right /\ ewf.pc # "stray" /\ \A i \in 1..EwfFiles : EwfPlain(ewf.files[i])

(* What is assumed of the constants.                                       *)
LEMMA EwfConstants ==
  EwfFiles \in Nat \ {0} /\ EwfHandles \in Nat \ {0} /\ EwfBuffer \in Nat \ {0}
  /\ EwfEnd \in Nat \ {0} /\ EwfCalls \in Nat \ {0} /\ <<>> \notin EwfPaths
  BY EwfAssumption DEF EwfAssumption

-----------------------------------------------------------------------------
(* Bytes that nobody wrote.                                                *)
LEMMA EwfJunksAre ==
  ASSUME NEW n \in Nat
  PROVE  /\ EwfJunks(n) \in Seq(Int) /\ Len(EwfJunks(n)) = n
         /\ \A k \in 1..n : EwfJunks(n)[k] = EwfJunk
<1>1. EwfJunks(n) = [k \in 1..n |-> EwfJunk] /\ EwfJunk \in Int
  BY DEF EwfJunks, EwfJunk
<1> QED
  BY <1>1

(* Bytes that are put into others.                                         *)
LEMMA EwfPutIs ==
  ASSUME NEW s \in Seq(Int), NEW off \in Nat, NEW t \in Seq(Int)
  PROVE  /\ EwfPut(s, off, t) \in Seq(Int)
         /\ Len(EwfPut(s, off, t)) = (IF Len(s) > off + Len(t) THEN Len(s) ELSE off + Len(t))
         /\ \A k \in 1..Len(EwfPut(s, off, t)) :
              EwfPut(s, off, t)[k] = IF k > off /\ k <= off + Len(t) THEN t[k - off]
                                     ELSE IF k <= Len(s) THEN s[k] ELSE EwfJunk
<1> DEFINE m == EwfMax(Len(s), off + Len(t))
           b(k) == IF k > off /\ k <= off + Len(t) THEN t[k - off]
                   ELSE IF k <= Len(s) THEN s[k] ELSE EwfJunk
           p == [k \in 1..m |-> b(k)]
<1>1. EwfPut(s, off, t) = p
  BY DEF EwfPut
<1>2. m \in Nat /\ m = (IF Len(s) > off + Len(t) THEN Len(s) ELSE off + Len(t))
  BY DEF EwfMax
<1> HIDE DEF m
<1>3. ASSUME NEW k \in 1..m PROVE b(k) \in Int
  <2>1. CASE k > off /\ k <= off + Len(t)
    <3>1. k - off \in 1..Len(t)
      BY <1>2, <2>1
    <3>2. t[k - off] \in Int
      BY <3>1
    <3> QED
      BY <2>1, <3>2
  <2>2. CASE ~(k > off /\ k <= off + Len(t)) /\ k <= Len(s)
    <3>1. k \in 1..Len(s)
      BY <1>2, <2>2
    <3>2. s[k] \in Int
      BY <3>1
    <3> QED
      BY <2>2, <3>2
  <2>3. CASE ~(k > off /\ k <= off + Len(t)) /\ ~(k <= Len(s))
    BY <2>3 DEF EwfJunk
  <2> QED
    BY <2>1, <2>2, <2>3
<1> HIDE DEF b
<1>4. p \in [1..m -> Int] /\ \A k \in 1..m : p[k] = b(k)
  BY <1>3
<1> HIDE DEF p
<1>5. p \in Seq(Int) /\ Len(p) = m
  <2>1. m \in Nat /\ p \in [1..m -> Int]
    BY <1>2, <1>4
  <2> QED
    BY ONLY <2>1
<1>6. \A k \in 1..Len(p) : p[k] = b(k)
  BY ONLY <1>4, <1>5
<1> QED
  BY <1>1, <1>2, <1>5, <1>6 DEF b

(* A buffer that grows keeps its bytes.                                    *)
LEMMA EwfGrows ==
  ASSUME NEW f, f \in EwfFileType, Len(f.data) = f.alloc, NEW size \in Nat
  PROVE  LET g == ewf_grow_virtual_file_buffer(f, size)
         IN /\ g \in EwfFileType
            /\ g.path = f.path /\ g.length = f.length /\ g.freed = f.freed
            /\ g.spoilt = f.spoilt /\ g.true = f.true
            /\ g.alloc = f.alloc + size /\ Len(g.data) = g.alloc
            /\ \A k \in 1..Len(f.data) : g.data[k] = f.data[k]
<1> DEFINE g == ewf_grow_virtual_file_buffer(f, size)
<1>1. f \in EwfFileType /\ Len(f.data) = f.alloc
  OBVIOUS
<1>2. PICK data, alloc : data = f.data /\ alloc = f.alloc /\ data \in Seq(Int) /\ alloc \in Nat
                         /\ Len(data) = alloc
  BY <1>1 DEF EwfFileType
<1>3. PICK junk : junk = EwfJunks(size) /\ junk \in Seq(Int) /\ Len(junk) = size
  BY EwfJunksAre
<1>4. alloc + size - Len(data) = size
  BY ONLY <1>2
<1> DEFINE d == data \o junk
           a == alloc + size
<1>5. g = [f EXCEPT !.alloc = a, !.data = d]
  BY <1>2, <1>3, <1>4 DEF ewf_grow_virtual_file_buffer
<1>6. a \in Nat /\ d \in Seq(Int) /\ Len(d) = a /\ \A k \in 1..Len(data) : d[k] = data[k]
  <2>1. a \in Nat
    BY ONLY <1>2, size \in Nat
  <2>2. /\ d \in Seq(Int) /\ Len(d) = Len(data) + Len(junk)
        /\ \A k \in 1..Len(data) : d[k] = data[k]
    <3>1. data \in Seq(Int) /\ junk \in Seq(Int)
      BY ONLY <1>2, <1>3
    <3>2. Len(data) \in Nat /\ Len(junk) \in Nat
      BY ONLY <3>1
    <3>3. /\ d \in Seq(Int) /\ Len(d) = Len(data) + Len(junk)
          /\ \A k \in 1..Len(data) + Len(junk) :
               d[k] = IF k <= Len(data) THEN data[k] ELSE junk[k - Len(data)]
      BY ONLY <3>1, ConcatProperties
    <3> HIDE DEF d
    <3>4. ASSUME NEW k \in 1..Len(data) PROVE d[k] = data[k]
      <4>1. k <= Len(data) /\ k \in 1..Len(data) + Len(junk)
        BY ONLY <3>2, k \in 1..Len(data)
      <4> QED
        BY ONLY <3>3, <4>1
    <3> QED
      BY ONLY <3>3, <3>4
  <2> QED
    BY ONLY <1>2, <1>3, <2>1, <2>2
<1> HIDE DEF g, d, a
<1>7. g \in EwfFileType
  BY ONLY <1>1, <1>5, <1>6 DEF EwfFileType
<1>8. /\ g.path = f.path /\ g.length = f.length /\ g.freed = f.freed
      /\ g.spoilt = f.spoilt /\ g.true = f.true /\ g.alloc = a /\ g.data = d
  BY ONLY <1>1, <1>5 DEF EwfFileType
<1>9. /\ g.alloc = f.alloc + size /\ Len(g.data) = g.alloc
      /\ \A k \in 1..Len(f.data) : g.data[k] = f.data[k]
  BY ONLY <1>2, <1>6, <1>8 DEF a
<1> QED
  BY <1>7, <1>8, <1>9 DEF g

(* The room that a write makes: a new buffer, a greater one, or the same.  *)
EwfRoomy(f, g) ==
  /\ EwfGood(g) /\ ~g.freed
  /\ g.path = f.path /\ g.length = f.length /\ g.spoilt = f.spoilt
  /\ EwfPlain(f) => EwfPlain(g)

(* An empty file gets a new one, whatever it had.                          *)
LEMMA EwfRoomNew ==
  ASSUME NEW f, EwfGood(f), f.length = 0, NEW pos \in 0..EwfEnd, NEW n \in 1..EwfBuffer
  PROVE  EwfRoomy(f, EwfRoomFor(f, pos, n)) /\ n <= EwfRoomFor(f, pos, n).alloc
<1> DEFINE g == EwfRoomFor(f, pos, n)
           first == EwfMax(n, EwfBuffer)
<1>1. first \in Nat /\ n <= first
  BY EwfConstants DEF EwfMax
<1>2. g = [f EXCEPT !.alloc = first, !.data = EwfJunks(first), !.freed = FALSE]
  BY DEF EwfRoomFor
<1>3. f \in EwfFileType /\ f.length = 0 /\ Len(f.true) <= f.length
  BY DEF EwfGood
<1>4. f.true \in Seq(Int) /\ Len(f.true) = 0
  BY ONLY <1>3 DEF EwfFileType
<1> DEFINE d == EwfJunks(first)
<1>5. d \in Seq(Int) /\ Len(d) = first
  BY <1>1, EwfJunksAre
<1>6. g = [f EXCEPT !.alloc = first, !.data = d, !.freed = FALSE]
  BY <1>2
<1> HIDE DEF g, d, first
<1>7. g \in EwfFileType
  BY ONLY <1>1, <1>3, <1>5, <1>6 DEF EwfFileType
<1>8. /\ g.path = f.path /\ g.length = f.length /\ g.freed = FALSE
      /\ g.spoilt = f.spoilt /\ g.true = f.true /\ g.alloc = first /\ g.data = d
  BY ONLY <1>3, <1>6 DEF EwfFileType
<1>9. EwfGood(g)
  BY ONLY <1>1, <1>3, <1>4, <1>5, <1>7, <1>8 DEF EwfGood
<1>10. EwfPlain(f) => EwfPlain(g)
  BY ONLY <1>3, <1>4, <1>8 DEF EwfPlain
<1> QED
  BY <1>1, <1>8, <1>9, <1>10 DEF EwfRoomy, g

(* Another file keeps its bytes, and has room for the write.               *)
LEMMA EwfRoomOld ==
  ASSUME NEW f, EwfGood(f), f.length # 0, ~f.freed, NEW pos \in 0..EwfEnd, NEW n \in 1..EwfBuffer
  PROVE  EwfRoomy(f, EwfRoomFor(f, pos, n)) /\ pos + n <= EwfRoomFor(f, pos, n).alloc
<1> DEFINE g == EwfRoomFor(f, pos, n)
<1>1. /\ f \in EwfFileType /\ f.length \in 0..EwfEnd /\ f.alloc \in Nat /\ Len(f.data) = f.alloc
      /\ f.length <= f.alloc /\ Len(f.true) <= f.length /\ Len(f.true) \in Nat
      /\ ~f.spoilt => \A k \in 1..Len(f.true) : f.true[k] \in {EwfJunk, f.data[k]}
  BY DEF EwfGood, EwfFileType
<1>2. EwfEnd \in Nat /\ EwfBuffer \in Nat
  BY EwfConstants
<1>3. CASE pos + n > f.alloc
  <2>1. g = ewf_grow_virtual_file_buffer(f, pos + n)
    BY <1>3 DEF EwfRoomFor
  <2>2. pos + n \in Nat
    BY ONLY <1>2, pos \in 0..EwfEnd, n \in 1..EwfBuffer
  <2>3. /\ g \in EwfFileType
        /\ g.path = f.path /\ g.length = f.length /\ g.freed = f.freed
        /\ g.spoilt = f.spoilt /\ g.true = f.true
        /\ g.alloc = f.alloc + (pos + n) /\ Len(g.data) = g.alloc
        /\ \A k \in 1..Len(f.data) : g.data[k] = f.data[k]
    BY <1>1, <2>1, <2>2, EwfGrows
  <2> HIDE DEF g
  <2>4. f.length <= g.alloc /\ pos + n <= g.alloc
    BY ONLY <1>1, <1>2, <2>3, pos \in 0..EwfEnd, n \in 1..EwfBuffer
  <2>5. \A k \in 1..f.length : g.data[k] = f.data[k]
    BY ONLY <1>1, <2>3
  <2>6. ~f.spoilt => \A k \in 1..Len(f.true) : f.true[k] \in {EwfJunk, g.data[k]}
    <3>1. \A k \in 1..Len(f.true) : k \in 1..f.length
      BY ONLY <1>1
    <3> QED
      BY ONLY <1>1, <2>5, <3>1
  <2>7. EwfGood(g)
    BY ONLY <1>1, <2>3, <2>4, <2>6, ~f.freed DEF EwfGood
  <2>8. EwfPlain(f) => EwfPlain(g)
    BY ONLY <2>3, <2>5, ~f.freed DEF EwfPlain
  <2> QED
    BY <2>3, <2>4, <2>7, <2>8 DEF EwfRoomy, g
<1>4. CASE ~(pos + n > f.alloc)
  <2>1. g = f
    BY <1>4 DEF EwfRoomFor
  <2>2. pos + n <= f.alloc
    BY ONLY <1>1, <1>2, <1>4, pos \in 0..EwfEnd, n \in 1..EwfBuffer
  <2> QED
    BY <1>1, <2>1, <2>2 DEF EwfRoomy
<1> QED
  BY <1>3, <1>4

(* What was given back is not made greater, or the write goes astray.      *)
LEMMA EwfRoomFreed ==
  ASSUME NEW f, EwfGood(f), f.length # 0, f.freed, NEW pos \in 0..EwfEnd, NEW n \in 1..EwfBuffer,
         EwfRoomFor(f, pos, n).alloc = f.alloc
  PROVE  EwfRoomFor(f, pos, n) = f
<1>1. CASE pos + n > f.alloc
  <2> DEFINE d == f.data \o EwfJunks(f.alloc + (pos + n) - Len(f.data))
             a == f.alloc + (pos + n)
  <2>1. EwfRoomFor(f, pos, n) = [f EXCEPT !.alloc = a, !.data = d]
    BY <1>1 DEF EwfRoomFor, ewf_grow_virtual_file_buffer
  <2>2. f \in EwfFileType /\ f.alloc \in Nat
    BY DEF EwfGood, EwfFileType
  <2>3. EwfEnd \in Nat /\ EwfBuffer \in Nat
    BY EwfConstants
  <2>4. a # f.alloc
    BY ONLY <2>2, <2>3, pos \in 0..EwfEnd, n \in 1..EwfBuffer
  <2> HIDE DEF a, d
  <2>5. EwfRoomFor(f, pos, n).alloc = a
    BY ONLY <2>1, <2>2 DEF EwfFileType
  <2> QED
    BY <2>4, <2>5
<1>2. CASE ~(pos + n > f.alloc)
  BY <1>2 DEF EwfRoomFor
<1> QED
  BY <1>1, <1>2

(* A file after a write.                                                   *)
EwfWrote(g, pos, t, m) ==
  m = [g EXCEPT !.data = EwfPut(g.data, pos, t), !.length = EwfMax(g.length, pos + Len(t)),
                !.true = EwfPut(g.true, pos, t)]

(* A write that fits keeps the file good, and plain when it is at its end. *)
LEMMA EwfWritten ==
  ASSUME NEW g, EwfGood(g), ~g.freed, NEW pos \in Nat, NEW t \in Seq(Int), Len(t) > 0,
         pos + Len(t) <= EwfEnd, pos + Len(t) <= g.alloc, NEW m, EwfWrote(g, pos, t, m)
  PROVE  EwfGood(m) /\ m.path = g.path /\ (EwfPlain(g) /\ pos = g.length => EwfPlain(m))
<1>1. /\ g \in EwfFileType /\ g.length <= g.alloc /\ Len(g.true) <= g.length
      /\ Len(g.data) = g.alloc
      /\ ~g.spoilt => \A k \in 1..Len(g.true) : g.true[k] \in {EwfJunk, g.data[k]}
  BY DEF EwfGood
<1> DEFINE n == Len(t)
           data == g.data
           true == g.true
           length == g.length
           alloc == g.alloc
           d == EwfPut(data, pos, t)
           tr == EwfPut(true, pos, t)
           l == EwfMax(length, pos + n)
<1>14. /\ data \in Seq(Int) /\ true \in Seq(Int) /\ length \in 0..EwfEnd /\ alloc \in Nat
  BY ONLY <1>1 DEF EwfFileType
<1>15. n \in Nat \ {0} /\ Len(true) \in Nat /\ Len(data) \in Nat
  <2>1. n \in Nat /\ n > 0
    OBVIOUS
  <2> HIDE DEF n, true, data
  <2> QED
    BY ONLY <1>14, <2>1
<1>16. /\ Len(data) = alloc /\ Len(true) <= length /\ length <= alloc
       /\ pos + n <= EwfEnd /\ pos + n <= alloc
  BY <1>1
<1>2. /\ n \in Nat \ {0} /\ length \in 0..EwfEnd /\ alloc \in Nat /\ Len(data) = alloc
      /\ Len(true) <= length /\ length <= alloc /\ pos + n <= EwfEnd /\ pos + n <= alloc
      /\ Len(true) \in Nat /\ Len(data) \in Nat
  BY ONLY <1>14, <1>15, <1>16
<1>17. /\ ~g.spoilt => \A k \in 1..Len(true) : true[k] \in {EwfJunk, data[k]}
       /\ EwfPlain(g) => /\ ~g.spoilt /\ length = Len(true)
                         /\ \A k \in 1..length : true[k] = data[k]
  BY ONLY <1>1, ~g.freed DEF EwfPlain
<1>5. m = [g EXCEPT !.data = d, !.length = l, !.true = tr]
  BY DEF EwfWrote
<1> HIDE DEF data, true, length, alloc
<1>3. /\ d \in Seq(Int) /\ Len(d) = (IF Len(data) > pos + n THEN Len(data) ELSE pos + n)
      /\ \A k \in 1..Len(d) : d[k] = IF k > pos /\ k <= pos + n THEN t[k - pos]
                                     ELSE IF k <= Len(data) THEN data[k] ELSE EwfJunk
  BY ONLY <1>14, EwfPutIs, pos \in Nat, t \in Seq(Int)
<1>4. /\ tr \in Seq(Int) /\ Len(tr) = (IF Len(true) > pos + n THEN Len(true) ELSE pos + n)
      /\ \A k \in 1..Len(tr) : tr[k] = IF k > pos /\ k <= pos + n THEN t[k - pos]
                                       ELSE IF k <= Len(true) THEN true[k] ELSE EwfJunk
  BY ONLY <1>14, EwfPutIs, pos \in Nat, t \in Seq(Int)
<1>6. l = (IF length > pos + n THEN length ELSE pos + n)
  BY DEF EwfMax
<1> HIDE DEF n
<1> HIDE DEF d, tr, l
<1>7. EwfEnd \in Nat
  BY EwfConstants
<1>8. /\ Len(d) = alloc /\ l \in 0..EwfEnd /\ l <= alloc /\ Len(tr) <= l
      /\ Len(tr) <= Len(d) /\ Len(tr) \in Nat
  <2>1. Len(d) = (IF Len(data) > pos + n THEN Len(data) ELSE pos + n)
    BY ONLY <1>3
  <2>2. Len(tr) = (IF Len(true) > pos + n THEN Len(true) ELSE pos + n)
    BY ONLY <1>4
  <2>3. Len(d) = alloc /\ pos + n \in 0..EwfEnd
    <3>1. n \in Nat /\ alloc \in Nat /\ Len(data) = alloc /\ pos + n <= alloc /\ pos + n <= EwfEnd
      BY ONLY <1>2
    <3>2. Len(d) = alloc
      BY ONLY <2>1, <3>1, pos \in Nat
    <3>3. pos + n \in 0..EwfEnd
      BY ONLY <1>7, <3>1, pos \in Nat
    <3> QED
      BY <3>2, <3>3
  <2>4. l \in 0..EwfEnd /\ l <= alloc
    BY ONLY <1>2, <1>6, <2>3
  <2>5. Len(tr) <= l /\ Len(tr) \in Nat
    BY ONLY <1>2, <1>6, <2>2, <2>3
  <2>6. Len(tr) <= Len(d)
    BY ONLY <1>2, <2>3, <2>4, <2>5
  <2> QED
    BY <2>3, <2>4, <2>5, <2>6
<1>9. m \in EwfFileType
  BY ONLY <1>1, <1>3, <1>4, <1>5, <1>8 DEF EwfFileType
<1>10. /\ m.path = g.path /\ m.length = l /\ m.alloc = g.alloc /\ m.data = d
       /\ m.freed = g.freed /\ m.spoilt = g.spoilt /\ m.true = tr
  BY ONLY <1>1, <1>5 DEF EwfFileType
<1>11. ASSUME ~g.spoilt, NEW k \in 1..Len(tr)
       PROVE  tr[k] \in {EwfJunk, d[k]}
  <2>1. k \in 1..Len(d)
    BY ONLY <1>2, <1>8, k \in 1..Len(tr)
  <2>2. CASE k > pos /\ k <= pos + n
    BY ONLY <1>3, <1>4, <2>1, <2>2, k \in 1..Len(tr)
  <2>3. CASE ~(k > pos /\ k <= pos + n) /\ k <= Len(true)
    <3>1. k \in 1..Len(true) /\ k <= Len(data)
      BY ONLY <1>2, <2>3, k \in 1..Len(tr), <1>8
    <3>2. tr[k] = true[k] /\ d[k] = data[k]
      BY ONLY <1>3, <1>4, <2>1, <2>3, <3>1, k \in 1..Len(tr)
    <3>3. true[k] \in {EwfJunk, data[k]}
      BY ONLY <1>17, <1>11, <3>1
    <3> QED
      BY ONLY <3>2, <3>3
  <2>4. CASE ~(k > pos /\ k <= pos + n) /\ ~(k <= Len(true))
    BY ONLY <1>4, <2>4, k \in 1..Len(tr)
  <2> QED
    BY <2>2, <2>3, <2>4
<1>12. EwfGood(m)
  BY ONLY <1>2, <1>8, <1>9, <1>10, <1>11, ~g.freed DEF EwfGood, alloc
<1>13. ASSUME EwfPlain(g), pos = g.length PROVE EwfPlain(m)
  <2>1. /\ ~g.spoilt /\ length = Len(true) /\ pos = length
        /\ \A k \in 1..length : true[k] = data[k]
    <3>1. pos = length
      BY ONLY <1>13 DEF length
    <3> QED
      BY ONLY <1>13, <1>17, <3>1
  <2>2. l = pos + n /\ Len(tr) = l
    BY ONLY <1>2, <1>4, <1>6, <2>1
  <2>3. ASSUME NEW k \in 1..l PROVE tr[k] = d[k]
    <3>1. k \in 1..Len(tr) /\ k \in 1..Len(d)
      BY ONLY <1>8, <2>2, k \in 1..l
    <3>2. CASE k > pos
      <4>1. k <= pos + n
        BY ONLY <2>2, k \in 1..l
      <4> QED
        BY ONLY <1>3, <1>4, <3>1, <3>2, <4>1
    <3>3. CASE ~(k > pos)
      <4>1. k \in 1..length /\ k <= Len(true) /\ k <= Len(data)
        BY ONLY <1>2, <2>1, <3>3, pos \in Nat, k \in 1..l
      <4>2. tr[k] = true[k] /\ d[k] = data[k]
        BY ONLY <1>3, <1>4, <3>1, <3>3, <4>1
      <4> QED
        BY ONLY <2>1, <4>1, <4>2
    <3> QED
      BY <3>2, <3>3
  <2> QED
    BY ONLY <1>10, <2>1, <2>2, <2>3 DEF EwfPlain
<1> QED
  BY <1>10, <1>12, <1>13

(* A file after a write that was refused.                                  *)
EwfSpoiled(g, pos, room, m) ==
  m = [g EXCEPT !.spoilt = g.spoilt \/ room > 0,
                !.data = IF room = 0 THEN g.data ELSE EwfPut(g.data, pos, [k \in 1..room |-> 0])]

(* A write that is refused leaves the file good, though it may be spoilt.  *)
LEMMA EwfRefused ==
  ASSUME NEW g, EwfGood(g), NEW pos \in Nat, NEW room \in Nat,
         room > 0 => ~g.freed /\ pos + room <= g.alloc, NEW m, EwfSpoiled(g, pos, room, m)
  PROVE  EwfGood(m) /\ m.path = g.path
<1>1. g \in EwfFileType
  BY DEF EwfGood
<1>2. CASE room = 0
  <2> DEFINE sp == g.spoilt \/ room > 0
             d == IF room = 0 THEN g.data ELSE EwfPut(g.data, pos, [k \in 1..room |-> 0])
  <2>1. m = [g EXCEPT !.spoilt = sp, !.data = d]
    BY DEF EwfSpoiled
  <2>2. g.spoilt \in BOOLEAN /\ ~(room > 0)
    BY <1>1, <1>2 DEF EwfFileType
  <2>3. sp = g.spoilt /\ d = g.data
    BY <1>2, <2>2
  <2> HIDE DEF sp, d
  <2>4. m = g
    BY ONLY <1>1, <2>1, <2>3 DEF EwfFileType
  <2> QED
    BY <2>4
<1>3. CASE room > 0
  <2> DEFINE zeros == [k \in 1..room |-> 0]
             d == EwfPut(g.data, pos, zeros)
  <2>1. zeros \in Seq(Int) /\ Len(zeros) = room
    BY ONLY room \in Nat
  <2>2. m = [g EXCEPT !.spoilt = TRUE, !.data = d]
    <3> DEFINE sp == g.spoilt \/ room > 0
               e == IF room = 0 THEN g.data ELSE d
    <3>1. m = [g EXCEPT !.spoilt = sp, !.data = e]
      BY DEF EwfSpoiled
    <3>2. sp = TRUE /\ e = d
      BY <1>3
    <3> HIDE DEF sp, e, d
    <3> QED
      BY ONLY <3>1, <3>2
  <2>3. g.data \in Seq(Int) /\ Len(g.data) = g.alloc /\ g.alloc \in Nat
    BY <1>1, <1>3 DEF EwfGood, EwfFileType
  <2> HIDE DEF zeros
  <2>4. /\ d \in Seq(Int)
        /\ Len(d) = (IF Len(g.data) > pos + room THEN Len(g.data) ELSE pos + room)
    BY <2>1, <2>3, EwfPutIs
  <2> HIDE DEF d
  <2>5. Len(d) = g.alloc
    <3>1. pos + room \in Nat /\ pos + room <= g.alloc
      BY <1>3
    <3> QED
      BY ONLY <2>3, <2>4, <3>1
  <2>6. m \in EwfFileType
    BY ONLY <1>1, <2>2, <2>4 DEF EwfFileType
  <2>7. /\ m.path = g.path /\ m.length = g.length /\ m.alloc = g.alloc /\ m.data = d
        /\ m.freed = g.freed /\ m.spoilt = TRUE /\ m.true = g.true
    BY ONLY <1>1, <2>2 DEF EwfFileType
  <2> QED
    BY <2>5, <2>6, <2>7 DEF EwfGood
<1> QED
  BY <1>2, <1>3

(* A file after a seek.                                                    *)
EwfSought(f, target, m) ==
  LET g == [f EXCEPT !.length = EwfMax(f.length, target)]
  IN m = IF target > f.alloc THEN ewf_grow_virtual_file_buffer(g, target) ELSE g

(* A seek leaves the file good.                                            *)
LEMMA EwfSeekKeeps ==
  ASSUME NEW f, EwfGood(f), NEW target \in 0..EwfEnd, ~(target > f.alloc /\ f.freed),
         NEW m, EwfSought(f, target, m)
  PROVE  EwfGood(m) /\ m.path = f.path
<1> DEFINE l == EwfMax(f.length, target)
           g == [f EXCEPT !.length = l]
<1>1. /\ f \in EwfFileType /\ f.length <= f.alloc /\ Len(f.true) <= f.length
      /\ f.freed => f.true = <<>>
      /\ ~f.freed => Len(f.data) = f.alloc
      /\ ~f.freed /\ ~f.spoilt => \A k \in 1..Len(f.true) : f.true[k] \in {EwfJunk, f.data[k]}
  BY DEF EwfGood
<1>2. f.length \in 0..EwfEnd /\ f.alloc \in Nat /\ Len(f.true) \in Nat /\ EwfEnd \in Nat
  BY ONLY <1>1, EwfConstants DEF EwfFileType
<1>3. m = IF target > f.alloc THEN ewf_grow_virtual_file_buffer(g, target) ELSE g
  BY DEF EwfSought
<1>4. l \in 0..EwfEnd /\ f.length <= l /\ (l = f.length \/ l = target)
  BY ONLY <1>2, target \in 0..EwfEnd DEF EwfMax
<1> HIDE DEF l
<1>5. g \in EwfFileType
  BY ONLY <1>1, <1>4 DEF EwfFileType
<1>6. /\ g.path = f.path /\ g.length = l /\ g.alloc = f.alloc /\ g.data = f.data
      /\ g.freed = f.freed /\ g.spoilt = f.spoilt /\ g.true = f.true
  BY ONLY <1>1 DEF EwfFileType
<1> HIDE DEF g
<1>7. Len(f.true) <= l
  BY ONLY <1>1, <1>2, <1>4
<1>8. CASE target > f.alloc
  <2>1. ~f.freed /\ Len(g.data) = g.alloc
    BY <1>1, <1>6, <1>8
  <2>2. m = ewf_grow_virtual_file_buffer(g, target) /\ target \in Nat
    BY <1>3, <1>8
  <2>3. /\ m \in EwfFileType
        /\ m.path = g.path /\ m.length = g.length /\ m.freed = g.freed
        /\ m.spoilt = g.spoilt /\ m.true = g.true
        /\ m.alloc = g.alloc + target /\ Len(m.data) = m.alloc
        /\ \A k \in 1..Len(g.data) : m.data[k] = g.data[k]
    BY <1>5, <2>1, <2>2, EwfGrows
  <2>4. m.length <= m.alloc
    BY ONLY <1>1, <1>2, <1>4, <1>6, <2>3, target \in 0..EwfEnd
  <2>5. ~f.spoilt => \A k \in 1..Len(f.true) : f.true[k] \in {EwfJunk, m.data[k]}
    <3>1. \A k \in 1..Len(f.true) : k \in 1..Len(g.data)
      BY ONLY <1>1, <1>2, <1>6, <2>1
    <3>2. \A k \in 1..Len(f.true) : m.data[k] = f.data[k]
      BY ONLY <1>6, <2>3, <3>1
    <3> QED
      BY ONLY <1>1, <2>1, <3>2
  <2> QED
    BY ONLY <1>6, <1>7, <2>1, <2>3, <2>4, <2>5 DEF EwfGood
<1>9. CASE ~(target > f.alloc)
  <2>1. m = g
    BY <1>3, <1>9
  <2>2. l <= f.alloc
    BY ONLY <1>1, <1>2, <1>4, <1>9, target \in 0..EwfEnd
  <2> QED
    BY ONLY <1>1, <1>5, <1>6, <1>7, <2>1, <2>2 DEF EwfGood
<1> QED
  BY <1>8, <1>9

(* A file that is emptied, and a new one.                                  *)
LEMMA EwfEmptiedIs ==
  ASSUME NEW f, EwfGood(f), ~f.freed
  PROVE  EwfGood(EwfEmptied(f)) /\ EwfPlain(EwfEmptied(f)) /\ EwfEmptied(f).path = f.path
<1> DEFINE freed == f.data # <<>>
           m == [f EXCEPT !.length = 0, !.data = <<>>, !.freed = freed,
                          !.spoilt = FALSE, !.true = <<>>]
<1>1. EwfEmptied(f) = m
  BY DEF EwfEmptied
<1>2. f \in EwfFileType /\ Len(f.data) = f.alloc
  BY DEF EwfGood
<1>3. f.alloc \in Nat /\ 0 \in 0..EwfEnd /\ <<>> \in Seq(Int) /\ Len(<<>>) = 0
  BY ONLY <1>2, EwfConstants DEF EwfFileType
<1>4. ~freed => f.alloc = 0
  BY ONLY <1>2, <1>3
<1> HIDE DEF freed
<1>5. freed \in BOOLEAN
  BY DEF freed
<1> DEFINE none == <<>>
<1>6. m = [f EXCEPT !.length = 0, !.data = none, !.freed = freed, !.spoilt = FALSE, !.true = none]
  OBVIOUS
<1>7. none \in Seq(Int) /\ Len(none) = 0
  BY <1>3
<1> HIDE DEF none, m
<1>8. m \in EwfFileType
  BY ONLY <1>2, <1>3, <1>5, <1>6, <1>7 DEF EwfFileType
<1>9. /\ m.path = f.path /\ m.length = 0 /\ m.alloc = f.alloc /\ m.data = none
      /\ m.freed = freed /\ m.spoilt = FALSE /\ m.true = none
  BY ONLY <1>2, <1>6 DEF EwfFileType
<1>10. EwfGood(m)
  <2>1. none = <<>>
    BY DEF none
  <2> QED
    BY ONLY <1>3, <1>4, <1>7, <1>8, <1>9, <2>1 DEF EwfGood
<1>11. EwfPlain(m)
  BY ONLY <1>7, <1>9 DEF EwfPlain
<1> QED
  BY <1>1, <1>9, <1>10, <1>11

(* A new file is good and plain.                                           *)
LEMMA EwfNewIs ==
  ASSUME NEW path \in EwfPaths \cup {<<>>}
  PROVE  LET m == [EwfNoFile EXCEPT !.path = path]
         IN EwfGood(m) /\ EwfPlain(m) /\ m.path = path
<1> DEFINE m == [EwfNoFile EXCEPT !.path = path]
<1>1. <<>> \in Seq(Int) /\ Len(<<>>) = 0 /\ 0 \in 0..EwfEnd
  BY EwfConstants
<1>2. /\ EwfNoFile.path = <<>> /\ EwfNoFile.length = 0 /\ EwfNoFile.alloc = 0
      /\ EwfNoFile.data = <<>> /\ EwfNoFile.freed = FALSE /\ EwfNoFile.spoilt = FALSE
      /\ EwfNoFile.true = <<>>
  BY DEF EwfNoFile
<1>3. EwfNoFile \in EwfFileType
  BY <1>1 DEF EwfNoFile, EwfFileType
<1>4. m \in EwfFileType
  BY ONLY <1>3, path \in EwfPaths \cup {<<>>} DEF EwfFileType
<1>5. /\ m.path = path /\ m.length = EwfNoFile.length /\ m.alloc = EwfNoFile.alloc
      /\ m.data = EwfNoFile.data /\ m.freed = EwfNoFile.freed
      /\ m.spoilt = EwfNoFile.spoilt /\ m.true = EwfNoFile.true
  BY ONLY <1>3 DEF EwfFileType
<1> HIDE DEF m
<1>6. /\ m.length = 0 /\ m.alloc = 0 /\ m.data = <<>> /\ m.freed = FALSE
      /\ m.spoilt = FALSE /\ m.true = <<>>
  BY ONLY <1>2, <1>5
<1>7. EwfGood(m)
  BY ONLY <1>1, <1>4, <1>6 DEF EwfGood
<1>8. EwfPlain(m)
  BY ONLY <1>1, <1>6 DEF EwfPlain
<1> QED
  BY <1>5, <1>7, <1>8 DEF m

(* A step that leaves the state so keeps the invariant.                    *)
EwfLeaves(F, H, pc, p, r, disk, c) ==
  ewf' = [files |-> F, handles |-> H, full |-> ewf.full, pc |-> pc, plain |-> p, right |-> r,
          disk |-> disk, calls |-> c]

(* A step keeps the invariant when it leaves good files and, of a plain    *)
(* game, plain ones.                                                       *)
LEMMA EwfKeeps ==
  ASSUME EwfInv, NEW F \in [1..EwfFiles -> EwfFileType], NEW H \in [1..EwfHandles -> EwfHandleType],
         NEW pc \in {"run", "full", "twice", "stray"}, NEW p \in BOOLEAN, NEW r \in BOOLEAN,
         NEW disk \in SUBSET EwfPaths, NEW c \in Nat, EwfNames(F, disk),
         \A i \in 1..EwfFiles : EwfGood(F[i]),
         p => r /\ pc # "stray" /\ \A i \in 1..EwfFiles : EwfPlain(F[i]),
         EwfLeaves(F, H, pc, p, r, disk, c)
  PROVE  EwfInv'
<1>1. ewf.full \in BOOLEAN
  BY DEF EwfInv, EwfState
<1>2. /\ ewf'.files = F /\ ewf'.handles = H /\ ewf'.full = ewf.full /\ ewf'.pc = pc
      /\ ewf'.plain = p /\ ewf'.right = r /\ ewf'.disk = disk /\ ewf'.calls = c
  BY DEF EwfLeaves
<1>3. ewf' \in EwfState
  BY <1>1 DEF EwfLeaves, EwfState
<1>4. EwfNames(ewf.files, ewf.disk)'
  <2>1. ASSUME NEW path PROVE ewf_needs_virtualization(path)' <=> ewf_needs_virtualization(path)
    BY <1>2 DEF ewf_needs_virtualization
  <2> QED
    BY <1>2, <2>1 DEF EwfNames
<1>5. (\A i \in 1..EwfFiles : EwfGood(ewf.files[i]))'
  <2>1. \A i \in 1..EwfFiles : EwfGood(ewf'.files[i])
    BY <1>2
  <2> QED
    BY <2>1 DEF EwfGood
<1>6. (ewf.plain => ewf.right /\ ewf.pc # "stray" /\ \A i \in 1..EwfFiles : EwfPlain(ewf.files[i]))'
  <2>1. ewf'.plain => ewf'.right /\ ewf'.pc # "stray" /\ \A i \in 1..EwfFiles : EwfPlain(ewf'.files[i])
    BY <1>2
  <2> QED
    BY <2>1 DEF EwfPlain
<1> QED
  BY <1>3, <1>4, <1>5, <1>6 DEF EwfInv

(* So is a step that changes one file, under the path it had or a new one. *)
LEMMA EwfKeepsWith ==
  ASSUME EwfInv, NEW i \in 1..EwfFiles, NEW m, EwfGood(m),
         NEW H \in [1..EwfHandles -> EwfHandleType], NEW p \in BOOLEAN, NEW c \in Nat,
         ewf.pc = "run", p => ewf.plain /\ EwfPlain(m),
         \/ m.path = ewf.files[i].path
         \/ /\ ewf_needs_virtualization(m.path)
            /\ \A j \in 1..EwfFiles : ewf.files[j].path # m.path,
         EwfLeaves([ewf.files EXCEPT ![i] = m], H, "run", p, ewf.right, ewf.disk, c)
  PROVE  EwfInv'
<1> DEFINE F == [ewf.files EXCEPT ![i] = m]
<1>1. /\ ewf.files \in [1..EwfFiles -> EwfFileType] /\ ewf.right \in BOOLEAN
      /\ ewf.disk \in SUBSET EwfPaths
      /\ EwfNames(ewf.files, ewf.disk) /\ \A j \in 1..EwfFiles : EwfGood(ewf.files[j])
      /\ ewf.plain => ewf.right /\ \A j \in 1..EwfFiles : EwfPlain(ewf.files[j])
  BY DEF EwfInv, EwfState
<1>2. m \in EwfFileType
  BY DEF EwfGood
<1>3. F \in [1..EwfFiles -> EwfFileType]
  BY ONLY <1>1, <1>2, i \in 1..EwfFiles
<1>4. \A j \in 1..EwfFiles : F[j] = IF j = i THEN m ELSE ewf.files[j]
  BY ONLY <1>1
<1> HIDE DEF F
<1>5. EwfNames(F, ewf.disk)
  <2>1. \A j \in 1..EwfFiles : F[j].path = IF j = i THEN m.path ELSE ewf.files[j].path
    BY <1>4
  <2> QED
    BY <1>1, <2>1 DEF EwfNames
<1>6. \A j \in 1..EwfFiles : EwfGood(F[j])
  BY <1>1, <1>4
<1>7. p => ewf.right /\ \A j \in 1..EwfFiles : EwfPlain(F[j])
  BY <1>1, <1>4
<1>8. EwfLeaves(F, H, "run", p, ewf.right, ewf.disk, c)
  BY DEF F
<1> QED
  BY <1>1, <1>3, <1>5, <1>6, <1>7, <1>8, EwfKeeps

(* And one that changes no file.                                           *)
LEMMA EwfKeepsRest ==
  ASSUME EwfInv, NEW H \in [1..EwfHandles -> EwfHandleType],
         NEW pc \in {"run", "full", "twice", "stray"}, NEW p \in BOOLEAN, NEW r \in BOOLEAN,
         NEW disk \in SUBSET EwfPaths, \A path \in disk : ~ewf_needs_virtualization(path),
         p => ewf.plain /\ r /\ pc # "stray",
         EwfLeaves(ewf.files, H, pc, p, r, disk, ewf.calls)
  PROVE  EwfInv'
<1>1. /\ ewf.files \in [1..EwfFiles -> EwfFileType] /\ ewf.calls \in Nat
      /\ EwfNames(ewf.files, ewf.disk) /\ \A j \in 1..EwfFiles : EwfGood(ewf.files[j])
      /\ ewf.plain => \A j \in 1..EwfFiles : EwfPlain(ewf.files[j])
  BY DEF EwfInv, EwfState
<1>2. EwfNames(ewf.files, disk)
  BY <1>1 DEF EwfNames
<1> QED
  BY <1>1, <1>2, EwfKeeps

(* Where nothing is defined any more, files and handles are as they were.  *)
LEMMA EwfCrashKeeps ==
  ASSUME EwfInv, NEW how \in {"full", "twice", "stray"}, NEW plain \in BOOLEAN,
         how = "stray" => ~ewf.plain \/ ~plain, ewf.pc = "run", EwfCrashes(how, plain)
  PROVE  EwfInv'
<1>1. ewf \in EwfState /\ (\A path \in ewf.disk : ~ewf_needs_virtualization(path))
      /\ (ewf.plain => ewf.right)
  BY DEF EwfInv, EwfNames
<1> DEFINE p == ewf.plain /\ plain
<1>2. ewf' = [ewf EXCEPT !.pc = how, !.plain = p]
  BY DEF EwfCrashes
<1>3. p \in BOOLEAN /\ (p => ewf.plain /\ ewf.right /\ how # "stray")
  BY <1>1 DEF EwfState
<1> HIDE DEF p
<1>4. EwfLeaves(ewf.files, ewf.handles, how, p, ewf.right, ewf.disk, ewf.calls)
  BY ONLY <1>1, <1>2 DEF EwfLeaves, EwfState
<1>5. /\ ewf.handles \in [1..EwfHandles -> EwfHandleType] /\ ewf.right \in BOOLEAN
      /\ ewf.disk \in SUBSET EwfPaths
  BY ONLY <1>1 DEF EwfState
<1> QED
  BY <1>1, <1>3, <1>4, <1>5, EwfKeepsRest

(* What is known of a handle that is open.                                 *)
LEMMA EwfOpenHandle ==
  ASSUME EwfInv, NEW h \in 1..EwfHandles, EwfIsOpen(h)
  PROVE  /\ ewf.pc = "run" /\ ewf.handles[h].file \in 1..EwfFiles
         /\ ewf.handles[h] \in EwfHandleType /\ ewf.handles[h].offset \in 0..EwfEnd
         /\ EwfFile(h) = ewf.files[ewf.handles[h].file] /\ EwfGood(EwfFile(h))
         /\ ewf.plain => EwfPlain(EwfFile(h))
<1>1. ewf.handles[h] \in EwfHandleType /\ ewf.handles[h].file # 0 /\ ewf.pc = "run"
  BY DEF EwfInv, EwfState, EwfIsOpen
<1>2. ewf.handles[h].file \in 1..EwfFiles /\ ewf.handles[h].offset \in 0..EwfEnd
  BY <1>1, EwfConstants DEF EwfHandleType
<1> QED
  BY <1>1, <1>2 DEF EwfFile, EwfInv

(* A table of handles of which one has another offset.                     *)
LEMMA EwfOffsetIs ==
  ASSUME EwfInv, NEW h \in 1..EwfHandles, NEW offset \in 0..EwfEnd
  PROVE  [ewf.handles EXCEPT ![h] = [ewf.handles[h] EXCEPT !.offset = offset]]
           \in [1..EwfHandles -> EwfHandleType]
<1> DEFINE e == [ewf.handles[h] EXCEPT !.offset = offset]
<1>1. ewf.handles \in [1..EwfHandles -> EwfHandleType]
  BY DEF EwfInv, EwfState
<1>2. e \in EwfHandleType
  BY <1>1 DEF EwfHandleType
<1> HIDE DEF e
<1>3. [ewf.handles EXCEPT ![h] = e] \in [1..EwfHandles -> EwfHandleType]
  BY ONLY <1>1, <1>2
<1> QED
  BY <1>3 DEF e

(* A close gives back the handle and leaves the files alone.               *)
LEMMA EwfCloseKeeps ==
  ASSUME EwfInv, NEW h \in 1..EwfHandles, ewf_handle_close(h)
  PROVE  EwfInv'
<1> DEFINE e == [ewf.handles[h] EXCEPT !.file = 0]
           H == [ewf.handles EXCEPT ![h] = e]
<1>1. ewf \in EwfState /\ ewf.handles[h] \in EwfHandleType /\ ewf.pc = "run"
  BY EwfOpenHandle DEF ewf_handle_close, EwfInv
<1>2. ewf' = [ewf EXCEPT !.handles = H]
  BY DEF ewf_handle_close
<1>3. e \in EwfHandleType
  BY <1>1, EwfConstants DEF EwfHandleType
<1> HIDE DEF e
<1>4. H \in [1..EwfHandles -> EwfHandleType]
  BY ONLY <1>1, <1>3 DEF EwfState
<1> HIDE DEF H
<1>5. EwfLeaves(ewf.files, H, ewf.pc, ewf.plain, ewf.right, ewf.disk, ewf.calls)
  BY ONLY <1>1, <1>2 DEF EwfLeaves, EwfState
<1>6. /\ ewf.plain \in BOOLEAN /\ ewf.right \in BOOLEAN /\ ewf.disk \in SUBSET EwfPaths
      /\ (ewf.plain => ewf.right) /\ \A path \in ewf.disk : ~ewf_needs_virtualization(path)
  BY DEF EwfInv, EwfState, EwfNames
<1> QED
  BY <1>1, <1>4, <1>5, <1>6, EwfKeepsRest

(* As long as the files are plain a read from the start gives what a disk  *)
(* gives.                                                                  *)
LEMMA EwfReadsRight ==
  ASSUME NEW f, EwfGood(f), EwfPlain(f), NEW n \in 1..EwfEnd, NEW pos, pos = 0
  PROVE  LET count == IF pos >= f.length THEN 0 ELSE EwfMin(n, f.length - pos)
         IN (IF f.freed THEN EwfJunks(count) ELSE SubSeq(f.data, 1, count))
              = SubSeq(f.true, pos + 1, EwfMin(pos + n, Len(f.true)))
<1> DEFINE l == f.length
           data == f.data
           true == f.true
           count == IF pos >= f.length THEN 0 ELSE EwfMin(n, f.length - pos)
<1>1. f \in EwfFileType /\ l = Len(true)
  BY DEF EwfGood, EwfPlain
<1>2. l \in 0..EwfEnd /\ EwfEnd \in Nat /\ data \in Seq(Int) /\ true \in Seq(Int)
  BY ONLY <1>1, EwfConstants DEF EwfFileType
<1>3. /\ ~f.freed => l <= Len(data) /\ \A k \in 1..l : true[k] = data[k]
      /\ f.freed => true = <<>>
  BY <1>1 DEF EwfGood, EwfPlain
<1>4. count = EwfMin(pos + n, Len(true)) /\ count \in 0..l
  <2> HIDE DEF l, true
  <2>1. count = (IF 0 >= l THEN 0 ELSE IF n < l THEN n ELSE l)
    BY <1>2 DEF EwfMin, l
  <2>2. EwfMin(pos + n, Len(true)) = (IF n < l THEN n ELSE l)
    <3>1. pos + n = n /\ Len(true) = l /\ n \in Nat
      BY <1>1, <1>2
    <3>2. EwfMin(n, l) = (IF n < l THEN n ELSE l)
      BY DEF EwfMin
    <3> QED
      BY ONLY <3>1, <3>2
  <2> HIDE DEF count
  <2> QED
    BY ONLY <1>2, <2>1, <2>2, n \in 1..EwfEnd
<1>5. CASE f.freed
  <2>1. true = <<>> /\ l = 0 /\ count = 0
    BY <1>1, <1>3, <1>4, <1>5
  <2>2. EwfJunks(0) = <<>>
    <3>1. EwfJunks(0) \in Seq(Int) /\ Len(EwfJunks(0)) = 0
      BY EwfJunksAre
    <3> QED
      BY ONLY <3>1, EmptySeq
  <2>3. SubSeq(true, pos + 1, count) = <<>>
    <3>1. SubSeq(true, 1, 0) \in Seq(Int) /\ Len(SubSeq(true, 1, 0)) = 0
      BY ONLY <1>2
    <3> QED
      BY <2>1, <3>1, EmptySeq
  <2> QED
    BY <1>4, <1>5, <2>1, <2>2, <2>3
<1>6. CASE ~f.freed
  <2> HIDE DEF count, data, true, l
  <2>1. l <= Len(data) /\ \A k \in 1..l : true[k] = data[k]
    BY <1>3, <1>6
  <2>2. SubSeq(data, 1, count) = [k \in 1..count |-> data[k]]
    BY ONLY <1>2, <1>4, <2>1
  <2>3. SubSeq(true, 1, count) = [k \in 1..count |-> true[k]]
    BY ONLY <1>1, <1>2, <1>4
  <2>4. \A k \in 1..count : data[k] = true[k]
    BY ONLY <1>2, <1>4, <2>1
  <2>5. SubSeq(data, 1, count) = SubSeq(true, 1, count)
    BY ONLY <2>2, <2>3, <2>4
  <2> QED
    BY <1>4, <1>6, <2>5 DEF data, true, count
<1> QED
  BY <1>5, <1>6

(* A read moves the offset and answers as a disk as long as the game is    *)
(* plain.                                                                  *)
LEMMA EwfReadKeeps ==
  ASSUME EwfInv, NEW h \in 1..EwfHandles, NEW n \in 1..EwfEnd, ewf_handle_read(h, n)
  PROVE  EwfInv'
<1> DEFINE f == EwfFile(h)
           pos == ewf.handles[h].offset
           count == IF pos >= f.length THEN 0 ELSE EwfMin(n, f.length - pos)
           o == pos + count
           H == [ewf.handles EXCEPT ![h] = [ewf.handles[h] EXCEPT !.offset = o]]
           p == ewf.plain /\ pos = 0
           r == (IF f.freed THEN EwfJunks(count) ELSE SubSeq(f.data, 1, count))
                  = SubSeq(f.true, pos + 1, EwfMin(pos + n, Len(f.true)))
<1>1. /\ ewf \in EwfState /\ ewf.handles[h] \in EwfHandleType /\ ewf.pc = "run"
      /\ EwfGood(f) /\ pos \in 0..EwfEnd /\ (ewf.plain => EwfPlain(f))
  BY EwfOpenHandle DEF ewf_handle_read, EwfInv
<1>2. ewf' = [ewf EXCEPT !.handles = H, !.plain = p, !.right = r]
  BY DEF ewf_handle_read
<1>3. f.length \in 0..EwfEnd /\ EwfEnd \in Nat
  BY <1>1, EwfConstants DEF EwfGood, EwfFileType
<1>4. p => r
  BY <1>1, EwfReadsRight
<1>5. p \in BOOLEAN /\ r \in BOOLEAN /\ (p => ewf.plain)
  BY <1>1 DEF EwfState
<1> HIDE DEF p, r, f
<1>6. o \in 0..EwfEnd
  BY <1>1, <1>3 DEF EwfMin
<1> HIDE DEF o
<1>7. H \in [1..EwfHandles -> EwfHandleType]
  BY <1>6, EwfOffsetIs
<1> HIDE DEF H
<1>8. EwfLeaves(ewf.files, H, ewf.pc, p, r, ewf.disk, ewf.calls)
  BY ONLY <1>1, <1>2 DEF EwfLeaves, EwfState
<1>9. ewf.disk \in SUBSET EwfPaths /\ \A path \in ewf.disk : ~ewf_needs_virtualization(path)
  BY DEF EwfInv, EwfState, EwfNames
<1> QED
  BY <1>1, <1>4, <1>5, <1>7, <1>8, <1>9, EwfKeepsRest

(* A stat tells the length, which is that of a disk as long as the game is *)
(* plain.                                                                  *)
LEMMA EwfStatKeeps ==
  ASSUME EwfInv, NEW path \in EwfPaths, hook_stat64i32(path)
  PROVE  EwfInv'
<1>1. PICK i \in ewf_find_virtual_file(path) :
        ewf' = [ewf EXCEPT !.right = ewf.files[i].length = Len(ewf.files[i].true)]
  BY DEF hook_stat64i32
<1> DEFINE r == ewf.files[i].length = Len(ewf.files[i].true)
<1>2. ewf' = [ewf EXCEPT !.right = r] /\ r \in BOOLEAN
  BY <1>1
<1>3. ewf \in EwfState /\ ewf.pc = "run" /\ i \in 1..EwfFiles
  BY DEF EwfInv, EwfState, hook_stat64i32, ewf_find_virtual_file
<1>4. ewf.plain => r
  BY <1>3 DEF EwfInv, EwfPlain
<1> HIDE DEF r
<1>5. EwfLeaves(ewf.files, ewf.handles, ewf.pc, ewf.plain, r, ewf.disk, ewf.calls)
  BY ONLY <1>2, <1>3 DEF EwfLeaves, EwfState
<1>6. /\ ewf.plain \in BOOLEAN /\ ewf.disk \in SUBSET EwfPaths
      /\ ewf.handles \in [1..EwfHandles -> EwfHandleType]
      /\ \A q \in ewf.disk : ~ewf_needs_virtualization(q)
  BY DEF EwfInv, EwfState, EwfNames
<1> QED
  BY <1>2, <1>3, <1>4, <1>5, <1>6, EwfKeepsRest

(* Whether a write goes beside the buffer.                                 *)
EwfStray(f, g, pos, touched) ==
  IF g.freed THEN touched > 0 \/ g.alloc # f.alloc
  ELSE touched > 0 /\ pos + touched > Len(g.data)

(* A write that does not finds a file as it should be, which has room for  *)
(* what is touched; one at the end of a plain file has room for all.       *)
LEMMA EwfRoomIs ==
  ASSUME NEW f, EwfGood(f), NEW pos \in 0..EwfEnd, NEW n \in 1..EwfBuffer, NEW g,
         g = EwfRoomFor(f, pos, n), NEW touched, touched = EwfMin(n, g.alloc - g.length)
  PROVE  /\ ~EwfStray(f, g, pos, touched) =>
              /\ EwfGood(g) /\ g.path = f.path /\ g.length = f.length
              /\ EwfPlain(f) => EwfPlain(g)
              /\ g.alloc - g.length \in Nat
              /\ touched > 0 => ~g.freed /\ pos + touched <= g.alloc
         /\ EwfPlain(f) /\ pos = f.length =>
              ~EwfStray(f, g, pos, touched) /\ n <= g.alloc - g.length
<1>1. /\ f.length \in 0..EwfEnd /\ f.alloc \in Nat /\ f.length <= f.alloc
      /\ Len(f.true) \in Nat /\ (f.freed => f.true = <<>>)
  BY DEF EwfGood, EwfFileType
<1>2. EwfEnd \in Nat /\ EwfBuffer \in Nat
  BY EwfConstants
<1>3. ASSUME EwfRoomy(f, g)
      PROVE  /\ EwfGood(g) /\ g.path = f.path /\ g.length = f.length /\ ~g.freed
             /\ EwfPlain(f) => EwfPlain(g)
             /\ Len(g.data) = g.alloc /\ g.alloc \in Nat /\ g.length <= g.alloc
  BY <1>3 DEF EwfRoomy, EwfGood, EwfFileType
<1>4. ASSUME EwfRoomy(f, g), ~EwfStray(f, g, pos, touched), touched > 0
      PROVE  pos + touched <= g.alloc
  <2>1. g.alloc - g.length \in Nat /\ g.alloc \in Nat /\ Len(g.data) = g.alloc /\ ~g.freed
    BY <1>1, <1>3, <1>4
  <2>2. touched \in Nat
    BY <1>2, <2>1 DEF EwfMin
  <2>3. ~(pos + touched > Len(g.data))
    BY <1>4, <2>1 DEF EwfStray
  <2> QED
    BY ONLY <1>2, <2>1, <2>2, <2>3, pos \in 0..EwfEnd
<1>5. ASSUME EwfRoomy(f, g)
      PROVE  g.alloc - g.length \in Nat
  BY <1>1, <1>3, <1>5
<1>6. ASSUME EwfRoomy(f, g), pos + n <= g.alloc, pos = f.length
      PROVE  ~EwfStray(f, g, pos, touched) /\ n <= g.alloc - g.length
  <2>1. g.alloc \in Nat /\ Len(g.data) = g.alloc /\ ~g.freed /\ g.length = pos
    BY <1>3, <1>6
  <2>2. n <= g.alloc - g.length
    BY ONLY <1>2, <1>6, <2>1, pos \in 0..EwfEnd, n \in 1..EwfBuffer
  <2>3. touched = n
    BY ONLY <1>2, <2>1, <2>2, n \in 1..EwfBuffer, pos \in 0..EwfEnd,
            touched = EwfMin(n, g.alloc - g.length) DEF EwfMin
  <2>4. ~(pos + touched > Len(g.data))
    BY ONLY <1>2, <1>6, <2>1, <2>3, pos \in 0..EwfEnd, n \in 1..EwfBuffer
  <2> QED
    BY <2>1, <2>2, <2>4 DEF EwfStray
<1>7. CASE f.length = 0
  <2>1. EwfRoomy(f, g) /\ n <= g.alloc
    BY <1>7, EwfRoomNew
  <2>2. pos = f.length => pos + n <= g.alloc
    BY <1>7, <2>1, <1>2
  <2> QED
    BY <1>3, <1>4, <1>5, <1>6, <2>1, <2>2
<1>8. CASE f.length # 0 /\ ~f.freed
  <2>1. EwfRoomy(f, g) /\ pos + n <= g.alloc
    BY <1>8, EwfRoomOld
  <2> QED
    BY <1>3, <1>4, <1>5, <1>6, <2>1
<1>9. CASE f.length # 0 /\ f.freed
  <2>1. ~EwfPlain(f)
    BY <1>1, <1>9 DEF EwfPlain
  <2>2. ASSUME ~EwfStray(f, g, pos, touched)
        PROVE  g = f /\ ~(touched > 0)
    <3>1. CASE g.freed
      <4>1. g.alloc = f.alloc /\ ~(touched > 0)
        BY <2>2, <3>1 DEF EwfStray
      <4> QED
        BY <1>9, <4>1, EwfRoomFreed
    <3>2. CASE ~g.freed
      <4>1. g.freed = f.freed
        <5>1. f \in EwfFileType
          BY DEF EwfGood
        <5>2. CASE pos + n > f.alloc
          <6> DEFINE d == f.data \o EwfJunks(f.alloc + (pos + n) - Len(f.data))
                     a == f.alloc + (pos + n)
          <6>1. g = [f EXCEPT !.alloc = a, !.data = d]
            BY <1>9, <5>2 DEF EwfRoomFor, ewf_grow_virtual_file_buffer
          <6> HIDE DEF a, d
          <6> QED
            BY ONLY <5>1, <6>1 DEF EwfFileType
        <5>3. CASE ~(pos + n > f.alloc)
          BY <1>9, <5>3 DEF EwfRoomFor
        <5> QED
          BY <5>2, <5>3
      <4> QED
        BY <1>9, <3>2, <4>1
    <3> QED
      BY <3>1, <3>2
  <2>3. f.alloc - f.length \in Nat
    BY ONLY <1>1, <1>2
  <2> QED
    BY <2>1, <2>2, <2>3
<1> QED
  BY <1>7, <1>8, <1>9

(* The bytes of a write.                                                   *)
LEMMA EwfBytesAre ==
  ASSUME NEW i \in Nat, NEW pos \in Nat, NEW n \in Nat
  PROVE  LET bytes == [k \in 1..n |-> EwfByte(i, pos + k)]
         IN bytes \in Seq(Int) /\ Len(bytes) = n
<1>1. \A k \in 1..n : EwfByte(i, pos + k) \in Int
  BY DEF EwfByte
<1> QED
  BY <1>1

(* A write: taken, refused, or beside its buffer in a game that is not     *)
(* plain.                                                                  *)
LEMMA EwfWriteKeeps ==
  ASSUME EwfInv, NEW h \in 1..EwfHandles, NEW n \in 1..EwfBuffer, ewf_handle_write(h, n)
  PROVE  EwfInv'
<1> DEFINE i == ewf.handles[h].file
           pos == ewf.handles[h].offset
           old == EwfFile(h)
           bytes == [k \in 1..n |-> EwfByte(i, pos + k)]
           g == EwfRoomFor(old, pos, n)
           room == g.alloc - g.length
           touched == EwfMin(n, room)
           stray == EwfStray(old, g, pos, touched)
           plain == pos = old.length
           p == ewf.plain /\ plain
           c == ewf.calls + 1
<1>1. /\ ewf \in EwfState /\ ewf.pc = "run" /\ i \in 1..EwfFiles /\ pos \in 0..EwfEnd
      /\ old = ewf.files[i] /\ EwfGood(old) /\ (ewf.plain => EwfPlain(old))
  BY EwfOpenHandle DEF ewf_handle_write, EwfInv
<1>2. EwfEnd \in Nat /\ EwfBuffer \in Nat /\ EwfFiles \in Nat
  BY EwfConstants
<1>3. bytes \in Seq(Int) /\ Len(bytes) = n
  <2>1. i \in Nat /\ pos \in Nat /\ n \in Nat
    BY <1>1, <1>2
  <2> HIDE DEF i, pos
  <2> QED
    BY ONLY <2>1, EwfBytesAre
<1>4. /\ pos + n <= EwfEnd
      /\ \/ stray /\ EwfCrashes("stray", plain)
         \/ /\ ~stray /\ n > room
            /\ ewf' = [ewf EXCEPT !.calls = c, !.plain = p,
                 !.files[i] = [g EXCEPT !.spoilt = g.spoilt \/ room > 0,
                   !.data = IF room = 0 THEN g.data
                            ELSE EwfPut(g.data, pos, [k \in 1..room |-> 0])]]
         \/ /\ ~stray /\ n <= room
            /\ ewf' = [ewf EXCEPT !.calls = c, !.plain = p,
                 !.handles[h].offset = pos + n,
                 !.files[i] = [g EXCEPT !.data = EwfPut(g.data, pos, bytes),
                   !.length = EwfMax(g.length, pos + n), !.true = EwfPut(g.true, pos, bytes)]]
  BY DEF ewf_handle_write, EwfStray
<1>5. /\ ~stray =>
           /\ EwfGood(g) /\ g.path = old.path /\ g.length = old.length
           /\ EwfPlain(old) => EwfPlain(g)
           /\ room \in Nat
           /\ touched > 0 => ~g.freed /\ pos + touched <= g.alloc
      /\ EwfPlain(old) /\ plain => ~stray /\ n <= room
  <2>1. g = EwfRoomFor(old, pos, n) /\ touched = EwfMin(n, g.alloc - g.length)
    OBVIOUS
  <2>2. EwfGood(old) /\ pos \in 0..EwfEnd
    BY <1>1
  <2> HIDE DEF g, touched, old, pos
  <2> QED
    BY ONLY <2>1, <2>2, n \in 1..EwfBuffer, EwfRoomIs
<1>6. p \in BOOLEAN /\ plain \in BOOLEAN /\ (p => ewf.plain /\ EwfPlain(old) /\ plain)
      /\ (~p => ~ewf.plain \/ ~plain)
  BY <1>1 DEF EwfState
<1>7. /\ c \in Nat /\ ewf.handles \in [1..EwfHandles -> EwfHandleType]
  BY <1>1 DEF EwfState
<1> HIDE DEF stray, p, plain, c, old, bytes
<1>8. CASE stray /\ EwfCrashes("stray", plain)
  BY <1>1, <1>5, <1>6, <1>8, EwfCrashKeeps
<1>9. CASE /\ ~stray /\ n > room
           /\ ewf' = [ewf EXCEPT !.calls = c, !.plain = p,
                !.files[i] = [g EXCEPT !.spoilt = g.spoilt \/ room > 0,
                  !.data = IF room = 0 THEN g.data
                           ELSE EwfPut(g.data, pos, [k \in 1..room |-> 0])]]
  <2> DEFINE m == [g EXCEPT !.spoilt = g.spoilt \/ room > 0,
                     !.data = IF room = 0 THEN g.data
                              ELSE EwfPut(g.data, pos, [k \in 1..room |-> 0])]
  <2>1. EwfSpoiled(g, pos, room, m)
    BY DEF EwfSpoiled
  <2>2. ewf' = [ewf EXCEPT !.calls = c, !.plain = p, !.files[i] = m]
    BY <1>9
  <2> HIDE DEF m
  <2>3. room \in Nat /\ touched = room /\ pos \in Nat
    <3>3. ~stray
      BY <1>9
    <3>4. pos \in 0..EwfEnd
      BY <1>1
    <3> HIDE DEF room, pos
    <3>1. room \in Nat /\ pos \in Nat
      <4>1. room \in Nat
        BY ONLY <1>5, <3>3
      <4> QED
        BY ONLY <1>2, <3>4, <4>1
    <3>2. touched = room
      BY ONLY <1>2, <1>9, <3>1, n \in 1..EwfBuffer DEF EwfMin, touched
    <3> QED
      BY <3>1, <3>2
  <2>4. EwfGood(g) /\ (room > 0 => ~g.freed /\ pos + room <= g.alloc)
    BY <1>5, <1>9, <2>3
  <2>5. EwfGood(m) /\ m.path = g.path
    <3> HIDE DEF room, g, pos
    <3> QED
      BY ONLY <2>1, <2>3, <2>4, EwfRefused
  <2>6. ~p
    BY <1>2, <1>5, <1>6, <1>9, <2>3
  <2> DEFINE F == [ewf.files EXCEPT ![i] = m]
  <2>7. ewf' = [ewf EXCEPT !.calls = c, !.plain = p, !.files = F]
    BY <2>2
  <2> HIDE DEF F, i
  <2>8. EwfLeaves(F, ewf.handles, "run", p, ewf.right, ewf.disk, c)
    BY ONLY <1>1, <2>7 DEF EwfLeaves, EwfState
  <2>9. m.path = ewf.files[i].path
    BY <1>1, <1>5, <1>9, <2>5
  <2> QED
    BY <1>1, <1>6, <1>7, <2>5, <2>6, <2>8, <2>9, EwfKeepsWith DEF F
<1>10. CASE /\ ~stray /\ n <= room
            /\ ewf' = [ewf EXCEPT !.calls = c, !.plain = p,
                 !.handles[h].offset = pos + n,
                 !.files[i] = [g EXCEPT !.data = EwfPut(g.data, pos, bytes),
                   !.length = EwfMax(g.length, pos + n), !.true = EwfPut(g.true, pos, bytes)]]
  <2> DEFINE m == [g EXCEPT !.data = EwfPut(g.data, pos, bytes),
                     !.length = EwfMax(g.length, pos + n), !.true = EwfPut(g.true, pos, bytes)]
             o == pos + n
             H == [ewf.handles EXCEPT ![h] = [ewf.handles[h] EXCEPT !.offset = o]]
             F == [ewf.files EXCEPT ![i] = m]
  <2>1. EwfWrote(g, pos, bytes, m)
    BY <1>3 DEF EwfWrote
  <2>2. ewf' = [ewf EXCEPT !.calls = c, !.plain = p, !.handles = H, !.files = F]
    BY <1>10
  <2> HIDE DEF m
  <2>3. room \in Nat /\ touched = n /\ touched > 0 /\ pos \in Nat /\ n \in Nat
    <3>3. ~stray
      BY <1>10
    <3>4. pos \in 0..EwfEnd
      BY <1>1
    <3> HIDE DEF room, pos
    <3>1. room \in Nat /\ pos \in Nat /\ n \in Nat \ {0}
      <4>1. room \in Nat
        BY ONLY <1>5, <3>3
      <4> QED
        BY ONLY <1>2, <3>4, <4>1, n \in 1..EwfBuffer
    <3>2. touched = n
      BY ONLY <1>2, <1>10, <3>1 DEF EwfMin, touched
    <3> QED
      BY <3>1, <3>2
  <2>4. EwfGood(g) /\ ~g.freed /\ pos + Len(bytes) <= g.alloc
    BY <1>3, <1>5, <1>10, <2>3
  <2>5. Len(bytes) > 0 /\ pos + Len(bytes) <= EwfEnd
    BY <1>3, <1>4, <2>3
  <2>6. EwfGood(m) /\ m.path = g.path /\ (EwfPlain(g) /\ pos = g.length => EwfPlain(m))
    <3> HIDE DEF room, g, pos
    <3> QED
      BY ONLY <1>3, <2>1, <2>3, <2>4, <2>5, EwfWritten
  <2>7. p => ewf.plain /\ EwfPlain(m)
    BY <1>5, <1>6, <1>10, <2>6 DEF plain
  <2>8. o \in 0..EwfEnd
    BY <1>1, <1>2, <1>4
  <2> HIDE DEF o
  <2>9. H \in [1..EwfHandles -> EwfHandleType]
    BY <2>8, EwfOffsetIs
  <2>10. m.path = ewf.files[i].path
    BY <1>1, <1>5, <1>10, <2>6
  <2> HIDE DEF F, H, i
  <2>11. EwfLeaves(F, H, "run", p, ewf.right, ewf.disk, c)
    BY ONLY <1>1, <2>2 DEF EwfLeaves, EwfState
  <2> QED
    BY <1>1, <1>6, <1>7, <2>6, <2>7, <2>9, <2>10, <2>11, EwfKeepsWith DEF F
<1> QED
  BY <1>4, <1>8, <1>9, <1>10

(* A seek, from the start, from the offset or from the end.                *)
LEMMA EwfSeeks ==
  ASSUME EwfInv, NEW h \in 1..EwfHandles, NEW origin \in {"FILE_BEGIN", "FILE_CURRENT", "FILE_END"},
         NEW offset \in -1..EwfEnd, ewf_handle_seek(h, origin, offset)
  PROVE  EwfInv'
<1> DEFINE i == ewf.handles[h].file
           pos == ewf.handles[h].offset
           old == EwfFile(h)
           target == IF origin = "FILE_END" THEN pos ELSE offset
           f == [old EXCEPT !.length = EwfMax(old.length, target)]
           m == IF target > f.alloc THEN ewf_grow_virtual_file_buffer(f, target) ELSE f
           c == ewf.calls + 1
           H == [ewf.handles EXCEPT ![h] = [ewf.handles[h] EXCEPT !.offset = target]]
           F == [ewf.files EXCEPT ![i] = m]
<1>1. /\ ewf \in EwfState /\ ewf.pc = "run" /\ i \in 1..EwfFiles /\ pos \in 0..EwfEnd
      /\ old = ewf.files[i] /\ EwfGood(old)
  BY EwfOpenHandle DEF ewf_handle_seek, EwfInv
<1>2. EwfEnd \in Nat
  BY EwfConstants
<1>3. \/ target < 0 /\ UNCHANGED ewf
      \/ target > f.alloc /\ f.freed /\ EwfCrashes("stray", FALSE)
      \/ /\ ~(target < 0) /\ ~(target > f.alloc /\ f.freed)
         /\ ewf' = [ewf EXCEPT !.calls = c, !.files = F, !.handles = H, !.plain = FALSE]
  BY DEF ewf_handle_seek
<1>4. f.alloc = old.alloc /\ f.freed = old.freed
  <2>1. old \in EwfFileType
    BY <1>1 DEF EwfGood
  <2> HIDE DEF old, target
  <2> QED
    BY ONLY <2>1 DEF EwfFileType
<1>5. CASE target < 0 /\ UNCHANGED ewf
  <2>1. ASSUME NEW path PROVE ewf_needs_virtualization(path)' <=> ewf_needs_virtualization(path)
    BY <1>5 DEF ewf_needs_virtualization
  <2>2. EwfNames(ewf.files, ewf.disk)'
    BY <1>5, <2>1 DEF EwfInv, EwfNames
  <2> QED
    BY <1>5, <2>2 DEF EwfInv
<1>6. CASE target > f.alloc /\ f.freed /\ EwfCrashes("stray", FALSE)
  BY <1>1, <1>6, EwfCrashKeeps
<1>7. CASE /\ ~(target < 0) /\ ~(target > f.alloc /\ f.freed)
           /\ ewf' = [ewf EXCEPT !.calls = c, !.files = F, !.handles = H, !.plain = FALSE]
  <2>1. target \in 0..EwfEnd
    BY <1>1, <1>2, <1>7
  <2>2. EwfSought(old, target, m)
    BY <1>4 DEF EwfSought
  <2>3. ~(target > old.alloc /\ old.freed)
    BY <1>4, <1>7
  <2>4. EwfGood(m) /\ m.path = old.path
    <3> HIDE DEF m, old, target
    <3> QED
      BY <1>1, <2>1, <2>2, <2>3, EwfSeekKeeps
  <2> HIDE DEF m, target
  <2>5. H \in [1..EwfHandles -> EwfHandleType]
    BY <2>1, EwfOffsetIs
  <2>6. ewf' = [ewf EXCEPT !.calls = c, !.files = F, !.handles = H, !.plain = FALSE]
    BY <1>7
  <2>7. c \in Nat /\ m.path = ewf.files[i].path
    BY <1>1, <2>4 DEF EwfState
  <2> HIDE DEF F, H, i, c
  <2>8. EwfLeaves(F, H, "run", FALSE, ewf.right, ewf.disk, c)
    BY ONLY <1>1, <2>6 DEF EwfLeaves, EwfState
  <2> QED
    BY <1>1, <2>4, <2>5, <2>7, <2>8, EwfKeepsWith DEF F
<1> QED
  BY <1>3, <1>5, <1>6, <1>7

(* The first of some places is one of them.                                *)
LEMMA EwfFirstIs ==
  ASSUME NEW S \in SUBSET Nat, S # {}
  PROVE  EwfFirst(S) \in S
  BY LeastExists DEF EwfFirst

(* The lowest of some of 1..N is one of 1..N.                              *)
LEMMA EwfFirstIn ==
  ASSUME NEW N \in Nat, NEW S, S \subseteq 1..N, S # {}
  PROVE  EwfFirst(S) \in 1..N
<1>1. S \in SUBSET Nat
  OBVIOUS
<1>2. EwfFirst(S) \in S
  BY <1>1, EwfFirstIs
<1> QED
  BY <1>2

(* A file that is opened: as it was, emptied or new.                       *)
LEMMA EwfOpensKeeps ==
  ASSUME EwfInv, NEW i \in 1..EwfFiles, NEW f, EwfGood(f), ewf.plain => EwfPlain(f),
         \/ f.path = ewf.files[i].path
         \/ /\ ewf_needs_virtualization(f.path)
            /\ \A j \in 1..EwfFiles : ewf.files[j].path # f.path,
         ewf.pc = "run", EwfOpens(i, f)
  PROVE  EwfInv'
<1> DEFINE free == ewf_open_virtual_file
           h == EwfFirst(free)
           e == [file |-> i, offset |-> 0]
           H == [ewf.handles EXCEPT ![h] = e]
           F == [ewf.files EXCEPT ![i] = f]
           c == ewf.calls + 1
<1>1. ewf \in EwfState
  BY DEF EwfInv
<1>2. CASE free = {}
  BY <1>2, EwfCrashKeeps DEF EwfOpens
<1>3. CASE free # {}
  <2>1. free \subseteq 1..EwfHandles
    BY <1>1 DEF ewf_open_virtual_file, EwfState
  <2>2. h \in 1..EwfHandles
    BY <1>3, <2>1, EwfFirstIn, EwfConstants
  <2>3. ewf' = [ewf EXCEPT !.files = F, !.calls = c, !.handles = H]
    BY <1>3 DEF EwfOpens
  <2> HIDE DEF h, free
  <2>4. e \in EwfHandleType
    BY EwfConstants DEF EwfHandleType
  <2> HIDE DEF e
  <2>5. H \in [1..EwfHandles -> EwfHandleType]
    BY ONLY <1>1, <2>2, <2>4 DEF EwfState
  <2>6. c \in Nat /\ ewf.plain \in BOOLEAN
    BY <1>1 DEF EwfState
  <2> HIDE DEF F, H, c
  <2>7. EwfLeaves(F, H, "run", ewf.plain, ewf.right, ewf.disk, c)
    BY ONLY <1>1, <2>3, ewf.pc = "run" DEF EwfLeaves, EwfState
  <2> QED
    BY <2>5, <2>6, <2>7, EwfKeepsWith DEF F
<1> QED
  BY <1>2, <1>3

(* An open: of a file on the disk, of an old file, of one to be emptied or *)
(* of a new one.                                                           *)
LEMMA EwfOpenKeeps ==
  ASSUME EwfInv, NEW path \in EwfPaths, NEW creation \in EwfCreations,
         ewf_handle_open(path, creation)
  PROVE  EwfInv'
<1> DEFINE found == ewf_find_virtual_file(path)
           i == EwfFirst(found)
<1>1. ewf \in EwfState /\ ewf.pc = "run" /\ path # <<>>
  BY EwfConstants DEF EwfInv, ewf_handle_open
<1>2. found \subseteq 1..EwfFiles /\ (found # {} => i \in 1..EwfFiles)
  <2>1. found \subseteq 1..EwfFiles
    BY <1>1 DEF ewf_find_virtual_file, EwfState
  <2> HIDE DEF found
  <2>2. found # {} => i \in 1..EwfFiles
    BY <2>1, EwfFirstIn, EwfConstants
  <2> QED
    BY <2>1, <2>2
<1>3. \/ /\ ~ewf_needs_virtualization(path)
         /\ ewf' = [ewf EXCEPT !.disk = ewf.disk \cup {path}]
      \/ ewf_needs_virtualization(path) /\ found = {} /\ EwfCreates(path)
      \/ found # {} /\ EwfEmpties(i)
      \/ found # {} /\ EwfOpensOld(i)
      \/ UNCHANGED ewf
  BY DEF ewf_handle_open
<1>4. CASE /\ ~ewf_needs_virtualization(path)
           /\ ewf' = [ewf EXCEPT !.disk = ewf.disk \cup {path}]
  <2> DEFINE d == ewf.disk \cup {path}
  <2>1. d \in SUBSET EwfPaths /\ \A q \in d : ~ewf_needs_virtualization(q)
    BY <1>1, <1>4 DEF EwfInv, EwfNames, EwfState
  <2>2. ewf' = [ewf EXCEPT !.disk = d]
    BY <1>4
  <2> HIDE DEF d
  <2>3. EwfLeaves(ewf.files, ewf.handles, ewf.pc, ewf.plain, ewf.right, d, ewf.calls)
    BY ONLY <1>1, <2>2 DEF EwfLeaves, EwfState
  <2>4. /\ ewf.plain \in BOOLEAN /\ ewf.right \in BOOLEAN /\ (ewf.plain => ewf.right)
        /\ ewf.handles \in [1..EwfHandles -> EwfHandleType]
    BY DEF EwfInv, EwfState
  <2> QED
    BY <1>1, <2>1, <2>3, <2>4, EwfKeepsRest
<1>5. CASE ewf_needs_virtualization(path) /\ found = {} /\ EwfCreates(path)
  <2> DEFINE room == ewf_create_virtual_file(path)
             m == [EwfNoFile EXCEPT !.path = path]
  <2>1. CASE room = {}
    BY <1>1, <1>5, <2>1, EwfCrashKeeps DEF EwfCreates
  <2>2. CASE room # {}
    <3>1. EwfOpens(EwfFirst(room), m)
      BY <1>5, <2>2 DEF EwfCreates
    <3>2. room \subseteq 1..EwfFiles
      BY <1>1 DEF ewf_create_virtual_file, EwfState
    <3> HIDE DEF room
    <3>3. EwfFirst(room) \in 1..EwfFiles
      BY <2>2, <3>2, EwfFirstIn, EwfConstants
    <3>4. EwfGood(m) /\ EwfPlain(m) /\ m.path = path
      BY EwfNewIs
    <3>5. \A j \in 1..EwfFiles : ewf.files[j].path # path
      BY <1>1, <1>5 DEF ewf_find_virtual_file, EwfState
    <3> HIDE DEF m
    <3> QED
      BY <1>1, <1>5, <3>1, <3>3, <3>4, <3>5, EwfOpensKeeps
  <2> QED
    BY <2>1, <2>2
<1>6. CASE found # {} /\ EwfEmpties(i)
  <2>1. i \in 1..EwfFiles
    BY <1>2, <1>6
  <2>2. EwfGood(ewf.files[i])
    BY <2>1 DEF EwfInv
  <2> HIDE DEF i
  <2>3. CASE ewf.files[i].freed
    BY <1>1, <1>6, <2>3, EwfCrashKeeps DEF EwfEmpties
  <2>4. CASE ~ewf.files[i].freed
    <3>1. EwfOpens(i, EwfEmptied(ewf.files[i]))
      BY <1>6, <2>4 DEF EwfEmpties
    <3> QED
      BY <1>1, <2>1, <2>2, <2>4, <3>1, EwfEmptiedIs, EwfOpensKeeps
  <2> QED
    BY <2>3, <2>4
<1>7. CASE found # {} /\ EwfOpensOld(i)
  <2>1. i \in 1..EwfFiles
    BY <1>2, <1>7
  <2>2. EwfGood(ewf.files[i]) /\ (ewf.plain => EwfPlain(ewf.files[i]))
    BY <2>1 DEF EwfInv
  <2>3. EwfOpens(i, ewf.files[i])
    BY <1>7 DEF EwfOpensOld
  <2> QED
    BY <1>1, <2>1, <2>2, <2>3, EwfOpensKeeps
<1>8. CASE UNCHANGED ewf
  <2>1. ASSUME NEW q PROVE ewf_needs_virtualization(q)' <=> ewf_needs_virtualization(q)
    BY <1>8 DEF ewf_needs_virtualization
  <2>2. EwfNames(ewf.files, ewf.disk)'
    BY <1>8, <2>1 DEF EwfInv, EwfNames
  <2> QED
    BY <1>8, <2>2 DEF EwfInv
<1> QED
  BY <1>3, <1>4, <1>5, <1>6, <1>7, <1>8

(* There is no file and nothing is open.                                   *)
LEMMA EwfInitInv == EwfInit => EwfInv
<1> SUFFICES ASSUME NEW full \in BOOLEAN,
                    ewf = [files |-> [i \in 1..EwfFiles |-> EwfNoFile],
                           handles |-> [h \in 1..EwfHandles |-> EwfNoHandle], full |-> full,
                           pc |-> "run", plain |-> TRUE, right |-> TRUE, disk |-> {}, calls |-> 0]
             PROVE  EwfInv
  BY DEF EwfInit
<1>1. EwfGood(EwfNoFile) /\ EwfPlain(EwfNoFile) /\ EwfNoFile.path = <<>>
  <2>1. [EwfNoFile EXCEPT !.path = <<>>] = EwfNoFile
    BY DEF EwfNoFile
  <2> QED
    BY <2>1, EwfNewIs
<1>2. EwfNoFile \in EwfFileType
  BY <1>1 DEF EwfGood
<1>3. EwfNoHandle \in EwfHandleType
  BY EwfConstants DEF EwfNoHandle, EwfHandleType
<1>4. ewf \in EwfState
  BY <1>2, <1>3 DEF EwfState
<1>5. ewf.disk = {} /\ ewf.right /\ ewf.pc = "run" /\ \A i \in 1..EwfFiles : ewf.files[i] = EwfNoFile
  OBVIOUS
<1>6. EwfNames(ewf.files, ewf.disk)
  BY <1>1, <1>5 DEF EwfNames
<1> QED
  BY <1>1, <1>4, <1>5, <1>6 DEF EwfInv

(* What the invariant says.                                                *)
LEMMA EwfInvRight == EwfInv => EwfIsRight
<1> SUFFICES ASSUME EwfInv PROVE EwfIsRight
  OBVIOUS
<1>1. /\ ewf \in EwfState /\ EwfNames(ewf.files, ewf.disk)
      /\ \A i \in 1..EwfFiles : EwfGood(ewf.files[i])
      /\ ewf.plain => ewf.right /\ ewf.pc # "stray" /\ \A i \in 1..EwfFiles : EwfPlain(ewf.files[i])
      /\ <<>> \notin EwfPaths
  BY EwfConstants DEF EwfInv
<1>2. DOMAIN ewf.files = 1..EwfFiles /\ DOMAIN ewf.handles = 1..EwfHandles
  BY <1>1 DEF EwfState
<1>3. EwfTypeOK
  <2>1. ASSUME NEW i \in 1..EwfFiles PROVE ewf.files[i].path \in EwfPaths \cup {<<>>}
    BY <1>1 DEF EwfState, EwfFileType
  <2>2. ASSUME NEW h \in 1..EwfHandles
        PROVE  ewf.handles[h].file \in 0..EwfFiles /\ ewf.handles[h].offset \in 0..EwfEnd
    BY <1>1 DEF EwfState, EwfHandleType
  <2>3. ewf.pc \in {"run", "full", "twice", "stray"} /\ ewf.plain \in BOOLEAN
    BY <1>1 DEF EwfState
  <2> QED
    BY <1>2, <2>1, <2>2, <2>3 DEF EwfTypeOK
<1>4. EwfOneFileEach
  <2>1. \A path \in ewf.disk : path # <<>>
    BY <1>1 DEF EwfState
  <2>2. \A path \in ewf.disk : ewf_find_virtual_file(path) = {}
    BY <1>1, <1>2, <2>1 DEF EwfNames, ewf_find_virtual_file
  <2> QED
    BY <1>1, <1>2, <2>2 DEF EwfOneFileEach, EwfNames
<1>5. EwfKeepsFiles
  <2>1. ASSUME NEW f, EwfGood(f)
        PROVE  /\ f.length <= f.alloc
               /\ ~f.freed => Len(f.data) >= f.length
               /\ ~f.freed /\ ~f.spoilt =>
                    /\ Len(f.true) <= f.length
                    /\ \A k \in DOMAIN f.true : f.true[k] \in {EwfJunk, f.data[k]}
    <3>1. /\ f.length <= f.alloc /\ Len(f.true) <= f.length
          /\ ~f.freed => Len(f.data) = f.alloc
          /\ ~f.freed /\ ~f.spoilt => \A k \in 1..Len(f.true) : f.true[k] \in {EwfJunk, f.data[k]}
      BY <2>1 DEF EwfGood
    <3>2. f.true \in Seq(Int) /\ f.alloc \in Nat /\ f.length \in Int
      BY <2>1, EwfConstants DEF EwfGood, EwfFileType
    <3>3. DOMAIN f.true = 1..Len(f.true)
      BY ONLY <3>2
    <3>4. ~f.freed => Len(f.data) >= f.length
      BY ONLY <3>1, <3>2
    <3> QED
      BY <3>1, <3>3, <3>4
  <2> QED
    BY <1>1, <1>2, <2>1 DEF EwfKeepsFiles
<1>6. EwfPlainFiles
  BY <1>1, <1>2 DEF EwfPlainFiles, EwfPlain
<1> QED
  BY <1>3, <1>4, <1>5, <1>6 DEF EwfIsRight

(* The write filter keeps the files of the game, for any paths, numbers of *)
(* files and handles, and sizes: a path names one file, a buffer holds     *)
(* what a disk would hold, and plain files are read, written and asked for *)
(* as on a disk.                                                           *)
THEOREM FilesAreKept == EwfSpec => []EwfIsRight
<1>1. EwfInit => EwfInv
  BY EwfInitInv
<1>2. EwfInv /\ [EwfNext]_ewf => EwfInv'
  <2> SUFFICES ASSUME EwfInv, [EwfNext]_ewf PROVE EwfInv'
    OBVIOUS
  <2>1. CASE EwfNext
    BY <2>1, EwfStatKeeps, EwfOpenKeeps, EwfCloseKeeps, EwfReadKeeps, EwfWriteKeeps,
         EwfSeeks
       DEF EwfNext
  <2>2. CASE UNCHANGED ewf
    <3>1. ASSUME NEW q PROVE ewf_needs_virtualization(q)' <=> ewf_needs_virtualization(q)
      BY <2>2 DEF ewf_needs_virtualization
    <3>2. EwfNames(ewf.files, ewf.disk)'
      BY <2>2, <3>1 DEF EwfInv, EwfNames
    <3> QED
      BY <2>2, <3>2 DEF EwfInv
  <2> QED
    BY <2>1, <2>2
<1>3. EwfInv => EwfIsRight
  BY EwfInvRight
<1> QED
  BY <1>1, <1>2, <1>3, PTL DEF EwfSpec

-----------------------------------------------------------------------------
(* The card printers C300 to C330.                                         *)

(* An RFID: the second of the seed and the place in the sequence of rand.  *)
PrnRfid == Nat \X Nat
(* What the RFID board told the game of the card in the printer.           *)
PrnKnown == {PrnUnknown} \cup (PrnRfid \X PrnData)

(* The types of an image, of a reply and of the printer.                   *)
PrnImageType ==
  [second : Nat, side : Nat, page : Nat, rfid : PrnRfid, data : PrnData, knows : PrnKnown]
(* What the game can have taken of an answer to READ.                      *)
PrnTook == {<<>>, <<"START">>, <<"START", "DATA">>, <<"START", "DATA", "END">>}
(* A reply of the RFID board.                                              *)
PrnReplyType ==
  [cmd : {"WRITE", "START", "READ_DATA", "DATA", "END"}, card : PrnKnown]
(* The printer, with the game that drives it.                              *)
PrnState ==
  [model : {"300", "330"}, wait : Nat, now : Nat, status : {0, 1, 2}, awaiting : BOOLEAN,
   finish : Nat, side : 0..PrnSides, rfid : PrnRfid, data : PrnData, idx : {0, 1},
   pending : BOOLEAN, readable : Seq(PrnReplyType),
   at : {"closed", "idle", "standby", "page", "wait", "exit"}, files : SUBSET PrnImageType,
   pages : Nat, images : Nat, told : Nat, knows : PrnKnown, took : PrnTook, opens : Nat]

(* Between two prints nothing is under way, and a card is in the way of    *)
(* the next on a C300 only.                                                *)
PrnReady(p) ==
  /\ p.at \in {"closed", "idle", "exit"} => p.status = 0
  /\ p.at = "standby" => p.status = 1
  /\ p.at \in {"page", "wait"} => p.status = 2 /\ p.pages = p.told + 1
  /\ p.at \notin {"page", "wait"} => p.pages = p.told
  /\ p.at \in {"standby", "page"} => ~p.awaiting
  /\ p.model = "330" /\ p.at \in {"closed", "idle"} => ~p.awaiting
  /\ p.model = "300" => p.at # "exit"

(* The second that a tick is in.                                           *)
PrnSecondOf(t) == t \div PrnSecond

(* With a wait of a second, no image of an earlier page has the second     *)
(* that it is, once the wait is over, and none of this page its side.      *)
PrnNames(p) ==
  /\ p.at # "page" => p.side = 0
  /\ p.wait >= PrnSecond =>
       /\ IsFiniteSet(p.files) /\ Cardinality(p.files) = p.images
       /\ \A f \in p.files :
            /\ f.page <= p.pages
            /\ p.at = "wait" => f.second + 1 <= PrnSecondOf(p.finish)
            /\ p.at = "page" /\ f.page = p.pages => f.side < p.side /\ f.second <= PrnSecondOf(p.now)
            /\ p.at # "wait" /\ (p.at # "page" \/ f.page < p.pages) =>
                 f.second + 1 <= PrnSecondOf(p.now)

(* A page is under way and its card is in the printer.                     *)
PrnPrinting(p) == p.at \in {"page", "wait", "exit"}

(* The RFID of a card is of a second at which the printer was opened, and  *)
(* those of earlier cards are of an earlier second, or have come before.   *)
PrnNumbers(p) ==
  /\ p.rfid[1] <= PrnSecondOf(p.now)
  /\ p.at = "closed" => p.files = {}
  /\ p.wait >= PrnSecond /\ p.model = "330" =>
       /\ \A f \in p.files :
            /\ f.rfid[1] <= f.second /\ f.rfid[1] <= p.rfid[1]
            /\ IF PrnPrinting(p) /\ f.page = p.pages THEN f.rfid = p.rfid
               ELSE f.rfid[1] = p.rfid[1] => f.rfid[2] < p.rfid[2]
       /\ \A f, g \in p.files : f.rfid = g.rfid => f.page = g.page

(* Where the RFID board is in its answer to READ.                          *)
PrnTaken(p) == p.took \in {<<>>, <<"START", "DATA", "END">>}
(* How far the RFID board is with its answer, and what the game knows of   *)
(* the card.                                                               *)
PrnBoard(p) ==
  /\ p.at # "standby" => ~p.pending /\ p.readable = <<>>
  /\ p.knows # PrnUnknown => p.knows = PrnCard(p.rfid, p.data)
  /\ \/ ~p.pending /\ p.readable = <<>> /\ PrnTaken(p)
     \/ /\ ~p.pending /\ PrnTaken(p)
        /\ Len(p.readable) = 1 /\ p.readable[1].cmd \in {"WRITE", "READ_DATA"}
     \/ /\ p.pending /\ p.idx = 0 /\ p.took = <<>>
        /\ Len(p.readable) = 1 /\ p.readable[1].cmd = "START"
     \/ /\ p.pending /\ p.idx = 1 /\ p.took = <<"START">>
        /\ Len(p.readable) = 1 /\ p.readable[1].cmd = "DATA"
        /\ p.readable[1].card = PrnCard(p.rfid, p.data)
     \/ /\ ~p.pending /\ p.took = <<"START", "DATA">>
        /\ Len(p.readable) = 1 /\ p.readable[1].cmd = "END"

(* An image that names a card shows the card of its own data.              *)
PrnImages(p) ==
  \A f \in p.files : f.knows # PrnUnknown => f.knows = PrnCard(f.rfid, f.data)

(* The invariant, of a state; what is true of the printer at any time.     *)
PrnGood(p) ==
  p \in PrnState /\ PrnReady(p) /\ PrnNames(p) /\ PrnNumbers(p) /\ PrnBoard(p) /\ PrnImages(p)

(* The invariant of the printer.                                           *)
PrnInv == PrnGood(prn)

-----------------------------------------------------------------------------
(* A second later is a later second.                                       *)
LEMMA PrnSecondIs ==
  ASSUME NEW a \in Nat
  PROVE  PrnSecondOf(a) \in Nat
<1>1. PrnSecond \in Nat \ {0}
  BY PrnAssumption DEF PrnAssumption
<1>2. a \div PrnSecond \in Int /\ a % PrnSecond \in 0..PrnSecond - 1
      /\ a = PrnSecond * (a \div PrnSecond) + (a % PrnSecond)
  BY <1>1
<1> DEFINE q == a \div PrnSecond
<1> HIDE DEF q
<1>3. q \in Int /\ a < PrnSecond * (q + 1)
  <2>1. PrnSecond * (q + 1) = PrnSecond * q + PrnSecond
    BY <1>1, <1>2 DEF q
  <2> QED
    BY <1>1, <1>2, <2>1 DEF q
<1>4. ASSUME q + 1 <= 0 PROVE FALSE
  <2>1. PrnSecond * (q + 1) <= 0
    BY ONLY <1>1, <1>3, <1>4
  <2> QED
    BY <1>1, <1>3, <2>1
<1> QED
  BY <1>3, <1>4 DEF q, PrnSecondOf

(* A tick that is no earlier has no earlier second, and one that is a      *)
(* second later has a later one.                                           *)
LEMMA PrnSeconds2 ==
  ASSUME NEW a \in Nat, NEW b \in Nat, NEW k \in {0, 1}, a + k * PrnSecond <= b
  PROVE  PrnSecondOf(a) + k <= PrnSecondOf(b)
<1>1. PrnSecond \in Nat \ {0}
  BY PrnAssumption DEF PrnAssumption
<1> DEFINE q == a \div PrnSecond
           r == b \div PrnSecond
<1>2. q \in Int /\ r \in Int /\ a >= PrnSecond * q /\ b < PrnSecond * r + PrnSecond
  <2>1. /\ a \div PrnSecond \in Int /\ a % PrnSecond \in 0..PrnSecond - 1
        /\ a = PrnSecond * (a \div PrnSecond) + (a % PrnSecond)
    BY <1>1
  <2>2. /\ b \div PrnSecond \in Int /\ b % PrnSecond \in 0..PrnSecond - 1
        /\ b = PrnSecond * (b \div PrnSecond) + (b % PrnSecond)
    BY <1>1
  <2> QED
    BY <1>1, <2>1, <2>2
<1> HIDE DEF q, r
<1>3. PrnSecond * (q + k) < PrnSecond * (r + 1)
  <2>1. PrnSecond * (q + k) = PrnSecond * q + k * PrnSecond
    BY <1>1, <1>2
  <2>2. PrnSecond * (r + 1) = PrnSecond * r + PrnSecond
    BY <1>1, <1>2
  <2>3. PrnSecond * q \in Int /\ PrnSecond * r \in Int /\ k * PrnSecond \in Int
    BY <1>1, <1>2
  <2> QED
    BY <1>1, <1>2, <2>1, <2>2, <2>3
<1>4. ASSUME q + k >= r + 1 PROVE FALSE
  <2>1. PrnSecond * (q + k) >= PrnSecond * (r + 1)
    BY ONLY <1>1, <1>2, <1>4, k \in {0, 1}
  <2>2. PrnSecond * (q + k) \in Int /\ PrnSecond * (r + 1) \in Int
    BY <1>1, <1>2
  <2> QED
    BY <1>3, <2>1, <2>2
<1> QED
  BY <1>2, <1>4 DEF q, r, PrnSecondOf

(* What the parts of the invariant say of the next state when what they    *)
(* are about is as it was.                                                 *)
PrnSameCard(p, n) ==
  n.rfid = p.rfid /\ n.data = p.data /\ n.knows = p.knows

(* The RFID board is as it was.                                            *)
PrnSameBoard(p, n) ==
  PrnSameCard(p, n) /\ n.pending = p.pending /\ n.readable = p.readable /\ n.idx = p.idx
  /\ n.took = p.took

(* The files are as they were.                                             *)
PrnSameFiles(p, n) ==
  n.wait = p.wait /\ n.files = p.files /\ n.images = p.images /\ n.model = p.model

(* Time that passes can only make earlier seconds out of a second.         *)
LEMMA PrnTickKeeps ==
  ASSUME PrnInv, PrnTick
  PROVE  PrnInv'
<1>1. /\ prn \in PrnState /\ PrnReady(prn) /\ PrnNames(prn) /\ PrnNumbers(prn)
      /\ PrnBoard(prn) /\ PrnImages(prn)
  BY DEF PrnInv, PrnGood
<1> DEFINE now == prn.now + 1
<1>2. prn' = [prn EXCEPT !.now = now] /\ now \in Nat
  BY <1>1 DEF PrnTick, PrnState
<1>3. PrnSecondOf(prn.now) <= PrnSecondOf(now) /\ PrnSecondOf(prn.now) \in Nat
      /\ PrnSecondOf(now) \in Nat
  <2>1. prn.now \in Nat /\ prn.now <= now
    BY <1>1 DEF PrnState
  <2> HIDE DEF now
  <2>2. prn.now + 0 * PrnSecond <= now
    BY <1>2, <2>1, PrnAssumption DEF PrnAssumption
  <2>3. PrnSecondOf(prn.now) + 0 <= PrnSecondOf(now)
    BY <1>2, <2>1, <2>2, PrnSeconds2
  <2> QED
    BY <1>2, <2>1, <2>3, PrnSecondIs
<1> HIDE DEF now
<1>4. prn' \in PrnState
  BY <1>1, <1>2 DEF PrnState
<1>5. /\ prn'.now = now /\ PrnSameBoard(prn, prn') /\ PrnSameFiles(prn, prn')
      /\ prn'.status = prn.status /\ prn'.at = prn.at /\ prn'.pages = prn.pages
      /\ prn'.told = prn.told /\ prn'.awaiting = prn.awaiting /\ prn'.finish = prn.finish
      /\ prn'.side = prn.side
  BY <1>1, <1>2 DEF PrnState, PrnSameBoard, PrnSameCard, PrnSameFiles
<1>6. PrnReady(prn')
  BY <1>1, <1>5 DEF PrnReady, PrnSameFiles
<1>7. PrnNames(prn')
  <2>1. ASSUME NEW f \in prn.files PROVE f.second \in Nat
    BY <1>1 DEF PrnState, PrnImageType
  <2> QED
    BY <1>1, <1>3, <1>5, <2>1 DEF PrnNames, PrnSameFiles
<1>8. PrnNumbers(prn')
  <2>1. prn.rfid[1] \in Nat
    BY <1>1 DEF PrnState, PrnRfid
  <2> QED
    BY <1>1, <1>3, <1>5, <2>1
      DEF PrnNumbers, PrnPrinting, PrnSameFiles, PrnSameBoard, PrnSameCard
<1>9. PrnBoard(prn') /\ PrnImages(prn')
  BY <1>1, <1>5
    DEF PrnBoard, PrnTaken, PrnImages, PrnSameFiles, PrnSameBoard, PrnSameCard
<1> QED
  BY <1>4, <1>6, <1>7, <1>8, <1>9 DEF PrnInv, PrnGood

(* The parts of the invariant.                                             *)
LEMMA PrnParts ==
  ASSUME PrnInv
  PROVE  /\ prn \in PrnState /\ PrnReady(prn) /\ PrnNames(prn) /\ PrnNumbers(prn)
         /\ PrnBoard(prn) /\ PrnImages(prn)
  BY DEF PrnInv, PrnGood

(* Opened again, the printer draws RFIDs from a second that no file of an  *)
(* earlier card has.                                                       *)
LEMMA PrnOpenKeeps ==
  ASSUME PrnInv, chcusb_open
  PROVE  PrnInv'
<1>1. /\ prn \in PrnState /\ PrnReady(prn) /\ PrnNames(prn) /\ PrnNumbers(prn)
      /\ PrnBoard(prn) /\ PrnImages(prn)
  BY PrnParts
<1> DEFINE s == PrnSecondOf(prn.now)
           c == prn.opens + 1
           rfid == <<s, 0>>
<1>2. s \in Nat /\ c \in Nat /\ prn.now \in Nat /\ prn.pages \in Nat
  <2>1. prn.now \in Nat /\ prn.pages \in Nat /\ prn.opens \in Nat
    BY <1>1 DEF PrnState
  <2> QED
    BY <2>1, PrnSecondIs
<1>3. /\ prn.at \in {"closed", "idle"}
      /\ prn' = [prn EXCEPT !.at = "idle", !.opens = c, !.knows = PrnUnknown, !.rfid = rfid]
  BY DEF chcusb_open, PrnSeconds, PrnSecondOf
<1> HIDE DEF s, c
<1>4. rfid \in PrnRfid /\ rfid[1] = s /\ rfid[2] = 0
  BY <1>2 DEF PrnRfid
<1> HIDE DEF rfid
<1>5. prn' \in PrnState
  BY <1>1, <1>2, <1>3, <1>4 DEF PrnState, PrnKnown
<1>6. /\ prn'.now = prn.now /\ PrnSameFiles(prn, prn') /\ prn'.at = "idle"
      /\ prn'.rfid = rfid /\ prn'.knows = PrnUnknown
      /\ prn'.status = prn.status /\ prn'.pages = prn.pages
      /\ prn'.told = prn.told /\ prn'.awaiting = prn.awaiting /\ prn'.finish = prn.finish
      /\ prn'.side = prn.side /\ prn'.readable = prn.readable /\ prn'.pending = prn.pending
      /\ prn'.took = prn.took
  BY <1>1, <1>3 DEF PrnState, PrnSameFiles
<1>7. PrnReady(prn')
  BY <1>1, <1>3, <1>6 DEF PrnReady, PrnSameFiles
<1>8. PrnNames(prn')
  BY <1>1, <1>3, <1>6 DEF PrnNames, PrnSameFiles
<1>9. PrnNumbers(prn')
  <2>1. ASSUME NEW f \in prn.files, prn.wait >= PrnSecond, prn.model = "330"
        PROVE  f.rfid[1] <= f.second /\ f.rfid[1] < s
    <3>1. f.second \in Nat /\ f.rfid[1] \in Nat
      BY <1>1 DEF PrnState, PrnImageType, PrnRfid
    <3>2. f.second + 1 <= s
      BY <1>1, <1>3, <2>1 DEF PrnNames, s
    <3>3. f.rfid[1] <= f.second
      BY <1>1, <1>3, <2>1 DEF PrnNumbers
    <3> QED
      BY <1>2, <3>1, <3>2, <3>3
  <2>2. ASSUME NEW f \in prn.files PROVE f.rfid[1] \in Nat
    BY <1>1 DEF PrnState, PrnImageType, PrnRfid
  <2>3. prn.wait >= PrnSecond /\ prn.model = "330" =>
          \A f, g \in prn.files : f.rfid = g.rfid => f.page = g.page
    BY <1>1 DEF PrnNumbers
  <2> QED
    BY <1>2, <1>4, <1>6, <2>1, <2>2, <2>3 DEF PrnNumbers, PrnPrinting, PrnSameFiles, s
<1>10. PrnBoard(prn') /\ PrnImages(prn')
  BY <1>1, <1>3, <1>6 DEF PrnBoard, PrnTaken, PrnImages, PrnSameFiles
<1> QED
  BY <1>5, <1>7, <1>8, <1>9, <1>10 DEF PrnInv, PrnGood

(* Standby finds a printer with no print under way, and makes it ready.    *)
LEMMA PrnStandbyKeeps ==
  ASSUME PrnInv, chcusb_setPrintStandby \/ chcusb_setPrintStandby_300
  PROVE  PrnInv'
<1>1. /\ prn \in PrnState /\ PrnReady(prn) /\ PrnNames(prn) /\ PrnNumbers(prn)
      /\ PrnBoard(prn) /\ PrnImages(prn)
  BY PrnParts
<1>2. prn.at = "idle"
  BY DEF chcusb_setPrintStandby, chcusb_setPrintStandby_300
<1>3. prn.status = 0 /\ prn.pages = prn.told
  BY <1>1, <1>2 DEF PrnReady
<1>4. PICK finish \in {0, prn.finish} :
        prn' = [prn EXCEPT !.at = "standby", !.awaiting = FALSE, !.finish = finish, !.status = 1]
  <2>1. CASE chcusb_setPrintStandby
    <3>1. ~prn.awaiting
      BY <1>1, <1>2, <2>1 DEF PrnReady, chcusb_setPrintStandby
    <3>2. prn' = [prn EXCEPT !.at = "standby", !.status = 1]
      BY <1>3, <2>1 DEF chcusb_setPrintStandby
    <3>3. prn' = [prn EXCEPT !.at = "standby", !.awaiting = FALSE, !.finish = prn.finish, !.status = 1]
      BY <1>1, <3>1, <3>2 DEF PrnState
    <3> QED
      BY <3>3
  <2>2. CASE chcusb_setPrintStandby_300
    BY <1>3, <2>2 DEF chcusb_setPrintStandby_300
  <2> QED
    BY <2>1, <2>2
<1>5. prn' \in PrnState
  <2>1. finish \in Nat
    <3>1. prn.finish \in Nat
      BY <1>1 DEF PrnState
    <3> QED
      BY <3>1
  <2> QED
    BY <1>1, <1>4, <2>1 DEF PrnState
<1>6. /\ prn'.now = prn.now /\ PrnSameFiles(prn, prn') /\ prn'.at = "standby"
      /\ PrnSameBoard(prn, prn')
      /\ prn'.status = 1 /\ prn'.pages = prn.pages
      /\ prn'.told = prn.told /\ prn'.awaiting = FALSE
      /\ prn'.side = prn.side
  BY <1>1, <1>4 DEF PrnState, PrnSameFiles, PrnSameBoard, PrnSameCard
<1>7. PrnReady(prn')
  BY <1>3, <1>6 DEF PrnReady, PrnSameFiles
<1>8. PrnNames(prn')
  BY <1>1, <1>2, <1>6 DEF PrnNames, PrnSameFiles
<1>9. PrnNumbers(prn')
  BY <1>1, <1>2, <1>6
    DEF PrnNumbers, PrnPrinting, PrnSameFiles, PrnSameBoard, PrnSameCard
<1>10. PrnBoard(prn') /\ PrnImages(prn')
  BY <1>1, <1>2, <1>6
    DEF PrnBoard, PrnTaken, PrnImages, PrnSameFiles, PrnSameBoard, PrnSameCard
<1> QED
  BY <1>5, <1>7, <1>8, <1>9, <1>10 DEF PrnInv, PrnGood

(* The page that starts has no image yet.                                  *)
LEMMA PrnStartKeeps ==
  ASSUME PrnInv, chcusb_startpage
  PROVE  PrnInv'
<1>1. /\ prn \in PrnState /\ PrnReady(prn) /\ PrnNames(prn) /\ PrnNumbers(prn)
      /\ PrnBoard(prn) /\ PrnImages(prn)
  BY PrnParts
<1> DEFINE pages == prn.pages + 1
<1>2. /\ prn.at = "standby" /\ ~prn.pending /\ prn.readable = <<>>
      /\ prn' = [prn EXCEPT !.at = "page", !.status = 2, !.pages = pages]
  BY DEF chcusb_startpage, PrnBoardIsQuiet
<1>3. prn.pages \in Nat /\ pages \in Nat /\ prn.pages < pages /\ pages = prn.pages + 1
  <2>1. prn.pages \in Nat
    BY <1>1 DEF PrnState
  <2> QED
    BY <2>1
<1> HIDE DEF pages
<1>5. prn' \in PrnState
  BY <1>1, <1>2, <1>3 DEF PrnState
<1>6. /\ prn'.now = prn.now /\ PrnSameFiles(prn, prn') /\ prn'.at = "page"
      /\ PrnSameBoard(prn, prn')
      /\ prn'.status = 2 /\ prn'.pages = pages
      /\ prn'.told = prn.told /\ prn'.awaiting = prn.awaiting
      /\ prn'.side = prn.side
  BY <1>1, <1>2 DEF PrnState, PrnSameFiles, PrnSameBoard, PrnSameCard
<1>7. PrnReady(prn')
  BY <1>1, <1>2, <1>3, <1>6 DEF PrnReady, PrnSameFiles
<1>8. PrnNames(prn')
  <2>1. ASSUME NEW f \in prn.files PROVE f.page \in Nat
    BY <1>1 DEF PrnState, PrnImageType
  <2> QED
    BY <1>1, <1>2, <1>3, <1>6, <2>1 DEF PrnNames, PrnSameFiles
<1>9. PrnNumbers(prn')
  <2>1. ASSUME NEW f \in prn.files, prn.wait >= PrnSecond PROVE f.page # pages
    <3>1. f.page \in Nat
      BY <1>1 DEF PrnState, PrnImageType
    <3>2. f.page <= prn.pages
      BY <1>1, <2>1 DEF PrnNames
    <3> QED
      BY <1>3, <3>1, <3>2
  <2> QED
    BY <1>1, <1>2, <1>6, <2>1
      DEF PrnNumbers, PrnPrinting, PrnSameFiles, PrnSameBoard, PrnSameCard
<1>10. PrnBoard(prn') /\ PrnImages(prn')
  BY <1>1, <1>2, <1>6
    DEF PrnBoard, PrnTaken, PrnImages, PrnSameFiles, PrnSameBoard, PrnSameCard
<1> QED
  BY <1>5, <1>7, <1>8, <1>9, <1>10 DEF PrnInv, PrnGood


(* The card that the RFID board told of, with an image of it.              *)
PrnImage(p) ==
  [second |-> PrnSecondOf(p.now), side |-> p.side, page |-> p.pages,
   rfid |-> p.rfid, data |-> p.data, knows |-> p.knows]

(* The image of a page has a name of its own when the wait is a second or  *)
(* more.                                                                   *)
LEMMA PrnNewName ==
  ASSUME PrnInv, prn.at = "page", prn.wait >= PrnSecond, NEW f \in prn.files
  PROVE  f.second # PrnSecondOf(prn.now) \/ f.side # prn.side
<1>1. prn \in PrnState /\ PrnNames(prn)
  BY PrnParts
<1>2. /\ f.second \in Nat /\ f.side \in Nat /\ f.page \in Nat /\ prn.now \in Nat
      /\ prn.pages \in Nat
  BY <1>1 DEF PrnState, PrnImageType
<1>3. prn.side \in Nat
  BY <1>1, PrnAssumption DEF PrnState, PrnAssumption
<1>4. PrnSecondOf(prn.now) \in Nat
  BY <1>2, PrnSecondIs
<1>5. f.page <= prn.pages
  BY <1>1 DEF PrnNames
<1>6. CASE f.page = prn.pages
  <2>1. f.side < prn.side
    BY <1>1, <1>6 DEF PrnNames
  <2> QED
    BY <1>2, <1>3, <2>1
<1>7. CASE f.page # prn.pages
  <2>1. f.page < prn.pages
    BY <1>2, <1>5, <1>7
  <2>2. f.second + 1 <= PrnSecondOf(prn.now)
    BY <1>1, <2>1 DEF PrnNames
  <2> QED
    BY <1>2, <1>4, <2>2
<1> QED
  BY <1>6, <1>7

(* An image that is written makes one file more, and it is of the card in  *)
(* the printer.                                                            *)
LEMMA PrnWriteKeeps ==
  ASSUME PrnInv, chcusb_write
  PROVE  PrnInv'
<1>1. /\ prn \in PrnState /\ PrnReady(prn) /\ PrnNames(prn) /\ PrnNumbers(prn)
      /\ PrnBoard(prn) /\ PrnImages(prn)
  BY PrnParts
<1> DEFINE image == PrnImage(prn)
           side == prn.side + 1
           images == prn.images + 1
           s == PrnSecondOf(prn.now)
           kept == {f \in prn.files : <<f.second, f.side>> # <<image.second, image.side>>}
           files == kept \cup {image}
<1>2. /\ prn.at = "page" /\ prn.side < PrnSides
      /\ prn' = [prn EXCEPT !.side = side, !.images = images, !.files = files]
  BY DEF chcusb_write, PrnSeconds, PrnSecondOf, PrnImage
<1>3. /\ prn.side \in 0..PrnSides /\ prn.images \in Nat /\ prn.now \in Nat
      /\ prn.pages \in Nat /\ prn.rfid \in PrnRfid /\ prn.data \in PrnData
      /\ prn.knows \in PrnKnown /\ prn.files \subseteq PrnImageType
  BY <1>1 DEF PrnState
<1>4. /\ side \in 0..PrnSides /\ prn.side < side /\ images \in Nat /\ s \in Nat
      /\ prn.side \in Nat /\ side \in Nat /\ images = prn.images + 1
  <2>1. s \in Nat
    BY <1>3, PrnSecondIs
  <2> QED
    BY <1>2, <1>3, <2>1, PrnAssumption DEF PrnAssumption
<1>5. /\ image.second = s /\ image.side = prn.side /\ image.page = prn.pages
      /\ image.rfid = prn.rfid /\ image.data = prn.data /\ image.knows = prn.knows
  BY DEF PrnImage
<1>6. image \in PrnImageType
  BY <1>3, <1>4 DEF PrnImageType, PrnImage
<1>7. prn.wait >= PrnSecond => image \notin prn.files /\ kept = prn.files
  BY <1>2, <1>5, PrnNewName
<1>8. kept \subseteq prn.files
  OBVIOUS
<1> HIDE DEF image, side, images, kept, s
<1>9. files \subseteq PrnImageType
  BY <1>3, <1>6, <1>8
<1> HIDE DEF files
<1>10. prn' \in PrnState
  BY <1>1, <1>2, <1>4, <1>9 DEF PrnState
<1>11. /\ prn'.now = prn.now /\ prn'.at = "page" /\ prn'.files = files
       /\ prn'.images = images /\ prn'.side = side /\ prn'.wait = prn.wait
       /\ PrnSameBoard(prn, prn') /\ prn'.model = prn.model
       /\ prn'.status = prn.status /\ prn'.pages = prn.pages
       /\ prn'.told = prn.told /\ prn'.awaiting = prn.awaiting
  BY <1>1, <1>2 DEF PrnState, PrnSameBoard, PrnSameCard
<1>12. PrnReady(prn')
  BY <1>1, <1>2, <1>11 DEF PrnReady
<1>13. ASSUME NEW f \in files
       PROVE  f = image \/ f \in prn.files
  BY <1>8, <1>13 DEF files
<1>14. ASSUME NEW f \in prn.files
       PROVE  /\ f.second \in Nat /\ f.side \in Nat /\ f.page \in Nat
              /\ f.rfid[1] \in Nat /\ f.rfid[2] \in Nat
  BY <1>3 DEF PrnImageType, PrnRfid
<1>15. PrnNames(prn')
  <2>1. CASE prn.wait >= PrnSecond
    <3>1. IsFiniteSet(prn.files) /\ Cardinality(prn.files) = prn.images
      BY <1>1, <2>1 DEF PrnNames
    <3>2. files = prn.files \cup {image} /\ image \notin prn.files
      BY <1>7, <2>1 DEF files
    <3>3. IsFiniteSet(files) /\ Cardinality(files) = images
      BY <1>4, <3>1, <3>2, FS_AddElement
    <3>4. ASSUME NEW f \in prn.files
          PROVE  /\ f.page <= prn.pages
                 /\ f.page = prn.pages => f.side < side /\ f.second <= s
                 /\ f.page < prn.pages => f.second + 1 <= s
      <4>1. /\ f.page <= prn.pages
            /\ f.page = prn.pages => f.side < prn.side /\ f.second <= s
            /\ f.page < prn.pages => f.second + 1 <= s
        BY <1>1, <1>2, <2>1 DEF PrnNames, s
      <4> QED
        BY <1>4, <1>14, <4>1
    <3>5. /\ image.page <= prn.pages /\ image.side < side /\ image.second <= s
          /\ ~(image.page < prn.pages)
      BY <1>3, <1>4, <1>5
    <3>6. \A f \in files :
            /\ f.page <= prn.pages
            /\ f.page = prn.pages => f.side < side /\ f.second <= s
            /\ f.page < prn.pages => f.second + 1 <= s
      BY <1>13, <3>4, <3>5
    <3>7. s = PrnSecondOf(prn'.now)
      BY <1>11 DEF s
    <3> QED
      BY <1>11, <3>3, <3>6, <3>7 DEF PrnNames
  <2>2. CASE ~(prn.wait >= PrnSecond)
    BY <1>11, <2>2 DEF PrnNames
  <2> QED
    BY <2>1, <2>2
<1>16. PrnNumbers(prn')
  <2>1. CASE prn.wait >= PrnSecond /\ prn.model = "330"
    <3>1. prn.rfid[1] \in Nat /\ prn.rfid[2] \in Nat /\ prn.rfid[1] <= s
      BY <1>1, <1>3 DEF PrnRfid, PrnNumbers, s
    <3>2. /\ image.rfid[1] <= image.second /\ image.rfid[1] <= prn.rfid[1]
          /\ image.rfid = prn.rfid
      BY <1>5, <3>1
    <3>3. ASSUME NEW f \in prn.files
          PROVE  /\ f.rfid[1] <= f.second /\ f.rfid[1] <= prn.rfid[1]
                 /\ IF f.page = prn.pages THEN f.rfid = prn.rfid
                    ELSE f.rfid[1] = prn.rfid[1] => f.rfid[2] < prn.rfid[2]
      BY <1>1, <1>2, <2>1 DEF PrnNumbers, PrnPrinting
    <3>4. ASSUME NEW f \in prn.files, f.rfid = prn.rfid
          PROVE  f.page = prn.pages
      BY <1>14, <3>1, <3>3, <3>4
    <3>5. \A f, g \in prn.files : f.rfid = g.rfid => f.page = g.page
      BY <1>1, <2>1 DEF PrnNumbers
    <3>6. \A f, g \in files : f.rfid = g.rfid => f.page = g.page
      BY <1>5, <1>13, <3>4, <3>5
    <3>7. \A f \in files :
            /\ f.rfid[1] <= f.second /\ f.rfid[1] <= prn.rfid[1]
            /\ IF f.page = prn.pages THEN f.rfid = prn.rfid
               ELSE f.rfid[1] = prn.rfid[1] => f.rfid[2] < prn.rfid[2]
      BY <1>5, <1>13, <3>2, <3>3
    <3>8. prn'.rfid = prn.rfid /\ PrnPrinting(prn') /\ s = PrnSecondOf(prn'.now)
      BY <1>11 DEF PrnPrinting, PrnSameBoard, PrnSameCard, s
    <3> QED
      BY <1>11, <3>1, <3>6, <3>7, <3>8 DEF PrnNumbers
  <2>2. CASE ~(prn.wait >= PrnSecond /\ prn.model = "330")
    BY <1>1, <1>11, <2>2 DEF PrnNumbers, PrnSameBoard, PrnSameCard
  <2> QED
    BY <2>1, <2>2
<1>17. PrnBoard(prn')
  BY <1>1, <1>2, <1>11 DEF PrnBoard, PrnTaken, PrnSameBoard, PrnSameCard
<1>18. PrnImages(prn')
  <2>1. image.knows # PrnUnknown => image.knows = PrnCard(image.rfid, image.data)
    BY <1>1, <1>5 DEF PrnBoard
  <2> QED
    BY <1>1, <1>11, <1>13, <2>1 DEF PrnImages
<1> QED
  BY <1>10, <1>12, <1>15, <1>16, <1>17, <1>18 DEF PrnInv, PrnGood

(* With a wait of a second or more, the wait ends in a later second than   *)
(* any image has.                                                          *)
LEMMA PrnEndKeeps ==
  ASSUME PrnInv, chcusb_endpage
  PROVE  PrnInv'
<1>1. /\ prn \in PrnState /\ PrnReady(prn) /\ PrnNames(prn) /\ PrnNumbers(prn)
      /\ PrnBoard(prn) /\ PrnImages(prn)
  BY PrnParts
<1> DEFINE finish == IF prn.wait > 0 THEN prn.now + prn.wait ELSE prn.finish
           s == PrnSecondOf(prn.now)
<1>2. /\ prn.at = "page"
      /\ prn' = [prn EXCEPT !.at = "wait", !.awaiting = TRUE, !.side = 0, !.took = <<>>,
                   !.finish = finish]
  BY DEF chcusb_endpage
<1>3. prn.now \in Nat /\ prn.wait \in Nat /\ prn.finish \in Nat /\ prn.pages \in Nat
  BY <1>1 DEF PrnState
<1>4. finish \in Nat /\ s \in Nat /\ PrnSecond \in Nat \ {0} /\ 0 \in 0..PrnSides
  BY <1>3, PrnSecondIs, PrnAssumption DEF PrnAssumption
<1>5. prn.wait >= PrnSecond => s + 1 <= PrnSecondOf(finish)
  <2>1. SUFFICES ASSUME prn.wait >= PrnSecond PROVE s + 1 <= PrnSecondOf(finish)
    OBVIOUS
  <2>2. prn.now + 1 * PrnSecond <= finish
    BY <1>3, <1>4, <2>1
  <2> HIDE DEF finish
  <2> QED
    BY <1>3, <1>4, <2>2, PrnSeconds2
<1>6. PrnSecondOf(finish) \in Nat
  BY <1>4, PrnSecondIs
<1> HIDE DEF finish, s
<1>7. prn' \in PrnState
  <2>1. <<>> \in PrnTook
    BY DEF PrnTook
  <2> QED
    BY <1>1, <1>2, <1>4, <2>1 DEF PrnState
<1>8. /\ prn'.now = prn.now /\ prn'.at = "wait" /\ prn'.finish = finish /\ prn'.side = 0
      /\ PrnSameCard(prn, prn') /\ PrnSameFiles(prn, prn') /\ prn'.took = <<>>
      /\ prn'.pending = prn.pending /\ prn'.readable = prn.readable
      /\ prn'.status = prn.status /\ prn'.pages = prn.pages /\ prn'.told = prn.told
  BY <1>1, <1>2 DEF PrnState, PrnSameFiles, PrnSameCard
<1>9. PrnReady(prn')
  BY <1>1, <1>2, <1>8 DEF PrnReady, PrnSameFiles
<1>10. PrnNames(prn')
  <2>1. ASSUME NEW f \in prn.files, prn.wait >= PrnSecond
        PROVE  f.page <= prn.pages /\ f.second + 1 <= PrnSecondOf(finish)
    <3>1. f.second \in Nat /\ f.page \in Nat
      BY <1>1 DEF PrnState, PrnImageType
    <3>2. /\ f.page <= prn.pages
          /\ f.page = prn.pages => f.second <= s
          /\ f.page < prn.pages => f.second + 1 <= s
      BY <1>1, <1>2, <2>1 DEF PrnNames, s
    <3> QED
      BY <1>3, <1>4, <1>5, <1>6, <2>1, <3>1, <3>2
  <2> QED
    BY <1>1, <1>8, <2>1 DEF PrnNames, PrnSameFiles
<1>11. PrnNumbers(prn')
  BY <1>1, <1>2, <1>8 DEF PrnNumbers, PrnPrinting, PrnSameFiles, PrnSameCard
<1>12. PrnBoard(prn') /\ PrnImages(prn')
  BY <1>1, <1>2, <1>8 DEF PrnBoard, PrnTaken, PrnImages, PrnSameFiles, PrnSameCard
<1> QED
  BY <1>7, <1>9, <1>10, <1>11, <1>12 DEF PrnInv, PrnGood

(* The print is over once the wait is, and it is reported once.            *)
LEMMA PrnStatusKeeps ==
  ASSUME PrnInv, chcusb_getPrintIDStatus
  PROVE  PrnInv'
<1>1. /\ prn \in PrnState /\ PrnReady(prn) /\ PrnNames(prn) /\ PrnNumbers(prn)
      /\ PrnBoard(prn) /\ PrnImages(prn)
  BY PrnParts
<1> DEFINE at == IF prn.model = "330" THEN "exit" ELSE "idle"
           told == prn.told + 1
           knows == IF prn.model = "330" THEN prn.knows ELSE PrnUnknown
<1>2. prn.at = "wait" /\ ~(prn.finish > 0 /\ prn.now < prn.finish)
  BY DEF chcusb_getPrintIDStatus, check_for_wait_time
<1>3. prn.status = 2 /\ prn.pages = told
  BY <1>1, <1>2 DEF PrnReady
<1>4. prn' = [prn EXCEPT !.at = at, !.told = told, !.status = 0, !.knows = knows]
  BY <1>3 DEF chcusb_getPrintIDStatus
<1>5. /\ prn.now \in Nat /\ prn.finish \in Nat /\ prn.told \in Nat /\ prn.pages \in Nat
      /\ prn.model \in {"300", "330"} /\ prn.knows \in PrnKnown
  BY <1>1 DEF PrnState
<1>6. /\ told \in Nat /\ PrnSecondOf(prn.now) \in Nat /\ PrnSecondOf(prn.finish) \in Nat
      /\ at \in {"exit", "idle"} /\ (prn.model = "330" <=> at = "exit")
      /\ knows \in {prn.knows, PrnUnknown} /\ knows \in PrnKnown
  <2>1. PrnSecondOf(prn.now) \in Nat /\ PrnSecondOf(prn.finish) \in Nat
    BY <1>5, PrnSecondIs
  <2> QED
    BY <1>5, <2>1 DEF PrnKnown
<1>7. ASSUME NEW f \in prn.files, prn.wait >= PrnSecond
      PROVE  f.page <= prn.pages /\ f.second + 1 <= PrnSecondOf(prn.now)
  <2>1. f.second \in Nat
    BY <1>1 DEF PrnState, PrnImageType
  <2>2. f.page <= prn.pages /\ f.second + 1 <= PrnSecondOf(prn.finish)
    BY <1>1, <1>2, <1>7 DEF PrnNames
  <2>3. prn.finish # 0
    <3>1. PrnSecondOf(0) = 0
      BY PrnAssumption DEF PrnSecondOf, PrnAssumption
    <3> QED
      BY <2>1, <2>2, <3>1
  <2>4. prn.finish + 0 * PrnSecond <= prn.now
    BY <1>2, <1>5, <2>3, PrnAssumption DEF PrnAssumption
  <2>5. PrnSecondOf(prn.finish) + 0 <= PrnSecondOf(prn.now)
    BY <1>5, <2>4, PrnSeconds2
  <2> QED
    BY <1>6, <2>1, <2>2, <2>5
<1> HIDE DEF at, told, knows
<1>8. prn' \in PrnState
  BY <1>1, <1>4, <1>6 DEF PrnState
<1>9. /\ prn'.now = prn.now /\ prn'.at = at /\ prn'.status = 0 /\ prn'.told = told
      /\ prn'.knows = knows /\ prn'.rfid = prn.rfid /\ prn'.data = prn.data
      /\ PrnSameFiles(prn, prn') /\ prn'.took = prn.took
      /\ prn'.pending = prn.pending /\ prn'.readable = prn.readable
      /\ prn'.side = prn.side /\ prn'.pages = prn.pages
  BY <1>1, <1>4 DEF PrnState, PrnSameFiles
<1>10. PrnReady(prn')
  BY <1>3, <1>5, <1>6, <1>9 DEF PrnReady, PrnSameFiles
<1>11. PrnNames(prn')
  <2>1. prn.side = 0
    BY <1>1, <1>2 DEF PrnNames
  <2> QED
    BY <1>1, <1>6, <1>7, <1>9, <2>1 DEF PrnNames, PrnSameFiles
<1>12. PrnNumbers(prn')
  BY <1>1, <1>2, <1>6, <1>9 DEF PrnNumbers, PrnPrinting, PrnSameFiles
<1>13. PrnBoard(prn') /\ PrnImages(prn')
  BY <1>1, <1>2, <1>6, <1>9 DEF PrnBoard, PrnTaken, PrnImages, PrnSameFiles
<1> QED
  BY <1>8, <1>10, <1>11, <1>12, <1>13 DEF PrnInv, PrnGood

(* The card that comes next has an RFID that no image has.                 *)
LEMMA PrnExitKeeps ==
  ASSUME PrnInv, chcusb_exitCard
  PROVE  PrnInv'
<1>1. /\ prn \in PrnState /\ PrnReady(prn) /\ PrnNames(prn) /\ PrnNumbers(prn)
      /\ PrnBoard(prn) /\ PrnImages(prn)
  BY PrnParts
<1> DEFINE rfid == <<prn.rfid[1], prn.rfid[2] + 1>>
<1>2. prn.at = "exit"
  BY DEF chcusb_exitCard
<1>3. prn' = [prn EXCEPT !.at = "idle", !.awaiting = FALSE, !.finish = 0,
                !.rfid = rfid, !.knows = PrnUnknown]
  BY DEF chcusb_exitCard, generate_rfid
<1>4. /\ rfid \in PrnRfid /\ rfid[1] = prn.rfid[1] /\ rfid[2] = prn.rfid[2] + 1
      /\ prn.rfid[1] \in Nat /\ prn.rfid[2] \in Nat
  BY <1>1 DEF PrnState, PrnRfid
<1> HIDE DEF rfid
<1>5. prn' \in PrnState
  BY <1>1, <1>3, <1>4 DEF PrnState, PrnKnown
<1>6. /\ prn'.now = prn.now /\ prn'.at = "idle" /\ prn'.status = prn.status
      /\ prn'.told = prn.told /\ prn'.awaiting = FALSE
      /\ prn'.knows = PrnUnknown /\ prn'.rfid = rfid /\ prn'.data = prn.data
      /\ PrnSameFiles(prn, prn') /\ prn'.took = prn.took
      /\ prn'.pending = prn.pending /\ prn'.readable = prn.readable
      /\ prn'.side = prn.side /\ prn'.pages = prn.pages
  BY <1>1, <1>3 DEF PrnState, PrnSameFiles
<1>7. PrnReady(prn')
  BY <1>1, <1>2, <1>6 DEF PrnReady, PrnSameFiles
<1>8. PrnNames(prn')
  BY <1>1, <1>2, <1>6 DEF PrnNames, PrnSameFiles
<1>9. PrnNumbers(prn')
  <2>1. ASSUME NEW f \in prn.files PROVE f.rfid[2] \in Nat
    BY <1>1 DEF PrnState, PrnImageType, PrnRfid
  <2>2. ASSUME NEW f \in prn.files, prn.wait >= PrnSecond, prn.model = "330",
               f.rfid[1] = rfid[1]
        PROVE  f.rfid[2] < rfid[2]
    <3>1. f.rfid = prn.rfid \/ f.rfid[2] < prn.rfid[2]
      BY <1>1, <1>4, <2>2 DEF PrnNumbers
    <3> QED
      BY <1>4, <2>1, <3>1
  <2> QED
    BY <1>1, <1>2, <1>4, <1>6, <2>2 DEF PrnNumbers, PrnPrinting, PrnSameFiles
<1>10. PrnBoard(prn') /\ PrnImages(prn')
  BY <1>1, <1>2, <1>6 DEF PrnBoard, PrnTaken, PrnImages, PrnSameFiles
<1> QED
  BY <1>5, <1>7, <1>8, <1>9, <1>10 DEF PrnInv, PrnGood

(* A block that is written to the card.                                    *)
LEMMA PrnWrittenIs ==
  ASSUME PrnInv, prn.at = "standby", PrnBoardIsQuiet, NEW x \in PrnData
  PROVE  PrnGood(PrnWritten(x))
<1>1. /\ prn \in PrnState /\ PrnReady(prn) /\ PrnNames(prn) /\ PrnNumbers(prn)
      /\ PrnBoard(prn) /\ PrnImages(prn)
  BY PrnParts
<1> DEFINE n == PrnWritten(x)
           knows == IF prn.knows = PrnUnknown THEN PrnUnknown ELSE PrnCard(prn.knows[1], x)
<1>2. n = [prn EXCEPT !.data = x, !.knows = knows]
  BY <1>1 DEF PrnWritten, PrnState
<1>3. prn.knows # PrnUnknown => prn.knows = PrnCard(prn.rfid, prn.data)
  BY <1>1 DEF PrnBoard
<1>4. knows = PrnUnknown \/ knows = PrnCard(prn.rfid, x)
  BY <1>3 DEF PrnCard
<1>5. knows \in PrnKnown
  <2>1. prn.rfid \in PrnRfid
    BY <1>1 DEF PrnState
  <2> QED
    BY <1>4, <2>1 DEF PrnKnown, PrnCard
<1> HIDE DEF knows, n
<1>6. n \in PrnState
  BY <1>1, <1>2, <1>5 DEF PrnState
<1>7. /\ n.now = prn.now /\ n.at = prn.at /\ n.status = prn.status
      /\ n.told = prn.told /\ n.awaiting = prn.awaiting
      /\ n.knows = knows /\ n.rfid = prn.rfid /\ n.data = x
      /\ PrnSameFiles(prn, n) /\ n.took = prn.took
      /\ n.pending = prn.pending /\ n.readable = prn.readable
      /\ n.side = prn.side /\ n.pages = prn.pages
  BY <1>1, <1>2 DEF PrnState, PrnSameFiles
<1>8. PrnReady(n)
  BY <1>1, <1>7 DEF PrnReady, PrnSameFiles
<1>9. PrnNames(n)
  BY <1>1, <1>7 DEF PrnNames, PrnSameFiles
<1>10. PrnNumbers(n)
  BY <1>1, <1>7 DEF PrnNumbers, PrnPrinting, PrnSameFiles
<1>11. PrnImages(n)
  BY <1>1, <1>7 DEF PrnImages, PrnSameFiles
<1>12. PrnBoard(n)
  <2>1. ~prn.pending /\ prn.readable = <<>> /\ PrnTaken(prn)
    BY <1>1 DEF PrnBoardIsQuiet, PrnBoard, PrnTaken
  <2> QED
    BY <1>4, <1>7, <2>1 DEF PrnBoard, PrnTaken
<1> QED
  BY <1>6, <1>8, <1>9, <1>10, <1>11, <1>12 DEF PrnGood, n

(* What the RFID board does in standby leaves the printer as it was.       *)
PrnSamePrinter(p, n) ==
  /\ n.now = p.now /\ n.at = p.at /\ n.status = p.status /\ n.told = p.told
  /\ n.awaiting = p.awaiting /\ n.rfid = p.rfid /\ n.data = p.data
  /\ PrnSameFiles(p, n) /\ n.side = p.side /\ n.pages = p.pages

(* The invariant of the printer when only the RFID board has done          *)
(* something.                                                              *)
LEMMA PrnBoardGood ==
  ASSUME NEW p, PrnGood(p), p.at = "standby", NEW n \in PrnState, PrnSamePrinter(p, n),
         PrnBoard(n)
  PROVE  PrnGood(n)
<1>1. PrnReady(p) /\ PrnNames(p) /\ PrnNumbers(p) /\ PrnImages(p)
  BY DEF PrnGood
<1>2. PrnReady(n)
  BY <1>1 DEF PrnReady, PrnSamePrinter, PrnSameFiles
<1>3. PrnNames(n)
  BY <1>1 DEF PrnNames, PrnSamePrinter, PrnSameFiles
<1>4. PrnNumbers(n)
  BY <1>1 DEF PrnNumbers, PrnPrinting, PrnSamePrinter, PrnSameFiles
<1>5. PrnImages(n)
  BY <1>1 DEF PrnImages, PrnSamePrinter, PrnSameFiles
<1> QED
  BY <1>2, <1>3, <1>4, <1>5 DEF PrnGood

(* An answer in an empty queue.                                            *)
LEMMA PrnAppends ==
  ASSUME NEW r \in PrnReplyType
  PROVE  /\ Append(<<>>, r) \in Seq(PrnReplyType) /\ Len(Append(<<>>, r)) = 1
         /\ Append(<<>>, r)[1] = r
  OBVIOUS

(* A reply is of the type of replies.                                      *)
LEMMA PrnReplies ==
  ASSUME NEW c \in {"WRITE", "START", "READ_DATA", "DATA", "END"}, NEW k \in PrnKnown
  PROVE  /\ PrnReply(c, k) \in PrnReplyType /\ PrnReply(c, k).cmd = c
         /\ PrnReply(c, k).card = k
  BY DEF PrnReply, PrnReplyType

(* A block is written through the DLL.                                     *)
LEMMA PrnDllKeeps ==
  ASSUME PrnInv, NEW x \in PrnData, chcusb_commCardRfidReader(x)
  PROVE  PrnInv'
  BY PrnWrittenIs DEF chcusb_commCardRfidReader, PrnInv

(* A block is written through the RFID board.                              *)
LEMMA PrnReqWriteKeeps ==
  ASSUME PrnInv, NEW x \in PrnData, deck_req_write(x)
  PROVE  PrnInv'
<1> DEFINE n == PrnWritten(x)
           r == PrnReply("WRITE", PrnUnknown)
<1>1. PrnGood(n) /\ prn.at = "standby" /\ PrnBoardIsQuiet
  BY PrnWrittenIs DEF deck_req_write
<1>2. prn' = [n EXCEPT !.readable = Append(@, r)]
  BY DEF deck_req_write
<1>3. n.at = "standby" /\ n.readable = <<>> /\ ~n.pending
  <2>1. prn \in PrnState
    BY PrnParts
  <2> QED
    BY <1>1, <2>1 DEF PrnWritten, PrnState, PrnBoardIsQuiet
<1>4. r \in PrnReplyType /\ r.cmd = "WRITE"
  BY PrnReplies DEF PrnKnown
<1> HIDE DEF n, r
<1> DEFINE q == Append(<<>>, r)
<1>5. q \in Seq(PrnReplyType) /\ Len(q) = 1 /\ q[1] = r
  BY <1>4, PrnAppends
<1>6. n \in PrnState /\ PrnBoard(n)
  BY <1>1 DEF PrnGood
<1>7. prn' = [n EXCEPT !.readable = q]
  BY <1>2, <1>3, <1>6 DEF PrnState
<1> HIDE DEF q
<1>8. prn' \in PrnState
  BY <1>5, <1>6, <1>7 DEF PrnState
<1>9. /\ PrnSamePrinter(n, prn') /\ prn'.readable = q /\ prn'.pending = n.pending
      /\ prn'.took = n.took /\ prn'.knows = n.knows
  BY <1>6, <1>7 DEF PrnState, PrnSamePrinter, PrnSameFiles
<1>10. PrnBoard(prn')
  BY <1>3, <1>4, <1>5, <1>6, <1>9 DEF PrnBoard, PrnTaken, PrnSamePrinter
<1> QED
  BY <1>1, <1>3, <1>8, <1>9, <1>10, PrnBoardGood DEF PrnInv

(* READ starts with the first part of the answer.                          *)
LEMMA PrnReqReadKeeps ==
  ASSUME PrnInv, deck_req_read
  PROVE  PrnInv'
<1> DEFINE r == PrnReply("START", PrnUnknown)
           q == Append(<<>>, r)
<1>1. r \in PrnReplyType /\ r.cmd = "START"
  BY PrnReplies DEF PrnKnown
<1> HIDE DEF r
<1>2. q \in Seq(PrnReplyType) /\ Len(q) = 1 /\ q[1] = r
  BY <1>1, PrnAppends
<1>3. prn \in PrnState /\ PrnBoard(prn)
  BY PrnParts
<1>4. /\ prn.at = "standby"
      /\ prn' = [prn EXCEPT !.idx = 0, !.pending = TRUE, !.took = <<>>, !.readable = q]
  BY <1>3 DEF deck_req_read, PrnBoardIsQuiet, PrnState, r
<1> HIDE DEF q
<1>5. prn' \in PrnState
  <2>1. <<>> \in PrnTook
    BY DEF PrnTook
  <2> QED
    BY <1>2, <1>3, <1>4, <2>1 DEF PrnState
<1>6. /\ PrnSamePrinter(prn, prn') /\ prn'.readable = q /\ prn'.pending = TRUE
      /\ prn'.took = <<>> /\ prn'.knows = prn.knows /\ prn'.idx = 0
  BY <1>3, <1>4 DEF PrnState, PrnSamePrinter, PrnSameFiles
<1>7. PrnBoard(prn')
  BY <1>1, <1>2, <1>3, <1>4, <1>6 DEF PrnBoard, PrnTaken, PrnSamePrinter
<1> QED
  BY <1>4, <1>5, <1>6, <1>7, PrnBoardGood DEF PrnInv

(* READ_DATA has one answer and leaves the card as it is.                  *)
LEMMA PrnReqDataKeeps ==
  ASSUME PrnInv, deck_req_read_data
  PROVE  PrnInv'
<1> DEFINE r == PrnReply("READ_DATA", PrnUnknown)
           q == Append(<<>>, r)
<1>1. r \in PrnReplyType /\ r.cmd = "READ_DATA"
  BY PrnReplies DEF PrnKnown
<1> HIDE DEF r
<1>2. q \in Seq(PrnReplyType) /\ Len(q) = 1 /\ q[1] = r
  BY <1>1, PrnAppends
<1>3. prn \in PrnState /\ PrnBoard(prn)
  BY PrnParts
<1>4. /\ prn.at = "standby" /\ ~prn.pending /\ prn.readable = <<>>
      /\ prn' = [prn EXCEPT !.readable = q]
  BY <1>3 DEF deck_req_read_data, PrnBoardIsQuiet, PrnState, r
<1> HIDE DEF q
<1>5. prn' \in PrnState
  BY <1>2, <1>3, <1>4 DEF PrnState
<1>6. /\ PrnSamePrinter(prn, prn') /\ prn'.readable = q /\ prn'.pending = prn.pending
      /\ prn'.took = prn.took /\ prn'.knows = prn.knows /\ prn'.idx = prn.idx
  BY <1>3, <1>4 DEF PrnState, PrnSamePrinter, PrnSameFiles
<1>7. PrnBoard(prn')
  BY <1>1, <1>2, <1>3, <1>4, <1>6 DEF PrnBoard, PrnTaken, PrnSamePrinter
<1> QED
  BY <1>4, <1>5, <1>6, <1>7, PrnBoardGood DEF PrnInv

(* The game takes the one reply there is, when it is a part of a card.     *)
LEMMA PrnTakesOne ==
  ASSUME NEW took, NEW replies, Len(replies) = 1
  PROVE  PrnTakes(took, replies) =
           IF replies[1].cmd \in {"START", "DATA", "END"}
           THEN Append(took, replies[1].cmd) ELSE took
<1> DEFINE Next(f) ==
             [i \in 0..1 |->
                IF i = 0 THEN took
                ELSE IF replies[i].cmd \in {"START", "DATA", "END"}
                     THEN Append(f[i - 1], replies[i].cmd) ELSE f[i - 1]]
           last == IF replies[1].cmd \in {"START", "DATA", "END"}
                   THEN Append(took, replies[1].cmd) ELSE took
           g == [i \in 0..1 |-> IF i = 0 THEN took ELSE last]
           h == CHOOSE f : f = Next(f)
<1>1. g = Next(g)
  <2>1. ASSUME NEW i \in 0..1 PROVE g[i] = Next(g)[i]
    <3>1. CASE i = 0
      BY <3>1
    <3>2. CASE i = 1
      <4>1. g[0] = took /\ i - 1 = 0 /\ i # 0
        BY <3>2
      <4> QED
        BY <3>2, <4>1
    <3> QED
      BY <3>1, <3>2
  <2> QED
    BY <2>1
<1>2. h = Next(h)
  BY <1>1
<1> HIDE DEF h
<1>3. h[0] = took
  BY <1>2
<1>4. h[1] = last
  <2>1. h[1] = Next(h)[1]
    BY <1>2
  <2>2. Next(h)[1] = IF replies[1].cmd \in {"START", "DATA", "END"}
                     THEN Append(h[0], replies[1].cmd) ELSE h[0]
    OBVIOUS
  <2> QED
    BY <1>3, <2>1, <2>2
<1>5. PrnTakes(took, replies) = h[1]
  BY DEF PrnTakes, h
<1> QED
  BY <1>4, <1>5

(* A part that is added to those before it.                                *)
LEMMA PrnAppendIs ==
  ASSUME NEW a, NEW b, NEW c
  PROVE  Append(<<>>, a) = <<a>> /\ Append(<<a>>, b) = <<a, b>>
         /\ Append(<<a, b>>, c) = <<a, b, c>>
<1> DEFINE S == {a, b, c}
           one == <<a>>
           two == <<a, b>>
           three == <<a, b, c>>
<1>1. one \in Seq(S) /\ Len(one) = 1 /\ one[1] = a
  OBVIOUS
<1>2. two \in Seq(S) /\ Len(two) = 2 /\ two[1] = a /\ two[2] = b
  OBVIOUS
<1>3. three \in Seq(S) /\ Len(three) = 3 /\ three[1] = a /\ three[2] = b /\ three[3] = c
  OBVIOUS
<1>4. Append(<<>>, a) = one
  OBVIOUS
<1>5. b \in S /\ c \in S
  OBVIOUS
<1> HIDE DEF one, two, three, S
<1>6. Append(one, b) = two
  <2> DEFINE q == Append(one, b)
  <2>1. q \in Seq(S) /\ Len(q) = 2 /\ q[1] = a /\ q[2] = b
    <3>1. /\ q \in Seq(S) /\ Len(q) = Len(one) + 1 /\ \A i \in 1..Len(one) : q[i] = one[i]
          /\ q[Len(one) + 1] = b
      <4>1. one \in Seq(S)
        BY <1>1
      <4> QED
        BY <4>1, <1>5
    <3> HIDE DEF q
    <3> QED
      BY <1>1, <1>5, <3>1
  <2> HIDE DEF q
  <2>2. \A i \in 1..Len(q) : q[i] = two[i]
    BY <1>2, <2>1
  <2>3. q = two
    BY <1>2, <2>1, <2>2, SeqEqual
  <2> QED
    BY <2>3 DEF q
<1>7. Append(two, c) = three
  <2> DEFINE q == Append(two, c)
  <2>1. q \in Seq(S) /\ Len(q) = 3 /\ q[1] = a /\ q[2] = b /\ q[3] = c
    <3>1. /\ q \in Seq(S) /\ Len(q) = Len(two) + 1 /\ \A i \in 1..Len(two) : q[i] = two[i]
          /\ q[Len(two) + 1] = c
      <4>1. two \in Seq(S)
        BY <1>2
      <4> QED
        BY <4>1, <1>5
    <3> HIDE DEF q
    <3> QED
      BY <1>2, <1>5, <3>1
  <2> HIDE DEF q
  <2>2. \A i \in 1..Len(q) : q[i] = three[i]
    BY <1>3, <2>1
  <2>3. q = three
    BY <1>3, <2>1, <2>2, SeqEqual
  <2> QED
    BY <2>3 DEF q
<1> QED
  BY <1>4, <1>6, <1>7 DEF one, two, three

(* The game takes the reply there is, and the next part of the card comes  *)
(* after it.                                                               *)
LEMMA PrnReadKeeps ==
  ASSUME PrnInv, PrnReads
  PROVE  PrnInv'
<1>1. prn \in PrnState /\ PrnBoard(prn) /\ PrnGood(prn)
  BY PrnParts DEF PrnInv
<1> DEFINE r == prn.readable[1]
           Cards == {x \in {prn.readable[i] : i \in 1..Len(prn.readable)} : x.cmd = "DATA"}
           knows == IF Cards = {} THEN prn.knows ELSE (CHOOSE x \in Cards : TRUE).card
           took == PrnTakes(prn.took, prn.readable)
           taken == [prn EXCEPT !.readable = <<>>, !.took = took, !.knows = knows]
<1>2. prn.at = "standby" /\ ~PrnBoardIsQuiet
  BY DEF PrnReads
<1>3. Len(prn.readable) = 1 /\ prn.readable \in Seq(PrnReplyType)
  BY <1>1, <1>2 DEF PrnBoard, PrnBoardIsQuiet, PrnState
<1>4. r \in PrnReplyType
  BY <1>3
<1>5. {prn.readable[i] : i \in 1..Len(prn.readable)} = {r}
  BY <1>3
<1>6. knows = IF r.cmd = "DATA" THEN r.card ELSE prn.knows
  <2>1. CASE r.cmd = "DATA"
    <3>1. Cards = {r}
      BY <1>5, <2>1
    <3> HIDE DEF Cards, r
    <3> QED
      BY <2>1, <3>1
  <2>2. CASE r.cmd # "DATA"
    <3>1. Cards = {}
      BY <1>5, <2>2
    <3> HIDE DEF Cards, r
    <3> QED
      BY <2>2, <3>1
  <2> QED
    BY <2>1, <2>2
<1>7. took = IF r.cmd \in {"START", "DATA", "END"} THEN Append(prn.took, r.cmd) ELSE prn.took
  BY <1>3, PrnTakesOne
<1>8. prn' = IF prn.pending THEN deck_read_one(taken) ELSE taken
  BY DEF PrnReads
<1>9. knows \in PrnKnown
  BY <1>1, <1>4, <1>6 DEF PrnState, PrnReplyType
<1>10. r.cmd = "DATA" => knows = PrnCard(prn.rfid, prn.data)
  BY <1>1, <1>2, <1>6 DEF PrnBoard, PrnBoardIsQuiet
<1>11. knows # PrnUnknown => knows = PrnCard(prn.rfid, prn.data)
  <2>1. prn.knows # PrnUnknown => prn.knows = PrnCard(prn.rfid, prn.data)
    BY <1>1 DEF PrnBoard
  <2> QED
    BY <1>6, <1>10, <2>1
<1> HIDE DEF Cards, knows
<1>12. \/ ~prn.pending /\ took \in {<<>>, <<"START", "DATA", "END">>}
       \/ prn.pending /\ prn.idx = 0 /\ took = <<"START">>
       \/ prn.pending /\ prn.idx = 1 /\ took = <<"START", "DATA">>
  <2>1. \/ ~prn.pending /\ PrnTaken(prn) /\ r.cmd \in {"WRITE", "READ_DATA"}
        \/ prn.pending /\ prn.idx = 0 /\ prn.took = <<>> /\ r.cmd = "START"
        \/ prn.pending /\ prn.idx = 1 /\ prn.took = <<"START">> /\ r.cmd = "DATA"
        \/ ~prn.pending /\ prn.took = <<"START", "DATA">> /\ r.cmd = "END"
    BY <1>1, <1>2 DEF PrnBoard, PrnBoardIsQuiet
  <2>2. /\ Append(<<>>, "START") = <<"START">>
        /\ Append(<<"START">>, "DATA") = <<"START", "DATA">>
        /\ Append(<<"START", "DATA">>, "END") = <<"START", "DATA", "END">>
    BY PrnAppendIs
  <2> HIDE DEF took, r
  <2>3. CASE ~prn.pending /\ PrnTaken(prn) /\ r.cmd \in {"WRITE", "READ_DATA"}
    <3>1. took = prn.took
      BY <1>7, <2>3
    <3> QED
      BY <2>3, <3>1 DEF PrnTaken
  <2>4. CASE prn.pending /\ prn.idx = 0 /\ prn.took = <<>> /\ r.cmd = "START"
    <3>1. took = Append(<<>>, "START")
      BY <1>7, <2>4
    <3> QED
      BY <2>2, <2>4, <3>1
  <2>5. CASE prn.pending /\ prn.idx = 1 /\ prn.took = <<"START">> /\ r.cmd = "DATA"
    <3>1. took = Append(<<"START">>, "DATA")
      BY <1>7, <2>5
    <3> QED
      BY <2>2, <2>5, <3>1
  <2>6. CASE ~prn.pending /\ prn.took = <<"START", "DATA">> /\ r.cmd = "END"
    <3>1. took = Append(<<"START", "DATA">>, "END")
      BY <1>7, <2>6
    <3> QED
      BY <2>2, <2>6, <3>1
  <2> QED
    BY <2>1, <2>3, <2>4, <2>5, <2>6
<1>13. took \in PrnTook
  <2> HIDE DEF took
  <2> QED
    BY <1>12 DEF PrnTook
<1> HIDE DEF took
<1>14. <<>> \in Seq(PrnReplyType)
  OBVIOUS
<1>15. taken \in PrnState
  BY <1>1, <1>9, <1>13, <1>14 DEF PrnState
<1>16. /\ PrnSamePrinter(prn, taken) /\ taken.took = took /\ taken.knows = knows
       /\ taken.idx = prn.idx /\ taken.pending = prn.pending /\ taken.readable = <<>>
  BY <1>1 DEF PrnSamePrinter, PrnSameFiles, PrnState
<1> HIDE DEF taken
<1>17. PrnUnknown \in PrnKnown /\ PrnCard(prn.rfid, prn.data) \in PrnKnown
  BY <1>1 DEF PrnKnown, PrnCard, PrnState
<1>18. CASE ~prn.pending
  <2>1. prn' = taken
    BY <1>8, <1>18
  <2>2. PrnBoard(taken)
    BY <1>11, <1>12, <1>16, <1>18 DEF PrnBoard, PrnTaken, PrnSamePrinter
  <2>3. PrnGood(taken)
    BY <1>1, <1>2, <1>15, <1>16, <2>2, PrnBoardGood
  <2> QED
    BY <2>1, <2>3 DEF PrnInv
<1>19. CASE prn.pending /\ prn.idx = 0
  <2> DEFINE x == PrnReply("DATA", PrnCard(prn.rfid, prn.data))
             q == Append(<<>>, x)
  <2>1. x \in PrnReplyType /\ x.cmd = "DATA" /\ x.card = PrnCard(prn.rfid, prn.data)
    BY <1>17, PrnReplies
  <2>2. prn' = [taken EXCEPT !.idx = 1, !.readable = q]
    <3>1. taken.rfid = prn.rfid /\ taken.data = prn.data
      BY <1>16 DEF PrnSamePrinter
    <3> QED
      BY <1>8, <1>15, <1>16, <1>19, <3>1 DEF deck_read_one, PrnState
  <2> HIDE DEF x
  <2>3. q \in Seq(PrnReplyType) /\ Len(q) = 1 /\ q[1] = x
    BY <2>1, PrnAppends
  <2> HIDE DEF q
  <2>4. prn' \in PrnState
    BY <1>15, <2>2, <2>3 DEF PrnState
  <2>5. /\ PrnSamePrinter(prn, prn') /\ prn'.took = took /\ prn'.knows = knows
        /\ prn'.idx = 1 /\ prn'.pending = TRUE /\ prn'.readable = q
    BY <1>15, <1>16, <1>19, <2>2 DEF PrnSamePrinter, PrnSameFiles, PrnState
  <2>6. took = <<"START">>
    BY <1>12, <1>19
  <2>7. PrnBoard(prn')
    BY <1>2, <1>11, <2>1, <2>3, <2>5, <2>6 DEF PrnBoard, PrnSamePrinter
  <2>8. PrnGood(prn')
    BY <1>1, <1>2, <2>4, <2>5, <2>7, PrnBoardGood
  <2> QED
    BY <2>8 DEF PrnInv
<1>20. CASE prn.pending /\ prn.idx = 1
  <2> DEFINE x == PrnReply("END", PrnUnknown)
             q == Append(<<>>, x)
  <2>1. x \in PrnReplyType /\ x.cmd = "END"
    BY <1>17, PrnReplies
  <2>2. prn' = [taken EXCEPT !.pending = FALSE, !.readable = q]
    BY <1>8, <1>15, <1>16, <1>20 DEF deck_read_one, PrnState
  <2> HIDE DEF x
  <2>3. q \in Seq(PrnReplyType) /\ Len(q) = 1 /\ q[1] = x
    BY <2>1, PrnAppends
  <2> HIDE DEF q
  <2>4. prn' \in PrnState
    BY <1>15, <2>2, <2>3 DEF PrnState
  <2>5. /\ PrnSamePrinter(prn, prn') /\ prn'.took = took /\ prn'.knows = knows
        /\ prn'.pending = FALSE /\ prn'.readable = q
    BY <1>15, <1>16, <2>2 DEF PrnSamePrinter, PrnSameFiles, PrnState
  <2>6. took = <<"START", "DATA">>
    BY <1>12, <1>20
  <2>7. PrnBoard(prn')
    BY <1>2, <1>11, <2>1, <2>3, <2>5, <2>6 DEF PrnBoard, PrnSamePrinter
  <2>8. PrnGood(prn')
    BY <1>1, <1>2, <2>4, <2>5, <2>7, PrnBoardGood
  <2> QED
    BY <2>8 DEF PrnInv
<1> QED
  BY <1>12, <1>18, <1>19, <1>20

(* The invariant holds at first.                                           *)
LEMMA PrnInitGood ==
  ASSUME PrnInit
  PROVE  PrnInv
<1>1. PICK mo \in PrnModels, w \in PrnWaits, x \in PrnData :
        prn = [model |-> mo, wait |-> w, now |-> 0, status |-> 0, awaiting |-> FALSE,
           finish |-> 0, side |-> 0, rfid |-> <<0, 0>>, data |-> x, idx |-> 0,
           pending |-> FALSE, readable |-> <<>>, at |-> "closed", files |-> {},
           pages |-> 0, images |-> 0, told |-> 0, knows |-> PrnUnknown, took |-> <<>>,
           opens |-> 0]
  BY DEF PrnInit
<1>2. mo \in {"300", "330"} /\ w \in Nat /\ 0 \in 0..PrnSides
  BY PrnAssumption DEF PrnAssumption
<1>3. <<>> \in Seq(PrnReplyType) /\ <<>> \in PrnTook /\ {} \subseteq PrnImageType
  BY DEF PrnTook
<1>4. PrnUnknown \in PrnKnown /\ <<0, 0>> \in PrnRfid
  BY DEF PrnKnown, PrnRfid
<1>5. prn \in PrnState
  BY <1>1, <1>2, <1>3, <1>4 DEF PrnState
<1>6. /\ prn.at = "closed" /\ prn.status = 0 /\ prn.pages = 0 /\ prn.told = 0
      /\ prn.awaiting = FALSE /\ prn.side = 0 /\ prn.files = {} /\ prn.images = 0
      /\ prn.rfid = <<0, 0>> /\ prn.now = 0 /\ prn.readable = <<>> /\ prn.pending = FALSE
      /\ prn.took = <<>> /\ prn.knows = PrnUnknown
  BY <1>1
<1>7. PrnReady(prn)
  BY <1>6 DEF PrnReady
<1>8. PrnNames(prn)
  BY <1>6, FS_EmptySet DEF PrnNames
<1>9. PrnNumbers(prn)
  <2>1. PrnSecondOf(0) \in Nat
    BY PrnSecondIs
  <2>2. prn.rfid[1] = 0
    BY <1>6
  <2> QED
    BY <1>6, <2>1, <2>2 DEF PrnNumbers
<1>10. PrnBoard(prn) /\ PrnImages(prn)
  BY <1>6 DEF PrnBoard, PrnTaken, PrnImages
<1> QED
  BY <1>5, <1>7, <1>8, <1>9, <1>10 DEF PrnInv, PrnGood

(* Every step of the printer and of the game keeps the invariant.          *)
LEMMA PrnStepKeeps ==
  PrnInv /\ [PrnNext]_prn => PrnInv'
<1> SUFFICES ASSUME PrnInv, [PrnNext]_prn PROVE PrnInv'
  OBVIOUS
<1>1. CASE PrnTick
  BY <1>1, PrnTickKeeps
<1>2. CASE chcusb_open
  BY <1>2, PrnOpenKeeps
<1>3. CASE chcusb_setPrintStandby \/ chcusb_setPrintStandby_300
  BY <1>3, PrnStandbyKeeps
<1>4. CASE chcusb_startpage
  BY <1>4, PrnStartKeeps
<1>5. CASE chcusb_write
  BY <1>5, PrnWriteKeeps
<1>6. CASE chcusb_endpage
  BY <1>6, PrnEndKeeps
<1>7. CASE chcusb_getPrintIDStatus
  BY <1>7, PrnStatusKeeps
<1>8. CASE chcusb_exitCard
  BY <1>8, PrnExitKeeps
<1>9. CASE deck_req_read
  BY <1>9, PrnReqReadKeeps
<1>10. CASE deck_req_read_data
  BY <1>10, PrnReqDataKeeps
<1>11. CASE PrnReads
  BY <1>11, PrnReadKeeps
<1>12. ASSUME NEW x \in PrnData, chcusb_commCardRfidReader(x) \/ deck_req_write(x)
       PROVE  PrnInv'
  BY <1>12, PrnDllKeeps, PrnReqWriteKeeps
<1>13. CASE UNCHANGED prn
  BY <1>13 DEF PrnInv
<1> QED
  BY <1>1, <1>2, <1>3, <1>4, <1>5, <1>6, <1>7, <1>8, <1>9, <1>10, <1>11, <1>12, <1>13
     DEF PrnNext

(* The invariant gives what the printer promises.                          *)
LEMMA PrnInvGives ==
  ASSUME PrnInv
  PROVE  PrnIsRight
<1>1. /\ prn \in PrnState /\ PrnReady(prn) /\ PrnNames(prn) /\ PrnNumbers(prn)
      /\ PrnBoard(prn) /\ PrnImages(prn)
  BY PrnParts
<1>2. PrnTypeOK
  <2>1. prn.told \in 0..prn.pages
    <3>1. prn.told \in Nat /\ prn.pages \in Nat
      BY <1>1 DEF PrnState
    <3>2. prn.pages = prn.told \/ prn.pages = prn.told + 1
      BY <1>1 DEF PrnReady
    <3> QED
      BY <3>1, <3>2
  <2>2. prn.status \in 0..2 /\ prn.idx \in 0..1
    <3>1. prn.status \in {0, 1, 2} /\ prn.idx \in {0, 1}
      BY <1>1 DEF PrnState
    <3> QED
      BY <3>1
  <2>3. Len(prn.readable) <= 1
    <3>1. prn.readable = <<>> \/ Len(prn.readable) = 1
      BY <1>1 DEF PrnBoard
    <3>2. CASE prn.readable = <<>>
      <4>1. Len(prn.readable) = 0
        BY <3>2
      <4> QED
        BY <4>1
    <3>3. CASE Len(prn.readable) = 1
      BY <3>3
    <3> QED
      BY <3>1, <3>2, <3>3
  <2>4. /\ prn.awaiting \in BOOLEAN /\ prn.side \in 0..PrnSides /\ prn.pending \in BOOLEAN
        /\ prn.at \in {"closed", "idle", "standby", "page", "wait", "exit"}
    BY <1>1 DEF PrnState
  <2> QED
    BY <2>1, <2>2, <2>3, <2>4 DEF PrnTypeOK
<1>3. PrnGetsReady
  BY <1>1 DEF PrnGetsReady, PrnReady, PrnInfo
<1>4. PrnFilesAreKept
  BY <1>1 DEF PrnFilesAreKept, PrnNames
<1>5. PrnCardsDiffer
  BY <1>1 DEF PrnCardsDiffer, PrnNumbers
<1>6. PrnImageIsOfCard
  <2>1. prn.at = "page" => PrnTaken(prn)
    BY <1>1 DEF PrnBoard, PrnTaken
  <2> QED
    BY <1>1, <2>1 DEF PrnImageIsOfCard, PrnImages, PrnTaken
<1> QED
  BY <1>2, <1>3, <1>4, <1>5, <1>6 DEF PrnIsRight

(* The C300 to C330: a print leaves the printer ready for the next, with a *)
(* wait of a second or more no image is written over and no two cards of a *)
(* C330 have the same RFID, and an image names the card that its data is   *)
(* of, for any waits, ticks of a second, sides and calls of the game.      *)
THEOREM PrintsAreRight == PrnSpec => []PrnIsRight
<1>1. PrnInit => PrnInv
  BY PrnInitGood
<1>2. PrnInv => PrnIsRight
  BY PrnInvGives
<1> QED
  BY <1>1, <1>2, PrnStepKeeps, PTL DEF PrnSpec

-----------------------------------------------------------------------------
(* The escapes of the LED output: for all data.                            *)

(* The bytes that stand for one of the data.                               *)
LedStands(d) ==
  IF d \in {LedFraming, LedEscape} THEN <<LedEscape, d - 1>> ELSE <<d>>

(* The definition of LedEscaped, as a function of itself.                  *)
LedEscapedNext(data, f) ==
  [n \in 0..Len(data) |-> IF n = 0 THEN <<>> ELSE f[n - 1] \o LedStands(data[n])]

(* The definition of LedUnescaped, as a function of itself.                *)
LedUnescapedNext(data, f) ==
  [n \in 0..Len(data) |-> IF n = 0 THEN [out |-> <<>>, escape |-> FALSE]
                          ELSE LedTakes(f[n - 1], data[n])]

(* LedEscaped is the function it is defined to be.                         *)
LEMMA LedEscapedExists ==
  ASSUME NEW data, Len(data) \in Nat
  PROVE  \A n \in 0..Len(data) : LedEscaped(data)[n] =
           (IF n = 0 THEN <<>> ELSE LedEscaped(data)[n - 1] \o LedStands(data[n]))
<1> DEFINE Up(n, f) == \A i \in 0..n :
                         f[i] = (IF i = 0 THEN <<>> ELSE f[i - 1] \o LedStands(data[i]))
           Bad == {n \in 0..Len(data) : ~\E f : f = [i \in 0..n |-> f[i]] /\ Up(n, f)}
<1>1. Bad = {}
  <2> SUFFICES ASSUME Bad # {} PROVE FALSE
    OBVIOUS
  <2>1. Bad \in SUBSET Nat
    OBVIOUS
  <2>2. PICK n \in Bad : \A m \in Bad : n <= m
    BY <2>1, LeastExists
  <2>3. n \in 0..Len(data) /\ n \in Nat /\ Len(data) \in Nat
    BY <2>2
  <2>4. CASE n = 0
    <3> DEFINE f == [i \in 0..0 |-> <<>>]
    <3>1. f = [i \in 0..n |-> f[i]] /\ Up(n, f)
      BY <2>4
    <3> QED
      BY <2>2, <3>1
  <2>5. CASE n # 0
    <3>1. n - 1 \in 0..Len(data) /\ n - 1 \notin Bad
      <4>1. n - 1 \in 0..Len(data) /\ ~(n <= n - 1)
        BY <2>3, <2>5
      <4> QED
        BY <2>2, <4>1
    <3>2. PICK f : f = [i \in 0..(n - 1) |-> f[i]] /\ Up(n - 1, f)
      BY <3>1
    <3> DEFINE g == [i \in 0..n |-> IF i = n THEN f[n - 1] \o LedStands(data[n]) ELSE f[i]]
    <3>3. g = [i \in 0..n |-> g[i]]
      OBVIOUS
    <3>4. ASSUME NEW i \in 0..n
          PROVE  g[i] = (IF i = 0 THEN <<>> ELSE g[i - 1] \o LedStands(data[i]))
      <4>1. CASE i = n
        <5>1. i - 1 \in 0..n /\ i - 1 # n /\ i # 0
          BY <4>1, <2>3, <2>5
        <5>2. g[i - 1] = f[i - 1]
          BY <5>1
        <5> QED
          BY <4>1, <5>1, <5>2
      <4>2. CASE i # n
        <5>1. i \in 0..(n - 1) /\ (i # 0 => i - 1 \in 0..n /\ i - 1 # n)
          BY <4>2, <2>3
        <5>2. g[i] = f[i] /\ (i # 0 => g[i - 1] = f[i - 1])
          BY <4>2, <5>1
        <5>3. f[i] = (IF i = 0 THEN <<>> ELSE f[i - 1] \o LedStands(data[i]))
          BY <3>2, <5>1
        <5> QED
          BY <5>2, <5>3
      <4> QED
        BY <4>1, <4>2
    <3> HIDE DEF g
    <3>5. Up(n, g)
      BY <3>4
    <3> QED
      BY <2>2, <3>3, <3>5
  <2> QED
    BY <2>4, <2>5
<1>2. PICK f : f = [i \in 0..Len(data) |-> f[i]] /\ Up(Len(data), f)
  <2>1. Len(data) \in 0..Len(data)
    OBVIOUS
  <2> QED
    BY <1>1, <2>1
<1>3. f = LedEscapedNext(data, f)
  BY <1>2 DEF LedEscapedNext
<1> DEFINE h == CHOOSE g : g = LedEscapedNext(data, g)
<1>4. h = LedEscapedNext(data, h)
  BY <1>3
<1>5. LedEscaped(data) = h
  BY DEF LedEscaped, LedEscapedNext, LedStands
<1> HIDE DEF h
<1> QED
  BY <1>4, <1>5 DEF LedEscapedNext

(* LedUnescaped is the function it is defined to be.                       *)
LEMMA LedUnescapedExists ==
  ASSUME NEW data, Len(data) \in Nat
  PROVE  \A n \in 0..Len(data) : LedUnescaped(data)[n] =
           (IF n = 0 THEN [out |-> <<>>, escape |-> FALSE]
            ELSE LedTakes(LedUnescaped(data)[n - 1], data[n]))
<1> DEFINE none == [out |-> <<>>, escape |-> FALSE]
           Up(n, f) == \A i \in 0..n :
                         f[i] = (IF i = 0 THEN none ELSE LedTakes(f[i - 1], data[i]))
           Bad == {n \in 0..Len(data) : ~\E f : f = [i \in 0..n |-> f[i]] /\ Up(n, f)}
<1> HIDE DEF none
<1>1. Bad = {}
  <2> SUFFICES ASSUME Bad # {} PROVE FALSE
    OBVIOUS
  <2>1. Bad \in SUBSET Nat
    OBVIOUS
  <2>2. PICK n \in Bad : \A m \in Bad : n <= m
    BY <2>1, LeastExists
  <2>3. n \in 0..Len(data) /\ n \in Nat /\ Len(data) \in Nat
    BY <2>2
  <2>4. CASE n = 0
    <3> DEFINE f == [i \in 0..0 |-> none]
    <3>1. f = [i \in 0..n |-> f[i]] /\ Up(n, f)
      BY <2>4
    <3> QED
      BY <2>2, <3>1
  <2>5. CASE n # 0
    <3>1. n - 1 \in 0..Len(data) /\ n - 1 \notin Bad
      <4>1. n - 1 \in 0..Len(data) /\ ~(n <= n - 1)
        BY <2>3, <2>5
      <4> QED
        BY <2>2, <4>1
    <3>2. PICK f : f = [i \in 0..(n - 1) |-> f[i]] /\ Up(n - 1, f)
      BY <3>1
    <3> DEFINE g == [i \in 0..n |-> IF i = n THEN LedTakes(f[n - 1], data[n]) ELSE f[i]]
    <3>3. g = [i \in 0..n |-> g[i]]
      OBVIOUS
    <3>4. ASSUME NEW i \in 0..n
          PROVE  g[i] = (IF i = 0 THEN none ELSE LedTakes(g[i - 1], data[i]))
      <4>1. CASE i = n
        <5>1. i - 1 \in 0..n /\ i - 1 # n /\ i # 0
          BY <4>1, <2>3, <2>5
        <5>2. g[i - 1] = f[i - 1]
          BY <5>1
        <5> QED
          BY <4>1, <5>1, <5>2
      <4>2. CASE i # n
        <5>1. i \in 0..(n - 1) /\ (i # 0 => i - 1 \in 0..n /\ i - 1 # n)
          BY <4>2, <2>3
        <5>2. g[i] = f[i] /\ (i # 0 => g[i - 1] = f[i - 1])
          BY <4>2, <5>1
        <5>3. f[i] = (IF i = 0 THEN none ELSE LedTakes(f[i - 1], data[i]))
          BY <3>2, <5>1
        <5> QED
          BY <5>2, <5>3
      <4> QED
        BY <4>1, <4>2
    <3> HIDE DEF g
    <3>5. Up(n, g)
      BY <3>4
    <3> QED
      BY <2>2, <3>3, <3>5
  <2> QED
    BY <2>4, <2>5
<1>2. PICK f : f = [i \in 0..Len(data) |-> f[i]] /\ Up(Len(data), f)
  <2>1. Len(data) \in 0..Len(data)
    OBVIOUS
  <2> QED
    BY <1>1, <2>1
<1>3. f = LedUnescapedNext(data, f)
  BY <1>2 DEF LedUnescapedNext, none
<1> DEFINE h == CHOOSE g : g = LedUnescapedNext(data, g)
<1>4. h = LedUnescapedNext(data, h)
  BY <1>3
<1>5. LedUnescaped(data) = h
  BY DEF LedUnescaped, LedUnescapedNext
<1> HIDE DEF h
<1> QED
  BY <1>4, <1>5 DEF LedUnescapedNext, none

(* What a client makes of the first bytes does not depend on the others.   *)
LEMMA LedTakesInOrder ==
  ASSUME NEW s \in Seq(Int), NEW t \in Seq(Int)
  PROVE  \A i \in 0..Len(s) : LedUnescaped(s \o t)[i] = LedUnescaped(s)[i]
<1> DEFINE u == LedUnescaped(s \o t)
           v == LedUnescaped(s)
           Bad == {i \in 0..Len(s) : u[i] # v[i]}
<1>1. /\ Len(s) \in Nat /\ Len(t) \in Nat /\ Len(s \o t) = Len(s) + Len(t)
      /\ \A i \in 1..Len(s) : (s \o t)[i] = s[i]
  BY ConcatProperties, LenProperties
<1>2. \A i \in 0..(Len(s) + Len(t)) :
        u[i] = (IF i = 0 THEN [out |-> <<>>, escape |-> FALSE]
                ELSE LedTakes(u[i - 1], (s \o t)[i]))
  <2>1. Len(s \o t) \in Nat
    BY <1>1
  <2> QED
    BY <1>1, <2>1, LedUnescapedExists
<1>3. \A i \in 0..Len(s) :
        v[i] = (IF i = 0 THEN [out |-> <<>>, escape |-> FALSE] ELSE LedTakes(v[i - 1], s[i]))
  BY <1>1, LedUnescapedExists
<1> HIDE DEF u, v
<1>4. Bad = {}
  <2> SUFFICES ASSUME Bad # {} PROVE FALSE
    OBVIOUS
  <2>1. Bad \in SUBSET Nat
    BY <1>1
  <2>2. PICK i \in Bad : \A m \in Bad : i <= m
    BY <2>1, LeastExists
  <2>3. i \in 0..Len(s) /\ i \in 0..(Len(s) + Len(t)) /\ i \in Nat
    BY <1>1, <2>2
  <2>4. CASE i = 0
    BY <1>2, <1>3, <2>2, <2>3, <2>4
  <2>5. CASE i # 0
    <3>1. i - 1 \in 0..Len(s) /\ ~(i <= i - 1) /\ i \in 1..Len(s)
      BY <1>1, <2>3, <2>5
    <3>2. u[i - 1] = v[i - 1]
      BY <2>2, <3>1
    <3>3. u[i] = LedTakes(u[i - 1], s[i]) /\ v[i] = LedTakes(v[i - 1], s[i])
      BY <1>1, <1>2, <1>3, <2>3, <2>5, <3>1
    <3> QED
      BY <2>2, <3>2, <3>3
  <2> QED
    BY <2>4, <2>5
<1> QED
  BY <1>4 DEF u, v

(* The bytes that stand for one: no framing, and a client takes it.        *)
LEMMA LedOneStands ==
  ASSUME NEW d \in Nat
  PROVE  /\ LedStands(d) \in Seq(Int)
         /\ \A i \in 1..Len(LedStands(d)) : LedStands(d)[i] # LedFraming
         /\ \/ /\ Len(LedStands(d)) = 1 /\ LedStands(d)[1] = d /\ d # LedEscape
            \/ /\ Len(LedStands(d)) = 2
               /\ LedStands(d)[1] = LedEscape /\ LedStands(d)[2] = d - 1
<1>1. CASE d \in {LedFraming, LedEscape}
  <2>1. LedStands(d) = <<LedEscape, d - 1>> /\ d - 1 \in Int /\ LedEscape \in Int
    BY <1>1, LedAssumption DEF LedAssumption, LedStands
  <2>2. d - 1 # LedFraming /\ LedEscape # LedFraming
    BY <1>1, LedAssumption DEF LedAssumption
  <2> QED
    BY <2>1, <2>2
<1>2. CASE d \notin {LedFraming, LedEscape}
  BY <1>2 DEF LedStands
<1> QED
  BY <1>1, <1>2

(* So with all of the data: a client that has taken the bytes of the first *)
(* n has these n, and is not in the middle of one.                         *)
LedComesOut(data, n) ==
  LET s == LedEscaped(data)[n]
  IN  /\ s \in Seq(Int)
      /\ \A i \in 1..Len(s) : s[i] # LedFraming
      /\ LedUnescaped(s)[Len(s)] = [out |-> SubSeq(data, 1, n), escape |-> FALSE]

(* One more of the data comes out too.                                     *)
LEMMA LedComesOutNext ==
  ASSUME NEW data \in Seq(Nat), NEW n \in 1..Len(data), LedComesOut(data, n - 1)
  PROVE  LedComesOut(data, n)
<1> DEFINE s == LedEscaped(data)[n - 1]
           d == data[n]
           t == LedStands(d)
           u == LedUnescaped(s \o t)
<1>1. Len(data) \in Nat /\ n \in Nat /\ n - 1 \in Nat /\ n # 0 /\ d \in Nat
  BY LenProperties, ElementOfSeq
<1>2. LedEscaped(data)[n] = s \o t
  <2>1. n \in 0..Len(data)
    BY <1>1
  <2> QED
    BY <1>1, <2>1, LedEscapedExists
<1>3. /\ s \in Seq(Int) /\ \A i \in 1..Len(s) : s[i] # LedFraming
      /\ LedUnescaped(s)[Len(s)] = [out |-> SubSeq(data, 1, n - 1), escape |-> FALSE]
  BY DEF LedComesOut
<1>4. /\ t \in Seq(Int) /\ \A i \in 1..Len(t) : t[i] # LedFraming
      /\ \/ Len(t) = 1 /\ t[1] = d /\ d # LedEscape
         \/ Len(t) = 2 /\ t[1] = LedEscape /\ t[2] = d - 1
  BY <1>1, LedOneStands
<1> HIDE DEF s, t, d
<1>5. /\ s \o t \in Seq(Int) /\ Len(s \o t) = Len(s) + Len(t) /\ Len(s) \in Nat
      /\ \A i \in 1..Len(s) : (s \o t)[i] = s[i]
      /\ \A i \in 1..Len(t) : (s \o t)[Len(s) + i] = t[i]
  <2>1. s \o t \in Seq(Int) /\ Len(s \o t) = Len(s) + Len(t)
        /\ \A i \in 1..(Len(s) + Len(t)) :
             (s \o t)[i] = (IF i <= Len(s) THEN s[i] ELSE t[i - Len(s)])
    BY <1>3, <1>4, ConcatProperties
  <2>2. Len(s) \in Nat /\ Len(t) \in Nat
    BY <1>3, <1>4, LenProperties
  <2>3. ASSUME NEW i \in 1..Len(t) PROVE (s \o t)[Len(s) + i] = t[i]
    <3>1. /\ Len(s) + i \in 1..(Len(s) + Len(t)) /\ ~(Len(s) + i <= Len(s))
          /\ (Len(s) + i) - Len(s) = i
      BY <2>2
    <3> QED
      BY <2>1, <3>1
  <2>4. ASSUME NEW i \in 1..Len(s) PROVE (s \o t)[i] = s[i]
    <3>1. i \in 1..(Len(s) + Len(t)) /\ i <= Len(s)
      BY <2>2
    <3> QED
      BY <2>1, <3>1
  <2> QED
    BY <2>1, <2>2, <2>3, <2>4
<1>6. ASSUME NEW i \in 1..Len(s \o t) PROVE (s \o t)[i] # LedFraming
  <2>1. CASE i \in 1..Len(s)
    BY <1>3, <1>5, <2>1
  <2>2. CASE i \notin 1..Len(s)
    <3>1. i - Len(s) \in 1..Len(t) /\ Len(s) + (i - Len(s)) = i
      BY <1>4, <1>5, <2>2, LenProperties
    <3> QED
      BY <1>4, <1>5, <3>1
  <2> QED
    BY <2>1, <2>2
<1>7. u[Len(s)] = [out |-> SubSeq(data, 1, n - 1), escape |-> FALSE]
  <2>1. Len(s) \in 0..Len(s)
    BY <1>5
  <2> QED
    BY <1>3, <1>4, <2>1, LedTakesInOrder
<1>8. \A i \in 1..Len(t) : u[Len(s) + i] = LedTakes(u[Len(s) + i - 1], t[i])
  <2>1. ASSUME NEW i \in 1..Len(t)
        PROVE  u[Len(s) + i] = LedTakes(u[Len(s) + i - 1], t[i])
    <3> DEFINE all == s \o t
               k == Len(s) + i
    <3>1. k \in 0..Len(all) /\ k # 0 /\ Len(all) \in Nat /\ all[k] = t[i]
      <4>1. Len(t) \in Nat
        BY <1>4, LenProperties
      <4>2. all[k] = t[i]
        BY ONLY <1>5, i \in 1..Len(t)
      <4>3. Len(all) = Len(s) + Len(t)
        BY ONLY <1>5
      <4> HIDE DEF all
      <4>4. k \in 0..Len(all) /\ k # 0 /\ Len(all) \in Nat
        BY ONLY <1>5, <4>1, <4>3, i \in 1..Len(t)
      <4> QED
        BY ONLY <4>2, <4>4
    <3>2. u = LedUnescaped(all)
      OBVIOUS
    <3> HIDE DEF all, k, u
    <3>3. u[k] = LedTakes(u[k - 1], all[k])
      BY <3>1, <3>2, LedUnescapedExists
    <3> QED
      BY <3>1, <3>3 DEF k
  <2> QED
    BY <2>1
<1> HIDE DEF u
<1>9. Append(SubSeq(data, 1, n - 1), d) = SubSeq(data, 1, n)
  <2>1. SubSeq(data, 1, n) = Append(SubSeq(data, 1, n - 1), data[n])
    BY SubSeqRecursiveSecond
  <2> QED
    BY <2>1 DEF d
<1>10. u[Len(s \o t)] = [out |-> SubSeq(data, 1, n), escape |-> FALSE]
  <2>1. CASE Len(t) = 1 /\ t[1] = d /\ d # LedEscape
    <3>1. Len(s \o t) = Len(s) + 1 /\ Len(s) + 1 - 1 = Len(s) /\ 1 \in 1..Len(t)
      BY <1>5, <2>1
    <3>2. u[Len(s) + 1] = LedTakes(u[Len(s)], d)
      BY <1>8, <2>1, <3>1
    <3>3. LedTakes(u[Len(s)], d)
            = [out |-> Append(SubSeq(data, 1, n - 1), d), escape |-> FALSE]
      BY <1>7, <2>1 DEF LedTakes
    <3> QED
      BY <1>9, <3>1, <3>2, <3>3
  <2>2. CASE Len(t) = 2 /\ t[1] = LedEscape /\ t[2] = d - 1
    <3>1. /\ Len(s \o t) = Len(s) + 2 /\ Len(s) + 1 - 1 = Len(s)
          /\ Len(s) + 2 - 1 = Len(s) + 1 /\ 1 \in 1..Len(t) /\ 2 \in 1..Len(t)
      BY <1>5, <2>2
    <3>2. /\ u[Len(s) + 1] = LedTakes(u[Len(s)], LedEscape)
          /\ u[Len(s) + 2] = LedTakes(u[Len(s) + 1], d - 1)
      BY <1>8, <2>2, <3>1
    <3>3. LedTakes(u[Len(s)], LedEscape)
            = [out |-> SubSeq(data, 1, n - 1), escape |-> TRUE]
      BY <1>7 DEF LedTakes
    <3>4. LedTakes(u[Len(s) + 1], d - 1)
            = [out |-> Append(SubSeq(data, 1, n - 1), d - 1 + 1), escape |-> FALSE]
      <4> DEFINE r == u[Len(s) + 1]
      <4>1. r = [out |-> SubSeq(data, 1, n - 1), escape |-> TRUE]
        BY <3>2, <3>3
      <4> HIDE DEF r
      <4>2. r.escape = TRUE /\ r.out = SubSeq(data, 1, n - 1)
        BY <4>1
      <4>3. LedTakes(r, d - 1) = [out |-> Append(r.out, d - 1 + 1), escape |-> FALSE]
        BY <4>2 DEF LedTakes
      <4> QED
        BY <4>2, <4>3 DEF r
    <3>5. d - 1 + 1 = d
      BY <1>1
    <3> QED
      BY <1>9, <3>1, <3>2, <3>4, <3>5
  <2> QED
    BY <1>4, <2>1, <2>2
<1> QED
  BY <1>2, <1>5, <1>6, <1>10 DEF LedComesOut, u

(* All of the data come out: by the least number of them that would not.   *)
LEMMA LedAllComesOut ==
  ASSUME NEW data \in Seq(Nat)
  PROVE  LedComesOut(data, Len(data)) /\ SubSeq(data, 1, Len(data)) = data
<1> DEFINE Bad == {n \in 0..Len(data) : ~LedComesOut(data, n)}
<1>1. Len(data) \in Nat
  BY LenProperties
<1>2. Bad = {}
  <2> SUFFICES ASSUME Bad # {} PROVE FALSE
    OBVIOUS
  <2>1. Bad \in SUBSET Nat
    BY <1>1
  <2>2. PICK n \in Bad : \A m \in Bad : n <= m
    BY <2>1, LeastExists
  <2>3. n \in 0..Len(data) /\ n \in Nat
    BY <1>1, <2>2
  <2>4. CASE n = 0
    <3>1. LedEscaped(data)[0] = <<>>
      <4>1. 0 \in 0..Len(data)
        BY <1>1
      <4> QED
        BY <1>1, <4>1, LedEscapedExists
    <3>2. LedUnescaped(<<>>)[0] = [out |-> <<>>, escape |-> FALSE]
      <4>1. Len(<<>>) = 0 /\ 0 \in 0..0
        OBVIOUS
      <4>2. Len(<<>>) \in Nat
        BY <4>1
      <4> QED
        BY <4>1, <4>2, LedUnescapedExists
    <3>3. SubSeq(data, 1, 0) = <<>>
      BY SubSeqEmpty
    <3>4. <<>> \in Seq(Int) /\ Len(<<>>) = 0 /\ 1..0 = {}
      OBVIOUS
    <3>5. LedComesOut(data, 0)
      BY <3>1, <3>2, <3>3, <3>4 DEF LedComesOut
    <3> QED
      BY <2>2, <2>4, <3>5
  <2>5. CASE n # 0
    <3>1. n - 1 \in 0..Len(data) /\ ~(n <= n - 1) /\ n \in 1..Len(data)
      BY <1>1, <2>3, <2>5
    <3>2. LedComesOut(data, n - 1)
      BY <2>2, <3>1
    <3>3. LedComesOut(data, n)
      BY <3>1, <3>2, LedComesOutNext
    <3> QED
      BY <2>2, <3>3
  <2> QED
    BY <2>4, <2>5
<1>3. LedComesOut(data, Len(data))
  <2>1. Len(data) \in 0..Len(data)
    BY <1>1
  <2> QED
    BY <1>2, <2>1
<1> QED
  BY <1>3, SubSeqFull


-----------------------------------------------------------------------------

(* A packet whose length fits into data_len is what a client takes apart.  *)
LedFits == \A data \in LedPatterns : Len(LedEscaped(data)[Len(data)]) < LedWidth

(* A packet that fits is what its data became, and comes out as them.      *)
LEMMA LedPacketComesOut ==
  ASSUME LedFits, NEW data \in LedPatterns
  PROVE  /\ LedUnescape(escape_led_data(data)) = data
         /\ \A i \in 1..Len(escape_led_data(data)) : escape_led_data(data)[i] # LedFraming
<1> DEFINE s == LedEscaped(data)[Len(data)]
<1>1. data \in Seq(Nat)
  BY LedAssumption DEF LedAssumption
<1>2. LedComesOut(data, Len(data)) /\ SubSeq(data, 1, Len(data)) = data
  BY <1>1, LedAllComesOut
<1>3. /\ s \in Seq(Int) /\ \A i \in 1..Len(s) : s[i] # LedFraming
      /\ LedUnescaped(s)[Len(s)] = [out |-> data, escape |-> FALSE]
  BY <1>2 DEF LedComesOut
<1>4. Len(s) < LedWidth
  BY DEF LedFits
<1> HIDE DEF s
<1>5. Len(s) \in Nat /\ Len(s) % LedWidth = Len(s)
  <2>1. Len(s) \in Nat /\ LedWidth \in Nat \ {0}
    BY <1>3, LenProperties, LedAssumption DEF LedAssumption
  <2> QED
    BY <1>4, <2>1
<1>6. escape_led_data(data) = s
  <2>1. escape_led_data(data) = SubSeq(s, 1, Len(s) % LedWidth)
    BY DEF escape_led_data, s
  <2> QED
    BY <1>3, <1>5, <2>1, SubSeqFull
<1> QED
  BY <1>3, <1>6 DEF LedUnescape

(* A board's data is a pattern from when it is told to show it, and its    *)
(* packet is that of a pattern; while the board is idle, of the last.      *)
LedCoded ==
  /\ \A b \in LedBoard : ledpipe.pc[b] \in {"wait", "copy"} => ledpipe.unescaped[b] \in LedPatterns
  /\ \A b \in LedBoard :
       \/ ledpipe.write_buf[b] = LedNone
       \/ \E data \in LedPatterns : ledpipe.write_buf[b] = escape_led_data(data)
  /\ \A b \in LedBoard :
       ledpipe.pc[b] = "idle" /\ ledpipe.write_buf[b] # LedNone =>
         /\ ledpipe.unescaped[b] \in LedPatterns
         /\ ledpipe.write_buf[b] = escape_led_data(ledpipe.unescaped[b])
  /\ \A b \in LedBoard :
       ledpipe.pc[b] \in {"start", "init"} => ledpipe.write_buf[b] = LedNone
  /\ ledpipe.mutex = -1 => \A b \in LedBoard : ledpipe.write_buf[b] = LedNone

(* The game leaves no packet but one that stands for data it was given.    *)
LEMMA LedGameCodes ==
  ASSUME LedInv, LedCoded, NEW b \in LedBoard, LedGame(b)
  PROVE  LedCoded'
<1>1. /\ ledpipe.pc \in [LedBoard -> {"start", "init", "idle", "wait", "copy"}]
      /\ ledpipe.unescaped = [c \in LedBoard |-> ledpipe.unescaped[c]]
      /\ ledpipe.write_buf = [c \in LedBoard |-> ledpipe.write_buf[c]]
      /\ LedShape(ledpipe) /\ 0 # -1 /\ b # -1
  BY LedOwnersDiffer DEF LedInv, LedTables
<1>2. CASE LedInitWait(b)
  <2>1. /\ ledpipe'.pc = [ledpipe.pc EXCEPT ![b] = "init"]
        /\ ledpipe'.unescaped = ledpipe.unescaped /\ ledpipe'.write_buf = ledpipe.write_buf
        /\ ledpipe'.mutex = ledpipe.mutex /\ ledpipe.pc[b] = "start"
    BY <1>1, <1>2 DEF LedInitWait, LedShape
  <2> QED
    BY <1>1, <2>1 DEF LedCoded
<1>3. CASE led_output_init(b)
  <2>1. PICK l \in IF ledpipe.is_init THEN {ledpipe} ELSE led_pipe_init(ledpipe) :
          ledpipe' = [l EXCEPT !.is_init = TRUE, !.init_lock = 0, !.pc[b] = "idle"]
    BY <1>3 DEF led_output_init
  <2>2. /\ l.pc = ledpipe.pc /\ l.unescaped = ledpipe.unescaped
        /\ l.write_buf = ledpipe.write_buf /\ (l.mutex = ledpipe.mutex \/ l.mutex = 0)
        /\ LedShape(l)
    <3>1. CASE l = ledpipe
      BY <1>1, <3>1
    <3>2. CASE l = [ledpipe EXCEPT !.mutex = 0, !.update = [c \in LedBoard |-> FALSE],
                                   !.threads = @ + 1, !.at = "create"]
      BY <1>1, <3>2 DEF LedShape
    <3> QED
      BY <2>1, <3>1, <3>2 DEF led_pipe_init
  <2>3. /\ ledpipe'.pc = [ledpipe.pc EXCEPT ![b] = "idle"]
        /\ ledpipe'.unescaped = ledpipe.unescaped /\ ledpipe'.write_buf = ledpipe.write_buf
        /\ ledpipe'.mutex = l.mutex
    BY <2>1, <2>2 DEF LedShape
  <2>4. ledpipe.pc[b] = "init"
    BY <1>3 DEF led_output_init
  <2>5. ledpipe.write_buf[b] = LedNone
    BY <2>4 DEF LedCoded
  <2> QED
    BY <1>1, <2>2, <2>3, <2>5 DEF LedCoded
<1>4. CASE led_output_update(b)
  <2>1. PICK data \in LedPatterns :
          ledpipe' = [ledpipe EXCEPT !.pc[b] = "wait", !.unescaped[b] = data]
    BY <1>4 DEF led_output_update
  <2>2. /\ ledpipe'.pc = [ledpipe.pc EXCEPT ![b] = "wait"]
        /\ ledpipe'.unescaped = [ledpipe.unescaped EXCEPT ![b] = data]
        /\ ledpipe'.write_buf = ledpipe.write_buf /\ ledpipe'.mutex = ledpipe.mutex
    BY <1>1, <2>1 DEF LedShape
  <2> QED
    BY <1>1, <2>2 DEF LedCoded
<1>5. CASE LedUpdateWait(b)
  <2>1. CASE ledpipe' = [ledpipe EXCEPT !.pc[b] = "copy", !.mutex = b]
    <3>1. /\ ledpipe'.pc = [ledpipe.pc EXCEPT ![b] = "copy"]
          /\ ledpipe'.unescaped = ledpipe.unescaped
          /\ ledpipe'.write_buf = ledpipe.write_buf /\ ledpipe'.mutex = b
          /\ ledpipe.pc[b] = "wait"
      BY <1>1, <1>5, <2>1 DEF LedShape, LedUpdateWait
    <3> QED
      BY <1>1, <3>1 DEF LedCoded
  <2>2. CASE ledpipe.mutex = -1 /\ ledpipe' = [ledpipe EXCEPT !.pc[b] = "idle"]
    <3>1. /\ ledpipe'.pc = [ledpipe.pc EXCEPT ![b] = "idle"]
          /\ ledpipe'.unescaped = ledpipe.unescaped
          /\ ledpipe'.write_buf = ledpipe.write_buf /\ ledpipe'.mutex = ledpipe.mutex
      BY <1>1, <2>2 DEF LedShape
    <3> QED
      BY <1>1, <2>2, <3>1 DEF LedCoded
  <2> QED
    BY <1>5, <2>1, <2>2 DEF LedUpdateWait, LedFree
<1>6. CASE led_pipe_update(b)
  <2>1. /\ ledpipe.pc[b] = "copy"
        /\ ledpipe' = [ledpipe EXCEPT !.write_buf[b] = escape_led_data(ledpipe.unescaped[b]),
                                      !.update[b] = TRUE, !.mutex = 0, !.pc[b] = "idle"]
    BY <1>6 DEF led_pipe_update
  <2>2. /\ ledpipe'.pc = [ledpipe.pc EXCEPT ![b] = "idle"]
        /\ ledpipe'.unescaped = ledpipe.unescaped
        /\ ledpipe'.write_buf
             = [ledpipe.write_buf EXCEPT ![b] = escape_led_data(ledpipe.unescaped[b])]
        /\ ledpipe'.mutex = 0
    BY <1>1, <2>1 DEF LedShape
  <2> QED
    BY <1>1, <2>1, <2>2 DEF LedCoded
<1> QED
  BY <1>2, <1>3, <1>4, <1>5, <1>6 DEF LedGame


(* The thread of the pipe and the clients leave what the boards show, and  *)
(* the mutex is there for as long as the thread runs.                      *)
LEMMA LedOthersCode ==
  ASSUME LedInv, LedCoded, LedPipeThread \/ LedClient
  PROVE  LedCoded'
<1>1. /\ LedShape(ledpipe) /\ (ledpipe.mutex = -1 => ledpipe.at = "none")
      /\ LedPipeOwner # -1 /\ 0 # -1
  BY LedOwnersDiffer DEF LedInv, LedFresh
<1>2. SUFFICES /\ ledpipe'.pc = ledpipe.pc /\ ledpipe'.unescaped = ledpipe.unescaped
               /\ ledpipe'.write_buf = ledpipe.write_buf
               /\ ledpipe'.mutex = -1 => ledpipe.mutex = -1
  BY <1>2 DEF LedCoded
<1>3. ASSUME NEW l, LedShape(l), l.pc = ledpipe.pc, l.unescaped = ledpipe.unescaped,
             l.write_buf = ledpipe.write_buf, l.mutex = ledpipe.mutex,
             ledpipe' = LedNextBoard(l)
      PROVE  /\ ledpipe'.pc = ledpipe.pc /\ ledpipe'.unescaped = ledpipe.unescaped
             /\ ledpipe'.write_buf = ledpipe.write_buf
             /\ ledpipe'.mutex = -1 => ledpipe.mutex = -1
  <2>1. CASE ledpipe' = [l EXCEPT !.i = @ + 1, !.at = "write"]
    BY <1>1, <1>3, <2>1 DEF LedShape
  <2>2. CASE ledpipe' = [l EXCEPT !.at = "lock", !.mutex = 0]
    BY <1>1, <1>3, <2>2 DEF LedShape
  <2> QED
    BY <1>3, <2>1, <2>2 DEF LedNextBoard
<1>4. CASE pipe_create
  BY <1>1, <1>4 DEF pipe_create, LedShape
<1>5. CASE LedConnected
  BY <1>1, <1>5 DEF LedConnected, LedShape
<1>6. CASE LedPipeLock
  BY <1>1, <1>6 DEF LedPipeLock, LedShape
<1>7. CASE pipe_write
  <2>1. CASE ledpipe' = LedNextBoard(ledpipe)
    BY <1>1, <1>3, <2>1
  <2>2. CASE ledpipe' = [ledpipe EXCEPT !.at = "written",
                              !.sent[ledpipe.i] = ledpipe.write_buf[ledpipe.i]]
    BY <1>1, <2>2 DEF LedShape
  <2>3. CASE ledpipe' = [ledpipe EXCEPT !.at = "close", !.mutex = 0]
    BY <1>1, <2>3 DEF LedShape
  <2> QED
    BY <1>7, <2>1, <2>2, <2>3 DEF pipe_write
<1>8. CASE LedWritten
  <2> DEFINE marks == [ledpipe.update EXCEPT ![ledpipe.i] = FALSE]
             l == [ledpipe EXCEPT !.update[ledpipe.i] = FALSE]
  <2>1. l = [ledpipe EXCEPT !.update = marks]
    BY <1>1 DEF LedShape
  <2>2. ledpipe' = LedNextBoard(l)
    BY <1>8 DEF LedWritten
  <2> HIDE DEF l, marks
  <2>3. /\ LedShape(l) /\ l.pc = ledpipe.pc /\ l.unescaped = ledpipe.unescaped
        /\ l.write_buf = ledpipe.write_buf /\ l.mutex = ledpipe.mutex
    BY <1>1, <2>1 DEF LedShape
  <2> QED
    BY <1>3, <2>2, <2>3
<1>9. CASE LedClose
  <2>1. PICK client : ledpipe' = [ledpipe EXCEPT !.at = "create", !.client = client]
    BY <1>9 DEF LedClose
  <2> QED
    BY <1>1, <2>1 DEF LedShape
<1>10. CASE LedClient
  BY <1>1, <1>10 DEF LedClient, LedShape
<1> QED
  BY <1>4, <1>5, <1>6, <1>7, <1>8, <1>9, <1>10 DEF LedPipeThread

(* The output is right: what a board was told to show stays marked until a *)
(* client has read it whole, a client takes from a packet what the board   *)
(* was told, and no packet has the byte that starts one inside; for all    *)
(* data whose packets have a length that fits into data_len.               *)
THEOREM PacketsAreRight ==
  ASSUME LedFits
  PROVE  LedSpec => []LedPipeIsRight
<1>1. LedInit => LedInv /\ LedCoded
  BY LedInitInv, LedOwnersDiffer DEF LedInit, LedCoded
<1>2. LedInv /\ LedCoded /\ [LedNext]_ledpipe => LedInv' /\ LedCoded'
  <2> SUFFICES ASSUME LedInv, LedCoded, [LedNext]_ledpipe PROVE LedInv' /\ LedCoded'
    OBVIOUS
  <2>1. LedInv'
    BY LedKeepsInv
  <2>2. CASE UNCHANGED ledpipe
    BY <2>1, <2>2 DEF LedCoded
  <2> QED
    BY <2>1, <2>2, LedGameCodes, LedOthersCode DEF LedNext
<1>3. LedInv /\ LedCoded => LedPipeIsRight
  <2> SUFFICES ASSUME LedInv, LedCoded PROVE LedPipeIsRight
    OBVIOUS
  <2>1. LedTypeOK /\ LedNothingIsLost /\ LedMutexIsHeld
    BY DEF LedInv, LedTables, LedPlaces, LedHeld, LedMarked, LedTypeOK, LedNothingIsLost,
         LedMutexIsHeld
  <2>2. ASSUME NEW b \in LedBoard, ledpipe.pc[b] = "idle", ledpipe.write_buf[b] # LedNone
        PROVE  LedUnescape(ledpipe.write_buf[b]) = ledpipe.unescaped[b]
    <3>1. /\ ledpipe.unescaped[b] \in LedPatterns
          /\ ledpipe.write_buf[b] = escape_led_data(ledpipe.unescaped[b])
      BY <2>2 DEF LedCoded
    <3> QED
      BY <3>1, LedPacketComesOut
  <2>3. ASSUME NEW b \in LedBoard, NEW i \in 1..Len(ledpipe.write_buf[b])
        PROVE  ledpipe.write_buf[b][i] # LedFraming
    <3>1. CASE ledpipe.write_buf[b] = LedNone
      <4>1. 1..Len(ledpipe.write_buf[b]) = {}
        BY <3>1 DEF LedNone
      <4> QED
        BY <2>3, <4>1
    <3>2. CASE ledpipe.write_buf[b] # LedNone
      <4>1. PICK data \in LedPatterns : ledpipe.write_buf[b] = escape_led_data(data)
        BY <3>2 DEF LedCoded
      <4> QED
        BY <2>3, <4>1, LedPacketComesOut
    <3> QED
      BY <3>1, <3>2
  <2>4. LedEncodes
    BY <2>2, <2>3 DEF LedEncodes
  <2> QED
    BY <2>1, <2>4 DEF LedPipeIsRight
<1> QED
  BY <1>1, <1>2, <1>3, PTL DEF LedSpec

-----------------------------------------------------------------------------
(* The names: for any rules, names, threads and ports.                     *)

(* One place of a pattern, of a walk whose later places are f.             *)
DnsMatchRow(target, pattern, f, p) ==
  [q \in 1..Len(target) + 1 |->
     IF p > Len(pattern) \/ q > Len(target)
     THEN p > Len(pattern) /\ q > Len(target)
     ELSE IF pattern[p] = DnsStar
     THEN LET r == DnsGoesOn(target, DnsAt(pattern, p + 1), q)
          IN  r # 0 /\ f[p + 1][r]
     ELSE pattern[p] = target[q] /\ f[p + 1][q + 1]]

(* The same of what is meant by a pattern.                                 *)
DnsMeantRow(target, pattern, f, p) ==
  [q \in 1..Len(target) + 1 |->
     IF p > Len(pattern) THEN q > Len(target)
     ELSE IF pattern[p] = DnsStar
     THEN \E r \in q..Len(target) + 1 : f[p + 1][r]
     ELSE q <= Len(target) /\ pattern[p] = target[q] /\ f[p + 1][q + 1]]

(* A row depends on the one behind it, and the last on none.               *)
LEMMA DnsRowsDepend ==
  ASSUME NEW target, NEW pattern, NEW f, NEW g, NEW p,
         p > Len(pattern) \/ f[p + 1] = g[p + 1]
  PROVE  /\ DnsMatchRow(target, pattern, f, p) = DnsMatchRow(target, pattern, g, p)
         /\ DnsMeantRow(target, pattern, f, p) = DnsMeantRow(target, pattern, g, p)
<1>1. CASE p > Len(pattern)
  BY <1>1 DEF DnsMatchRow, DnsMeantRow
<1>2. CASE f[p + 1] = g[p + 1]
  BY <1>2 DEF DnsMatchRow, DnsMeantRow
<1> QED
  BY <1>1, <1>2

(* The walks are the functions they are defined to be.                     *)
LEMMA DnsMatchesExists ==
  ASSUME NEW target, NEW pattern, Len(pattern) \in Nat
  PROVE  \A p \in 1..Len(pattern) + 1 :
           DnsMatches(target, pattern)[p]
             = DnsMatchRow(target, pattern, DnsMatches(target, pattern), p)
<1> DEFINE N == Len(pattern) + 1
           Up(k, f) == \A p \in (N - k)..N : f[p] = DnsMatchRow(target, pattern, f, p)
           Bad == {k \in 0..(N - 1) : ~\E f : f = [p \in (N - k)..N |-> f[p]] /\ Up(k, f)}
<1>1. Bad = {}
  <2> SUFFICES ASSUME Bad # {} PROVE FALSE
    OBVIOUS
  <2>1. Bad \in SUBSET Nat
    OBVIOUS
  <2>2. PICK k \in Bad : \A m \in Bad : k <= m
    BY <2>1, LeastExists
  <2>3. k \in 0..(N - 1) /\ k \in Nat /\ N \in Nat
    BY <2>2
  <2>4. CASE k = 0
    <3> DEFINE f == [p \in N..N |-> DnsMatchRow(target, pattern, <<>>, N)]
    <3>1. f = [p \in (N - k)..N |-> f[p]]
      BY <2>3, <2>4
    <3>2. ASSUME NEW p \in (N - k)..N PROVE f[p] = DnsMatchRow(target, pattern, f, p)
      <4>1. p = N /\ p \in N..N /\ p > Len(pattern)
        BY <2>3, <2>4
      <4>2. f[p] = DnsMatchRow(target, pattern, <<>>, p)
        BY <4>1
      <4> QED
        BY <4>1, <4>2, DnsRowsDepend
    <3> HIDE DEF f
    <3>3. Up(k, f)
      BY <3>2
    <3> QED
      BY <2>2, <3>1, <3>3
  <2>5. CASE k # 0
    <3>1. k - 1 \in 0..(N - 1) /\ k - 1 \notin Bad
      <4>1. k - 1 \in 0..(N - 1) /\ ~(k <= k - 1)
        BY <2>3, <2>5
      <4> QED
        BY <2>2, <4>1
    <3>2. PICK f : f = [p \in (N - (k - 1))..N |-> f[p]] /\ Up(k - 1, f)
      BY <3>1
    <3> DEFINE g == [p \in (N - k)..N |-> IF p = N - k THEN DnsMatchRow(target, pattern, f, N - k)
                                          ELSE f[p]]
    <3>3. g = [p \in (N - k)..N |-> g[p]]
      OBVIOUS
    <3>4. ASSUME NEW p \in (N - k)..N
          PROVE  g[p] = DnsMatchRow(target, pattern, g, p)
      <4>1. p > Len(pattern) \/ (p + 1 \in (N - k)..N /\ p + 1 # N - k)
        BY <2>3
      <4>2. p > Len(pattern) \/ f[p + 1] = g[p + 1]
        BY <4>1
      <4>3. g[p] = DnsMatchRow(target, pattern, f, p)
        <5>1. CASE p = N - k
          BY <5>1
        <5>2. CASE p # N - k
          <6>1. p \in (N - (k - 1))..N /\ g[p] = f[p]
            BY <2>3, <5>2
          <6> QED
            BY <3>2, <6>1
        <5> QED
          BY <5>1, <5>2
      <4> HIDE DEF g
      <4> QED
        BY <4>2, <4>3, DnsRowsDepend
    <3> HIDE DEF g
    <3>5. Up(k, g)
      BY <3>4
    <3> QED
      BY <2>2, <3>3, <3>5
  <2> QED
    BY <2>4, <2>5
<1>2. PICK f : f = [p \in 1..N |-> f[p]] /\ \A p \in 1..N : f[p] = DnsMatchRow(target, pattern, f, p)
  <2>1. N - 1 \in 0..(N - 1) /\ N - (N - 1) = 1
    OBVIOUS
  <2>2. PICK f : f = [p \in (N - (N - 1))..N |-> f[p]] /\ Up(N - 1, f)
    BY <1>1, <2>1
  <2> QED
    BY <2>1, <2>2
<1> DEFINE Rows(w) == [p \in 1..N |-> DnsMatchRow(target, pattern, w, p)]
           h == CHOOSE g : g = Rows(g)
<1>3. f = Rows(f)
  BY <1>2
<1>4. h = Rows(h)
  BY <1>3
<1>5. DnsMatches(target, pattern) = h
  BY DEF DnsMatches, DnsMatchRow
<1> HIDE DEF h
<1> QED
  BY <1>4, <1>5

(* What a pattern means is the function it is defined to be.               *)
LEMMA DnsMeantExists ==
  ASSUME NEW target, NEW pattern, Len(pattern) \in Nat
  PROVE  \A p \in 1..Len(pattern) + 1 :
           DnsMeant(target, pattern)[p]
             = DnsMeantRow(target, pattern, DnsMeant(target, pattern), p)
<1> DEFINE N == Len(pattern) + 1
           Up(k, f) == \A p \in (N - k)..N : f[p] = DnsMeantRow(target, pattern, f, p)
           Bad == {k \in 0..(N - 1) : ~\E f : f = [p \in (N - k)..N |-> f[p]] /\ Up(k, f)}
<1>1. Bad = {}
  <2> SUFFICES ASSUME Bad # {} PROVE FALSE
    OBVIOUS
  <2>1. Bad \in SUBSET Nat
    OBVIOUS
  <2>2. PICK k \in Bad : \A m \in Bad : k <= m
    BY <2>1, LeastExists
  <2>3. k \in 0..(N - 1) /\ k \in Nat /\ N \in Nat
    BY <2>2
  <2>4. CASE k = 0
    <3> DEFINE f == [p \in N..N |-> DnsMeantRow(target, pattern, <<>>, N)]
    <3>1. f = [p \in (N - k)..N |-> f[p]]
      BY <2>3, <2>4
    <3>2. ASSUME NEW p \in (N - k)..N PROVE f[p] = DnsMeantRow(target, pattern, f, p)
      <4>1. p = N /\ p \in N..N /\ p > Len(pattern)
        BY <2>3, <2>4
      <4>2. f[p] = DnsMeantRow(target, pattern, <<>>, p)
        BY <4>1
      <4> QED
        BY <4>1, <4>2, DnsRowsDepend
    <3> HIDE DEF f
    <3>3. Up(k, f)
      BY <3>2
    <3> QED
      BY <2>2, <3>1, <3>3
  <2>5. CASE k # 0
    <3>1. k - 1 \in 0..(N - 1) /\ k - 1 \notin Bad
      <4>1. k - 1 \in 0..(N - 1) /\ ~(k <= k - 1)
        BY <2>3, <2>5
      <4> QED
        BY <2>2, <4>1
    <3>2. PICK f : f = [p \in (N - (k - 1))..N |-> f[p]] /\ Up(k - 1, f)
      BY <3>1
    <3> DEFINE g == [p \in (N - k)..N |-> IF p = N - k THEN DnsMeantRow(target, pattern, f, N - k)
                                          ELSE f[p]]
    <3>3. g = [p \in (N - k)..N |-> g[p]]
      OBVIOUS
    <3>4. ASSUME NEW p \in (N - k)..N
          PROVE  g[p] = DnsMeantRow(target, pattern, g, p)
      <4>1. p > Len(pattern) \/ (p + 1 \in (N - k)..N /\ p + 1 # N - k)
        BY <2>3
      <4>2. p > Len(pattern) \/ f[p + 1] = g[p + 1]
        BY <4>1
      <4>3. g[p] = DnsMeantRow(target, pattern, f, p)
        <5>1. CASE p = N - k
          BY <5>1
        <5>2. CASE p # N - k
          <6>1. p \in (N - (k - 1))..N /\ g[p] = f[p]
            BY <2>3, <5>2
          <6> QED
            BY <3>2, <6>1
        <5> QED
          BY <5>1, <5>2
      <4> HIDE DEF g
      <4> QED
        BY <4>2, <4>3, DnsRowsDepend
    <3> HIDE DEF g
    <3>5. Up(k, g)
      BY <3>4
    <3> QED
      BY <2>2, <3>3, <3>5
  <2> QED
    BY <2>4, <2>5
<1>2. PICK f : f = [p \in 1..N |-> f[p]] /\ \A p \in 1..N : f[p] = DnsMeantRow(target, pattern, f, p)
  <2>1. N - 1 \in 0..(N - 1) /\ N - (N - 1) = 1
    OBVIOUS
  <2>2. PICK f : f = [p \in (N - (N - 1))..N |-> f[p]] /\ Up(N - 1, f)
    BY <1>1, <2>1
  <2> QED
    BY <2>1, <2>2
<1> DEFINE Rows(w) == [p \in 1..N |-> DnsMeantRow(target, pattern, w, p)]
           h == CHOOSE g : g = Rows(g)
<1>3. f = Rows(f)
  BY <1>2
<1>4. h = Rows(h)
  BY <1>3
<1>5. DnsMeant(target, pattern) = h
  BY DEF DnsMeant, DnsMeantRow
<1> HIDE DEF h
<1> QED
  BY <1>4, <1>5


(* A walk that gets through has found what the pattern means.              *)
LEMMA DnsMatchIsMeant ==
  ASSUME NEW target, NEW pattern, Len(target) \in Nat, Len(pattern) \in Nat,
         DnsMatches(target, pattern)[1][1]
  PROVE  DnsGlob(target, pattern)
<1> DEFINE N == Len(pattern) + 1
           M == Len(target) + 1
           f == DnsMatches(target, pattern)
           g == DnsMeant(target, pattern)
           Bad == {k \in 0..(N - 1) : ~\A q \in 1..M : f[N - k][q] => g[N - k][q]}
<1>1. /\ \A p \in 1..N : f[p] = DnsMatchRow(target, pattern, f, p)
      /\ \A p \in 1..N : g[p] = DnsMeantRow(target, pattern, g, p)
  BY DnsMatchesExists, DnsMeantExists
<1>2. f[1][1]
  OBVIOUS
<1> HIDE DEF f, g
<1>3. Bad = {}
  <2> SUFFICES ASSUME Bad # {} PROVE FALSE
    OBVIOUS
  <2>1. Bad \in SUBSET Nat
    OBVIOUS
  <2>2. PICK k \in Bad : \A m \in Bad : k <= m
    BY <2>1, LeastExists
  <2> DEFINE p == N - k
  <2>3. k \in 0..(N - 1) /\ p \in 1..N
    BY <2>2
  <2>4. PICK q \in 1..M : f[p][q] /\ ~g[p][q]
    BY <2>2
  <2>5. CASE p > Len(pattern)
    <3>1. q > Len(target)
      BY <1>1, <2>3, <2>4, <2>5 DEF DnsMatchRow
    <3>2. g[p][q]
      <4>1. g[p] = DnsMeantRow(target, pattern, g, p)
        BY <1>1, <2>3
      <4> HIDE DEF p
      <4>2. DnsMeantRow(target, pattern, g, p)[q] = (q > Len(target))
        BY <2>5 DEF DnsMeantRow
      <4> QED
        BY <3>1, <4>1, <4>2
    <3> QED
      BY <2>4, <3>2
  <2>6. CASE ~(p > Len(pattern))
    <3>1. p + 1 \in 1..N /\ p \in 1..Len(pattern)
      BY <2>3, <2>6
    <3>2. \A r \in 1..M : f[p + 1][r] => g[p + 1][r]
      <4>1. k - 1 \in 0..(N - 1) /\ ~(k <= k - 1) /\ N - (k - 1) = p + 1
        BY <2>3, <2>6
      <4>2. k - 1 \notin Bad
        BY <2>2, <4>1
      <4> QED
        BY <4>1, <4>2
    <3>3. /\ f[p] = DnsMatchRow(target, pattern, f, p)
          /\ g[p] = DnsMeantRow(target, pattern, g, p)
      BY <1>1, <2>3
    <3> HIDE DEF p
    <3>4. ~(q > Len(target)) /\ q \in 1..Len(target)
      <4>1. ~(q > Len(target))
        BY <2>4, <2>6, <3>3 DEF DnsMatchRow
      <4> QED
        BY <4>1
    <3>5. CASE pattern[p] = DnsStar
      <4> DEFINE r == DnsGoesOn(target, DnsAt(pattern, p + 1), q)
      <4>1. r # 0 /\ f[p + 1][r]
        BY <2>4, <2>6, <3>3, <3>4, <3>5 DEF DnsMatchRow
      <4>2. r \in q..Len(target)
        <5> DEFINE c == DnsAt(pattern, p + 1)
                   places == {i \in q..Len(target) : target[i] = c}
        <5>1. r = IF places = {} THEN 0 ELSE CHOOSE i \in places : \A j \in places : i <= j
          BY DEF DnsGoesOn
        <5>2. places # {} /\ places \in SUBSET Nat
          <6>1. places # {}
            BY <4>1, <5>1
          <6>2. q..Len(target) \in SUBSET Nat
            BY <3>4
          <6> QED
            BY <6>1, <6>2
        <5>3. \E i \in places : \A j \in places : i <= j
          BY <5>2, LeastExists
        <5> HIDE DEF r
        <5>4. r = CHOOSE i \in places : \A j \in places : i <= j
          BY <5>1, <5>2
        <5>5. r \in places
          BY <5>3, <5>4
        <5> QED
          BY <5>5
      <4>3. r \in 1..M /\ r \in q..M
        BY <3>4, <4>2
      <4> HIDE DEF r
      <4>4. g[p + 1][r]
        BY <3>2, <4>1, <4>3
      <4>5. g[p][q]
        BY <2>6, <3>3, <3>5, <4>3, <4>4 DEF DnsMeantRow
      <4> QED
        BY <2>4, <4>5
    <3>6. CASE pattern[p] # DnsStar
      <4>1. pattern[p] = target[q] /\ f[p + 1][q + 1]
        BY <2>4, <2>6, <3>3, <3>4, <3>6 DEF DnsMatchRow
      <4>2. q + 1 \in 1..M
        BY <3>4
      <4>3. g[p + 1][q + 1]
        BY <3>2, <4>1, <4>2
      <4>4. g[p][q]
        <5>1. q <= Len(target)
          BY <3>4
        <5>2. DnsMeantRow(target, pattern, g, p)[q]
                = (q <= Len(target) /\ pattern[p] = target[q] /\ g[p + 1][q + 1])
          BY <2>6, <3>6 DEF DnsMeantRow
        <5> QED
          BY <3>3, <4>1, <4>3, <5>1, <5>2
      <4> QED
        BY <2>4, <4>4
    <3> QED
      BY <3>5, <3>6
  <2> QED
    BY <2>5, <2>6
<1>4. g[1][1]
  <2>1. N - 1 \in 0..(N - 1) /\ N - (N - 1) = 1 /\ 1 \in 1..M
    OBVIOUS
  <2>2. \A q \in 1..M : f[N - (N - 1)][q] => g[N - (N - 1)][q]
    BY <1>3, <2>1
  <2> QED
    BY <1>2, <2>1, <2>2
<1> QED
  BY <1>4 DEF DnsGlob, g

(* A pattern means the name that it is written as.                         *)
LEMMA DnsMeansItself ==
  ASSUME NEW s, Len(s) \in Nat
  PROVE  DnsGlob(s, s)
<1> DEFINE N == Len(s) + 1
           g == DnsMeant(s, s)
           Bad == {k \in 0..(N - 1) : ~g[N - k][N - k]}
<1>1. \A p \in 1..N : g[p] = DnsMeantRow(s, s, g, p)
  BY DnsMeantExists
<1> HIDE DEF g
<1>2. Bad = {}
  <2> SUFFICES ASSUME Bad # {} PROVE FALSE
    OBVIOUS
  <2>1. Bad \in SUBSET Nat
    OBVIOUS
  <2>2. PICK k \in Bad : \A m \in Bad : k <= m
    BY <2>1, LeastExists
  <2> DEFINE p == N - k
  <2>3. k \in 0..(N - 1) /\ p \in 1..N /\ ~g[p][p]
    BY <2>2
  <2>4. g[p] = DnsMeantRow(s, s, g, p)
    BY <1>1, <2>3
  <2>5. CASE p > Len(s)
    BY <2>3, <2>4, <2>5 DEF DnsMeantRow
  <2>6. CASE ~(p > Len(s))
    <3>1. k - 1 \in 0..(N - 1) /\ ~(k <= k - 1) /\ N - (k - 1) = p + 1
      BY <2>3, <2>6
    <3>2. k - 1 \notin Bad
      BY <2>2, <3>1
    <3>3. g[p + 1][p + 1]
      BY <3>1, <3>2
    <3>4. p + 1 \in p..N /\ p <= Len(s)
      BY <2>3, <2>6
    <3> HIDE DEF p
    <3> QED
      BY <2>3, <2>4, <2>6, <3>3, <3>4 DEF DnsMeantRow
  <2> QED
    BY <2>5, <2>6
<1>3. g[1][1]
  <2>1. N - 1 \in 0..(N - 1) /\ N - (N - 1) = 1
    OBVIOUS
  <2> QED
    BY <1>2, <2>1
<1> QED
  BY <1>3 DEF DnsGlob, g

(* The state, and that a call in the network goes where a rule meant it.   *)
DnsRules == Seq(DnsPatterns \X (DnsHosts \cup {DnsNone}))

(* The fields of the hook.                                                 *)
DnsShape ==
  dns = [rules |-> dns.rules, lock |-> dns.lock, pc |-> dns.pc, name |-> dns.name,
         found |-> dns.found, port |-> dns.port, sent |-> dns.sent]

(* The tables of the hook, one place for each thread.                      *)
DnsTables ==
  /\ dns.rules \in DnsRules
  /\ dns.pc = [t \in DnsThreads |-> dns.pc[t]]
  /\ dns.name = [t \in DnsThreads |-> dns.name[t]]
  /\ dns.found = [t \in DnsThreads |-> dns.found[t]]
  /\ dns.port = [t \in DnsThreads |-> dns.port[t]]

(* The invariant of the names.                                             *)
DnsInv == DnsShape /\ DnsTables /\ DnsIsRight

(* The rule that is found for a name is one that means it.                 *)
LEMMA DnsRuleMeans ==
  ASSUME dns.rules \in DnsRules, NEW name \in DnsNames, DnsRule(name) # 0
  PROVE  /\ DnsRule(name) \in 1..Len(dns.rules)
         /\ DnsGlob(name, dns.rules[DnsRule(name)][1])
<1> DEFINE hits == {i \in 1..Len(dns.rules) : match_domain(name, dns.rules[i][1])}
           i == CHOOSE l \in hits : \A j \in hits : l <= j
<1>1. hits # {} /\ DnsRule(name) = i
  BY DEF DnsRule
<1>2. i \in hits
  <2>1. hits \in SUBSET Nat
    OBVIOUS
  <2>2. \E l \in hits : \A j \in hits : l <= j
    BY <1>1, <2>1, LeastExists
  <2> QED
    BY <2>2
<1> HIDE DEF i
<1>3. i \in 1..Len(dns.rules) /\ match_domain(name, dns.rules[i][1])
  BY <1>2
<1>4. dns.rules[i][1] \in DnsPatterns
  <2>1. dns.rules[i] \in DnsPatterns \X (DnsHosts \cup {DnsNone})
    BY <1>3, ElementOfSeq DEF DnsRules
  <2> QED
    BY <2>1
<1>5. Len(name) \in Nat /\ Len(dns.rules[i][1]) \in Nat
  <2>1. name \in Seq(ToSet(name)) /\ dns.rules[i][1] \in Seq(ToSet(dns.rules[i][1]))
    BY <1>4, DnsAssumption DEF DnsAssumption
  <2> QED
    BY <2>1, LenProperties
<1>6. DnsGlob(name, dns.rules[i][1])
  BY <1>3, <1>5, DnsMatchIsMeant, DnsMeansItself DEF match_domain
<1> QED
  BY <1>1, <1>3, <1>6

(* A rule that is pushed: those already found stay what they were.         *)
LEMMA DnsPushKeeps ==
  ASSUME DnsInv, NEW from \in DnsPatterns, NEW to \in DnsHosts \cup {DnsNone},
         dns_hook_push(from, to)
  PROVE  DnsInv'
<1> DEFINE rule == <<from, to>>
           more == Append(dns.rules, rule)
<1>1. dns.rules \in DnsRules /\ rule \in DnsPatterns \X (DnsHosts \cup {DnsNone})
  BY DEF DnsInv, DnsTables
<1> HIDE DEF rule
<1>2. /\ more \in DnsRules /\ Len(more) = Len(dns.rules) + 1
      /\ \A i \in 1..Len(dns.rules) : more[i] = dns.rules[i]
      /\ Len(dns.rules) \in Nat
  BY <1>1, AppendProperties, LenProperties DEF DnsRules
<1>3. dns' = [dns EXCEPT !.rules = more] /\ Len(dns.rules) < DnsMaxRules
  BY DEF dns_hook_push, rule
<1> HIDE DEF more
<1>4. /\ dns'.rules = more /\ dns'.lock = dns.lock /\ dns'.pc = dns.pc
      /\ dns'.name = dns.name /\ dns'.found = dns.found /\ dns'.port = dns.port
      /\ DnsShape'
  BY <1>3 DEF DnsInv, DnsShape
<1>5. DnsTables'
  BY <1>2, <1>4 DEF DnsInv, DnsTables
<1>6. DnsTypeOK'
  BY <1>2, <1>3, <1>4, DnsAssumption DEF DnsAssumption, DnsInv, DnsIsRight, DnsTypeOK
<1>7. DnsOnlyWhatIsMeant'
  <2> SUFFICES ASSUME NEW t \in DnsThreads, dns.pc[t] = "call", dns.found[t] # dns.name[t]
               PROVE  \E i \in 1..Len(more) : /\ DnsGlob(dns.name[t], more[i][1])
                                              /\ dns.found[t] = more[i][2]
    BY <1>4 DEF DnsOnlyWhatIsMeant
  <2>1. PICK i \in 1..Len(dns.rules) : /\ DnsGlob(dns.name[t], dns.rules[i][1])
                                       /\ dns.found[t] = dns.rules[i][2]
    BY DEF DnsInv, DnsIsRight, DnsOnlyWhatIsMeant
  <2>2. i \in 1..Len(more) /\ more[i] = dns.rules[i]
    BY <1>2
  <2> QED
    BY <2>1, <2>2
<1> QED
  BY <1>4, <1>5, <1>6, <1>7 DEF DnsInv, DnsIsRight

(* A name is looked up in the rules.                                       *)
LEMMA DnsQueryKeeps ==
  ASSUME DnsInv, NEW t \in DnsThreads, NEW name \in DnsNames, hook_DnsQueryEx(t, name)
  PROVE  DnsInv'
<1> DEFINE i == DnsRule(name)
           new == IF i = 0 THEN name ELSE dns.rules[i][2]
<1>1. dns' = [dns EXCEPT !.pc[t] = "call", !.name[t] = name, !.found[t] = new]
  BY DEF hook_DnsQueryEx
<1>2. new # name => /\ i \in 1..Len(dns.rules) /\ DnsGlob(name, dns.rules[i][1])
                    /\ new = dns.rules[i][2]
  BY DnsRuleMeans DEF DnsInv, DnsTables
<1> HIDE DEF new, i
<1>3. /\ dns'.rules = dns.rules /\ dns'.lock = dns.lock /\ dns'.port = dns.port
      /\ dns'.pc = [dns.pc EXCEPT ![t] = "call"]
      /\ dns'.name = [dns.name EXCEPT ![t] = name]
      /\ dns'.found = [dns.found EXCEPT ![t] = new] /\ DnsShape'
  BY <1>1 DEF DnsInv, DnsShape
<1>4. DnsTables'
  BY <1>3 DEF DnsInv, DnsTables
<1>5. DnsTypeOK'
  BY <1>3 DEF DnsInv, DnsIsRight, DnsTypeOK
<1>6. DnsOnlyWhatIsMeant'
  <2> SUFFICES ASSUME NEW u \in DnsThreads, dns'.pc[u] = "call", dns'.found[u] # dns'.name[u]
               PROVE  \E j \in 1..Len(dns.rules) : /\ DnsGlob(dns'.name[u], dns.rules[j][1])
                                                   /\ dns'.found[u] = dns.rules[j][2]
    BY <1>3 DEF DnsOnlyWhatIsMeant
  <2>1. CASE u = t
    <3>1. dns'.name[u] = name /\ dns'.found[u] = new
      BY <1>3, <2>1 DEF DnsInv, DnsTables
    <3> QED
      BY <1>2, <3>1
  <2>2. CASE u # t
    <3>1. dns'.name[u] = dns.name[u] /\ dns'.found[u] = dns.found[u] /\ dns'.pc[u] = dns.pc[u]
      BY <1>3, <2>2 DEF DnsInv, DnsTables
    <3> QED
      BY <3>1 DEF DnsInv, DnsIsRight, DnsOnlyWhatIsMeant
  <2> QED
    BY <2>1, <2>2
<1> QED
  BY <1>3, <1>4, <1>5, <1>6 DEF DnsInv, DnsIsRight

(* The answer is handed on.                                                *)
LEMMA DnsReturnKeeps ==
  ASSUME DnsInv, NEW t \in DnsThreads, DnsReturns(t)
  PROVE  DnsInv'
<1>1. dns' = [dns EXCEPT !.pc[t] = "idle", !.name[t] = DnsNone, !.found[t] = DnsNone]
  BY DEF DnsReturns
<1>2. /\ dns'.rules = dns.rules /\ dns'.lock = dns.lock /\ dns'.port = dns.port
      /\ dns'.pc = [dns.pc EXCEPT ![t] = "idle"]
      /\ dns'.name = [dns.name EXCEPT ![t] = DnsNone]
      /\ dns'.found = [dns.found EXCEPT ![t] = DnsNone] /\ DnsShape'
  BY <1>1 DEF DnsInv, DnsShape
<1>3. DnsTables'
  BY <1>2 DEF DnsInv, DnsTables
<1>4. DnsTypeOK'
  BY <1>2 DEF DnsInv, DnsIsRight, DnsTypeOK
<1>5. DnsOnlyWhatIsMeant'
  <2>1. ASSUME NEW u \in DnsThreads, dns'.pc[u] = "call"
        PROVE  u # t /\ dns'.name[u] = dns.name[u] /\ dns'.found[u] = dns.found[u]
                 /\ dns'.pc[u] = dns.pc[u]
    BY <1>2, <2>1 DEF DnsInv, DnsTables
  <2> QED
    BY <1>2, <2>1 DEF DnsInv, DnsIsRight, DnsOnlyWhatIsMeant
<1> QED
  BY <1>2, <1>3, <1>4, <1>5 DEF DnsInv, DnsIsRight

(* A connection goes to the port that stands for the asked one.            *)
LEMMA DnsConnectKeeps ==
  ASSUME DnsInv, NEW t \in DnsThreads, NEW port \in DOMAIN DnsPorts \cup {1},
         hook_connect(t, port)
  PROVE  DnsInv'
<1> DEFINE made == IF port \in DOMAIN DnsPorts /\ DnsPorts[port] # 0 THEN DnsPorts[port]
                   ELSE port
           pair == <<port, made>>
<1>1. CASE dns' = [dns EXCEPT !.port[t] = pair]
  <2>1. made \in Nat \ {0}
    BY DnsAssumption DEF DnsAssumption
  <2>2. pair[2] = made
    OBVIOUS
  <2> HIDE DEF pair, made
  <2>3. /\ dns'.rules = dns.rules /\ dns'.lock = dns.lock /\ dns'.pc = dns.pc
        /\ dns'.name = dns.name /\ dns'.found = dns.found
        /\ dns'.port = [dns.port EXCEPT ![t] = pair] /\ DnsShape'
    BY <1>1 DEF DnsInv, DnsShape
  <2>4. DnsTables'
    BY <2>3 DEF DnsInv, DnsTables
  <2>5. DnsTypeOK'
    <3>1. \A u \in DnsThreads : dns'.port[u] = IF u = t THEN pair ELSE dns.port[u]
      BY <2>3 DEF DnsInv, DnsTables
    <3> QED
      BY <2>1, <2>2, <2>3, <3>1 DEF DnsInv, DnsIsRight, DnsTypeOK
  <2>6. DnsOnlyWhatIsMeant'
    BY <2>3 DEF DnsInv, DnsIsRight, DnsOnlyWhatIsMeant
  <2> QED
    BY <2>3, <2>4, <2>5, <2>6 DEF DnsInv, DnsIsRight
<1>2. CASE dns' = [dns EXCEPT !.lock = <<t>>]
  <2>1. /\ dns'.rules = dns.rules /\ dns'.lock = <<t>> /\ dns'.pc = dns.pc
        /\ dns'.name = dns.name /\ dns'.found = dns.found /\ dns'.port = dns.port /\ DnsShape'
    BY <1>2 DEF DnsInv, DnsShape
  <2>2. DnsTables'
    BY <2>1 DEF DnsInv, DnsTables
  <2>3. DnsTypeOK'
    BY <2>1 DEF DnsInv, DnsIsRight, DnsTypeOK
  <2>4. DnsOnlyWhatIsMeant'
    BY <2>1 DEF DnsInv, DnsIsRight, DnsOnlyWhatIsMeant
  <2> QED
    BY <2>1, <2>2, <2>3, <2>4 DEF DnsInv, DnsIsRight
<1> QED
  BY <1>1, <1>2 DEF hook_connect

(* The host of a request is replaced.                                      *)
LEMMA DnsSendKeeps ==
  ASSUME DnsInv, NEW before, NEW host, NEW behind, hook_send(before, host, behind)
  PROVE  DnsInv'
<1>1. PICK sent : dns' = [dns EXCEPT !.sent = sent]
  BY DEF hook_send
<1>2. /\ dns'.rules = dns.rules /\ dns'.lock = dns.lock /\ dns'.pc = dns.pc
      /\ dns'.name = dns.name /\ dns'.found = dns.found /\ dns'.port = dns.port /\ DnsShape'
  BY <1>1 DEF DnsInv, DnsShape
<1>3. DnsTables'
  BY <1>2 DEF DnsInv, DnsTables
<1>4. DnsTypeOK'
  BY <1>2 DEF DnsInv, DnsIsRight, DnsTypeOK
<1>5. DnsOnlyWhatIsMeant'
  BY <1>2 DEF DnsInv, DnsIsRight, DnsOnlyWhatIsMeant
<1> QED
  BY <1>2, <1>3, <1>4, <1>5 DEF DnsInv, DnsIsRight

(* The names are right: a call that goes to another host, or nowhere, goes *)
(* where a rule sends it whose pattern means the name, whatever rules are  *)
(* pushed meanwhile; no port 0 is connected, and the lock is with a thread.*)
THEOREM NamesAreRight == DnsSpec => []DnsIsRight
<1>1. DnsInit => DnsInv
  <2> SUFFICES ASSUME DnsInit PROVE DnsInv
    OBVIOUS
  <2>1. DnsShape /\ DnsTables
    BY DEF DnsInit, DnsShape, DnsTables, DnsRules
  <2>2. DnsTypeOK
    BY DnsAssumption DEF DnsAssumption, DnsInit, DnsTypeOK
  <2>3. DnsOnlyWhatIsMeant
    BY DEF DnsInit, DnsOnlyWhatIsMeant
  <2> QED
    BY <2>1, <2>2, <2>3 DEF DnsInv, DnsIsRight
<1>2. DnsInv /\ [DnsNext]_dns => DnsInv'
  <2> SUFFICES ASSUME DnsInv, [DnsNext]_dns PROVE DnsInv'
    OBVIOUS
  <2>1. CASE UNCHANGED dns
    BY <2>1 DEF DnsInv, DnsShape, DnsTables, DnsIsRight, DnsTypeOK, DnsOnlyWhatIsMeant
  <2> QED
    BY <2>1, DnsPushKeeps, DnsReturnKeeps, DnsQueryKeeps, DnsConnectKeeps, DnsSendKeeps
       DEF DnsNext
<1>3. DnsInv => DnsIsRight
  BY DEF DnsInv
<1> QED
  BY <1>1, <1>2, <1>3, PTL DEF DnsSpec

-----------------------------------------------------------------------------
(* The registry keys: for any keys, handles and threads.                   *)

(* A handle more at the end of an array.                                   *)
LEMMA RegArrayGrows ==
  ASSUME NEW s \in Seq(RegHandles), NEW h \in RegHandles
  PROVE  /\ Append(s, h) \in Seq(RegHandles)
         /\ ToSet(Append(s, h)) = ToSet(s) \cup {h}
         /\ IsInjective(s) /\ h \notin ToSet(s) => IsInjective(Append(s, h))
<1> DEFINE a == Append(s, h)
           n == Len(s)
<1>1. /\ a \in Seq(RegHandles) /\ Len(a) = n + 1 /\ n \in Nat
      /\ DOMAIN a = 1..(n + 1) /\ DOMAIN s = 1..n
      /\ \A i \in 1..n : a[i] = s[i]
      /\ a[n + 1] = h
  <2>1. a \in Seq(RegHandles) /\ Len(a) = n + 1 /\ n \in Nat
    BY AppendProperties, LenProperties
  <2>2. \A i \in 1..n : a[i] = s[i]
    BY AppendProperties
  <2>3. a[n + 1] = h
    BY AppendProperties
  <2>4. DOMAIN a = 1..Len(a) /\ DOMAIN s = 1..Len(s)
    BY <2>1, LenProperties
  <2> QED
    BY <2>1, <2>2, <2>3, <2>4
<1> HIDE DEF a, n
<1>2. ToSet(a) = ToSet(s) \cup {h}
  <2>1. ASSUME NEW x \in ToSet(a) PROVE x \in ToSet(s) \cup {h}
    <3>1. PICK i \in 1..(n + 1) : x = a[i]
      BY <1>1 DEF ToSet
    <3>2. i \in 1..n \/ i = n + 1
      BY <1>1
    <3> QED
      BY <1>1, <3>1, <3>2 DEF ToSet
  <2>2. ASSUME NEW x \in ToSet(s) \cup {h} PROVE x \in ToSet(a)
    <3>1. CASE x = h
      <4>1. n + 1 \in 1..(n + 1)
        BY <1>1
      <4> QED
        BY <1>1, <3>1, <4>1 DEF ToSet
    <3>2. CASE x \in ToSet(s)
      <4>1. PICK i \in 1..n : x = s[i]
        BY <1>1, <3>2 DEF ToSet
      <4>2. i \in 1..(n + 1) /\ a[i] = x
        BY <1>1, <4>1
      <4> QED
        BY <1>1, <4>2 DEF ToSet
    <3> QED
      BY <3>1, <3>2
  <2> QED
    BY <2>1, <2>2
<1>3. ASSUME IsInjective(s), h \notin ToSet(s) PROVE IsInjective(a)
  <2> SUFFICES ASSUME NEW i \in 1..(n + 1), NEW j \in 1..(n + 1), a[i] = a[j] PROVE i = j
    BY <1>1 DEF IsInjective
  <2>1. (i \in 1..n \/ i = n + 1) /\ (j \in 1..n \/ j = n + 1)
    BY <1>1
  <2>2. \A k \in 1..n : s[k] # h
    BY <1>1, <1>3 DEF ToSet
  <2>3. CASE i \in 1..n /\ j \in 1..n
    BY <1>1, <1>3, <2>3 DEF IsInjective
  <2> QED
    BY <1>1, <2>1, <2>2, <2>3
<1> QED
  BY <1>1, <1>2, <1>3 DEF a

(* A handle that is taken out of an array.                                 *)
LEMMA RegArrayShrinks ==
  ASSUME NEW s \in Seq(RegHandles), NEW h, IsInjective(s)
  PROVE  /\ RemoveFirst(s, h) \in Seq(RegHandles)
         /\ ToSet(RemoveFirst(s, h)) = ToSet(s) \ {h}
         /\ IsInjective(RemoveFirst(s, h))
<1> DEFINE n == Len(s)
<1>1. n \in Nat /\ DOMAIN s = 1..n
  BY LenProperties
<1>2. CASE h \notin ToSet(s)
  <2>1. ~\E i \in 1..Len(s) : s[i] = h
    BY <1>1, <1>2 DEF ToSet
  <2>2. RemoveFirst(s, h) = s
    BY <2>1 DEF RemoveFirst
  <2> QED
    BY <1>2, <2>2
<1>3. CASE h \in ToSet(s)
  <2> DEFINE I == {i \in 1..Len(s) : s[i] = h}
             m == CHOOSE x \in I : \A y \in I : x <= y
             r == RemoveAt(s, m)
             a == SubSeq(s, 1, m - 1)
             b == SubSeq(s, m + 1, n)
  <2>1. I # {} /\ I \in SUBSET Nat
    BY <1>1, <1>3 DEF ToSet
  <2>2. \E x \in I : \A y \in I : x <= y
    BY <2>1, LeastExists
  <2>3. m \in I
    BY <2>2
  <2>4. RemoveFirst(s, h) = r
    <3>1. \E i \in 1..Len(s) : s[i] = h
      BY <2>1
    <3> QED
      BY <2>1, <3>1 DEF RemoveFirst, SelectInSeq, Min
  <2> HIDE DEF m
  <2>5. m \in 1..n /\ s[m] = h
    BY <2>3
  <2>6. \A i \in 1..n : s[i] \in RegHandles
    BY ElementOfSeq
  <2>7. /\ a \in Seq(RegHandles) /\ Len(a) = m - 1
        /\ \A i \in 1..(m - 1) : a[i] = s[i]
    <3>1. (\A i \in 1..(m - 1) : s[i] \in RegHandles) /\ m - 1 \in Int /\ 1 \in Int
      BY <1>1, <2>5, <2>6
    <3>2. /\ a \in Seq(RegHandles)
          /\ Len(a) = (IF 1 <= m - 1 THEN (m - 1) - 1 + 1 ELSE 0)
          /\ \A i \in 1..((m - 1) - 1 + 1) : a[i] = s[1 + i - 1]
      BY <3>1, SubSeqProperties
    <3> QED
      BY <1>1, <2>5, <3>2
  <2>8. /\ b \in Seq(RegHandles) /\ Len(b) = n - m
        /\ \A i \in 1..(n - m) : b[i] = s[m + i]
    <3>1. (\A i \in (m + 1)..n : s[i] \in RegHandles) /\ m + 1 \in Int /\ n \in Int
      BY <1>1, <2>5, <2>6
    <3>2. /\ b \in Seq(RegHandles)
          /\ Len(b) = (IF m + 1 <= n THEN n - (m + 1) + 1 ELSE 0)
          /\ \A i \in 1..(n - (m + 1) + 1) : b[i] = s[(m + 1) + i - 1]
      BY <3>1, SubSeqProperties
    <3> HIDE DEF b, n
    <3>3. n \in Nat /\ m \in Nat /\ m <= n
      BY ONLY <1>1, <2>5
    <3>4. n - (m + 1) + 1 = n - m /\ (m + 1 > n => n - m = 0)
      BY ONLY <3>3
    <3>5. ASSUME NEW i \in 1..(n - m) PROVE (m + 1) + i - 1 = m + i
      BY ONLY <3>3, i \in 1..(n - m)
    <3>6. Len(b) = n - m
      BY ONLY <3>2, <3>3, <3>4
    <3>7. \A i \in 1..(n - m) : b[i] = s[m + i]
      BY ONLY <3>2, <3>4, <3>5
    <3> QED
      BY <3>2, <3>6, <3>7
  <2>9. r = a \o b
    BY DEF RemoveAt
  <2> HIDE DEF I, r, a, b
  <2>10. /\ r \in Seq(RegHandles) /\ Len(r) = n - 1 /\ DOMAIN r = 1..(n - 1)
         /\ \A i \in 1..(n - 1) : r[i] = IF i < m THEN s[i] ELSE s[i + 1]
    <3>1. /\ r \in Seq(RegHandles) /\ Len(r) = (m - 1) + (n - m)
          /\ \A i \in 1..((m - 1) + (n - m)) :
               r[i] = IF i <= m - 1 THEN a[i] ELSE b[i - (m - 1)]
      <4>1. /\ r \in Seq(RegHandles) /\ Len(r) = Len(a) + Len(b)
            /\ \A i \in 1..(Len(a) + Len(b)) :
                 r[i] = IF i <= Len(a) THEN a[i] ELSE b[i - Len(a)]
        BY <2>7, <2>8, <2>9, ConcatProperties
      <4> QED
        BY <4>1, <2>7, <2>8
    <3>2. (m - 1) + (n - m) = n - 1
      BY <1>1, <2>5
    <3>3. ASSUME NEW i \in 1..(n - 1)
          PROVE  r[i] = IF i < m THEN s[i] ELSE s[i + 1]
      <4>1. CASE i < m
        <5>1. i <= m - 1 /\ i \in 1..(m - 1)
          BY <1>1, <2>5, <4>1
        <5> QED
          BY <2>7, <3>1, <3>2, <4>1, <5>1
      <4>2. CASE ~(i < m)
        <5>1. ~(i <= m - 1) /\ i - (m - 1) \in 1..(n - m) /\ m + (i - (m - 1)) = i + 1
          BY <1>1, <2>5, <4>2
        <5> QED
          BY <2>8, <3>1, <3>2, <4>2, <5>1
      <4> QED
        BY <4>1, <4>2
    <3>4. DOMAIN r = 1..Len(r)
      BY <3>1, LenProperties
    <3> QED
      BY <3>1, <3>2, <3>3, <3>4
  <2>11. IsInjective(r)
    <3> SUFFICES ASSUME NEW i \in 1..(n - 1), NEW j \in 1..(n - 1), r[i] = r[j] PROVE i = j
      BY <2>10 DEF IsInjective
    <3> DEFINE at(k) == IF k < m THEN k ELSE k + 1
    <3>1. at(i) \in 1..n /\ at(j) \in 1..n /\ r[i] = s[at(i)] /\ r[j] = s[at(j)]
      BY <1>1, <2>5, <2>10
    <3>2. at(i) = at(j)
      BY <1>1, <3>1 DEF IsInjective
    <3> QED
      BY <1>1, <2>5, <3>2
  <2>12. ToSet(r) = ToSet(s) \ {h}
    <3>1. ASSUME NEW x \in ToSet(r) PROVE x \in ToSet(s) \ {h}
      <4>1. PICK i \in 1..(n - 1) : x = r[i]
        BY <2>10 DEF ToSet
      <4> DEFINE at == IF i < m THEN i ELSE i + 1
      <4>2. at \in 1..n /\ at # m /\ x = s[at]
        BY <1>1, <2>5, <2>10, <4>1
      <4>3. x # h
        BY <1>1, <2>5, <4>2 DEF IsInjective
      <4> QED
        BY <1>1, <4>2, <4>3 DEF ToSet
    <3>2. ASSUME NEW x \in ToSet(s) \ {h} PROVE x \in ToSet(r)
      <4>1. PICK j \in 1..n : x = s[j]
        BY <1>1 DEF ToSet
      <4>2. j # m
        BY <2>5, <4>1
      <4> DEFINE i == IF j < m THEN j ELSE j - 1
      <4>3. i \in 1..(n - 1) /\ r[i] = x
        BY <1>1, <2>5, <2>10, <4>1, <4>2
      <4> QED
        BY <2>10, <4>3 DEF ToSet
    <3> QED
      BY <3>1, <3>2
  <2> QED
    BY <2>4, <2>10, <2>11, <2>12
<1> QED
  BY <1>2, <1>3

(* An array has no more handles than there are.                            *)
LEMMA RegArrayIsBounded ==
  ASSUME NEW s \in Seq(RegHandles), IsInjective(s), IsFiniteSet(RegHandles)
  PROVE  Len(s) <= Cardinality(RegHandles)
<1> DEFINE D == 1..Len(s)
<1>1. Len(s) \in Nat /\ s \in [D -> RegHandles]
  BY LenProperties
<1>2. s \in Injection(D, RegHandles)
  BY <1>1 DEF Injection
<1>3. Cardinality(D) <= Cardinality(RegHandles)
  BY <1>2, FS_Injection
<1>4. Cardinality(D) = Len(s)
  <2>1. Cardinality(D) = IF 1 > Len(s) THEN 0 ELSE Len(s) - 1 + 1
    BY <1>1, FS_Interval
  <2> QED
    BY <1>1, <2>1
<1> QED
  BY <1>3, <1>4


(* The fields of the hook.                                                 *)
RegShape ==
  reg = [pushed |-> reg.pushed, handles |-> reg.handles, open |-> reg.open, pc |-> reg.pc,
         h |-> reg.h, got |-> reg.got, lost |-> reg.lost]

(* Their types.                                                            *)
RegTables ==
  /\ reg.pushed \in Seq(RegKeys)
  /\ reg.handles \in [RegKeys -> Seq(RegHandles)]
  /\ reg.open \in [RegHandles -> RegKeys \cup {RegReal, RegNothing}]
  /\ reg.pc \in [RegThreads -> {"idle", "close"}]
  /\ reg.h \in [RegThreads -> RegHandles \cup {RegNothing}]
  /\ reg.got = [t \in RegThreads |-> reg.got[t]]
  /\ reg.lost \subseteq RegHandles

(* A handle of a pushed key that nobody is closing is in the key's array.  *)
RegIsListed ==
  \A g \in RegHandles :
    reg.open[g] \in RegKeys /\ (\A t \in RegThreads : reg.h[t] # g) =>
      g \in ToSet(reg.handles[reg.open[g]]) /\ reg.open[g] \in ToSet(reg.pushed)

(* One that is being closed is still open, in no array, and closed by one. *)
RegClosing ==
  /\ \A t \in RegThreads : reg.pc[t] = "close" <=> reg.h[t] # RegNothing
  /\ \A t \in RegThreads :
       reg.h[t] # RegNothing => /\ reg.open[reg.h[t]] # RegNothing
                                /\ \A k \in RegKeys : reg.h[t] \notin ToSet(reg.handles[k])
  /\ \A t \in RegThreads, u \in RegThreads :
       reg.h[t] = reg.h[u] /\ reg.h[t] # RegNothing => t = u

(* The invariant of the keys.                                              *)
RegInv ==
  /\ RegShape /\ RegTables /\ RegHandlesAreOpen /\ RegIsListed /\ RegClosing
  /\ RegAnswersForItsKey

(* RegFoundIsClosed, of one step.                                          *)
RegFoundStep ==
  \A t \in RegThreads : reg'.lost # reg.lost => reg'.got[t] = reg.got[t]
                          \/ reg'.got[t][1] = RegReal

(* As many handles are open at a time as there is room for, which the code *)
(* takes for granted.                                                      *)
RegRoom == IsFiniteSet(RegHandles) /\ Cardinality(RegHandles) <= RegMaxHandles

(* The key that is found for a handle is the one it was opened for.        *)
LEMMA RegMatches ==
  ASSUME RegInv, NEW g \in RegHandles, RegHeld(g)
  PROVE  reg_hook_match_key_locked(g) = reg.open[g]
<1> DEFINE has == {i \in 1..Len(reg.pushed) : g \in ToSet(reg.handles[reg.pushed[i]])}
           i == CHOOSE l \in has : \A j \in has : l <= j
<1>1. /\ Len(reg.pushed) \in Nat /\ DOMAIN reg.pushed = 1..Len(reg.pushed)
      /\ \A j \in 1..Len(reg.pushed) : reg.pushed[j] \in RegKeys
  BY ElementOfSeq, LenProperties DEF RegInv, RegTables
<1>2. /\ reg.open[g] \in RegKeys \cup {RegReal} /\ reg.open[g] # RegNothing
      /\ \A t \in RegThreads : reg.h[t] # g
  BY DEF RegInv, RegTables, RegHeld
<1>3. \A j \in has : reg.open[g] = reg.pushed[j]
  BY <1>1 DEF RegInv, RegHandlesAreOpen
<1>4. reg_hook_match_key_locked(g) = IF has = {} THEN RegReal ELSE reg.pushed[i]
  BY DEF reg_hook_match_key_locked
<1>5. CASE reg.open[g] = RegReal
  <2>1. has = {}
    BY <1>1, <1>3, <1>5, RegAssumption DEF RegAssumption
  <2> HIDE DEF has
  <2> QED
    BY <1>4, <1>5, <2>1
<1>6. CASE reg.open[g] \in RegKeys
  <2>1. /\ g \in ToSet(reg.handles[reg.open[g]]) /\ reg.open[g] \in ToSet(reg.pushed)
    BY <1>2, <1>6 DEF RegInv, RegIsListed
  <2>2. PICK j \in 1..Len(reg.pushed) : reg.open[g] = reg.pushed[j]
    BY <1>1, <2>1 DEF ToSet
  <2>3. has # {} /\ has \in SUBSET Nat
    BY <1>1, <2>1, <2>2
  <2>4. \E l \in has : \A m \in has : l <= m
    BY <2>3, LeastExists
  <2>5. i \in has
    BY <2>4
  <2> HIDE DEF i, has
  <2> QED
    BY <1>3, <1>4, <2>3, <2>5
<1> QED
  BY <1>2, <1>5, <1>6

(* A handle more of a key that was pushed.                                 *)
LEMMA RegOpensKey ==
  ASSUME RegInv, NEW k \in RegKeys, k \in ToSet(reg.pushed), NEW g \in RegFree, RegShape',
         reg'.handles = [reg.handles EXCEPT ![k] = Append(reg.handles[k], g)],
         reg'.open = [reg.open EXCEPT ![g] = k],
         reg'.pushed = reg.pushed, reg'.pc = reg.pc, reg'.h = reg.h, reg'.got = reg.got,
         reg'.lost \subseteq RegHandles
  PROVE  RegInv'
<1>1. /\ RegTables /\ RegHandlesAreOpen /\ RegIsListed /\ RegClosing /\ RegAnswersForItsKey
  BY DEF RegInv
<1>2. g \in RegHandles /\ reg.open[g] = RegNothing
  BY DEF RegFree
<1> DEFINE a == reg.handles[k]
           b == Append(a, g)
<1>3. a \in Seq(RegHandles) /\ IsInjective(a) /\ \A h \in ToSet(a) : reg.open[h] = k
  BY <1>1 DEF RegTables, RegHandlesAreOpen
<1>4. \A l \in RegKeys : g \notin ToSet(reg.handles[l])
  BY <1>1, <1>2, RegAssumption DEF RegHandlesAreOpen, RegAssumption
<1>5. b \in Seq(RegHandles) /\ ToSet(b) = ToSet(a) \cup {g} /\ IsInjective(b)
  BY <1>2, <1>3, <1>4, RegArrayGrows
<1>6. \A t \in RegThreads : reg.h[t] # g
  BY <1>1, <1>2, RegAssumption DEF RegClosing, RegAssumption
<1> HIDE DEF a, b
<1>7. /\ reg'.handles[k] = b
      /\ \A l \in RegKeys : l # k => reg'.handles[l] = reg.handles[l]
      /\ reg'.open[g] = k
      /\ \A h \in RegHandles : h # g => reg'.open[h] = reg.open[h]
  BY <1>1, <1>2 DEF RegTables, b, a
<1>8. RegTables'
  BY <1>1, <1>2, <1>5 DEF RegTables, b, a
<1>9. RegHandlesAreOpen'
  <2> SUFFICES ASSUME NEW l \in RegKeys
               PROVE  /\ IsInjective(reg'.handles[l])
                      /\ \A h \in ToSet(reg'.handles[l]) : reg'.open[h] = l
    BY DEF RegHandlesAreOpen
  <2>1. CASE l = k
    <3> SUFFICES ASSUME NEW h \in ToSet(b) PROVE reg'.open[h] = k
      BY <1>5, <1>7, <2>1
    <3>1. ToSet(a) \subseteq RegHandles
      BY <1>3, ElementOfSeq, LenProperties DEF ToSet
    <3> QED
      BY <1>3, <1>5, <1>7, <3>1
  <2>2. CASE l # k
    <3>1. ToSet(reg.handles[l]) \subseteq RegHandles
      BY <1>1, ElementOfSeq, LenProperties DEF ToSet, RegTables
    <3>2. /\ IsInjective(reg.handles[l])
          /\ \A h \in ToSet(reg.handles[l]) : reg.open[h] = l
      BY <1>1 DEF RegHandlesAreOpen
    <3> QED
      BY <1>4, <1>7, <2>2, <3>1, <3>2
  <2> QED
    BY <2>1, <2>2
<1>10. RegIsListed'
  <2> SUFFICES ASSUME NEW h \in RegHandles, reg'.open[h] \in RegKeys,
                      \A t \in RegThreads : reg.h[t] # h
               PROVE  /\ h \in ToSet(reg'.handles[reg'.open[h]])
                      /\ reg'.open[h] \in ToSet(reg.pushed)
    BY DEF RegIsListed
  <2>1. CASE h = g
    BY <1>5, <1>7, <2>1
  <2>2. CASE h # g
    <3>1. reg'.open[h] = reg.open[h]
      BY <1>7, <2>2
    <3>2. h \in ToSet(reg.handles[reg.open[h]]) /\ reg.open[h] \in ToSet(reg.pushed)
      BY <1>1, <3>1 DEF RegIsListed
    <3>3. CASE reg.open[h] = k
      BY <1>5, <1>7, <3>1, <3>2, <3>3 DEF a
    <3>4. CASE reg.open[h] # k
      BY <1>7, <3>1, <3>2, <3>4
    <3> QED
      BY <3>3, <3>4
  <2> QED
    BY <2>1, <2>2
<1>11. RegClosing'
  <2>1. ASSUME NEW t \in RegThreads, reg.h[t] # RegNothing
        PROVE  /\ reg'.open[reg.h[t]] # RegNothing
               /\ \A l \in RegKeys : reg.h[t] \notin ToSet(reg'.handles[l])
    <3>1. reg.h[t] \in RegHandles /\ reg.h[t] # g
      BY <1>1, <1>6, <2>1 DEF RegTables
    <3>2. reg.open[reg.h[t]] # RegNothing /\ \A l \in RegKeys : reg.h[t] \notin ToSet(reg.handles[l])
      BY <1>1, <2>1 DEF RegClosing
    <3>3. ASSUME NEW l \in RegKeys PROVE reg.h[t] \notin ToSet(reg'.handles[l])
      <4>1. CASE l = k
        BY <1>5, <1>7, <3>1, <3>2, <4>1 DEF a
      <4>2. CASE l # k
        BY <1>7, <3>2, <4>2
      <4> QED
        BY <4>1, <4>2
    <3> QED
      BY <1>7, <3>1, <3>2, <3>3
  <2> QED
    BY <1>1, <2>1 DEF RegClosing
<1>12. RegAnswersForItsKey'
  BY <1>1 DEF RegAnswersForItsKey
<1> QED
  BY <1>8, <1>9, <1>10, <1>11, <1>12 DEF RegInv

(* A handle more of a real key.                                            *)
LEMMA RegOpensOther ==
  ASSUME RegInv, NEW g \in RegFree, RegShape',
         reg'.handles = reg.handles, reg'.open = [reg.open EXCEPT ![g] = RegReal],
         reg'.pushed = reg.pushed, reg'.pc = reg.pc, reg'.h = reg.h,
         reg'.got = [t \in RegThreads |-> reg'.got[t]],
         \A t \in RegThreads : reg'.got[t][1] = reg'.got[t][2],
         reg'.lost \subseteq RegHandles
  PROVE  RegInv'
<1>1. /\ RegTables /\ RegHandlesAreOpen /\ RegIsListed /\ RegClosing
  BY DEF RegInv
<1>2. g \in RegHandles /\ reg.open[g] = RegNothing
  BY DEF RegFree
<1>3. \A l \in RegKeys : g \notin ToSet(reg.handles[l])
  BY <1>1, <1>2, RegAssumption DEF RegHandlesAreOpen, RegAssumption
<1>4. \A t \in RegThreads : reg.h[t] # g
  BY <1>1, <1>2, RegAssumption DEF RegClosing, RegAssumption
<1>5. /\ reg'.open[g] = RegReal
      /\ \A h \in RegHandles : h # g => reg'.open[h] = reg.open[h]
  BY <1>1, <1>2 DEF RegTables
<1>6. RegReal # RegNothing
  BY DEF RegReal, RegNothing
<1>7. RegTables'
  BY <1>1, <1>2 DEF RegTables
<1>8. RegHandlesAreOpen'
  <2> SUFFICES ASSUME NEW l \in RegKeys, NEW h \in ToSet(reg.handles[l])
               PROVE  reg'.open[h] = l
    BY <1>1 DEF RegHandlesAreOpen
  <2>1. h \in RegHandles
    BY <1>1, ElementOfSeq, LenProperties DEF ToSet, RegTables
  <2> QED
    BY <1>1, <1>3, <1>5, <2>1 DEF RegHandlesAreOpen
<1>9. RegIsListed'
  <2> SUFFICES ASSUME NEW h \in RegHandles, reg'.open[h] \in RegKeys,
                      \A t \in RegThreads : reg.h[t] # h
               PROVE  /\ h \in ToSet(reg.handles[reg'.open[h]])
                      /\ reg'.open[h] \in ToSet(reg.pushed)
    BY DEF RegIsListed
  <2>1. h # g
    BY <1>5, RegAssumption DEF RegAssumption
  <2> QED
    BY <1>1, <1>5, <2>1 DEF RegIsListed
<1>10. RegClosing'
  <2>1. ASSUME NEW t \in RegThreads, reg.h[t] # RegNothing
        PROVE  reg'.open[reg.h[t]] # RegNothing
    <3>1. reg.h[t] \in RegHandles /\ reg.h[t] # g
      BY <1>1, <1>4, <2>1 DEF RegTables
    <3> QED
      BY <1>1, <1>5, <2>1, <3>1 DEF RegClosing
  <2> QED
    BY <1>1, <2>1 DEF RegClosing
<1>11. RegAnswersForItsKey'
  BY DEF RegAnswersForItsKey
<1> QED
  BY <1>7, <1>8, <1>9, <1>10, <1>11 DEF RegInv

(* reg_hook_open_locked of a pushed key: a dummy handle more in its array. *)
LEMMA RegOpenKeyKeeps ==
  ASSUME RegInv, NEW t \in RegThreads, NEW k \in RegKeys, RegOpenKey(t, k)
  PROVE  RegInv' /\ RegFoundStep
<1>1. RegShape /\ RegTables
  BY DEF RegInv
<1>2. k \in ToSet(reg.pushed)
  BY DEF RegOpenKey
<1>3. PICK g \in RegFree :
        reg' = [reg EXCEPT !.handles[k] = Append(@, g), !.open[g] = k]
  BY DEF RegOpenKey
<1> DEFINE handles == [reg.handles EXCEPT ![k] = Append(reg.handles[k], g)]
           open == [reg.open EXCEPT ![g] = k]
<1>4. reg' = [reg EXCEPT !.handles = handles, !.open = open]
  BY <1>3, <1>1 DEF RegShape
<1> HIDE DEF handles, open
<1>5. reg' = [pushed |-> reg.pushed, handles |-> handles, open |-> open, pc |-> reg.pc,
              h |-> reg.h, got |-> reg.got, lost |-> reg.lost]
  BY <1>1, <1>4 DEF RegShape
<1>6. /\ reg'.pushed = reg.pushed /\ reg'.handles = handles /\ reg'.open = open
      /\ reg'.pc = reg.pc /\ reg'.h = reg.h /\ reg'.got = reg.got /\ reg'.lost = reg.lost
  BY <1>5
<1>7. RegShape'
  BY <1>5, <1>6 DEF RegShape
<1>8. RegInv'
  BY <1>1, <1>2, <1>6, <1>7, RegOpensKey DEF handles, open, RegTables
<1> QED
  BY <1>6, <1>8 DEF RegFoundStep

(* A key that is not pushed is opened by Windows, and no array holds it.   *)
LEMMA RegOpenRealKeeps ==
  ASSUME RegInv, NEW t \in RegThreads, RegOpenReal(t) \/ RegGetReal(t)
  PROVE  RegInv' /\ RegFoundStep
<1>1. RegShape /\ RegTables /\ RegAnswersForItsKey
  BY DEF RegInv
<1> DEFINE told == [reg.got EXCEPT ![t] = <<RegReal, RegReal>>]
<1>2. PICK g \in RegFree :
        \/ reg' = [reg EXCEPT !.open[g] = RegReal]
        \/ reg' = [reg EXCEPT !.open[g] = RegReal, !.lost = reg.lost \cup {g}, !.got = told]
  <2>1. CASE RegOpenReal(t)
    BY <2>1 DEF RegOpenReal
  <2>2. CASE RegGetReal(t)
    BY <2>2, <1>1 DEF RegGetReal, RegShape
  <2> QED
    BY <2>1, <2>2
<1> DEFINE open == [reg.open EXCEPT ![g] = RegReal]
           lost == reg.lost \cup {g}
<1>3. \/ reg' = [reg EXCEPT !.open = open]
      \/ reg' = [reg EXCEPT !.open = open, !.lost = lost, !.got = told]
  BY <1>2, <1>1 DEF RegShape
<1>4. /\ lost \subseteq RegHandles
      /\ told = [u \in RegThreads |-> told[u]]
      /\ \A u \in RegThreads : told[u] = reg.got[u] \/ told[u] = <<RegReal, RegReal>>
  BY <1>1 DEF RegTables, RegFree
<1> HIDE DEF open, lost, told
<1>5. \E l \in {reg.lost, lost}, d \in {reg.got, told} :
        /\ reg' = [pushed |-> reg.pushed, handles |-> reg.handles, open |-> open,
                   pc |-> reg.pc, h |-> reg.h, got |-> d, lost |-> l]
        /\ l = reg.lost \/ d = told
  <2>1. CASE reg' = [reg EXCEPT !.open = open]
    BY <1>1, <2>1 DEF RegShape
  <2>2. CASE reg' = [reg EXCEPT !.open = open, !.lost = lost, !.got = told]
    BY <1>1, <2>2 DEF RegShape
  <2> QED
    BY <1>3, <2>1, <2>2
<1>6. PICK l \in {reg.lost, lost}, d \in {reg.got, told} :
        /\ reg' = [pushed |-> reg.pushed, handles |-> reg.handles, open |-> open,
                   pc |-> reg.pc, h |-> reg.h, got |-> d, lost |-> l]
        /\ l = reg.lost \/ d = told
  BY <1>5
<1>7. /\ reg'.pushed = reg.pushed /\ reg'.handles = reg.handles /\ reg'.open = open
      /\ reg'.pc = reg.pc /\ reg'.h = reg.h /\ reg'.got = d /\ reg'.lost = l
  BY <1>6
<1>8. RegShape'
  BY <1>6, <1>7 DEF RegShape
<1>9. reg'.lost \subseteq RegHandles
  BY <1>1, <1>4, <1>7 DEF RegTables
<1>10. d = [u \in RegThreads |-> d[u]] /\ \A u \in RegThreads : d[u][1] = d[u][2]
  <2>1. CASE d = reg.got
    BY <1>1, <2>1 DEF RegTables, RegAnswersForItsKey
  <2>2. CASE d = told
    BY <1>1, <1>4, <2>2 DEF RegAnswersForItsKey
  <2> QED
    BY <2>1, <2>2
<1>11. RegInv'
  BY <1>7, <1>8, <1>9, <1>10, RegOpensOther DEF open
<1>12. RegFoundStep
  <2> SUFFICES ASSUME NEW u \in RegThreads, reg'.lost # reg.lost
               PROVE  reg'.got[u] = reg.got[u] \/ reg'.got[u][1] = RegReal
    BY DEF RegFoundStep
  <2>1. d = told
    BY <1>6, <1>7
  <2> QED
    BY <1>4, <1>7, <2>1
<1> QED
  BY <1>11, <1>12

(* What is answered changes, and it is right.                              *)
LEMMA RegToldKeeps ==
  ASSUME RegInv, NEW t \in RegThreads, NEW k, reg' = [reg EXCEPT !.got[t] = <<k, k>>]
  PROVE  RegInv' /\ RegFoundStep
<1>1. RegShape /\ RegTables
  BY DEF RegInv
<1> DEFINE told == [reg.got EXCEPT ![t] = <<k, k>>]
<1>2. reg' = [reg EXCEPT !.got = told]
  BY <1>1 DEF RegShape
<1>3. /\ told = [u \in RegThreads |-> told[u]]
      /\ \A u \in RegThreads : told[u] = reg.got[u] \/ told[u] = <<k, k>>
  BY <1>1 DEF RegTables
<1> HIDE DEF told
<1>4. reg' = [pushed |-> reg.pushed, handles |-> reg.handles, open |-> reg.open,
              pc |-> reg.pc, h |-> reg.h, got |-> told, lost |-> reg.lost]
  BY ONLY <1>1, <1>2 DEF RegShape
<1>5. /\ reg'.pushed = reg.pushed /\ reg'.handles = reg.handles /\ reg'.open = reg.open
      /\ reg'.pc = reg.pc /\ reg'.h = reg.h /\ reg'.got = told /\ reg'.lost = reg.lost
  BY <1>4
<1>6. RegShape'
  BY <1>4, <1>5 DEF RegShape
<1>7. RegAnswersForItsKey'
  BY <1>3, <1>5 DEF RegInv, RegAnswersForItsKey
<1>8. RegTables'
  BY ONLY <1>1, <1>3, <1>5 DEF RegTables
<1>9. RegHandlesAreOpen'
  BY <1>5 DEF RegInv, RegHandlesAreOpen
<1>10. RegIsListed'
  BY <1>5 DEF RegInv, RegIsListed
<1>11. RegClosing'
  BY <1>5 DEF RegInv, RegClosing
<1> QED
  BY <1>5, <1>6, <1>7, <1>8, <1>9, <1>10, <1>11 DEF RegInv, RegFoundStep

(* A call on a handle is answered for the key it was opened for.           *)
LEMMA RegUseKeeps ==
  ASSUME RegInv, NEW t \in RegThreads, NEW g \in RegHandles, RegUse(t, g)
  PROVE  RegInv' /\ RegFoundStep
<1>1. RegHeld(g) /\ reg' = RegAnswer(t, g)
  BY DEF RegUse
<1>2. reg_hook_match_key_locked(g) = reg.open[g]
  BY <1>1, RegMatches
<1> DEFINE k == reg.open[g]
<1>3. reg' = [reg EXCEPT !.got[t] = <<k, k>>]
  BY <1>1, <1>2 DEF RegAnswer
<1> HIDE DEF k
<1> QED
  BY <1>3, RegToldKeeps

(* RegGetValueW opens a key, and leaves it open when the value is missing. *)
LEMMA RegGetValueKeeps ==
  ASSUME RegRoom, RegInv, NEW t \in RegThreads, NEW k \in RegKeys, NEW name,
         hook_RegGetValueW(t, k, name)
  PROVE  RegInv' /\ RegFoundStep
<1>1. RegShape /\ RegTables
  BY DEF RegInv
<1>2. k \in ToSet(reg.pushed)
  BY DEF hook_RegGetValueW
<1>3. ~(Len(reg.handles[k]) > RegMaxHandles)
  <2> DEFINE s == reg.handles[k]
  <2>1. s \in Seq(RegHandles) /\ IsInjective(s)
    BY DEF RegInv, RegTables, RegHandlesAreOpen
  <2> HIDE DEF s
  <2>2. Len(s) <= Cardinality(RegHandles)
    BY <2>1, RegArrayIsBounded DEF RegRoom
  <2>3. Len(s) \in Nat /\ Cardinality(RegHandles) \in Nat /\ RegMaxHandles \in Nat
    BY <2>1, LenProperties, FS_CardinalityType, RegAssumption DEF RegRoom, RegAssumption
  <2>4. Cardinality(RegHandles) <= RegMaxHandles
    BY DEF RegRoom
  <2>5. ~(Len(s) > RegMaxHandles)
    BY <2>2, <2>3, <2>4
  <2> QED
    BY <2>5 DEF s
<1>4. PICK g \in RegFree :
        reg' = IF reg_hook_match_val_locked(k, name)
               THEN [reg EXCEPT !.got[t] = <<k, k>>]
               ELSE [reg EXCEPT !.handles[k] = Append(@, g), !.open[g] = k,
                                !.lost = @ \cup {g}]
  BY <1>3 DEF hook_RegGetValueW
<1>5. CASE reg_hook_match_val_locked(k, name)
  BY <1>4, <1>5, RegToldKeeps
<1>6. CASE ~reg_hook_match_val_locked(k, name)
  <2> DEFINE handles == [reg.handles EXCEPT ![k] = Append(reg.handles[k], g)]
             open == [reg.open EXCEPT ![g] = k]
             lost == reg.lost \cup {g}
  <2>1. reg' = [reg EXCEPT !.handles = handles, !.open = open, !.lost = lost]
    BY <1>1, <1>4, <1>6 DEF RegShape
  <2>2. lost \subseteq RegHandles
    BY <1>1 DEF RegTables, RegFree
  <2> HIDE DEF handles, open, lost
  <2>3. reg' = [pushed |-> reg.pushed, handles |-> handles, open |-> open, pc |-> reg.pc,
                h |-> reg.h, got |-> reg.got, lost |-> lost]
    BY ONLY <1>1, <2>1 DEF RegShape
  <2>4. /\ reg'.pushed = reg.pushed /\ reg'.handles = handles /\ reg'.open = open
        /\ reg'.pc = reg.pc /\ reg'.h = reg.h /\ reg'.got = reg.got /\ reg'.lost = lost
    BY <2>3
  <2>5. RegShape'
    BY <2>3, <2>4 DEF RegShape
  <2>6. RegInv'
    BY <1>2, <2>2, <2>4, <2>5, RegOpensKey DEF handles, open
  <2> QED
    BY <2>4, <2>6 DEF RegFoundStep
<1> QED
  BY <1>5, <1>6

(* A key pushed by the segatools.                                          *)
LEMMA RegPushKeeps ==
  ASSUME RegInv, NEW k \in RegKeys, reg_hook_push_key(k)
  PROVE  RegInv' /\ RegFoundStep
<1>1. RegShape /\ RegTables
  BY DEF RegInv
<1> DEFINE more == Append(reg.pushed, k)
<1>2. reg' = [reg EXCEPT !.pushed = more]
  BY DEF reg_hook_push_key
<1>3. more \in Seq(RegKeys) /\ ToSet(reg.pushed) \subseteq ToSet(more)
  <2>1. /\ more \in Seq(RegKeys) /\ Len(more) = Len(reg.pushed) + 1
        /\ \A i \in 1..Len(reg.pushed) : more[i] = reg.pushed[i]
    BY <1>1, AppendProperties DEF RegTables
  <2>2. /\ Len(reg.pushed) \in Nat /\ DOMAIN reg.pushed = 1..Len(reg.pushed)
        /\ DOMAIN more = 1..Len(more)
    BY <1>1, <2>1, LenProperties DEF RegTables
  <2> HIDE DEF more
  <2>3. ASSUME NEW x \in ToSet(reg.pushed) PROVE x \in ToSet(more)
    <3>1. PICK i \in 1..Len(reg.pushed) : x = reg.pushed[i]
      BY <2>2 DEF ToSet
    <3>2. i \in 1..Len(more) /\ more[i] = x
      BY <2>1, <2>2, <3>1
    <3> QED
      BY <2>2, <3>2 DEF ToSet
  <2> QED
    BY <2>1, <2>3
<1> HIDE DEF more
<1>4. reg' = [pushed |-> more, handles |-> reg.handles, open |-> reg.open,
              pc |-> reg.pc, h |-> reg.h, got |-> reg.got, lost |-> reg.lost]
  BY ONLY <1>1, <1>2 DEF RegShape
<1>5. /\ reg'.pushed = more /\ reg'.handles = reg.handles /\ reg'.open = reg.open
      /\ reg'.pc = reg.pc /\ reg'.h = reg.h /\ reg'.got = reg.got /\ reg'.lost = reg.lost
  BY <1>4
<1>6. RegShape'
  BY <1>4, <1>5 DEF RegShape
<1>7. RegTables' /\ RegHandlesAreOpen' /\ RegClosing' /\ RegAnswersForItsKey'
  BY <1>1, <1>3, <1>5
    DEF RegInv, RegTables, RegHandlesAreOpen, RegClosing, RegAnswersForItsKey
<1>8. RegIsListed'
  BY <1>3, <1>5 DEF RegInv, RegIsListed
<1> QED
  BY <1>5, <1>6, <1>7, <1>8 DEF RegInv, RegFoundStep

(* RegCloseKey takes the handle out of its array, under the lock.          *)
LEMMA RegCloseKeeps ==
  ASSUME RegInv, NEW t \in RegThreads, NEW g \in RegHandles, hook_RegCloseKey(t, g)
  PROVE  RegInv' /\ RegFoundStep
<1>1. /\ RegShape /\ RegTables /\ RegHandlesAreOpen /\ RegIsListed /\ RegClosing
      /\ RegAnswersForItsKey
  BY DEF RegInv
<1> DEFINE handles == RegForget(g)
           pc == [reg.pc EXCEPT ![t] = "close"]
           h == [reg.h EXCEPT ![t] = g]
<1>2. /\ reg.pc[t] = "idle" /\ reg.open[g] # RegNothing
      /\ \A u \in RegThreads : reg.h[u] # g
      /\ reg' = [reg EXCEPT !.handles = handles, !.pc = pc, !.h = h]
  BY <1>1 DEF hook_RegCloseKey, RegIdle, RegHeld, RegShape
<1>3. handles \in [RegKeys -> Seq(RegHandles)]
      /\ \A k \in RegKeys : /\ ToSet(handles[k]) = ToSet(reg.handles[k]) \ {g}
                            /\ IsInjective(handles[k])
  <2>1. ASSUME NEW k \in RegKeys
        PROVE  /\ RemoveFirst(reg.handles[k], g) \in Seq(RegHandles)
               /\ ToSet(RemoveFirst(reg.handles[k], g)) = ToSet(reg.handles[k]) \ {g}
               /\ IsInjective(RemoveFirst(reg.handles[k], g))
    <3>1. reg.handles[k] \in Seq(RegHandles) /\ IsInjective(reg.handles[k])
      BY <1>1 DEF RegTables, RegHandlesAreOpen
    <3> QED
      BY <3>1, RegArrayShrinks
  <2> QED
    BY <2>1 DEF RegForget
<1>4. /\ pc \in [RegThreads -> {"idle", "close"}] /\ pc[t] = "close"
      /\ \A u \in RegThreads : u # t => pc[u] = reg.pc[u]
      /\ h \in [RegThreads -> RegHandles \cup {RegNothing}] /\ h[t] = g
      /\ \A u \in RegThreads : u # t => h[u] = reg.h[u]
  BY <1>1 DEF RegTables
<1> HIDE DEF handles, pc, h
<1>5. reg' = [pushed |-> reg.pushed, handles |-> handles, open |-> reg.open, pc |-> pc,
              h |-> h, got |-> reg.got, lost |-> reg.lost]
  BY ONLY <1>1, <1>2 DEF RegShape
<1>6. /\ reg'.pushed = reg.pushed /\ reg'.handles = handles /\ reg'.open = reg.open
      /\ reg'.pc = pc /\ reg'.h = h /\ reg'.got = reg.got /\ reg'.lost = reg.lost
  BY <1>5
<1>7. RegShape'
  BY <1>5, <1>6 DEF RegShape
<1>8. RegTables' /\ RegHandlesAreOpen' /\ RegAnswersForItsKey'
  BY <1>1, <1>3, <1>4, <1>6 DEF RegTables, RegHandlesAreOpen, RegAnswersForItsKey
<1>9. RegIsListed'
  <2> SUFFICES ASSUME NEW x \in RegHandles, reg.open[x] \in RegKeys,
                      \A u \in RegThreads : h[u] # x
               PROVE  /\ x \in ToSet(handles[reg.open[x]])
                      /\ reg.open[x] \in ToSet(reg.pushed)
    BY <1>6 DEF RegIsListed
  <2>1. x # g /\ \A u \in RegThreads : reg.h[u] # x
    <3>1. x # g
      BY <1>4
    <3>2. reg.h[t] = RegNothing
      BY <1>1, <1>2 DEF RegClosing
    <3>3. x # RegNothing
      BY RegAssumption DEF RegAssumption
    <3> QED
      BY <1>4, <3>1, <3>2, <3>3
  <2>2. x \in ToSet(reg.handles[reg.open[x]]) /\ reg.open[x] \in ToSet(reg.pushed)
    BY <1>1, <2>1 DEF RegIsListed
  <2> QED
    BY <1>3, <2>1, <2>2
<1>10. RegClosing'
  <2>1. g # RegNothing
    BY RegAssumption DEF RegAssumption
  <2>2. \A u \in RegThreads : pc[u] = "close" <=> h[u] # RegNothing
    BY <1>1, <1>4, <2>1 DEF RegClosing
  <2>3. ASSUME NEW u \in RegThreads, h[u] # RegNothing
        PROVE  /\ reg.open[h[u]] # RegNothing
               /\ \A k \in RegKeys : h[u] \notin ToSet(handles[k])
    <3>1. CASE u = t
      BY <1>2, <1>3, <1>4, <3>1
    <3>2. CASE u # t
      <4>1. h[u] = reg.h[u]
        BY <1>4, <3>2
      <4>2. /\ reg.open[reg.h[u]] # RegNothing
            /\ \A k \in RegKeys : reg.h[u] \notin ToSet(reg.handles[k])
        BY <1>1, <2>3, <4>1 DEF RegClosing
      <4> QED
        BY <1>3, <4>1, <4>2
    <3> QED
      BY <3>1, <3>2
  <2>4. ASSUME NEW u \in RegThreads, NEW v \in RegThreads, h[u] = h[v], h[u] # RegNothing
        PROVE  u = v
    <3>1. CASE u = t \/ v = t
      BY <1>2, <1>4, <2>4, <3>1
    <3>2. CASE u # t /\ v # t
      BY <1>1, <1>4, <2>4, <3>2 DEF RegClosing
    <3> QED
      BY <3>1, <3>2
  <2> QED
    BY <1>6, <2>2, <2>3, <2>4 DEF RegClosing
<1>11. RegInv'
  BY <1>7, <1>8, <1>9, <1>10 DEF RegInv
<1> QED
  BY <1>6, <1>11 DEF RegFoundStep

(* It closes the handle after the lock.                                    *)
LEMMA RegClosedKeeps ==
  ASSUME RegInv, NEW t \in RegThreads, RegClosed(t)
  PROVE  RegInv' /\ RegFoundStep
<1>1. /\ RegShape /\ RegTables /\ RegHandlesAreOpen /\ RegIsListed /\ RegClosing
      /\ RegAnswersForItsKey
  BY DEF RegInv
<1> DEFINE g == reg.h[t]
           open == [reg.open EXCEPT ![g] = RegNothing]
           pc == [reg.pc EXCEPT ![t] = "idle"]
           h == [reg.h EXCEPT ![t] = RegNothing]
<1>2. reg.pc[t] = "close" /\ reg' = [reg EXCEPT !.open = open, !.pc = pc, !.h = h]
  BY <1>1 DEF RegClosed, RegShape
<1>3. /\ g # RegNothing /\ g \in RegHandles
      /\ \A k \in RegKeys : g \notin ToSet(reg.handles[k])
      /\ \A u \in RegThreads : u # t => reg.h[u] # g
  BY <1>1, <1>2 DEF RegClosing, RegTables
<1>4. /\ open \in [RegHandles -> RegKeys \cup {RegReal, RegNothing}] /\ open[g] = RegNothing
      /\ \A x \in RegHandles : x # g => open[x] = reg.open[x]
      /\ pc \in [RegThreads -> {"idle", "close"}] /\ pc[t] = "idle"
      /\ \A u \in RegThreads : u # t => pc[u] = reg.pc[u]
      /\ h \in [RegThreads -> RegHandles \cup {RegNothing}] /\ h[t] = RegNothing
      /\ \A u \in RegThreads : u # t => h[u] = reg.h[u]
  BY <1>1, <1>3 DEF RegTables
<1>5. g = reg.h[t]
  OBVIOUS
<1> HIDE DEF open, pc, h, g
<1>6. reg' = [pushed |-> reg.pushed, handles |-> reg.handles, open |-> open, pc |-> pc,
              h |-> h, got |-> reg.got, lost |-> reg.lost]
  BY ONLY <1>1, <1>2 DEF RegShape
<1>7. /\ reg'.pushed = reg.pushed /\ reg'.handles = reg.handles /\ reg'.open = open
      /\ reg'.pc = pc /\ reg'.h = h /\ reg'.got = reg.got /\ reg'.lost = reg.lost
  BY <1>6
<1>8. RegShape'
  BY <1>6, <1>7 DEF RegShape
<1>9. RegTables' /\ RegAnswersForItsKey'
  BY <1>1, <1>4, <1>7 DEF RegTables, RegAnswersForItsKey
<1>10. RegHandlesAreOpen'
  <2> SUFFICES ASSUME NEW k \in RegKeys, NEW x \in ToSet(reg.handles[k])
               PROVE  open[x] = k
    BY <1>1, <1>7 DEF RegHandlesAreOpen
  <2>1. x \in RegHandles
    BY <1>1, ElementOfSeq, LenProperties DEF ToSet, RegTables
  <2> QED
    BY <1>1, <1>3, <1>4, <2>1 DEF RegHandlesAreOpen
<1>11. RegIsListed'
  <2> SUFFICES ASSUME NEW x \in RegHandles, open[x] \in RegKeys,
                      \A u \in RegThreads : h[u] # x
               PROVE  /\ x \in ToSet(reg.handles[open[x]])
                      /\ open[x] \in ToSet(reg.pushed)
    BY <1>7 DEF RegIsListed
  <2>1. x # g
    BY <1>4, RegAssumption DEF RegAssumption
  <2>2. \A u \in RegThreads : reg.h[u] # x
    BY <1>4, <1>5, <2>1
  <2> QED
    BY <1>1, <1>4, <2>1, <2>2 DEF RegIsListed
<1>12. RegClosing'
  <2>1. "idle" # "close"
    OBVIOUS
  <2>2. \A u \in RegThreads : pc[u] = "close" <=> h[u] # RegNothing
    BY <1>1, <1>4, <2>1 DEF RegClosing
  <2>3. ASSUME NEW u \in RegThreads, h[u] # RegNothing
        PROVE  /\ open[h[u]] # RegNothing
               /\ \A k \in RegKeys : h[u] \notin ToSet(reg.handles[k])
    <3>1. u # t /\ h[u] = reg.h[u] /\ h[u] # g /\ h[u] \in RegHandles
      BY <1>3, <1>4, <2>3
    <3> QED
      BY <1>1, <1>4, <2>3, <3>1 DEF RegClosing
  <2>4. ASSUME NEW u \in RegThreads, NEW v \in RegThreads, h[u] = h[v], h[u] # RegNothing
        PROVE  u = v
    <3>1. u # t /\ v # t
      BY <1>4, <2>4
    <3> QED
      BY <1>1, <1>4, <2>4, <3>1 DEF RegClosing
  <2> QED
    BY <1>7, <2>2, <2>3, <2>4 DEF RegClosing
<1>13. RegInv'
  BY <1>8, <1>9, <1>10, <1>11, <1>12 DEF RegInv
<1> QED
  BY <1>7, <1>13 DEF RegFoundStep

(* The invariant holds when nothing is pushed and nothing is open.         *)
LEMMA RegStarts == RegInit => RegInv
<1> SUFFICES ASSUME RegInit PROVE RegInv
  OBVIOUS
<1>1. /\ reg.pushed = <<>> /\ reg.handles = [k \in RegKeys |-> <<>>]
      /\ reg.open = [g \in RegHandles |-> RegNothing]
      /\ reg.pc = [t \in RegThreads |-> "idle"] /\ reg.h = [t \in RegThreads |-> RegNothing]
      /\ reg.got = [t \in RegThreads |-> <<RegNothing, RegNothing>>] /\ reg.lost = {}
  BY DEF RegInit
<1>2. RegShape
  BY <1>1 DEF RegInit, RegShape
<1>3. /\ <<>> \in Seq(RegKeys) /\ <<>> \in Seq(RegHandles) /\ ToSet(<<>>) = {}
      /\ IsInjective(<<>>)
  BY EmptySeq DEF ToSet, IsInjective
<1>4. RegTables
  BY <1>1, <1>3 DEF RegTables
<1>5. RegHandlesAreOpen /\ RegIsListed /\ RegClosing /\ RegAnswersForItsKey
  BY <1>1, <1>3, RegAssumption DEF RegHandlesAreOpen, RegIsListed, RegClosing,
    RegAnswersForItsKey, RegAssumption
<1> QED
  BY <1>2, <1>4, <1>5 DEF RegInv

(* Every step of the keys keeps it.                                        *)
LEMMA RegKeeps ==
  ASSUME RegRoom, RegInv, [RegNext]_reg
  PROVE  RegInv' /\ RegFoundStep
<1>1. CASE UNCHANGED reg
  BY <1>1 DEF RegInv, RegShape, RegTables, RegHandlesAreOpen, RegIsListed, RegClosing,
    RegAnswersForItsKey, RegFoundStep
<1>2. CASE \E k \in RegKeys : reg_hook_push_key(k)
  BY <1>2, RegPushKeeps
<1>3. CASE \E t \in RegThreads : RegOpenReal(t) \/ RegClosed(t) \/ RegGetReal(t)
  BY <1>3, RegOpenRealKeeps, RegClosedKeeps
<1>4. CASE \E t \in RegThreads, k \in RegKeys : RegOpenKey(t, k)
  BY <1>4, RegOpenKeyKeeps
<1>5. CASE \E t \in RegThreads, k \in RegKeys, name \in RegNames : hook_RegGetValueW(t, k, name)
  BY <1>5, RegGetValueKeeps
<1>6. CASE \E t \in RegThreads, g \in RegHandles : hook_RegCloseKey(t, g) \/ RegUse(t, g)
  BY <1>6, RegCloseKeeps, RegUseKeeps
<1> QED
  BY <1>1, <1>2, <1>3, <1>4, <1>5, <1>6 DEF RegNext

(* For any keys, handles and threads, if there is room for the handles     *)
(* that are open at a time: a call with a handle is answered for the key   *)
(* it was opened for, the arrays hold handles that are open, each one      *)
(* once, and a value that was found leaves no handle behind.               *)
THEOREM KeysAreRight ==
  ASSUME RegRoom
  PROVE  RegSpec => RegIsRight
<1>1. RegInv => RegTypeOK /\ RegAnswersForItsKey /\ RegHandlesAreOpen
  <2> SUFFICES ASSUME RegInv PROVE RegTypeOK
    BY DEF RegInv
  <2>1. RegTables /\ RegClosing
    BY DEF RegInv
  <2>2. \A k \in RegKeys : ToSet(reg.handles[k]) \subseteq RegHandles
    BY <2>1, ElementOfSeq, LenProperties DEF ToSet, RegTables
  <2>3. ToSet(reg.pushed) \subseteq RegKeys
    BY <2>1, ElementOfSeq, LenProperties DEF ToSet, RegTables
  <2> QED
    BY <2>1, <2>2, <2>3 DEF RegTypeOK, RegTables, RegClosing
<1>2. RegInv /\ [RegNext]_reg => RegInv' /\ [RegFoundStep]_reg
  BY RegKeeps
<1> QED
  BY <1>1, <1>2, RegStarts, PTL DEF RegSpec, RegIsRight, RegFoundIsClosed, RegFoundStep

===================================================================================
