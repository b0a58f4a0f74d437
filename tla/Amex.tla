---------------------------------- MODULE Amex ----------------------------------
(***************************************************************************)
(* How a game finds and opens the devices of the board (hooklib/setupapi.c *)
(* and amex/): a list of devices is asked of Windows by class, and as the  *)
(* first of its entries the emulated device of that class is told.  EEPROM *)
(* and SRAM are files of a fixed size that one handle at a time may open.  *)
(***************************************************************************)
EXTENDS Integers, Sequences, FiniteSets, SequencesExt

CONSTANTS
  AmexClasses,   (* classes with a device, in the order of amex_hook_init  *)
  AmexReal,      (* devices of the PC for every class                      *)
  AmexSets,      (* handles of Windows for lists of devices                *)
  AmexThreads,   (* threads that open the EEPROM                           *)
  AmexCells,     (* places of the EEPROM that are written                  *)
  AmexStarts     (* bound: starts of the game                              *)

AmexGuids == DOMAIN AmexReal
AmexZero == 0
AmexNone == "none"
AmexJunk == "junk"

ASSUME AmexAssumption ==
  /\ AmexClasses \in Seq(AmexGuids) /\ AmexStarts \in Nat
  /\ AmexNone \notin AmexGuids \cup AmexSets /\ AmexJunk \notin AmexSets
  /\ 0 \notin AmexThreads

(* Windows tells each device of the PC once, and none has a path like      *)
(* those of the emulated devices, "$eeprom" and so on.                     *)
ASSUME AmexPaths ==
  \A guid \in AmexGuids :
    /\ AmexReal[guid] \in Seq(ToSet(AmexReal[guid]))
    /\ \A i, j \in DOMAIN AmexReal[guid] : AmexReal[guid][i] = AmexReal[guid][j] => i = j
    /\ ToSet(AmexReal[guid]) \cap AmexGuids = {}

(* setupapi: classes: setupapi_classes, by their places in AmexClasses,    *)
(* with cur_handle; lists: what Windows knows of a handle, and what the    *)
(* game was told until all was told; newest: no later list of the class;   *)
(* stray: a class that had no list yet has that handle by chance.          *)
(* amex: file: eeprom_file; os: the handle Windows has open of the backing *)
(* store; size: of the store, which may be "none", "short" or "whole";     *)
(* data, true: its bytes, and those last written; pc, fd: the step and the *)
(* handle of a thread; raced: two threads were inside the open at once;    *)
(* starts: of the game                                                     *)
VARIABLES setupapi, amex

AmexVars == <<setupapi, amex>>

AmexNoList == [guid |-> AmexNone, told |-> <<>>, all |-> FALSE, newest |-> FALSE,
               stray |-> FALSE]
AmexBlank == [c \in AmexCells |-> AmexZero]

AmexInit ==
  /\ setupapi = [classes |-> <<>>, lists |-> [s \in AmexSets |-> AmexNoList]]
  /\ amex = [file |-> 0, os |-> 0, size |-> "none", data |-> AmexBlank, true |-> AmexBlank,
             pc |-> [t \in AmexThreads |-> "off"], fd |-> [t \in AmexThreads |-> 0],
             raced |-> FALSE, starts |-> 0]

AmexRuns == setupapi.classes # <<>>

-----------------------------------------------------------------------------
(* Start: each device that is enabled adds itself.  cur_handle is not set: *)
(* it is whatever realloc left there.                                      *)
setupapi_add_phantom_dev(guid) == [guid |-> guid, cur_handle |-> AmexJunk]

amex_hook_init(enabled) ==
  /\ ~AmexRuns /\ amex.starts < AmexStarts
  /\ LET added == {i \in DOMAIN AmexClasses : AmexClasses[i] \in enabled}
     IN setupapi' = [setupapi EXCEPT
          !.classes = [i \in added |-> setupapi_add_phantom_dev(AmexClasses[i])]]
  /\ amex' = [amex EXCEPT !.starts = @ + 1,
       !.pc = [t \in AmexThreads |-> IF "eeprom" \in enabled THEN "idle" ELSE "off"]]

(* The end of the game, at any step.                                       *)
AmexOff ==
  /\ AmexRuns
  /\ setupapi' = [classes |-> <<>>, lists |-> [s \in AmexSets |-> AmexNoList]]
  /\ amex' = [amex EXCEPT !.file = 0, !.os = 0, !.pc = [t \in AmexThreads |-> "off"],
                          !.fd = [t \in AmexThreads |-> 0], !.raced = FALSE]

-----------------------------------------------------------------------------
(* Lists of devices.                                                       *)

(* What a class has never been given may be any handle, also one that      *)
(* Windows gives for a list of another class.                              *)
AmexUnset(guid) ==
  {i \in DOMAIN setupapi.classes : /\ setupapi.classes[i].guid # guid
                                   /\ setupapi.classes[i].cur_handle = AmexJunk}

AmexGive(classes, entries, handle) ==
  [i \in DOMAIN classes |-> IF i \in entries THEN [classes[i] EXCEPT !.cur_handle = handle]
                            ELSE classes[i]]

AmexList(lists, s, guid, stray) ==
  [r \in AmexSets |->
     IF r = s THEN [AmexNoList EXCEPT !.guid = guid, !.newest = TRUE, !.stray = stray]
     ELSE [lists[r] EXCEPT !.newest = @ /\ lists[r].guid # guid]]

(* A list that is new, and the entries that have its handle.               *)
AmexListed(s, guid, entries, chance) ==
  setupapi' = [setupapi EXCEPT !.classes = AmexGive(@, entries, s),
                               !.lists = AmexList(@, s, guid, chance # {})]

AmexOfClass(guid) == {i \in DOMAIN setupapi.classes : setupapi.classes[i].guid = guid}

(* Broken: the class keeps its first handle.                               *)
AmexKeepsFirst(s, guid) ==
  /\ AmexRuns /\ setupapi.lists[s].guid = AmexNone
  /\ LET first == {i \in AmexOfClass(guid) :
                     setupapi.classes[i].cur_handle \in {AmexJunk, AmexNone}}
     IN \E chance \in SUBSET AmexUnset(guid) :
          AmexListed(s, guid, first \cup chance, chance)
  /\ UNCHANGED amex

(* Windows gives a handle that is not in use, which the class keeps.       *)
my_SetupDiGetClassDevs(s, guid) ==
  /\ AmexRuns /\ setupapi.lists[s].guid = AmexNone
  /\ \E chance \in SUBSET AmexUnset(guid) :
       AmexListed(s, guid, AmexOfClass(guid) \cup chance, chance)
  /\ UNCHANGED amex

AmexPhantoms(s) == {i \in DOMAIN setupapi.classes : setupapi.classes[i].cur_handle = s}

(* Broken: the emulated device comes before the whole list.                *)
AmexSkipsOne(s) ==
  /\ AmexRuns /\ setupapi.lists[s].guid # AmexNone /\ ~setupapi.lists[s].all
  /\ LET index == Len(setupapi.lists[s].told)
         real == AmexReal[setupapi.lists[s].guid]
     IN setupapi' = [setupapi EXCEPT !.lists[s] =
          IF index = 0 /\ AmexPhantoms(s) # {}
          THEN [@ EXCEPT !.told = <<setupapi.classes[CHOOSE i \in AmexPhantoms(s) : TRUE].guid>>]
          ELSE IF index + 1 \in DOMAIN real THEN [@ EXCEPT !.told = Append(@, real[index + 1])]
          ELSE [@ EXCEPT !.all = TRUE]]
  /\ UNCHANGED amex

(* Any entry but the first is one further in the list of Windows, whether  *)
(* or not the first was the emulated device.                               *)
AmexTellNext(s) ==
  LET l == setupapi.lists[s]
      index == Len(l.told)
      real == AmexReal[l.guid]
      at == IF index = 0 THEN 1 ELSE index
      first == CHOOSE i \in AmexPhantoms(s) : \A j \in AmexPhantoms(s) : i <= j
  IN  IF index = 0 /\ AmexPhantoms(s) # {}
      THEN [l EXCEPT !.told = <<setupapi.classes[first].guid>>]
      ELSE IF at \in DOMAIN real THEN [l EXCEPT !.told = Append(l.told, real[at])]
      ELSE [l EXCEPT !.all = TRUE]

my_SetupDiEnumDeviceInterfaces(s) ==
  /\ AmexRuns /\ setupapi.lists[s].guid # AmexNone /\ ~setupapi.lists[s].all
  /\ setupapi' = [setupapi EXCEPT !.lists[s] = AmexTellNext(s)]
  /\ UNCHANGED amex

(* Broken: the class keeps a handle that is no more.                       *)
AmexForgetsNot(s) ==
  /\ AmexRuns /\ setupapi.lists[s].guid # AmexNone
  /\ setupapi' = [setupapi EXCEPT !.lists[s] = AmexNoList]
  /\ UNCHANGED amex

my_SetupDiDestroyDeviceInfoList(s) ==
  /\ AmexRuns /\ setupapi.lists[s].guid # AmexNone
  /\ setupapi' = [setupapi EXCEPT !.lists[s] = AmexNoList,
                                  !.classes = AmexGive(@, AmexPhantoms(s), AmexNone)]
  /\ UNCHANGED amex

-----------------------------------------------------------------------------
(* EEPROM; SRAM is the same but for its size.                              *)

AmexOpening(t) == amex.pc[t] \notin {"off", "idle"}

(* A file that is open is refused.                                         *)
eeprom_handle_open(t) ==
  /\ amex.pc[t] = "idle" /\ amex.fd[t] = 0 /\ amex.file = 0
  /\ amex' = [amex EXCEPT !.pc[t] = "clear",
                          !.raced = @ \/ \E u \in AmexThreads \ {t} : AmexOpening(u)]
  /\ UNCHANGED setupapi

(* nvram_open_file: eeprom_file is cleared first,                          *)
AmexClear(t) ==
  /\ amex.pc[t] = "clear"
  /\ amex' = [amex EXCEPT !.pc[t] = "create", !.file = 0]
  /\ UNCHANGED setupapi

(* Broken: the store is emptied.                                           *)
AmexCreateAlways(t) ==
  /\ amex.pc[t] = "create"
  /\ \/ amex' = [amex EXCEPT !.pc[t] = "idle"]
     \/ /\ amex.os = 0
        /\ amex' = [amex EXCEPT !.pc[t] = "size", !.os = t, !.size = "short",
                                !.data = AmexBlank]
  /\ UNCHANGED setupapi

(* then the store is opened, which Windows may refuse and does for one     *)
(* handle only, and made if there is none;                                 *)
AmexCreate(t) ==
  /\ amex.pc[t] = "create"
  /\ \/ amex' = [amex EXCEPT !.pc[t] = "idle"]
     \/ /\ amex.os = 0
        /\ amex' = [amex EXCEPT !.pc[t] = "size", !.os = t,
                                !.size = IF @ = "none" THEN "short" ELSE @]
  /\ UNCHANGED setupapi

(* Broken: the file stays open when its size cannot be set.                *)
AmexLeavesOpen(t) ==
  /\ amex.pc[t] = "size"
  /\ \/ amex' = [amex EXCEPT !.pc[t] = "take", !.size = "whole", !.file = t]
     \/ amex' = [amex EXCEPT !.pc[t] = "idle"]
  /\ UNCHANGED setupapi

(* its size is asked for and set, unless that fails, and eeprom_file too.  *)
nvram_open_file(t) ==
  /\ amex.pc[t] = "size"
  /\ \/ amex' = [amex EXCEPT !.pc[t] = "take", !.size = "whole", !.file = t]
     \/ amex' = [amex EXCEPT !.pc[t] = "idle", !.os = 0]
  /\ UNCHANGED setupapi

AmexTake(t) ==
  /\ amex.pc[t] = "take"
  /\ amex' = [amex EXCEPT !.pc[t] = "idle", !.fd[t] = amex.file]
  /\ UNCHANGED setupapi

(* Broken: eeprom_file is kept.                                            *)
AmexKeepsFile(t) ==
  /\ amex.pc[t] = "idle" /\ amex.fd[t] # 0
  /\ amex' = [amex EXCEPT !.os = 0, !.fd[t] = 0]
  /\ UNCHANGED setupapi

(* The handle of another open is Windows' to close.                        *)
eeprom_handle_close(t) ==
  /\ amex.pc[t] = "idle" /\ amex.fd[t] # 0
  /\ amex' = [amex EXCEPT !.file = IF amex.fd[t] = @ THEN 0 ELSE @, !.os = 0, !.fd[t] = 0]
  /\ UNCHANGED setupapi

(* Reads and writes go to the store at the place the OVERLAPPED says.      *)
eeprom_handle_write(t, c) ==
  /\ amex.pc[t] = "idle" /\ amex.fd[t] # 0 /\ amex.os = amex.fd[t]
  /\ amex' = [amex EXCEPT !.data[c] = 1 - @, !.true[c] = 1 - amex.data[c]]
  /\ UNCHANGED setupapi

AmexStarted == \/ \E enabled \in SUBSET ToSet(AmexClasses) : enabled # {} /\ amex_hook_init(enabled)
               \/ AmexOff

AmexLists ==
  \/ AmexStarted
  \/ \E s \in AmexSets :
       \/ \E guid \in AmexGuids : my_SetupDiGetClassDevs(s, guid)
       \/ my_SetupDiEnumDeviceInterfaces(s) \/ my_SetupDiDestroyDeviceInfoList(s)

AmexStore ==
  \/ AmexStarted
  \/ \E t \in AmexThreads :
       \/ eeprom_handle_open(t) \/ AmexClear(t) \/ AmexCreate(t) \/ nvram_open_file(t)
       \/ AmexTake(t) \/ eeprom_handle_close(t)
       \/ \E c \in AmexCells : eeprom_handle_write(t, c)

AmexSpec == AmexInit /\ [][AmexLists \/ AmexStore]_AmexVars

-----------------------------------------------------------------------------
(* Properties.                                                             *)

AmexTypeOK ==
  /\ \A i \in DOMAIN setupapi.classes :
       setupapi.classes[i].cur_handle \in AmexSets \cup {AmexNone, AmexJunk}
  /\ amex.size \in {"none", "short", "whole"}
  /\ {amex.file, amex.os} \subseteq AmexThreads \cup {0}
  /\ \A t \in AmexThreads : amex.pc[t] \in {"off", "idle", "clear", "create", "size", "take"}

AmexEmulated == {setupapi.classes[i].guid : i \in DOMAIN setupapi.classes}

(* A list that has been told to its end has told every device of the PC,   *)
(* none twice but the first.  It tells devices of its own class only, and  *)
(* the newest of a class begins with the emulated device, unless it is     *)
(* taken for the list of a class that had none yet: that one's cur_handle  *)
(* is never set before (setupapi.c:165).                                   *)
AmexListsAreRight ==
  \A s \in AmexSets :
    LET l == setupapi.lists[s]
        real == AmexReal[l.guid]
    IN l.guid # AmexNone =>
         /\ ToSet(l.told) \subseteq ToSet(real) \cup (AmexEmulated \cap (IF l.stray THEN AmexGuids
                                                                       ELSE {l.guid}))
         /\ l.all => /\ ToSet(real) \subseteq ToSet(l.told)
                     /\ \A i, j \in DOMAIN l.told :
                          i # j /\ l.told[i] = l.told[j] => {i, j} = {1, 2}
         /\ l.newest /\ ~l.stray /\ l.guid \in AmexEmulated /\ l.told # <<>>
              => Head(l.told) = l.guid

(* The store keeps what was written, whenever the game ends; it is whole   *)
(* while the game holds it.  Opens that are not inside each other leave    *)
(* the device with the handle the game has, and let the next one in.       *)
AmexStoreIsKept ==
  /\ amex.data = amex.true
  /\ \A t \in AmexThreads : amex.fd[t] # 0 => amex.size = "whole"
  /\ amex.size # "whole" => amex.true = AmexBlank
  /\ ~amex.raced =>
       /\ \A t \in AmexThreads : amex.fd[t] # 0 => amex.fd[t] = t /\ amex.file = t /\ amex.os = t
       /\ (\A t \in AmexThreads : amex.pc[t] \in {"off", "idle"} /\ amex.fd[t] = 0) =>
            amex.file = 0 /\ amex.os = 0

(* The devices of the board are found, opened and kept.                    *)
AmexIsRight == AmexTypeOK /\ AmexListsAreRight /\ AmexStoreIsKept

=================================================================================
