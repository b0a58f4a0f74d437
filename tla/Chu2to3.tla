--------------------------------- MODULE Chu2to3 ---------------------------------
(***************************************************************************)
(* chu2to3.c: the I/O DLL of a 32 bit process (x86) forwarded to a 64 bit  *)
(* process (x64) through a page they share, without a lock.                *)
(*                                                                         *)
(* The x86 process makes the page, writes the version of its DLL there,    *)
(* and starts a thread that polls the DLL and copies its struct to the     *)
(* page.  The x64 process tries to open the page, waits for a version, and *)
(* copies the page to its own struct at each call.  The fields of a copy   *)
(* go over in any order, each of them whole (they are aligned).            *)
(***************************************************************************)
EXTENDS Integers

CONSTANTS
  ChuVersions,       (* what the DLL says of its version; 0 it says nothing *)
  ChuCoins,          (* bound: coins inserted                              *)
  ChuLoads,          (* how often the page is tried to be opened (11)      *)
  ChuReads           (* how often the version is read (4)                  *)

ASSUME ChuAssumption ==
  ChuVersions \subseteq Nat /\ ChuCoins \in Nat /\ ChuLoads \in Nat /\ ChuReads \in Nat

ChuDefault == 256                                            (* 0x0100 *)
(* buttons stands for opbtn and beams, which are treated alike.            *)
ChuFields == {"coin_counter", "buttons", "version"}
ChuZero == [f \in ChuFields |-> 0]

(* coins, held: what the player has done and does; x86, x64, page: the     *)
(* structs; at86, todo86: where x86 is and the fields it has still to      *)
(* copy; made: the page exists; at64, todo64, tries, call: the same of x64,*)
(* its attempts and its call; version, coin: what x64 was told; dll: the   *)
(* version of the DLL; seen: the press is on the page and has not ended;   *)
(* pressed: it was there when x64 began to read                            *)
VARIABLE chu

ChuInit ==
  \E v \in ChuVersions :
    chu = [coins |-> 0, held |-> FALSE, x86 |-> ChuZero, x64 |-> ChuZero, page |-> ChuZero,
           at86 |-> "load", todo86 |-> {}, made |-> FALSE,
           at64 |-> "load", todo64 |-> {}, tries |-> 0, call |-> "none",
           version |-> 0, coin |-> 0, dll |-> v, seen |-> FALSE, pressed |-> FALSE]

(* The player inserts a coin, or presses or leaves a button and a beam.    *)
ChuPlayer ==
  \/ chu.coins < ChuCoins /\ chu' = [chu EXCEPT !.coins = @ + 1]
  \/ chu' = [chu EXCEPT !.held = ~@, !.seen = FALSE, !.pressed = FALSE]

-----------------------------------------------------------------------------
(* The x86 process.                                                        *)

(* shmem_create; then chu2to3_io_get_api_version asks the DLL.             *)
shmem_create ==
  /\ chu.at86 = "load"
  /\ chu' = [chu EXCEPT !.at86 = "version", !.made = TRUE]

ChuVersion(v) == IF v = 0 THEN ChuDefault ELSE v

ChuPublishes(next, struct) ==
  chu' = [chu EXCEPT !.at86 = next, !.x86 = struct, !.todo86 = ChuFields]

(* Broken: the version of a DLL that says nothing is not made up.          *)
ChuGetVersionRaw ==
  /\ chu.at86 = "version"
  /\ ChuPublishes("first", [chu.x86 EXCEPT !["version"] = chu.dll])

ChuGetVersion86 ==
  /\ chu.at86 = "version"
  /\ ChuPublishes("first", [chu.x86 EXCEPT !["version"] = ChuVersion(chu.dll)])

(* Broken: the thread works on the page, not on a struct of its own.       *)
ChuPollCoinOnPage ==
  /\ chu.at86 = "coin"
  /\ chu' = [chu EXCEPT !.at86 = "poll",
                        !.x86 = [@ EXCEPT !["coin_counter"] = chu.coins, !["buttons"] = 0],
                        !.page["buttons"] = 0]

(* jvs_poll_thread_proc: the coins, the buttons cleared, the poll, and the *)
(* copy to the page.                                                       *)
ChuPollCoin ==
  /\ chu.at86 = "coin"
  /\ chu' = [chu EXCEPT !.at86 = "poll",
                        !.x86 = [@ EXCEPT !["coin_counter"] = chu.coins, !["buttons"] = 0]]

ChuPoll ==
  LET now == IF chu.held THEN 1 ELSE 0
  IN  chu.at86 = "poll"
      /\ ChuPublishes("copy", [chu.x86 EXCEPT !["buttons"] = now])

(* SHMEM_WRITE: one field more; when all are there the thread goes on.     *)
ChuWrite(f) ==
  /\ chu.at86 \in {"first", "copy"} /\ f \in chu.todo86
  /\ chu' = [chu EXCEPT !.page[f] = chu.x86[f], !.todo86 = @ \ {f}]

ChuWritten ==
  /\ chu.at86 \in {"first", "copy"} /\ chu.todo86 = {}
  /\ chu' = [chu EXCEPT !.at86 = "coin", !.seen = chu.held /\ chu.x86["buttons"] = 1]

-----------------------------------------------------------------------------
(* The x64 process.                                                        *)

(* shmem_load, tried ChuLoads times; without the page chu2to3_load_dll     *)
(* fails.                                                                  *)
shmem_load ==
  /\ chu.at64 = "load"
  /\ chu' = IF chu.made THEN [chu EXCEPT !.at64 = "read", !.tries = 0, !.call = "version",
                                         !.todo64 = ChuFields]
            ELSE IF chu.tries + 1 < ChuLoads THEN [chu EXCEPT !.tries = @ + 1]
            ELSE [chu EXCEPT !.at64 = "failed"]

(* SHMEM_READ: one field more.                                             *)
ChuRead(f) ==
  /\ chu.at64 = "read" /\ f \in chu.todo64
  /\ chu' = [chu EXCEPT !.x64[f] = chu.page[f], !.todo64 = @ \ {f}]

ChuHasRead(call) ==
  chu.at64 = "read" /\ chu.todo64 = {} /\ chu.call = call

(* Broken: it takes what it has read first.                                *)
ChuGetVersionOnce ==
  /\ ChuHasRead("version")
  /\ chu' = [chu EXCEPT !.at64 = "idle", !.version = chu.x64["version"]]

(* chu2to3_io_get_api_version waits for a version, and in the end assumes  *)
(* the first one.                                                          *)
ChuGetVersion64 ==
  /\ ChuHasRead("version")
  /\ chu' = IF chu.x64["version"] = 0 /\ chu.tries + 1 < ChuReads
            THEN [chu EXCEPT !.tries = @ + 1, !.todo64 = ChuFields]
            ELSE [chu EXCEPT !.at64 = "idle",
                    !.version = ChuVersion(chu.x64["version"])]

(* A call of the game: the coins or the buttons.                           *)
ChuCall(call) ==
  /\ chu.at64 = "idle"
  /\ chu' = [chu EXCEPT !.at64 = "read", !.call = call, !.todo64 = ChuFields,
                        !.pressed = chu.seen]

(* Broken: the game gets another field.                                    *)
ChuCoinFromButtons ==
  /\ ChuHasRead("coin")
  /\ chu' = [chu EXCEPT !.at64 = "idle", !.coin = chu.x64["buttons"], !.pressed = FALSE]

chu2to3_io_jvs_read_coin_counter ==
  /\ ChuHasRead("coin")
  /\ chu' = [chu EXCEPT !.at64 = "idle", !.coin = chu.x64["coin_counter"], !.pressed = FALSE]

chu2to3_io_jvs_poll ==
  /\ ChuHasRead("poll")
  /\ chu' = [chu EXCEPT !.at64 = "idle", !.pressed = FALSE]

ChuNext ==
  \/ ChuPlayer
  \/ shmem_create \/ ChuGetVersion86 \/ ChuPollCoin \/ ChuPoll \/ ChuWritten
  \/ shmem_load \/ ChuGetVersion64
  \/ chu2to3_io_jvs_read_coin_counter \/ chu2to3_io_jvs_poll
  \/ \E f \in ChuFields : ChuWrite(f) \/ ChuRead(f)
  \/ \E call \in {"coin", "poll"} : ChuCall(call)

ChuSpec == ChuInit /\ [][ChuNext]_chu

-----------------------------------------------------------------------------
(* Properties.                                                             *)

ChuTypeOK ==
  /\ chu.x86 \in [ChuFields -> Nat] /\ chu.x64 \in [ChuFields -> Nat]
  /\ chu.page \in [ChuFields -> Nat]
  /\ chu.todo86 \subseteq ChuFields /\ chu.todo64 \subseteq ChuFields
  /\ chu.at86 \notin {"load", "version"} => chu.x86["version"] # 0

(* The x64 process is never without a version, and its version is that of  *)
(* the DLL unless the x86 process has been too late.                       *)
ChuVersionIsRight ==
  chu.at64 \notin {"load", "failed"} /\ chu.call # "version" =>
    chu.version \in {ChuVersion(chu.dll), ChuDefault}

(* The coins the game is told of never become fewer, and they are coins.   *)
ChuCoinsGrow ==
  [][chu'.coin >= chu.coin /\ chu'.coin <= chu.coins]_chu

(* A button that is held, and whose press has come to the page, is seen by *)
(* every call: the moment in which the struct is cleared is not.           *)
ChuHeldIsSeen ==
  chu.pressed /\ ChuHasRead("poll") => chu.x64["buttons"] = 1

(* The bridge as a whole: the version is that of the loaded DLL, a button  *)
(* that is held is seen, and coins are told once and never taken back.     *)
ChuIsRight ==
  /\ [](ChuTypeOK /\ ChuVersionIsRight /\ ChuHeldIsSeen)
  /\ ChuCoinsGrow

=============================================================================
