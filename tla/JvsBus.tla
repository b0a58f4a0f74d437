-------------------------------- MODULE JvsBus --------------------------------
(***************************************************************************)
(* The JVS port of the Amex board (common/amex/jvs.c) and what is behind   *)
(* it: the bus (jvs/jvs-bus.c), the node that takes a request apart        *)
(* (jvs/jvs-util.c), and the IO-3 board (board/io3.c).                     *)
(*                                                                         *)
(* Every game of the repository has one node on its bus.  A request has an *)
(* address and a sequence of commands; the commands are handled in turn,   *)
(* each adds its report to one answer, and the first that fails turns the  *)
(* answer into an error, whatever those before it have done.  The game     *)
(* makes its requests from one thread; another may wait for the event.     *)
(***************************************************************************)
EXTENDS Integers, Sequences, SequencesExt

CONSTANTS
  JvsRequests,       (* the sequences of commands the game may send        *)
  JvsReports,        (* reports the answer holds (128 bytes)               *)
  JvsSwitches        (* what the switches may show                         *)

ASSUME JvsAssumption ==
  /\ JvsReports \in Nat \ {0} /\ 0 \in JvsSwitches
  /\ \A q \in JvsRequests :
       /\ q.intact \in BOOLEAN /\ q.cmds \in Seq(ToSet(q.cmds))
       /\ \A c \in ToSet(q.cmds) : /\ c.cmd = "ASSIGN_ADDR" => c.addr \in Nat
                                   /\ c.cmd = "WRITE_GPIO" => c.value \in Nat

VARIABLE jvs

(* addr: 0 is 0xFF, not assigned, and as the address of a request every    *)
(* node.  Histories: assigned, the address the game has assigned since the *)
(* last reset; gpio_told, the outputs of the last request that was         *)
(* answered with success; unsure, that a request with outputs was answered *)
(* with an error since; shown, what the switches showed when they were     *)
(* last read in the foreground.                                            *)
JvsInit ==
  jvs = [fd |-> FALSE, root |-> FALSE, addr |-> 0, gpio |-> 0, prev_state |-> 0,
         at |-> "idle", ovl |-> FALSE, internal |-> "pending", event |-> FALSE,
         result |-> "none", sense |-> 0, switches |-> 0,
         assigned |-> 0, gpio_told |-> 0, unsure |-> FALSE, shown |-> 0]

-----------------------------------------------------------------------------
(* The IO-3 board.  r is a request under way: the node, the size of its    *)
(* answer, and the command that has failed.                                *)

JvsFail(r, why) == [r EXCEPT !.failed = why]

(* A report is added, if the answer has room.                              *)
JvsReport(r) ==
  IF r.size < JvsReports THEN [r EXCEPT !.size = @ + 1] ELSE JvsFail(r, "overflow")

io3_cmd_read_id(r) == JvsReport(r)
io3_cmd_get_cmd_version(r) == JvsReport(r)
io3_cmd_get_jvs_version(r) == JvsReport(r)
io3_cmd_get_comm_version(r) == JvsReport(r)
io3_cmd_get_features(r) == JvsReport(r)
io3_cmd_read_coin(r) == JvsReport(r)
io3_cmd_read_analogs(r, valid) == IF valid THEN JvsReport(r) ELSE JvsFail(r, "unsupported")
io3_cmd_read_rotarys(r, valid) == IF valid THEN JvsReport(r) ELSE JvsFail(r, "unsupported")

(* Broken: in the background the switches are released.                    *)
JvsReadsReleased(r, valid) ==
  IF ~valid THEN JvsFail(r, "unsupported")
  ELSE IF r.size >= JvsReports THEN JvsFail(r, "overflow")
  ELSE LET seen == IF r.foreground THEN [r EXCEPT !.prev_state = r.state, !.shown = r.state] ELSE r
       IN  JvsReport([seen EXCEPT !.switches = IF r.foreground THEN r.state ELSE 0])

(* The switches are read, and kept, only in the foreground.                *)
io3_cmd_read_switches(r, valid) ==
  IF ~valid THEN JvsFail(r, "unsupported")
  ELSE IF r.size >= JvsReports THEN JvsFail(r, "overflow")
  ELSE LET seen == IF r.foreground THEN [r EXCEPT !.prev_state = r.state, !.shown = r.state] ELSE r
       IN  JvsReport([seen EXCEPT !.switches = seen.prev_state])

io3_cmd_write_gpio(r, value, valid) ==
  IF valid THEN JvsReport([r EXCEPT !.gpio = value]) ELSE JvsFail(r, "unsupported")

(* Broken: the address survives a reset.                                   *)
JvsResetKeepsAddr(r) == r

io3_cmd_reset(r) == [r EXCEPT !.addr = 0]

(* jvs_node_sense of the next node: there is none.                         *)
io3_cmd_assign_addr(r, addr) == JvsReport([r EXCEPT !.addr = addr])

io3_cmd(r, c) ==
  IF r.failed # "no" THEN r
  ELSE CASE c.cmd = "READ_ID" -> io3_cmd_read_id(r)
         [] c.cmd = "GET_CMD_VERSION" -> io3_cmd_get_cmd_version(r)
         [] c.cmd = "GET_JVS_VERSION" -> io3_cmd_get_jvs_version(r)
         [] c.cmd = "GET_COMM_VERSION" -> io3_cmd_get_comm_version(r)
         [] c.cmd = "GET_FEATURES" -> io3_cmd_get_features(r)
         [] c.cmd = "READ_SWITCHES" -> io3_cmd_read_switches(r, c.valid)
         [] c.cmd = "READ_COIN" -> io3_cmd_read_coin(r)
         [] c.cmd = "READ_ANALOGS" -> io3_cmd_read_analogs(r, c.valid)
         [] c.cmd = "READ_ROTARYS" -> io3_cmd_read_rotarys(r, c.valid)
         [] c.cmd = "WRITE_GPIO" -> io3_cmd_write_gpio(r, c.value, c.valid)
         [] c.cmd = "RESET" -> io3_cmd_reset(r)
         [] c.cmd = "ASSIGN_ADDR" -> io3_cmd_assign_addr(r, c.addr)
         [] OTHER -> JvsFail(r, "unsupported")

(* The node after each of the commands.                                    *)
JvsHandled(r, cmds) ==
  LET after[n \in 0..Len(cmds)] == IF n = 0 THEN r ELSE io3_cmd(after[n - 1], cmds[n])
  IN  after

-----------------------------------------------------------------------------
(* Broken: a command that fails is left out of the answer.                 *)
JvsCracksOn(req, foreground, state) ==
  LET r == [addr |-> jvs.addr, gpio |-> jvs.gpio, prev_state |-> jvs.prev_state,
            switches |-> jvs.switches, shown |-> jvs.shown,
            size |-> 0, failed |-> "no", foreground |-> foreground, state |-> state]
      mine == req.intact /\ (req.to \in {0, jvs.addr})
      after == IF mine THEN JvsHandled(r, req.cmds)[Len(req.cmds)] ELSE r
  IN  [node |-> after, answer |-> IF mine /\ after.size > 0 THEN "success" ELSE "none"]

(* jvs_crack_request: what the node makes of a request, and the answer, if *)
(* there is one.  A request that is damaged, or for another address, is    *)
(* not answered.                                                           *)
jvs_crack_request(req, foreground, state) ==
  LET r == [addr |-> jvs.addr, gpio |-> jvs.gpio, prev_state |-> jvs.prev_state,
            switches |-> jvs.switches, shown |-> jvs.shown,
            size |-> 0, failed |-> "no", foreground |-> foreground, state |-> state]
      mine == req.intact /\ (req.to \in {0, jvs.addr})
      after == IF mine THEN JvsHandled(r, req.cmds)[Len(req.cmds)] ELSE r
  IN  [node |-> after,
       answer |-> CASE ~mine -> "none"
                    [] mine /\ after.failed # "no" -> after.failed
                    [] mine /\ after.failed = "no" /\ after.size = 0 -> "none"
                    [] OTHER -> "success"]

(* jvs_bus_transact: the one node, if the provider gave one.               *)
jvs_bus_transact(req, foreground, state) ==
  IF jvs.root THEN jvs_crack_request(req, foreground, state)
  ELSE [node |-> jvs, answer |-> "none"]

JvsLastOf(req, cmd) ==
  LET at == {i \in 1..Len(req.cmds) : req.cmds[i].cmd \in cmd}
  IN  IF at = {} THEN [cmd |-> "none"]
      ELSE req.cmds[CHOOSE i \in at : \A j \in at : j <= i]

-----------------------------------------------------------------------------
(* The port.                                                               *)

(* Broken: a provider that fails takes away the node of before.            *)
JvsOpenForgets ==
  /\ jvs.at = "idle" /\ ~jvs.fd
  /\ \/ jvs' = [jvs EXCEPT !.fd = TRUE, !.root = FALSE]
     \/ jvs' = [jvs EXCEPT !.fd = TRUE, !.root = TRUE, !.addr = 0, !.assigned = 0]

(* jvs_handle_open: the provider starts the I/O DLL, and initialises the   *)
(* board if that succeeds; if it does not, the node of before is kept.     *)
jvs_handle_open ==
  /\ jvs.at = "idle" /\ ~jvs.fd
  /\ \/ jvs' = [jvs EXCEPT !.fd = TRUE]
     \/ jvs' = [jvs EXCEPT !.fd = TRUE, !.root = TRUE, !.addr = 0, !.assigned = 0]

(* The handle that is open is the only one: opening it again fails.        *)
jvs_handle_close ==
  /\ jvs.at = "idle" /\ jvs.fd
  /\ jvs' = [jvs EXCEPT !.fd = FALSE]

jvs_ioctl_sense ==
  /\ jvs.at = "idle" /\ jvs.fd
  /\ jvs' = [jvs EXCEPT !.sense = IF ~jvs.root THEN 1 ELSE IF jvs.addr = 0 THEN 3 ELSE 2]

(* jvs_ioctl_transact: no answer is an error, told through the OVERLAPPED  *)
(* if the caller gave one with an event.                                   *)
jvs_ioctl_transact(req, foreground, state, ovl) ==
  /\ jvs.at = "idle" /\ jvs.fd
  /\ LET t == jvs_bus_transact(req, foreground, state)
         placed == JvsLastOf(req, {"RESET", "ASSIGN_ADDR"})
         last == JvsLastOf(req, {"WRITE_GPIO"})
     IN  jvs' = [jvs EXCEPT
           !.addr = t.node.addr, !.gpio = t.node.gpio, !.prev_state = t.node.prev_state,
           !.switches = t.node.switches, !.shown = t.node.shown,
           !.result = t.answer, !.ovl = ovl, !.event = FALSE, !.internal = "pending",
           !.at = IF t.answer = "none" /\ ovl THEN "mark" ELSE "idle",
           !.gpio_told = IF t.answer = "success" /\ last.cmd # "none" THEN last.value ELSE @,
           !.unsure = IF last.cmd = "none" \/ t.answer = "none" THEN @ ELSE t.answer # "success",
           !.assigned = IF ~jvs.root \/ ~req.intact \/ req.to \notin {0, jvs.addr}
                             \/ placed.cmd = "none" THEN @
                        ELSE IF t.answer \in {"none", "success"}
                             THEN IF placed.cmd = "RESET" THEN 0 ELSE placed.addr
                             ELSE -1]

(* Broken: the event is set first.                                         *)
JvsSignalsEarly ==
  \/ /\ jvs.at = "mark"
     /\ jvs' = [jvs EXCEPT !.event = TRUE, !.at = "signal"]
  \/ /\ jvs.at = "signal"
     /\ jvs' = [jvs EXCEPT !.internal = "NO_DATA", !.at = "return"]
  \/ /\ jvs.at = "return"
     /\ jvs' = [jvs EXCEPT !.at = "idle"]

(* The status is in place before the event is set.                         *)
JvsSignal ==
  \/ /\ jvs.at = "mark"
     /\ jvs' = [jvs EXCEPT !.internal = "NO_DATA", !.at = "signal"]
  \/ /\ jvs.at = "signal"
     /\ jvs' = [jvs EXCEPT !.event = TRUE, !.at = "return"]
  \/ /\ jvs.at = "return"
     /\ jvs' = [jvs EXCEPT !.at = "idle"]

JvsNext ==
  \/ jvs_handle_open \/ jvs_handle_close \/ jvs_ioctl_sense \/ JvsSignal
  \/ \E req \in JvsRequests, foreground \in BOOLEAN, state \in JvsSwitches, ovl \in BOOLEAN :
       jvs_ioctl_transact(req, foreground, state, ovl)

JvsSpec == JvsInit /\ [][JvsNext]_jvs

-----------------------------------------------------------------------------
(* Properties.                                                             *)

JvsTypeOK ==
  /\ jvs.prev_state \in JvsSwitches /\ jvs.switches \in JvsSwitches
  /\ jvs.addr # 0 => jvs.root
  /\ jvs.at # "idle" => jvs.fd

(* The outputs are those of the last request that was answered with        *)
(* success, as long as none with outputs has failed since: the answer is   *)
(* one for all the commands of a request.                                  *)
JvsOutputsAreTold == ~jvs.unsure => jvs.gpio = jvs.gpio_told

(* The board has the address the game gave it last, none after a reset,    *)
(* unless the request that did it was answered with an error.              *)
JvsAddressIsKnown == jvs.assigned >= 0 => jvs.addr = jvs.assigned

(* Who waits for the event finds the status of the request in place.       *)
JvsEventMeansStatus == jvs.event => jvs.internal = "NO_DATA" /\ jvs.result = "none"

(* In the background the switches are those of when the game left it.      *)
JvsFrozen == jvs.switches = jvs.prev_state /\ jvs.prev_state = jvs.shown

(* The bus as a whole: what is put out was asked for and is told, an       *)
(* address is told once it is assigned, the event of a request comes after *)
(* its status, and the switches are frozen in the background.              *)
JvsIsRight ==
  /\ JvsTypeOK
  /\ JvsOutputsAreTold
  /\ JvsAddressIsKnown
  /\ JvsEventMeansStatus
  /\ JvsFrozen

=============================================================================
