------------------------------ MODULE SerialProofs ------------------------------
(***************************************************************************)
(* Theorems about the serial ports of a cabinet: the touch slider, the JVS *)
(* bus, the text display, and the codecs of the frames.  They share no     *)
(* state; each has a section of its own.                                   *)
(***************************************************************************)
EXTENDS Slider, JvsBus, Vfd, Frames, SequenceTheorems, WellFoundedInduction, TLAPS

-----------------------------------------------------------------------------
(* The slider: for every number of I/O threads, every buffer and frame     *)
(* size and everything the game may write, as long as one game thread      *)
(* talks to it (with two, TLC finds counterexamples).                      *)

OneGameThread == \A g, h \in GameThread : g = h

(* Nothing runs that the DLL's handle does not name.                       *)
NoneRuns == thread = NULL /\ \A t \in IoThread : iopc[t] = "exited"

(* What the game thread may rely on at each place of its call.             *)
PhaseInv ==
  \A g \in GameThread :
    /\ pc[g] \in {"create", "unflag", "relock"} => NoneRuns
    /\ pc[g] = "join" => target[g] = thread

(* While the slider counts as stopped, nothing runs and no START is being  *)
(* handled.                                                                *)
StoppedInv ==
  stopped => NoneRuns /\ \A g \in GameThread : pc[g] \notin {"start", "create"}

IInv == TypeOK /\ OneIoThread /\ PhaseInv /\ StoppedInv

-----------------------------------------------------------------------------
(* The encoder never writes past the end of the readable buffer.           *)
LEMMA EncodeKeepsType ==
  ASSUME TypeOK, NEW frame \in Frame, NEW size \in Nat \ {0}, Encode(frame, size)
  PROVE  readable' \in Seq(Frame) /\ nbytes' \in 0..Capacity
<1> USE SliderAssumption DEF TypeOK
<1>1. CASE nbytes + size <= Capacity
  <2>1. readable' = Append(readable, frame) /\ nbytes' = nbytes + size
    BY <1>1 DEF Encode
  <2>2. QED
    BY <1>1, <2>1
<1>2. CASE nbytes < Capacity /\ nbytes + size > Capacity
  <2>1. /\ readable' = Append(readable, "torn")
        /\ nbytes' \in {Capacity - 1, Capacity} /\ nbytes' > nbytes
    BY <1>2 DEF Encode
  <2>2. "torn" \in Frame
    BY DEF Frame
  <2>3. readable' \in Seq(Frame)
    BY <2>1, <2>2
  <2>4. nbytes' \in 0..Capacity
    BY <2>1
  <2>5. QED
    BY <2>3, <2>4
<1>3. CASE nbytes = Capacity
  <2>1. readable' = readable \/ readable' = Append(readable, frame)
    BY <1>3 DEF Encode, buffer
  <2>2. nbytes' \in 0..Capacity
    BY <1>3 DEF Encode, buffer
  <2>3. QED
    BY <2>1, <2>2
<1>4. QED
  BY <1>1, <1>2, <1>3

(* What is left of the written frames are frames.                          *)
LEMMA TailKeepsType ==
  ASSUME TypeOK, written # <<>>
  PROVE  Tail(written) \in Seq(Command)
  BY DEF TypeOK

LEMMA TypeStep == TypeOK /\ [Next]_vars => TypeOK'
<1> SUFFICES ASSUME TypeOK, [Next]_vars PROVE TypeOK'
  OBVIOUS
<1> USE SliderAssumption
    DEF TypeOK, Goto, uart, buffer, dll, history
<1>1. ASSUME NEW g \in GameThread, Request(g) PROVE TypeOK'
  <2>1. CASE Open(g) \/ Close(g)
    BY <2>1 DEF Open, Close
  <2>2. CASE Read(g)
    BY <2>2 DEF Read
  <2>3. ASSUME NEW sent \in Requests, Write(g, sent) PROVE TypeOK'
    <3>1. written \o sent \in Seq(Command)
      OBVIOUS
    <3>2. QED
      BY <2>3, <3>1 DEF Write
  <2>4. QED
    BY <1>1, <2>1, <2>2, <2>3 DEF Request
<1>2. ASSUME NEW g \in GameThread, Inside(g) PROVE TypeOK'
  <2>1. CASE Leave(g) \/ DeframeError(g)
    BY <2>1, TailKeepsType DEF Leave, DeframeError
  <2>2. CASE Reply(g)
    <3>1. readable' \in Seq(Frame) /\ nbytes' \in 0..Capacity
      BY <2>2, EncodeKeepsType DEF Reply, Frame
    <3>2. QED
      BY <2>2, <3>1, TailKeepsType DEF Reply, Take
  <2>3. CASE SetLed(g)
    BY <2>3, TailKeepsType DEF SetLed, Take
  <2>4. CASE AutoScanStart(g) \/ AutoScanStop(g)
    BY <2>4, TailKeepsType DEF AutoScanStart, AutoScanStop, Take
  <2>5. CASE StartTest(g)
    BY <2>5 DEF StartTest
  <2>6. ASSUME NEW t \in IoThread, StartCreate(g, t) PROVE TypeOK'
    BY <2>6 DEF StartCreate
  <2>7. CASE StopTest(g) \/ StopFlag(g) \/ StopWait(g) \/ StopJoin(g) \/ StopUnflag(g)
    <3>1. CASE StopTest(g) \/ StopFlag(g) \/ StopUnflag(g)
      BY <3>1 DEF StopTest, StopFlag, StopUnflag
    <3>2. CASE StopWait(g)
      BY <3>2 DEF StopWait
    <3>3. CASE StopJoin(g)
      BY <3>3 DEF StopJoin
    <3>4. QED
      BY <2>7, <3>1, <3>2, <3>3
  <2>8. QED
    BY <1>2, <2>1, <2>2, <2>3, <2>4, <2>5, <2>6, <2>7 DEF Inside
<1>3. ASSUME NEW g \in GameThread, Relock(g) PROVE TypeOK'
  <2>1. readable' \in Seq(Frame) /\ nbytes' \in 0..Capacity
    BY <1>3, EncodeKeepsType DEF Relock, Frame
  <2>2. QED
    BY <1>3, <2>1 DEF Relock
<1>4. ASSUME NEW t \in IoThread, IoCheck(t) PROVE TypeOK'
  BY <1>4 DEF IoCheck
<1>5. ASSUME NEW t \in IoThread, slider_res_auto_scan(t) PROVE TypeOK'
  <2>1. readable' \in Seq(Frame) /\ nbytes' \in 0..Capacity
    BY <1>5, EncodeKeepsType DEF slider_res_auto_scan, Frame
  <2>2. QED
    BY <1>5, <2>1 DEF slider_res_auto_scan
<1>6. CASE UNCHANGED vars
  BY <1>6 DEF vars
<1>7. QED
  BY <1>1, <1>2, <1>3, <1>4, <1>5, <1>6 DEF Next

(* One I/O thread: START creates one only where none runs, STOP forgets    *)
(* the handle only once its thread has exited.                             *)
LEMMA OneIoThreadStep ==
  ASSUME OneGameThread, IInv, [Next]_vars
  PROVE  OneIoThread' /\ PhaseInv' /\ StoppedInv'
<1> DEFINE Goal == OneIoThread' /\ PhaseInv' /\ StoppedInv'
<1> SUFFICES Goal
  OBVIOUS
<1> USE SliderAssumption
    DEF IInv, TypeOK, OneIoThread, PhaseInv, StoppedInv, NoneRuns, OneGameThread, Goto,
      uart, buffer, dll, history
<1>1. ASSUME NEW g \in GameThread, Request(g) PROVE Goal
  BY <1>1 DEF Request, Open, Close, Read, Write
<1>2. ASSUME NEW g \in GameThread, Leave(g) \/ DeframeError(g) \/ Reply(g) \/ SetLed(g)
      PROVE  Goal
  BY <1>2 DEF Leave, DeframeError, Reply, SetLed, Take
<1>3. ASSUME NEW g \in GameThread, AutoScanStart(g) \/ AutoScanStop(g) PROVE Goal
  BY <1>3 DEF AutoScanStart, AutoScanStop, Take
<1>4. ASSUME NEW g \in GameThread, StartTest(g) \/ StopTest(g) PROVE Goal
  BY <1>4 DEF StartTest, StopTest
<1>5. ASSUME NEW g \in GameThread, NEW t \in IoThread, StartCreate(g, t) PROVE Goal
  BY <1>5 DEF StartCreate
<1>6. ASSUME NEW g \in GameThread, StopFlag(g) \/ StopWait(g) \/ StopUnflag(g) PROVE Goal
  BY <1>6 DEF StopFlag, StopWait, StopUnflag
<1>7. ASSUME NEW g \in GameThread, StopJoin(g) PROVE Goal
  <2>1. \A t \in IoThread : iopc[t] = "exited"
    BY <1>7 DEF StopJoin
  <2>2. QED
    BY <1>7, <2>1 DEF StopJoin
<1>8. ASSUME NEW g \in GameThread, Relock(g) PROVE Goal
  BY <1>8 DEF Relock
<1>9. ASSUME NEW t \in IoThread, IoCheck(t) \/ slider_res_auto_scan(t) PROVE Goal
  BY <1>9 DEF IoCheck, slider_res_auto_scan
<1>10. CASE UNCHANGED vars
  BY <1>10 DEF vars
<1> HIDE DEF Goal
<1>11. QED
  BY <1>1, <1>2, <1>3, <1>4, <1>5, <1>6, <1>7, <1>8, <1>9, <1>10 DEF Next, Inside

LEMMA InitType == Init => TypeOK
<1>1. <<>> \in Seq(Command) /\ <<>> \in Seq(Frame) /\ 0 \in 0..Capacity
  BY SliderAssumption
<1>2. QED
  BY <1>1, SliderAssumption DEF Init, TypeOK

LEMMA IInvInvariant ==
  ASSUME OneGameThread
  PROVE  Spec => []IInv
<1>1. Init => IInv
  BY SliderAssumption, InitType DEF Init, IInv, OneIoThread, PhaseInv, StoppedInv
<1>2. IInv /\ [Next]_vars => IInv'
  BY OneGameThread, TypeStep, OneIoThreadStep DEF IInv
<1>3. QED
  BY <1>1, <1>2, PTL DEF Spec

-----------------------------------------------------------------------------
(* Every variable keeps its type, whatever the number of game threads; the *)
(* readable buffer is never overrun.                                       *)
THEOREM TypeCorrect == Spec => []TypeOK
<1>1. QED
  BY InitType, TypeStep, PTL DEF Spec

(* With one game thread, once STOP is acknowledged no I/O thread is left.  *)
THEOREM StopsAreFinal ==
  ASSUME OneGameThread
  PROVE  Spec => []StopIsFinal
<1>1. IInv => StopIsFinal
  BY DEF IInv, StoppedInv, NoneRuns, StopIsFinal
<1>2. QED
  BY <1>1, OneGameThread, IInvInvariant, PTL

(* With one game thread there is one I/O thread, the one the handle names. *)
THEOREM IoThreadsAreNotLeaked ==
  ASSUME OneGameThread
  PROVE  Spec => []OneIoThread
<1>1. IInv => OneIoThread
  BY DEF IInv
<1>2. QED
  BY <1>1, OneGameThread, IInvInvariant, PTL

(* SliderIsSafe, with one game thread.                                     *)
THEOREM SlidersAreSafe ==
  ASSUME OneGameThread
  PROVE  Spec => []SliderIsSafe
<1>1. TypeOK /\ StopIsFinal /\ OneIoThread => SliderIsSafe
  BY DEF SliderIsSafe
<1>2. (Spec => []StopIsFinal) /\ (Spec => []OneIoThread)
  BY StopsAreFinal, IoThreadsAreNotLeaked, OneGameThread
<1>3. QED
  BY <1>1, <1>2, TypeCorrect, PTL

-----------------------------------------------------------------------------
(* A set of natural numbers has a least one.                               *)
LEMMA LeastExists ==
  ASSUME NEW S \in SUBSET Nat, S # {}
  PROVE  \E x \in S : \A y \in S : x <= y
<1> DEFINE R == OpToRel(<, Nat)
<1>1. IsWellFoundedOn(R, Nat)
  BY NatLessThanWellFounded
<1>2. ASSUME NEW x \in Nat, NEW y \in Nat, y < x
      PROVE  <<y, x>> \in R
  <2> DEFINE pair == <<y, x>>
  <2>1. pair \in Nat \X Nat /\ pair[1] < pair[2]
    BY <1>2
  <2> HIDE DEF pair
  <2>2. pair \in R
    BY <2>1 DEF OpToRel
  <2> QED
    BY <2>2 DEF pair
<1> HIDE DEF R
<1>3. \E x \in S : \A y \in S : ~(<<y, x>> \in R)
  BY <1>1, Zenon, WFMin
<1>4. PICK x \in S : \A y \in S : ~(<<y, x>> \in R)
  BY <1>3
<1>5. ASSUME NEW y \in S PROVE ~(y < x)
  BY <1>2, <1>4
<1>6. \A y \in S : x <= y
  BY <1>5
<1> QED
  BY <1>6

-----------------------------------------------------------------------------
(* The JVS bus: for all requests, however many commands they have and      *)
(* wherever one of them fails, and for all switches.                       *)

(* What the port and the board are, and the node while a request is handled. *)
JvsState ==
  [fd : BOOLEAN, root : BOOLEAN, addr : Nat, gpio : Nat, prev_state : JvsSwitches,
   at : {"idle", "mark", "signal", "return"}, ovl : BOOLEAN,
   internal : {"pending", "NO_DATA"}, event : BOOLEAN,
   result : {"none", "success", "overflow", "unsupported"}, sense : 0..3,
   switches : JvsSwitches, assigned : Nat \cup {-1}, gpio_told : Nat,
   unsure : BOOLEAN, shown : JvsSwitches]

(* The node while the commands of a request are handled.                   *)
JvsNode ==
  [addr : Nat, gpio : Nat, prev_state : JvsSwitches, switches : JvsSwitches,
   shown : JvsSwitches, size : Nat, failed : {"no", "overflow", "unsupported"},
   foreground : BOOLEAN, state : JvsSwitches]

(* The field that a command carries is a number.                           *)
JvsCommand(c) ==
  /\ c.cmd = "ASSIGN_ADDR" => c.addr \in Nat
  /\ c.cmd = "WRITE_GPIO" => c.value \in Nat

(* The commands that change the address, and those that change the         *)
(* outputs.                                                                *)
JvsPlacing == {"RESET", "ASSIGN_ADDR"}
(* The command that writes the outputs.                                    *)
JvsWriting == {"WRITE_GPIO"}

(* The address after a command of the first kind.                          *)
JvsPlaceOf(c) == IF c.cmd = "RESET" THEN 0 ELSE c.addr

(* The switches have not moved since they were last read.                  *)
JvsStill(r) == r.switches = r.prev_state /\ r.prev_state = r.shown

(* One command: what the node is after it.                                 *)
JvsDoes(r, c, x) ==
  /\ x \in JvsNode
  /\ JvsStill(r) => JvsStill(x)
  /\ x.failed = "no" => r.failed = "no"
  /\ x.size >= r.size
  /\ x.failed = "no" /\ c.cmd # "RESET" => x.size > 0
  /\ c.cmd \notin JvsWriting => x.gpio = r.gpio
  /\ x.failed = "no" /\ c.cmd \in JvsWriting => x.gpio = c.value
  /\ c.cmd \notin JvsPlacing => x.addr = r.addr
  /\ x.failed = "no" /\ c.cmd \in JvsPlacing => x.addr = JvsPlaceOf(c)

(* A report is added to the response or makes the request fail; nothing    *)
(* else of the node changes.                                               *)
LEMMA JvsReportAdds ==
  ASSUME NEW r \in JvsNode
  PROVE  LET x == JvsReport(r)
         IN  /\ x \in JvsNode /\ x.size >= r.size
             /\ x.addr = r.addr /\ x.gpio = r.gpio /\ x.prev_state = r.prev_state
             /\ x.switches = r.switches /\ x.shown = r.shown
             /\ x.failed = "no" => r.failed = "no" /\ x.size > 0
<1>1. CASE r.size < JvsReports
  BY <1>1 DEF JvsReport, JvsNode
<1>2. CASE ~(r.size < JvsReports)
  BY <1>2 DEF JvsReport, JvsFail, JvsNode
<1> QED
  BY <1>1, <1>2

(* A failure leaves all but its own mark.                                  *)
LEMMA JvsFails ==
  ASSUME NEW r \in JvsNode, NEW why \in {"overflow", "unsupported"}
  PROVE  LET x == JvsFail(r, why)
         IN  /\ x \in JvsNode /\ x.size = r.size /\ x.failed # "no"
             /\ x.addr = r.addr /\ x.gpio = r.gpio /\ x.prev_state = r.prev_state
             /\ x.switches = r.switches /\ x.shown = r.shown
BY DEF JvsFail, JvsNode

(* READ_SWITCHES, also where the frozen switches are kept: address and     *)
(* outputs stay.                                                           *)
LEMMA JvsSwitchesAreRead ==
  ASSUME NEW r \in JvsNode, r.failed = "no", NEW valid
  PROVE  LET x == io3_cmd_read_switches(r, valid)
         IN  /\ x \in JvsNode /\ x.size >= r.size
             /\ x.addr = r.addr /\ x.gpio = r.gpio
             /\ JvsStill(r) => JvsStill(x)
             /\ x.failed = "no" => x.size > 0
<1>1. CASE ~valid
  BY <1>1, JvsFails DEF io3_cmd_read_switches, JvsStill, JvsNode
<1>2. CASE valid /\ r.size >= JvsReports
  BY <1>2, JvsFails DEF io3_cmd_read_switches, JvsStill, JvsNode
<1>3. CASE valid /\ ~(r.size >= JvsReports)
  <2> DEFINE seen == IF r.foreground THEN [r EXCEPT !.prev_state = r.state, !.shown = r.state]
                     ELSE r
             read == [seen EXCEPT !.switches = seen.prev_state]
  <2>1. /\ seen \in JvsNode /\ seen.size = r.size /\ seen.addr = r.addr
        /\ seen.gpio = r.gpio /\ seen.failed = "no"
        /\ JvsStill(r) => seen.prev_state = seen.shown
    <3>1. CASE r.foreground
      BY <3>1 DEF JvsNode
    <3>2. CASE ~r.foreground
      BY <3>2 DEF JvsNode, JvsStill
    <3> QED
      BY <3>1, <3>2
  <2> HIDE DEF seen
  <2>2. /\ read \in JvsNode /\ read.size = r.size /\ read.addr = r.addr
        /\ read.gpio = r.gpio /\ read.failed = "no"
        /\ JvsStill(r) => JvsStill(read)
    BY <2>1 DEF JvsNode, JvsStill
  <2>3. io3_cmd_read_switches(r, valid) = JvsReport(read)
    BY <1>3 DEF io3_cmd_read_switches, seen
  <2> HIDE DEF read
  <2> QED
    BY <2>2, <2>3, JvsReportAdds DEF JvsStill
<1> QED
  BY <1>1, <1>2, <1>3

(* Every command of the IO-3 board does what JvsDoes says.                 *)
LEMMA JvsCommandDoes ==
  ASSUME NEW r \in JvsNode, NEW c, JvsCommand(c)
  PROVE  JvsDoes(r, c, io3_cmd(r, c))
<1> DEFINE x == io3_cmd(r, c)
<1> USE DEF JvsWriting, JvsPlacing, JvsPlaceOf
<1>1. CASE r.failed # "no"
  <2>1. x = r
    BY <1>1 DEF io3_cmd
  <2> QED
    BY <1>1, <2>1 DEF JvsDoes, JvsNode
<1>2. CASE r.failed = "no" /\ x = JvsReport(r) /\ c.cmd \notin JvsWriting \cup JvsPlacing
  BY <1>2, JvsReportAdds DEF JvsDoes, JvsStill
<1>3. CASE r.failed = "no" /\ x = JvsFail(r, "unsupported")
  BY <1>3, JvsFails DEF JvsDoes, JvsStill, JvsNode
<1>4. CASE r.failed = "no" /\ c.cmd = "READ_SWITCHES"
  <2>1. x = io3_cmd_read_switches(r, c.valid)
    BY <1>4 DEF io3_cmd
  <2> QED
    BY <1>4, <2>1, JvsSwitchesAreRead DEF JvsDoes
<1>5. CASE r.failed = "no" /\ c.cmd = "WRITE_GPIO" /\ c.valid
  <2> DEFINE put == [r EXCEPT !.gpio = c.value]
  <2>1. /\ put \in JvsNode /\ put.size = r.size /\ put.addr = r.addr
        /\ put.gpio = c.value /\ put.failed = "no"
        /\ JvsStill(r) => JvsStill(put)
    BY <1>5 DEF JvsNode, JvsStill, JvsCommand
  <2>2. x = JvsReport(put)
    BY <1>5 DEF io3_cmd, io3_cmd_write_gpio
  <2> HIDE DEF put
  <2> QED
    BY <1>5, <2>1, <2>2, JvsReportAdds DEF JvsDoes, JvsStill
<1>6. CASE r.failed = "no" /\ c.cmd = "RESET"
  <2>1. x = [r EXCEPT !.addr = 0]
    BY <1>6 DEF io3_cmd, io3_cmd_reset
  <2> QED
    BY <1>6, <2>1 DEF JvsDoes, JvsStill, JvsNode
<1>7. CASE r.failed = "no" /\ c.cmd = "ASSIGN_ADDR"
  <2> DEFINE put == [r EXCEPT !.addr = c.addr]
  <2>1. /\ put \in JvsNode /\ put.size = r.size /\ put.addr = c.addr
        /\ put.gpio = r.gpio /\ put.failed = "no"
        /\ JvsStill(r) => JvsStill(put)
    BY <1>7 DEF JvsNode, JvsStill, JvsCommand
  <2>2. x = JvsReport(put)
    BY <1>7 DEF io3_cmd, io3_cmd_assign_addr
  <2> HIDE DEF put
  <2> QED
    BY <1>7, <2>1, <2>2, JvsReportAdds DEF JvsDoes, JvsStill
<1>8. CASE r.failed = "no" /\ c.cmd = "WRITE_GPIO" /\ ~c.valid
  <2>1. x = JvsFail(r, "unsupported")
    BY <1>8 DEF io3_cmd, io3_cmd_write_gpio
  <2> QED
    BY <1>3, <1>8, <2>1
<1>9. CASE r.failed = "no" /\ c.cmd \in {"READ_ANALOGS", "READ_ROTARYS"}
  <2>1. x = JvsReport(r) \/ x = JvsFail(r, "unsupported")
    BY <1>9 DEF io3_cmd, io3_cmd_read_analogs, io3_cmd_read_rotarys
  <2> QED
    BY <1>2, <1>3, <1>9, <2>1
<1>10. CASE r.failed = "no" /\ c.cmd \in {"READ_ID", "GET_CMD_VERSION", "GET_JVS_VERSION",
              "GET_COMM_VERSION", "GET_FEATURES", "READ_COIN"}
  <2>1. x = JvsReport(r)
    BY <1>10 DEF io3_cmd, io3_cmd_read_id, io3_cmd_get_cmd_version,
         io3_cmd_get_jvs_version, io3_cmd_get_comm_version, io3_cmd_get_features,
         io3_cmd_read_coin
  <2> QED
    BY <1>2, <1>10, <2>1
<1>11. CASE /\ r.failed = "no"
            /\ c.cmd \notin {"READ_ID", "GET_CMD_VERSION", "GET_JVS_VERSION",
                 "GET_COMM_VERSION", "GET_FEATURES", "READ_COIN", "READ_ANALOGS",
                 "READ_ROTARYS", "ASSIGN_ADDR", "RESET", "WRITE_GPIO", "READ_SWITCHES"}
  <2>1. x = JvsFail(r, "unsupported")
    BY <1>11 DEF io3_cmd
  <2> QED
    BY <1>3, <1>11, <2>1
<1> HIDE DEF x
<1> QED
  BY <1>1, <1>4, <1>5, <1>6, <1>7, <1>8, <1>9, <1>10, <1>11 DEF x


(* The node after each command: JvsHandled is that function.               *)
JvsHandledNext(r, cmds, f) ==
  [n \in 0..Len(cmds) |-> IF n = 0 THEN r ELSE io3_cmd(f[n - 1], cmds[n])]

(* Commands in an order, each with its field.                              *)
JvsLists(cmds) == Len(cmds) \in Nat /\ \A i \in 1..Len(cmds) : JvsCommand(cmds[i])

(* JvsHandled is the function it is defined to be: by the least number of  *)
(* commands for which it would not be.                                     *)
LEMMA JvsHandledExists ==
  ASSUME NEW r \in JvsNode, NEW cmds, JvsLists(cmds)
  PROVE  \A n \in 0..Len(cmds) : JvsHandled(r, cmds)[n] =
           (IF n = 0 THEN r ELSE io3_cmd(JvsHandled(r, cmds)[n - 1], cmds[n]))
<1> DEFINE Up(n, f) == \A i \in 0..n :
                         f[i] = (IF i = 0 THEN r ELSE io3_cmd(f[i - 1], cmds[i]))
           Bad == {n \in 0..Len(cmds) : ~\E f : f = [i \in 0..n |-> f[i]] /\ Up(n, f)}
<1>1. Bad = {}
  <2> SUFFICES ASSUME Bad # {} PROVE FALSE
    OBVIOUS
  <2>1. Bad \in SUBSET Nat
    BY DEF JvsLists
  <2>2. PICK n \in Bad : \A m \in Bad : n <= m
    BY <2>1, LeastExists
  <2>3. n \in 0..Len(cmds) /\ n \in Nat /\ Len(cmds) \in Nat
    BY <2>2 DEF JvsLists
  <2>4. CASE n = 0
    <3> DEFINE f == [i \in 0..0 |-> r]
    <3>1. f = [i \in 0..n |-> f[i]] /\ Up(n, f)
      BY <2>4
    <3> QED
      BY <2>2, <3>1
  <2>5. CASE n # 0
    <3>1. n - 1 \in 0..Len(cmds) /\ n - 1 \notin Bad
      <4>1. n - 1 \in 0..Len(cmds) /\ ~(n <= n - 1)
        BY <2>3, <2>5
      <4> QED
        BY <2>2, <4>1
    <3>2. PICK f : f = [i \in 0..(n - 1) |-> f[i]] /\ Up(n - 1, f)
      BY <3>1
    <3> DEFINE g == [i \in 0..n |-> IF i = n THEN io3_cmd(f[n - 1], cmds[n]) ELSE f[i]]
    <3>3. g = [i \in 0..n |-> g[i]]
      OBVIOUS
    <3>4. ASSUME NEW i \in 0..n
          PROVE  g[i] = (IF i = 0 THEN r ELSE io3_cmd(g[i - 1], cmds[i]))
      <4>1. CASE i = n
        <5>1. i - 1 \in 0..n /\ i - 1 # n /\ i # 0
          BY <4>1, <2>3, <2>5
        <5>2. g[i - 1] = f[i - 1]
          BY <5>1
        <5> QED
          BY <4>1, <5>1, <5>2
      <4>2. CASE i # n
        <5>1. i \in 0..(n - 1) /\ (i # 0 => i - 1 \in 0..n /\ i - 1 # n)
          BY <4>2, <2>3
        <5>2. g[i] = f[i] /\ (i # 0 => g[i - 1] = f[i - 1])
          BY <4>2, <5>1
        <5>3. f[i] = (IF i = 0 THEN r ELSE io3_cmd(f[i - 1], cmds[i]))
          BY <3>2, <5>1
        <5> QED
          BY <5>2, <5>3
      <4> QED
        BY <4>1, <4>2
    <3> HIDE DEF g
    <3>5. Up(n, g)
      BY <3>4
    <3> QED
      BY <2>2, <3>3, <3>5
  <2> QED
    BY <2>4, <2>5
<1>2. PICK f : f = [i \in 0..Len(cmds) |-> f[i]] /\ Up(Len(cmds), f)
  <2>1. Len(cmds) \in 0..Len(cmds)
    BY DEF JvsLists
  <2> QED
    BY <1>1, <2>1
<1>3. f = JvsHandledNext(r, cmds, f)
  BY <1>2 DEF JvsHandledNext
<1> DEFINE h == CHOOSE g : g = JvsHandledNext(r, cmds, g)
<1>4. h = JvsHandledNext(r, cmds, h)
  BY <1>3
<1>5. JvsHandled(r, cmds) = h
  BY DEF JvsHandled, JvsHandledNext
<1> HIDE DEF h
<1> QED
  BY <1>4, <1>5 DEF JvsHandledNext

(* What the first n commands make of the node, wherever one of them fails. *)
JvsMade(r, cmds, n, x) ==
  /\ x \in JvsNode
  /\ JvsStill(r) => JvsStill(x)
  /\ x.failed = "no" /\ (\E i \in 1..n : cmds[i].cmd # "RESET") => x.size > 0
  /\ (\A i \in 1..n : cmds[i].cmd \notin JvsWriting) => x.gpio = r.gpio
  /\ (\A i \in 1..n : cmds[i].cmd \notin JvsPlacing) => x.addr = r.addr
  /\ x.failed = "no" =>
       \A i \in 1..n :
         /\ cmds[i].cmd \in JvsWriting /\ (\A j \in (i + 1)..n : cmds[j].cmd \notin JvsWriting)
              => x.gpio = cmds[i].value
         /\ cmds[i].cmd \in JvsPlacing /\ (\A j \in (i + 1)..n : cmds[j].cmd \notin JvsPlacing)
              => x.addr = JvsPlaceOf(cmds[i])

(* One more command makes what JvsMade says of one more.                   *)
LEMMA JvsMadeNext ==
  ASSUME NEW r \in JvsNode, NEW cmds, NEW n \in Nat, n # 0, NEW x, NEW y,
         JvsMade(r, cmds, n - 1, x), JvsDoes(x, cmds[n], y)
  PROVE  JvsMade(r, cmds, n, y)
<1> DEFINE c == cmds[n]
<1>1. /\ n \in 1..n /\ \A i \in 1..n : i = n \/ i \in 1..(n - 1)
      /\ 1..(n - 1) \subseteq 1..n
      /\ \A i \in 1..(n - 1) : (i + 1)..(n - 1) \subseteq (i + 1)..n /\ n \in (i + 1)..n
  OBVIOUS
<1>2. y \in JvsNode /\ (JvsStill(r) => JvsStill(y))
  BY DEF JvsMade, JvsDoes
<1>3. y.failed = "no" /\ (\E i \in 1..n : cmds[i].cmd # "RESET") => y.size > 0
  <2> SUFFICES ASSUME y.failed = "no", NEW i \in 1..n, cmds[i].cmd # "RESET"
               PROVE  y.size > 0
    OBVIOUS
  <2>1. CASE i = n
    BY <2>1 DEF JvsDoes
  <2>2. CASE i \in 1..(n - 1)
    <3>1. x.failed = "no" /\ y.size >= x.size
      BY DEF JvsDoes
    <3>2. x.size > 0
      BY <2>2, <3>1 DEF JvsMade
    <3>3. x.size \in Nat /\ y.size \in Nat
      BY DEF JvsMade, JvsDoes, JvsNode
    <3> QED
      BY <3>1, <3>2, <3>3
  <2> QED
    BY <1>1, <2>1, <2>2
<1>4. (\A i \in 1..n : cmds[i].cmd \notin JvsWriting) => y.gpio = r.gpio
  BY <1>1 DEF JvsMade, JvsDoes
<1>5. (\A i \in 1..n : cmds[i].cmd \notin JvsPlacing) => y.addr = r.addr
  BY <1>1 DEF JvsMade, JvsDoes
<1>6. ASSUME y.failed = "no", NEW i \in 1..n, cmds[i].cmd \in JvsWriting,
             \A j \in (i + 1)..n : cmds[j].cmd \notin JvsWriting
      PROVE  y.gpio = cmds[i].value
  <2>1. CASE i = n
    BY <1>6, <2>1 DEF JvsDoes
  <2>2. CASE i \in 1..(n - 1)
    <3>1. x.failed = "no" /\ y.gpio = x.gpio
      BY <1>1, <1>6, <2>2 DEF JvsDoes
    <3>2. x.gpio = cmds[i].value
      BY <1>1, <1>6, <2>2, <3>1 DEF JvsMade
    <3> QED
      BY <3>1, <3>2
  <2> QED
    BY <1>1, <2>1, <2>2
<1>7. ASSUME y.failed = "no", NEW i \in 1..n, cmds[i].cmd \in JvsPlacing,
             \A j \in (i + 1)..n : cmds[j].cmd \notin JvsPlacing
      PROVE  y.addr = JvsPlaceOf(cmds[i])
  <2>1. CASE i = n
    BY <1>7, <2>1 DEF JvsDoes
  <2>2. CASE i \in 1..(n - 1)
    <3>1. x.failed = "no" /\ y.addr = x.addr
      BY <1>1, <1>7, <2>2 DEF JvsDoes
    <3>2. x.addr = JvsPlaceOf(cmds[i])
      BY <1>1, <1>7, <2>2, <3>1 DEF JvsMade
    <3> QED
      BY <3>1, <3>2
  <2> QED
    BY <1>1, <2>1, <2>2
<1> QED
  BY <1>2, <1>3, <1>4, <1>5, <1>6, <1>7 DEF JvsMade

(* So do all commands of a request: by the least number of them that would *)
(* not.                                                                    *)
LEMMA JvsRequestIsHandled ==
  ASSUME NEW r \in JvsNode, NEW cmds, JvsLists(cmds), r.failed = "no", r.size = 0
  PROVE  JvsMade(r, cmds, Len(cmds), JvsHandled(r, cmds)[Len(cmds)])
<1> DEFINE h == JvsHandled(r, cmds)
           Bad == {n \in 0..Len(cmds) : ~JvsMade(r, cmds, n, h[n])}
<1>1. \A n \in 0..Len(cmds) : h[n] = (IF n = 0 THEN r ELSE io3_cmd(h[n - 1], cmds[n]))
  BY JvsHandledExists
<1> HIDE DEF h
<1>2. SUFFICES ASSUME Bad # {} PROVE FALSE
  <2>1. Len(cmds) \in 0..Len(cmds)
    BY DEF JvsLists
  <2> QED
    BY <1>2, <2>1 DEF h
<1>3. Bad \in SUBSET Nat
  BY DEF JvsLists
<1>4. PICK n \in Bad : \A m \in Bad : n <= m
  BY <1>2, <1>3, LeastExists
<1>5. n \in 0..Len(cmds) /\ n \in Nat /\ Len(cmds) \in Nat
  BY <1>4 DEF JvsLists
<1>6. CASE n = 0
  <2>1. h[n] = r /\ 1..n = {}
    BY <1>1, <1>5, <1>6
  <2>2. JvsMade(r, cmds, n, r)
    BY <2>1 DEF JvsMade
  <2> QED
    BY <1>4, <2>1, <2>2
<1>7. CASE n # 0
  <2>1. n - 1 \in 0..Len(cmds) /\ n \in 1..Len(cmds) /\ ~(n <= n - 1)
    BY <1>5, <1>7
  <2>2. JvsMade(r, cmds, n - 1, h[n - 1])
    BY <1>4, <2>1
  <2>3. h[n] = io3_cmd(h[n - 1], cmds[n])
    BY <1>1, <1>5, <1>7
  <2>4. JvsDoes(h[n - 1], cmds[n], h[n])
    <3>1. h[n - 1] \in JvsNode
      BY <2>2 DEF JvsMade
    <3>2. JvsCommand(cmds[n])
      BY <2>1 DEF JvsLists
    <3> QED
      BY <2>3, <3>1, <3>2, JvsCommandDoes
  <2>5. JvsMade(r, cmds, n, h[n])
    BY <1>5, <1>7, <2>2, <2>4, JvsMadeNext
  <2> QED
    BY <1>4, <2>5
<1> QED
  BY <1>6, <1>7


(* The last command of a kind.                                             *)
LEMMA JvsLastIsLast ==
  ASSUME NEW req, Len(req.cmds) \in Nat, NEW K, "none" \notin K
  PROVE  \/ /\ \A i \in 1..Len(req.cmds) : req.cmds[i].cmd \notin K
            /\ JvsLastOf(req, K) = [cmd |-> "none"]
         \/ \E i \in 1..Len(req.cmds) :
              /\ req.cmds[i].cmd \in K
              /\ \A j \in (i + 1)..Len(req.cmds) : req.cmds[j].cmd \notin K
              /\ JvsLastOf(req, K) = req.cmds[i]
<1> DEFINE at == {i \in 1..Len(req.cmds) : req.cmds[i].cmd \in K}
<1>1. CASE at = {}
  BY <1>1 DEF JvsLastOf
<1>2. CASE at # {}
  <2> DEFINE back == {n \in Nat : \E i \in at : n = Len(req.cmds) - i}
  <2>1. back \in SUBSET Nat /\ back # {}
    <3>1. PICK i \in at : TRUE
      BY <1>2
    <3>2. Len(req.cmds) - i \in Nat
      BY <3>1
    <3> QED
      BY <3>1, <3>2
  <2>2. PICK n \in back : \A m \in back : n <= m
    BY <2>1, LeastExists
  <2>3. PICK i \in at : n = Len(req.cmds) - i
    BY <2>2
  <2>4. ASSUME NEW j \in at PROVE j <= i
    <3>1. Len(req.cmds) - j \in back
      OBVIOUS
    <3>2. n <= Len(req.cmds) - j
      BY <2>2, <3>1
    <3> QED
      BY <2>3, <3>2
  <2> DEFINE k == CHOOSE l \in at : \A j \in at : j <= l
  <2>5. k \in at /\ \A j \in at : j <= k
    BY <2>3, <2>4
  <2>6. JvsLastOf(req, K) = req.cmds[k]
    BY <1>2 DEF JvsLastOf
  <2> HIDE DEF k
  <2>7. \A j \in (k + 1)..Len(req.cmds) : req.cmds[j].cmd \notin K
    <3>1. ASSUME NEW j \in (k + 1)..Len(req.cmds) PROVE j \notin at /\ j \in 1..Len(req.cmds)
      BY <2>5
    <3> QED
      BY <3>1
  <2> QED
    BY <2>5, <2>6, <2>7
<1> QED
  BY <1>1, <1>2

(* A request that the board handles: the outputs and the address are those *)
(* of its last such commands, if it was answered with success, and what no *)
(* command of it names stays.                                              *)
JvsAnswered(req, t) ==
  LET last == JvsLastOf(req, JvsWriting)
      placed == JvsLastOf(req, JvsPlacing)
  IN  /\ t.node.addr \in Nat /\ t.node.gpio \in Nat
      /\ t.node.prev_state \in JvsSwitches /\ t.node.switches \in JvsSwitches
      /\ t.node.shown \in JvsSwitches
      /\ JvsStill(jvs) => JvsStill(t.node)
      /\ t.answer \in {"none", "success", "overflow", "unsupported"}
      /\ last.cmd = "none" \/ t.answer = "none" => t.node.gpio = jvs.gpio
      /\ last.cmd # "none" /\ t.answer = "success" => t.node.gpio = last.value
      /\ last.cmd # "none" => last.value \in Nat
      /\ placed.cmd = "none" => t.node.addr = jvs.addr
      /\ placed.cmd # "none" => JvsPlaceOf(placed) \in Nat
      /\ placed.cmd # "none" => placed.cmd \in JvsPlacing

(* The requests are sequences of such commands.                            *)
LEMMA JvsRequestsAreLists ==
  ASSUME NEW req \in JvsRequests
  PROVE  req.intact \in BOOLEAN /\ JvsLists(req.cmds)
<1>1. req.intact \in BOOLEAN /\ req.cmds \in Seq(ToSet(req.cmds))
  BY JvsAssumption
<1>2. Len(req.cmds) \in Nat /\ DOMAIN req.cmds = 1..Len(req.cmds)
  BY <1>1, LenProperties
<1>3. ASSUME NEW i \in 1..Len(req.cmds) PROVE JvsCommand(req.cmds[i])
  <2>1. req.cmds[i] \in ToSet(req.cmds)
    BY <1>2 DEF ToSet
  <2> QED
    BY <2>1, JvsAssumption DEF JvsCommand
<1> QED
  BY <1>1, <1>2, <1>3 DEF JvsLists

(* Every request makes what JvsAnswered says; it moves a node only that is *)
(* reached.                                                                *)
LEMMA JvsTransacts ==
  ASSUME jvs \in JvsState, NEW req \in JvsRequests, NEW foreground \in BOOLEAN,
         NEW state \in JvsSwitches, NEW t, t = jvs_bus_transact(req, foreground, state)
  PROVE  /\ JvsAnswered(req, t)
         /\ ~jvs.root => t.node.addr = jvs.addr
         /\ jvs.root /\ req.intact /\ req.to \in {0, jvs.addr}
              /\ JvsLastOf(req, JvsPlacing).cmd # "none" /\ t.answer \in {"none", "success"}
              => t.node.addr = JvsPlaceOf(JvsLastOf(req, JvsPlacing))
<1> DEFINE last == JvsLastOf(req, JvsWriting)
           placed == JvsLastOf(req, JvsPlacing)
           mine == req.intact /\ (req.to \in {0, jvs.addr})
           N == Len(req.cmds)
<1>1. N \in Nat /\ JvsLists(req.cmds) /\ req.intact \in BOOLEAN
  BY JvsRequestsAreLists DEF JvsLists
<1>2. \/ /\ \A i \in 1..N : req.cmds[i].cmd \notin JvsWriting
         /\ last = [cmd |-> "none"]
      \/ \E i \in 1..N : /\ req.cmds[i].cmd \in JvsWriting
                         /\ \A j \in (i + 1)..N : req.cmds[j].cmd \notin JvsWriting
                         /\ last = req.cmds[i]
  BY <1>1, JvsLastIsLast DEF JvsWriting
<1>3. \/ /\ \A i \in 1..N : req.cmds[i].cmd \notin JvsPlacing
         /\ placed = [cmd |-> "none"]
      \/ \E i \in 1..N : /\ req.cmds[i].cmd \in JvsPlacing
                         /\ \A j \in (i + 1)..N : req.cmds[j].cmd \notin JvsPlacing
                         /\ placed = req.cmds[i]
  BY <1>1, JvsLastIsLast DEF JvsPlacing
<1>4. last.cmd # "none" => last.value \in Nat /\ last.cmd \in JvsWriting
  BY <1>1, <1>2 DEF JvsLists, JvsCommand, JvsWriting
<1>5. placed.cmd # "none" => JvsPlaceOf(placed) \in Nat /\ placed.cmd \in JvsPlacing
  BY <1>1, <1>3 DEF JvsLists, JvsCommand, JvsPlacing, JvsPlaceOf
<1> HIDE DEF last, placed
<1>6. CASE ~jvs.root
  <2>1. t = [node |-> jvs, answer |-> "none"]
    BY <1>6 DEF jvs_bus_transact
  <2> QED
    BY <1>4, <1>5, <1>6, <2>1 DEF JvsAnswered, JvsState, last, placed
<1>7. CASE jvs.root
  <2> DEFINE r == [addr |-> jvs.addr, gpio |-> jvs.gpio, prev_state |-> jvs.prev_state,
                   switches |-> jvs.switches, shown |-> jvs.shown,
                   size |-> 0, failed |-> "no", foreground |-> foreground, state |-> state]
             after == IF mine THEN JvsHandled(r, req.cmds)[N] ELSE r
             answer == CASE ~mine -> "none"
                         [] mine /\ after.failed # "no" -> after.failed
                         [] mine /\ after.failed = "no" /\ after.size = 0 -> "none"
                         [] OTHER -> "success"
  <2>1. t = [node |-> after, answer |-> answer]
    BY <1>7 DEF jvs_bus_transact, jvs_crack_request
  <2>2. r \in JvsNode /\ r.failed = "no" /\ r.size = 0 /\ (JvsStill(jvs) => JvsStill(r))
        /\ r.addr = jvs.addr /\ r.gpio = jvs.gpio
    BY DEF JvsNode, JvsState, JvsStill
  <2> HIDE DEF r
  <2>3. CASE ~mine
    <3>1. after = r /\ answer = "none"
      BY <2>3
    <3> HIDE DEF after, answer
    <3> QED
      BY <1>4, <1>5, <2>1, <2>2, <2>3, <3>1
        DEF JvsAnswered, JvsNode, JvsStill, last, placed
  <2>4. CASE mine
    <3>1. JvsMade(r, req.cmds, N, after)
      BY <1>1, <2>2, <2>4, JvsRequestIsHandled
    <3>2. after \in JvsNode
      BY <3>1 DEF JvsMade
    <3> HIDE DEF after
    <3>3. /\ answer \in {"none", "success", "overflow", "unsupported"}
          /\ answer = "none" => after.failed = "no" /\ after.size = 0
          /\ answer = "success" => after.failed = "no"
      <4>1. after.failed \in {"no", "overflow", "unsupported"}
        BY <3>2 DEF JvsNode
      <4> QED
        BY <2>4, <4>1
    <3> HIDE DEF answer
    <3>4. last.cmd = "none" => after.gpio = jvs.gpio
      BY <1>2, <2>2, <3>1 DEF JvsMade, JvsWriting
    <3>5. answer = "none" => after.gpio = jvs.gpio
      <4> SUFFICES ASSUME answer = "none" PROVE after.gpio = jvs.gpio
        OBVIOUS
      <4>1. after.failed = "no" /\ ~(after.size > 0)
        BY <3>3
      <4>2. \A i \in 1..N : req.cmds[i].cmd = "RESET"
        BY <3>1, <4>1 DEF JvsMade
      <4> QED
        BY <2>2, <3>1, <4>2 DEF JvsMade, JvsWriting
    <3>6. last.cmd # "none" /\ answer = "success" => after.gpio = last.value
      BY <1>2, <3>1, <3>3 DEF JvsMade
    <3>7. placed.cmd = "none" => after.addr = jvs.addr
      BY <1>3, <2>2, <3>1 DEF JvsMade, JvsPlacing
    <3>8. placed.cmd # "none" /\ answer \in {"none", "success"}
            => after.addr = JvsPlaceOf(placed)
      BY <1>3, <3>1, <3>3 DEF JvsMade
    <3>9. JvsStill(jvs) => JvsStill(after)
      BY <2>2, <3>1 DEF JvsMade
    <3>10. t.node = after /\ t.answer = answer
      BY <2>1
    <3>11. JvsAnswered(req, t)
      BY <1>4, <1>5, <3>2, <3>3, <3>4, <3>5, <3>6, <3>7, <3>9, <3>10
         DEF JvsAnswered, JvsNode, last, placed
    <3> QED
      BY <1>7, <3>8, <3>10, <3>11 DEF last, placed
  <2> QED
    BY <2>3, <2>4
<1> QED
  BY <1>6, <1>7 DEF JvsState

(* The invariant: the status of a request without an answer is in place    *)
(* from the step before the event on.                                      *)
JvsMarks ==
  /\ jvs.at # "idle" => jvs.result = "none" /\ jvs.fd
  /\ jvs.at \in {"signal", "return"} => jvs.internal = "NO_DATA"

(* The invariant of the bus.                                               *)
JvsInv == jvs \in JvsState /\ JvsIsRight /\ JvsMarks

(* The invariant holds at the start.                                       *)
LEMMA JvsStarts == JvsInit => JvsInv
<1> SUFFICES ASSUME JvsInit PROVE JvsInv
  OBVIOUS
<1>1. jvs \in JvsState
  BY JvsAssumption DEF JvsInit, JvsState
<1> QED
  BY <1>1, JvsAssumption DEF JvsInit, JvsInv, JvsIsRight, JvsTypeOK, JvsOutputsAreTold,
     JvsAddressIsKnown, JvsEventMeansStatus, JvsFrozen, JvsMarks

(* A request keeps it: what the host was told, and what it placed, is what *)
(* the node holds.                                                         *)
LEMMA JvsTransactKeeps ==
  ASSUME JvsInv, NEW req \in JvsRequests, NEW foreground \in BOOLEAN,
         NEW state \in JvsSwitches, NEW ovl \in BOOLEAN,
         jvs_ioctl_transact(req, foreground, state, ovl)
  PROVE  JvsInv'
<1> DEFINE t == jvs_bus_transact(req, foreground, state)
           last == JvsLastOf(req, JvsWriting)
           placed == JvsLastOf(req, JvsPlacing)
           told == IF t.answer = "success" /\ last.cmd # "none" THEN last.value
                   ELSE jvs.gpio_told
           unsure == IF last.cmd = "none" \/ t.answer = "none" THEN jvs.unsure
                     ELSE t.answer # "success"
           assigned == IF ~jvs.root \/ ~req.intact \/ req.to \notin {0, jvs.addr}
                             \/ placed.cmd = "none" THEN jvs.assigned
                       ELSE IF t.answer \in {"none", "success"}
                            THEN IF placed.cmd = "RESET" THEN 0 ELSE placed.addr
                            ELSE -1
           at == IF t.answer = "none" /\ ovl THEN "mark" ELSE "idle"
<1>1. jvs \in JvsState /\ JvsIsRight /\ jvs.at = "idle" /\ jvs.fd
  BY DEF JvsInv, jvs_ioctl_transact
<1>2. /\ JvsAnswered(req, t)
      /\ ~jvs.root => t.node.addr = jvs.addr
      /\ jvs.root /\ req.intact /\ req.to \in {0, jvs.addr}
           /\ placed.cmd # "none" /\ t.answer \in {"none", "success"}
           => t.node.addr = JvsPlaceOf(placed)
  BY <1>1, JvsTransacts
<1>3. jvs' = [jvs EXCEPT
           !.addr = t.node.addr, !.gpio = t.node.gpio, !.prev_state = t.node.prev_state,
           !.switches = t.node.switches, !.shown = t.node.shown,
           !.result = t.answer, !.ovl = ovl, !.event = FALSE, !.internal = "pending",
           !.at = at, !.gpio_told = told, !.unsure = unsure, !.assigned = assigned]
  BY DEF jvs_ioctl_transact, JvsWriting, JvsPlacing
<1> HIDE DEF t
<1>4. /\ t.node.addr \in Nat /\ t.node.gpio \in Nat
      /\ t.node.prev_state \in JvsSwitches /\ t.node.switches \in JvsSwitches
      /\ t.node.shown \in JvsSwitches
      /\ t.answer \in {"none", "success", "overflow", "unsupported"}
      /\ last.cmd # "none" => last.value \in Nat
      /\ placed.cmd # "none" => JvsPlaceOf(placed) \in Nat
  BY <1>2 DEF JvsAnswered
<1>5. /\ told \in Nat /\ unsure \in BOOLEAN /\ assigned \in Nat \cup {-1}
      /\ at \in {"idle", "mark"} /\ (at # "idle" => t.answer = "none")
  <2>1. told \in Nat
    BY <1>1, <1>4 DEF JvsState
  <2>2. unsure \in BOOLEAN
    BY <1>1 DEF JvsState
  <2>3. assigned \in Nat \cup {-1}
    BY <1>1, <1>4 DEF JvsState, JvsPlaceOf
  <2> QED
    BY <2>1, <2>2, <2>3
<1>6. ~unsure => t.node.gpio = told
  <2>1. ~jvs.unsure => jvs.gpio = jvs.gpio_told
    BY <1>1 DEF JvsIsRight, JvsOutputsAreTold
  <2>2. CASE last.cmd = "none" \/ t.answer = "none"
    BY <1>2, <2>1, <2>2 DEF JvsAnswered
  <2>3. CASE last.cmd # "none" /\ t.answer # "none"
    BY <1>2, <2>3 DEF JvsAnswered
  <2> QED
    BY <2>2, <2>3
<1>7. assigned >= 0 => t.node.addr = assigned
  <2>1. jvs.assigned >= 0 => jvs.addr = jvs.assigned
    BY <1>1 DEF JvsIsRight, JvsAddressIsKnown
  <2>2. CASE placed.cmd = "none"
    BY <1>2, <2>1, <2>2 DEF JvsAnswered
  <2>3. CASE placed.cmd # "none" /\ (~jvs.root \/ ~req.intact \/ req.to \notin {0, jvs.addr})
    <3>1. t.node.addr = jvs.addr
      <4>1. CASE ~jvs.root
        BY <1>2, <4>1
      <4>2. CASE jvs.root
        <5>1. t.node.addr = jvs.addr
          BY <2>3, <4>2 DEF t, jvs_bus_transact, jvs_crack_request
        <5> QED
          BY <5>1
      <4> QED
        BY <1>1, <4>1, <4>2 DEF JvsState
    <3> QED
      BY <2>1, <2>3, <3>1
  <2>4. CASE placed.cmd # "none" /\ jvs.root /\ req.intact /\ req.to \in {0, jvs.addr}
    BY <1>2, <2>4 DEF JvsPlaceOf
  <2> QED
    BY <2>2, <2>3, <2>4
<1>8. t.node.addr # 0 => jvs.root
  BY <1>1, <1>2 DEF JvsIsRight, JvsTypeOK
<1>9. t.node.switches = t.node.prev_state /\ t.node.prev_state = t.node.shown
  BY <1>1, <1>2 DEF JvsIsRight, JvsFrozen, JvsAnswered, JvsStill
<1> HIDE DEF told, unsure, assigned, at
<1>10. jvs' \in JvsState
  <2> DEFINE node == t.node
             answer == t.answer
  <2>1. /\ node.addr \in Nat /\ node.gpio \in Nat
        /\ node.prev_state \in JvsSwitches /\ node.switches \in JvsSwitches
        /\ node.shown \in JvsSwitches
        /\ answer \in {"none", "success", "overflow", "unsupported"}
    BY <1>4
  <2>2. at \in {"idle", "mark", "signal", "return"}
    BY <1>5
  <2>3. told \in Nat /\ unsure \in BOOLEAN /\ assigned \in Nat \cup {-1} /\ ovl \in BOOLEAN
    BY <1>5
  <2>4. jvs \in JvsState
    BY <1>1
  <2>5. jvs' = [jvs EXCEPT
           !.addr = node.addr, !.gpio = node.gpio, !.prev_state = node.prev_state,
           !.switches = node.switches, !.shown = node.shown,
           !.result = answer, !.ovl = ovl, !.event = FALSE, !.internal = "pending",
           !.at = at, !.gpio_told = told, !.unsure = unsure, !.assigned = assigned]
    BY <1>3
  <2> HIDE DEF node, answer
  <2>6. jvs' = [fd |-> jvs.fd, root |-> jvs.root, addr |-> node.addr, gpio |-> node.gpio,
                prev_state |-> node.prev_state, at |-> at, ovl |-> ovl,
                internal |-> "pending", event |-> FALSE, result |-> answer,
                sense |-> jvs.sense, switches |-> node.switches, assigned |-> assigned,
                gpio_told |-> told, unsure |-> unsure, shown |-> node.shown]
    BY ONLY <2>4, <2>5 DEF JvsState
  <2>7. jvs.fd \in BOOLEAN /\ jvs.root \in BOOLEAN /\ jvs.sense \in 0..3
    BY ONLY <2>4 DEF JvsState
  <2> QED
    BY ONLY <2>1, <2>2, <2>3, <2>6, <2>7 DEF JvsState
<1>11. /\ jvs'.fd = jvs.fd /\ jvs'.root = jvs.root /\ jvs'.addr = t.node.addr
       /\ jvs'.gpio = t.node.gpio /\ jvs'.prev_state = t.node.prev_state
       /\ jvs'.switches = t.node.switches /\ jvs'.shown = t.node.shown
       /\ jvs'.result = t.answer /\ jvs'.event = FALSE
       /\ jvs'.at = at /\ jvs'.gpio_told = told /\ jvs'.unsure = unsure
       /\ jvs'.assigned = assigned
  BY ONLY <1>1, <1>3 DEF JvsState
<1>12. JvsIsRight'
  BY <1>1, <1>4, <1>5, <1>6, <1>7, <1>8, <1>9, <1>11 DEF JvsIsRight, JvsTypeOK,
     JvsOutputsAreTold, JvsAddressIsKnown, JvsEventMeansStatus, JvsFrozen
<1>13. JvsMarks'
  BY <1>1, <1>5, <1>11 DEF JvsMarks
<1> QED
  BY <1>10, <1>12, <1>13 DEF JvsInv

(* Every step keeps it.                                                    *)
LEMMA JvsKeeps ==
  ASSUME JvsInv, [JvsNext]_jvs
  PROVE  JvsInv'
<1> USE DEF JvsIsRight, JvsTypeOK, JvsOutputsAreTold, JvsAddressIsKnown,
        JvsEventMeansStatus, JvsFrozen, JvsMarks
<1>1. jvs \in JvsState /\ JvsIsRight /\ JvsMarks
  BY DEF JvsInv
<1>2. CASE jvs_handle_open
  <2>1. CASE jvs' = [jvs EXCEPT !.fd = TRUE]
    <3>1. jvs' \in JvsState
      BY <1>1, <2>1 DEF JvsState
    <3> QED
      BY <1>1, <2>1, <3>1 DEF JvsInv, JvsState
  <2>2. CASE jvs' = [jvs EXCEPT !.fd = TRUE, !.root = TRUE, !.addr = 0, !.assigned = 0]
    <3>1. jvs' \in JvsState
      BY <1>1, <2>2 DEF JvsState
    <3> QED
      BY <1>1, <2>2, <3>1 DEF JvsInv, JvsState
  <2> QED
    BY <1>2, <2>1, <2>2 DEF jvs_handle_open
<1>3. CASE jvs_handle_close
  <2>1. jvs.at = "idle" /\ jvs' = [jvs EXCEPT !.fd = FALSE]
    BY <1>3 DEF jvs_handle_close
  <2>2. jvs' \in JvsState
    BY <1>1, <2>1 DEF JvsState
  <2> QED
    BY <1>1, <2>1, <2>2 DEF JvsInv, JvsState
<1>4. CASE jvs_ioctl_sense
  <2>1. PICK s \in 1..3 : jvs' = [jvs EXCEPT !.sense = s]
    BY <1>4 DEF jvs_ioctl_sense
  <2>2. jvs' \in JvsState
    BY <1>1, <2>1 DEF JvsState
  <2> QED
    BY <1>1, <2>1, <2>2 DEF JvsInv, JvsState
<1>5. CASE JvsSignal
  <2>1. CASE jvs.at = "mark" /\ jvs' = [jvs EXCEPT !.internal = "NO_DATA", !.at = "signal"]
    <3>1. jvs' \in JvsState
      BY <1>1, <2>1 DEF JvsState
    <3> QED
      BY <1>1, <2>1, <3>1 DEF JvsInv, JvsState
  <2>2. CASE jvs.at = "signal" /\ jvs' = [jvs EXCEPT !.event = TRUE, !.at = "return"]
    <3>1. jvs' \in JvsState
      BY <1>1, <2>2 DEF JvsState
    <3> QED
      BY <1>1, <2>2, <3>1 DEF JvsInv, JvsState
  <2>3. CASE jvs.at = "return" /\ jvs' = [jvs EXCEPT !.at = "idle"]
    <3>1. jvs' \in JvsState
      BY <1>1, <2>3 DEF JvsState
    <3> QED
      BY <1>1, <2>3, <3>1 DEF JvsInv, JvsState
  <2> QED
    BY <1>5, <2>1, <2>2, <2>3 DEF JvsSignal
<1>6. CASE \E req \in JvsRequests, foreground \in BOOLEAN, state \in JvsSwitches,
              ovl \in BOOLEAN : jvs_ioctl_transact(req, foreground, state, ovl)
  BY <1>6, JvsTransactKeeps
<1>7. CASE UNCHANGED jvs
  BY <1>1, <1>7 DEF JvsInv, JvsState
<1> QED
  BY <1>2, <1>3, <1>4, <1>5, <1>6, <1>7 DEF JvsNext

(* The bus is right: the outputs are those of the last request that was    *)
(* answered with success, the address the last that was given, whatever    *)
(* request fails at whatever command.                                      *)
THEOREM BusIsRight == JvsSpec => []JvsIsRight
<1>1. JvsInv => JvsIsRight
  BY DEF JvsInv
<1>2. JvsInv /\ [JvsNext]_jvs => JvsInv'
  BY JvsKeeps
<1> QED
  BY <1>1, <1>2, JvsStarts, PTL DEF JvsSpec

-----------------------------------------------------------------------------
(* The text display: for all writes and sizes.                             *)

(* What the commands of a write mean in turn, as a step of the recursion.  *)
VfdMeantNext(s, cmds, f) ==
  [n \in 0..Len(cmds) |-> IF n = 0 THEN s ELSE VfdMeans(f[n - 1], cmds[n])]

(* The recursion of VfdMeantAfter has a value at every command of a write. *)
LEMMA VfdMeantExists ==
  ASSUME NEW s, NEW cmds, Len(cmds) \in Nat
  PROVE  \A n \in 0..Len(cmds) : VfdMeantAfter(s, cmds)[n] =
           (IF n = 0 THEN s ELSE VfdMeans(VfdMeantAfter(s, cmds)[n - 1], cmds[n]))
<1> DEFINE Up(n, f) == \A i \in 0..n :
                         f[i] = (IF i = 0 THEN s ELSE VfdMeans(f[i - 1], cmds[i]))
           Bad == {n \in 0..Len(cmds) : ~\E f : f = [i \in 0..n |-> f[i]] /\ Up(n, f)}
<1>1. Bad = {}
  <2> SUFFICES ASSUME Bad # {} PROVE FALSE
    OBVIOUS
  <2>1. Bad \in SUBSET Nat
    OBVIOUS
  <2>2. PICK n \in Bad : \A m \in Bad : n <= m
    BY <2>1, LeastExists
  <2>3. n \in 0..Len(cmds) /\ n \in Nat /\ Len(cmds) \in Nat
    BY <2>2
  <2>4. CASE n = 0
    <3> DEFINE f == [i \in 0..0 |-> s]
    <3>1. f = [i \in 0..n |-> f[i]] /\ Up(n, f)
      BY <2>4
    <3> QED
      BY <2>2, <3>1
  <2>5. CASE n # 0
    <3>1. n - 1 \in 0..Len(cmds) /\ n - 1 \notin Bad
      <4>1. n - 1 \in 0..Len(cmds) /\ ~(n <= n - 1)
        BY <2>3, <2>5
      <4> QED
        BY <2>2, <4>1
    <3>2. PICK f : f = [i \in 0..(n - 1) |-> f[i]] /\ Up(n - 1, f)
      BY <3>1
    <3> DEFINE g == [i \in 0..n |-> IF i = n THEN VfdMeans(f[n - 1], cmds[n]) ELSE f[i]]
    <3>3. g = [i \in 0..n |-> g[i]]
      OBVIOUS
    <3>4. ASSUME NEW i \in 0..n
          PROVE  g[i] = (IF i = 0 THEN s ELSE VfdMeans(g[i - 1], cmds[i]))
      <4>1. CASE i = n
        <5>1. i - 1 \in 0..n /\ i - 1 # n /\ i # 0
          BY <4>1, <2>3, <2>5
        <5>2. g[i - 1] = f[i - 1]
          BY <5>1
        <5> QED
          BY <4>1, <5>1, <5>2
      <4>2. CASE i # n
        <5>1. i \in 0..(n - 1) /\ (i # 0 => i - 1 \in 0..n /\ i - 1 # n)
          BY <4>2, <2>3
        <5>2. g[i] = f[i] /\ (i # 0 => g[i - 1] = f[i - 1])
          BY <4>2, <5>1
        <5>3. f[i] = (IF i = 0 THEN s ELSE VfdMeans(f[i - 1], cmds[i]))
          BY <3>2, <5>1
        <5> QED
          BY <5>2, <5>3
      <4> QED
        BY <4>1, <4>2
    <3> HIDE DEF g
    <3>5. Up(n, g)
      BY <3>4
    <3> QED
      BY <2>2, <3>3, <3>5
  <2> QED
    BY <2>4, <2>5
<1>2. PICK f : f = [i \in 0..Len(cmds) |-> f[i]] /\ Up(Len(cmds), f)
  <2>1. Len(cmds) \in 0..Len(cmds)
    OBVIOUS
  <2> QED
    BY <1>1, <2>1
<1>3. f = VfdMeantNext(s, cmds, f)
  BY <1>2 DEF VfdMeantNext
<1> DEFINE h == CHOOSE g : g = VfdMeantNext(s, cmds, g)
<1>4. h = VfdMeantNext(s, cmds, h)
  BY <1>3
<1>5. VfdMeantAfter(s, cmds) = h
  BY DEF VfdMeantAfter, VfdMeantNext
<1> HIDE DEF h
<1> QED
  BY <1>4, <1>5 DEF VfdMeantNext


(* The commands of all writes.                                             *)
VfdCommands == UNION {{cmds[i] : i \in 1..Len(cmds)} : cmds \in VfdWrites}

(* The fields of the display.                                              *)
VfdShape ==
  vfd = [at |-> vfd.at, written |-> vfd.written, todo |-> vfd.todo, readable |-> vfd.readable,
         fields |-> vfd.fields, clear_seq |-> vfd.clear_seq, text |-> vfd.text,
         published |-> vfd.published, written_fields |-> vfd.written_fields,
         clears |-> vfd.clears, refused |-> vfd.refused]

(* The settings that are followed.                                         *)
VfdFollowed == {"brightness", "cursor", "encoding"}

(* The display is as the commands so far, which lead to s, mean it to be.  *)
VfdAgrees(fields, clear_seq, s) ==
  /\ s = [fields |-> s.fields, clears |-> s.clears]
  /\ s.fields = [f \in VfdField |-> s.fields[f]]
  /\ clear_seq = s.clears
  /\ \A f \in VfdFollowed : fields[f] = s.fields[f]

(* How many commands of the buffer are done.                               *)
VfdAt == Len(vfd.written) - Len(vfd.todo)

(* A command that is refused whenever it is met.                           *)
VfdBad(c) == c.cmd \in {"SET_BRIGHTNESS", "SET_SCREEN_ON", "SET_ENCODING"} /\ c.value = VfdInvalid

(* What is left to do is the end of the buffer, and nothing that is        *)
(* refused is in front of it.                                              *)
VfdRest ==
  /\ \A j \in 1..Len(vfd.todo) : vfd.todo[j] = vfd.written[VfdAt + j]
  /\ vfd.at = "handle" => \A i \in 1..VfdAt : ~VfdBad(vfd.written[i])

(* Without a refusal the buffer is empty between writes, and during one    *)
(* the display is as the commands up to here mean it to be.                *)
VfdCounts ==
  /\ ~vfd.refused /\ vfd.at = "idle" =>
       /\ vfd.written = <<>>
       /\ VfdAgrees(vfd.fields, vfd.clear_seq,
                    [fields |-> vfd.written_fields, clears |-> vfd.clears])
  /\ ~vfd.refused /\ vfd.at = "handle" =>
       \E s : /\ VfdAgrees(vfd.fields, vfd.clear_seq, VfdMeantAfter(s, vfd.written)[VfdAt])
              /\ VfdMeantAfter(s, vfd.written)[Len(vfd.written)].fields = vfd.written_fields
              /\ VfdMeantAfter(s, vfd.written)[Len(vfd.written)].clears = vfd.clears

(* The invariant of the display.                                           *)
VfdInv ==
  /\ VfdShape /\ VfdTypeOK /\ VfdIsPublished /\ VfdRest /\ VfdCounts
  /\ vfd.at \in {"idle", "handle"} /\ vfd.readable \in Nat /\ vfd.refused \in BOOLEAN
  /\ vfd.written \in Seq(VfdCommands) /\ vfd.todo \in Seq(VfdCommands)
  /\ vfd.fields = [f \in VfdField |-> vfd.fields[f]]

(* A command that is handled: one less to do, the display as it means, and *)
(* the DLL told.                                                           *)
VfdHandles(c) ==
  /\ vfd' = [at |-> vfd.at, written |-> vfd.written, todo |-> Tail(vfd.todo),
             readable |-> vfd'.readable, fields |-> vfd'.fields, clear_seq |-> vfd'.clear_seq,
             text |-> vfd'.text, published |-> vfd'.published,
             written_fields |-> vfd.written_fields, clears |-> vfd.clears,
             refused |-> vfd.refused]
  /\ vfd'.published = [fields |-> vfd'.fields, clear_seq |-> vfd'.clear_seq]
  /\ vfd'.fields = [f \in VfdField |-> vfd'.fields[f]]
  /\ vfd'.readable \in Nat /\ vfd'.readable <= VfdReadable
  /\ \A s : VfdAgrees(vfd.fields, vfd.clear_seq, s)
              => VfdAgrees(vfd'.fields, vfd'.clear_seq, VfdMeans(s, c))
  /\ ~VfdBad(c)

(* A command that fails.                                                   *)
VfdRefuses ==
  vfd' = [at |-> "idle", written |-> vfd.written, todo |-> <<>>,
          readable |-> vfd.readable, fields |-> vfd.fields, clear_seq |-> vfd.clear_seq,
          text |-> vfd.text, published |-> vfd.published,
          written_fields |-> VfdReset, clears |-> 0, refused |-> TRUE]

(* A command vfd_handle_irp refuses leaves all the values as they are.     *)
LEMMA VfdFailing ==
  ASSUME VfdShape, vfd' = VfdFails(vfd)
  PROVE  VfdRefuses
<1> DEFINE v == vfd
           at == v.at  queue == v.written  todo == v.todo  room == v.readable
           fields == v.fields  clear_seq == v.clear_seq  text == v.text
           published == v.published  written_fields == v.written_fields
           clears == v.clears  refused == v.refused
<1>1. v = [at |-> at, written |-> queue, todo |-> todo, readable |-> room,
           fields |-> fields, clear_seq |-> clear_seq, text |-> text, published |-> published,
           written_fields |-> written_fields, clears |-> clears, refused |-> refused]
  BY DEF VfdShape
<1>2. vfd' = [v EXCEPT !.at = "idle", !.todo = <<>>, !.refused = TRUE,
                       !.written_fields = VfdReset, !.clears = 0]
  BY DEF VfdFails
<1> QED
  BY <1>1, <1>2 DEF VfdRefuses

(* A setting that is stored is one that was followed, or makes no          *)
(* difference.                                                             *)
LEMMA VfdStores ==
  ASSUME VfdInv, NEW cmd, NEW field \in VfdField, NEW value, VfdSet(cmd, field, value),
         ~VfdBad(Head(vfd.todo)),
         \A s : VfdAgrees(vfd.fields, vfd.clear_seq, s)
                  => VfdAgrees([vfd.fields EXCEPT ![field] = value], vfd.clear_seq,
                               VfdMeans(s, Head(vfd.todo)))
  PROVE  VfdHandles(Head(vfd.todo))
<1>1. /\ VfdShape /\ vfd.readable \in Nat /\ vfd.readable <= VfdReadable
      /\ vfd.fields = [f \in VfdField |-> vfd.fields[f]]
  BY DEF VfdInv, VfdTypeOK
<1> DEFINE new == [vfd.fields EXCEPT ![field] = value]
<1>2. vfd' = [at |-> vfd.at, written |-> vfd.written, todo |-> Tail(vfd.todo),
              readable |-> vfd.readable, fields |-> new, clear_seq |-> vfd.clear_seq,
              text |-> vfd.text, published |-> [fields |-> new, clear_seq |-> vfd.clear_seq],
              written_fields |-> vfd.written_fields, clears |-> vfd.clears,
              refused |-> vfd.refused]
  <2> DEFINE v == [vfd EXCEPT !.fields[field] = value]
             w == [v EXCEPT !.published = [fields |-> v.fields, clear_seq |-> v.clear_seq]]
  <2>1. vfd' = [w EXCEPT !.todo = Tail(w.todo)]
    BY DEF VfdSet, VfdDone, vfd_publish_state
  <2>2. v = [at |-> vfd.at, written |-> vfd.written, todo |-> vfd.todo,
             readable |-> vfd.readable, fields |-> new, clear_seq |-> vfd.clear_seq,
             text |-> vfd.text, published |-> vfd.published,
             written_fields |-> vfd.written_fields, clears |-> vfd.clears,
             refused |-> vfd.refused]
    BY <1>1 DEF VfdShape
  <2> HIDE DEF v, new
  <2>3. w = [at |-> vfd.at, written |-> vfd.written, todo |-> vfd.todo,
             readable |-> vfd.readable, fields |-> new, clear_seq |-> vfd.clear_seq,
             text |-> vfd.text, published |-> [fields |-> new, clear_seq |-> vfd.clear_seq],
             written_fields |-> vfd.written_fields, clears |-> vfd.clears,
             refused |-> vfd.refused]
    BY <2>2
  <2> HIDE DEF w
  <2> QED
    BY <2>1, <2>3
<1>3. new = [f \in VfdField |-> new[f]]
  BY <1>1
<1> HIDE DEF new
<1>4. /\ vfd'.readable = vfd.readable /\ vfd'.fields = new
      /\ vfd'.clear_seq = vfd.clear_seq /\ vfd'.text = vfd.text
      /\ vfd'.published = [fields |-> new, clear_seq |-> vfd.clear_seq]
  BY <1>2
<1>5. \A s : VfdAgrees(vfd.fields, vfd.clear_seq, s)
               => VfdAgrees(new, vfd.clear_seq, VfdMeans(s, Head(vfd.todo)))
  BY DEF new
<1> QED
  BY <1>1, <1>2, <1>3, <1>4, <1>5 DEF VfdHandles

(* What a setting that is followed should do.                              *)
LEMMA VfdFollows ==
  ASSUME NEW fields, NEW clear_seq, NEW s, VfdAgrees(fields, clear_seq, s),
         fields = [f \in VfdField |-> fields[f]], NEW field \in VfdFollowed, NEW value
  PROVE  VfdAgrees([fields EXCEPT ![field] = value], clear_seq,
                   [s EXCEPT !.fields[field] = value])
<1> DEFINE a == s.fields
           b == s.clears
           x == [fields |-> [a EXCEPT ![field] = value], clears |-> b]
           new == [fields EXCEPT ![field] = value]
<1>1. /\ s = [fields |-> a, clears |-> b] /\ a = [f \in VfdField |-> a[f]]
      /\ clear_seq = b /\ \A f \in VfdFollowed : fields[f] = a[f]
  BY DEF VfdAgrees
<1>2. VfdFollowed \subseteq VfdField
  BY DEF VfdFollowed, VfdField
<1>3. [s EXCEPT !.fields[field] = value] = x
  BY <1>1
<1>4. /\ [a EXCEPT ![field] = value] = [f \in VfdField |-> [a EXCEPT ![field] = value][f]]
      /\ \A f \in VfdFollowed : new[f] = [a EXCEPT ![field] = value][f]
  BY <1>1, <1>2
<1>5. /\ x = [fields |-> x.fields, clears |-> x.clears]
      /\ x.fields = [a EXCEPT ![field] = value] /\ x.clears = b
  OBVIOUS
<1> HIDE DEF x, new, a, b
<1>6. VfdAgrees(new, clear_seq, x)
  BY <1>1, <1>4, <1>5 DEF VfdAgrees
<1> QED
  BY <1>3, <1>6 DEF new

(* And one that is not.                                                    *)
LEMMA VfdPassesBy ==
  ASSUME NEW fields, NEW clear_seq, NEW s, VfdAgrees(fields, clear_seq, s),
         fields = [f \in VfdField |-> fields[f]], NEW field \in VfdField \ VfdFollowed,
         NEW value
  PROVE  VfdAgrees([fields EXCEPT ![field] = value], clear_seq, s)
<1>1. VfdFollowed \subseteq VfdField
  BY DEF VfdFollowed, VfdField
<1>2. \A f \in VfdFollowed : [fields EXCEPT ![field] = value][f] = fields[f]
  BY <1>1
<1> QED
  BY <1>2 DEF VfdAgrees

(* The commands that set what is followed.                                 *)
LEMMA VfdSetsFollowed ==
  ASSUME VfdInv, NEW cmd, NEW field \in VfdFollowed,
         VfdSet(cmd, field, Head(vfd.todo).value),
         \/ cmd = "SET_BRIGHTNESS" /\ field = "brightness"
         \/ cmd = "CLEAR_BRIGHTNESS" /\ field = "brightness"
         \/ cmd = "SET_CURSOR" /\ field = "cursor"
         \/ cmd = "SET_ENCODING" /\ field = "encoding",
         ~VfdBad(Head(vfd.todo))
  PROVE  VfdHandles(Head(vfd.todo))
<1> DEFINE c == Head(vfd.todo)
<1>1. c.cmd = cmd
  BY DEF VfdSet, VfdTake
<1>2. field \in VfdField /\ vfd.fields = [f \in VfdField |-> vfd.fields[f]]
  BY DEF VfdFollowed, VfdField, VfdInv
<1>3. VfdSet(cmd, field, c.value) /\ ~VfdBad(c)
  OBVIOUS
<1> HIDE DEF c
<1>4. \A s : VfdMeans(s, c) = [s EXCEPT !.fields[field] = c.value]
  BY <1>1 DEF VfdMeans
<1>5. \A s : VfdAgrees(vfd.fields, vfd.clear_seq, s)
               => VfdAgrees([vfd.fields EXCEPT ![field] = c.value], vfd.clear_seq,
                            VfdMeans(s, c))
  <2> SUFFICES ASSUME NEW s, VfdAgrees(vfd.fields, vfd.clear_seq, s)
               PROVE  VfdAgrees([vfd.fields EXCEPT ![field] = c.value], vfd.clear_seq,
                                [s EXCEPT !.fields[field] = c.value])
    BY <1>4
  <2> QED
    BY <1>2, VfdFollows
<1> QED
  BY <1>2, <1>3, <1>5, VfdStores DEF c

(* And the others.                                                         *)
LEMMA VfdSetsOther ==
  ASSUME VfdInv, NEW cmd, NEW field \in VfdField \ VfdFollowed, NEW value,
         VfdSet(cmd, field, value),
         cmd \in {"SET_SCREEN_ON", "SET_H_SCROLL", "SET_TEXT_WND", "SET_TEXT_SPEED", "ROTATE",
                  "ENABLE_SCROLL", "DISABLE_SCROLL"},
         ~VfdBad(Head(vfd.todo))
  PROVE  VfdHandles(Head(vfd.todo))
<1> DEFINE c == Head(vfd.todo)
<1>1. c.cmd = cmd
  BY DEF VfdSet, VfdTake
<1>2. field \in VfdField /\ vfd.fields = [f \in VfdField |-> vfd.fields[f]]
  BY DEF VfdInv
<1>3. VfdSet(cmd, field, value) /\ ~VfdBad(c)
  OBVIOUS
<1> HIDE DEF c
<1>4. \A s : VfdMeans(s, c) = s
  BY <1>1 DEF VfdMeans
<1>5. \A s : VfdAgrees(vfd.fields, vfd.clear_seq, s)
               => VfdAgrees([vfd.fields EXCEPT ![field] = value], vfd.clear_seq,
                            VfdMeans(s, c))
  BY <1>2, <1>4, VfdPassesBy
<1> QED
  BY <1>2, <1>3, <1>5, VfdStores DEF c

(* A command whose argument is checked.                                    *)
LEMMA VfdChecks ==
  ASSUME VfdInv,
         \/ vfd_handle_set_brightness \/ vfd_handle_set_screen_on \/ vfd_handle_set_encoding
  PROVE  VfdHandles(Head(vfd.todo)) \/ VfdRefuses
<1> DEFINE c == Head(vfd.todo)
<1>1. PICK cmd \in {"SET_BRIGHTNESS", "SET_SCREEN_ON", "SET_ENCODING"} :
        \E field \in VfdField :
          /\ VfdSetChecked(cmd, field)
          /\ \/ cmd = "SET_BRIGHTNESS" /\ field = "brightness"
             \/ cmd = "SET_SCREEN_ON" /\ field = "screen_on"
             \/ cmd = "SET_ENCODING" /\ field = "encoding"
  BY DEF vfd_handle_set_brightness, vfd_handle_set_screen_on, vfd_handle_set_encoding,
       VfdField
<1>2. PICK field \in VfdField :
          /\ VfdSetChecked(cmd, field)
          /\ \/ cmd = "SET_BRIGHTNESS" /\ field = "brightness"
             \/ cmd = "SET_SCREEN_ON" /\ field = "screen_on"
             \/ cmd = "SET_ENCODING" /\ field = "encoding"
  BY <1>1
<1>3. CASE vfd' = VfdFails(vfd)
  BY <1>3, VfdFailing DEF VfdInv
<1>4. CASE c.value # VfdInvalid /\ VfdSet(cmd, field, c.value)
  <2>1. ~VfdBad(c)
    BY <1>4 DEF VfdBad
  <2>2. CASE field \in VfdFollowed
    BY <1>2, <1>4, <2>1, <2>2, VfdSetsFollowed DEF VfdFollowed
  <2>3. CASE field \notin VfdFollowed
    <3>1. cmd = "SET_SCREEN_ON"
      BY <1>2, <2>3 DEF VfdFollowed
    <3> QED
      BY <1>4, <2>1, <2>3, <3>1, VfdSetsOther
  <2> QED
    BY <2>2, <2>3
<1> QED
  BY <1>2, <1>3, <1>4 DEF VfdSetChecked

(* One that is stored as it is.                                            *)
LEMMA VfdSetsAnything ==
  ASSUME VfdInv,
         \/ vfd_handle_set_h_scroll \/ vfd_handle_set_cursor \/ vfd_handle_set_text_wnd
         \/ vfd_handle_set_text_speed \/ vfd_handle_rotate \/ vfd_handle_enable_scroll
         \/ vfd_handle_disable_scroll
  PROVE  VfdHandles(Head(vfd.todo))
<1>1. CASE vfd_handle_set_cursor
  <2>1. VfdSet("SET_CURSOR", "cursor", Head(vfd.todo).value)
    BY <1>1 DEF vfd_handle_set_cursor
  <2>2. ~VfdBad(Head(vfd.todo))
    BY <2>1 DEF VfdSet, VfdTake, VfdBad
  <2> QED
    BY <2>1, <2>2, VfdSetsFollowed DEF VfdFollowed
<1>2. CASE ~vfd_handle_set_cursor
  <2>1. PICK cmd \in {"SET_H_SCROLL", "SET_TEXT_WND", "SET_TEXT_SPEED", "ROTATE",
                      "ENABLE_SCROLL", "DISABLE_SCROLL"} :
          \E field \in VfdField \ VfdFollowed : \E value : VfdSet(cmd, field, value)
    <3>1. /\ "h_scroll" \in VfdField \ VfdFollowed /\ "text_wnd" \in VfdField \ VfdFollowed
          /\ "text_speed" \in VfdField \ VfdFollowed /\ "rotate" \in VfdField \ VfdFollowed
          /\ "scroll_enabled" \in VfdField \ VfdFollowed
      BY DEF VfdField, VfdFollowed
    <3>2. \/ VfdSet("SET_H_SCROLL", "h_scroll", Head(vfd.todo).value)
          \/ VfdSet("SET_TEXT_WND", "text_wnd", Head(vfd.todo).value)
          \/ VfdSet("SET_TEXT_SPEED", "text_speed", Head(vfd.todo).value)
          \/ VfdSet("ROTATE", "rotate", Head(vfd.todo).value)
          \/ VfdSet("ENABLE_SCROLL", "scroll_enabled", 1)
          \/ VfdSet("DISABLE_SCROLL", "scroll_enabled", 0)
      BY <1>2
        DEF vfd_handle_set_h_scroll, vfd_handle_set_text_wnd, vfd_handle_set_text_speed,
                  vfd_handle_rotate, vfd_handle_enable_scroll, vfd_handle_disable_scroll
    <3> HIDE DEF VfdSet
    <3> QED
      BY <3>1, <3>2
  <2>2. PICK field \in VfdField \ VfdFollowed : \E value : VfdSet(cmd, field, value)
    BY <2>1
  <2>3. PICK value : VfdSet(cmd, field, value)
    BY <2>2
  <2>4. ~VfdBad(Head(vfd.todo))
    BY <2>3 DEF VfdSet, VfdTake, VfdBad
  <2> QED
    BY <2>3, <2>4, VfdSetsOther
<1> QED
  BY <1>1, <1>2

(* RESET brings every value and the count of the clears back.              *)
LEMMA VfdResets ==
  ASSUME VfdInv, vfd_handle_reset
  PROVE  VfdHandles(Head(vfd.todo))
<1> DEFINE c == Head(vfd.todo)
<1>1. VfdShape /\ vfd.readable \in Nat /\ vfd.readable <= VfdReadable
  BY DEF VfdInv, VfdTypeOK
<1>2. c.cmd = "RESET"
  BY DEF vfd_handle_reset, VfdTake
<1>3. vfd' = [at |-> vfd.at, written |-> vfd.written, todo |-> Tail(vfd.todo),
              readable |-> vfd.readable, fields |-> VfdReset, clear_seq |-> 0,
              text |-> vfd.text, published |-> [fields |-> VfdReset, clear_seq |-> 0],
              written_fields |-> vfd.written_fields, clears |-> vfd.clears,
              refused |-> vfd.refused]
  <2> DEFINE v == [vfd EXCEPT !.fields = VfdReset, !.clear_seq = 0]
             w == [v EXCEPT !.published = [fields |-> v.fields, clear_seq |-> v.clear_seq]]
  <2>1. vfd' = [w EXCEPT !.todo = Tail(w.todo)]
    BY DEF vfd_handle_reset, VfdDone, vfd_publish_state
  <2> DEFINE u == [vfd EXCEPT !.fields = VfdReset]
  <2>2. v = [at |-> vfd.at, written |-> vfd.written, todo |-> vfd.todo,
             readable |-> vfd.readable, fields |-> VfdReset, clear_seq |-> 0,
             text |-> vfd.text, published |-> vfd.published,
             written_fields |-> vfd.written_fields, clears |-> vfd.clears,
             refused |-> vfd.refused]
    <3>1. u = [at |-> vfd.at, written |-> vfd.written, todo |-> vfd.todo,
               readable |-> vfd.readable, fields |-> VfdReset, clear_seq |-> vfd.clear_seq,
               text |-> vfd.text, published |-> vfd.published,
               written_fields |-> vfd.written_fields, clears |-> vfd.clears,
               refused |-> vfd.refused]
      BY <1>1 DEF VfdShape
    <3>2. v = [u EXCEPT !.clear_seq = 0]
      OBVIOUS
    <3> HIDE DEF u, v
    <3> QED
      BY <3>1, <3>2
  <2> HIDE DEF v
  <2>3. w = [at |-> vfd.at, written |-> vfd.written, todo |-> vfd.todo,
             readable |-> vfd.readable, fields |-> VfdReset, clear_seq |-> 0,
             text |-> vfd.text, published |-> [fields |-> VfdReset, clear_seq |-> 0],
             written_fields |-> vfd.written_fields, clears |-> vfd.clears,
             refused |-> vfd.refused]
    BY <2>2
  <2> HIDE DEF w
  <2> QED
    BY <2>1, <2>3
<1> HIDE DEF c
<1>4. \A s : VfdMeans(s, c) = [fields |-> VfdReset, clears |-> 0]
  BY <1>2 DEF VfdMeans
<1>5. VfdReset = [f \in VfdField |-> VfdReset[f]]
  BY DEF VfdReset
<1>6. VfdAgrees(VfdReset, 0, [fields |-> VfdReset, clears |-> 0])
  <2> DEFINE x == [fields |-> VfdReset, clears |-> 0]
  <2>1. x = [fields |-> x.fields, clears |-> x.clears] /\ x.fields = VfdReset /\ x.clears = 0
    OBVIOUS
  <2> HIDE DEF x
  <2>2. VfdAgrees(VfdReset, 0, x)
    BY <1>5, <2>1 DEF VfdAgrees
  <2> QED
    BY <2>2 DEF x
<1>7. ~VfdBad(c)
  BY <1>2 DEF VfdBad
<1>8. /\ vfd'.readable = vfd.readable /\ vfd'.fields = VfdReset /\ vfd'.clear_seq = 0
      /\ vfd'.text = vfd.text /\ vfd'.published = [fields |-> VfdReset, clear_seq |-> 0]
  BY <1>3
<1>9. \A s : VfdAgrees(vfd'.fields, vfd'.clear_seq, VfdMeans(s, c))
  BY <1>4, <1>6, <1>8
<1>10. VfdHandles(c)
  BY <1>1, <1>3, <1>5, <1>7, <1>8, <1>9 DEF VfdHandles
<1> QED
  BY <1>10 DEF c

(* CLEAR_SCREEN is counted, and changes no value.                          *)
LEMMA VfdClearsScreen ==
  ASSUME VfdInv, vfd_handle_clear_screen
  PROVE  VfdHandles(Head(vfd.todo))
<1> DEFINE c == Head(vfd.todo)
           more == (vfd.clear_seq + 1) % VfdClears
<1>1. /\ VfdShape /\ vfd.readable \in Nat /\ vfd.readable <= VfdReadable
      /\ vfd.fields = [f \in VfdField |-> vfd.fields[f]]
  BY DEF VfdInv, VfdTypeOK
<1>2. CASE VfdSet("CLEAR_BRIGHTNESS", "brightness", c.value)
  <2>1. ~VfdBad(c)
    BY <1>2 DEF VfdSet, VfdTake, VfdBad
  <2> QED
    BY <1>2, <2>1, VfdSetsFollowed DEF VfdFollowed
<1>3. CASE /\ VfdTake("CLEAR_SCREEN")
           /\ vfd' = VfdDone(vfd_publish_state([vfd EXCEPT !.clear_seq = (@ + 1) % VfdClears]))
  <2>1. c.cmd = "CLEAR_SCREEN"
    BY <1>3 DEF VfdTake
  <2>2. vfd' = [at |-> vfd.at, written |-> vfd.written, todo |-> Tail(vfd.todo),
              readable |-> vfd.readable, fields |-> vfd.fields, clear_seq |-> more,
              text |-> vfd.text, published |-> [fields |-> vfd.fields, clear_seq |-> more],
              written_fields |-> vfd.written_fields, clears |-> vfd.clears,
              refused |-> vfd.refused]
    <3> DEFINE v == [vfd EXCEPT !.clear_seq = more]
               w == [v EXCEPT !.published = [fields |-> v.fields, clear_seq |-> v.clear_seq]]
    <3>1. vfd' = [w EXCEPT !.todo = Tail(w.todo)]
      BY <1>3 DEF VfdDone, vfd_publish_state
    <3> HIDE DEF more
    <3>2. v = [at |-> vfd.at, written |-> vfd.written, todo |-> vfd.todo,
               readable |-> vfd.readable, fields |-> vfd.fields, clear_seq |-> more,
               text |-> vfd.text, published |-> vfd.published,
               written_fields |-> vfd.written_fields, clears |-> vfd.clears,
               refused |-> vfd.refused]
      BY <1>1 DEF VfdShape
    <3> HIDE DEF v
    <3>3. w = [at |-> vfd.at, written |-> vfd.written, todo |-> vfd.todo,
               readable |-> vfd.readable, fields |-> vfd.fields, clear_seq |-> more,
               text |-> vfd.text, published |-> [fields |-> vfd.fields, clear_seq |-> more],
               written_fields |-> vfd.written_fields, clears |-> vfd.clears,
               refused |-> vfd.refused]
      BY <3>2
    <3> HIDE DEF w
    <3> QED
      BY <3>1, <3>3
  <2> HIDE DEF c
  <2>3. \A s : VfdMeans(s, c) = [s EXCEPT !.clears = (@ + 1) % VfdClears]
    BY <2>1 DEF VfdMeans
  <2>4. ~VfdBad(c)
    BY <2>1 DEF VfdBad
  <2>5. ASSUME NEW s, VfdAgrees(vfd.fields, vfd.clear_seq, s)
        PROVE  VfdAgrees(vfd.fields, more, VfdMeans(s, c))
    <3> DEFINE x == [s EXCEPT !.clears = (@ + 1) % VfdClears]
               a == s.fields
               b == s.clears
    <3>1. s = [fields |-> a, clears |-> b] /\ b = vfd.clear_seq
      BY <2>5 DEF VfdAgrees
    <3>2. x = [fields |-> a, clears |-> more]
      BY <3>1
    <3> HIDE DEF x, more
    <3>3. x = [fields |-> x.fields, clears |-> x.clears] /\ x.fields = a /\ x.clears = more
      BY <3>2
    <3> HIDE DEF a
    <3>4. VfdAgrees(vfd.fields, more, x)
      BY <2>5, <3>3 DEF VfdAgrees, a
    <3> QED
      BY <2>3, <3>4 DEF x
  <2> HIDE DEF more
  <2>6. /\ vfd'.readable = vfd.readable /\ vfd'.fields = vfd.fields /\ vfd'.clear_seq = more
        /\ vfd'.text = vfd.text /\ vfd'.published = [fields |-> vfd.fields, clear_seq |-> more]
    BY <2>2
  <2>7. VfdHandles(c)
    BY <1>1, <2>2, <2>4, <2>5, <2>6 DEF VfdHandles
  <2> QED
    BY <2>7 DEF c
<1> QED
  BY <1>2, <1>3 DEF vfd_handle_clear_screen

(* Text is told to the DLL, or not, and is no part of the settings.        *)
LEMMA VfdTells ==
  ASSUME VfdInv, NEW cmd \in {"WRITE_TEXT", "STATIC", "DRAW_IMAGE", "CREATE_CHAR", "CREATE_CHAR2"},
         VfdTake(cmd), NEW text, vfd' = VfdDone([vfd EXCEPT !.text = text]) \/ vfd' = VfdDone(vfd)
  PROVE  VfdHandles(Head(vfd.todo))
<1> DEFINE c == Head(vfd.todo)
<1>1. /\ VfdShape /\ vfd.readable \in Nat /\ vfd.readable <= VfdReadable
      /\ vfd.fields = [f \in VfdField |-> vfd.fields[f]]
      /\ vfd.published = [fields |-> vfd.fields, clear_seq |-> vfd.clear_seq]
  BY DEF VfdInv, VfdTypeOK, VfdIsPublished
<1>2. c.cmd = cmd
  BY DEF VfdTake
<1>3. \E told :
        vfd' = [at |-> vfd.at, written |-> vfd.written, todo |-> Tail(vfd.todo),
              readable |-> vfd.readable, fields |-> vfd.fields, clear_seq |-> vfd.clear_seq,
              text |-> told, published |-> vfd.published,
              written_fields |-> vfd.written_fields, clears |-> vfd.clears,
              refused |-> vfd.refused]
  <2>1. CASE vfd' = VfdDone(vfd)
    <3>1. vfd' = [vfd EXCEPT !.todo = Tail(vfd.todo)]
      BY <2>1 DEF VfdDone
    <3> QED
      BY <3>1, <1>1 DEF VfdShape
  <2>2. CASE vfd' = VfdDone([vfd EXCEPT !.text = text])
    <3> DEFINE v == [vfd EXCEPT !.text = text]
    <3>1. vfd' = [v EXCEPT !.todo = Tail(v.todo)]
      BY <2>2 DEF VfdDone
    <3>2. v = [at |-> vfd.at, written |-> vfd.written, todo |-> vfd.todo,
              readable |-> vfd.readable, fields |-> vfd.fields, clear_seq |-> vfd.clear_seq,
              text |-> text, published |-> vfd.published,
              written_fields |-> vfd.written_fields, clears |-> vfd.clears,
              refused |-> vfd.refused]
      BY <1>1 DEF VfdShape
    <3> HIDE DEF v
    <3> QED
      BY <3>1, <3>2
  <2> QED
    BY <2>1, <2>2
<1>4. PICK told :
        vfd' = [at |-> vfd.at, written |-> vfd.written, todo |-> Tail(vfd.todo),
              readable |-> vfd.readable, fields |-> vfd.fields, clear_seq |-> vfd.clear_seq,
              text |-> told, published |-> vfd.published,
              written_fields |-> vfd.written_fields, clears |-> vfd.clears,
              refused |-> vfd.refused]
  BY <1>3
<1> HIDE DEF c
<1>5. (\A s : VfdMeans(s, c) = s) /\ ~VfdBad(c)
  BY <1>2 DEF VfdMeans, VfdBad
<1>6. /\ vfd'.readable = vfd.readable /\ vfd'.fields = vfd.fields
      /\ vfd'.clear_seq = vfd.clear_seq /\ vfd'.text = told
      /\ vfd'.published = [fields |-> vfd.fields, clear_seq |-> vfd.clear_seq]
  BY <1>4, <1>1
<1>7. VfdHandles(c)
  BY <1>1, <1>4, <1>5, <1>6 DEF VfdHandles
<1> QED
  BY <1>7 DEF c

(* The version is answered if there is room, or the command fails.         *)
LEMMA VfdAnswers ==
  ASSUME VfdInv, vfd_handle_get_version
  PROVE  VfdHandles(Head(vfd.todo)) \/ VfdRefuses
<1> DEFINE c == Head(vfd.todo)
<1>1. /\ VfdShape /\ vfd.readable \in Nat /\ vfd.readable <= VfdReadable
      /\ vfd.fields = [f \in VfdField |-> vfd.fields[f]]
      /\ vfd.published = [fields |-> vfd.fields, clear_seq |-> vfd.clear_seq]
  BY DEF VfdInv, VfdTypeOK, VfdIsPublished
<1>2. c.cmd = "GET_VERSION"
  BY DEF vfd_handle_get_version, VfdTake
<1>3. CASE vfd' = VfdFails(vfd)
  BY <1>1, <1>3, VfdFailing
<1>4. CASE vfd.readable < VfdReadable /\ vfd' = VfdDone([vfd EXCEPT !.readable = @ + 1])
  <2> DEFINE more == vfd.readable + 1
             v == [vfd EXCEPT !.readable = more]
  <2>1. vfd' = [v EXCEPT !.todo = Tail(v.todo)]
    BY <1>4 DEF VfdDone
  <2>2. more \in Nat /\ more <= VfdReadable
    BY <1>1, <1>4, VfdAssumption DEF VfdAssumption
  <2> HIDE DEF more
  <2>3. v = [at |-> vfd.at, written |-> vfd.written, todo |-> vfd.todo,
            readable |-> more, fields |-> vfd.fields, clear_seq |-> vfd.clear_seq,
            text |-> vfd.text, published |-> vfd.published,
            written_fields |-> vfd.written_fields, clears |-> vfd.clears,
            refused |-> vfd.refused]
    BY <1>1 DEF VfdShape
  <2> HIDE DEF v, c
  <2>4. vfd' = [at |-> vfd.at, written |-> vfd.written, todo |-> Tail(vfd.todo),
            readable |-> more, fields |-> vfd.fields, clear_seq |-> vfd.clear_seq,
            text |-> vfd.text, published |-> vfd.published,
            written_fields |-> vfd.written_fields, clears |-> vfd.clears,
            refused |-> vfd.refused]
    BY <2>1, <2>3
  <2>5. (\A s : VfdMeans(s, c) = s) /\ ~VfdBad(c)
    BY <1>2 DEF VfdMeans, VfdBad
  <2>6. /\ vfd'.readable = more /\ vfd'.fields = vfd.fields
        /\ vfd'.clear_seq = vfd.clear_seq /\ vfd'.text = vfd.text
        /\ vfd'.published = [fields |-> vfd.fields, clear_seq |-> vfd.clear_seq]
    BY <2>4, <1>1
  <2>7. VfdHandles(c)
    BY <1>1, <2>2, <2>4, <2>5, <2>6 DEF VfdHandles
  <2> QED
    BY <2>7 DEF c
<1>5. vfd' = IF vfd.readable < VfdReadable THEN VfdDone([vfd EXCEPT !.readable = @ + 1])
             ELSE VfdFails(vfd)
  BY DEF vfd_handle_get_version
<1> QED
  BY <1>3, <1>4, <1>5

(* Every command is handled or fails.                                      *)
LEMMA VfdCommandIsDone ==
  ASSUME VfdInv, VfdCommand
  PROVE  /\ vfd.at = "handle" /\ vfd.todo # <<>>
         /\ VfdHandles(Head(vfd.todo)) \/ VfdRefuses
<1>1. vfd.at = "handle" /\ vfd.todo # <<>>
  BY DEF VfdCommand, vfd_handle_set_brightness, vfd_handle_set_screen_on,
    vfd_handle_set_encoding, vfd_handle_set_h_scroll, vfd_handle_set_cursor,
    vfd_handle_set_text_wnd, vfd_handle_set_text_speed, vfd_handle_rotate,
    vfd_handle_enable_scroll, vfd_handle_disable_scroll, vfd_handle_reset,
    vfd_handle_clear_screen, vfd_handle_write_text, vfd_read_text_until_sync,
    vfd_handle_get_version, vfd_handle_draw_image, vfd_handle_create_char,
    vfd_handle_create_char2, VfdSet, VfdSetChecked, VfdTake
<1>2. CASE vfd_handle_write_text
  <2>1. /\ VfdTake("WRITE_TEXT")
        /\ vfd' = VfdDone([vfd EXCEPT !.text = "text"]) \/ vfd' = VfdDone(vfd)
    BY <1>2 DEF vfd_handle_write_text, print_vfd_text
  <2> QED
    BY <1>1, <2>1, VfdTells
<1>3. CASE vfd_read_text_until_sync
  <2>1. /\ VfdTake("STATIC")
        /\ vfd' = VfdDone([vfd EXCEPT !.text = "static"]) \/ vfd' = VfdDone(vfd)
    BY <1>3 DEF vfd_read_text_until_sync, print_vfd_text
  <2> QED
    BY <1>1, <2>1, VfdTells
<1>4. CASE vfd_handle_draw_image \/ vfd_handle_create_char \/ vfd_handle_create_char2
  <2>1. PICK cmd \in {"WRITE_TEXT", "STATIC", "DRAW_IMAGE", "CREATE_CHAR", "CREATE_CHAR2"} :
          VfdTake(cmd) /\ vfd' = VfdDone(vfd)
    BY <1>4 DEF vfd_handle_draw_image, vfd_handle_create_char, vfd_handle_create_char2
  <2> QED
    BY <1>1, <2>1, VfdTells
<1> QED
  BY <1>1, <1>2, <1>3, <1>4, VfdChecks, VfdSetsAnything, VfdResets, VfdClearsScreen,
    VfdAnswers DEF VfdCommand

(* VfdRefusalStays, of one step.                                           *)
VfdRefusalStep ==
  LET bad(s) == {i \in 1..Len(s) : s[i].cmd \in {"SET_BRIGHTNESS", "SET_SCREEN_ON",
                                                 "SET_ENCODING"}
                                   /\ s[i].value = VfdInvalid}
  IN  bad(vfd.written) # {} => bad(vfd'.written) # {}

(* The refused commands stay if none was there, or all are.                *)
LEMMA VfdStays ==
  ASSUME \/ \A i \in 1..Len(vfd.written) : ~VfdBad(vfd.written[i])
         \/ /\ 1..Len(vfd.written) \subseteq 1..Len(vfd'.written)
            /\ \A i \in 1..Len(vfd.written) : vfd'.written[i] = vfd.written[i]
  PROVE  VfdRefusalStep
BY DEF VfdRefusalStep, VfdBad

(* A command that is carried out.                                          *)
LEMMA VfdHandlesKeeps ==
  ASSUME VfdInv, vfd.at = "handle", vfd.todo # <<>>, VfdHandles(Head(vfd.todo))
  PROVE  VfdInv' /\ VfdRefusalStep
<1> DEFINE c == Head(vfd.todo)
           n == VfdAt + 1
<1>1. /\ VfdRest /\ VfdCounts /\ VfdTypeOK
      /\ vfd.written \in Seq(VfdCommands) /\ vfd.todo \in Seq(VfdCommands)
      /\ vfd.refused \in BOOLEAN
  BY DEF VfdInv
<1>2. /\ Len(vfd.todo) \in Nat \ {0} /\ Len(vfd.written) \in Nat
      /\ Len(vfd.todo) <= Len(vfd.written)
  BY <1>1, EmptySeq, LenProperties DEF VfdTypeOK
<1>3. /\ vfd' = [at |-> vfd.at, written |-> vfd.written, todo |-> Tail(vfd.todo),
                 readable |-> vfd'.readable, fields |-> vfd'.fields,
                 clear_seq |-> vfd'.clear_seq, text |-> vfd'.text,
                 published |-> vfd'.published, written_fields |-> vfd.written_fields,
                 clears |-> vfd.clears, refused |-> vfd.refused]
      /\ vfd'.published = [fields |-> vfd'.fields, clear_seq |-> vfd'.clear_seq]
      /\ vfd'.fields = [f \in VfdField |-> vfd'.fields[f]]
      /\ vfd'.readable \in Nat /\ vfd'.readable <= VfdReadable
      /\ \A s : VfdAgrees(vfd.fields, vfd.clear_seq, s)
                  => VfdAgrees(vfd'.fields, vfd'.clear_seq, VfdMeans(s, c))
      /\ ~VfdBad(c)
  BY DEF VfdHandles
<1>4. /\ vfd'.at = "handle" /\ vfd'.written = vfd.written /\ vfd'.todo = Tail(vfd.todo)
      /\ vfd'.written_fields = vfd.written_fields /\ vfd'.clears = vfd.clears
      /\ vfd'.refused = vfd.refused
  BY <1>3
<1>5. VfdShape'
  BY <1>3, <1>4 DEF VfdShape
<1>6. /\ c \in VfdCommands /\ Tail(vfd.todo) \in Seq(VfdCommands)
      /\ Len(Tail(vfd.todo)) = Len(vfd.todo) - 1
      /\ \A i \in 1..Len(Tail(vfd.todo)) : Tail(vfd.todo)[i] = vfd.todo[i + 1]
      /\ c = vfd.todo[1]
  <2>1. c = vfd.todo[1]
    BY <1>1, <1>2
  <2> HIDE DEF c
  <2> QED
    BY <1>1, <2>1, HeadTailProperties DEF c
<1>7. VfdAt' = n /\ VfdAt \in Nat /\ n \in 1..Len(vfd.written)
  <2> DEFINE w == Len(vfd.written)
             t == Len(vfd.todo)
  <2>1. w \in Nat /\ t \in Nat \ {0} /\ t <= w
    BY <1>2
  <2>2. VfdAt = w - t /\ VfdAt' = w - (t - 1) /\ n = VfdAt + 1
    BY <1>4, <1>6 DEF VfdAt
  <2> HIDE DEF w, t, n
  <2>3. VfdAt' = n /\ VfdAt \in Nat /\ n \in 1..w
    BY <2>1, <2>2
  <2> QED
    BY <2>3 DEF w
<1>8. c = vfd.written[n]
  BY <1>1, <1>2, <1>6 DEF VfdRest
<1> HIDE DEF c, n
<1>9. VfdRest'
  <2>1. ASSUME NEW j \in 1..Len(vfd'.todo)
        PROVE  vfd'.todo[j] = vfd'.written[VfdAt' + j]
    <3>1. j + 1 \in 1..Len(vfd.todo) /\ n + j = VfdAt + (j + 1)
      BY <1>2, <1>4, <1>6, <1>7 DEF n
    <3>2. vfd.todo[j + 1] = vfd.written[VfdAt + (j + 1)]
      BY <1>1, <3>1 DEF VfdRest
    <3> QED
      BY <1>4, <1>6, <1>7, <3>1, <3>2
  <2>2. ASSUME NEW i \in 1..n
        PROVE  ~VfdBad(vfd.written[i])
    <3>1. i \in 1..VfdAt \/ i = n
      BY <1>7 DEF n
    <3>2. \A k \in 1..VfdAt : ~VfdBad(vfd.written[k])
      BY <1>1 DEF VfdRest
    <3> QED
      BY <1>3, <1>8, <3>1, <3>2
  <2>3. \A i \in 1..VfdAt' : ~VfdBad(vfd'.written[i])
    BY <1>4, <1>7, <2>2
  <2> QED
    BY <2>1, <2>3 DEF VfdRest
<1>10. VfdCounts'
  <2>1. CASE vfd.refused
    BY <1>4, <2>1 DEF VfdCounts
  <2>2. CASE ~vfd.refused
    <3>1. PICK s : /\ VfdAgrees(vfd.fields, vfd.clear_seq, VfdMeantAfter(s, vfd.written)[VfdAt])
                   /\ VfdMeantAfter(s, vfd.written)[Len(vfd.written)].fields = vfd.written_fields
                   /\ VfdMeantAfter(s, vfd.written)[Len(vfd.written)].clears = vfd.clears
      BY <1>1, <2>2 DEF VfdCounts
    <3>2. VfdMeantAfter(s, vfd.written)[n]
            = VfdMeans(VfdMeantAfter(s, vfd.written)[VfdAt], c)
      <4>1. n \in 0..Len(vfd.written) /\ n # 0 /\ n - 1 = VfdAt
        BY <1>7, <1>2 DEF n
      <4>2. VfdMeantAfter(s, vfd.written)[n]
              = (IF n = 0 THEN s
                 ELSE VfdMeans(VfdMeantAfter(s, vfd.written)[n - 1], vfd.written[n]))
        BY <1>2, <4>1, VfdMeantExists
      <4> QED
        BY <1>8, <4>1, <4>2
    <3>3. VfdAgrees(vfd'.fields, vfd'.clear_seq, VfdMeantAfter(s, vfd.written)[n])
      BY <1>3, <3>1, <3>2
    <3> QED
      BY <1>4, <1>7, <3>1, <3>3 DEF VfdCounts
  <2> QED
    BY <1>1, <2>1, <2>2
<1>11. VfdTypeOK'
  BY <1>1, <1>2, <1>3, <1>4, <1>6 DEF VfdTypeOK
<1>12. VfdIsPublished'
  BY <1>3 DEF VfdIsPublished
<1>13. VfdInv'
  BY <1>1, <1>3, <1>4, <1>5, <1>6, <1>9, <1>10, <1>11, <1>12 DEF VfdInv
<1>14. VfdRefusalStep
  BY <1>4, VfdStays
<1> QED
  BY <1>13, <1>14

(* A command that is refused ends the write.                               *)
LEMMA VfdRefusesKeeps ==
  ASSUME VfdInv, VfdRefuses
  PROVE  VfdInv' /\ VfdRefusalStep
<1>1. /\ VfdTypeOK /\ VfdIsPublished
      /\ vfd.written \in Seq(VfdCommands) /\ vfd.readable \in Nat
      /\ vfd.fields = [f \in VfdField |-> vfd.fields[f]]
  BY DEF VfdInv
<1>2. /\ vfd'.at = "idle" /\ vfd'.written = vfd.written /\ vfd'.todo = <<>>
      /\ vfd'.readable = vfd.readable /\ vfd'.fields = vfd.fields
      /\ vfd'.clear_seq = vfd.clear_seq /\ vfd'.text = vfd.text
      /\ vfd'.published = vfd.published
      /\ vfd'.written_fields = VfdReset /\ vfd'.clears = 0 /\ vfd'.refused = TRUE
  BY DEF VfdRefuses
<1>3. VfdShape'
  BY <1>2 DEF VfdRefuses, VfdShape
<1>4. Len(vfd.written) \in Nat /\ <<>> \in Seq(VfdCommands) /\ Len(<<>>) = 0
  BY <1>1, EmptySeq, LenProperties
<1>5. VfdTypeOK' /\ VfdIsPublished' /\ VfdRest' /\ VfdCounts'
  BY <1>1, <1>2, <1>4 DEF VfdTypeOK, VfdIsPublished, VfdRest, VfdCounts
<1>6. VfdInv'
  BY <1>1, <1>2, <1>3, <1>4, <1>5 DEF VfdInv
<1> QED
  BY <1>2, <1>6, VfdStays

(* A write of the game.                                                    *)
LEMMA VfdWriteKeeps ==
  ASSUME VfdInv, NEW cmds \in VfdWrites, VfdWrite(cmds)
  PROVE  VfdInv' /\ VfdRefusalStep
<1> DEFINE all == vfd.written \o cmds
           start == [fields |-> vfd.written_fields, clears |-> vfd.clears]
           meant == VfdMeant(vfd, cmds)
           fields == IF vfd.refused THEN vfd.written_fields ELSE meant.fields
           clears == IF vfd.refused THEN vfd.clears ELSE meant.clears
<1>1. /\ VfdShape /\ VfdTypeOK /\ VfdIsPublished /\ VfdCounts
      /\ vfd.written \in Seq(VfdCommands) /\ vfd.readable \in Nat /\ vfd.refused \in BOOLEAN
      /\ vfd.fields = [f \in VfdField |-> vfd.fields[f]]
  BY DEF VfdInv
<1>2. vfd.at = "idle" /\ Len(vfd.written) + Len(cmds) <= VfdWritten
  BY DEF VfdWrite
<1>3. vfd' = [at |-> "handle", written |-> all, todo |-> all, readable |-> vfd.readable,
              fields |-> vfd.fields, clear_seq |-> vfd.clear_seq, text |-> vfd.text,
              published |-> vfd.published, written_fields |-> fields, clears |-> clears,
              refused |-> vfd.refused]
  <2>1. vfd' = [vfd EXCEPT !.at = "handle", !.written = all, !.todo = all,
                           !.written_fields = fields, !.clears = clears]
    BY DEF VfdWrite
  <2> HIDE DEF all, fields, clears
  <2> QED
    BY <1>1, <2>1 DEF VfdShape
<1>4. cmds \in Seq(VfdCommands)
  <2>1. cmds \in Seq({cmds[i] : i \in 1..Len(cmds)})
    BY VfdAssumption DEF VfdAssumption
  <2>2. {cmds[i] : i \in 1..Len(cmds)} \subseteq VfdCommands
    BY DEF VfdCommands
  <2> QED
    BY <2>1, <2>2, SeqMonotonic
<1>5. /\ all \in Seq(VfdCommands) /\ Len(all) = Len(vfd.written) + Len(cmds)
      /\ \A i \in 1..Len(vfd.written) + Len(cmds) :
           all[i] = IF i <= Len(vfd.written) THEN vfd.written[i] ELSE cmds[i - Len(vfd.written)]
      /\ Len(vfd.written) \in Nat /\ Len(cmds) \in Nat
  BY <1>1, <1>4, ConcatProperties, LenProperties
<1>6. vfd.written = <<>> => all = cmds
  BY <1>4, ConcatEmptySeq
<1> HIDE DEF all, fields, clears, meant, start
<1>7. /\ vfd'.at = "handle" /\ vfd'.written = all /\ vfd'.todo = all
      /\ vfd'.readable = vfd.readable /\ vfd'.fields = vfd.fields
      /\ vfd'.clear_seq = vfd.clear_seq /\ vfd'.text = vfd.text
      /\ vfd'.published = vfd.published /\ vfd'.written_fields = fields
      /\ vfd'.clears = clears /\ vfd'.refused = vfd.refused
  BY <1>3
<1>8. VfdShape'
  BY <1>3, <1>7 DEF VfdShape
<1>9. VfdAt' = 0
  BY <1>5, <1>7 DEF VfdAt
<1>10. VfdRest'
  BY <1>5, <1>7, <1>9 DEF VfdRest
<1>11. VfdTypeOK' /\ VfdIsPublished'
  <2>1. Len(all) \in Nat /\ Len(all) <= Len(all) /\ Len(all) <= VfdWritten
    BY <1>2, <1>5
  <2>2. vfd.readable <= VfdReadable
    BY <1>1 DEF VfdTypeOK
  <2>3. VfdTypeOK'
    BY <1>7, <2>1, <2>2 DEF VfdTypeOK
  <2> QED
    BY <1>1, <1>7, <2>3 DEF VfdIsPublished
<1>12. VfdCounts'
  <2>1. CASE vfd.refused
    BY <1>7, <2>1 DEF VfdCounts
  <2>2. CASE ~vfd.refused
    <3>1. all = cmds /\ VfdAgrees(vfd.fields, vfd.clear_seq, start)
      BY <1>1, <1>2, <1>6, <2>2 DEF VfdCounts, start
    <3>2. fields = meant.fields /\ clears = meant.clears
      BY <2>2 DEF fields, clears
    <3>3. meant = VfdMeantAfter(start, all)[Len(all)]
      BY <3>1 DEF meant, start, VfdMeant
    <3>4. VfdMeantAfter(start, all)[0] = start
      <4>1. 0 \in 0..Len(all) /\ Len(all) \in Nat
        BY <1>5
      <4>2. VfdMeantAfter(start, all)[0]
              = (IF 0 = 0 THEN start
                 ELSE VfdMeans(VfdMeantAfter(start, all)[0 - 1], all[0]))
        BY <4>1, VfdMeantExists
      <4> QED
        BY <4>2
    <3>5. /\ VfdAgrees(vfd'.fields, vfd'.clear_seq, VfdMeantAfter(start, vfd'.written)[VfdAt'])
          /\ VfdMeantAfter(start, vfd'.written)[Len(vfd'.written)].fields = vfd'.written_fields
          /\ VfdMeantAfter(start, vfd'.written)[Len(vfd'.written)].clears = vfd'.clears
      BY <1>7, <1>9, <3>1, <3>2, <3>3, <3>4
    <3> QED
      BY <1>7, <3>5 DEF VfdCounts
  <2> QED
    BY <1>1, <2>1, <2>2
<1>13. VfdInv'
  BY <1>1, <1>5, <1>7, <1>8, <1>10, <1>11, <1>12 DEF VfdInv
<1>14. VfdRefusalStep
  BY <1>5, <1>7, VfdStays
<1> QED
  BY <1>13, <1>14

(* The end of a write whose commands are all handled.                      *)
LEMMA VfdReturnKept ==
  ASSUME VfdInv, VfdReturn
  PROVE  VfdInv' /\ VfdRefusalStep
<1>1. /\ VfdShape /\ VfdTypeOK /\ VfdIsPublished /\ VfdCounts /\ VfdRest
      /\ vfd.written \in Seq(VfdCommands) /\ vfd.todo \in Seq(VfdCommands)
      /\ vfd.readable \in Nat /\ vfd.refused \in BOOLEAN
      /\ vfd.fields = [f \in VfdField |-> vfd.fields[f]]
  BY DEF VfdInv
<1>2. vfd.at = "handle" /\ vfd.todo = <<>> /\ vfd' = [vfd EXCEPT !.at = "idle", !.written = <<>>]
  BY DEF VfdReturn
<1>3. vfd' = [at |-> "idle", written |-> <<>>, todo |-> vfd.todo, readable |-> vfd.readable,
              fields |-> vfd.fields, clear_seq |-> vfd.clear_seq, text |-> vfd.text,
              published |-> vfd.published, written_fields |-> vfd.written_fields,
              clears |-> vfd.clears, refused |-> vfd.refused]
  BY <1>1, <1>2 DEF VfdShape
<1>4. /\ vfd'.at = "idle" /\ vfd'.written = <<>> /\ vfd'.todo = <<>>
      /\ vfd'.readable = vfd.readable /\ vfd'.fields = vfd.fields
      /\ vfd'.clear_seq = vfd.clear_seq /\ vfd'.text = vfd.text
      /\ vfd'.published = vfd.published /\ vfd'.written_fields = vfd.written_fields
      /\ vfd'.clears = vfd.clears /\ vfd'.refused = vfd.refused
  BY <1>2, <1>3
<1>5. VfdShape'
  BY <1>3, <1>4, <1>2 DEF VfdShape
<1>6. Len(vfd.written) \in Nat /\ <<>> \in Seq(VfdCommands) /\ Len(<<>>) = 0
  BY <1>1, EmptySeq, LenProperties
<1>7. VfdAt = Len(vfd.written)
  BY <1>2, <1>6 DEF VfdAt
<1>8. VfdTypeOK' /\ VfdIsPublished' /\ VfdRest'
  <2>1. VfdWritten \in Nat
    BY VfdAssumption DEF VfdAssumption
  <2> QED
    BY <1>1, <1>4, <1>6, <2>1 DEF VfdTypeOK, VfdIsPublished, VfdRest
<1>9. VfdCounts'
  <2>1. CASE vfd.refused
    BY <1>4, <2>1 DEF VfdCounts
  <2>2. CASE ~vfd.refused
    <3>1. PICK s : /\ VfdAgrees(vfd.fields, vfd.clear_seq, VfdMeantAfter(s, vfd.written)[VfdAt])
                   /\ VfdMeantAfter(s, vfd.written)[Len(vfd.written)].fields = vfd.written_fields
                   /\ VfdMeantAfter(s, vfd.written)[Len(vfd.written)].clears = vfd.clears
      BY <1>1, <1>2, <2>2 DEF VfdCounts
    <3> DEFINE x == VfdMeantAfter(s, vfd.written)[VfdAt]
    <3>2. /\ VfdAgrees(vfd.fields, vfd.clear_seq, x)
          /\ x.fields = vfd.written_fields /\ x.clears = vfd.clears
      BY <1>7, <3>1
    <3> HIDE DEF x
    <3>3. x = [fields |-> vfd.written_fields, clears |-> vfd.clears]
      BY <3>2 DEF VfdAgrees
    <3> QED
      BY <1>4, <3>2, <3>3 DEF VfdCounts
  <2> QED
    BY <1>1, <2>1, <2>2
<1>10. VfdInv'
  BY <1>1, <1>4, <1>5, <1>6, <1>8, <1>9 DEF VfdInv
<1>11. \A i \in 1..Len(vfd.written) : ~VfdBad(vfd.written[i])
  BY <1>1, <1>2, <1>7 DEF VfdRest
<1> QED
  BY <1>10, <1>11, VfdStays

(* A read of the game.                                                     *)
LEMMA VfdReadKeeps ==
  ASSUME VfdInv, VfdRead
  PROVE  VfdInv' /\ VfdRefusalStep
<1>1. /\ VfdShape /\ VfdTypeOK /\ VfdIsPublished /\ VfdCounts /\ VfdRest
      /\ vfd.written \in Seq(VfdCommands) /\ vfd.todo \in Seq(VfdCommands)
      /\ vfd.refused \in BOOLEAN
      /\ vfd.fields = [f \in VfdField |-> vfd.fields[f]]
  BY DEF VfdInv
<1>2. vfd.at = "idle" /\ vfd' = [vfd EXCEPT !.readable = 0]
  BY DEF VfdRead
<1>3. vfd' = [at |-> vfd.at, written |-> vfd.written, todo |-> vfd.todo, readable |-> 0,
              fields |-> vfd.fields, clear_seq |-> vfd.clear_seq, text |-> vfd.text,
              published |-> vfd.published, written_fields |-> vfd.written_fields,
              clears |-> vfd.clears, refused |-> vfd.refused]
  BY <1>1, <1>2 DEF VfdShape
<1>4. /\ vfd'.at = "idle" /\ vfd'.written = vfd.written /\ vfd'.todo = vfd.todo
      /\ vfd'.readable = 0 /\ vfd'.fields = vfd.fields
      /\ vfd'.clear_seq = vfd.clear_seq /\ vfd'.text = vfd.text
      /\ vfd'.published = vfd.published /\ vfd'.written_fields = vfd.written_fields
      /\ vfd'.clears = vfd.clears /\ vfd'.refused = vfd.refused
  BY <1>2, <1>3
<1>5. VfdShape'
  BY <1>2, <1>3, <1>4 DEF VfdShape
<1>6. VfdReadable \in Nat
  BY VfdAssumption DEF VfdAssumption
<1>7. VfdAt' = VfdAt
  BY <1>4 DEF VfdAt
<1>8. VfdTypeOK' /\ VfdIsPublished' /\ VfdRest' /\ VfdCounts'
  BY <1>1, <1>2, <1>4, <1>6, <1>7 DEF VfdTypeOK, VfdIsPublished, VfdRest, VfdCounts
<1>9. VfdInv'
  BY <1>1, <1>4, <1>5, <1>8 DEF VfdInv
<1> QED
  BY <1>4, <1>9, VfdStays

(* The invariant holds when the display starts.                            *)
LEMMA VfdStarts == VfdInit => VfdInv
<1> SUFFICES ASSUME VfdInit PROVE VfdInv
  OBVIOUS
<1>1. /\ vfd = [at |-> "idle", written |-> <<>>, todo |-> <<>>, readable |-> 0,
                fields |-> VfdReset, clear_seq |-> 0, text |-> "none",
                published |-> [fields |-> VfdReset, clear_seq |-> 0],
                written_fields |-> VfdReset, clears |-> 0, refused |-> FALSE]
  BY DEF VfdInit
<1>2. /\ vfd.at = "idle" /\ vfd.written = <<>> /\ vfd.todo = <<>> /\ vfd.readable = 0
      /\ vfd.fields = VfdReset /\ vfd.clear_seq = 0 /\ vfd.text = "none"
      /\ vfd.published = [fields |-> VfdReset, clear_seq |-> 0]
      /\ vfd.written_fields = VfdReset /\ vfd.clears = 0 /\ vfd.refused = FALSE
  BY <1>1
<1>3. VfdShape
  BY <1>1, <1>2 DEF VfdShape
<1>4. VfdReset = [f \in VfdField |-> VfdReset[f]]
  BY DEF VfdReset
<1>5. VfdAgrees(VfdReset, 0, [fields |-> VfdReset, clears |-> 0])
  <2> DEFINE x == [fields |-> VfdReset, clears |-> 0]
  <2>1. x = [fields |-> x.fields, clears |-> x.clears] /\ x.fields = VfdReset /\ x.clears = 0
    OBVIOUS
  <2> HIDE DEF x
  <2>2. VfdAgrees(VfdReset, 0, x)
    BY <1>4, <2>1 DEF VfdAgrees
  <2> QED
    BY <2>2 DEF x
<1>6. Len(<<>>) = 0 /\ <<>> \in Seq(VfdCommands) /\ VfdWritten \in Nat /\ VfdReadable \in Nat
  BY EmptySeq, VfdAssumption DEF VfdAssumption
<1>7. VfdTypeOK /\ VfdIsPublished /\ VfdRest /\ VfdCounts
  BY <1>2, <1>5, <1>6 DEF VfdTypeOK, VfdIsPublished, VfdRest, VfdCounts, VfdAt
<1>8. /\ vfd.at \in {"idle", "handle"} /\ vfd.readable \in Nat /\ vfd.refused \in BOOLEAN
      /\ vfd.written \in Seq(VfdCommands) /\ vfd.todo \in Seq(VfdCommands)
  <2>1. vfd.at \in {"idle", "handle"} /\ vfd.readable \in Nat
    BY <1>2
  <2>2. vfd.refused \in BOOLEAN
    BY <1>2
  <2>3. vfd.written \in Seq(VfdCommands) /\ vfd.todo \in Seq(VfdCommands)
    BY <1>2, <1>6
  <2> QED
    BY <2>1, <2>2, <2>3
<1>9. vfd.fields = [f \in VfdField |-> vfd.fields[f]]
  BY <1>2, <1>4
<1> QED
  BY <1>3, <1>7, <1>8, <1>9 DEF VfdInv

(* Every step of the display keeps it.                                     *)
LEMMA VfdKeeps ==
  ASSUME VfdInv, [VfdNext]_vfd
  PROVE  VfdInv' /\ VfdRefusalStep
<1>1. CASE UNCHANGED vfd
  <2>1. VfdInv'
    BY <1>1 DEF VfdInv, VfdShape, VfdTypeOK, VfdIsPublished, VfdRest, VfdCounts, VfdAt
  <2>2. vfd'.written = vfd.written
    BY <1>1
  <2> QED
    BY <2>1, <2>2, VfdStays
<1>2. CASE VfdCommand
  BY <1>2, VfdCommandIsDone, VfdHandlesKeeps, VfdRefusesKeeps
<1> QED
  BY <1>1, <1>2, VfdWriteKeeps, VfdReadKeeps, VfdReturnKept DEF VfdNext

(* For all writes and sizes: until one fails each command is handled once  *)
(* and in order, the DLL is never behind, the buffers hold what they can,  *)
(* and a command that is refused stays where it is.                        *)
THEOREM DisplayIsRight == VfdSpec => VfdIsRight
<1>1. VfdInv => VfdTypeOK /\ VfdHandledOnce /\ VfdIsPublished
  <2> SUFFICES ASSUME VfdInv PROVE VfdHandledOnce
    BY DEF VfdInv
  <2> SUFFICES ASSUME vfd.at = "idle", ~vfd.refused
               PROVE  /\ vfd.clear_seq = vfd.clears
                      /\ \A f \in VfdFollowed : vfd.fields[f] = vfd.written_fields[f]
    BY DEF VfdHandledOnce, VfdFollowed
  <2> DEFINE x == [fields |-> vfd.written_fields, clears |-> vfd.clears]
  <2>1. VfdAgrees(vfd.fields, vfd.clear_seq, x)
    BY DEF VfdInv, VfdCounts
  <2>2. x.fields = vfd.written_fields /\ x.clears = vfd.clears
    OBVIOUS
  <2> HIDE DEF x
  <2> QED
    BY <2>1, <2>2 DEF VfdAgrees
<1>2. VfdInv /\ [VfdNext]_vfd => VfdInv' /\ [VfdRefusalStep]_vfd
  BY VfdKeeps
<1> QED
  BY <1>1, <1>2, VfdStarts, PTL DEF VfdSpec, VfdIsRight, VfdRefusalStays, VfdRefusalStep

-----------------------------------------------------------------------------
(* The codecs: for all codecs, messages and writes.                        *)

(* What holds at the start and of each place after another holds of all.   *)
LEMMA FrameInduction ==
  ASSUME NEW len \in Nat, NEW Good, 0 \in Good, \A n \in 1..len : n - 1 \in Good => n \in Good
  PROVE  \A n \in 0..len : n \in Good
<1> DEFINE Bad == {n \in 0..len : n \notin Good}
<1> SUFFICES ASSUME Bad # {} PROVE FALSE
  OBVIOUS
<1>1. Bad \in SUBSET Nat
  OBVIOUS
<1>2. PICK n \in Bad : \A m \in Bad : n <= m
  BY <1>1, LeastExists
<1>3. n \in 1..len /\ n - 1 \in 0..len /\ ~(n <= n - 1)
  BY <1>2
<1>4. n - 1 \in Good
  BY <1>2, <1>3
<1> QED
  BY <1>2, <1>3, <1>4

(* f is what a loop over bytes comes to that begins with first.            *)
FrameLoops(S, first, op, bytes, f) ==
  /\ f \in [0..Len(bytes) -> S]
  /\ \A n \in 0..Len(bytes) : f[n] = (IF n = 0 THEN first ELSE op[<<f[n - 1], bytes[n]>>])

(* A loop over bytes, a function of the state and the next byte, comes to  *)
(* something after each of them.                                           *)
LEMMA FrameLoopExists ==
  ASSUME NEW S, NEW T, NEW first \in S, NEW op \in [S \X T -> S],
         NEW bytes \in Seq(T)
  PROVE  \E f : FrameLoops(S, first, op, bytes, f)
<1> DEFINE len == Len(bytes)
           Upto(f, k) == \A n \in 0..k : f[n] = (IF n = 0 THEN first ELSE op[<<f[n - 1], bytes[n]>>])
           Good == {k \in 0..len : \E f \in [0..k -> S] : Upto(f, k)}
<1>1. len \in Nat /\ \A n \in 1..len : bytes[n] \in T
  BY LenProperties, ElementOfSeq
<1>2. 0 \in Good
  <2> DEFINE f == [n \in 0..0 |-> first]
  <2>1. f \in [0..0 -> S] /\ Upto(f, 0)
    OBVIOUS
  <2>2. 0 \in 0..len
    BY <1>1
  <2> QED
    BY <2>1, <2>2
<1>3. ASSUME NEW k \in 1..len, k - 1 \in Good PROVE k \in Good
  <2>1. PICK f \in [0..(k - 1) -> S] : Upto(f, k - 1)
    BY <1>3
  <2> DEFINE g == [n \in 0..k |-> IF n = k THEN op[<<f[k - 1], bytes[k]>>] ELSE f[n]]
  <2>2. k \in Nat /\ k - 1 \in 0..(k - 1) /\ k # 0 /\ k - 1 # k
    BY <1>1
  <2>3. f[k - 1] \in S /\ op[<<f[k - 1], bytes[k]>>] \in S
    BY <2>2, <1>1
  <2>4. \A n \in 0..k : n = k \/ n \in 0..(k - 1)
    BY <2>2
  <2>5. g \in [0..k -> S]
    BY <2>3, <2>4
  <2>6. ASSUME NEW n \in 0..k PROVE g[n] = (IF n = 0 THEN first ELSE op[<<g[n - 1], bytes[n]>>])
    <3>1. CASE n = k
      <4>1. n - 1 \in 0..k /\ n - 1 # k
        BY <3>1, <2>2
      <4>2. g[n - 1] = f[n - 1]
        BY <4>1
      <4> QED
        BY <3>1, <4>2, <2>2
    <3>2. CASE n # k
      <4>1. n \in 0..(k - 1) /\ (n # 0 => n - 1 \in 0..k /\ n - 1 # k)
        BY <3>2, <2>2
      <4>2. g[n] = f[n] /\ (n # 0 => g[n - 1] = f[n - 1])
        BY <3>2, <4>1
      <4>3. f[n] = (IF n = 0 THEN first ELSE op[<<f[n - 1], bytes[n]>>])
        BY <2>1, <4>1
      <4> QED
        BY <4>2, <4>3
    <3> QED
      BY <3>1, <3>2
  <2> HIDE DEF g
  <2>7. Upto(g, k)
    BY <2>6
  <2>8. k \in 0..len
    BY <1>1
  <2> QED
    BY <2>5, <2>7, <2>8
<1> HIDE DEF Good
<1>4. \A k \in 0..len : k \in Good
  BY <1>1, <1>2, <1>3, FrameInduction
<1>5. len \in Good
  BY <1>1, <1>4
<1> QED
  BY <1>5 DEF Good, FrameLoops

(* What a loop comes to stays among the values that its step leads to.     *)
LEMMA FrameLoopStays ==
  ASSUME NEW S, NEW len \in Nat, NEW f, f[0] \in S,
         \A n \in 1..len : f[n - 1] \in S => f[n] \in S
  PROVE  \A n \in 0..len : f[n] \in S
<1> DEFINE Good == {n \in 0..len : f[n] \in S}
<1>1. 0 \in Good
  OBVIOUS
<1>2. ASSUME NEW n \in 1..len, n - 1 \in Good PROVE n \in Good
  BY <1>2
<1>3. \A n \in 0..len : n \in Good
  BY <1>1, <1>2, FrameInduction, Zenon
<1> QED
  BY <1>3

(* The state of a decoder of streams, and of one of whole frames.          *)
FrameDecoder ==
  [hr : {"S_FALSE", "S_OK", "ERROR_CRC", "E_FAIL"}, dest : Seq(FrameBytes),
   escape : BOOLEAN, used : Nat]
FrameUnstuffer == [bytes : Seq(FrameBytes), escape : BOOLEAN, bad : BOOLEAN]

(* A byte of a frame is one or two bytes.                                  *)
LEMMA FrameStuffIs ==
  ASSUME NEW c, FrameIsCodec(c), NEW byte \in FrameBytes
  PROVE  /\ byte \in {c.sync, c.esc} =>
              /\ FrameStuff(c, byte) = <<c.esc, byte - 1>>
              /\ byte - 1 \in FrameBytes \ {c.sync, c.esc} /\ FrameByte(byte - 1 + 1) = byte
         /\ byte \notin {c.sync, c.esc} => FrameStuff(c, byte) = <<byte>>
         /\ FrameStuff(c, byte) \in Seq(FrameBytes)
         /\ c.esc \in FrameBytes /\ c.sync \in FrameBytes /\ c.esc # c.sync
<1>1. /\ c.sync \in 1..FrameWidth - 1 /\ c.esc \in 1..FrameWidth - 1
      /\ c.sync # c.esc /\ c.sync # c.esc - 1 /\ c.sync # c.esc + 1
      /\ FrameWidth \in Nat \ {0}
  BY FrameAssumption DEF FrameAssumption, FrameIsCodec
<1>2. c.esc \in FrameBytes /\ c.sync \in FrameBytes
  BY <1>1 DEF FrameBytes
<1>3. CASE byte \in {c.sync, c.esc}
  <2>1. byte - 1 \in FrameBytes \ {c.sync, c.esc} /\ byte \in Nat /\ byte < FrameWidth
    BY <1>1, <1>3 DEF FrameBytes
  <2>2. byte - 1 + 1 = byte
    BY <2>1
  <2>3. FrameByte(byte) = byte
    BY <2>1, <1>1 DEF FrameByte
  <2>4. FrameStuff(c, byte) = <<c.esc, byte - 1>>
    BY <1>3 DEF FrameStuff
  <2>5. <<c.esc, byte - 1>> \in Seq(FrameBytes)
    BY <2>1, <1>2
  <2> QED
    BY <1>1, <1>2, <1>3, <2>1, <2>2, <2>3, <2>4, <2>5
<1>4. CASE byte \notin {c.sync, c.esc}
  BY <1>1, <1>2, <1>4 DEF FrameStuff
<1> QED
  BY <1>3, <1>4

(* What a step of the decoder of streams comes to.                         *)
LEMMA FrameStepIs ==
  ASSUME NEW c, NEW d \in FrameDecoder, NEW byte \in FrameBytes, d.hr = "S_FALSE",
         c.sync # c.esc
  PROVE  LET next(hr, dest, escape) ==
               [hr |-> hr, dest |-> dest, escape |-> escape, used |-> d.used + 1]
             put(b) == next(slider_frame_accept(c, Append(d.dest, b)), Append(d.dest, b), FALSE)
         IN  /\ d.used = 0 => FrameStep(c, d, byte) = put(byte)
             /\ d.used > 0 /\ byte = c.sync =>
                  FrameStep(c, d, byte) = next("E_FAIL", d.dest, d.escape)
             /\ d.used > 0 /\ byte # c.sync /\ byte = c.esc =>
                  FrameStep(c, d, byte) =
                    next(IF d.escape THEN "E_FAIL" ELSE d.hr, d.dest, TRUE)
             /\ d.used > 0 /\ byte # c.sync /\ byte # c.esc =>
                  FrameStep(c, d, byte) = put(IF d.escape THEN FrameByte(byte + 1) ELSE byte)
<1> DEFINE next(hr, dest, escape) ==
             [hr |-> hr, dest |-> dest, escape |-> escape, used |-> d.used + 1]
           e == [d EXCEPT !.used = @ + 1]
           put(b) == [e EXCEPT !.dest = Append(@, b), !.escape = FALSE,
                               !.hr = slider_frame_accept(c, Append(d.dest, b))]
<1>1. d.used \in Nat /\ d.escape \in BOOLEAN
  BY DEF FrameDecoder
<1>2. d = [hr |-> d.hr, dest |-> d.dest, escape |-> d.escape, used |-> d.used]
  BY DEF FrameDecoder
<1>3. e = [hr |-> d.hr, dest |-> d.dest, escape |-> d.escape, used |-> d.used + 1]
  BY ONLY <1>2
<1>4. FrameStep(c, d, byte) =
        (CASE d.used = 0 -> put(byte)
           [] d.used > 0 /\ byte = c.sync -> [e EXCEPT !.hr = "E_FAIL"]
           [] d.used > 0 /\ byte = c.esc -> [e EXCEPT !.hr = IF d.escape THEN "E_FAIL" ELSE @,
                                                      !.escape = TRUE]
           [] OTHER -> put(IF d.escape THEN FrameByte(byte + 1) ELSE byte))
  BY Zenon DEF FrameStep
<1> HIDE DEF e
<1>5. /\ \A b : put(b) = next(slider_frame_accept(c, Append(d.dest, b)), Append(d.dest, b), FALSE)
      /\ [e EXCEPT !.hr = "E_FAIL"] = next("E_FAIL", d.dest, d.escape)
      /\ [e EXCEPT !.hr = IF d.escape THEN "E_FAIL" ELSE @, !.escape = TRUE]
           = next(IF d.escape THEN "E_FAIL" ELSE d.hr, d.dest, TRUE)
  <2>1. e.hr = d.hr /\ e.dest = d.dest
    BY ONLY <1>3
  <2>2. ASSUME NEW x, NEW y, NEW z, NEW v, v = [e EXCEPT !.dest = x, !.escape = y, !.hr = z]
        PROVE  v = next(z, x, y)
    BY ONLY <1>3, <2>2
  <2>3. ASSUME NEW z, NEW v, v = [e EXCEPT !.hr = z] PROVE v = next(z, d.dest, d.escape)
    BY ONLY <1>3, <2>3
  <2>4. ASSUME NEW y, NEW z, NEW v, v = [e EXCEPT !.hr = z, !.escape = y]
        PROVE  v = next(z, d.dest, y)
    BY ONLY <1>3, <2>4
  <2> HIDE DEF next
  <2>5. \A b : put(b) = next(slider_frame_accept(c, Append(d.dest, b)), Append(d.dest, b), FALSE)
    BY ONLY <2>1, <2>2
  <2>6. [e EXCEPT !.hr = "E_FAIL"] = next("E_FAIL", d.dest, d.escape)
    BY ONLY <2>3
  <2>7. [e EXCEPT !.hr = IF d.escape THEN "E_FAIL" ELSE @, !.escape = TRUE]
          = next(IF d.escape THEN "E_FAIL" ELSE d.hr, d.dest, TRUE)
    BY ONLY <2>1, <2>4
  <2> QED
    BY ONLY <2>5, <2>6, <2>7
<1> HIDE DEF put, next
<1>8. d.used = 0 => FrameStep(c, d, byte) = put(byte)
  BY <1>1, <1>4
<1>9. d.used > 0 /\ byte = c.sync => FrameStep(c, d, byte) = [e EXCEPT !.hr = "E_FAIL"]
  BY <1>1, <1>4
<1>10. d.used > 0 /\ byte # c.sync /\ byte = c.esc =>
         FrameStep(c, d, byte) =
           [e EXCEPT !.hr = IF d.escape THEN "E_FAIL" ELSE @, !.escape = TRUE]
  BY <1>1, <1>4
<1>11. d.used > 0 /\ byte # c.sync /\ byte # c.esc =>
         FrameStep(c, d, byte) = put(IF d.escape THEN FrameByte(byte + 1) ELSE byte)
  BY <1>1, <1>4
<1> QED
  BY ONLY <1>5, <1>8, <1>9, <1>10, <1>11 DEF next

(* A step of each decoder leads to a state of it.                          *)
LEMMA FrameStepKeeps ==
  ASSUME NEW c, FrameIsCodec(c), NEW d \in FrameDecoder, NEW byte \in FrameBytes
  PROVE  FrameStep(c, d, byte) \in FrameDecoder
<1> DEFINE taken == IF d.escape THEN FrameByte(byte + 1) ELSE byte
           next(hr, dest, escape) ==
             [hr |-> hr, dest |-> dest, escape |-> escape, used |-> d.used + 1]
<1>1. /\ d.dest \in Seq(FrameBytes) /\ d.used \in Nat /\ d.escape \in BOOLEAN
      /\ d.hr \in {"S_FALSE", "S_OK", "ERROR_CRC", "E_FAIL"}
  BY DEF FrameDecoder
<1>2. FrameByte(byte + 1) \in FrameBytes
  BY FrameAssumption DEF FrameAssumption, FrameByte, FrameBytes
<1>3. taken \in FrameBytes
  BY <1>2
<1>4. \A dest : slider_frame_accept(c, dest) \in {"S_FALSE", "S_OK", "ERROR_CRC", "E_FAIL"}
  BY DEF slider_frame_accept
<1>5. \A hr \in {"S_FALSE", "S_OK", "ERROR_CRC", "E_FAIL"}, dest \in Seq(FrameBytes),
         escape \in BOOLEAN : next(hr, dest, escape) \in FrameDecoder
  BY <1>1 DEF FrameDecoder
<1>6. Append(d.dest, byte) \in Seq(FrameBytes) /\ Append(d.dest, taken) \in Seq(FrameBytes)
  BY <1>1, <1>3, AppendProperties
<1>7. CASE d.hr # "S_FALSE"
  BY <1>7 DEF FrameStep
<1>8. CASE d.hr = "S_FALSE"
  <2>1. /\ d.used = 0 => FrameStep(c, d, byte) =
             next(slider_frame_accept(c, Append(d.dest, byte)), Append(d.dest, byte), FALSE)
        /\ d.used > 0 /\ byte = c.sync =>
             FrameStep(c, d, byte) = next("E_FAIL", d.dest, d.escape)
        /\ d.used > 0 /\ byte # c.sync /\ byte = c.esc =>
             FrameStep(c, d, byte) = next(IF d.escape THEN "E_FAIL" ELSE d.hr, d.dest, TRUE)
        /\ d.used > 0 /\ byte # c.sync /\ byte # c.esc => FrameStep(c, d, byte) =
             next(slider_frame_accept(c, Append(d.dest, taken)), Append(d.dest, taken), FALSE)
    <3>1. c.sync # c.esc
      BY DEF FrameIsCodec
    <3> QED
      BY <1>8, <3>1, FrameStepIs, Zenon
  <2> HIDE DEF next, taken
  <2>2. d.used = 0 \/ d.used > 0
    BY <1>1
  <2>3. (IF d.escape THEN "E_FAIL" ELSE d.hr) \in {"S_FALSE", "S_OK", "ERROR_CRC", "E_FAIL"}
    BY <1>1
  <2>4. FALSE \in BOOLEAN /\ TRUE \in BOOLEAN /\ "E_FAIL" \in {"S_FALSE", "S_OK", "ERROR_CRC", "E_FAIL"}
    OBVIOUS
  <2> QED
    BY <1>1, <1>4, <1>5, <1>6, <2>1, <2>2, <2>3, <2>4
<1> QED
  BY <1>7, <1>8

(* A whole frame too.                                                      *)
LEMMA FrameUnstuffKeeps ==
  ASSUME NEW d \in FrameUnstuffer, NEW byte \in FrameBytes
  PROVE  FrameUnstuff(d, byte) \in FrameUnstuffer /\ FrameJvsStep(d, byte) \in FrameUnstuffer
<1>1. /\ d.bytes \in Seq(FrameBytes) /\ d.escape \in BOOLEAN /\ d.bad \in BOOLEAN
      /\ d = [bytes |-> d.bytes, escape |-> d.escape, bad |-> d.bad]
  BY DEF FrameUnstuffer
<1>2. FrameByte(byte + 1) \in FrameBytes
  BY FrameAssumption DEF FrameAssumption, FrameByte, FrameBytes
<1>3. \A b \in FrameBytes : Append(d.bytes, b) \in Seq(FrameBytes)
  BY <1>1, AppendProperties
<1>4. \A bytes \in Seq(FrameBytes), escape \in BOOLEAN, bad \in BOOLEAN :
        [bytes |-> bytes, escape |-> escape, bad |-> bad] \in FrameUnstuffer
  BY DEF FrameUnstuffer
<1>5. FrameUnstuff(d, byte) \in
        {[bytes |-> Append(d.bytes, FrameByte(byte + 1)), escape |-> FALSE, bad |-> d.bad],
         [bytes |-> d.bytes, escape |-> TRUE, bad |-> d.bad],
         [bytes |-> Append(d.bytes, byte), escape |-> d.escape, bad |-> TRUE],
         [bytes |-> Append(d.bytes, byte), escape |-> d.escape, bad |-> d.bad]}
  BY <1>1 DEF FrameUnstuff
<1>6. FrameJvsStep(d, byte) \in FrameUnstuffer
  <2>1. CASE byte = FrameSg.sync
    <3>1. FrameJvsStep(d, byte) = [bytes |-> d.bytes, escape |-> d.escape, bad |-> TRUE]
      BY <1>1, <2>1, FrameAssumption DEF FrameJvsStep, FrameAssumption, FrameIsCodec
    <3> QED
      BY <1>1, <1>4, <3>1
  <2>2. CASE byte # FrameSg.sync /\ byte = FrameSg.esc
    <3>1. FrameJvsStep(d, byte) =
            [bytes |-> d.bytes, escape |-> TRUE, bad |-> d.bad \/ d.escape]
      BY <1>1, <2>2 DEF FrameJvsStep
    <3> QED
      BY <1>1, <1>4, <3>1
  <2>3. CASE byte # FrameSg.sync /\ byte # FrameSg.esc
    <3> DEFINE taken == IF d.escape THEN FrameByte(byte + 1) ELSE byte
    <3>1. FrameJvsStep(d, byte) = [d EXCEPT !.bytes = Append(@, taken), !.escape = FALSE]
      BY <2>3 DEF FrameJvsStep
    <3>2. taken \in FrameBytes
      BY <1>2
    <3> HIDE DEF taken
    <3>3. FrameJvsStep(d, byte) =
            [bytes |-> Append(d.bytes, taken), escape |-> FALSE, bad |-> d.bad]
      BY <1>1, <3>1
    <3> QED
      BY <1>1, <1>3, <1>4, <3>2, <3>3
  <2> QED
    BY <2>1, <2>2, <2>3
<1>7. FrameUnstuff(d, byte) \in FrameUnstuffer
  BY <1>1, <1>2, <1>3, <1>4, <1>5
<1> QED
  BY <1>6, <1>7

(* FrameSums is the function it is defined to be.                          *)
LEMMA FrameSumsAre ==
  ASSUME NEW bytes \in Seq(FrameBytes)
  PROVE  \A n \in 0..Len(bytes) :
           /\ FrameSums(bytes)[n] = (IF n = 0 THEN 0 ELSE (FrameSums(bytes)[n - 1] + bytes[n]) % FrameWidth)
           /\ FrameSums(bytes)[n] \in FrameBytes
<1> DEFINE op == [p \in FrameBytes \X FrameBytes |-> (p[1] + p[2]) % FrameWidth]
<1>1. Len(bytes) \in Nat /\ \A n \in 1..Len(bytes) : bytes[n] \in FrameBytes
  BY LenProperties, ElementOfSeq
<1>2. 0 \in FrameBytes
  BY FrameAssumption DEF FrameAssumption, FrameBytes
<1>3. \A d \in FrameBytes, byte \in FrameBytes : (d + byte) % FrameWidth \in FrameBytes
  BY FrameAssumption DEF FrameAssumption, FrameBytes
<1>4. op \in [FrameBytes \X FrameBytes -> FrameBytes]
  BY <1>3
<1>5. \A d \in FrameBytes, byte \in FrameBytes : op[<<d, byte>>] = (d + byte) % FrameWidth
  OBVIOUS
<1> HIDE DEF op
<1>6. PICK f : FrameLoops(FrameBytes, 0, op, bytes, f)
  BY <1>2, <1>4, FrameLoopExists
<1>15. /\ f \in [0..Len(bytes) -> FrameBytes]
      /\ \A n \in 0..Len(bytes) : f[n] = (IF n = 0 THEN 0 ELSE op[<<f[n - 1], bytes[n]>>])
  BY <1>6 DEF FrameLoops
<1>7. ASSUME NEW n \in 0..Len(bytes)
      PROVE  f[n] = (IF n = 0 THEN 0 ELSE (f[n - 1] + bytes[n]) % FrameWidth)
  <2>1. CASE n = 0
    BY <2>1, <1>15
  <2>2. CASE n # 0
    <3>1. n \in 1..Len(bytes) /\ n - 1 \in 0..Len(bytes)
      BY <2>2, <1>1
    <3>2. f[n - 1] \in FrameBytes /\ bytes[n] \in FrameBytes
      BY <3>1, <1>1, <1>15
    <3> QED
      BY <2>2, <3>2, <1>5, <1>15
  <2> QED
    BY <2>1, <2>2
<1>8. f = [n \in 0..Len(bytes) |-> f[n]]
  BY <1>15
<1>9. f = [n \in 0..Len(bytes) |-> IF n = 0 THEN 0 ELSE (f[n - 1] + bytes[n]) % FrameWidth]
  BY <1>7, <1>8, Zenon
<1>10. FrameSums(bytes) = [n \in 0..Len(bytes) |-> IF n = 0 THEN 0 ELSE (FrameSums(bytes)[n - 1] + bytes[n]) % FrameWidth]
  BY <1>9, Zenon DEF FrameSums
<1>11. \A n \in 0..Len(bytes) : FrameSums(bytes)[n] = (IF n = 0 THEN 0 ELSE (FrameSums(bytes)[n - 1] + bytes[n]) % FrameWidth)
  BY ONLY <1>10
<1> DEFINE F == FrameSums(bytes)
<1>12. F[0] \in FrameBytes
  <2>1. 0 \in 0..Len(bytes)
    BY <1>1
  <2>2. F[0] = 0
    BY <1>11, <2>1
  <2> QED
    BY <1>2, <2>2
<1>13. ASSUME NEW n \in 1..Len(bytes), F[n - 1] \in FrameBytes PROVE F[n] \in FrameBytes
  <2>1. n \in 0..Len(bytes) /\ n # 0
    BY <1>1
  <2> QED
    BY <2>1, <1>1, <1>3, <1>11, <1>13
<1> HIDE DEF F
<1>14. \A n \in 0..Len(bytes) : F[n] \in FrameBytes
  BY <1>1, <1>12, <1>13, FrameLoopStays
<1> QED
  BY <1>11, <1>14 DEF F

(* And so is FrameStuffs.                                                  *)
LEMMA FrameStuffsAre ==
  ASSUME NEW c, FrameIsCodec(c), NEW bytes \in Seq(FrameBytes)
  PROVE  \A n \in 0..Len(bytes) :
           /\ FrameStuffs(c, bytes)[n] = (IF n = 0 THEN <<>> ELSE FrameStuffs(c, bytes)[n - 1] \o FrameStuff(c, bytes[n]))
           /\ FrameStuffs(c, bytes)[n] \in Seq(FrameBytes)
<1> DEFINE op == [p \in Seq(FrameBytes) \X FrameBytes |-> p[1] \o FrameStuff(c, p[2])]
<1>1. Len(bytes) \in Nat /\ \A n \in 1..Len(bytes) : bytes[n] \in FrameBytes
  BY LenProperties, ElementOfSeq
<1>2. <<>> \in Seq(FrameBytes)
  BY EmptySeq
<1>3. \A d \in Seq(FrameBytes), byte \in FrameBytes : d \o FrameStuff(c, byte) \in Seq(FrameBytes)
  BY FrameStuffIs, ConcatProperties
<1>4. op \in [Seq(FrameBytes) \X FrameBytes -> Seq(FrameBytes)]
  BY <1>3
<1>5. \A d \in Seq(FrameBytes), byte \in FrameBytes : op[<<d, byte>>] = d \o FrameStuff(c, byte)
  OBVIOUS
<1> HIDE DEF op
<1>6. PICK f : FrameLoops(Seq(FrameBytes), <<>>, op, bytes, f)
  BY <1>2, <1>4, FrameLoopExists
<1>15. /\ f \in [0..Len(bytes) -> Seq(FrameBytes)]
      /\ \A n \in 0..Len(bytes) : f[n] = (IF n = 0 THEN <<>> ELSE op[<<f[n - 1], bytes[n]>>])
  BY <1>6 DEF FrameLoops
<1>7. ASSUME NEW n \in 0..Len(bytes)
      PROVE  f[n] = (IF n = 0 THEN <<>> ELSE f[n - 1] \o FrameStuff(c, bytes[n]))
  <2>1. CASE n = 0
    BY <2>1, <1>15
  <2>2. CASE n # 0
    <3>1. n \in 1..Len(bytes) /\ n - 1 \in 0..Len(bytes)
      BY <2>2, <1>1
    <3>2. f[n - 1] \in Seq(FrameBytes) /\ bytes[n] \in FrameBytes
      BY <3>1, <1>1, <1>15
    <3> QED
      BY <2>2, <3>2, <1>5, <1>15
  <2> QED
    BY <2>1, <2>2
<1>8. f = [n \in 0..Len(bytes) |-> f[n]]
  BY <1>15
<1>9. f = [n \in 0..Len(bytes) |-> IF n = 0 THEN <<>> ELSE f[n - 1] \o FrameStuff(c, bytes[n])]
  BY <1>7, <1>8, Zenon
<1>10. FrameStuffs(c, bytes) = [n \in 0..Len(bytes) |-> IF n = 0 THEN <<>> ELSE FrameStuffs(c, bytes)[n - 1] \o FrameStuff(c, bytes[n])]
  BY <1>9, Zenon DEF FrameStuffs
<1>11. \A n \in 0..Len(bytes) : FrameStuffs(c, bytes)[n] = (IF n = 0 THEN <<>> ELSE FrameStuffs(c, bytes)[n - 1] \o FrameStuff(c, bytes[n]))
  BY ONLY <1>10
<1> DEFINE F == FrameStuffs(c, bytes)
<1>12. F[0] \in Seq(FrameBytes)
  <2>1. 0 \in 0..Len(bytes)
    BY <1>1
  <2>2. F[0] = <<>>
    BY <1>11, <2>1
  <2> QED
    BY <1>2, <2>2
<1>13. ASSUME NEW n \in 1..Len(bytes), F[n - 1] \in Seq(FrameBytes) PROVE F[n] \in Seq(FrameBytes)
  <2>1. n \in 0..Len(bytes) /\ n # 0
    BY <1>1
  <2> QED
    BY <2>1, <1>1, <1>3, <1>11, <1>13
<1> HIDE DEF F
<1>14. \A n \in 0..Len(bytes) : F[n] \in Seq(FrameBytes)
  BY <1>1, <1>12, <1>13, FrameLoopStays
<1> QED
  BY <1>11, <1>14 DEF F

(* And FrameSteps.                                                         *)
LEMMA FrameStepsAre ==
  ASSUME NEW c, FrameIsCodec(c), NEW src \in Seq(FrameBytes)
  PROVE  \A n \in 0..Len(src) :
           /\ FrameSteps(c, src)[n] = (IF n = 0 THEN FrameFresh ELSE FrameStep(c, FrameSteps(c, src)[n - 1], src[n]))
           /\ FrameSteps(c, src)[n] \in FrameDecoder
<1> DEFINE op == [p \in FrameDecoder \X FrameBytes |-> FrameStep(c, p[1], p[2])]
<1>1. Len(src) \in Nat /\ \A n \in 1..Len(src) : src[n] \in FrameBytes
  BY LenProperties, ElementOfSeq
<1>2. FrameFresh \in FrameDecoder
  BY EmptySeq DEF FrameFresh, FrameDecoder
<1>3. \A d \in FrameDecoder, byte \in FrameBytes : FrameStep(c, d, byte) \in FrameDecoder
  BY FrameStepKeeps
<1>4. op \in [FrameDecoder \X FrameBytes -> FrameDecoder]
  BY <1>3
<1>5. \A d \in FrameDecoder, byte \in FrameBytes : op[<<d, byte>>] = FrameStep(c, d, byte)
  OBVIOUS
<1> HIDE DEF op
<1>6. PICK f : FrameLoops(FrameDecoder, FrameFresh, op, src, f)
  BY <1>2, <1>4, FrameLoopExists
<1>15. /\ f \in [0..Len(src) -> FrameDecoder]
      /\ \A n \in 0..Len(src) : f[n] = (IF n = 0 THEN FrameFresh ELSE op[<<f[n - 1], src[n]>>])
  BY <1>6 DEF FrameLoops
<1>7. ASSUME NEW n \in 0..Len(src)
      PROVE  f[n] = (IF n = 0 THEN FrameFresh ELSE FrameStep(c, f[n - 1], src[n]))
  <2>1. CASE n = 0
    BY <2>1, <1>15
  <2>2. CASE n # 0
    <3>1. n \in 1..Len(src) /\ n - 1 \in 0..Len(src)
      BY <2>2, <1>1
    <3>2. f[n - 1] \in FrameDecoder /\ src[n] \in FrameBytes
      BY <3>1, <1>1, <1>15
    <3> QED
      BY <2>2, <3>2, <1>5, <1>15
  <2> QED
    BY <2>1, <2>2
<1>8. f = [n \in 0..Len(src) |-> f[n]]
  BY <1>15
<1>9. f = [n \in 0..Len(src) |-> IF n = 0 THEN FrameFresh ELSE FrameStep(c, f[n - 1], src[n])]
  BY <1>7, <1>8, Zenon
<1>10. FrameSteps(c, src) = [n \in 0..Len(src) |-> IF n = 0 THEN FrameFresh ELSE FrameStep(c, FrameSteps(c, src)[n - 1], src[n])]
  BY <1>9, Zenon DEF FrameSteps
<1>11. \A n \in 0..Len(src) : FrameSteps(c, src)[n] = (IF n = 0 THEN FrameFresh ELSE FrameStep(c, FrameSteps(c, src)[n - 1], src[n]))
  BY ONLY <1>10
<1> DEFINE F == FrameSteps(c, src)
<1>12. F[0] \in FrameDecoder
  <2>1. 0 \in 0..Len(src)
    BY <1>1
  <2>2. F[0] = FrameFresh
    BY <1>11, <2>1
  <2> QED
    BY <1>2, <2>2
<1>13. ASSUME NEW n \in 1..Len(src), F[n - 1] \in FrameDecoder PROVE F[n] \in FrameDecoder
  <2>1. n \in 0..Len(src) /\ n # 0
    BY <1>1
  <2> QED
    BY <2>1, <1>1, <1>3, <1>11, <1>13
<1> HIDE DEF F
<1>14. \A n \in 0..Len(src) : F[n] \in FrameDecoder
  BY <1>1, <1>12, <1>13, FrameLoopStays
<1> QED
  BY <1>11, <1>14 DEF F

(* And FrameUnstuffs.                                                      *)
LEMMA FrameUnstuffsAre ==
  ASSUME NEW bytes \in Seq(FrameBytes)
  PROVE  \A n \in 0..Len(bytes) :
           /\ FrameUnstuffs(bytes)[n] = (IF n = 0 THEN FrameUnstuffed ELSE FrameUnstuff(FrameUnstuffs(bytes)[n - 1], bytes[n]))
           /\ FrameUnstuffs(bytes)[n] \in FrameUnstuffer
<1> DEFINE op == [p \in FrameUnstuffer \X FrameBytes |-> FrameUnstuff(p[1], p[2])]
<1>1. Len(bytes) \in Nat /\ \A n \in 1..Len(bytes) : bytes[n] \in FrameBytes
  BY LenProperties, ElementOfSeq
<1>2. FrameUnstuffed \in FrameUnstuffer
  BY EmptySeq DEF FrameUnstuffed, FrameUnstuffer
<1>3. \A d \in FrameUnstuffer, byte \in FrameBytes : FrameUnstuff(d, byte) \in FrameUnstuffer
  BY FrameUnstuffKeeps
<1>4. op \in [FrameUnstuffer \X FrameBytes -> FrameUnstuffer]
  BY <1>3
<1>5. \A d \in FrameUnstuffer, byte \in FrameBytes : op[<<d, byte>>] = FrameUnstuff(d, byte)
  OBVIOUS
<1> HIDE DEF op
<1>6. PICK f : FrameLoops(FrameUnstuffer, FrameUnstuffed, op, bytes, f)
  BY <1>2, <1>4, FrameLoopExists
<1>15. /\ f \in [0..Len(bytes) -> FrameUnstuffer]
      /\ \A n \in 0..Len(bytes) : f[n] = (IF n = 0 THEN FrameUnstuffed ELSE op[<<f[n - 1], bytes[n]>>])
  BY <1>6 DEF FrameLoops
<1>7. ASSUME NEW n \in 0..Len(bytes)
      PROVE  f[n] = (IF n = 0 THEN FrameUnstuffed ELSE FrameUnstuff(f[n - 1], bytes[n]))
  <2>1. CASE n = 0
    BY <2>1, <1>15
  <2>2. CASE n # 0
    <3>1. n \in 1..Len(bytes) /\ n - 1 \in 0..Len(bytes)
      BY <2>2, <1>1
    <3>2. f[n - 1] \in FrameUnstuffer /\ bytes[n] \in FrameBytes
      BY <3>1, <1>1, <1>15
    <3> QED
      BY <2>2, <3>2, <1>5, <1>15
  <2> QED
    BY <2>1, <2>2
<1>8. f = [n \in 0..Len(bytes) |-> f[n]]
  BY <1>15
<1>9. f = [n \in 0..Len(bytes) |-> IF n = 0 THEN FrameUnstuffed ELSE FrameUnstuff(f[n - 1], bytes[n])]
  BY <1>7, <1>8, Zenon
<1>10. FrameUnstuffs(bytes) = [n \in 0..Len(bytes) |-> IF n = 0 THEN FrameUnstuffed ELSE FrameUnstuff(FrameUnstuffs(bytes)[n - 1], bytes[n])]
  BY <1>9, Zenon DEF FrameUnstuffs
<1>11. \A n \in 0..Len(bytes) : FrameUnstuffs(bytes)[n] = (IF n = 0 THEN FrameUnstuffed ELSE FrameUnstuff(FrameUnstuffs(bytes)[n - 1], bytes[n]))
  BY ONLY <1>10
<1> DEFINE F == FrameUnstuffs(bytes)
<1>12. F[0] \in FrameUnstuffer
  <2>1. 0 \in 0..Len(bytes)
    BY <1>1
  <2>2. F[0] = FrameUnstuffed
    BY <1>11, <2>1
  <2> QED
    BY <1>2, <2>2
<1>13. ASSUME NEW n \in 1..Len(bytes), F[n - 1] \in FrameUnstuffer PROVE F[n] \in FrameUnstuffer
  <2>1. n \in 0..Len(bytes) /\ n # 0
    BY <1>1
  <2> QED
    BY <2>1, <1>1, <1>3, <1>11, <1>13
<1> HIDE DEF F
<1>14. \A n \in 0..Len(bytes) : F[n] \in FrameUnstuffer
  BY <1>1, <1>12, <1>13, FrameLoopStays
<1> QED
  BY <1>11, <1>14 DEF F

(* And FrameJvsSteps.                                                      *)
LEMMA FrameJvsStepsAre ==
  ASSUME NEW bytes \in Seq(FrameBytes)
  PROVE  \A n \in 0..Len(bytes) :
           /\ FrameJvsSteps(bytes)[n] = (IF n = 0 THEN FrameUnstuffed ELSE FrameJvsStep(FrameJvsSteps(bytes)[n - 1], bytes[n]))
           /\ FrameJvsSteps(bytes)[n] \in FrameUnstuffer
<1> DEFINE op == [p \in FrameUnstuffer \X FrameBytes |-> FrameJvsStep(p[1], p[2])]
<1>1. Len(bytes) \in Nat /\ \A n \in 1..Len(bytes) : bytes[n] \in FrameBytes
  BY LenProperties, ElementOfSeq
<1>2. FrameUnstuffed \in FrameUnstuffer
  BY EmptySeq DEF FrameUnstuffed, FrameUnstuffer
<1>3. \A d \in FrameUnstuffer, byte \in FrameBytes : FrameJvsStep(d, byte) \in FrameUnstuffer
  BY FrameUnstuffKeeps
<1>4. op \in [FrameUnstuffer \X FrameBytes -> FrameUnstuffer]
  BY <1>3
<1>5. \A d \in FrameUnstuffer, byte \in FrameBytes : op[<<d, byte>>] = FrameJvsStep(d, byte)
  OBVIOUS
<1> HIDE DEF op
<1>6. PICK f : FrameLoops(FrameUnstuffer, FrameUnstuffed, op, bytes, f)
  BY <1>2, <1>4, FrameLoopExists
<1>15. /\ f \in [0..Len(bytes) -> FrameUnstuffer]
      /\ \A n \in 0..Len(bytes) : f[n] = (IF n = 0 THEN FrameUnstuffed ELSE op[<<f[n - 1], bytes[n]>>])
  BY <1>6 DEF FrameLoops
<1>7. ASSUME NEW n \in 0..Len(bytes)
      PROVE  f[n] = (IF n = 0 THEN FrameUnstuffed ELSE FrameJvsStep(f[n - 1], bytes[n]))
  <2>1. CASE n = 0
    BY <2>1, <1>15
  <2>2. CASE n # 0
    <3>1. n \in 1..Len(bytes) /\ n - 1 \in 0..Len(bytes)
      BY <2>2, <1>1
    <3>2. f[n - 1] \in FrameUnstuffer /\ bytes[n] \in FrameBytes
      BY <3>1, <1>1, <1>15
    <3> QED
      BY <2>2, <3>2, <1>5, <1>15
  <2> QED
    BY <2>1, <2>2
<1>8. f = [n \in 0..Len(bytes) |-> f[n]]
  BY <1>15
<1>9. f = [n \in 0..Len(bytes) |-> IF n = 0 THEN FrameUnstuffed ELSE FrameJvsStep(f[n - 1], bytes[n])]
  BY <1>7, <1>8, Zenon
<1>10. FrameJvsSteps(bytes) = [n \in 0..Len(bytes) |-> IF n = 0 THEN FrameUnstuffed ELSE FrameJvsStep(FrameJvsSteps(bytes)[n - 1], bytes[n])]
  BY <1>9, Zenon DEF FrameJvsSteps
<1>11. \A n \in 0..Len(bytes) : FrameJvsSteps(bytes)[n] = (IF n = 0 THEN FrameUnstuffed ELSE FrameJvsStep(FrameJvsSteps(bytes)[n - 1], bytes[n]))
  BY ONLY <1>10
<1> DEFINE F == FrameJvsSteps(bytes)
<1>12. F[0] \in FrameUnstuffer
  <2>1. 0 \in 0..Len(bytes)
    BY <1>1
  <2>2. F[0] = FrameUnstuffed
    BY <1>11, <2>1
  <2> QED
    BY <1>2, <2>2
<1>13. ASSUME NEW n \in 1..Len(bytes), F[n - 1] \in FrameUnstuffer PROVE F[n] \in FrameUnstuffer
  <2>1. n \in 0..Len(bytes) /\ n # 0
    BY <1>1
  <2> QED
    BY <2>1, <1>1, <1>3, <1>11, <1>13
<1> HIDE DEF F
<1>14. \A n \in 0..Len(bytes) : F[n] \in FrameUnstuffer
  BY <1>1, <1>12, <1>13, FrameLoopStays
<1> QED
  BY <1>11, <1>14 DEF F

(* Each byte of what is stuffed is in its place in the frame.              *)
LEMMA FrameStuffPlaces ==
  ASSUME NEW c, FrameIsCodec(c), NEW bytes \in Seq(FrameBytes)
  PROVE  LET H == FrameStuffs(c, bytes)
             E == FrameStuffed(c, bytes)
         IN  /\ E \in Seq(FrameBytes) /\ Len(H[0]) = 0 /\ H[Len(bytes)] = E
             /\ \A k \in 0..Len(bytes) : Len(H[k]) \in Nat /\ Len(H[k]) <= Len(E)
             /\ \A k \in 1..Len(bytes) :
                  /\ bytes[k] \notin {c.sync, c.esc} =>
                       Len(H[k]) = Len(H[k - 1]) + 1 /\ E[Len(H[k - 1]) + 1] = bytes[k]
                  /\ bytes[k] \in {c.sync, c.esc} =>
                       /\ Len(H[k]) = Len(H[k - 1]) + 2
                       /\ E[Len(H[k - 1]) + 1] = c.esc /\ E[Len(H[k - 1]) + 2] = bytes[k] - 1
<1> DEFINE H == FrameStuffs(c, bytes)
           E == FrameStuffed(c, bytes)
           len == Len(bytes)
           Begins(k) == Len(H[k]) <= Len(E) /\ \A i \in 1..Len(H[k]) : E[i] = H[k][i]
<1>1. len \in Nat /\ \A k \in 1..len : bytes[k] \in FrameBytes
  BY LenProperties, ElementOfSeq
<1>2. \A k \in 0..len : H[k] \in Seq(FrameBytes)
                        /\ H[k] = (IF k = 0 THEN <<>> ELSE H[k - 1] \o FrameStuff(c, bytes[k]))
  BY FrameStuffsAre
<1>3. E = H[len]
  BY DEF FrameStuffed
<1> HIDE DEF H, E, len
<1>4. \A k \in 0..len : Len(H[k]) \in Nat
  BY <1>2, LenProperties
<1>5. Len(H[0]) = 0 /\ E \in Seq(FrameBytes)
  <2>1. 0 \in 0..len /\ len \in 0..len
    BY <1>1
  <2>2. H[0] = <<>>
    BY <1>2, <2>1
  <2> QED
    BY <1>2, <1>3, <2>1, <2>2
<1>6. ASSUME NEW k \in 1..len
      PROVE  /\ k - 1 \in 0..len /\ k \in 0..len
             /\ Len(H[k]) = Len(H[k - 1]) + Len(FrameStuff(c, bytes[k]))
             /\ \A i \in 1..Len(H[k - 1]) : H[k][i] = H[k - 1][i]
             /\ \A i \in 1..Len(FrameStuff(c, bytes[k])) :
                  H[k][Len(H[k - 1]) + i] = FrameStuff(c, bytes[k])[i]
  <2> DEFINE s == H[k - 1]  t == FrameStuff(c, bytes[k])
  <2>1. k - 1 \in 0..len /\ k \in 0..len /\ k # 0
    BY <1>1
  <2>2. s \in Seq(FrameBytes) /\ H[k] = s \o t
    BY <1>2, <2>1
  <2>3. t \in Seq(FrameBytes)
    BY <1>1, FrameStuffIs
  <2> HIDE DEF s, t
  <2>4. Len(s) \in Nat /\ Len(t) \in Nat
    BY <2>2, <2>3, LenProperties
  <2>5. /\ Len(s \o t) = Len(s) + Len(t)
        /\ \A i \in 1..Len(s) + Len(t) : (s \o t)[i] = IF i <= Len(s) THEN s[i] ELSE t[i - Len(s)]
    BY <2>2, <2>3, ConcatProperties
  <2>6. \A i \in 1..Len(s) : i \in 1..Len(s) + Len(t) /\ i <= Len(s)
    BY <2>4
  <2>7. \A i \in 1..Len(t) : Len(s) + i \in 1..Len(s) + Len(t) /\ ~(Len(s) + i <= Len(s))
                             /\ Len(s) + i - Len(s) = i
    BY <2>4
  <2>8. \A i \in 1..Len(s) : H[k][i] = s[i]
    BY <2>2, <2>5, <2>6
  <2>9. \A i \in 1..Len(t) : H[k][Len(s) + i] = t[i]
    BY <2>2, <2>5, <2>7
  <2> QED
    BY <2>1, <2>2, <2>5, <2>8, <2>9 DEF s, t
<1>11. ASSUME NEW k \in 1..len
       PROVE  /\ Len(H[k - 1]) \in Nat /\ Len(H[k]) \in Nat /\ Len(FrameStuff(c, bytes[k])) \in Nat
              /\ Len(H[k]) = Len(H[k - 1]) + Len(FrameStuff(c, bytes[k]))
  BY <1>1, <1>4, <1>6, FrameStuffIs, LenProperties
<1>7. \A k \in 0..len : Begins(k)
  <2> DEFINE Good == {n \in 0..len : Begins(len - n)}
  <2>1. 0 \in Good
    <3>1. len - 0 = len /\ 0 \in 0..len
      BY <1>1
    <3>2. Len(E) \in Nat
      BY <1>5, LenProperties
    <3> QED
      BY <1>3, <3>1, <3>2
  <2>2. ASSUME NEW n \in 1..len, n - 1 \in Good PROVE n \in Good
    <3> DEFINE k == len - (n - 1)
    <3>1. k \in 1..len /\ k - 1 = len - n /\ n \in 0..len
      BY <1>1
    <3>2. Begins(k)
      BY <2>2
    <3> HIDE DEF k
    <3> DEFINE u == Len(H[k - 1])  v == Len(H[k])  t == Len(FrameStuff(c, bytes[k]))  w == Len(E)
    <3>8. u \in Nat /\ v \in Nat /\ t \in Nat /\ v = u + t
      BY <1>11, <3>1
    <3>9. w \in Nat /\ v <= w
      BY <1>5, <3>2, LenProperties
    <3> HIDE DEF u, v, t, w
    <3>3. \A i \in 1..u : i \in 1..v
      BY ONLY <3>8
    <3>4. u <= w
      BY ONLY <3>8, <3>9
    <3>5. Len(H[k - 1]) <= Len(E)
      BY <3>4 DEF u, w
    <3>6. \A i \in 1..Len(H[k - 1]) : E[i] = H[k - 1][i]
      BY <1>6, <3>1, <3>2, <3>3 DEF u, v
    <3>7. Begins(k - 1)
      BY <3>5, <3>6
    <3> QED
      BY <3>1, <3>7
  <2> HIDE DEF Good, Begins
  <2>3. \A n \in 0..len : n \in Good
    BY <1>1, <2>1, <2>2, FrameInduction
  <2>4. ASSUME NEW k \in 0..len PROVE Begins(k)
    <3>1. len - k \in 0..len /\ len - (len - k) = k
      BY <1>1
    <3> QED
      BY <2>3, <3>1 DEF Good
  <2> QED
    BY <2>4
<1>8. ASSUME NEW k \in 1..len, NEW i \in 1..Len(FrameStuff(c, bytes[k]))
      PROVE  E[Len(H[k - 1]) + i] = FrameStuff(c, bytes[k])[i]
  <2> DEFINE u == Len(H[k - 1])  v == Len(H[k])  t == Len(FrameStuff(c, bytes[k]))
  <2>1. u \in Nat /\ v \in Nat /\ t \in Nat /\ v = u + t /\ i \in 1..t
    BY <1>11
  <2>2. k \in 0..len /\ k - 1 \in 0..len
    BY <1>6
  <2> HIDE DEF u, v, t
  <2>3. u + i \in 1..v
    BY ONLY <2>1
  <2> QED
    BY <1>6, <1>7, <2>2, <2>3 DEF u, v
<1>9. ASSUME NEW k \in 1..len, bytes[k] \notin {c.sync, c.esc}
      PROVE  Len(H[k]) = Len(H[k - 1]) + 1 /\ E[Len(H[k - 1]) + 1] = bytes[k]
  <2>1. FrameStuff(c, bytes[k]) = <<bytes[k]>>
    BY <1>1, <1>9, FrameStuffIs
  <2>2. Len(FrameStuff(c, bytes[k])) = 1 /\ FrameStuff(c, bytes[k])[1] = bytes[k]
    BY <2>1
  <2>3. 1 \in 1..Len(FrameStuff(c, bytes[k]))
    BY <2>2
  <2> QED
    BY <1>6, <1>8, <2>2, <2>3
<1>10. ASSUME NEW k \in 1..len, bytes[k] \in {c.sync, c.esc}
       PROVE  /\ Len(H[k]) = Len(H[k - 1]) + 2
              /\ E[Len(H[k - 1]) + 1] = c.esc /\ E[Len(H[k - 1]) + 2] = bytes[k] - 1
  <2>1. FrameStuff(c, bytes[k]) = <<c.esc, bytes[k] - 1>>
    BY <1>1, <1>10, FrameStuffIs
  <2>2. /\ Len(FrameStuff(c, bytes[k])) = 2 /\ FrameStuff(c, bytes[k])[1] = c.esc
        /\ FrameStuff(c, bytes[k])[2] = bytes[k] - 1
    BY <2>1
  <2>3. 1 \in 1..Len(FrameStuff(c, bytes[k])) /\ 2 \in 1..Len(FrameStuff(c, bytes[k]))
    BY <2>2
  <2> QED
    BY <1>6, <1>8, <2>2, <2>3
<1> QED
  BY <1>3, <1>4, <1>5, <1>7, <1>9, <1>10 DEF H, E, len

(* The bytes from place d on are those of what is stuffed.                 *)
FrameFollows(c, bytes, size, src, d) ==
  \A i \in 1..Len(FrameStuffed(c, bytes)) :
    d + i <= size => src[d + i] = FrameStuffed(c, bytes)[i]

(* A loop gets over a byte that is stuffed as one byte.                    *)
FrameGetsOverOne(c, bytes, size, src, d, g, P) ==
  \A k \in 1..Len(bytes) : \A n \in Nat :
    /\ n = d + Len(FrameStuffs(c, bytes)[k - 1]) /\ g[n] = P[k - 1]
    /\ n + 1 <= size /\ src[n + 1] = bytes[k] /\ bytes[k] \notin {c.sync, c.esc}
    => g[n + 1] = P[k]

(* A loop gets over a byte that is stuffed as two bytes.                   *)
FrameGetsOverTwo(c, bytes, size, src, d, g, P) ==
  \A k \in 1..Len(bytes) : \A n \in Nat :
    /\ n = d + Len(FrameStuffs(c, bytes)[k - 1]) /\ g[n] = P[k - 1]
    /\ n + 2 <= size /\ src[n + 1] = c.esc /\ src[n + 2] = bytes[k] - 1
    /\ bytes[k] \in {c.sync, c.esc}
    => g[n + 2] = P[k]

(* The loop is as planned at the end of each byte of what is stuffed.      *)
FrameReaches(c, bytes, size, d, g, P) ==
  \A k \in 0..Len(bytes) :
    d + Len(FrameStuffs(c, bytes)[k]) <= size => g[d + Len(FrameStuffs(c, bytes)[k])] = P[k]

(* A loop passes the end of each byte of what is stuffed, if it gets over  *)
(* each of them.                                                           *)
LEMMA FramePasses ==
  ASSUME NEW c, FrameIsCodec(c), NEW bytes \in Seq(FrameBytes),
         NEW size \in Nat, NEW src, NEW d \in Nat, NEW g, NEW P,
         FrameFollows(c, bytes, size, src, d), g[d] = P[0],
         FrameGetsOverOne(c, bytes, size, src, d, g, P),
         FrameGetsOverTwo(c, bytes, size, src, d, g, P)
  PROVE  FrameReaches(c, bytes, size, d, g, P)
<1> DEFINE H == FrameStuffs(c, bytes)
           E == FrameStuffed(c, bytes)
           len == Len(bytes)
           Good == {k \in 0..len : d + Len(H[k]) <= size => g[d + Len(H[k])] = P[k]}
<1>1. len \in Nat
  BY LenProperties
<1>2. /\ Len(H[0]) = 0
      /\ \A k \in 0..len : Len(H[k]) \in Nat /\ Len(H[k]) <= Len(E)
      /\ \A k \in 1..len :
           /\ bytes[k] \notin {c.sync, c.esc} =>
                Len(H[k]) = Len(H[k - 1]) + 1 /\ E[Len(H[k - 1]) + 1] = bytes[k]
           /\ bytes[k] \in {c.sync, c.esc} =>
                /\ Len(H[k]) = Len(H[k - 1]) + 2
                /\ E[Len(H[k - 1]) + 1] = c.esc /\ E[Len(H[k - 1]) + 2] = bytes[k] - 1
  BY FrameStuffPlaces
<1>3. Len(E) \in Nat
  BY FrameStuffPlaces, LenProperties
<1>4. \A i \in 1..Len(E) : d + i <= size => src[d + i] = E[i]
  BY DEF FrameFollows
<1>5. \A k \in 1..len : \A n \in Nat :
        /\ n = d + Len(H[k - 1]) /\ g[n] = P[k - 1]
        /\ n + 1 <= size /\ src[n + 1] = bytes[k] /\ bytes[k] \notin {c.sync, c.esc}
        => g[n + 1] = P[k]
  BY DEF FrameGetsOverOne
<1>6. \A k \in 1..len : \A n \in Nat :
        /\ n = d + Len(H[k - 1]) /\ g[n] = P[k - 1]
        /\ n + 2 <= size /\ src[n + 1] = c.esc /\ src[n + 2] = bytes[k] - 1
        /\ bytes[k] \in {c.sync, c.esc}
        => g[n + 2] = P[k]
  BY DEF FrameGetsOverTwo
<1> HIDE DEF H, E, len
<1>7. 0 \in Good
  <2>1. 0 \in 0..len /\ d + Len(H[0]) = d
    BY <1>1, <1>2
  <2> QED
    BY <2>1
<1>8. ASSUME NEW k \in 1..len, k - 1 \in Good PROVE k \in Good
  <2> DEFINE n == d + Len(H[k - 1])
  <2>1. k \in 0..len /\ k - 1 \in 0..len /\ n \in Nat /\ Len(H[k]) \in Nat /\ Len(H[k]) <= Len(E)
        /\ Len(H[k - 1]) \in Nat
    BY <1>1, <1>2
  <2> SUFFICES ASSUME d + Len(H[k]) <= size PROVE g[d + Len(H[k])] = P[k]
    BY <2>1
  <2>2. CASE bytes[k] \notin {c.sync, c.esc}
    <3>1. Len(H[k]) = Len(H[k - 1]) + 1 /\ E[Len(H[k - 1]) + 1] = bytes[k]
      BY <1>2, <2>2
    <3>2. /\ n <= size /\ n + 1 <= size /\ n + 1 = d + (Len(H[k - 1]) + 1)
          /\ Len(H[k - 1]) + 1 \in 1..Len(E) /\ d + Len(H[k]) = n + 1
      BY <2>1, <3>1, <1>3
    <3>3. g[n] = P[k - 1]
      BY <1>8, <3>2
    <3>4. src[n + 1] = bytes[k]
      BY <1>4, <3>1, <3>2
    <3>5. g[n + 1] = P[k]
      BY <1>5, <2>1, <2>2, <3>2, <3>3, <3>4
    <3> QED
      BY <3>2, <3>5
  <2>3. CASE bytes[k] \in {c.sync, c.esc}
    <3>1. /\ Len(H[k]) = Len(H[k - 1]) + 2
          /\ E[Len(H[k - 1]) + 1] = c.esc /\ E[Len(H[k - 1]) + 2] = bytes[k] - 1
      BY <1>2, <2>3
    <3>2. /\ n <= size /\ n + 1 <= size /\ n + 2 <= size
          /\ n + 1 = d + (Len(H[k - 1]) + 1) /\ n + 2 = d + (Len(H[k - 1]) + 2)
          /\ Len(H[k - 1]) + 1 \in 1..Len(E) /\ Len(H[k - 1]) + 2 \in 1..Len(E)
          /\ d + Len(H[k]) = n + 2
      <4>1. d + Len(H[k]) <= size /\ d \in Nat /\ size \in Nat
        OBVIOUS
      <4>2. Len(H[k]) = Len(H[k - 1]) + 2
        BY <3>1
      <4> QED
        BY ONLY <2>1, <4>1, <4>2, <1>3
    <3>3. g[n] = P[k - 1]
      BY <1>8, <3>2
    <3>4. src[n + 1] = c.esc /\ src[n + 2] = bytes[k] - 1
      BY <1>4, <3>1, <3>2
    <3>5. g[n + 2] = P[k]
      BY <1>6, <2>1, <2>3, <3>2, <3>3, <3>4
    <3> QED
      BY <3>2, <3>5
  <2> QED
    BY <2>2, <2>3
<1> HIDE DEF Good
<1>9. \A k \in 0..len : k \in Good
  BY <1>1, <1>7, <1>8, FrameInduction
<1> QED
  BY <1>9 DEF Good, H, len, FrameReaches

(* A message with its checksum, and what of it is stuffed.                 *)
FrameWhole(c, message) == Append(message, FrameChecksum(c, message))
FrameBody(c, message) == Append(Tail(message), FrameChecksum(c, message))

(* The decoder between two bytes of a message.                             *)
FramePlain(c, message, k) ==
  [hr |-> IF k = Len(message) THEN "S_OK" ELSE "S_FALSE",
   dest |-> SubSeq(FrameWhole(c, message), 1, k + 1), escape |-> FALSE,
   used |-> 1 + Len(FrameStuffs(c, FrameBody(c, message))[k])]

(* The body is the message without its first byte.                         *)
LEMMA FrameBodyIs ==
  ASSUME NEW c, FrameIsCodec(c), NEW message, FrameIsMessage(c, message)
  PROVE  /\ FrameWhole(c, message) \in Seq(FrameBytes) /\ FrameBody(c, message) \in Seq(FrameBytes)
         /\ Len(message) \in Nat \ {0} /\ Len(FrameBody(c, message)) = Len(message)
         /\ Len(FrameWhole(c, message)) = Len(message) + 1
         /\ FrameWhole(c, message)[1] = c.sync
         /\ \A k \in 1..Len(message) : FrameWhole(c, message)[k] = message[k]
         /\ FrameWhole(c, message)[Len(message) + 1] = FrameChecksum(c, message)
         /\ \A k \in 1..Len(message) : FrameBody(c, message)[k] = FrameWhole(c, message)[k + 1]
<1> DEFINE sum == FrameChecksum(c, message)  len == Len(message)
<1>1. message \in Seq(FrameBytes) /\ message # <<>> /\ message[1] = c.sync
  BY DEF FrameIsMessage
<1>2. len \in Nat \ {0}
  BY <1>1, LenProperties, EmptySeq
<1>3. Tail(message) \in Seq(FrameBytes) /\ Len(Tail(message)) = len - 1
      /\ \A i \in 1..Len(Tail(message)) : Tail(message)[i] = message[i + 1]
  BY <1>1, HeadTailProperties
<1>4. \A bytes \in Seq(FrameBytes) : FrameSum(bytes) \in FrameBytes
  <2> SUFFICES ASSUME NEW bytes \in Seq(FrameBytes) PROVE FrameSum(bytes) \in FrameBytes
    OBVIOUS
  <2>1. Len(bytes) \in Nat
    BY LenProperties
  <2>2. Len(bytes) \in 0..Len(bytes)
    BY <2>1
  <2> QED
    BY <2>2, FrameSumsAre DEF FrameSum
<1>5. sum \in FrameBytes
  <2>1. FrameSum(message) \in FrameBytes /\ FrameSum(Tail(message)) \in FrameBytes
    BY <1>1, <1>3, <1>4
  <2>2. FrameByte(-FrameSum(message)) \in FrameBytes
    BY <2>1, FrameAssumption DEF FrameAssumption, FrameByte, FrameBytes
  <2> QED
    BY <2>1, <2>2 DEF FrameChecksum
<1> HIDE DEF sum
<1>6. /\ Append(message, sum) \in Seq(FrameBytes) /\ Len(Append(message, sum)) = len + 1
      /\ \A k \in 1..len : Append(message, sum)[k] = message[k]
      /\ Append(message, sum)[len + 1] = sum
  BY <1>1, <1>5, AppendProperties
<1>7. /\ Append(Tail(message), sum) \in Seq(FrameBytes)
      /\ Len(Append(Tail(message), sum)) = len
      /\ \A k \in 1..len - 1 : Append(Tail(message), sum)[k] = message[k + 1]
      /\ Append(Tail(message), sum)[len] = sum
  BY <1>2, <1>3, <1>5, AppendProperties
<1> HIDE DEF len
<1>8. ASSUME NEW k \in 1..len
      PROVE  Append(Tail(message), sum)[k] = Append(message, sum)[k + 1]
  <2>1. CASE k = len
    BY <2>1, <1>6, <1>7
  <2>2. CASE k # len
    <3>1. k \in 1..len - 1 /\ k + 1 \in 1..len
      BY <2>2, <1>2
    <3> QED
      BY <3>1, <1>6, <1>7
  <2> QED
    BY <2>1, <2>2
<1>9. 1 \in 1..len
  BY <1>2
<1>10. FrameWhole(c, message) = Append(message, sum)
       /\ FrameBody(c, message) = Append(Tail(message), sum)
  BY DEF FrameWhole, FrameBody, sum
<1> QED
  BY <1>1, <1>2, <1>6, <1>7, <1>8, <1>9, <1>10 DEF len, sum

(* A message is accepted with its checksum, and not before.                *)
LEMMA FrameAccepts ==
  ASSUME NEW c, FrameIsCodec(c), NEW message, FrameIsMessage(c, message),
         NEW n \in 1..Len(message) + 1
  PROVE  slider_frame_accept(c, SubSeq(FrameWhole(c, message), 1, n)) =
           (IF n = Len(message) + 1 THEN "S_OK" ELSE "S_FALSE")
<1> DEFINE W == FrameWhole(c, message)  len == Len(message)  dest == SubSeq(W, 1, n)
<1>1. /\ W \in Seq(FrameBytes) /\ len \in Nat \ {0} /\ Len(W) = len + 1
      /\ \A k \in 1..len : W[k] = message[k]
      /\ W[len + 1] = FrameChecksum(c, message)
  BY FrameBodyIs
<1>2. /\ message \in Seq(FrameBytes) /\ c.size \in 1..len /\ c.overhead \in Int
      /\ message[c.size] + c.overhead = len + 1
  BY DEF FrameIsMessage
<1> HIDE DEF W
<1>3. n \in 1..len + 1
  OBVIOUS
<1> HIDE DEF len
<1>4. \A i \in 1..n : W[i] \in FrameBytes
  BY <1>1, <1>3, ElementOfSeq
<1>5. /\ dest \in Seq(FrameBytes) /\ Len(dest) = n
      /\ \A i \in 1..n : dest[i] = W[i]
  <2>1. 1 \in Int /\ n \in Int /\ 1 <= n /\ n - 1 + 1 = n /\ \A i \in 1..n : 1 + i - 1 = i
    BY <1>1, <1>3
  <2> QED
    BY <1>4, <2>1, SubSeqProperties
<1> HIDE DEF dest
<1>6. CASE n < c.size
  <2>1. slider_frame_accept(c, dest) = "S_FALSE"
    BY <1>5, <1>6 DEF slider_frame_accept
  <2>2. n # len + 1
    BY <1>1, <1>2, <1>3, <1>6
  <2> QED
    BY <2>1, <2>2 DEF dest, W, len
<1>7. CASE ~(n < c.size)
  <2>1. c.size \in 1..n
    BY <1>1, <1>2, <1>3, <1>7
  <2>2. dest[c.size] + c.overhead = len + 1
    BY <1>1, <1>2, <1>5, <2>1
  <2>3. CASE n # len + 1
    <3>1. slider_frame_accept(c, dest) = "S_FALSE"
      BY <1>5, <2>2, <2>3 DEF slider_frame_accept
    <3> QED
      BY <3>1, <2>3 DEF dest, W, len
  <2>4. CASE n = len + 1
    <3>1. SubSeq(dest, 1, n - 1) = message
      <4>1. \A i \in 1..n - 1 : i \in 1..n /\ i \in 1..len /\ 1 + i - 1 = i
        BY <2>4, <1>1
      <4>2. \A i \in 1..n - 1 : dest[i] = message[i] /\ dest[i] \in FrameBytes
        BY <4>1, <1>1, <1>4, <1>5
      <4>3. 1 \in Int /\ n - 1 \in Int /\ 1 <= n - 1 /\ n - 1 - 1 + 1 = len
        BY <1>1, <2>4
      <4>4. /\ SubSeq(dest, 1, n - 1) \in Seq(FrameBytes) /\ Len(SubSeq(dest, 1, n - 1)) = len
            /\ \A i \in 1..len : SubSeq(dest, 1, n - 1)[i] = dest[1 + i - 1]
        BY <4>2, <4>3, SubSeqProperties
      <4>5. n - 1 = len
        BY <1>1, <2>4
      <4>6. \A i \in 1..len : SubSeq(dest, 1, n - 1)[i] = message[i]
        BY <4>1, <4>2, <4>4, <4>5
      <4> QED
        BY <1>2, <4>4, <4>6, SeqEqual DEF len
    <3>2. dest[n] = FrameChecksum(c, message)
      BY <1>1, <1>3, <1>5, <2>4
    <3>3. slider_frame_accept(c, dest) = "S_OK"
      BY <1>5, <1>7, <2>2, <2>4, <3>1, <3>2 DEF slider_frame_accept
    <3> QED
      BY <3>3, <2>4 DEF dest, W, len
  <2> QED
    BY <2>3, <2>4
<1> QED
  BY <1>6, <1>7

(* A byte that is not reserved is put behind the others.                   *)
LEMMA FrameStepTakes ==
  ASSUME NEW c, NEW d \in FrameDecoder, NEW byte \in FrameBytes, d.hr = "S_FALSE",
         c.sync # c.esc, d.used > 0, byte \notin {c.sync, c.esc},
         NEW b, b = (IF d.escape THEN FrameByte(byte + 1) ELSE byte)
  PROVE  FrameStep(c, d, byte) =
           [hr |-> slider_frame_accept(c, Append(d.dest, b)), dest |-> Append(d.dest, b),
            escape |-> FALSE, used |-> d.used + 1]
  BY FrameStepIs

(* What the decoder has of the message grows by its next byte.             *)
LEMMA FrameGrows ==
  ASSUME NEW c, FrameIsCodec(c), NEW message, FrameIsMessage(c, message),
         NEW k \in 1..Len(message)
  PROVE  LET byte == FrameBody(c, message)[k]
             dest == SubSeq(FrameWhole(c, message), 1, k)
             H == FrameStuffs(c, FrameBody(c, message))
         IN  /\ byte \in FrameBytes /\ dest \in Seq(FrameBytes)
             /\ slider_frame_accept(c, Append(dest, byte)) =
                  (IF k = Len(message) THEN "S_OK" ELSE "S_FALSE")
             /\ Len(H[k - 1]) \in Nat
             /\ FramePlain(c, message, k - 1) =
                  [hr |-> "S_FALSE", dest |-> dest, escape |-> FALSE, used |-> 1 + Len(H[k - 1])]
             /\ FramePlain(c, message, k) =
                  [hr |-> IF k = Len(message) THEN "S_OK" ELSE "S_FALSE",
                   dest |-> Append(dest, byte), escape |-> FALSE, used |-> 1 + Len(H[k])]
<1> DEFINE W == FrameWhole(c, message)  len == Len(message)  byte == FrameBody(c, message)[k]
           H == FrameStuffs(c, FrameBody(c, message))  dest == SubSeq(W, 1, k)
<1>1. /\ W \in Seq(FrameBytes) /\ len \in Nat \ {0} /\ Len(W) = len + 1
      /\ FrameBody(c, message) \in Seq(FrameBytes) /\ Len(FrameBody(c, message)) = len
      /\ byte = W[k + 1]
  BY FrameBodyIs
<1>2. /\ k - 1 \in 0..len /\ k - 1 # len /\ k - 1 + 1 = k /\ k + 1 \in 1..len + 1
      /\ k + 1 = len + 1 <=> k = len
      /\ k \in 1..len
  BY <1>1
<1>3. byte \in FrameBytes
  BY <1>1, <1>2, ElementOfSeq
<1>4. Len(H[k - 1]) \in Nat
  BY <1>1, <1>2, FrameStuffPlaces
<1>5. slider_frame_accept(c, SubSeq(W, 1, k + 1)) = (IF k + 1 = len + 1 THEN "S_OK" ELSE "S_FALSE")
  BY <1>2, FrameAccepts
<1>6. Append(dest, byte) = SubSeq(W, 1, k + 1) /\ dest \in Seq(FrameBytes)
  <2>1. \A i \in 1..k : W[i] \in FrameBytes
    BY <1>1, <1>2, ElementOfSeq
  <2>2. dest \in Seq(FrameBytes)
    BY <2>1, <1>2, SubSeqProperties
  <2>3. 1 \in 1..Len(W) /\ k + 1 \in 1..Len(W) /\ k + 1 - 1 = k
    BY <1>1, <1>2
  <2>4. SubSeq(W, 1, k + 1) = SubSeq(W, 1, k) \o <<W[k + 1]>>
    BY <1>1, <2>3, SubSeqRecursiveSecond
  <2>5. Append(dest, byte) = dest \o <<byte>>
    BY <1>3, <2>2, AppendIsConcat
  <2> QED
    BY <1>1, <2>2, <2>4, <2>5
<1>7. slider_frame_accept(c, Append(dest, byte)) = (IF k = len THEN "S_OK" ELSE "S_FALSE")
  BY <1>2, <1>5, <1>6
<1>8. FramePlain(c, message, k - 1) =
        [hr |-> "S_FALSE", dest |-> dest, escape |-> FALSE, used |-> 1 + Len(H[k - 1])]
  BY <1>2 DEF FramePlain
<1>9. FramePlain(c, message, k) =
        [hr |-> IF k = len THEN "S_OK" ELSE "S_FALSE", dest |-> Append(dest, byte),
         escape |-> FALSE, used |-> 1 + Len(H[k])]
  BY <1>6 DEF FramePlain
<1> QED
  BY <1>3, <1>4, <1>6, <1>7, <1>8, <1>9

(* From one byte of the message to the next, if it is not reserved.        *)
LEMMA FrameTakesOne ==
  ASSUME NEW c, FrameIsCodec(c), NEW message, FrameIsMessage(c, message),
         NEW k \in 1..Len(message), FrameBody(c, message)[k] \notin {c.sync, c.esc},
         NEW d, d = FramePlain(c, message, k - 1)
  PROVE  FrameStep(c, d, FrameBody(c, message)[k]) = FramePlain(c, message, k)
<1> DEFINE byte == FrameBody(c, message)[k]  H == FrameStuffs(c, FrameBody(c, message))
           dest == SubSeq(FrameWhole(c, message), 1, k)  all == k = Len(message)
           hr == IF all THEN "S_OK" ELSE "S_FALSE"
<1>1. /\ byte \in FrameBytes /\ dest \in Seq(FrameBytes) /\ Len(H[k - 1]) \in Nat
      /\ slider_frame_accept(c, Append(dest, byte)) = hr
      /\ d = [hr |-> "S_FALSE", dest |-> dest, escape |-> FALSE, used |-> 1 + Len(H[k - 1])]
      /\ FramePlain(c, message, k) =
           [hr |-> hr, dest |-> Append(dest, byte), escape |-> FALSE, used |-> 1 + Len(H[k])]
  BY FrameGrows
<1>2. byte \notin {c.sync, c.esc} /\ c.sync # c.esc
  BY DEF FrameIsCodec
<1>3. Len(H[k]) = Len(H[k - 1]) + 1
  BY <1>2, FrameBodyIs, FrameStuffPlaces
<1> HIDE DEF byte, H, dest, hr
<1>4. d \in FrameDecoder /\ d.hr = "S_FALSE" /\ d.used = 1 + Len(H[k - 1]) /\ d.escape = FALSE
      /\ d.dest = dest
  BY ONLY <1>1 DEF FrameDecoder
<1>5. d.used > 0 /\ d.used + 1 = 1 + Len(H[k])
  BY ONLY <1>1, <1>3, <1>4
<1>6. FrameStep(c, d, byte) =
        [hr |-> slider_frame_accept(c, Append(d.dest, byte)), dest |-> Append(d.dest, byte),
         escape |-> FALSE, used |-> d.used + 1]
  BY <1>1, <1>2, <1>4, <1>5, FrameStepIs
<1> QED
  BY ONLY <1>1, <1>4, <1>5, <1>6 DEF byte

(* And in two steps, if it is.                                             *)
LEMMA FrameTakesTwo ==
  ASSUME NEW c, FrameIsCodec(c), NEW message, FrameIsMessage(c, message),
         NEW k \in 1..Len(message), FrameBody(c, message)[k] \in {c.sync, c.esc},
         NEW d, d = FramePlain(c, message, k - 1), NEW e, e = FrameStep(c, d, c.esc)
  PROVE  /\ e.hr = "S_FALSE"
         /\ FrameStep(c, e, FrameBody(c, message)[k] - 1) = FramePlain(c, message, k)
<1> DEFINE byte == FrameBody(c, message)[k]  H == FrameStuffs(c, FrameBody(c, message))
           dest == SubSeq(FrameWhole(c, message), 1, k)  all == k = Len(message)
           hr == IF all THEN "S_OK" ELSE "S_FALSE"  low == byte - 1
<1>1. /\ byte \in FrameBytes /\ dest \in Seq(FrameBytes) /\ Len(H[k - 1]) \in Nat
      /\ slider_frame_accept(c, Append(dest, byte)) = hr
      /\ d = [hr |-> "S_FALSE", dest |-> dest, escape |-> FALSE, used |-> 1 + Len(H[k - 1])]
      /\ FramePlain(c, message, k) =
           [hr |-> hr, dest |-> Append(dest, byte), escape |-> FALSE, used |-> 1 + Len(H[k])]
  BY FrameGrows
<1>2. byte \in {c.sync, c.esc} /\ c.sync # c.esc
  BY DEF FrameIsCodec
<1>3. Len(H[k]) = Len(H[k - 1]) + 2
  BY <1>2, FrameBodyIs, FrameStuffPlaces
<1>4. /\ c.esc \in FrameBytes /\ low \in FrameBytes /\ low # c.sync /\ low # c.esc
      /\ FrameByte(low + 1) = byte
  BY <1>1, <1>2, FrameStuffIs
<1> HIDE DEF byte, H, dest, hr, low
<1>5. d \in FrameDecoder /\ d.hr = "S_FALSE" /\ d.used = 1 + Len(H[k - 1]) /\ d.escape = FALSE
      /\ d.dest = dest
  BY ONLY <1>1 DEF FrameDecoder
<1>6. d.used > 0
  BY ONLY <1>1, <1>5
<1>7. e = [hr |-> IF d.escape THEN "E_FAIL" ELSE d.hr, dest |-> d.dest, escape |-> TRUE,
           used |-> d.used + 1]
  BY <1>2, <1>4, <1>5, <1>6, FrameStepIs
<1>8. e = [hr |-> "S_FALSE", dest |-> dest, escape |-> TRUE, used |-> 1 + Len(H[k - 1]) + 1]
  BY ONLY <1>5, <1>7
<1>9. e \in FrameDecoder /\ e.hr = "S_FALSE" /\ e.used = 1 + Len(H[k - 1]) + 1 /\ e.escape
      /\ e.dest = dest
  BY ONLY <1>1, <1>8 DEF FrameDecoder
<1>10. e.used > 0 /\ e.used + 1 = 1 + Len(H[k])
  BY ONLY <1>1, <1>3, <1>9
<1>11. FrameStep(c, e, low) =
         [hr |-> slider_frame_accept(c, Append(e.dest, byte)), dest |-> Append(e.dest, byte),
          escape |-> FALSE, used |-> e.used + 1]
  <2>1. byte = (IF e.escape THEN FrameByte(low + 1) ELSE low)
    BY ONLY <1>4, <1>9
  <2>2. low \notin {c.sync, c.esc}
    BY <1>4
  <2> QED
    BY ONLY <1>2, <1>4, <1>9, <1>10, <2>1, <2>2, FrameStepTakes
<1>12. FrameStep(c, e, low) =
         [hr |-> hr, dest |-> Append(dest, byte), escape |-> FALSE, used |-> 1 + Len(H[k])]
  BY ONLY <1>1, <1>9, <1>10, <1>11
<1> QED
  BY <1>1, <1>9, <1>12 DEF byte, low

(* slider_frame_encode: the sync byte, and behind it the body.             *)
LEMMA FrameEncodeIs ==
  ASSUME NEW c, FrameIsCodec(c), NEW message, FrameIsMessage(c, message)
  PROVE  LET E == slider_frame_encode(c, message)
             S == FrameStuffed(c, FrameBody(c, message))
         IN  /\ E \in Seq(FrameBytes) /\ Len(S) \in Nat /\ Len(E) = 1 + Len(S) /\ E[1] = c.sync
             /\ \A i \in 1..Len(S) : E[1 + i] = S[i]
<1> DEFINE S == FrameStuffed(c, FrameBody(c, message))  one == <<c.sync>>
<1>1. S \in Seq(FrameBytes)
  BY FrameBodyIs, FrameStuffPlaces
<1>2. c.sync \in FrameBytes
  BY FrameAssumption DEF FrameAssumption, FrameIsCodec, FrameBytes
<1>3. one \in Seq(FrameBytes) /\ Len(one) = 1 /\ one[1] = c.sync
  BY <1>2
<1>4. slider_frame_encode(c, message) = one \o S
  BY DEF slider_frame_encode, FrameBody
<1> HIDE DEF S, one
<1>5. Len(S) \in Nat
  BY <1>1, LenProperties
<1>10. /\ one \o S \in Seq(FrameBytes) /\ Len(one \o S) = Len(one) + Len(S)
       /\ \A i \in 1..Len(one) + Len(S) :
            (one \o S)[i] = IF i <= Len(one) THEN one[i] ELSE S[i - Len(one)]
  BY <1>1, <1>3, ConcatProperties
<1>6. /\ one \o S \in Seq(FrameBytes) /\ Len(one \o S) = 1 + Len(S)
      /\ \A i \in 1..1 + Len(S) : (one \o S)[i] = IF i <= 1 THEN one[i] ELSE S[i - 1]
  BY ONLY <1>3, <1>10
<1>7. 1 \in 1..1 + Len(S)
      /\ \A i \in 1..Len(S) : 1 + i \in 1..1 + Len(S) /\ ~(1 + i <= 1) /\ 1 + i - 1 = i
  BY <1>5
<1>8. (one \o S)[1] = c.sync
  BY <1>3, <1>6, <1>7
<1>9. \A i \in 1..Len(S) : (one \o S)[1 + i] = S[i]
  BY <1>6, <1>7
<1> QED
  BY <1>4, <1>5, <1>6, <1>8, <1>9 DEF S

(* slider_frame_decode takes a message from its frame, and of less than    *)
(* all of it nothing.                                                      *)
LEMMA FrameTakes ==
  ASSUME NEW c, FrameIsCodec(c), NEW message, FrameIsMessage(c, message),
         NEW src \in Seq(FrameBytes), Len(src) \in 1..Len(slider_frame_encode(c, message)),
         \A i \in 1..Len(src) : src[i] = slider_frame_encode(c, message)[i]
  PROVE  LET d == FrameSteps(c, src)[Len(src)]
         IN  /\ Len(src) = Len(slider_frame_encode(c, message)) =>
                  d.hr = "S_OK" /\ d.dest = FrameWhole(c, message) /\ d.used = Len(src)
             /\ Len(src) # Len(slider_frame_encode(c, message)) => d.hr = "S_FALSE"
<1> DEFINE E == slider_frame_encode(c, message)  Y == FrameBody(c, message)
           S == FrameStuffed(c, Y)  H == FrameStuffs(c, Y)  g == FrameSteps(c, src)
           size == Len(src)  len == Len(message)  P == [k \in 0..len |-> FramePlain(c, message, k)]
           at(k) == 1 + Len(H[k])
<1>1. /\ E \in Seq(FrameBytes) /\ Len(S) \in Nat /\ Len(E) = 1 + Len(S) /\ E[1] = c.sync
      /\ \A i \in 1..Len(S) : E[1 + i] = S[i]
  BY FrameEncodeIs
<1>2. /\ Y \in Seq(FrameBytes) /\ len \in Nat \ {0} /\ Len(Y) = len
      /\ FrameWhole(c, message) \in Seq(FrameBytes) /\ Len(FrameWhole(c, message)) = len + 1
      /\ FrameWhole(c, message)[1] = c.sync
  BY FrameBodyIs
<1>3. /\ Len(H[0]) = 0 /\ H[len] = S /\ \A k \in 0..len : Len(H[k]) \in Nat /\ Len(H[k]) <= Len(S)
      /\ \A k \in 1..len :
           /\ Y[k] \notin {c.sync, c.esc} => Len(H[k]) = Len(H[k - 1]) + 1
           /\ Y[k] \in {c.sync, c.esc} =>
                Len(H[k]) = Len(H[k - 1]) + 2 /\ S[Len(H[k - 1]) + 1] = c.esc
  <2>1. /\ Len(H[0]) = 0 /\ H[Len(Y)] = S
        /\ \A k \in 0..Len(Y) : Len(H[k]) \in Nat /\ Len(H[k]) <= Len(S)
        /\ \A k \in 1..Len(Y) :
             /\ Y[k] \notin {c.sync, c.esc} => Len(H[k]) = Len(H[k - 1]) + 1
             /\ Y[k] \in {c.sync, c.esc} =>
                  Len(H[k]) = Len(H[k - 1]) + 2 /\ S[Len(H[k - 1]) + 1] = c.esc
    <3> HIDE DEF Y
    <3> QED
      BY <1>2, FrameStuffPlaces
  <2>2. Len(Y) = len
    BY <1>2
  <2> HIDE DEF H, S, Y, len
  <2> QED
    BY ONLY <2>1, <2>2
<1>4. size \in 1..1 + Len(S) /\ size \in Nat
  BY <1>1
<1>5. \A n \in 1..size : n \in 0..size /\ n - 1 \in 0..size /\ n # 0 /\ src[n] \in FrameBytes
  BY <1>4, ElementOfSeq
<1>6. \A n \in 0..size : /\ g[n] = (IF n = 0 THEN FrameFresh ELSE FrameStep(c, g[n - 1], src[n]))
                         /\ g[n] \in FrameDecoder
  BY FrameStepsAre
<1>7. \A n \in 1..size : g[n] = FrameStep(c, g[n - 1], src[n]) /\ g[n - 1] \in FrameDecoder
  BY <1>5, <1>6
<1>8. \A i \in 1..size : src[i] = E[i]
  OBVIOUS
<1>9. \A k \in 0..len : P[k] = FramePlain(c, message, k)
  OBVIOUS
<1> HIDE DEF E, Y, S, H, g, size, len, P
<1>10. g[1] = P[0]
  <2>1. 1 \in 1..size /\ 0 \in 0..size /\ 1 - 1 = 0 /\ 0 \in 0..len /\ 0 + 1 = 1
    BY <1>2, <1>4
  <2>2. src[1] = c.sync
    BY <1>1, <1>8, <2>1
  <2>3. g[0] = FrameFresh /\ g[1] = FrameStep(c, g[0], c.sync)
    BY <1>6, <1>7, <2>1, <2>2
  <2>4. /\ FrameFresh \in FrameDecoder /\ FrameFresh.hr = "S_FALSE" /\ FrameFresh.used = 0
        /\ FrameFresh.dest = <<>>
    BY EmptySeq DEF FrameFresh, FrameDecoder
  <2>5. c.sync # c.esc /\ c.sync \in FrameBytes
    BY FrameAssumption DEF FrameAssumption, FrameIsCodec, FrameBytes
  <2>6. FrameStep(c, FrameFresh, c.sync) =
          [hr |-> slider_frame_accept(c, Append(FrameFresh.dest, c.sync)),
           dest |-> Append(FrameFresh.dest, c.sync), escape |-> FALSE,
           used |-> FrameFresh.used + 1]
    BY <2>4, <2>5, FrameStepIs
  <2>7. Append(<<>>, c.sync) = SubSeq(FrameWhole(c, message), 1, 1)
    <3> DEFINE W == FrameWhole(c, message)
    <3>1. W[1] = c.sync
      BY <1>2
    <3>2. W \in Seq(FrameBytes) /\ 1 \in 1..Len(W) /\ 1 \in 1..1
      BY <1>2
    <3> HIDE DEF W
    <3>3. SubSeq(W, 1, 1) = <<W[1]>> \o SubSeq(W, 1 + 1, 1)
      BY <3>2, SubSeqRecursiveFirst
    <3>4. 1 + 1 \in Int /\ 1 \in Int /\ 1 < 1 + 1
      OBVIOUS
    <3>5. SubSeq(W, 1 + 1, 1) = <<>>
      BY <3>4, SubSeqEmpty, Zenon
    <3>6. <<W[1]>> \o <<>> = <<W[1]>>
      OBVIOUS
    <3>7. Append(<<>>, c.sync) = <<c.sync>>
      OBVIOUS
    <3> QED
      BY <3>1, <3>3, <3>5, <3>6, <3>7 DEF W
  <2>8. slider_frame_accept(c, SubSeq(FrameWhole(c, message), 1, 1)) = "S_FALSE"
    <3>1. 1 \in 1..Len(message) + 1 /\ 1 # Len(message) + 1
      BY <1>2 DEF len
    <3> QED
      BY <3>1, FrameAccepts
  <2>9. FrameStep(c, FrameFresh, c.sync) =
          [hr |-> "S_FALSE", dest |-> SubSeq(FrameWhole(c, message), 1, 1), escape |-> FALSE,
           used |-> 1]
    <3> DEFINE first == SubSeq(FrameWhole(c, message), 1, 1)
    <3>1. Append(FrameFresh.dest, c.sync) = first /\ FrameFresh.used + 1 = 1
      BY <2>4, <2>7
    <3>2. slider_frame_accept(c, first) = "S_FALSE"
      BY <2>8
    <3> HIDE DEF first
    <3> QED
      BY ONLY <2>6, <3>1, <3>2 DEF first
  <2>10. FramePlain(c, message, 0) =
           [hr |-> "S_FALSE", dest |-> SubSeq(FrameWhole(c, message), 1, 1), escape |-> FALSE,
            used |-> 1]
    <3>1. 0 # Len(message)
      BY <1>2 DEF len
    <3>2. 1 + Len(FrameStuffs(c, FrameBody(c, message))[0]) = 1
      BY <1>3 DEF H, Y
    <3> QED
      BY <2>1, <3>1, <3>2 DEF FramePlain
  <2> QED
    BY <1>9, <2>1, <2>3, <2>9, <2>10
<1>11. ASSUME NEW k \in 1..len, NEW n \in Nat,
              n = 1 + Len(H[k - 1]) /\ g[n] = P[k - 1],
              n + 1 <= size /\ src[n + 1] = Y[k] /\ Y[k] \notin {c.sync, c.esc}
       PROVE  g[n + 1] = P[k]
  <2>1. n + 1 \in 1..size /\ n + 1 - 1 = n /\ k - 1 \in 0..len /\ k \in 0..len
    BY <1>2, <1>4, <1>11
  <2>2. g[n + 1] = FrameStep(c, g[n], Y[k])
    BY <1>7, <1>11, <2>1
  <2>3. g[n] = FramePlain(c, message, k - 1)
    BY <1>9, <1>11, <2>1
  <2>4. FrameStep(c, g[n], Y[k]) = FramePlain(c, message, k)
    BY <1>11, <2>3, FrameTakesOne DEF Y, len
  <2> QED
    BY <1>9, <2>1, <2>2, <2>4
<1>12. ASSUME NEW k \in 1..len, NEW n \in Nat,
              n = 1 + Len(H[k - 1]) /\ g[n] = P[k - 1],
              n + 1 <= size /\ src[n + 1] = c.esc /\ Y[k] \in {c.sync, c.esc}
       PROVE  g[n + 1].hr = "S_FALSE"
              /\ (n + 2 <= size /\ src[n + 2] = Y[k] - 1 => g[n + 2] = P[k])
  <2>1. n + 1 \in 1..size /\ n + 1 - 1 = n /\ k - 1 \in 0..len /\ k \in 0..len
        /\ n + 2 - 1 = n + 1 /\ (n + 2 <= size => n + 2 \in 1..size)
    BY <1>2, <1>4, <1>12
  <2>2. g[n + 1] = FrameStep(c, g[n], c.esc)
    BY <1>7, <1>12, <2>1
  <2>3. g[n] = FramePlain(c, message, k - 1)
    BY <1>9, <1>12, <2>1
  <2>4. g[n + 1].hr = "S_FALSE" /\ FrameStep(c, g[n + 1], Y[k] - 1) = FramePlain(c, message, k)
    BY <1>12, <2>2, <2>3, FrameTakesTwo DEF Y, len
  <2>5. n + 2 <= size /\ src[n + 2] = Y[k] - 1 => g[n + 2] = FrameStep(c, g[n + 1], Y[k] - 1)
    BY <1>7, <2>1
  <2> QED
    BY <1>9, <2>1, <2>4, <2>5
<1>13. \A k \in 0..len : at(k) <= size => g[at(k)] = P[k]
  <2>1. \A i \in 1..Len(S) : 1 + i <= size => src[1 + i] = S[i]
    <3>1. \A i \in 1..Len(S) : 1 + i <= size => 1 + i \in 1..size
      BY <1>4
    <3> QED
      BY <1>1, <1>8, <3>1
  <2>2. \A k \in 1..len : \A n \in Nat :
          /\ n = 1 + Len(H[k - 1]) /\ g[n] = P[k - 1]
          /\ n + 1 <= size /\ src[n + 1] = Y[k] /\ Y[k] \notin {c.sync, c.esc}
          => g[n + 1] = P[k]
    BY <1>11
  <2>3. \A k \in 1..len : \A n \in Nat :
          /\ n = 1 + Len(H[k - 1]) /\ g[n] = P[k - 1]
          /\ n + 2 <= size /\ src[n + 1] = c.esc /\ src[n + 2] = Y[k] - 1
          /\ Y[k] \in {c.sync, c.esc}
          => g[n + 2] = P[k]
    <3>1. \A n \in Nat : n + 2 <= size => n + 1 <= size
      BY <1>4
    <3> QED
      BY <1>12, <3>1
  <2>4. 1 \in Nat /\ size \in Nat
    BY <1>4
  <2>5. Y \in Seq(FrameBytes) /\ Len(Y) = len
    BY <1>2
  <2>6. FrameReaches(c, Y, size, 1, g, P)
    <3>1. FrameIsCodec(c)
      OBVIOUS
    <3>2. FrameFollows(c, Y, size, src, 1)
      BY <2>1 DEF S, FrameFollows
    <3>3. FrameGetsOverOne(c, Y, size, src, 1, g, P)
      BY ONLY <2>2, <2>5 DEF H, FrameGetsOverOne
    <3>4. FrameGetsOverTwo(c, Y, size, src, 1, g, P)
      BY ONLY <2>3, <2>5 DEF H, FrameGetsOverTwo
    <3> QED
      BY ONLY <1>10, <2>4, <2>5, <3>1, <3>2, <3>3, <3>4, FramePasses
  <2> QED
    BY ONLY <2>5, <2>6 DEF H, FrameReaches
<1>14. CASE size = Len(E)
  <2>1. len \in 0..len /\ at(len) = size
    BY <1>1, <1>2, <1>3, <1>14
  <2>2. g[size] = FramePlain(c, message, len)
    BY <1>4, <1>9, <1>13, <2>1
  <2>3. FramePlain(c, message, len) =
          [hr |-> "S_OK", dest |-> FrameWhole(c, message), escape |-> FALSE, used |-> size]
    <3>1. SubSeq(FrameWhole(c, message), 1, len + 1) = FrameWhole(c, message)
      BY <1>2, SubSeqFull
    <3> QED
      BY <2>1, <3>1 DEF FramePlain, len, H, Y
  <2>4. g[size].hr = "S_OK" /\ g[size].dest = FrameWhole(c, message) /\ g[size].used = size
    BY <2>2, <2>3
  <2> QED
    BY <1>14, <2>4 DEF g, size, E
<1>15. CASE size # Len(E)
  <2>1. \E k \in 1..len : at(k - 1) <= size /\ ~(at(k) <= size)
    <3> SUFFICES ASSUME \A k \in 1..len : at(k - 1) <= size => at(k) <= size PROVE FALSE
      OBVIOUS
    <3> DEFINE Good == {k \in 0..len : at(k) <= size}
    <3>1. 0 \in Good
      BY <1>2, <1>3, <1>4
    <3>2. \A k \in 1..len : k - 1 \in Good => k \in Good
      BY <1>2
    <3> HIDE DEF Good
    <3>3. len \in 0..len
      BY <1>2
    <3>4. len \in Good
      BY <1>2, <3>1, <3>2, <3>3, FrameInduction
    <3>5. 1 + Len(S) <= size
      BY <1>3, <3>4 DEF Good
    <3> QED
      BY <1>1, <1>4, <1>15, <3>5
  <2>2. PICK k \in 1..len : at(k - 1) <= size /\ ~(at(k) <= size)
    BY <2>1
  <2> DEFINE n == at(k - 1)
  <2>3. k - 1 \in 0..len /\ k \in 0..len /\ k - 1 # len
    BY <1>2
  <2>4. Len(H[k - 1]) \in Nat /\ Len(H[k - 1]) <= Len(S)
    BY <1>3, <2>3
  <2>5. n \in Nat /\ n <= size /\ n = 1 + Len(H[k - 1])
    BY <2>2, <2>4
  <2>6. g[n] = P[k - 1] /\ g[n] = FramePlain(c, message, k - 1)
    BY <1>9, <1>13, <2>2, <2>3
  <2>7. FramePlain(c, message, k - 1).hr = "S_FALSE"
    BY <2>3 DEF FramePlain, len
  <2> HIDE DEF n
  <2>8. CASE size = n
    BY <1>15, <2>6, <2>7, <2>8 DEF g, size, E
  <2>9. CASE size # n
    <3>1. Y[k] \in {c.sync, c.esc}
      <4> SUFFICES ASSUME Y[k] \notin {c.sync, c.esc} PROVE FALSE
        OBVIOUS
      <4>1. Len(H[k]) = Len(H[k - 1]) + 1
        BY <1>3
      <4>2. ~(1 + Len(H[k]) <= size)
        BY <2>2
      <4> QED
        BY <1>4, <2>4, <2>5, <2>9, <4>1, <4>2
    <3>2. Len(H[k]) = Len(H[k - 1]) + 2 /\ S[Len(H[k - 1]) + 1] = c.esc
      BY <1>3, <3>1
    <3>3. Len(H[k]) \in Nat /\ Len(H[k]) <= Len(S) /\ ~(1 + Len(H[k]) <= size)
      BY <1>3, <2>2, <2>3
    <3>4. size = n + 1 /\ n + 1 <= size /\ n + 1 = 1 + (Len(H[k - 1]) + 1)
          /\ Len(H[k - 1]) + 1 \in 1..Len(S) /\ n + 1 \in 1..size
      <4> DEFINE a == Len(H[k - 1])  b == Len(H[k])  s == Len(S)
      <4>1. a \in Nat /\ b \in Nat /\ s \in Nat /\ b = a + 2 /\ b <= s /\ ~(1 + b <= size)
        BY <1>1, <2>4, <3>2, <3>3
      <4>2. size \in Nat /\ n \in Nat /\ n <= size /\ n = 1 + a /\ size # n
        BY <1>4, <2>5, <2>9
      <4> HIDE DEF a, b, s
      <4>3. size = n + 1 /\ n + 1 <= size /\ n + 1 = 1 + (a + 1) /\ a + 1 \in 1..s /\ n + 1 \in 1..size
        BY ONLY <4>1, <4>2
      <4> QED
        BY ONLY <4>3 DEF a, s
    <3>5. src[n + 1] = c.esc
      BY <1>1, <1>8, <3>2, <3>4
    <3>6. g[n + 1].hr = "S_FALSE"
      BY <1>12, <2>5, <2>6, <3>1, <3>4, <3>5
    <3> QED
      BY <1>15, <3>4, <3>6 DEF g, size, E
  <2> QED
    BY <2>8, <2>9
<1> QED
  BY <1>14, <1>15

(* A function on the first places is a sequence as long as there are.      *)
LEMMA FrameIsSeq ==
  ASSUME NEW S, NEW m \in Nat, NEW f \in [1..m -> S]
  PROVE  f \in Seq(S) /\ Len(f) = m
<1>1. f \in Seq(S)
  BY SeqDef
<1>2. DOMAIN f = 1..Len(f) /\ Len(f) \in Nat
  BY <1>1, LenProperties
<1>3. 1..Len(f) = 1..m
  BY <1>2
<1> DEFINE u == Len(f)
<1>4. u \in Nat /\ \A i \in Int : i \in 1..u <=> i \in 1..m
  BY <1>2, <1>3
<1> HIDE DEF u
<1>5. u = m
  <2>1. u >= 1 => u \in 1..m
    BY ONLY <1>4
  <2>2. m >= 1 => m \in 1..u
    BY ONLY <1>4, m \in Nat
  <2> QED
    BY ONLY <1>4, <2>1, <2>2, m \in Nat
<1> QED
  BY <1>1, <1>5 DEF u

(* The last byte that was appended is the one that is dropped.             *)
LEMMA FrameFront ==
  ASSUME NEW S, NEW s \in Seq(S), NEW e \in S
  PROVE  Front(Append(s, e)) = s
<1> DEFINE t == Append(s, e)  u == Len(s)
<1>1. t \in Seq(S) /\ Len(t) = u + 1 /\ u \in Nat /\ \A i \in 1..u : t[i] = s[i]
  BY AppendProperties, LenProperties
<1>2. \A i \in 1..u : s[i] \in S
  BY ElementOfSeq
<1> HIDE DEF t, u
<1>3. \A i \in 1..u : t[i] \in S /\ 1 + i - 1 = i
  BY <1>1, <1>2
<1>4. /\ SubSeq(t, 1, u) \in Seq(S)
      /\ Len(SubSeq(t, 1, u)) = (IF 1 <= u THEN u - 1 + 1 ELSE 0)
      /\ \A i \in 1..u - 1 + 1 : SubSeq(t, 1, u)[i] = t[1 + i - 1]
  BY <1>1, <1>3, SubSeqProperties
<1>5. Len(SubSeq(t, 1, u)) = u /\ u - 1 + 1 = u /\ Len(t) - 1 = u
  BY <1>1, <1>4
<1>6. \A i \in 1..u : SubSeq(t, 1, u)[i] = s[i]
  BY <1>1, <1>3, <1>4, <1>5
<1>7. SubSeq(t, 1, u) = s
  BY <1>4, <1>5, <1>6, SeqEqual DEF u
<1> QED
  BY <1>5, <1>7 DEF Front, t

(* The first n bytes are before a frame, and what is left without them.    *)
FrameBefore(c, src, n) ==
  /\ n \in 0..Len(src) /\ \A i \in 1..n : src[i] # c.sync
  /\ n = Len(src) \/ src[n + 1] = c.sync
FrameBehind(src, n) == [j \in 1..Len(src) - n |-> IF j <= n THEN src[n + j] ELSE src[j]]

(* The first byte that may be where a frame begins is the first sync byte. *)
LEMMA FrameSyncAt ==
  ASSUME NEW c, NEW src \in Seq(FrameBytes), NEW n, FrameBefore(c, src, n)
  PROVE  slider_frame_sync(c, src) = FrameBehind(src, n)
<1> DEFINE len == Len(src)  found == {i \in 1..len : src[i] = c.sync}
           first == CHOOSE j \in found : \A k \in found : j <= k
           i == IF found = {} THEN len ELSE first - 1
<1>1. /\ len \in Nat /\ n \in 0..len /\ \A k \in 1..n : src[k] # c.sync
      /\ n = len \/ src[n + 1] = c.sync
  BY LenProperties DEF FrameBefore
<1>2. i = n
  <2>1. CASE n = len
    <3>1. found = {}
      BY <1>1, <2>1
    <3> QED
      BY <2>1, <3>1
  <2>2. CASE n # len
    <3>1. n + 1 \in 1..len /\ src[n + 1] = c.sync
      BY <1>1, <2>2
    <3>2. n + 1 \in found
      BY <3>1
    <3>3. \A k \in found : k \in Int /\ ~(k \in 1..n) /\ k >= 1
      BY <1>1
    <3>4. \A k \in found : n + 1 <= k
      BY <1>1, <3>3
    <3>5. first \in found /\ \A k \in found : first <= k
      BY <3>2, <3>4
    <3> HIDE DEF found, first
    <3>6. first <= n + 1 /\ n + 1 <= first /\ first \in Int
      BY <3>2, <3>3, <3>4, <3>5
    <3>7. first - 1 = n
      BY <1>1, <3>6
    <3> QED
      BY <3>2, <3>7
  <2> QED
    BY <2>1, <2>2
<1>3. slider_frame_sync(c, src) = [j \in 1..len - i |-> IF j <= i THEN src[i + j] ELSE src[j]]
  BY DEF slider_frame_sync
<1> HIDE DEF i
<1> QED
  BY <1>2, <1>3 DEF FrameBehind

(* There is such a place.                                                  *)
LEMMA FrameSyncFinds ==
  ASSUME NEW c, NEW src \in Seq(FrameBytes)
  PROVE  \E n \in 0..Len(src) : FrameBefore(c, src, n)
<1> DEFINE len == Len(src)  Ends == {n \in 0..len : n = len \/ src[n + 1] = c.sync}
<1>1. len \in Nat
  BY LenProperties
<1>2. Ends \in SUBSET Nat /\ len \in Ends
  BY <1>1
<1>3. PICK n \in Ends : \A m \in Ends : n <= m
  BY <1>2, LeastExists
<1>4. n \in 0..len /\ (n = len \/ src[n + 1] = c.sync)
  BY <1>3
<1>5. ASSUME NEW i \in 1..n PROVE src[i] # c.sync
  <2>1. i - 1 \in 0..len /\ i - 1 + 1 = i /\ ~(n <= i - 1)
    BY <1>1, <1>4
  <2>2. i - 1 \notin Ends
    BY <1>3, <2>1
  <2> QED
    BY <2>1, <2>2
<1> QED
  BY <1>4, <1>5 DEF FrameBefore

(* What is left after the bytes before a sync byte were dropped.           *)
LEMMA FrameSyncLeaves ==
  ASSUME NEW c, NEW src \in Seq(FrameBytes)
  PROVE  slider_frame_sync(c, src) \in Seq(FrameBytes)
         /\ Len(slider_frame_sync(c, src)) <= Len(src)
<1> DEFINE len == Len(src)
<1>1. len \in Nat /\ \A i \in 1..len : src[i] \in FrameBytes
  BY LenProperties, ElementOfSeq
<1>2. PICK n \in 0..len : FrameBefore(c, src, n)
  BY FrameSyncFinds
<1> DEFINE f == FrameBehind(src, n)
<1>3. slider_frame_sync(c, src) = f
  BY <1>2, FrameSyncAt
<1>4. len - n \in Nat /\ len - n <= len /\ \A j \in 1..len - n : n + j \in 1..len /\ j \in 1..len
  BY <1>1
<1>5. f \in [1..len - n -> FrameBytes]
  BY <1>1, <1>4 DEF FrameBehind
<1> HIDE DEF f, len
<1>6. f \in Seq(FrameBytes) /\ Len(f) = len - n
  BY <1>4, <1>5, FrameIsSeq
<1> QED
  BY <1>3, <1>4, <1>6 DEF len

(* Of bytes that begin with a sync byte, none is dropped.                  *)
LEMMA FrameSyncKeeps ==
  ASSUME NEW c, NEW src \in Seq(FrameBytes), src = <<>> \/ src[1] = c.sync
  PROVE  slider_frame_sync(c, src) = src
<1> DEFINE len == Len(src)
<1>1. len \in Nat /\ DOMAIN src = 1..len /\ src \in [1..len -> FrameBytes]
  BY LenProperties
<1>2. 0 \in 0..len /\ 1..0 = {} /\ 0 + 1 = 1
  BY <1>1
<1>3. 0 = len \/ src[0 + 1] = c.sync
  BY <1>2, EmptySeq
<1>4. slider_frame_sync(c, src) = FrameBehind(src, 0)
  BY <1>2, <1>3, FrameSyncAt DEF FrameBefore
<1>5. FrameBehind(src, 0) = src
  BY <1>1 DEF FrameBehind
<1> QED
  BY <1>4, <1>5

(* A frame behind at least as many bytes as it has is all that is left.    *)
LEMMA FrameSyncBehind ==
  ASSUME NEW c, NEW src \in Seq(FrameBytes), NEW bytes \in Seq(FrameBytes),
         NEW before, before = Len(src) - Len(bytes), before >= Len(bytes),
         SubSeq(src, before + 1, Len(src)) = bytes,
         \A i \in 1..before : src[i] # c.sync, bytes # <<>>, bytes[1] = c.sync
  PROVE  slider_frame_sync(c, src) = bytes
<1> DEFINE len == Len(src)  m == Len(bytes)  f == FrameBehind(src, before)
<1>1. len \in Nat /\ m \in Nat \ {0} /\ bytes \in [1..m -> FrameBytes]
      /\ \A i \in 1..len : src[i] \in FrameBytes
  BY LenProperties, EmptySeq, ElementOfSeq
<1>2. before \in Nat /\ before \in 0..len /\ len - before = m /\ m <= before /\ before = len - m
  BY <1>1
<1> HIDE DEF len, m
<1>3. \A i \in before + 1..len : src[i] \in FrameBytes
  BY <1>1, <1>2
<1>4. before + 1 \in Int /\ len \in Int
  BY <1>1, <1>2
<1>5. \A i \in 1..len - (before + 1) + 1 :
        SubSeq(src, before + 1, len)[i] = src[before + 1 + i - 1]
  BY <1>3, <1>4, SubSeqProperties
<1>6. \A i \in 1..m : /\ i \in 1..len - (before + 1) + 1 /\ before + 1 + i - 1 = before + i
                      /\ i <= before
  BY <1>1, <1>2
<1>7. SubSeq(src, before + 1, len) = bytes
  BY DEF len
<1>8. \A i \in 1..m : bytes[i] = src[before + i]
  BY <1>5, <1>6, <1>7
<1>9. 1 \in 1..m
  BY <1>1
<1>10. src[before + 1] = c.sync
  BY <1>8, <1>9
<1>11. slider_frame_sync(c, src) = f
  BY <1>2, <1>10, FrameSyncAt DEF len, FrameBefore
<1>12. f = bytes
  BY <1>1, <1>2, <1>6, <1>8 DEF FrameBehind, len
<1> QED
  BY <1>11, <1>12

(* slider_frame_decode leaves no more bytes than there were.               *)
LEMMA FrameDecodeLeaves ==
  ASSUME NEW c, FrameIsCodec(c), NEW given \in Seq(FrameBytes)
  PROVE  LET d == slider_frame_decode(c, given)
         IN  /\ d.src \in Seq(FrameBytes) /\ Len(d.src) <= Len(given)
             /\ d.hr \in {"S_FALSE", "S_OK", "ERROR_CRC", "E_FAIL"}
             /\ Front(d.dest) \in Seq(FrameBytes)
<1> DEFINE src == slider_frame_sync(c, given)  len == Len(src)
           e == FrameSteps(c, src)[Len(src)]  rest == SubSeq(src, e.used + 1, Len(src))
           left == IF e.hr = "S_FALSE" THEN src ELSE rest
<1>1. /\ src \in Seq(FrameBytes) /\ Len(src) <= Len(given) /\ len \in Nat
      /\ Len(given) \in Nat
  BY FrameSyncLeaves, LenProperties
<1>2. e \in FrameDecoder
  <2> HIDE DEF src
  <2>1. Len(src) \in 0..Len(src)
    BY <1>1
  <2> QED
    BY <1>1, <2>1, FrameStepsAre
<1>3. slider_frame_decode(c, given) = [hr |-> e.hr, dest |-> e.dest, src |-> left]
  BY DEF slider_frame_decode
<1> HIDE DEF e, src
<1>4. e.used \in Nat /\ e.hr \in {"S_FALSE", "S_OK", "ERROR_CRC", "E_FAIL"}
  BY <1>2 DEF FrameDecoder
<1>5. rest \in Seq(FrameBytes) /\ Len(rest) <= Len(given)
  <2>1. e.used + 1 \in Int /\ len \in Int /\ \A i \in e.used + 1..len : i \in 1..len
    BY <1>1, <1>4
  <2>2. \A i \in e.used + 1..len : src[i] \in FrameBytes
    BY <1>1, <2>1, ElementOfSeq
  <2>3. rest \in Seq(FrameBytes)
        /\ Len(rest) = (IF e.used + 1 <= len THEN len - (e.used + 1) + 1 ELSE 0)
    BY <2>1, <2>2, SubSeqProperties
  <2> HIDE DEF rest
  <2>4. Len(rest) <= len
    BY <1>1, <1>4, <2>3
  <2> QED
    BY <1>1, <2>3, <2>4
<1>6. left \in Seq(FrameBytes) /\ Len(left) <= Len(given)
  BY <1>1, <1>5
<1> HIDE DEF left
<1>7. Front(e.dest) \in Seq(FrameBytes)
  <2> DEFINE dest == e.dest  n == Len(dest)
  <2>1. dest \in Seq(FrameBytes) /\ n \in Nat
    BY <1>2, LenProperties DEF FrameDecoder
  <2> HIDE DEF dest
  <2>2. n - 1 \in Int /\ \A i \in 1..n - 1 : i \in 1..n
    BY <2>1
  <2>3. \A i \in 1..n - 1 : dest[i] \in FrameBytes
    BY <2>1, <2>2, ElementOfSeq
  <2>4. SubSeq(dest, 1, n - 1) \in Seq(FrameBytes)
    BY <2>2, <2>3, SubSeqProperties
  <2> QED
    BY <2>4 DEF Front, dest
<1> QED
  BY <1>3, <1>4, <1>6, <1>7

(* Of no bytes nothing is decoded.                                         *)
LEMMA FrameDecodeNothing ==
  ASSUME NEW c, FrameIsCodec(c)
  PROVE  slider_frame_decode(c, <<>>).hr = "S_FALSE" /\ slider_frame_decode(c, <<>>).src = <<>>
<1> DEFINE none == <<>>  e == FrameSteps(c, none)[Len(none)]
           rest == SubSeq(none, e.used + 1, Len(none))
<1>1. none \in Seq(FrameBytes) /\ Len(none) = 0 /\ 0 \in 0..Len(none)
  BY EmptySeq
<1> HIDE DEF none
<1>2. FrameSteps(c, none)[0] = FrameFresh
  BY <1>1, FrameStepsAre
<1>3. e.hr = "S_FALSE"
  BY <1>1, <1>2 DEF FrameFresh
<1>4. slider_frame_sync(c, none) = none
  BY <1>1, FrameSyncKeeps DEF none
<1>5. slider_frame_decode(c, none) =
        [hr |-> e.hr, dest |-> e.dest, src |-> IF e.hr = "S_FALSE" THEN none ELSE rest]
  BY <1>4 DEF slider_frame_decode
<1> HIDE DEF e
<1>6. slider_frame_decode(c, none).hr = "S_FALSE" /\ slider_frame_decode(c, none).src = none
  BY <1>3, <1>5
<1> QED
  BY <1>6 DEF none

(* The given bytes are the first bytes of a frame.                         *)
FrameBegins(c, message, given) ==
  /\ given \in Seq(FrameBytes) /\ Len(given) <= Len(slider_frame_encode(c, message))
  /\ \A i \in 1..Len(given) : given[i] = slider_frame_encode(c, message)[i]

(* slider_frame_decode takes a whole frame, and keeps what is not yet one. *)
LEMMA FrameDecodeTakes ==
  ASSUME NEW c, FrameIsCodec(c), NEW message, FrameIsMessage(c, message),
         NEW given, FrameBegins(c, message, given)
  PROVE  LET d == slider_frame_decode(c, given)
         IN  /\ Len(given) = Len(slider_frame_encode(c, message)) =>
                  d.hr = "S_OK" /\ Front(d.dest) = message /\ d.src = <<>>
             /\ Len(given) # Len(slider_frame_encode(c, message)) =>
                  d.hr = "S_FALSE" /\ d.src = given
<1> DEFINE E == slider_frame_encode(c, message)  size == Len(E)  len == Len(given)
           e == FrameSteps(c, given)[Len(given)]
           rest == SubSeq(given, e.used + 1, Len(given))
           d == slider_frame_decode(c, given)
<1>1. E \in Seq(FrameBytes) /\ size \in Nat \ {0} /\ E[1] = c.sync
  <2>1. /\ E \in Seq(FrameBytes) /\ E[1] = c.sync
        /\ Len(E) = 1 + Len(FrameStuffed(c, FrameBody(c, message)))
        /\ Len(FrameStuffed(c, FrameBody(c, message))) \in Nat
    BY FrameEncodeIs
  <2> HIDE DEF E
  <2> QED
    BY <2>1
<1>2. /\ given \in Seq(FrameBytes) /\ len <= size /\ len \in Nat
      /\ \A i \in 1..len : given[i] = E[i]
  BY LenProperties DEF FrameBegins
<1> HIDE DEF E
<1>3. given = <<>> \/ given[1] = c.sync
  <2>1. CASE given = <<>>
    BY <2>1
  <2>2. CASE given # <<>>
    <3>1. 1 \in 1..len
      BY <1>2, <2>2, EmptySeq
    <3> QED
      BY <1>1, <1>2, <3>1
  <2> QED
    BY <2>1, <2>2
<1>4. slider_frame_sync(c, given) = given
  BY <1>2, <1>3, FrameSyncKeeps
<1>5. d = [hr |-> e.hr, dest |-> e.dest,
           src |-> IF e.hr = "S_FALSE" THEN given ELSE rest]
  BY <1>4 DEF slider_frame_decode
<1> HIDE DEF e, d
<1>6. CASE given = <<>>
  <2>1. len = 0 /\ 0 \in 0..len /\ len # size
    BY <1>1, <1>6, EmptySeq
  <2>2. FrameSteps(c, given)[0] = FrameFresh
    BY <1>2, <2>1, FrameStepsAre
  <2>3. FrameSteps(c, given)[len].hr = "S_FALSE"
    BY <2>1, <2>2 DEF FrameFresh
  <2>4. e.hr = "S_FALSE"
    BY <2>3 DEF e
  <2>5. d.hr = "S_FALSE" /\ d.src = given
    BY <1>5, <2>4
  <2> QED
    BY <2>1, <2>5 DEF d, E
<1>7. CASE given # <<>>
  <2>1. len \in 1..size
    BY <1>2, <1>7, EmptySeq
  <2>2. /\ len = size => e.hr = "S_OK" /\ e.dest = FrameWhole(c, message) /\ e.used = len
        /\ len # size => e.hr = "S_FALSE"
    BY <1>2, <2>1, FrameTakes DEF E, e
  <2>3. CASE len = size
    <3>1. e.hr = "S_OK" /\ e.dest = FrameWhole(c, message) /\ e.used = len
      BY <2>2, <2>3
    <3>2. rest = <<>>
      <4>1. len + 1 \in Int /\ len \in Int /\ len < len + 1
        BY <1>2
      <4>2. SubSeq(given, len + 1, len) = <<>>
        BY <4>1, SubSeqEmpty
      <4> QED
        BY <3>1, <4>2
    <3>3. d.hr = "S_OK" /\ d.src = <<>> /\ d.dest = FrameWhole(c, message)
      BY <1>5, <3>1, <3>2
    <3>4. Front(FrameWhole(c, message)) = message
      <4>1. message \in Seq(FrameBytes)
        BY DEF FrameIsMessage
      <4>2. FrameWhole(c, message) \in Seq(FrameBytes) /\ Len(message) + 1 \in 1..Len(FrameWhole(c, message))
            /\ FrameWhole(c, message)[Len(message) + 1] = FrameChecksum(c, message)
        BY FrameBodyIs
      <4>3. FrameChecksum(c, message) \in FrameBytes
        BY <4>2, ElementOfSeq
      <4> QED
        BY <4>1, <4>3, FrameFront DEF FrameWhole
    <3> QED
      BY <2>3, <3>3, <3>4 DEF d, E
  <2>4. CASE len # size
    <3>1. d.hr = "S_FALSE" /\ d.src = given
      BY <1>5, <2>2, <2>4
    <3> QED
      BY <2>4, <3>1 DEF d, E
  <2> QED
    BY <2>3, <2>4
<1> QED
  BY <1>6, <1>7

(* What was unstuffed, between two bytes of what is stuffed.               *)
FrameClean(bytes) == [bytes |-> bytes, escape |-> FALSE, bad |-> FALSE]

(* sg_frame_decode and jvs_frame_decode take what FrameStuff gives.        *)
LEMMA FrameUnstuffTakes ==
  ASSUME NEW dest \in Seq(FrameBytes), NEW byte \in FrameBytes
  PROVE  /\ byte \notin {FrameSg.sync, FrameSg.esc} =>
              /\ FrameUnstuff(FrameClean(dest), byte) = FrameClean(Append(dest, byte))
              /\ FrameJvsStep(FrameClean(dest), byte) = FrameClean(Append(dest, byte))
         /\ byte \in {FrameSg.sync, FrameSg.esc} =>
              \A d \in {FrameUnstuff(FrameClean(dest), FrameSg.esc),
                        FrameJvsStep(FrameClean(dest), FrameSg.esc)} :
                /\ FrameUnstuff(d, byte - 1) = FrameClean(Append(dest, byte))
                /\ FrameJvsStep(d, byte - 1) = FrameClean(Append(dest, byte))
<1> DEFINE clean == FrameClean(dest)  more == Append(dest, byte)
<1>1. FrameIsCodec(FrameSg)
  BY FrameAssumption DEF FrameAssumption
<1>2. /\ FrameSg.esc # FrameSg.sync
      /\ byte \in {FrameSg.sync, FrameSg.esc} =>
           byte - 1 \notin {FrameSg.sync, FrameSg.esc} /\ FrameByte(byte - 1 + 1) = byte
  BY <1>1, FrameStuffIs
<1>3. /\ clean.bytes = dest /\ clean.escape = FALSE /\ clean.bad = FALSE
      /\ clean = [bytes |-> dest, escape |-> FALSE, bad |-> FALSE]
  BY DEF FrameClean
<1>4. FrameClean(more) = [bytes |-> more, escape |-> FALSE, bad |-> FALSE]
  BY DEF FrameClean
<1> HIDE DEF clean, more
<1>5. CASE byte \notin {FrameSg.sync, FrameSg.esc}
  <2>1. FrameUnstuff(clean, byte) = [clean EXCEPT !.bytes = Append(@, byte), !.bad = @ \/ FALSE]
    BY <1>3, <1>5 DEF FrameUnstuff
  <2>2. FrameJvsStep(clean, byte) = [clean EXCEPT !.bytes = Append(@, byte), !.escape = FALSE]
    BY <1>3, <1>5 DEF FrameJvsStep
  <2>3. FrameUnstuff(clean, byte) = FrameClean(more)
    BY <1>3, <1>4, <2>1 DEF more
  <2>4. FrameJvsStep(clean, byte) = FrameClean(more)
    BY <1>3, <1>4, <2>2 DEF more
  <2> QED
    BY <1>5, <2>3, <2>4 DEF clean, more
<1>6. CASE byte \in {FrameSg.sync, FrameSg.esc}
  <2> DEFINE open == [bytes |-> dest, escape |-> TRUE, bad |-> FALSE]
  <2>1. FrameUnstuff(clean, FrameSg.esc) = [clean EXCEPT !.escape = TRUE]
    BY <1>3 DEF FrameUnstuff
  <2>2. FrameJvsStep(clean, FrameSg.esc) = [clean EXCEPT !.bad = FALSE, !.escape = TRUE]
    BY <1>2, <1>3 DEF FrameJvsStep
  <2>3. FrameUnstuff(clean, FrameSg.esc) = open /\ FrameJvsStep(clean, FrameSg.esc) = open
    BY <1>3, <2>1, <2>2
  <2>4. open.bytes = dest /\ open.escape = TRUE /\ open.bad = FALSE
    OBVIOUS
  <2>5. ASSUME NEW r, r = [open EXCEPT !.bytes = more, !.escape = FALSE]
        PROVE  r = FrameClean(more)
    <3>1. r = [bytes |-> more, escape |-> FALSE, bad |-> FALSE]
      BY ONLY <2>5
    <3> QED
      BY <1>4, <3>1
  <2> HIDE DEF open
  <2>6. byte - 1 \notin {FrameSg.sync, FrameSg.esc} /\ FrameByte(byte - 1 + 1) = byte
    BY <1>2, <1>6
  <2>7. FrameUnstuff(open, byte - 1) = [open EXCEPT !.bytes = more, !.escape = FALSE]
    BY <2>4, <2>6 DEF FrameUnstuff, more
  <2>8. FrameJvsStep(open, byte - 1) = [open EXCEPT !.bytes = more, !.escape = FALSE]
    BY <2>4, <2>6 DEF FrameJvsStep, more
  <2>9. FrameUnstuff(open, byte - 1) = FrameClean(more)
        /\ FrameJvsStep(open, byte - 1) = FrameClean(more)
    BY <2>5, <2>7, <2>8
  <2> QED
    BY <1>6, <2>3, <2>9 DEF clean, more
<1> QED
  BY <1>5, <1>6

(* One of the two decoders goes over bytes.                                *)
FrameUnstuffing(src, g) ==
  /\ g[0] = FrameUnstuffed
  /\ \A n \in 1..Len(src) : \/ g[n] = FrameUnstuff(g[n - 1], src[n])
                            \/ g[n] = FrameJvsStep(g[n - 1], src[n])

(* Either gets back what was stuffed.                                      *)
LEMMA FrameUnstuffsAll ==
  ASSUME NEW bytes \in Seq(FrameBytes), NEW g,
         FrameUnstuffing(FrameStuffed(FrameSg, bytes), g)
  PROVE  g[Len(FrameStuffed(FrameSg, bytes))] = FrameClean(bytes)
<1> DEFINE S == FrameStuffed(FrameSg, bytes)  H == FrameStuffs(FrameSg, bytes)
           size == Len(S)  len == Len(bytes)
           P == [k \in 0..len |-> FrameClean(SubSeq(bytes, 1, k))]
<1>1. FrameIsCodec(FrameSg)
  BY FrameAssumption DEF FrameAssumption
<1>2. /\ S \in Seq(FrameBytes) /\ Len(H[0]) = 0 /\ H[len] = S
      /\ \A k \in 0..len : Len(H[k]) \in Nat /\ Len(H[k]) <= Len(S)
  BY <1>1, FrameStuffPlaces
<1>3. len \in Nat /\ size \in Nat /\ \A k \in 1..len : bytes[k] \in FrameBytes
  BY <1>2, LenProperties, ElementOfSeq
<1>4. \A k \in 0..len : P[k] = FrameClean(SubSeq(bytes, 1, k))
  OBVIOUS
<1>5. g[0] = FrameUnstuffed
      /\ \A n \in 1..size : \/ g[n] = FrameUnstuff(g[n - 1], S[n])
                            \/ g[n] = FrameJvsStep(g[n - 1], S[n])
  BY DEF FrameUnstuffing
<1> HIDE DEF S, H, P, size, len
<1>6. \A k \in 0..len : SubSeq(bytes, 1, k) \in Seq(FrameBytes)
  <2> SUFFICES ASSUME NEW k \in 0..len PROVE SubSeq(bytes, 1, k) \in Seq(FrameBytes)
    OBVIOUS
  <2>1. k \in Int /\ \A i \in 1..k : i \in 1..len
    BY <1>3
  <2>2. \A i \in 1..k : bytes[i] \in FrameBytes
    BY <1>3, <2>1
  <2> QED
    BY <2>1, <2>2, SubSeqProperties
<1>7. ASSUME NEW k \in 1..len
      PROVE  Append(SubSeq(bytes, 1, k - 1), bytes[k]) = SubSeq(bytes, 1, k)
  <2>1. 1 \in 1..len /\ k \in 1..len /\ k - 1 \in 0..len
    BY <1>3
  <2>2. SubSeq(bytes, 1, k) = SubSeq(bytes, 1, k - 1) \o <<bytes[k]>>
    BY <2>1, SubSeqRecursiveSecond DEF len
  <2>3. SubSeq(bytes, 1, k - 1) \in Seq(FrameBytes) /\ bytes[k] \in FrameBytes
    BY <1>3, <1>6, <2>1
  <2> QED
    BY <2>2, <2>3, AppendIsConcat
<1>8. g[0] = P[0]
  <2>1. 0 \in 0..len /\ 0 \in Int /\ 1 \in Int /\ 0 < 1
    BY <1>3
  <2>2. SubSeq(bytes, 1, 0) = <<>>
    BY <2>1, SubSeqEmpty
  <2>3. P[0] = FrameClean(<<>>)
    BY <1>4, <2>1, <2>2
  <2> QED
    BY <1>5, <2>3 DEF FrameClean, FrameUnstuffed
<1>9. FrameFollows(FrameSg, bytes, size, S, 0)
  <2>1. \A i \in 1..Len(S) : 0 + i = i
    OBVIOUS
  <2> QED
    BY <2>1 DEF FrameFollows, S
<1>10. ASSUME NEW k \in 1..len, NEW n \in Nat,
              n = 0 + Len(H[k - 1]) /\ g[n] = P[k - 1],
              n + 1 <= size /\ S[n + 1] = bytes[k] /\ bytes[k] \notin {FrameSg.sync, FrameSg.esc}
       PROVE  g[n + 1] = P[k]
  <2>1. n + 1 \in 1..size /\ n + 1 - 1 = n /\ k - 1 \in 0..len /\ k \in 0..len
    BY <1>3, <1>10
  <2>2. g[n] = FrameClean(SubSeq(bytes, 1, k - 1))
    BY <1>4, <1>10, <2>1
  <2>3. g[n + 1] = FrameUnstuff(g[n], bytes[k]) \/ g[n + 1] = FrameJvsStep(g[n], bytes[k])
    BY <1>5, <1>10, <2>1
  <2>4. SubSeq(bytes, 1, k - 1) \in Seq(FrameBytes) /\ bytes[k] \in FrameBytes
    BY <1>3, <1>6, <2>1
  <2>5. g[n + 1] = FrameClean(Append(SubSeq(bytes, 1, k - 1), bytes[k]))
    BY <1>10, <2>2, <2>3, <2>4, FrameUnstuffTakes
  <2> QED
    BY <1>4, <1>7, <2>1, <2>5
<1>11. ASSUME NEW k \in 1..len, NEW n \in Nat,
              n = 0 + Len(H[k - 1]) /\ g[n] = P[k - 1],
              n + 2 <= size /\ S[n + 1] = FrameSg.esc /\ S[n + 2] = bytes[k] - 1,
              bytes[k] \in {FrameSg.sync, FrameSg.esc}
       PROVE  g[n + 2] = P[k]
  <2>1. /\ n + 1 \in 1..size /\ n + 1 - 1 = n /\ k - 1 \in 0..len /\ k \in 0..len
        /\ n + 2 \in 1..size /\ n + 2 - 1 = n + 1
    BY <1>3, <1>11
  <2>2. g[n] = FrameClean(SubSeq(bytes, 1, k - 1))
    BY <1>4, <1>11, <2>1
  <2>3. g[n + 1] \in {FrameUnstuff(g[n], FrameSg.esc), FrameJvsStep(g[n], FrameSg.esc)}
    <3>1. \/ g[n + 1] = FrameUnstuff(g[n], FrameSg.esc)
          \/ g[n + 1] = FrameJvsStep(g[n], FrameSg.esc)
      BY <1>5, <1>11, <2>1
    <3> QED
      BY <3>1
  <2>4. \/ g[n + 2] = FrameUnstuff(g[n + 1], bytes[k] - 1)
        \/ g[n + 2] = FrameJvsStep(g[n + 1], bytes[k] - 1)
    BY <1>5, <1>11, <2>1
  <2>5. SubSeq(bytes, 1, k - 1) \in Seq(FrameBytes) /\ bytes[k] \in FrameBytes
    BY <1>3, <1>6, <2>1
  <2>6. g[n + 2] = FrameClean(Append(SubSeq(bytes, 1, k - 1), bytes[k]))
    BY <1>11, <2>2, <2>3, <2>4, <2>5, FrameUnstuffTakes
  <2> QED
    BY <1>4, <1>7, <2>1, <2>6
<1>12. FrameGetsOverOne(FrameSg, bytes, size, S, 0, g, P)
  BY <1>10 DEF FrameGetsOverOne, H, len
<1>13. FrameGetsOverTwo(FrameSg, bytes, size, S, 0, g, P)
  BY <1>11 DEF FrameGetsOverTwo, H, len
<1>14. 0 \in Nat /\ size \in Nat /\ bytes \in Seq(FrameBytes)
  BY <1>3
<1>15. FrameReaches(FrameSg, bytes, size, 0, g, P)
  BY ONLY <1>1, <1>8, <1>9, <1>12, <1>13, <1>14, FramePasses
<1>16. len \in 0..len /\ 0 + Len(H[len]) = size /\ size <= size
  BY <1>2, <1>3 DEF size
<1>17. g[size] = P[len]
  <2>1. 0 + Len(H[len]) <= size => g[0 + Len(H[len])] = P[len]
    BY <1>15, <1>16 DEF FrameReaches, H, len
  <2> QED
    BY <1>16, <2>1
<1>18. SubSeq(bytes, 1, len) = bytes
  BY SubSeqFull DEF len
<1> QED
  BY <1>4, <1>16, <1>17, <1>18 DEF size, S

(* sg_frame_encode: behind the sync byte is what is stuffed.               *)
LEMMA FrameSgEncodeIs ==
  ASSUME NEW request \in Seq(FrameBytes)
  PROVE  LET Y == Append(request, FrameSum(request))
             bytes == sg_frame_encode(request)
         IN  /\ Y \in Seq(FrameBytes) /\ Front(Y) = request /\ Len(Y) = Len(request) + 1
             /\ SubSeq(Y, 1, Len(request)) = request
             /\ Y[Len(Y)] = FrameSum(request)
             /\ \A i \in 1..Len(request) : Y[i] = request[i]
             /\ bytes # <<>> /\ bytes[1] = FrameSg.sync
             /\ FrameAfterSync(bytes) = FrameStuffed(FrameSg, Y)
             /\ FrameAfterSync(bytes) \in Seq(FrameBytes)
<1> DEFINE sum == FrameSum(request)  Y == Append(request, sum)  len == Len(request)
           S == FrameStuffed(FrameSg, Y)  one == <<FrameSg.sync>>
<1>1. FrameIsCodec(FrameSg)
  BY FrameAssumption DEF FrameAssumption
<1>2. len \in Nat /\ len \in 0..len
  BY LenProperties
<1>3. sum \in FrameBytes
  BY <1>2, FrameSumsAre DEF FrameSum
<1> HIDE DEF sum
<1>4. /\ Y \in Seq(FrameBytes) /\ Len(Y) = len + 1 /\ Y[len + 1] = sum
      /\ \A i \in 1..len : Y[i] = request[i]
  BY <1>3, AppendProperties
<1>5. Front(Y) = request
  BY <1>3, FrameFront
<1>6. SubSeq(Y, 1, len) = request
  <2>1. Len(Y) - 1 = len
    BY <1>2, <1>4
  <2> QED
    BY <1>5, <2>1 DEF Front
<1> HIDE DEF Y
<1>7. S \in Seq(FrameBytes)
  BY <1>1, <1>4, FrameStuffPlaces
<1>8. FrameSg.sync \in FrameBytes
  BY <1>1, <1>3, FrameStuffIs
<1>9. one \in Seq(FrameBytes) /\ Len(one) = 1 /\ one[1] = FrameSg.sync
  BY <1>8
<1>10. sg_frame_encode(request) = one \o S
  BY DEF sg_frame_encode, Y, sum
<1> HIDE DEF S, one
<1>11. Len(S) \in Nat
  BY <1>7, LenProperties
<1>12. /\ one \o S \in Seq(FrameBytes) /\ Len(one \o S) = Len(one) + Len(S)
       /\ \A i \in 1..Len(one) + Len(S) :
            (one \o S)[i] = IF i <= Len(one) THEN one[i] ELSE S[i - Len(one)]
  BY <1>7, <1>9, ConcatProperties
<1>13. Len(one \o S) = 1 + Len(S) /\ (one \o S)[1] = FrameSg.sync
  <2>1. 1 \in 1..Len(one) + Len(S) /\ 1 <= Len(one)
    BY <1>9, <1>11
  <2> QED
    BY <1>9, <1>12, <2>1
<1>14. one \o S # <<>>
  BY <1>11, <1>12, <1>13, EmptySeq
<1>15. SubSeq(one \o S, 2, Len(one \o S)) = S
  <2> DEFINE t == one \o S  n == Len(S)
  <2>1. t \in Seq(FrameBytes) /\ Len(t) = n + 1 /\ n \in Nat /\ t # <<>>
    BY <1>11, <1>12, <1>13, <1>14
  <2>2. \A i \in 1..n : t[i + 1] = S[i]
    <3>1. \A i \in 1..n : i + 1 \in 1..Len(one) + Len(S) /\ ~(i + 1 <= Len(one)) /\ i + 1 - Len(one) = i
      BY <1>9, <1>11
    <3> QED
      BY <1>12, <3>1
  <2> HIDE DEF t
  <2>3. Tail(t) \in Seq(FrameBytes) /\ Len(Tail(t)) = Len(t) - 1
        /\ \A i \in 1..Len(Tail(t)) : Tail(t)[i] = t[i + 1]
    BY <2>1, HeadTailProperties
  <2>4. Len(Tail(t)) = n
    BY <2>1, <2>3
  <2>5. \A i \in 1..Len(Tail(t)) : Tail(t)[i] = S[i]
    BY <2>2, <2>3, <2>4
  <2>6. Tail(t) = S
    BY <1>7, <2>3, <2>4, <2>5, SeqEqual
  <2>7. Tail(t) = SubSeq(t, 2, Len(t))
    BY <2>1, TailIsSubSeq
  <2> QED
    BY <2>6, <2>7 DEF t
<1>16. FrameAfterSync(one \o S) = S
  BY <1>15 DEF FrameAfterSync
<1> QED
  BY <1>4, <1>5, <1>6, <1>7, <1>10, <1>13, <1>14, <1>16 DEF Y, sum, S

(* A request that was framed for the bus comes out as it was.              *)
LEMMA FrameJvsDelivers ==
  ASSUME NEW request \in Seq(FrameBytes)
  PROVE  jvs_frame_decode(sg_frame_encode(request)) = request
<1> DEFINE bytes == sg_frame_encode(request)  Y == Append(request, FrameSum(request))
           src == FrameAfterSync(bytes)  d == FrameJvsSteps(src)[Len(src)]  len == Len(request)
<1>1. /\ Y \in Seq(FrameBytes) /\ Len(Y) = len + 1 /\ SubSeq(Y, 1, len) = request
      /\ Y[Len(Y)] = FrameSum(request)
      /\ bytes # <<>> /\ bytes[1] = FrameSg.sync /\ src = FrameStuffed(FrameSg, Y)
      /\ src \in Seq(FrameBytes)
  BY FrameSgEncodeIs
<1>2. len \in Nat /\ Len(src) \in Nat
  BY <1>1, LenProperties
<1>3. d = FrameClean(Y)
  <2> HIDE DEF src, Y
  <2>1. FrameJvsSteps(src)[0] = FrameUnstuffed
    BY <1>1, <1>2, FrameJvsStepsAre
  <2>2. \A n \in 1..Len(src) : FrameJvsSteps(src)[n] = FrameJvsStep(FrameJvsSteps(src)[n - 1], src[n])
    <3>1. \A n \in 1..Len(src) : n \in 0..Len(src) /\ n # 0
      BY <1>2
    <3> QED
      BY <1>1, <3>1, FrameJvsStepsAre
  <2>3. FrameUnstuffing(src, FrameJvsSteps(src))
    BY <2>1, <2>2 DEF FrameUnstuffing
  <2> QED
    BY <1>1, <2>3, FrameUnstuffsAll
<1> HIDE DEF d, Y
<1>4. d.bytes = Y /\ d.bad = FALSE
  BY <1>3 DEF FrameClean
<1>5. Len(Y) # 0 /\ Len(Y) - 1 = len
  BY <1>1, <1>2
<1>6. jvs_frame_decode(bytes) =
        IF bytes = <<>> \/ bytes[1] # FrameSg.sync \/ d.bad \/ Len(d.bytes) = 0 THEN <<>>
        ELSE IF FrameSum(SubSeq(d.bytes, 1, Len(d.bytes) - 1)) = d.bytes[Len(d.bytes)]
             THEN SubSeq(d.bytes, 1, Len(d.bytes) - 1) ELSE <<>>
  BY DEF jvs_frame_decode, d
<1> HIDE DEF bytes
<1>7. jvs_frame_decode(bytes) = request
  BY <1>1, <1>4, <1>5, <1>6
<1> QED
  BY <1>7 DEF bytes

(* A request that was framed for a reader comes out as it was.             *)
LEMMA FrameSgDelivers ==
  ASSUME NEW request \in Seq(FrameBytes), request # <<>>, sg_req_validate(request)
  PROVE  sg_req_transact(sg_frame_encode(request)) = request
<1> DEFINE bytes == sg_frame_encode(request)  Y == Append(request, FrameSum(request))
           src == FrameAfterSync(bytes)  d == FrameUnstuffs(src)[Len(src)]  len == Len(request)
<1>1. /\ Y \in Seq(FrameBytes) /\ Len(Y) = len + 1 /\ SubSeq(Y, 1, len) = request
      /\ Y[Len(Y)] = FrameSum(request) /\ Front(Y) = request
      /\ \A i \in 1..len : Y[i] = request[i]
      /\ bytes # <<>> /\ bytes[1] = FrameSg.sync /\ src = FrameStuffed(FrameSg, Y)
      /\ src \in Seq(FrameBytes)
  BY FrameSgEncodeIs
<1>2. len \in Nat /\ Len(src) \in Nat
  BY <1>1, LenProperties
<1>3. d = FrameClean(Y)
  <2> HIDE DEF src, Y
  <2>1. FrameUnstuffs(src)[0] = FrameUnstuffed
    BY <1>1, <1>2, FrameUnstuffsAre
  <2>2. \A n \in 1..Len(src) : FrameUnstuffs(src)[n] = FrameUnstuff(FrameUnstuffs(src)[n - 1], src[n])
    <3>1. \A n \in 1..Len(src) : n \in 0..Len(src) /\ n # 0
      BY <1>2
    <3> QED
      BY <1>1, <3>1, FrameUnstuffsAre
  <2>3. FrameUnstuffing(src, FrameUnstuffs(src))
    BY <2>1, <2>2 DEF FrameUnstuffing
  <2> QED
    BY <1>1, <2>3, FrameUnstuffsAll
<1> HIDE DEF d, Y
<1>4. d.bytes = Y /\ d.bad = FALSE /\ d.escape = FALSE
  BY <1>3 DEF FrameClean
<1>5. len >= 2 /\ request[1] = len
  BY DEF sg_req_validate
<1>6. sg_frame_accept(Y) = "S_OK"
  <2>1. 1 \in 1..len /\ ~(Len(Y) < 1) /\ Len(Y) - 1 = len
    BY <1>1, <1>2, <1>5
  <2>2. Y[1] = len
    BY <1>1, <1>5, <2>1
  <2> QED
    BY <1>1, <2>1, <2>2 DEF sg_frame_accept
<1> DEFINE hr == IF bytes = <<>> \/ bytes[1] # FrameSg.sync \/ d.bad \/ d.escape THEN "E_FAIL"
                 ELSE sg_frame_accept(d.bytes)
<1>7. sg_frame_decode(bytes) = [hr |-> hr, dest |-> IF hr = "S_OK" THEN Front(d.bytes) ELSE d.bytes]
  BY DEF sg_frame_decode, d
<1> HIDE DEF bytes
<1>8. hr = "S_OK"
  BY <1>1, <1>4, <1>6
<1> HIDE DEF hr
<1>9. sg_frame_decode(bytes).hr = "S_OK" /\ sg_frame_decode(bytes).dest = request
  BY <1>1, <1>4, <1>7, <1>8
<1>10. sg_req_transact(bytes) = request
  BY <1>9 DEF sg_req_transact
<1> QED
  BY <1>10 DEF bytes

(* A request that a reader dispatches is checked, or has no checksum.      *)
LEMMA FrameSgChecks ==
  ASSUME NEW bytes \in Seq(FrameBytes)
  PROVE  LET request == sg_req_transact(bytes)
             src == FrameAfterSync(bytes)
             all == FrameUnstuffs(src)[Len(src)].bytes
         IN  request # <<>> => all \in {request, Append(request, FrameSum(request))}
<1> DEFINE src == FrameAfterSync(bytes)  d == FrameUnstuffs(src)[Len(src)]
           hr == IF bytes = <<>> \/ bytes[1] # FrameSg.sync \/ d.bad \/ d.escape THEN "E_FAIL"
                 ELSE sg_frame_accept(d.bytes)
<1>1. src \in Seq(FrameBytes) /\ Len(src) \in Nat
  <2>1. Len(bytes) \in Nat /\ \A i \in 2..Len(bytes) : i \in 1..Len(bytes)
    BY LenProperties
  <2>2. \A i \in 2..Len(bytes) : bytes[i] \in FrameBytes
    BY <2>1, ElementOfSeq
  <2>3. src \in Seq(FrameBytes)
    BY <2>1, <2>2, SubSeqProperties DEF FrameAfterSync
  <2> QED
    BY <2>3, LenProperties
<1> HIDE DEF src
<1>2. d \in FrameUnstuffer
  <2>1. Len(src) \in 0..Len(src)
    BY <1>1
  <2> QED
    BY <1>1, <2>1, FrameUnstuffsAre
<1>3. sg_frame_decode(bytes) = [hr |-> hr, dest |-> IF hr = "S_OK" THEN Front(d.bytes) ELSE d.bytes]
  BY DEF sg_frame_decode, d, src
<1> HIDE DEF d
<1> DEFINE Y == d.bytes  n == Len(Y)
<1>4. Y \in Seq(FrameBytes) /\ n \in Nat
  BY <1>2, LenProperties DEF FrameUnstuffer
<1> HIDE DEF Y
<1>5. hr = "S_OK" => sg_frame_accept(Y) = "S_OK"
  BY DEF Y
<1> HIDE DEF hr
<1>6. CASE hr = "S_OK"
  <2>1. ~(n < 1) /\ FrameSum(SubSeq(Y, 1, n - 1)) = Y[n]
    BY <1>5, <1>6 DEF sg_frame_accept
  <2>2. Front(Y) = SubSeq(Y, 1, n - 1)
    BY DEF Front
  <2>3. 1 \in 1..n /\ n \in 1..n
    BY <1>4, <2>1
  <2>4. SubSeq(Y, 1, n) = SubSeq(Y, 1, n - 1) \o <<Y[n]>> /\ SubSeq(Y, 1, n) = Y
    BY <1>4, <2>3, SubSeqRecursiveSecond, SubSeqFull
  <2>5. SubSeq(Y, 1, n - 1) \in Seq(FrameBytes) /\ Y[n] \in FrameBytes
    <3>1. n - 1 \in Int /\ \A i \in 1..n - 1 : i \in 1..n
      BY <1>4
    <3>2. \A i \in 1..n - 1 : Y[i] \in FrameBytes
      BY <1>4, <3>1, ElementOfSeq
    <3> QED
      BY <1>4, <2>3, <3>1, <3>2, ElementOfSeq, SubSeqProperties
  <2>6. Y = Append(Front(Y), FrameSum(Front(Y)))
    BY <2>1, <2>2, <2>4, <2>5, AppendIsConcat
  <2>7. sg_frame_decode(bytes).dest = Front(Y)
    BY <1>3, <1>6 DEF Y
  <2>8. sg_req_transact(bytes) # <<>> => sg_req_transact(bytes) = Front(Y)
    BY <2>7 DEF sg_req_transact
  <2> QED
    BY <2>6, <2>8 DEF Y, d, src
<1>7. CASE hr # "S_OK"
  <2>1. sg_frame_decode(bytes).dest = Y
    BY <1>3, <1>7 DEF Y
  <2>2. sg_req_transact(bytes) # <<>> => sg_req_transact(bytes) = Y
    BY <2>1 DEF sg_req_transact
  <2> QED
    BY <2>2 DEF Y, d, src
<1> QED
  BY <1>6, <1>7

-----------------------------------------------------------------------------
(* The boards that decode the streams.                                     *)

(* What the game and its board may have between them.                     *)
FrameStates ==
  [codec : DOMAIN FrameCodecs \cup {"none"}, written : Seq(FrameBytes), rest : Seq(FrameBytes),
   at : {"idle", "decode"}, sent : Seq(Seq(FrameBytes)), got : Seq(Seq(FrameBytes)),
   cut : BOOLEAN, bytes : Seq(FrameBytes)]

(* Everything that was sent was decoded.                                   *)
FrameEven(f) == f.rest = <<>> /\ f.written = <<>> /\ f.got = f.sent

(* The last message is on its way: what is written of its frame is in the  *)
(* buffer, and all before it were decoded.                                 *)
FrameUnderWay(f) ==
  \E m \in FrameMessages[f.codec] :
    LET E == slider_frame_encode(FrameCodecs[f.codec], m)
    IN  /\ f.codec # "none" /\ FrameBegins(FrameCodecs[f.codec], m, f.written)
        /\ f.rest = SubSeq(E, Len(f.written) + 1, Len(E)) /\ f.sent = Append(f.got, m)
        /\ f.at = "idle" => Len(f.written) # Len(E)

(* The inductive invariant.                                                *)
FrameIInv(f) ==
  /\ f \in FrameStates /\ Len(f.written) <= FrameCapacity
  /\ f.at = "decode" => f.codec # "none"
  /\ ~f.cut => FrameEven(f) \/ FrameUnderWay(f)

(* A codec in use is one, and its messages are messages.                   *)
LEMMA FrameCodecIs ==
  ASSUME NEW name \in DOMAIN FrameCodecs
  PROVE  /\ FrameIsCodec(FrameCodecs[name])
         /\ \A m \in FrameMessages[name] : FrameIsMessage(FrameCodecs[name], m)
  BY FrameAssumption DEF FrameAssumption

(* The first bytes of a frame, and the others.                             *)
LEMMA FrameParts ==
  ASSUME NEW c, FrameIsCodec(c), NEW m, FrameIsMessage(c, m),
         NEW n \in 0..Len(slider_frame_encode(c, m))
  PROVE  LET E == slider_frame_encode(c, m)
             part == SubSeq(E, 1, n)
             others == SubSeq(E, n + 1, Len(E))
         IN  /\ E \in Seq(FrameBytes) /\ Len(E) \in Nat /\ Len(part) = n
             /\ FrameBegins(c, m, part) /\ others \in Seq(FrameBytes)
             /\ part \o others = E /\ (others = <<>> <=> n = Len(E))
             /\ Len(others) = Len(E) - n
<1> DEFINE E == slider_frame_encode(c, m)  size == Len(E)
           part == SubSeq(E, 1, n)  others == SubSeq(E, n + 1, Len(E))
<1>1. E \in Seq(FrameBytes) /\ size \in Nat \ {0}
  <2>1. /\ E \in Seq(FrameBytes) /\ Len(E) = 1 + Len(FrameStuffed(c, FrameBody(c, m)))
        /\ Len(FrameStuffed(c, FrameBody(c, m))) \in Nat
    BY FrameEncodeIs
  <2> HIDE DEF E
  <2> QED
    BY <2>1
<1>2. n \in 0..size
  OBVIOUS
<1> HIDE DEF E
<1>3. \A i \in 1..size : E[i] \in FrameBytes
  BY <1>1, ElementOfSeq
<1>4. /\ n \in Nat /\ n \in Int /\ size \in Int /\ n + 1 \in Int /\ \A i \in 1..n : i \in 1..size
      /\ \A i \in n + 1..size : i \in 1..size
  BY <1>1, <1>2
<1>5. part \in Seq(FrameBytes) /\ Len(part) = (IF 1 <= n THEN n - 1 + 1 ELSE 0)
      /\ \A i \in 1..n - 1 + 1 : part[i] = E[1 + i - 1]
  BY <1>3, <1>4, SubSeqProperties
<1>6. others \in Seq(FrameBytes)
      /\ Len(others) = (IF n + 1 <= size THEN size - (n + 1) + 1 ELSE 0)
  BY <1>3, <1>4, SubSeqProperties
<1>7. part \o others = E
  <2>1. 1 \in 1..size + 1 /\ n \in 1 - 1..size /\ size \in n..size
    BY <1>1, <1>2
  <2>2. part \o others = SubSeq(E, 1, size)
    BY <1>1, <2>1, ConcatAdjacentSubSeq
  <2> QED
    BY <1>1, <2>2, SubSeqFull
<1> HIDE DEF part, others
<1>8. Len(part) = n /\ Len(others) = size - n
  BY <1>1, <1>2, <1>4, <1>5, <1>6
<1>9. \A i \in 1..n : part[i] = E[i]
  <2>1. \A i \in 1..n : i \in 1..n - 1 + 1 /\ 1 + i - 1 = i
    BY <1>4
  <2> QED
    BY <1>5, <2>1
<1>10. FrameBegins(c, m, part)
  BY <1>1, <1>2, <1>4, <1>5, <1>8, <1>9 DEF FrameBegins, E
<1>11. others = <<>> <=> n = size
  <2> DEFINE u == Len(others)
  <2>1. u = size - n /\ (others = <<>> => u = 0) /\ (others # <<>> => u # 0)
    BY <1>6, <1>8, EmptySeq
  <2> HIDE DEF u
  <2> QED
    BY <1>1, <1>2, <2>1
<1> QED
  BY <1>1, <1>6, <1>7, <1>8, <1>10, <1>11 DEF E, part, others

(* What begins a frame is so many of its first bytes.                      *)
LEMMA FrameBeginsWith ==
  ASSUME NEW c, FrameIsCodec(c), NEW m, FrameIsMessage(c, m), NEW given, FrameBegins(c, m, given)
  PROVE  /\ Len(given) \in 0..Len(slider_frame_encode(c, m))
         /\ given = SubSeq(slider_frame_encode(c, m), 1, Len(given))
<1> DEFINE E == slider_frame_encode(c, m)  n == Len(given)  part == SubSeq(E, 1, n)
<1>1. /\ given \in Seq(FrameBytes) /\ n \in Nat /\ n <= Len(E) /\ \A i \in 1..n : given[i] = E[i]
  BY LenProperties DEF FrameBegins
<1>2. Len(E) \in Nat
  <2>1. Len(FrameStuffed(c, FrameBody(c, m))) \in Nat
        /\ Len(E) = 1 + Len(FrameStuffed(c, FrameBody(c, m)))
    BY FrameEncodeIs
  <2> HIDE DEF E
  <2> QED
    BY <2>1
<1>3. n \in 0..Len(E)
  <2> HIDE DEF E, n
  <2> QED
    BY <1>1, <1>2
<1>4. Len(part) = n /\ FrameBegins(c, m, part)
  <2>1. \A k \in 0..Len(E) : Len(SubSeq(E, 1, k)) = k /\ FrameBegins(c, m, SubSeq(E, 1, k))
    BY FrameParts
  <2> HIDE DEF E, n
  <2> QED
    BY <1>3, <2>1
<1>5. part \in Seq(FrameBytes) /\ \A i \in 1..Len(part) : part[i] = E[i]
  BY <1>4 DEF FrameBegins
<1> HIDE DEF E, n, part
<1>6. \A i \in 1..Len(part) : part[i] = given[i]
  BY <1>1, <1>4, <1>5
<1>7. part = given
  BY <1>1, <1>4, <1>5, <1>6, SeqEqual DEF n
<1> QED
  BY <1>3, <1>7 DEF E, n, part

(* A game writes the first n bytes of a message.                           *)
LEMMA FrameWriteKeeps ==
  ASSUME FrameIInv(frames), NEW m \in FrameMessages[frames.codec],
         NEW n \in 1..Len(slider_frame_encode(FrameCodec, m)), FrameWrite(m, n)
  PROVE  FrameIInv(frames')
<1> DEFINE c == FrameCodec  E == slider_frame_encode(c, m)  part == SubSeq(E, 1, n)
           others == SubSeq(E, n + 1, Len(E))  w == frames.written \o part
           sent == Append(frames.sent, m)
<1>1. /\ frames \in FrameStates /\ Len(frames.written) <= FrameCapacity
      /\ ~frames.cut => FrameEven(frames) \/ FrameUnderWay(frames)
  BY DEF FrameIInv
<1>2. /\ frames.at = "idle" /\ frames.codec # "none" /\ frames.rest = <<>>
      /\ Len(frames.written) + Len(E) <= FrameCapacity
      /\ frames' = [frames EXCEPT !.written = @ \o SubSeq(E, 1, n), !.at = "decode",
                                  !.rest = SubSeq(E, n + 1, Len(E)), !.sent = Append(@, m)]
  BY DEF FrameWrite, FrameSending
<1>3. frames.codec \in DOMAIN FrameCodecs /\ frames.written \in Seq(FrameBytes)
      /\ frames.sent \in Seq(Seq(FrameBytes)) /\ frames.got \in Seq(Seq(FrameBytes))
  BY <1>1, <1>2 DEF FrameStates
<1>4. FrameIsCodec(c) /\ FrameIsMessage(c, m)
  BY <1>3, FrameCodecIs DEF FrameCodec
<1>5. m \in Seq(FrameBytes)
  BY <1>4 DEF FrameIsMessage
<1>6. n \in 0..Len(E)
  OBVIOUS
<1>7. /\ E \in Seq(FrameBytes) /\ Len(E) \in Nat /\ Len(part) = n
      /\ FrameBegins(c, m, part) /\ others \in Seq(FrameBytes)
  BY <1>4, <1>6, FrameParts
<1>8. part \in Seq(FrameBytes)
  BY <1>7 DEF FrameBegins
<1> DEFINE r == [codec |-> frames.codec, written |-> w, rest |-> others, at |-> "decode",
                 sent |-> sent, got |-> frames.got, cut |-> frames.cut, bytes |-> frames.bytes]
<1>9. frames' = r
  BY <1>1, <1>2 DEF FrameStates
<1>10. sent \in Seq(Seq(FrameBytes))
  BY <1>3, <1>5, AppendProperties
<1>11. w \in Seq(FrameBytes) /\ Len(w) <= FrameCapacity
  <2> DEFINE u == Len(frames.written)  v == Len(part)
  <2>1. w \in Seq(FrameBytes) /\ Len(w) = u + v
    BY <1>3, <1>8, ConcatProperties
  <2>2. u \in Nat /\ v = n
    BY <1>3, <1>7, LenProperties
  <2> HIDE DEF u, v, w, E
  <2>3. u + v <= FrameCapacity
    <3>1. u + Len(E) <= FrameCapacity
      BY <1>2 DEF u
    <3>2. FrameCapacity \in Nat
      BY FrameAssumption DEF FrameAssumption
    <3> QED
      BY <1>6, <1>7, <2>2, <3>1, <3>2
  <2> QED
    BY <2>1, <2>3
<1> HIDE DEF E, part, others, w, sent, c
<1>12. r \in FrameStates
  BY <1>1, <1>7, <1>10, <1>11 DEF FrameStates
<1>13. ASSUME ~frames.cut PROVE FrameUnderWay(r)
  <2>1. FrameEven(frames)
    <3>1. ASSUME FrameUnderWay(frames) PROVE FALSE
      <4>1. PICK k \in FrameMessages[frames.codec] :
              LET F == slider_frame_encode(FrameCodecs[frames.codec], k)
              IN  /\ FrameBegins(FrameCodecs[frames.codec], k, frames.written)
                  /\ frames.rest = SubSeq(F, Len(frames.written) + 1, Len(F))
                  /\ frames.at = "idle" => Len(frames.written) # Len(F)
        BY <3>1 DEF FrameUnderWay
      <4>2. FrameIsMessage(c, k)
        BY <1>3, FrameCodecIs DEF FrameCodec, c
      <4>3. /\ FrameBegins(c, k, frames.written)
            /\ frames.rest = SubSeq(slider_frame_encode(c, k), Len(frames.written) + 1,
                                    Len(slider_frame_encode(c, k)))
            /\ Len(frames.written) # Len(slider_frame_encode(c, k))
        BY <1>2, <4>1 DEF FrameCodec, c
      <4>4. Len(frames.written) \in 0..Len(slider_frame_encode(c, k))
        BY <1>4, <4>2, <4>3, FrameBeginsWith
      <4>5. \A i \in 0..Len(slider_frame_encode(c, k)) :
              SubSeq(slider_frame_encode(c, k), i + 1, Len(slider_frame_encode(c, k))) = <<>>
                <=> i = Len(slider_frame_encode(c, k))
        BY <1>4, <4>2, FrameParts
      <4>6. frames.rest # <<>>
        BY <4>3, <4>4, <4>5
      <4> QED
        BY <1>2, <4>6
    <3> QED
      BY <1>1, <1>13, <3>1
  <2>2. frames.written = <<>> /\ frames.got = frames.sent
    BY <2>1 DEF FrameEven
  <2>3. w = part
    BY <1>8, <2>2, ConcatEmptySeq DEF w
  <2>4. /\ r.codec = frames.codec /\ r.written = part /\ r.rest = others /\ r.at = "decode"
        /\ r.sent = Append(r.got, m)
    BY <2>2, <2>3 DEF sent
  <2> HIDE DEF r
  <2>5. FrameBegins(FrameCodecs[r.codec], m, r.written)
    BY <1>7, <2>4 DEF c, FrameCodec
  <2>6. r.rest = SubSeq(slider_frame_encode(FrameCodecs[r.codec], m), Len(r.written) + 1,
                        Len(slider_frame_encode(FrameCodecs[r.codec], m)))
    BY <1>7, <2>4 DEF c, FrameCodec, others, E
  <2>7. m \in FrameMessages[r.codec] /\ r.codec # "none" /\ r.at # "idle"
    BY <1>2, <2>4
  <2> QED
    BY <2>4, <2>5, <2>6, <2>7 DEF FrameUnderWay
<1>14. r.at = "decode" /\ r.codec # "none" /\ r.cut = frames.cut /\ r.written = w
  BY <1>2
<1> HIDE DEF r
<1>15. FrameIInv(r)
  BY <1>11, <1>12, <1>13, <1>14 DEF FrameIInv
<1> QED
  BY <1>9, <1>15

(* A game writes the rest of a message.                                    *)
LEMMA FrameWriteRestKeeps ==
  ASSUME FrameIInv(frames), FrameWriteRest
  PROVE  FrameIInv(frames')
<1> DEFINE w == frames.written \o frames.rest
           r == [codec |-> frames.codec, written |-> w, rest |-> <<>>, at |-> "decode",
                 sent |-> frames.sent, got |-> frames.got, cut |-> frames.cut,
                 bytes |-> frames.bytes]
<1>1. /\ frames \in FrameStates /\ Len(frames.written) <= FrameCapacity
      /\ ~frames.cut => FrameEven(frames) \/ FrameUnderWay(frames)
  BY DEF FrameIInv
<1>2. /\ frames.at = "idle" /\ frames.codec # "none" /\ frames.rest # <<>>
      /\ Len(frames.written) + Len(frames.rest) <= FrameCapacity
      /\ frames' = [frames EXCEPT !.written = @ \o frames.rest, !.at = "decode", !.rest = <<>>]
  BY DEF FrameWriteRest, FrameSending
<1>3. frames.codec \in DOMAIN FrameCodecs /\ frames.written \in Seq(FrameBytes)
      /\ frames.rest \in Seq(FrameBytes)
  BY <1>1, <1>2 DEF FrameStates
<1>4. frames' = r
  BY <1>1, <1>2 DEF FrameStates
<1>5. w \in Seq(FrameBytes) /\ Len(w) <= FrameCapacity
  BY <1>2, <1>3, ConcatProperties
<1> HIDE DEF w
<1>6. r \in FrameStates
  BY <1>1, <1>5, EmptySeq DEF FrameStates
<1>7. ASSUME ~frames.cut PROVE FrameUnderWay(r)
  <2>1. FrameUnderWay(frames)
    BY <1>1, <1>2, <1>7 DEF FrameEven
  <2> DEFINE c == FrameCodecs[frames.codec]
  <2>2. PICK m \in FrameMessages[frames.codec] :
          LET E == slider_frame_encode(c, m)
          IN  /\ FrameBegins(c, m, frames.written)
              /\ frames.rest = SubSeq(E, Len(frames.written) + 1, Len(E))
              /\ frames.sent = Append(frames.got, m)
    BY <2>1 DEF FrameUnderWay
  <2> DEFINE E == slider_frame_encode(c, m)  n == Len(frames.written)
  <2>3. FrameIsCodec(c) /\ FrameIsMessage(c, m)
    BY <1>3, FrameCodecIs
  <2>4. n \in 0..Len(E) /\ frames.written = SubSeq(E, 1, n)
    BY <2>2, <2>3, FrameBeginsWith
  <2>5. /\ \A k \in 0..Len(E) :
             SubSeq(E, 1, k) \o SubSeq(E, k + 1, Len(E)) = E /\ FrameBegins(c, m, SubSeq(E, 1, k))
        /\ E \in Seq(FrameBytes) /\ Len(E) \in Nat
    BY <2>3, <2>4, FrameParts
  <2> HIDE DEF E, c, n
  <2>6. w = E
    BY <2>2, <2>4, <2>5 DEF w, n, E
  <2>7. Len(E) \in 0..Len(E) /\ Len(E) + 1 \in Int /\ Len(E) \in Int /\ Len(E) < Len(E) + 1
    BY <2>5
  <2>8. SubSeq(E, 1, Len(E)) = E
    BY <2>5, SubSeqFull
  <2>9. SubSeq(E, Len(E) + 1, Len(E)) = <<>>
    BY <2>7, SubSeqEmpty
  <2>10. FrameBegins(c, m, w)
    BY <2>5, <2>6, <2>7, <2>8
  <2>11. /\ r.codec = frames.codec /\ r.written = w /\ r.rest = <<>> /\ r.at = "decode"
         /\ r.sent = Append(r.got, m)
    BY <2>2
  <2> HIDE DEF r
  <2>12. FrameBegins(FrameCodecs[r.codec], m, r.written)
    BY <2>10, <2>11 DEF c
  <2>13. r.rest = SubSeq(slider_frame_encode(FrameCodecs[r.codec], m), Len(r.written) + 1,
                         Len(slider_frame_encode(FrameCodecs[r.codec], m)))
    BY <2>6, <2>9, <2>11 DEF c, E
  <2>14. m \in FrameMessages[r.codec] /\ r.codec # "none" /\ r.at # "idle"
    BY <1>2, <2>11
  <2> QED
    BY <2>11, <2>12, <2>13, <2>14 DEF FrameUnderWay
<1>8. r.at = "decode" /\ r.codec # "none" /\ r.cut = frames.cut /\ r.written = w
  BY <1>2
<1> HIDE DEF r
<1>9. FrameIInv(r)
  BY <1>5, <1>6, <1>7, <1>8 DEF FrameIInv
<1> QED
  BY <1>4, <1>9

(* A board decodes.                                                        *)
LEMMA FrameDecodeKeeps ==
  ASSUME FrameIInv(frames), FrameDecode
  PROVE  FrameIInv(frames')
<1> DEFINE c == FrameCodec  d == slider_frame_decode(c, frames.written)
           at == IF d.hr = "S_OK" THEN "decode" ELSE "idle"
           got == IF d.hr = "S_OK" THEN Append(frames.got, Front(d.dest)) ELSE frames.got
           r == [codec |-> frames.codec, written |-> d.src, rest |-> frames.rest, at |-> at,
                 sent |-> frames.sent, got |-> got, cut |-> frames.cut, bytes |-> frames.bytes]
<1>1. /\ frames \in FrameStates /\ Len(frames.written) <= FrameCapacity
      /\ frames.at = "decode" => frames.codec # "none"
      /\ ~frames.cut => FrameEven(frames) \/ FrameUnderWay(frames)
  BY DEF FrameIInv
<1>2. /\ frames.at = "decode"
      /\ frames' = [frames EXCEPT !.written = d.src, !.at = at, !.got = got]
  BY DEF FrameDecode
<1>3. frames.codec \in DOMAIN FrameCodecs /\ frames.written \in Seq(FrameBytes)
      /\ frames.got \in Seq(Seq(FrameBytes)) /\ frames.codec # "none"
  BY <1>1, <1>2 DEF FrameStates
<1>4. FrameIsCodec(c)
  BY <1>3, FrameCodecIs DEF FrameCodec
<1>5. /\ d.src \in Seq(FrameBytes) /\ Len(d.src) <= Len(frames.written)
      /\ Front(d.dest) \in Seq(FrameBytes)
  BY <1>3, <1>4, FrameDecodeLeaves
<1> HIDE DEF d
<1>6. got \in Seq(Seq(FrameBytes)) /\ at \in {"idle", "decode"}
  BY <1>3, <1>5, AppendProperties
<1>7. d.hr = "S_OK" => at = "decode" /\ got = Append(frames.got, Front(d.dest))
  OBVIOUS
<1>8. d.hr # "S_OK" => at = "idle" /\ got = frames.got
  OBVIOUS
<1> HIDE DEF at, got, c
<1>9. frames' = r
  BY <1>1, <1>2 DEF FrameStates
<1>10. r \in FrameStates
  BY <1>1, <1>5, <1>6 DEF FrameStates
<1>11. /\ r.codec = frames.codec /\ r.written = d.src /\ r.rest = frames.rest /\ r.at = at
       /\ r.sent = frames.sent /\ r.got = got /\ r.cut = frames.cut
  OBVIOUS
<1> HIDE DEF r
<1>12. ASSUME ~frames.cut PROVE FrameEven(r) \/ FrameUnderWay(r)
  <2>1. CASE FrameEven(frames)
    <3>1. frames.rest = <<>> /\ frames.written = <<>> /\ frames.got = frames.sent
      BY <2>1 DEF FrameEven
    <3>2. d.hr = "S_FALSE" /\ d.src = <<>>
      BY <1>4, <3>1, FrameDecodeNothing DEF d
    <3> QED
      BY <1>8, <1>11, <3>1, <3>2 DEF FrameEven
  <2>2. CASE FrameUnderWay(frames)
    <3>1. PICK m \in FrameMessages[frames.codec] :
            LET E == slider_frame_encode(c, m)
            IN  /\ FrameBegins(c, m, frames.written)
                /\ frames.rest = SubSeq(E, Len(frames.written) + 1, Len(E))
                /\ frames.sent = Append(frames.got, m)
      BY <2>2 DEF FrameUnderWay, c, FrameCodec
    <3> DEFINE E == slider_frame_encode(c, m)  n == Len(frames.written)
    <3>2. FrameIsMessage(c, m)
      BY <1>3, FrameCodecIs DEF c, FrameCodec
    <3>3. /\ n = Len(E) => d.hr = "S_OK" /\ Front(d.dest) = m /\ d.src = <<>>
          /\ n # Len(E) => d.hr = "S_FALSE" /\ d.src = frames.written
      BY <1>4, <3>1, <3>2, FrameDecodeTakes DEF d
    <3>4. n \in 0..Len(E)
      BY <1>4, <3>1, <3>2, FrameBeginsWith
    <3>5. \A k \in 0..Len(E) : SubSeq(E, k + 1, Len(E)) = <<>> <=> k = Len(E)
      BY <1>4, <3>2, FrameParts
    <3>6. frames.rest = SubSeq(E, n + 1, Len(E))
      BY <3>1
    <3> HIDE DEF E, n
    <3>7. CASE n = Len(E)
      <4>1. frames.rest = <<>>
        BY <3>4, <3>5, <3>6, <3>7
      <4>2. got = frames.sent
        BY <1>7, <3>1, <3>3, <3>7
      <4> QED
        BY <1>11, <3>3, <3>7, <4>1, <4>2 DEF FrameEven
    <3>8. CASE n # Len(E)
      <4>1. d.src = frames.written /\ got = frames.got
        BY <1>8, <3>3, <3>8
      <4>2. FrameBegins(FrameCodecs[r.codec], m, r.written)
        BY <1>11, <3>1, <4>1 DEF c, FrameCodec
      <4>3. r.rest = SubSeq(slider_frame_encode(FrameCodecs[r.codec], m), Len(r.written) + 1,
                            Len(slider_frame_encode(FrameCodecs[r.codec], m)))
        BY <1>11, <3>6, <4>1 DEF c, FrameCodec, E, n
      <4>4. Len(r.written) # Len(slider_frame_encode(FrameCodecs[r.codec], m))
        BY <1>11, <3>8, <4>1 DEF c, FrameCodec, E, n
      <4>5. m \in FrameMessages[r.codec] /\ r.codec # "none" /\ r.sent = Append(r.got, m)
        BY <1>3, <1>11, <3>1, <4>1
      <4> QED
        BY <4>2, <4>3, <4>4, <4>5 DEF FrameUnderWay
    <3> QED
      BY <3>7, <3>8
  <2> QED
    BY <1>1, <1>12, <2>1, <2>2
<1>13. Len(r.written) <= FrameCapacity
  <2>1. Len(d.src) \in Nat /\ Len(frames.written) \in Nat /\ FrameCapacity \in Nat
    BY <1>3, <1>5, FrameAssumption, LenProperties DEF FrameAssumption
  <2>2. Len(d.src) <= FrameCapacity
    BY <1>1, <1>5, <2>1
  <2> QED
    BY <1>11, <2>2
<1>14. r.codec # "none"
  BY <1>3, <1>11
<1>15. FrameIInv(r)
  BY <1>10, <1>11, <1>12, <1>13, <1>14 DEF FrameIInv
<1> QED
  BY <1>9, <1>15

(* A codec or a frame to take apart is chosen.                             *)
LEMMA FrameUseKeeps ==
  ASSUME FrameIInv(frames), FrameUse
  PROVE  FrameIInv(frames')
<1>1. /\ frames \in FrameStates /\ Len(frames.written) <= FrameCapacity
      /\ frames.at = "decode" => frames.codec # "none"
      /\ ~frames.cut => FrameEven(frames) \/ FrameUnderWay(frames)
  BY DEF FrameIInv
<1>2. frames.codec = "none" /\ frames.at = "idle"
  BY <1>1 DEF FrameUse, FrameStates
<1>3. ~frames.cut => FrameEven(frames)
  BY <1>1, <1>2 DEF FrameUnderWay
<1>4. ASSUME NEW c \in DOMAIN FrameCodecs, frames' = [frames EXCEPT !.codec = c]
      PROVE  FrameIInv(frames')
  <2>1. /\ frames' \in FrameStates
        /\ frames'.written = frames.written /\ frames'.rest = frames.rest
        /\ frames'.at = frames.at /\ frames'.got = frames.got /\ frames'.sent = frames.sent
        /\ frames'.cut = frames.cut
    BY <1>1, <1>4 DEF FrameStates
  <2>2. FrameEven(frames) => FrameEven(frames')
    BY <2>1 DEF FrameEven
  <2> QED
    BY <1>1, <1>2, <1>3, <2>1, <2>2 DEF FrameIInv
<1>5. ASSUME NEW bytes \in FrameSgStrings, frames' = [frames EXCEPT !.bytes = bytes]
      PROVE  FrameIInv(frames')
  <2>1. bytes \in Seq(FrameBytes)
    BY FrameAssumption DEF FrameAssumption
  <2>2. /\ frames' \in FrameStates
        /\ frames'.written = frames.written /\ frames'.rest = frames.rest
        /\ frames'.at = frames.at /\ frames'.got = frames.got /\ frames'.sent = frames.sent
        /\ frames'.cut = frames.cut
    BY <1>1, <1>5, <2>1 DEF FrameStates
  <2>3. FrameEven(frames) => FrameEven(frames')
    BY <2>2 DEF FrameEven
  <2> QED
    BY <1>1, <1>2, <1>3, <2>2, <2>3 DEF FrameIInv
<1> QED
  BY <1>4, <1>5 DEF FrameUse

(* A message is left without its end.                                      *)
LEMMA FrameCutKeeps ==
  ASSUME FrameIInv(frames), FrameCut
  PROVE  FrameIInv(frames')
<1>1. /\ frames \in FrameStates /\ Len(frames.written) <= FrameCapacity
      /\ frames.at = "decode" => frames.codec # "none"
  BY DEF FrameIInv
<1>2. /\ frames.at = "idle"
      /\ frames' = [frames EXCEPT !.rest = <<>>, !.sent = <<>>, !.got = <<>>, !.cut = TRUE]
  BY DEF FrameCut
<1>3. <<>> \in Seq(FrameBytes) /\ <<>> \in Seq(Seq(FrameBytes))
  BY EmptySeq
<1>4. frames' = [codec |-> frames.codec, written |-> frames.written, rest |-> <<>>,
                 at |-> frames.at, sent |-> <<>>, got |-> <<>>, cut |-> TRUE,
                 bytes |-> frames.bytes]
  BY <1>1, <1>2 DEF FrameStates
<1>5. frames' \in FrameStates
  BY <1>1, <1>3, <1>4 DEF FrameStates
<1>6. frames'.written = frames.written /\ frames'.at = "idle" /\ frames'.cut = TRUE
  BY <1>2, <1>4
<1> QED
  BY <1>1, <1>5, <1>6 DEF FrameIInv

(* Each step keeps what holds of the boards and their games.               *)
LEMMA FrameNextKeeps ==
  ASSUME FrameIInv(frames), [FrameNext]_frames
  PROVE  FrameIInv(frames')
<1>1. CASE FrameUse
  BY <1>1, FrameUseKeeps
<1>2. CASE FrameWriteRest
  BY <1>2, FrameWriteRestKeeps
<1>3. CASE FrameCut
  BY <1>3, FrameCutKeeps
<1>4. CASE FrameDecode
  BY <1>4, FrameDecodeKeeps
<1>5. ASSUME NEW m \in FrameMessages[frames.codec],
             NEW n \in 1..Len(slider_frame_encode(FrameCodec, m)), FrameWrite(m, n)
      PROVE  FrameIInv(frames')
  BY <1>5, FrameWriteKeeps
<1>6. CASE UNCHANGED frames
  BY <1>6
<1> QED
  BY <1>1, <1>2, <1>3, <1>4, <1>5, <1>6 DEF FrameNext

(* At the start nothing is under way.                                      *)
LEMMA FrameBeginsEven == FrameInit => FrameIInv(frames)
<1> SUFFICES ASSUME FrameInit PROVE FrameIInv(frames)
  OBVIOUS
<1>1. frames = FrameIdle
  BY DEF FrameInit
<1>2. <<>> \in Seq(FrameBytes) /\ <<>> \in Seq(Seq(FrameBytes)) /\ Len(<<>>) = 0
  BY EmptySeq
<1>3. FrameCapacity \in Nat /\ 0 <= FrameCapacity
  BY FrameAssumption DEF FrameAssumption
<1>4. FrameIdle \in FrameStates
  BY <1>2 DEF FrameIdle, FrameStates
<1>5. /\ FrameIdle.written = <<>> /\ FrameIdle.rest = <<>> /\ FrameIdle.at = "idle"
      /\ FrameIdle.got = FrameIdle.sent
  BY DEF FrameIdle
<1>6. FrameEven(FrameIdle)
  BY <1>5 DEF FrameEven
<1> HIDE DEF FrameIdle
<1>7. FrameIInv(FrameIdle)
  BY <1>2, <1>3, <1>4, <1>5, <1>6 DEF FrameIInv
<1> QED
  BY <1>1, <1>7

(* A frame behind others, as FrameResumes says it of one state.            *)
FrameFinds ==
  frames.at = "decode" /\ frames.codec # "none" =>
    \A m \in FrameMessages[frames.codec] :
      LET bytes == slider_frame_encode(FrameCodec, m)
          before == Len(frames.written) - Len(bytes)
      IN  before >= Len(bytes)
          /\ SubSeq(frames.written, before + 1, Len(frames.written)) = bytes
          /\ (\A i \in 1..before : frames.written[i] # FrameCodec.sync)
          => Front(slider_frame_decode(FrameCodec, frames.written).dest) = m

(* It is found in every state.                                             *)
LEMMA FrameFindsAll == FrameIInv(frames) => FrameFinds
<1> SUFFICES ASSUME FrameIInv(frames), frames.codec # "none",
                    NEW m \in FrameMessages[frames.codec],
                    Len(frames.written) - Len(slider_frame_encode(FrameCodec, m))
                      >= Len(slider_frame_encode(FrameCodec, m)),
                    SubSeq(frames.written,
                           Len(frames.written) - Len(slider_frame_encode(FrameCodec, m)) + 1,
                           Len(frames.written)) = slider_frame_encode(FrameCodec, m),
                    \A i \in 1..Len(frames.written) - Len(slider_frame_encode(FrameCodec, m)) :
                      frames.written[i] # FrameCodec.sync
             PROVE  Front(slider_frame_decode(FrameCodec, frames.written).dest) = m
  BY DEF FrameFinds
<1> DEFINE c == FrameCodec  E == slider_frame_encode(c, m)  given == frames.written
           before == Len(given) - Len(E)
<1>1. given \in Seq(FrameBytes) /\ frames.codec \in DOMAIN FrameCodecs
  BY DEF FrameIInv, FrameStates
<1>2. FrameIsCodec(c) /\ FrameIsMessage(c, m)
  BY <1>1, FrameCodecIs DEF FrameCodec
<1>3. E \in Seq(FrameBytes) /\ E # <<>> /\ E[1] = c.sync
  <2>1. /\ E \in Seq(FrameBytes) /\ E[1] = c.sync
        /\ Len(E) = 1 + Len(FrameStuffed(c, FrameBody(c, m)))
        /\ Len(FrameStuffed(c, FrameBody(c, m))) \in Nat
    BY <1>2, FrameEncodeIs
  <2> HIDE DEF E
  <2>2. Len(E) # 0
    BY <2>1
  <2> QED
    BY <2>1, <2>2, EmptySeq
<1>4. before >= Len(E) /\ SubSeq(given, before + 1, Len(given)) = E
      /\ \A i \in 1..before : given[i] # c.sync
  OBVIOUS
<1>5. before = Len(given) - Len(E)
  OBVIOUS
<1> HIDE DEF before, E, given, c
<1>6. slider_frame_sync(c, given) = E
  BY <1>1, <1>3, <1>4, <1>5, FrameSyncBehind
<1>7. slider_frame_sync(c, E) = E
  BY <1>3, FrameSyncKeeps
<1>8. slider_frame_decode(c, given) = slider_frame_decode(c, E)
  BY <1>6, <1>7 DEF slider_frame_decode
<1>9. FrameBegins(c, m, E)
  BY <1>3, LenProperties DEF FrameBegins, E
<1>10. Front(slider_frame_decode(c, E).dest) = m
  BY <1>2, <1>9, FrameDecodeTakes DEF E
<1> QED
  BY <1>8, <1>10 DEF c, given

(* What the invariant says of the boards and of the frames of the readers. *)
LEMMA FrameIInvIs ==
  FrameIInv(frames) => FrameTypeOK /\ FrameDelivers /\ FrameSgChecked /\ FrameWholeDelivers
<1> SUFFICES ASSUME FrameIInv(frames)
             PROVE  FrameTypeOK /\ FrameDelivers /\ FrameSgChecked /\ FrameWholeDelivers
  OBVIOUS
<1>1. /\ frames \in FrameStates /\ Len(frames.written) <= FrameCapacity
      /\ frames.at = "decode" => frames.codec # "none"
      /\ ~frames.cut => FrameEven(frames) \/ FrameUnderWay(frames)
  BY DEF FrameIInv
<1>2. /\ frames.written \in Seq(FrameBytes) /\ frames.bytes \in Seq(FrameBytes)
      /\ frames.codec \in DOMAIN FrameCodecs \cup {"none"}
  BY <1>1 DEF FrameStates
<1>3. FrameTypeOK
  BY <1>1, <1>2, ElementOfSeq DEF FrameTypeOK
<1>4. FrameDelivers
  <2> SUFFICES ASSUME ~frames.cut, frames.at = "idle", frames.rest = <<>>
               PROVE  frames.got = frames.sent
    BY DEF FrameDelivers
  <2>1. CASE FrameEven(frames)
    BY <2>1 DEF FrameEven
  <2>2. ASSUME FrameUnderWay(frames) PROVE FALSE
    <3> DEFINE c == FrameCodecs[frames.codec]  n == Len(frames.written)
    <3>1. frames.codec # "none"
      BY <2>2 DEF FrameUnderWay
    <3>2. PICK m \in FrameMessages[frames.codec] :
            LET E == slider_frame_encode(c, m)
            IN  /\ FrameBegins(c, m, frames.written)
                /\ frames.rest = SubSeq(E, n + 1, Len(E)) /\ n # Len(E)
      BY <2>2 DEF FrameUnderWay
    <3>3. FrameIsCodec(c) /\ FrameIsMessage(c, m)
      BY <1>2, <3>1, FrameCodecIs
    <3> HIDE DEF c
    <3> DEFINE E == slider_frame_encode(c, m)
    <3>4. n \in 0..Len(E)
      BY <3>2, <3>3, FrameBeginsWith
    <3>5. \A k \in 0..Len(E) : SubSeq(E, k + 1, Len(E)) = <<>> <=> k = Len(E)
      BY ONLY <3>3, FrameParts
    <3>6. frames.rest = SubSeq(E, n + 1, Len(E)) /\ n # Len(E)
      BY <3>2
    <3> HIDE DEF E, n
    <3> QED
      BY <3>4, <3>5, <3>6
  <2> QED
    BY <1>1, <2>1, <2>2
<1>5. FrameSgChecked
  BY <1>2, FrameSgChecks DEF FrameSgChecked
<1>6. FrameWholeDelivers
  BY <1>2, FrameJvsDelivers, FrameSgDelivers DEF FrameWholeDelivers
<1> QED
  BY <1>3, <1>4, <1>5, <1>6

(* The codecs of the serial boards: a message that a game wrote whole, in  *)
(* one write or in two, is decoded as it was, each once and in their       *)
(* order, whatever bytes are in it; a frame is found behind bytes that are *)
(* none; a request that a reader dispatches has its checksum or none; and  *)
(* what is framed for the bus or for a reader comes out as it was.  For    *)
(* every width of a byte, codec, message and request.                      *)
THEOREM CodecsAreRight == FrameSpec => FramesAreRight
<1>1. FrameIInv(frames) /\ [FrameNext]_frames => FrameIInv(frames)'
  <2> SUFFICES ASSUME FrameIInv(frames), [FrameNext]_frames PROVE FrameIInv(frames)'
    OBVIOUS
  <2>1. FrameIInv(frames')
    BY FrameNextKeeps
  <2> QED
    BY <2>1 DEF FrameIInv, FrameEven, FrameUnderWay, FrameBegins, FrameStates
<1>2. FrameSpec => []FrameIInv(frames)
  BY <1>1, FrameBeginsEven, PTL DEF FrameSpec
<1>3. FrameFinds =>
        [frames.at = "decode" /\ frames.codec # "none" =>
           \A m \in FrameMessages[frames.codec] :
             LET bytes == slider_frame_encode(FrameCodec, m)
                 before == Len(frames.written) - Len(bytes)
             IN  before >= Len(bytes)
                 /\ SubSeq(frames.written, before + 1, Len(frames.written)) = bytes
                 /\ (\A i \in 1..before : frames.written[i] # FrameCodec.sync)
                 => Front(slider_frame_decode(FrameCodec, frames.written).dest) = m]_frames
  BY DEF FrameFinds
<1>4. FrameSpec => FrameResumes
  BY <1>2, <1>3, FrameFindsAll, PTL DEF FrameResumes
<1> QED
  BY <1>2, <1>4, FrameIInvIs, PTL DEF FramesAreRight

===================================================================================
