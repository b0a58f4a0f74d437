--------------------------- MODULE Mai2TouchProofs ---------------------------
(***************************************************************************)
(* What holds of Mai2Touch for every number of panels, requests, I/O       *)
(* threads, buffer size and read size.                                     *)
(***************************************************************************)
EXTENDS Mai2Touch, FiniteSetTheorems, TLAPS

-----------------------------------------------------------------------------
(* Type correctness.  While a player's thread is being created or joined,  *)
(* there is a player: without that, next could run past the last one.      *)

CallInv == \A p \in Port : at[p] \in {"create", "join"} => next[p] \in Port

TypeInv == TypeOK /\ CallInv

(* touch_shift_read keeps the buffer and the frame position in range.      *)
LEMMA ShiftKeepsType ==
  ASSUME PortTypeOK, NEW p \in Port, NEW n \in ReadSizes, touch_shift_read(p, n)
  PROVE  /\ readable' \in [Port -> 0..ReadableSize]
         /\ auto_scan' \in [Port -> [frame : FrameId, pos : 0..FrameSize, valid : BOOLEAN]]
         /\ heard' \in [Port -> [frame : FrameId, pos : 0..FrameSize]]
<1> USE TouchAssumption DEF PortTypeOK
<1>1. n \in Nat \ {0}
  OBVIOUS
<1>2. CASE readable[p] > 0
  <2>1. readable[p] - Lesser(n, readable[p]) \in 0..ReadableSize
    BY <1>1, <1>2 DEF Lesser
  <2>2. QED
    BY <1>2, <2>1 DEF touch_shift_read
<1>3. CASE readable[p] = 0
  <2> DEFINE end == auto_scan[p].pos + Lesser(n, FrameSize - auto_scan[p].pos)
  <2>1. end \in 0..FrameSize
    BY <1>1 DEF Lesser
  <2>2. auto_scan' = [auto_scan EXCEPT ![p] =
          [frame |-> auto_scan[p].frame,
           pos   |-> IF end = FrameSize THEN 0 ELSE end,
           valid |-> end # FrameSize]]
    BY <1>3 DEF touch_shift_read
  <2>3. heard' = [heard EXCEPT ![p] = [frame |-> auto_scan[p].frame, pos |-> end]]
    BY <1>3 DEF touch_shift_read
  <2>4. readable' = readable
    BY <1>3 DEF touch_shift_read
  <2> HIDE DEF end
  <2>5. QED
    BY <2>1, <2>2, <2>3, <2>4
<1>4. QED
  BY <1>2, <1>3

(* touch_clear_auto_scan keeps the frame in range.                         *)
LEMMA ClearKeepsType ==
  ASSUME PortTypeOK, NEW p \in Port, touch_clear_auto_scan(p)
  PROVE  auto_scan' \in [Port -> [frame : FrameId, pos : 0..FrameSize, valid : BOOLEAN]]
  BY TouchAssumption DEF PortTypeOK, touch_clear_auto_scan

(* Flushing a port leaves every OVERLAPPED pending or answered.            *)
LEMMA ReleaseKeepsType ==
  ASSUME RequestTypeOK, NEW p \in Port, touch_release_pending_read(p)
  PROVE  /\ pending' \in [Port -> Seq(Ovl)]
         /\ ovl' \in [Ovl -> {"pending", "success"}]
         /\ unsignalled' \in [Port -> SUBSET Ovl]
<1>1. Waiting(pending[p]) \subseteq Ovl
  BY DEF RequestTypeOK, Waiting
<1>2. QED
  BY <1>1 DEF RequestTypeOK, touch_release_pending_read

(* The buffer sizes recorded for queued reads are read sizes.              *)
LEMMA HeadReadSize ==
  ASSUME RequestTypeOK, NEW p \in Port, pending[p] # <<>>
  PROVE  Head(pending[p]) \in Ovl /\ nbytes[Head(pending[p])] \in ReadSizes
  BY DEF RequestTypeOK

(* The device side of a port keeps its type.                               *)
LEMMA PortTypeStep == TypeInv /\ [Next]_vars => PortTypeOK'
<1> SUFFICES ASSUME TypeInv, [Next]_vars PROVE PortTypeOK'
  OBVIOUS
<1> USE DEF TypeInv, TypeOK, PortTypeOK
<1>1. ASSUME NEW p \in Port, Open(p)
     PROVE  PortTypeOK'
  BY <1>1, ClearKeepsType DEF Open
<1>2. ASSUME NEW p \in Port, Close(p)
     PROVE  PortTypeOK'
  BY <1>2, ClearKeepsType DEF Close
<1>3. ASSUME NEW p \in Port, NEW n \in ReadSizes, ReadNow(p, n)
     PROVE  PortTypeOK'
  BY <1>3, ShiftKeepsType DEF ReadNow
<1>4. ASSUME NEW p \in Port, NEW c \in Commands, StatOrHalt(p, c)
     PROVE  PortTypeOK'
  BY <1>4 DEF StatOrHalt
<1>5. ASSUME NEW p \in Port, touch_enqueue_reply(p)
     PROVE  PortTypeOK'
  BY <1>5, TouchAssumption DEF touch_enqueue_reply
<1>6. ASSUME NEW p \in Port, touch_complete_pending_read(p)
     PROVE  PortTypeOK'
  BY <1>6, ShiftKeepsType, HeadReadSize DEF RequestTypeOK, touch_complete_pending_read
<1>7. ASSUME NEW p \in Port, UpdateDone(p)
     PROVE  PortTypeOK'
  <2>1. CASE ~status[p]
    <3>1. touch_clear_auto_scan(p)
      BY <1>7, <2>1 DEF UpdateDone
    <3>2. QED
      BY <1>7, <3>1, ClearKeepsType DEF UpdateDone
  <2>2. QED
    BY <1>7, <2>1 DEF UpdateDone
<1>8. ASSUME NEW t \in IoThread, touch_auto_scan(t)
     PROVE  PortTypeOK'
  <2>1. PICK p \in Port : p = ioPort[t]
    BY DEF IoTypeOK
  <2>2. (auto_scan[p].frame + 1) % FrameIds \in FrameId
    BY TouchAssumption DEF FrameId
  <2>3. CASE status[p]
    <3>1. auto_scan' = [auto_scan EXCEPT ![p] =
            [frame |-> (auto_scan[p].frame + 1) % FrameIds, pos |-> 0, valid |-> TRUE]]
      BY <1>8, <2>1, <2>3 DEF touch_auto_scan
    <3>2. auto_scan' \in [Port -> [frame : FrameId, pos : 0..FrameSize, valid : BOOLEAN]]
      BY <2>2, <3>1, TouchAssumption
    <3>3. QED
      BY <1>8, <3>2 DEF touch_auto_scan
  <2>4. CASE ~status[p]
    BY <1>8, <2>1, <2>4 DEF touch_auto_scan
  <2>5. QED
    BY <2>3, <2>4
<1>9. ASSUME UNCHANGED <<fd, status, readable, auto_scan, heard>> PROVE PortTypeOK'
  BY <1>9
<1>10. QED
  BY <1>1, <1>2, <1>3, <1>4, <1>5, <1>6, <1>7, <1>8, <1>9
   DEF Next,
    Request, Inside, vars, data, requests, call, io, Enter, Goto, ReadLater,
    Signal, Leave, ReadArgs, UpdateTest, UpdateCreate, UpdateJoin, IoCheck

(* The request side of a port keeps its type.                              *)
LEMMA RequestTypeStep == TypeInv /\ [Next]_vars => RequestTypeOK'
<1> SUFFICES ASSUME TypeInv, [Next]_vars PROVE RequestTypeOK'
  OBVIOUS
<1> USE DEF TypeInv, TypeOK, RequestTypeOK, requests
<1>1. ASSUME NEW p \in Port, Open(p)
     PROVE  RequestTypeOK'
  BY <1>1, ReleaseKeepsType DEF Open
<1>2. ASSUME NEW p \in Port, Close(p)
     PROVE  RequestTypeOK'
  BY <1>2, ReleaseKeepsType DEF Close
<1>3. ASSUME NEW p \in Port, NEW o \in Ovl, NEW n \in ReadSizes, ReadLater(p, o, n)
     PROVE  RequestTypeOK'
  BY <1>3 DEF ReadLater
<1>4. ASSUME NEW p \in Port, touch_complete_pending_read(p)
     PROVE  RequestTypeOK'
  BY <1>4 DEF touch_complete_pending_read
<1>5. ASSUME NEW p \in Port, Signal(p)
     PROVE  RequestTypeOK'
  <2>1. event' \in [Ovl -> BOOLEAN]
    BY <1>5, Zenon DEF Signal
  <2>2. /\ unsignalled' \in [Port -> SUBSET Ovl]
        /\ UNCHANGED <<pending, nbytes, ovl>>
    BY <1>5 DEF Signal, data
  <2>3. QED
    BY <2>1, <2>2
<1>6. ASSUME NEW p \in Port, UpdateDone(p)
     PROVE  RequestTypeOK'
  BY <1>6, ReleaseKeepsType DEF UpdateDone
<1>7. ASSUME UNCHANGED <<pending, nbytes, ovl, event, unsignalled>> PROVE RequestTypeOK'
  BY <1>7
<1>8. QED
  BY <1>1, <1>2, <1>3, <1>4, <1>5, <1>6, <1>7
   DEF Next, Request, Inside,
    vars, data, requests, call, io, Enter, Goto, ReadNow, StatOrHalt,
    touch_enqueue_reply, Leave, ReadArgs, UpdateTest, UpdateCreate,
    UpdateJoin, IoCheck, touch_auto_scan

(* The lock and the running touch_update keep their types.                 *)
LEMMA CallTypeStep == TypeInv /\ [Next]_vars => CallTypeOK'
<1> SUFFICES ASSUME TypeInv, [Next]_vars PROVE CallTypeOK'
  OBVIOUS
<1> USE DEF TypeInv, TypeOK, CallTypeOK, Step, Enter, Goto, call
<1>1. ASSUME NEW p \in Port, Open(p)
     PROVE  CallTypeOK'
  BY <1>1 DEF Open
<1>2. ASSUME NEW p \in Port, Close(p)
     PROVE  CallTypeOK'
  BY <1>2 DEF Close
<1>3. ASSUME NEW p \in Port, NEW c \in Commands, StatOrHalt(p, c)
     PROVE  CallTypeOK'
  BY <1>3 DEF StatOrHalt
<1>4. ASSUME NEW p \in Port, touch_enqueue_reply(p)
     PROVE  CallTypeOK'
  BY <1>4 DEF touch_enqueue_reply
<1>5. ASSUME NEW p \in Port, Leave(p)
     PROVE  CallTypeOK'
  BY <1>5 DEF Leave
<1>6. ASSUME NEW p \in Port, ReadArgs(p)
     PROVE  CallTypeOK'
  <2>1. status \in [Port -> BOOLEAN] /\ 1 \in 1..(NPorts + 1)
    BY TouchAssumption DEF PortTypeOK
  <2>2. QED
    BY <1>6, <2>1 DEF ReadArgs
<1>7. ASSUME NEW p \in Port, UpdateTest(p)
     PROVE  CallTypeOK'
  <2>1. PICK q \in Port : q = next[p]
    BY <1>7 DEF UpdateTest
  <2>2. q + 1 \in 1..(NPorts + 1) /\ handle[q] \in IoThread \cup {NULL}
    BY TouchAssumption DEF Port, IoTypeOK
  <2>3. CASE args[p][q] <=> handle[q] # NULL
    BY <1>7, <2>1, <2>2, <2>3 DEF UpdateTest
  <2>4. CASE args[p][q] /\ handle[q] = NULL
    BY <1>7, <2>1, <2>2, <2>4 DEF UpdateTest
  <2>5. CASE ~args[p][q] /\ handle[q] # NULL
    BY <1>7, <2>1, <2>2, <2>5 DEF UpdateTest
  <2>6. QED
    BY <2>3, <2>4, <2>5
<1>8. ASSUME NEW p \in Port, NEW t \in IoThread, UpdateCreate(p, t)
     PROVE  CallTypeOK'
  BY <1>8, TouchAssumption DEF UpdateCreate, CallInv, Port
<1>9. ASSUME NEW p \in Port, UpdateJoin(p)
     PROVE  CallTypeOK'
  BY <1>9, TouchAssumption DEF UpdateJoin, CallInv, Port
<1>10. ASSUME NEW p \in Port, UpdateDone(p)
     PROVE  CallTypeOK'
  BY <1>10 DEF UpdateDone
<1>11. ASSUME NEW t \in IoThread, touch_auto_scan(t)
     PROVE  CallTypeOK'
  <2>1. PICK p \in Port : p = ioPort[t]
    BY DEF IoTypeOK
  <2>2. QED
    BY <1>11, <2>1 DEF touch_auto_scan
<1>12. ASSUME UNCHANGED <<owner, at, args, next, waitFor>> PROVE CallTypeOK'
  BY <1>12
<1>13. QED
  BY <1>1, <1>2, <1>3, <1>4, <1>5, <1>6, <1>7, <1>8, <1>9, <1>10, <1>11, <1>12
   DEF
    Next, Request, Inside, vars, data, requests, call, io, Enter, Goto,
    ReadNow, ReadLater, touch_complete_pending_read, Signal, IoCheck

(* The I/O threads keep their types.                                       *)
LEMMA IoTypeStep == TypeInv /\ [Next]_vars => IoTypeOK'
<1> SUFFICES ASSUME TypeInv, [Next]_vars PROVE IoTypeOK'
  OBVIOUS
<1> USE DEF TypeInv, TypeOK, IoTypeOK, CallInv, io
<1>1. ASSUME NEW p \in Port, Leave(p)
     PROVE  IoTypeOK'
  BY <1>1 DEF Leave
<1>2. ASSUME NEW p \in Port, UpdateTest(p)
     PROVE  IoTypeOK'
  BY <1>2 DEF UpdateTest
<1>3. ASSUME NEW p \in Port, NEW t \in IoThread, UpdateCreate(p, t)
     PROVE  IoTypeOK'
  BY <1>3 DEF UpdateCreate
<1>4. ASSUME NEW p \in Port, UpdateJoin(p)
     PROVE  IoTypeOK'
  BY <1>4 DEF UpdateJoin
<1>5. ASSUME NEW t \in IoThread, IoCheck(t)
     PROVE  IoTypeOK'
  BY <1>5 DEF IoCheck
<1>6. ASSUME NEW t \in IoThread, touch_auto_scan(t)
     PROVE  IoTypeOK'
  BY <1>6 DEF touch_auto_scan
<1>7. ASSUME UNCHANGED <<handle, stop_flag, iopc, ioPort>> PROVE IoTypeOK'
  BY <1>7
<1>8. QED
  BY <1>1, <1>2, <1>3, <1>4, <1>5, <1>6, <1>7
   DEF Next, Request, Inside,
    vars, data, requests, call, io, Enter, Goto, Open, Close, ReadNow,
    ReadLater, StatOrHalt, touch_enqueue_reply, touch_complete_pending_read,
    Signal, ReadArgs, UpdateDone

(* A thread is created or joined for an existing player.                   *)
LEMMA CallInvStep == TypeInv /\ [Next]_vars => CallInv'
<1> SUFFICES ASSUME TypeInv, [Next]_vars PROVE CallInv'
  OBVIOUS
<1> USE DEF TypeInv, TypeOK, CallTypeOK, CallInv, Enter, Goto, call
<1>1. ASSUME NEW p \in Port, Open(p)
     PROVE  CallInv'
  BY <1>1 DEF Open
<1>2. ASSUME NEW p \in Port, Close(p)
     PROVE  CallInv'
  BY <1>2 DEF Close
<1>3. ASSUME NEW p \in Port, NEW c \in Commands, StatOrHalt(p, c)
     PROVE  CallInv'
  BY <1>3 DEF StatOrHalt
<1>4. ASSUME NEW p \in Port, touch_enqueue_reply(p)
     PROVE  CallInv'
  BY <1>4 DEF touch_enqueue_reply
<1>5. ASSUME NEW p \in Port, Leave(p)
     PROVE  CallInv'
  BY <1>5 DEF Leave
<1>6. ASSUME NEW p \in Port, ReadArgs(p)
     PROVE  CallInv'
  BY <1>6 DEF ReadArgs
<1>7. ASSUME NEW p \in Port, UpdateTest(p)
     PROVE  CallInv'
  <2>1. PICK q \in Port : q = next[p]
    BY <1>7 DEF UpdateTest
  <2>2. q + 1 \in 1..(NPorts + 1) /\ handle[q] \in IoThread \cup {NULL}
    BY TouchAssumption DEF Port, IoTypeOK
  <2>3. CASE args[p][q] <=> handle[q] # NULL
    BY <1>7, <2>1, <2>2, <2>3 DEF UpdateTest
  <2>4. CASE args[p][q] /\ handle[q] = NULL
    BY <1>7, <2>1, <2>2, <2>4 DEF UpdateTest
  <2>5. CASE ~args[p][q] /\ handle[q] # NULL
    BY <1>7, <2>1, <2>2, <2>5 DEF UpdateTest
  <2>6. QED
    BY <2>3, <2>4, <2>5
<1>8. ASSUME NEW p \in Port, NEW t \in IoThread, UpdateCreate(p, t)
     PROVE  CallInv'
  BY <1>8 DEF UpdateCreate
<1>9. ASSUME NEW p \in Port, UpdateJoin(p)
     PROVE  CallInv'
  BY <1>9 DEF UpdateJoin
<1>10. ASSUME NEW p \in Port, UpdateDone(p)
     PROVE  CallInv'
  BY <1>10 DEF UpdateDone
<1>11. ASSUME NEW t \in IoThread, touch_auto_scan(t)
     PROVE  CallInv'
  BY <1>11 DEF touch_auto_scan, IoTypeOK
<1>12. ASSUME UNCHANGED <<at, next>> PROVE CallInv'
  BY <1>12
<1>13. QED
  BY <1>1, <1>2, <1>3, <1>4, <1>5, <1>6, <1>7, <1>8, <1>9, <1>10, <1>11, <1>12
   DEF
    Next, Request, Inside, vars, data, requests, call, io, Enter, Goto,
    ReadNow, ReadLater, touch_complete_pending_read, Signal, IoCheck

(* The variables keep their types.                                         *)
THEOREM TypeCorrect == Spec => []TypeOK
<1>1. Init => TypeInv
  BY TouchAssumption DEF Init, TypeInv, TypeOK, PortTypeOK, RequestTypeOK, CallTypeOK,
    IoTypeOK, CallInv, Port, FrameId, Step
<1>2. TypeInv /\ [Next]_vars => TypeInv'
  BY PortTypeStep, RequestTypeStep, CallTypeStep, IoTypeStep, CallInvStep DEF TypeInv, TypeOK
<1>3. TypeInv => TypeOK
  BY DEF TypeInv
<1>4. QED
  BY <1>1, <1>2, <1>3, PTL DEF Spec

-----------------------------------------------------------------------------
(* The safety invariant.                                                   *)

(* touch_Np_lock has an owner exactly while that owner is somewhere inside *)
(* it.                                                                     *)
LockInv == \A p \in Port : owner[p] = Nobody <=> at[p] = "free"

(* Only the owner of a lock has answers left to signal; they answer        *)
(* requests of its own port, whose Internal is already stored.             *)
SignalInv ==
  \A p \in Port :
    /\ unsignalled[p] # {} => at[p] \in {"drain", "leave"}
    /\ \A o \in unsignalled[p] : HomePort[o] = p /\ ovl[o] = "success"

(* A port queues the game's reads of that port only.                       *)
HomeInv == \A p \in Port : \A o \in Waiting(pending[p]) : HomePort[o] = p

(* A halted port is quiet as soon as HALT or CLOSE is past its flush.      *)
QuietInv ==
  \A p \in Port :
    ~status[p] /\ at[p] \notin {"args", "update", "create", "join"}
      => pending[p] = <<>> /\ ~auto_scan[p].valid

IInv ==
  /\ TypeInv
  /\ LockInv
  /\ SignalInv
  /\ HomeInv
  /\ QuietInv
  /\ NoReadStranded
  /\ EventMeansAnswered
  /\ NoSplicedFrame

(* Every step keeps the lock and its owner in step.                        *)
LEMMA LockStep == IInv /\ [Next]_vars => LockInv'
<1> SUFFICES ASSUME IInv, [Next]_vars PROVE LockInv'
  OBVIOUS
<1> USE DEF IInv, TypeInv, TypeOK, CallTypeOK, LockInv, Enter, Goto, call
<1>1. ASSUME NEW p \in Port, Open(p)
     PROVE  LockInv'
  BY <1>1, TouchAssumption DEF Open, GameMayEnter
<1>2. ASSUME NEW p \in Port, Close(p)
     PROVE  LockInv'
  BY <1>2, TouchAssumption DEF Close, GameMayEnter
<1>3. ASSUME NEW p \in Port, NEW c \in Commands, StatOrHalt(p, c)
     PROVE  LockInv'
  BY <1>3, TouchAssumption DEF StatOrHalt, GameMayEnter
<1>4. ASSUME NEW p \in Port, touch_enqueue_reply(p)
     PROVE  LockInv'
  BY <1>4, TouchAssumption DEF touch_enqueue_reply, GameMayEnter
<1>5. ASSUME NEW p \in Port, Leave(p)
     PROVE  LockInv'
  BY <1>5, TouchAssumption DEF Leave
<1>6. ASSUME NEW p \in Port, ReadArgs(p)
     PROVE  LockInv'
  BY <1>6, TouchAssumption DEF ReadArgs
<1>7. ASSUME NEW p \in Port, UpdateTest(p)
     PROVE  LockInv'
  BY <1>7, TouchAssumption DEF UpdateTest
<1>8. ASSUME NEW p \in Port, NEW t \in IoThread, UpdateCreate(p, t)
     PROVE  LockInv'
  BY <1>8, TouchAssumption DEF UpdateCreate
<1>9. ASSUME NEW p \in Port, UpdateJoin(p)
     PROVE  LockInv'
  BY <1>9, TouchAssumption DEF UpdateJoin
<1>10. ASSUME NEW p \in Port, UpdateDone(p)
     PROVE  LockInv'
  BY <1>10, TouchAssumption DEF UpdateDone
<1>11. ASSUME NEW t \in IoThread, touch_auto_scan(t)
     PROVE  LockInv'
  BY <1>11, TouchAssumption DEF touch_auto_scan, IoTypeOK
<1>12. ASSUME UNCHANGED <<owner, at>> PROVE LockInv'
  BY <1>12
<1>13. QED
  BY <1>1, <1>2, <1>3, <1>4, <1>5, <1>6, <1>7, <1>8, <1>9, <1>10, <1>11, <1>12
   DEF
    Next, Request, Inside, vars, data, requests, call, io, Enter, Goto,
    ReadNow, ReadLater, touch_complete_pending_read, Signal, IoCheck

(* SetEvent is always still owed to an answered request of the own port.   *)
LEMMA SignalStep == IInv /\ [Next]_vars => SignalInv'
<1> SUFFICES ASSUME IInv, [Next]_vars PROVE SignalInv'
  OBVIOUS
<1> USE DEF IInv, TypeInv, TypeOK, CallTypeOK, LockInv, SignalInv, HomeInv,
    RequestTypeOK, Enter, Goto, call, requests
<1>1. ASSUME NEW p \in Port, Open(p)
     PROVE  SignalInv'
  BY <1>1 DEF Open, GameMayEnter, touch_release_pending_read, Waiting
<1>2. ASSUME NEW p \in Port, Close(p)
     PROVE  SignalInv'
  BY <1>2 DEF Close, GameMayEnter, touch_release_pending_read, Waiting
<1>3. ASSUME NEW p \in Port, NEW o \in Ovl, NEW n \in ReadSizes, ReadLater(p, o, n)
     PROVE  SignalInv'
  BY <1>3 DEF ReadLater, GameMayEnter
<1>4. ASSUME NEW p \in Port, NEW c \in Commands, StatOrHalt(p, c)
     PROVE  SignalInv'
  BY <1>4 DEF StatOrHalt, GameMayEnter
<1>5. ASSUME NEW p \in Port, touch_enqueue_reply(p)
     PROVE  SignalInv'
  BY <1>5 DEF touch_enqueue_reply, GameMayEnter
<1>6. ASSUME NEW p \in Port, touch_complete_pending_read(p)
     PROVE  SignalInv'
  BY <1>6 DEF touch_complete_pending_read, Waiting
<1>7. ASSUME NEW p \in Port, Signal(p)
     PROVE  SignalInv'
  BY <1>7 DEF Signal
<1>8. ASSUME NEW p \in Port, Leave(p)
     PROVE  SignalInv'
  BY <1>8 DEF Leave
<1>9. ASSUME NEW p \in Port, ReadArgs(p)
     PROVE  SignalInv'
  BY <1>9 DEF ReadArgs
<1>10. ASSUME NEW p \in Port, UpdateTest(p)
     PROVE  SignalInv'
  <2>1. /\ at[p] = "update"
        /\ \/ at' = at
           \/ at' = [at EXCEPT ![p] = "create"]
           \/ at' = [at EXCEPT ![p] = "join"]
        /\ UNCHANGED <<unsignalled, ovl>>
    BY <1>10 DEF UpdateTest
  <2>2. SignalInv /\ unsignalled[p] = {}
    BY <2>1
  <2>3. \A q \in Port : q = p \/ at'[q] = at[q]
    BY <2>1
  <2>4. unsignalled' = unsignalled /\ ovl' = ovl
    BY <2>1
  <2>5. QED
    BY ONLY <2>2, <2>3, <2>4 DEF SignalInv
<1>11. ASSUME NEW p \in Port, NEW t \in IoThread, UpdateCreate(p, t)
     PROVE  SignalInv'
  BY <1>11 DEF UpdateCreate
<1>12. ASSUME NEW p \in Port, UpdateJoin(p)
     PROVE  SignalInv'
  BY <1>12 DEF UpdateJoin
<1>13. ASSUME NEW p \in Port, UpdateDone(p)
     PROVE  SignalInv'
  <2>1. at[p] = "update" /\ unsignalled[p] = {}
    BY <1>13 DEF UpdateDone
  <2>2. CASE status[p]
    BY <1>13, <2>1, <2>2 DEF UpdateDone
  <2>3. CASE ~status[p]
    <3>1. touch_release_pending_read(p) /\ at' = [at EXCEPT ![p] = "leave"]
      BY <1>13, <2>3 DEF UpdateDone
    <3>2. QED
      BY <3>1 DEF touch_release_pending_read, Waiting
  <2>4. QED
    BY <2>2, <2>3
<1>14. ASSUME NEW t \in IoThread, touch_auto_scan(t)
     PROVE  SignalInv'
  BY <1>14 DEF touch_auto_scan, IoTypeOK
<1>15. ASSUME UNCHANGED <<unsignalled, at, ovl>> PROVE SignalInv'
  BY <1>15
<1>16. QED
  BY <1>1, <1>2, <1>3, <1>4, <1>5, <1>6, <1>7, <1>8, <1>9, <1>10, <1>11, <1>12, <1>13, <1>14, <1>15
   DEF
    Next, Request, Inside, vars, data, requests, call, io, Enter, Goto,
    ReadNow, IoCheck

(* Reads are queued at the port they were made on.                         *)
LEMMA HomeStep == IInv /\ [Next]_vars => HomeInv'
<1> SUFFICES ASSUME IInv, [Next]_vars PROVE HomeInv'
  OBVIOUS
<1> USE DEF IInv, TypeInv, TypeOK, RequestTypeOK, HomeInv, Waiting
<1>1. ASSUME NEW p \in Port, Open(p)
     PROVE  HomeInv'
  BY <1>1 DEF Open, touch_release_pending_read
<1>2. ASSUME NEW p \in Port, Close(p)
     PROVE  HomeInv'
  BY <1>2 DEF Close, touch_release_pending_read
<1>3. ASSUME NEW p \in Port, NEW o \in Ovl, NEW n \in ReadSizes, ReadLater(p, o, n)
     PROVE  HomeInv'
  BY <1>3 DEF ReadLater
<1>4. ASSUME NEW p \in Port, touch_complete_pending_read(p)
     PROVE  HomeInv'
  BY <1>4 DEF touch_complete_pending_read
<1>5. ASSUME NEW p \in Port, UpdateDone(p)
     PROVE  HomeInv'
  BY <1>5 DEF UpdateDone, touch_release_pending_read
<1>6. ASSUME UNCHANGED <<pending>> PROVE HomeInv'
  BY <1>6
<1>7. QED
  BY <1>1, <1>2, <1>3, <1>4, <1>5, <1>6
   DEF Next, Request, Inside, vars,
    data, requests, call, io, Enter, Goto, ReadNow, StatOrHalt,
    touch_enqueue_reply, Signal, Leave, ReadArgs, UpdateTest, UpdateCreate,
    UpdateJoin, IoCheck, touch_auto_scan

(* HALT and CLOSE quieten a port, and nothing but STAT wakes it.           *)
LEMMA QuietStep == IInv /\ [Next]_vars => QuietInv'
<1> SUFFICES ASSUME IInv, [Next]_vars PROVE QuietInv'
  OBVIOUS
<1> USE DEF IInv, TypeInv, TypeOK, CallTypeOK, PortTypeOK, RequestTypeOK,
    LockInv, QuietInv, Enter, Goto, call, requests, data
<1>1. ASSUME NEW p \in Port, Open(p)
     PROVE  QuietInv'
  BY <1>1 DEF Open, GameMayEnter, touch_clear_auto_scan,
    touch_release_pending_read
<1>2. ASSUME NEW p \in Port, Close(p)
     PROVE  QuietInv'
  BY <1>2 DEF Close, GameMayEnter, touch_clear_auto_scan,
    touch_release_pending_read
<1>3. ASSUME NEW p \in Port, NEW n \in ReadSizes, ReadNow(p, n)
     PROVE  QuietInv'
  BY <1>3 DEF ReadNow, GameMayEnter, touch_shift_read
<1>4. ASSUME NEW p \in Port, NEW o \in Ovl, NEW n \in ReadSizes, ReadLater(p, o, n)
     PROVE  QuietInv'
  BY <1>4 DEF ReadLater, GameMayEnter
<1>5. ASSUME NEW p \in Port, NEW c \in Commands, StatOrHalt(p, c)
     PROVE  QuietInv'
  BY <1>5 DEF StatOrHalt, GameMayEnter
<1>6. ASSUME NEW p \in Port, touch_enqueue_reply(p)
     PROVE  QuietInv'
  BY <1>6 DEF touch_enqueue_reply, GameMayEnter
<1>7. ASSUME NEW p \in Port, touch_complete_pending_read(p)
     PROVE  QuietInv'
  BY <1>7 DEF touch_complete_pending_read, touch_shift_read
<1>8. ASSUME NEW p \in Port, Leave(p)
     PROVE  QuietInv'
  BY <1>8 DEF Leave
<1>9. ASSUME NEW p \in Port, ReadArgs(p)
     PROVE  QuietInv'
  BY <1>9 DEF ReadArgs
<1>10. ASSUME NEW p \in Port, UpdateTest(p)
     PROVE  QuietInv'
  BY <1>10 DEF UpdateTest
<1>11. ASSUME NEW p \in Port, NEW t \in IoThread, UpdateCreate(p, t)
     PROVE  QuietInv'
  BY <1>11 DEF UpdateCreate
<1>12. ASSUME NEW p \in Port, UpdateJoin(p)
     PROVE  QuietInv'
  BY <1>12 DEF UpdateJoin
<1>13. ASSUME NEW p \in Port, UpdateDone(p)
     PROVE  QuietInv'
  BY <1>13 DEF UpdateDone, touch_clear_auto_scan, touch_release_pending_read
<1>14. ASSUME NEW t \in IoThread, touch_auto_scan(t)
     PROVE  QuietInv'
  BY <1>14 DEF touch_auto_scan, IoTypeOK
<1>15. ASSUME UNCHANGED <<status, at, pending, auto_scan>> PROVE QuietInv'
  BY <1>15
<1>16. QED
  BY <1>1, <1>2, <1>3, <1>4, <1>5, <1>6, <1>7, <1>8, <1>9, <1>10, <1>11, <1>12, <1>13, <1>14, <1>15
   DEF
    Next, Request, Inside, vars, data, requests, call, io, Enter, Goto,
    Signal, IoCheck

(* Data and waiting reads meet only in the hands of a draining owner.      *)
LEMMA StrandedStep == IInv /\ [Next]_vars => NoReadStranded'
<1> SUFFICES ASSUME IInv, [Next]_vars PROVE NoReadStranded'
  OBVIOUS
<1> USE DEF IInv, TypeInv, TypeOK, CallTypeOK, PortTypeOK, RequestTypeOK,
    LockInv, NoReadStranded, touch_read_available, Enter, Goto, call,
    requests, data
<1>1. ASSUME NEW p \in Port, Open(p)
     PROVE  NoReadStranded'
  BY <1>1 DEF Open, GameMayEnter, touch_clear_auto_scan,
    touch_release_pending_read
<1>2. ASSUME NEW p \in Port, Close(p)
     PROVE  NoReadStranded'
  BY <1>2 DEF Close, GameMayEnter, touch_clear_auto_scan,
    touch_release_pending_read
<1>3. ASSUME NEW p \in Port, NEW n \in ReadSizes, ReadNow(p, n)
     PROVE  NoReadStranded'
  BY <1>3 DEF ReadNow, GameMayEnter, touch_shift_read
<1>4. ASSUME NEW p \in Port, NEW o \in Ovl, NEW n \in ReadSizes, ReadLater(p, o, n)
     PROVE  NoReadStranded'
  BY <1>4 DEF ReadLater, GameMayEnter
<1>5. ASSUME NEW p \in Port, NEW c \in Commands, StatOrHalt(p, c)
     PROVE  NoReadStranded'
  BY <1>5 DEF StatOrHalt, GameMayEnter
<1>6. ASSUME NEW p \in Port, touch_enqueue_reply(p)
     PROVE  NoReadStranded'
  BY <1>6 DEF touch_enqueue_reply, GameMayEnter
<1>7. ASSUME NEW p \in Port, touch_complete_pending_read(p)
     PROVE  NoReadStranded'
  BY <1>7 DEF touch_complete_pending_read, touch_shift_read
<1>8. ASSUME NEW p \in Port, Leave(p)
     PROVE  NoReadStranded'
  BY <1>8 DEF Leave
<1>9. ASSUME NEW p \in Port, ReadArgs(p)
     PROVE  NoReadStranded'
  BY <1>9 DEF ReadArgs
<1>10. ASSUME NEW p \in Port, UpdateTest(p)
     PROVE  NoReadStranded'
  BY <1>10 DEF UpdateTest
<1>11. ASSUME NEW p \in Port, NEW t \in IoThread, UpdateCreate(p, t)
     PROVE  NoReadStranded'
  BY <1>11 DEF UpdateCreate
<1>12. ASSUME NEW p \in Port, UpdateJoin(p)
     PROVE  NoReadStranded'
  BY <1>12 DEF UpdateJoin
<1>13. ASSUME NEW p \in Port, UpdateDone(p)
     PROVE  NoReadStranded'
  BY <1>13 DEF UpdateDone, touch_clear_auto_scan, touch_release_pending_read
<1>14. ASSUME NEW t \in IoThread, touch_auto_scan(t)
     PROVE  NoReadStranded'
  BY <1>14 DEF touch_auto_scan, IoTypeOK
<1>15. ASSUME UNCHANGED <<readable, at, pending, auto_scan>> PROVE NoReadStranded'
  BY <1>15
<1>16. QED
  BY <1>1, <1>2, <1>3, <1>4, <1>5, <1>6, <1>7, <1>8, <1>9, <1>10, <1>11, <1>12, <1>13, <1>14, <1>15
   DEF
    Next, Request, Inside, vars, data, requests, call, io, Enter, Goto,
    Signal, IoCheck

(* SetEvent never reaches a request that was queued again.                 *)
LEMMA EventStep == IInv /\ [Next]_vars => EventMeansAnswered'
<1> SUFFICES ASSUME IInv, [Next]_vars PROVE EventMeansAnswered'
  OBVIOUS
<1> USE DEF IInv, TypeInv, TypeOK, RequestTypeOK, SignalInv,
    EventMeansAnswered, requests
<1>1. ASSUME NEW p \in Port, Open(p)
     PROVE  EventMeansAnswered'
  BY <1>1 DEF Open, touch_release_pending_read, Waiting
<1>2. ASSUME NEW p \in Port, Close(p)
     PROVE  EventMeansAnswered'
  BY <1>2 DEF Close, touch_release_pending_read, Waiting
<1>3. ASSUME NEW p \in Port, NEW o \in Ovl, NEW n \in ReadSizes, ReadLater(p, o, n)
     PROVE  EventMeansAnswered'
  BY <1>3 DEF ReadLater
<1>4. ASSUME NEW p \in Port, touch_complete_pending_read(p)
     PROVE  EventMeansAnswered'
  BY <1>4 DEF touch_complete_pending_read
<1>5. ASSUME NEW p \in Port, Signal(p)
     PROVE  EventMeansAnswered'
  BY <1>5 DEF Signal
<1>6. ASSUME NEW p \in Port, UpdateDone(p)
     PROVE  EventMeansAnswered'
  BY <1>6 DEF UpdateDone, touch_release_pending_read, Waiting
<1>7. ASSUME UNCHANGED <<event, ovl>> PROVE EventMeansAnswered'
  BY <1>7
<1>8. QED
  BY <1>1, <1>2, <1>3, <1>4, <1>5, <1>6, <1>7
   DEF Next, Request, Inside,
    vars, data, requests, call, io, Enter, Goto, ReadNow, StatOrHalt,
    touch_enqueue_reply, Leave, ReadArgs, UpdateTest, UpdateCreate,
    UpdateJoin, IoCheck, touch_auto_scan

(* A frame position is kept only with the frame it belongs to.             *)
LEMMA SpliceStep == IInv /\ [Next]_vars => NoSplicedFrame'
<1> SUFFICES ASSUME IInv, [Next]_vars PROVE NoSplicedFrame'
  OBVIOUS
<1> USE DEF IInv, TypeInv, TypeOK, PortTypeOK, NoSplicedFrame
<1>1. ASSUME NEW p \in Port, Open(p)
     PROVE  NoSplicedFrame'
  BY <1>1 DEF Open, touch_clear_auto_scan
<1>2. ASSUME NEW p \in Port, Close(p)
     PROVE  NoSplicedFrame'
  BY <1>2 DEF Close, touch_clear_auto_scan
<1>3. ASSUME NEW p \in Port, NEW n \in ReadSizes, ReadNow(p, n)
     PROVE  NoSplicedFrame'
  BY <1>3 DEF ReadNow, touch_shift_read
<1>4. ASSUME NEW p \in Port, touch_complete_pending_read(p)
     PROVE  NoSplicedFrame'
  <2>1. PICK n \in ReadSizes : touch_shift_read(p, n)
    BY <1>4, HeadReadSize DEF touch_complete_pending_read, RequestTypeOK
  <2>2. QED
    BY <2>1 DEF touch_shift_read
<1>5. ASSUME NEW p \in Port, UpdateDone(p)
     PROVE  NoSplicedFrame'
  <2>1. CASE status[p]
    BY <1>5, <2>1 DEF UpdateDone
  <2>2. CASE ~status[p]
    <3>1. touch_clear_auto_scan(p) /\ UNCHANGED heard
      BY <1>5, <2>2 DEF UpdateDone
    <3>2. QED
      BY <3>1 DEF touch_clear_auto_scan
  <2>3. QED
    BY <2>1, <2>2
<1>6. ASSUME NEW t \in IoThread, touch_auto_scan(t)
     PROVE  NoSplicedFrame'
  BY <1>6 DEF touch_auto_scan, IoTypeOK
<1>7. ASSUME UNCHANGED <<heard, auto_scan>> PROVE NoSplicedFrame'
  BY <1>7
<1>8. QED
  BY <1>1, <1>2, <1>3, <1>4, <1>5, <1>6, <1>7
   DEF Next, Request, Inside,
    vars, data, requests, call, io, Enter, Goto, ReadLater, StatOrHalt,
    touch_enqueue_reply, Signal, Leave, ReadArgs, UpdateTest, UpdateCreate,
    UpdateJoin, IoCheck

(* The invariant is inductive.                                             *)
LEMMA IInvStep == IInv /\ [Next]_vars => IInv'
<1>1. TypeInv /\ [Next]_vars => TypeInv'
  BY PortTypeStep, RequestTypeStep, CallTypeStep, IoTypeStep, CallInvStep DEF TypeInv, TypeOK
<1>2. QED
  BY <1>1, LockStep, SignalStep, HomeStep, QuietStep, StrandedStep, EventStep, SpliceStep
   DEF IInv

(* The invariant holds throughout.                                         *)
LEMMA IInvInvariant == Spec => []IInv
<1>1. Init => TypeInv
  BY TouchAssumption DEF Init, TypeInv, TypeOK, PortTypeOK, RequestTypeOK, CallTypeOK,
    IoTypeOK, CallInv, Port, FrameId, Step
<1>2. Init => LockInv /\ SignalInv /\ HomeInv /\ QuietInv
  BY DEF Init, LockInv, SignalInv, HomeInv, QuietInv, Waiting
<1>3. Init => NoReadStranded /\ EventMeansAnswered /\ NoSplicedFrame
  BY DEF Init, NoReadStranded, EventMeansAnswered, NoSplicedFrame
<1>4. Init => IInv
  BY <1>1, <1>2, <1>3 DEF IInv
<1>5. QED
  BY <1>4, IInvStep, PTL DEF Spec

(* No queued read waits beside data that could answer it.                  *)
THEOREM ReadsAreNotStranded == Spec => []NoReadStranded
<1>1. IInv => NoReadStranded
  BY DEF IInv
<1>2. QED
  BY <1>1, IInvInvariant, PTL

(* After HALT or CLOSE a port is quiet, whatever the I/O threads do.       *)
THEOREM HaltedPortsAreQuiet == Spec => []QuietWhileHalted
<1>1. IInv => QuietWhileHalted
  BY DEF IInv, QuietInv, QuietWhileHalted
<1>2. QED
  BY <1>1, IInvInvariant, PTL

(* An event that is set belongs to an answered request.                    *)
THEOREM EventsAreTruthful == Spec => []EventMeansAnswered
<1>1. IInv => EventMeansAnswered
  BY DEF IInv
<1>2. QED
  BY <1>1, IInvInvariant, PTL

(* Frames read in pieces are never spliced.                                *)
THEOREM FramesAreNotSpliced == Spec => []NoSplicedFrame
<1>1. IInv => NoSplicedFrame
  BY DEF IInv
<1>2. QED
  BY <1>1, IInvInvariant, PTL

-----------------------------------------------------------------------------
(* Refinement.  A read that is queued is an Accept, a completion an        *)
(* Answer, a flush a Flush, and everything else stutters.                  *)
THEOREM TouchImplementsOverlappedReads == Spec => ImplementsOverlappedReads
<1> USE DEF Contract!Init, Contract!Next, Contract!vars, Contract!Accept,
    Contract!Answer, Contract!Flush, Contract!Waiting, Waiting
<1>1. Init => Contract!Init
  BY DEF Init
<1>2. TypeInv /\ [Next]_vars => [Contract!Next]_(Contract!vars)
  <2> SUFFICES ASSUME TypeInv, [Next]_vars PROVE [Contract!Next]_(Contract!vars)
    OBVIOUS
  <2>1. ASSUME NEW p \in Port, touch_release_pending_read(p) PROVE Contract!Flush(p)
    BY <2>1 DEF touch_release_pending_read
  <2>2. ASSUME NEW p \in Port, Open(p) \/ Close(p) PROVE Contract!Next
    BY <2>1, <2>2 DEF Open, Close
  <2>3. ASSUME NEW p \in Port, NEW o \in Ovl, NEW n \in ReadSizes, ReadLater(p, o, n)
        PROVE  Contract!Next
    BY <2>3 DEF ReadLater, TypeInv, TypeOK, RequestTypeOK
  <2>4. ASSUME NEW p \in Port, touch_complete_pending_read(p) PROVE Contract!Next
    BY <2>4 DEF touch_complete_pending_read
  <2>5. ASSUME NEW p \in Port, UpdateDone(p) PROVE [Contract!Next]_(Contract!vars)
    BY <2>1, <2>5 DEF UpdateDone
  <2>6. ASSUME UNCHANGED <<pending, ovl>> PROVE [Contract!Next]_(Contract!vars)
    BY <2>6
  <2>7. QED
    BY <2>2, <2>3, <2>4, <2>5, <2>6
     DEF Next, Request, Inside, vars, data, requests, call, io, ReadNow, StatOrHalt,
      touch_enqueue_reply, Signal, Leave, ReadArgs, UpdateTest, UpdateCreate,
      UpdateJoin, IoCheck, touch_auto_scan
<1>3. Spec => []TypeInv
  BY IInvInvariant, PTL DEF IInv
<1>4. QED
  BY <1>1, <1>2, <1>3, PTL DEF Spec, ImplementsOverlappedReads, Contract!Spec

(* PanelIsSafe, for any number of panels, threads and requests.            *)
THEOREM PanelsAreSafe == Spec => []PanelIsSafe
<1>1. TypeOK /\ NoReadStranded /\ QuietWhileHalted /\ EventMeansAnswered /\ NoSplicedFrame
        => PanelIsSafe
  BY DEF PanelIsSafe
<1>2. QED
  BY <1>1, TypeCorrect, ReadsAreNotStranded, HaltedPortsAreQuiet, EventsAreTruthful,
    FramesAreNotSpliced, PTL

-----------------------------------------------------------------------------
(* With one game thread at most, one panel at most is inside touch_update, *)
(* and what that call has seen of the handles is so until it changes them. *)
OneGameThread == GameThreads \in {0, 1}

InUpdate == {"args", "update", "create", "join"}

AloneInv ==
  /\ \A p, q \in Port : owner[p] = Game /\ owner[q] = Game => p = q
  /\ \A p \in Port : at[p] \in InUpdate => owner[p] = Game

SeenInv ==
  /\ \A p \in Port : at[p] = "create" => handle[next[p]] = NULL
  /\ \A p \in Port : at[p] = "join" => waitFor[p] = handle[next[p]]

(* An I/O thread inside a lock is in its callback, for its own player.     *)
CallbackInv ==
  \A p \in Port : owner[p] \in IoThread =>
    iopc[owner[p]] = "callback" /\ ioPort[owner[p]] = p

ThreadInv == TypeInv /\ AloneInv /\ SeenInv /\ CallbackInv /\ OneThreadPerPlayer

(* The game enters a lock only while it is in none.                        *)
LEMMA EntersAlone ==
  ASSUME OneGameThread, NEW p \in Port, GameMayEnter(p)
  PROVE  \A q \in Port : owner[q] # Game
<1> DEFINE S == {q \in Port : owner[q] = Game}
<1>1. IsFiniteSet(Port)
  BY FS_Interval, TouchAssumption DEF Port
<1>2. IsFiniteSet(S)
  BY <1>1, FS_Subset
<1>3. Cardinality(S) \in Nat
  BY <1>2, FS_CardinalityType
<1>4. Cardinality(S) < GameThreads
  BY DEF GameMayEnter
<1>5. Cardinality(S) = 0
  BY <1>3, <1>4 DEF OneGameThread
<1>6. S = {}
  BY <1>2, <1>5, FS_EmptySet
<1>7. QED
  BY <1>6

(* No step of one game thread brings a second panel into touch_update.     *)
LEMMA AloneStep ==
  ASSUME OneGameThread, TypeInv, AloneInv, [Next]_vars
  PROVE  AloneInv'
<1> USE TouchAssumption DEF TypeInv, TypeOK, CallTypeOK, AloneInv, InUpdate, Enter, Goto
<1>1. ASSUME NEW p \in Port, Open(p) PROVE AloneInv'
  BY <1>1, EntersAlone DEF Open
<1>2. ASSUME NEW p \in Port, Close(p) PROVE AloneInv'
  BY <1>2, EntersAlone DEF Close
<1>3. ASSUME NEW p \in Port, NEW c \in Commands, StatOrHalt(p, c) PROVE AloneInv'
  BY <1>3, EntersAlone DEF StatOrHalt
<1>4. ASSUME NEW p \in Port, touch_enqueue_reply(p) PROVE AloneInv'
  BY <1>4, EntersAlone DEF touch_enqueue_reply
<1>5. ASSUME NEW p \in Port, Leave(p) PROVE AloneInv'
  BY <1>5 DEF Leave
<1>6. ASSUME NEW p \in Port, ReadArgs(p) PROVE AloneInv'
  BY <1>6 DEF ReadArgs
<1>7. ASSUME NEW p \in Port, UpdateTest(p) PROVE AloneInv'
  BY <1>7 DEF UpdateTest
<1>8. ASSUME NEW p \in Port, NEW t \in IoThread, UpdateCreate(p, t) PROVE AloneInv'
  BY <1>8 DEF UpdateCreate
<1>9. ASSUME NEW p \in Port, UpdateJoin(p) PROVE AloneInv'
  BY <1>9 DEF UpdateJoin
<1>10. ASSUME NEW p \in Port, UpdateDone(p) PROVE AloneInv'
  BY <1>10 DEF UpdateDone
<1>11. ASSUME NEW t \in IoThread, touch_auto_scan(t) PROVE AloneInv'
  <2>1. PICK p \in Port : p = ioPort[t]
    BY DEF IoTypeOK
  <2>2. t # Game
    OBVIOUS
  <2>3. CASE status[p]
    <3>1. owner' = [owner EXCEPT ![p] = t] /\ at' = [at EXCEPT ![p] = "drain"]
      BY <1>11, <2>1, <2>3 DEF touch_auto_scan
    <3>2. QED
      BY <2>1, <2>2, <3>1
  <2>4. CASE ~status[p]
    BY <1>11, <2>1, <2>4 DEF touch_auto_scan
  <2>5. QED
    BY <2>3, <2>4
<1>12. ASSUME UNCHANGED <<owner, at>> PROVE AloneInv'
  BY <1>12
<1>13. QED
  BY <1>1, <1>2, <1>3, <1>4, <1>5, <1>6, <1>7, <1>8, <1>9, <1>10, <1>11, <1>12
   DEF Next, Request, Inside, vars, data, requests, call, io, ReadNow, ReadLater,
    touch_complete_pending_read, Signal, IoCheck

(* What a call of touch_update saw of the handles stays until it returns.  *)
LEMMA SeenStep ==
  ASSUME ThreadInv, [Next]_vars
  PROVE  SeenInv'
<1> USE TouchAssumption
    DEF ThreadInv, TypeInv, TypeOK, CallTypeOK, IoTypeOK, CallInv, AloneInv, SeenInv, InUpdate,
        Enter, Goto, call, io
<1>1. ASSUME NEW p \in Port, Open(p) \/ Close(p) PROVE SeenInv'
  BY <1>1 DEF Open, Close
<1>2. ASSUME NEW p \in Port, NEW c \in Commands, StatOrHalt(p, c) PROVE SeenInv'
  BY <1>2 DEF StatOrHalt
<1>3. ASSUME NEW p \in Port, touch_enqueue_reply(p) PROVE SeenInv'
  BY <1>3 DEF touch_enqueue_reply
<1>4. ASSUME NEW p \in Port, Leave(p) PROVE SeenInv'
  BY <1>4 DEF Leave
<1>5. ASSUME NEW p \in Port, ReadArgs(p) PROVE SeenInv'
  BY <1>5 DEF ReadArgs
<1>6. ASSUME NEW p \in Port, UpdateTest(p) PROVE SeenInv'
  <2>1. PICK q \in Port : q = next[p]
    BY <1>6 DEF UpdateTest
  <2>2. CASE args[p][q] <=> handle[q] # NULL
    BY <1>6, <2>1, <2>2 DEF UpdateTest
  <2>3. CASE args[p][q] /\ handle[q] = NULL
    BY <1>6, <2>1, <2>3 DEF UpdateTest
  <2>4. CASE ~args[p][q] /\ handle[q] # NULL
    BY <1>6, <2>1, <2>4 DEF UpdateTest
  <2>5. QED
    BY <2>2, <2>3, <2>4
<1>7. ASSUME NEW p \in Port, NEW t \in IoThread, UpdateCreate(p, t) PROVE SeenInv'
  <2>1. \A q \in Port : q # p => at[q] \notin InUpdate
    BY <1>7 DEF UpdateCreate
  <2>2. QED
    BY <1>7, <2>1 DEF UpdateCreate
<1>8. ASSUME NEW p \in Port, UpdateJoin(p) PROVE SeenInv'
  <2>1. \A q \in Port : q # p => at[q] \notin InUpdate
    BY <1>8 DEF UpdateJoin
  <2>2. QED
    BY <1>8, <2>1 DEF UpdateJoin
<1>9. ASSUME NEW p \in Port, UpdateDone(p) PROVE SeenInv'
  BY <1>9 DEF UpdateDone
<1>10. ASSUME NEW t \in IoThread, touch_auto_scan(t) PROVE SeenInv'
  BY <1>10 DEF touch_auto_scan
<1>11. ASSUME UNCHANGED <<at, next, handle, waitFor>> PROVE SeenInv'
  BY <1>11
<1>12. ASSUME NEW p \in Port, Request(p) PROVE SeenInv'
  BY <1>1, <1>2, <1>3, <1>11, <1>12 DEF Request, ReadNow, ReadLater
<1>13. ASSUME NEW p \in Port, Inside(p) PROVE SeenInv'
  BY ONLY <1>4, <1>5, <1>6, <1>7, <1>8, <1>9, <1>11, <1>13
   DEF Inside, touch_complete_pending_read, Signal, call, io
<1>14. ASSUME NEW t \in IoThread, IoCheck(t) PROVE SeenInv'
  BY <1>11, <1>14 DEF IoCheck
<1>15. QED
  <2>1. CASE UNCHANGED vars
    BY <1>11, <2>1 DEF vars
  <2>2. CASE Next
    BY ONLY <1>10, <1>12, <1>13, <1>14, <2>2 DEF Next
  <2>3. QED
    BY <2>1, <2>2

(* An I/O thread that has a lock has it for the panel of its own player.   *)
LEMMA CallbackStep ==
  ASSUME ThreadInv, [Next]_vars
  PROVE  CallbackInv'
<1> USE TouchAssumption
    DEF ThreadInv, TypeInv, TypeOK, CallTypeOK, IoTypeOK, CallbackInv, Enter, Goto, io
<1>1. ASSUME NEW p \in Port, Open(p) \/ Close(p) PROVE CallbackInv'
  BY <1>1 DEF Open, Close
<1>2. ASSUME NEW p \in Port, NEW c \in Commands, StatOrHalt(p, c) PROVE CallbackInv'
  BY <1>2 DEF StatOrHalt
<1>3. ASSUME NEW p \in Port, touch_enqueue_reply(p) PROVE CallbackInv'
  BY <1>3 DEF touch_enqueue_reply
<1>4. ASSUME NEW p \in Port, Leave(p) PROVE CallbackInv'
  BY <1>4 DEF Leave
<1>5. ASSUME NEW p \in Port, NEW t \in IoThread, UpdateCreate(p, t) PROVE CallbackInv'
  BY <1>5 DEF UpdateCreate
<1>6. ASSUME NEW t \in IoThread, IoCheck(t) PROVE CallbackInv'
  BY <1>6 DEF IoCheck
<1>7. ASSUME NEW t \in IoThread, touch_auto_scan(t) PROVE CallbackInv'
  <2>1. PICK p \in Port : p = ioPort[t]
    OBVIOUS
  <2>2. CASE status[p]
    <3>1. /\ owner' = [owner EXCEPT ![p] = t]
          /\ UNCHANGED <<iopc, ioPort>>
          /\ iopc[t] = "callback"
      BY <1>7, <2>1, <2>2 DEF touch_auto_scan
    <3>2. QED
      BY <2>1, <3>1
  <2>3. CASE ~status[p]
    <3>1. /\ owner[p] = Nobody
          /\ iopc' = [iopc EXCEPT ![t] = "check"]
          /\ UNCHANGED <<owner, ioPort>>
      BY <1>7, <2>1, <2>3 DEF touch_auto_scan
    <3>2. \A q \in Port : owner[q] # t
      BY <2>1, <3>1
    <3>3. QED
      BY <3>1, <3>2
  <2>4. QED
    BY <2>2, <2>3
<1>8. ASSUME UNCHANGED <<owner, iopc, ioPort>> PROVE CallbackInv'
  BY <1>8
<1>9. QED
  BY <1>1, <1>2, <1>3, <1>4, <1>5, <1>6, <1>7, <1>8
   DEF Next, Request, Inside, vars, data, requests, call, ReadNow, ReadLater,
    touch_complete_pending_read, Signal, ReadArgs, UpdateTest, UpdateJoin, UpdateDone

(* With the three facts above no step starts a second thread for a player. *)
LEMMA OneThreadStep ==
  ASSUME ThreadInv, [Next]_vars
  PROVE  OneThreadPerPlayer'
<1> USE TouchAssumption
    DEF ThreadInv, TypeInv, TypeOK, CallTypeOK, IoTypeOK, CallInv, SeenInv,
        OneThreadPerPlayer, io
<1>1. ASSUME NEW p \in Port, Leave(p) PROVE OneThreadPerPlayer'
  BY <1>1 DEF Leave, CallbackInv
<1>2. ASSUME NEW p \in Port, UpdateTest(p) PROVE OneThreadPerPlayer'
  BY <1>2 DEF UpdateTest
<1>3. ASSUME NEW p \in Port, NEW t \in IoThread, UpdateCreate(p, t) PROVE OneThreadPerPlayer'
  BY <1>3 DEF UpdateCreate
<1>4. ASSUME NEW p \in Port, UpdateJoin(p) PROVE OneThreadPerPlayer'
  BY <1>4 DEF UpdateJoin
<1>5. ASSUME NEW t \in IoThread, IoCheck(t) PROVE OneThreadPerPlayer'
  BY <1>5 DEF IoCheck
<1>6. ASSUME NEW t \in IoThread, touch_auto_scan(t) PROVE OneThreadPerPlayer'
  BY <1>6 DEF touch_auto_scan
<1>7. ASSUME UNCHANGED <<handle, iopc, ioPort>> PROVE OneThreadPerPlayer'
  BY <1>7
<1>8. QED
  BY <1>1, <1>2, <1>3, <1>4, <1>5, <1>6, <1>7
   DEF Next, Request, Inside, vars, data, requests, call, Open, Close, ReadNow, ReadLater,
    StatOrHalt, touch_enqueue_reply, touch_complete_pending_read, Signal, ReadArgs, UpdateDone

(* No I/O thread is leaked and no player has two, for any number of panels *)
(* and threads, if one thread of the game at most is inside a lock: it is  *)
(* the mutual exclusion mai2_io_touch_update itself lacks.                 *)
THEOREM PlayersHaveOneThread ==
  ASSUME OneGameThread PROVE Spec => []OneThreadPerPlayer
<1>1. Init => ThreadInv
  <2>1. Init => TypeInv
    BY TouchAssumption DEF Init, TypeInv, TypeOK, PortTypeOK, RequestTypeOK, CallTypeOK,
      IoTypeOK, CallInv, Port, FrameId, Step
  <2>2. QED
    BY <2>1, TouchAssumption DEF Init, ThreadInv, AloneInv, SeenInv, InUpdate,
      CallbackInv, OneThreadPerPlayer
<1>2. ThreadInv /\ [Next]_vars => ThreadInv'
  <2>1. TypeInv /\ [Next]_vars => TypeInv'
    BY PortTypeStep, RequestTypeStep, CallTypeStep, IoTypeStep, CallInvStep
     DEF TypeInv, TypeOK
  <2>2. QED
    BY <2>1, AloneStep, SeenStep, CallbackStep, OneThreadStep DEF ThreadInv
<1>3. ThreadInv => OneThreadPerPlayer
  BY DEF ThreadInv
<1>4. QED
  BY <1>1, <1>2, <1>3, PTL DEF Spec

=============================================================================
