------------------------------ MODULE Mai2Touch ------------------------------
(***************************************************************************)
(* The maimai DX touch panels: games/mai2hook/touch.c (the emulated serial *)
(* ports) together with the touch half of games/mai2io/mai2io.c (the       *)
(* threads that produce touch frames).                                     *)
(*                                                                         *)
(* A game thread enters a port's CRITICAL_SECTION for each request; the    *)
(* I/O thread of a player enters it for each frame.  A critical section    *)
(* that another thread can observe half way is several steps: at[p] says   *)
(* where its owner is.  Handlers nobody can observe half way are one step. *)
(*                                                                         *)
(* The readable buffer is a number of bytes; a frame is an identity and a  *)
(* read position.  RSET, unknown and short writes change nothing and reads *)
(* refused with E_PENDING are stuttering steps.                            *)
(***************************************************************************)
EXTENDS Naturals, Sequences, FiniteSets

CONSTANTS
  NPorts,           (* enabled panels, served in this order by touch_update *)
  Ovl,              (* the OVERLAPPED structures of the game                *)
  HomePort,         (* the panel the game reads with each of them           *)
  IoThread,         (* bound: I/O threads alive at once                     *)
  ReadSizes,        (* sizes of the game's read buffers                     *)
  ReplySize,        (* bytes of a Ratio or Sens reply (6)                   *)
  FrameSize,        (* bytes of an auto-scan frame (9)                      *)
  ReadableSize,     (* touch_Np_readable_bytes (1024)                       *)
  PendingCapacity,  (* touch_pending_reads_capacity (4096)                  *)
  FrameIds,         (* bound: frame identities before they repeat           *)
  Commands,         (* the commands the game sends                          *)
  GameThreads,      (* game threads that do I/O at the same time            *)
  Nobody, Game, NULL

Port == 1..NPorts

ASSUME TouchAssumption ==
  /\ NPorts \in Nat \ {0}
  /\ HomePort \in [Ovl -> Port]
  /\ ReadSizes \subseteq Nat \ {0}
  /\ ReplySize \in Nat \ {0}
  /\ FrameSize \in Nat \ {0}
  /\ ReadableSize \in Nat
  /\ PendingCapacity \in Nat
  /\ FrameIds \in Nat \ {0}
  /\ Commands \subseteq {"STAT", "HALT", "Ratio"}
  /\ GameThreads \in Nat
  /\ Nobody # Game /\ Nobody \notin IoThread /\ Game \notin IoThread
  /\ NULL \notin IoThread

VARIABLES
  fd,           (* uart.fd is set: the game holds the port open             *)
  status,       (* touch_Np_status                                          *)
  readable,     (* uart.readable.pos                                        *)
  auto_scan,    (* touch_Np_auto_scan: frame, pos, valid                    *)
  pending,      (* touch_Np_pending_reads, oldest first                     *)
  nbytes,       (* per OVERLAPPED: size of the buffer it was queued with    *)
  ovl,          (* OVERLAPPED.Internal                                      *)
  event,        (* OVERLAPPED.hEvent is set                                 *)
  unsignalled,  (* answered under the lock, SetEvent still to come          *)
  owner,        (* who is inside touch_Np_lock                              *)
  at,           (* where the owner is                                       *)
  args,         (* arguments of the running mai2_io_touch_update            *)
  next,         (* the player that call looks at next                       *)
  waitFor,      (* the thread that call waits for                           *)
  handle,       (* mai2_io_touch_Np_thread                                  *)
  stop_flag,    (* mai2_io_touch_Np_stop_flag                               *)
  iopc,         (* where an I/O thread is                                   *)
  ioPort,       (* the player an I/O thread serves                          *)
  heard         (* history: where the game's last frame byte came from      *)

data == <<fd, status, readable, auto_scan, pending, heard>>
requests == <<nbytes, ovl, event, unsignalled>>
call == <<args, next, waitFor>>
io == <<handle, stop_flag, iopc, ioPort>>
vars == <<data, requests, owner, at, call, io>>

Lesser(a, b) == IF a < b THEN a ELSE b
Waiting(q) == {q[i] : i \in 1..Len(q)}

-----------------------------------------------------------------------------
(* Helpers of touch.c.                                                     *)

touch_read_available(p) == readable[p] > 0 \/ auto_scan[p].valid

touch_shift_read(p, n) ==
  \/ /\ readable[p] > 0
     /\ readable' = [readable EXCEPT ![p] = @ - Lesser(n, @)]
     /\ UNCHANGED <<auto_scan, heard>>
  \/ /\ readable[p] = 0
     /\ auto_scan[p].valid
     /\ LET end == auto_scan[p].pos + Lesser(n, FrameSize - auto_scan[p].pos)
        IN /\ auto_scan' = [auto_scan EXCEPT ![p] =
                [frame |-> @.frame,
                 pos   |-> IF end = FrameSize THEN 0 ELSE end,
                 valid |-> end # FrameSize]]
           /\ heard' = [heard EXCEPT ![p] = [frame |-> auto_scan[p].frame, pos |-> end]]
     /\ UNCHANGED readable

touch_clear_auto_scan(p) ==
  auto_scan' = [auto_scan EXCEPT ![p] = [frame |-> @.frame, pos |-> 0, valid |-> FALSE]]

(* Broken: empties the queue without answering.                            *)
ReleaseForgetsAnswers(p) ==
  /\ pending' = [pending EXCEPT ![p] = <<>>]
  /\ UNCHANGED <<ovl, unsignalled>>

touch_release_pending_read(p) ==
  /\ ovl' = [o \in Ovl |-> IF o \in Waiting(pending[p]) THEN "success" ELSE ovl[o]]
  /\ unsignalled' = [unsignalled EXCEPT ![p] = Waiting(pending[p])]
  /\ pending' = [pending EXCEPT ![p] = <<>>]

Enter(p, who, where) ==
  /\ owner' = [owner EXCEPT ![p] = who]
  /\ at' = [at EXCEPT ![p] = where]

Goto(p, where) == at' = [at EXCEPT ![p] = where] /\ UNCHANGED owner

GameMayEnter(p) ==
  /\ owner[p] = Nobody
  /\ Cardinality({q \in Port : owner[q] = Game}) < GameThreads

-----------------------------------------------------------------------------
Init ==
  /\ fd = [p \in Port |-> FALSE]
  /\ status = [p \in Port |-> FALSE]
  /\ readable = [p \in Port |-> 0]
  /\ auto_scan = [p \in Port |-> [frame |-> 0, pos |-> 0, valid |-> FALSE]]
  /\ pending = [p \in Port |-> <<>>]
  /\ heard = [p \in Port |-> [frame |-> 0, pos |-> 0]]
  /\ nbytes \in [Ovl -> ReadSizes]
  /\ ovl = [o \in Ovl |-> "success"]
  /\ event = [o \in Ovl |-> FALSE]
  /\ unsignalled = [p \in Port |-> {}]
  /\ owner = [p \in Port |-> Nobody]
  /\ at = [p \in Port |-> "free"]
  /\ args = [p \in Port |-> [q \in Port |-> FALSE]]
  /\ next = [p \in Port |-> 1]
  /\ waitFor = [p \in Port |-> NULL]
  /\ handle = [p \in Port |-> NULL]
  /\ stop_flag = [p \in Port |-> FALSE]
  /\ iopc = [t \in IoThread |-> "exited"]
  /\ ioPort = [t \in IoThread |-> 1]

-----------------------------------------------------------------------------
(* The game's requests: touch_handle_irp_locked.                           *)

(* A second OPEN fails in uart_handle_irp, after it has flushed the port.  *)
Open(p) ==
  /\ GameMayEnter(p)
  /\ touch_clear_auto_scan(p)
  /\ touch_release_pending_read(p)
  /\ fd' = [fd EXCEPT ![p] = TRUE]
  /\ Enter(p, Game, "leave")
  /\ UNCHANGED <<status, readable, heard, nbytes, event, call, io>>

(* CLOSE leaves the I/O thread running and the unread replies in place.    *)
Close(p) ==
  /\ GameMayEnter(p)
  /\ fd[p]
  /\ fd' = [fd EXCEPT ![p] = FALSE]
  /\ status' = [status EXCEPT ![p] = FALSE]
  /\ touch_clear_auto_scan(p)
  /\ touch_release_pending_read(p)
  /\ Enter(p, Game, "leave")
  /\ UNCHANGED <<readable, heard, nbytes, event, call, io>>

(* A read that finds data is answered at once.                             *)
ReadNow(p, n) ==
  /\ GameMayEnter(p)
  /\ fd[p]
  /\ touch_read_available(p)
  /\ touch_shift_read(p, n)
  /\ UNCHANGED <<fd, status, pending, requests, owner, at, call, io>>

(* Broken: no ResetEvent.                                                  *)
ReadLaterKeepsEvent(p, o, n) ==
  /\ GameMayEnter(p) /\ fd[p] /\ status[p] /\ ~touch_read_available(p)
  /\ HomePort[o] = p /\ ovl[o] # "pending"
  /\ Len(pending[p]) < PendingCapacity
  /\ pending' = [pending EXCEPT ![p] = Append(@, o)]
  /\ nbytes' = [nbytes EXCEPT ![o] = n]
  /\ ovl' = [ovl EXCEPT ![o] = "pending"]
  /\ UNCHANGED <<fd, status, readable, auto_scan, heard, event, unsignalled, owner, at, call, io>>

(* An overlapped read that finds none is queued while scanning is on.  The *)
(* game does not reuse an OVERLAPPED that is still pending.                *)
ReadLater(p, o, n) ==
  /\ GameMayEnter(p)
  /\ fd[p]
  /\ HomePort[o] = p /\ ovl[o] # "pending"
  /\ ~touch_read_available(p)
  /\ status[p]
  /\ Len(pending[p]) < PendingCapacity
  /\ pending' = [pending EXCEPT ![p] = Append(@, o)]
  /\ nbytes' = [nbytes EXCEPT ![o] = n]
  /\ ovl' = [ovl EXCEPT ![o] = "pending"]
  /\ event' = [event EXCEPT ![o] = FALSE]
  /\ UNCHANGED <<fd, status, readable, auto_scan, heard, unsignalled, owner, at, call, io>>

(* STAT and HALT set the port's status, then call the I/O DLL with both    *)
(* statuses, all of it inside the port's lock.                             *)
StatOrHalt(p, c) ==
  /\ GameMayEnter(p)
  /\ fd[p]
  /\ c \in Commands \cap {"STAT", "HALT"}
  /\ status' = [status EXCEPT ![p] = c = "STAT"]
  /\ Enter(p, Game, "args")
  /\ UNCHANGED <<fd, readable, auto_scan, pending, heard, requests, call, io>>

(* Broken: the overflow of the readable buffer is off by one reply.        *)
EnqueueOverflows(p) ==
  /\ GameMayEnter(p) /\ fd[p] /\ "Ratio" \in Commands
  /\ readable[p] <= ReadableSize
  /\ readable' = [readable EXCEPT ![p] = @ + ReplySize]
  /\ Enter(p, Game, "drain")
  /\ UNCHANGED <<fd, status, auto_scan, pending, heard, requests, call, io>>

(* Ratio and Sens: an all-or-nothing write to the readable buffer.         *)
touch_enqueue_reply(p) ==
  /\ GameMayEnter(p)
  /\ fd[p]
  /\ "Ratio" \in Commands
  /\ readable[p] + ReplySize <= ReadableSize
  /\ readable' = [readable EXCEPT ![p] = @ + ReplySize]
  /\ Enter(p, Game, "drain")
  /\ UNCHANGED <<fd, status, auto_scan, pending, heard, requests, call, io>>

-----------------------------------------------------------------------------
(* Inside the lock.                                                        *)

(* touch_complete_pending_read up to the store of OVERLAPPED.Internal.     *)
touch_complete_pending_read(p) ==
  /\ at[p] = "drain"
  /\ unsignalled[p] = {}
  /\ pending[p] # <<>>
  /\ touch_read_available(p)
  /\ touch_shift_read(p, nbytes[Head(pending[p])])
  /\ ovl' = [ovl EXCEPT ![Head(pending[p])] = "success"]
  /\ unsignalled' = [unsignalled EXCEPT ![p] = {Head(pending[p])}]
  /\ pending' = [pending EXCEPT ![p] = Tail(@)]
  /\ UNCHANGED <<fd, status, nbytes, event, owner, at, call, io>>

(* SetEvent, after the game may already have seen the stored Internal.     *)
Signal(p) ==
  /\ at[p] \in {"drain", "leave"}
  /\ unsignalled[p] # {}
  /\ event' = [o \in Ovl |-> event[o] \/ o \in unsignalled[p]]
  /\ unsignalled' = [unsignalled EXCEPT ![p] = {}]
  /\ UNCHANGED <<data, nbytes, ovl, owner, at, call, io>>

(* Broken: leaves after one completion instead of draining.                *)
LeaveUndrained(p) ==
  /\ at[p] \in {"drain", "leave"} /\ unsignalled[p] = {}
  /\ Enter(p, Nobody, "free")
  /\ iopc' = [t \in IoThread |-> IF t = owner[p] THEN "check" ELSE iopc[t]]
  /\ UNCHANGED <<data, requests, call, handle, stop_flag, ioPort>>

(* LeaveCriticalSection; an I/O thread goes back to test its stop flag.    *)
Leave(p) ==
  /\ at[p] \in {"drain", "leave"}
  /\ unsignalled[p] = {}
  /\ at[p] = "drain" => pending[p] = <<>> \/ ~touch_read_available(p)
  /\ Enter(p, Nobody, "free")
  /\ iopc' = [t \in IoThread |-> IF t = owner[p] THEN "check" ELSE iopc[t]]
  /\ UNCHANGED <<data, requests, call, handle, stop_flag, ioPort>>

(* The arguments of touch_update: the other port's status is read without  *)
(* the other port's lock.                                                  *)
ReadArgs(p) ==
  /\ at[p] = "args"
  /\ args' = [args EXCEPT ![p] = status]
  /\ next' = [next EXCEPT ![p] = 1]
  /\ Goto(p, "update")
  /\ UNCHANGED <<data, requests, waitFor, io>>

(* Broken: starts a thread without looking at the handle.                  *)
UpdateTestIgnoresHandle(p) ==
  /\ at[p] = "update" /\ next[p] \in Port
  /\ \/ args[p][next[p]] /\ Goto(p, "create") /\ UNCHANGED next
     \/ /\ ~args[p][next[p]]
        /\ next' = [next EXCEPT ![p] = @ + 1]
        /\ UNCHANGED <<owner, at>>
  /\ UNCHANGED <<data, requests, args, waitFor, io>>

(* mai2_io_touch_update, one player at a time.                             *)
UpdateTest(p) ==
  /\ at[p] = "update"
  /\ next[p] \in Port
  /\ LET q == next[p]
     IN \/ /\ args[p][q] <=> handle[q] # NULL
           /\ next' = [next EXCEPT ![p] = q + 1]
           /\ UNCHANGED <<owner, at, stop_flag, waitFor>>
        \/ /\ args[p][q] /\ handle[q] = NULL
           /\ Goto(p, "create")
           /\ UNCHANGED <<next, stop_flag, waitFor>>
        \/ /\ ~args[p][q] /\ handle[q] # NULL
           /\ stop_flag' = [stop_flag EXCEPT ![q] = TRUE]
           /\ waitFor' = [waitFor EXCEPT ![p] = handle[q]]
           /\ Goto(p, "join")
           /\ UNCHANGED next
  /\ UNCHANGED <<data, requests, args, handle, iopc, ioPort>>

(* _beginthreadex, then the store of the handle.                           *)
UpdateCreate(p, t) ==
  /\ at[p] = "create"
  /\ iopc[t] = "exited"
  /\ \A q \in Port : t \notin {handle[q], waitFor[q]}
  /\ handle' = [handle EXCEPT ![next[p]] = t]
  /\ iopc' = [iopc EXCEPT ![t] = "check"]
  /\ ioPort' = [ioPort EXCEPT ![t] = next[p]]
  /\ next' = [next EXCEPT ![p] = @ + 1]
  /\ Goto(p, "update")
  /\ UNCHANGED <<data, requests, args, waitFor, stop_flag>>

(* Broken: the stop flag stays set.                                        *)
JoinKeepsFlag(p) ==
  /\ at[p] = "join" /\ iopc[waitFor[p]] = "exited"
  /\ handle' = [handle EXCEPT ![next[p]] = NULL]
  /\ waitFor' = [waitFor EXCEPT ![p] = NULL]
  /\ next' = [next EXCEPT ![p] = @ + 1]
  /\ Goto(p, "update")
  /\ UNCHANGED <<data, requests, args, stop_flag, iopc, ioPort>>

(* WaitForSingleObject(thread, INFINITE) returns: forget the thread.       *)
UpdateJoin(p) ==
  /\ at[p] = "join"
  /\ iopc[waitFor[p]] = "exited"
  /\ handle' = [handle EXCEPT ![next[p]] = NULL]
  /\ stop_flag' = [stop_flag EXCEPT ![next[p]] = FALSE]
  /\ waitFor' = [waitFor EXCEPT ![p] = NULL]
  /\ next' = [next EXCEPT ![p] = @ + 1]
  /\ Goto(p, "update")
  /\ UNCHANGED <<data, requests, args, iopc, ioPort>>

(* touch_update returned.  Only HALT cleared the status; it also flushes.  *)
UpdateDone(p) ==
  /\ at[p] = "update"
  /\ next[p] \notin Port
  /\ IF status[p]
     THEN UNCHANGED <<auto_scan, pending, ovl, unsignalled>>
     ELSE touch_clear_auto_scan(p) /\ touch_release_pending_read(p)
  /\ Goto(p, "leave")
  /\ UNCHANGED <<fd, status, readable, heard, nbytes, event, call, io>>

-----------------------------------------------------------------------------
(* mai2_io_touch_Np_thread_proc and its callback, touch_auto_scan.         *)

IoCheck(t) ==
  /\ iopc[t] = "check"
  /\ iopc' = [iopc EXCEPT ![t] = IF stop_flag[ioPort[t]] THEN "exited" ELSE "callback"]
  /\ UNCHANGED <<data, requests, owner, at, call, handle, stop_flag, ioPort>>

(* Broken: keeps the read position of the frame it overwrites.             *)
ScanKeepsPosition(t) ==
  LET p == ioPort[t]
  IN /\ iopc[t] = "callback" /\ owner[p] = Nobody /\ status[p]
     /\ auto_scan' = [auto_scan EXCEPT ![p] =
          [frame |-> (@.frame + 1) % FrameIds, pos |-> @.pos, valid |-> TRUE]]
     /\ Enter(p, t, "drain")
     /\ UNCHANGED <<fd, status, readable, pending, heard, requests, call, io>>

(* Broken: does not look at the status inside the lock.                    *)
ScanIgnoresStatus(t) ==
  LET p == ioPort[t]
  IN /\ iopc[t] = "callback" /\ owner[p] = Nobody
     /\ auto_scan' = [auto_scan EXCEPT ![p] =
          [frame |-> (@.frame + 1) % FrameIds, pos |-> 0, valid |-> TRUE]]
     /\ Enter(p, t, "drain")
     /\ UNCHANGED <<fd, status, readable, pending, heard, requests, call, io>>

touch_auto_scan(t) ==
  LET p == ioPort[t]
  IN /\ iopc[t] = "callback"
     /\ owner[p] = Nobody
     /\ \/ /\ status[p]
           /\ auto_scan' = [auto_scan EXCEPT ![p] =
                [frame |-> (@.frame + 1) % FrameIds, pos |-> 0, valid |-> TRUE]]
           /\ Enter(p, t, "drain")
           /\ UNCHANGED iopc
        \/ /\ ~status[p]
           /\ iopc' = [iopc EXCEPT ![t] = "check"]
           /\ UNCHANGED <<auto_scan, owner, at>>
     /\ UNCHANGED <<fd, status, readable, pending, heard, requests, call,
                    handle, stop_flag, ioPort>>

-----------------------------------------------------------------------------
Request(p) ==
  \/ Open(p)
  \/ Close(p)
  \/ \E n \in ReadSizes : ReadNow(p, n)
  \/ \E o \in Ovl, n \in ReadSizes : ReadLater(p, o, n)
  \/ \E c \in Commands : StatOrHalt(p, c)
  \/ touch_enqueue_reply(p)

Inside(p) ==
  \/ touch_complete_pending_read(p)
  \/ Signal(p)
  \/ Leave(p)
  \/ ReadArgs(p)
  \/ UpdateTest(p)
  \/ \E t \in IoThread : UpdateCreate(p, t)
  \/ UpdateJoin(p)
  \/ UpdateDone(p)

Next ==
  \/ \E p \in Port : Request(p) \/ Inside(p)
  \/ \E t \in IoThread : IoCheck(t) \/ touch_auto_scan(t)

Spec == Init /\ [][Next]_vars

(* Threads inside a lock keep running, I/O threads keep looping, and a     *)
(* thread that keeps asking for a lock is not passed over for ever.  The   *)
(* game need not do anything.                                              *)
Fairness ==
  /\ \A p \in Port : WF_vars(Inside(p))
  /\ \A t \in IoThread : WF_vars(IoCheck(t)) /\ SF_vars(touch_auto_scan(t))

FairSpec == Spec /\ Fairness

-----------------------------------------------------------------------------
(* Properties.                                                             *)

FrameId == 0..(FrameIds - 1)
Step == {"free", "args", "update", "create", "join", "drain", "leave"}

PortTypeOK ==
  /\ fd \in [Port -> BOOLEAN]
  /\ status \in [Port -> BOOLEAN]
  /\ readable \in [Port -> 0..ReadableSize]
  /\ auto_scan \in [Port -> [frame : FrameId, pos : 0..FrameSize, valid : BOOLEAN]]
  /\ heard \in [Port -> [frame : FrameId, pos : 0..FrameSize]]

RequestTypeOK ==
  /\ pending \in [Port -> Seq(Ovl)]
  /\ nbytes \in [Ovl -> ReadSizes]
  /\ ovl \in [Ovl -> {"pending", "success"}]
  /\ event \in [Ovl -> BOOLEAN]
  /\ unsignalled \in [Port -> SUBSET Ovl]

CallTypeOK ==
  /\ owner \in [Port -> {Nobody, Game} \cup IoThread]
  /\ at \in [Port -> Step]
  /\ args \in [Port -> [Port -> BOOLEAN]]
  /\ next \in [Port -> 1..(NPorts + 1)]
  /\ waitFor \in [Port -> IoThread \cup {NULL}]

IoTypeOK ==
  /\ handle \in [Port -> IoThread \cup {NULL}]
  /\ stop_flag \in [Port -> BOOLEAN]
  /\ iopc \in [IoThread -> {"exited", "check", "callback"}]
  /\ ioPort \in [IoThread -> Port]

TypeOK == PortTypeOK /\ RequestTypeOK /\ CallTypeOK /\ IoTypeOK

(* No queued read is left waiting while there is data for it: whoever adds *)
(* data (a reply or a frame) is still handing it out (touch_enqueue and    *)
(* touch_auto_scan drain before they leave the lock).                      *)
NoReadStranded ==
  \A p \in Port : pending[p] # <<>> /\ touch_read_available(p) => at[p] = "drain"

(* Once HALT or CLOSE has returned, the port has no half-delivered frame   *)
(* and no queued read until STAT, whatever the I/O thread, which CLOSE     *)
(* does not stop, does meanwhile.                                          *)
QuietWhileHalted ==
  \A p \in Port :
    ~status[p] /\ at[p] = "free" => pending[p] = <<>> /\ ~auto_scan[p].valid

(* An event that is set belongs to an answered request: the SetEvent that  *)
(* follows the store of Internal never hits the next read that reuses the  *)
(* same OVERLAPPED.                                                        *)
EventMeansAnswered == \A o \in Ovl : event[o] => ovl[o] = "success"

(* A frame that is being read in pieces is the one whose first bytes the   *)
(* game already has: a newer frame replaces it from its start, so the game *)
(* never gets the head of one frame joined to the tail of another.         *)
NoSplicedFrame ==
  \A p \in Port : auto_scan[p].valid /\ auto_scan[p].pos > 0
    => heard[p] = [frame |-> auto_scan[p].frame, pos |-> auto_scan[p].pos]

(* With one game thread at work, a player has at most one I/O thread, and  *)
(* it is the one the DLL's handle names: no thread is leaked.              *)
OneThreadPerPlayer ==
  \A t \in IoThread : iopc[t] # "exited" => handle[ioPort[t]] = t

(* touch.c implements the contract of overlapped reads: exactly one answer *)
(* each, in the order of acceptance.                                       *)
Contract == INSTANCE OverlappedReads WITH queue <- pending
ImplementsOverlappedReads == Contract!Spec

(* A queued read is answered: the player's thread keeps sending frames.    *)
QueuedReadIsAnswered ==
  \A o \in Ovl : ovl[o] = "pending" ~> ovl[o] = "success"

(* games/mai2io/mai2io.h: the thread "stops when the stop flag is true".   *)
StopFlagStopsThread ==
  \A t \in IoThread :
    (iopc[t] # "exited" /\ handle[ioPort[t]] = t /\ stop_flag[ioPort[t]]) ~> iopc[t] = "exited"

(* games/mai2io/mai2io.h: "When a player is active, the thread continues   *)
(* to send": a player left active for good, on a port whose lock is not    *)
(* held for good, is served again and again.                               *)
ActivePlayerIsServed ==
  \A p \in Port : <>[]status[p] /\ []<>(at[p] = "free")
    => []<>(\E t \in IoThread : owner[p] = t)

(* One panel, told of as a whole: the buffers are not overrun, no read     *)
(* waits beside data that answers it, a halted port is quiet, a set event  *)
(* stands for an answer, and no frame is read in two halves of two frames. *)
PanelIsSafe ==
  /\ TypeOK
  /\ NoReadStranded
  /\ QuietWhileHalted
  /\ EventMeansAnswered
  /\ NoSplicedFrame

(* The I/O threads that mai2_io_touch_update starts and stops do their     *)
(* work: each queued read is answered, each active player served.          *)
PanelsAreServed ==
  /\ QueuedReadIsAnswered
  /\ ActivePlayerIsServed

=============================================================================
