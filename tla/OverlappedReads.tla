--------------------------- MODULE OverlappedReads ---------------------------
(***************************************************************************)
(* What an emulated device promises for the overlapped requests it accepts *)
(* with ERROR_IO_PENDING: each one is answered exactly once, the requests  *)
(* of a port are answered in the order in which they were accepted, and    *)
(* OPEN, CLOSE and HALT may answer everything outstanding at once.  The    *)
(* detailed modules (Mai2Touch, Async) are shown to implement it.          *)
(***************************************************************************)
EXTENDS Naturals, Sequences

CONSTANTS
  Port,   (* the request queues                                            *)
  Ovl     (* the OVERLAPPED structures of the game                         *)

VARIABLES
  queue,  (* per port: the accepted, unanswered requests in order          *)
  ovl     (* OVERLAPPED.Internal: "pending" or "success"                   *)

vars == <<queue, ovl>>

Waiting(q) == {q[i] : i \in 1..Len(q)}

Init ==
  /\ queue = [p \in Port |-> <<>>]
  /\ ovl = [o \in Ovl |-> "success"]

Accept(p, o) ==
  /\ ovl[o] = "success"
  /\ queue' = [queue EXCEPT ![p] = Append(@, o)]
  /\ ovl' = [ovl EXCEPT ![o] = "pending"]

Answer(p) ==
  /\ queue[p] # <<>>
  /\ ovl' = [ovl EXCEPT ![Head(queue[p])] = "success"]
  /\ queue' = [queue EXCEPT ![p] = Tail(@)]

Flush(p) ==
  /\ ovl' = [o \in Ovl |-> IF o \in Waiting(queue[p]) THEN "success" ELSE ovl[o]]
  /\ queue' = [queue EXCEPT ![p] = <<>>]

Next ==
  \E p \in Port :
    \/ \E o \in Ovl : Accept(p, o)
    \/ Answer(p)
    \/ Flush(p)

Spec == Init /\ [][Next]_vars

(* An OVERLAPPED is pending exactly when it is queued, and it is queued    *)
(* in one place only: no answer is lost and none is given twice.           *)
QueuedOnce ==
  /\ \A o \in Ovl : ovl[o] = "pending" <=> \E p \in Port : o \in Waiting(queue[p])
  /\ \A p, q \in Port : \A i \in 1..Len(queue[p]), j \in 1..Len(queue[q]) :
       queue[p][i] = queue[q][j] => p = q /\ i = j

=============================================================================
