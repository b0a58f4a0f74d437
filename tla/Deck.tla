---------------------------------- MODULE Deck ----------------------------------
(***************************************************************************)
(* The RFID deck reader of Fate/Grand Order Arcade, games/fgohook/deck.c.  *)
(* The cards on the reader are in shared memory, put there by another      *)
(* process; the mutex "FGODeckMutex" guards them.  READ takes the mutex,   *)
(* every read of the port then sends one card, and the frame that ends the *)
(* deck gives the mutex back.                                              *)
(*                                                                         *)
(* deck_lock makes an IRP one step, but for the wait for the mutex.        *)
(* The mutex is a Windows one: owned by a thread, recursive, and           *)
(* ReleaseMutex fails for a thread that does not own it.                   *)
(* written holds whole frames, "bad" being one that fails to decode; of    *)
(* the bytes in the readable buffer only the number matters.               *)
(***************************************************************************)
EXTENDS Naturals, Sequences

CONSTANTS
  GameThread,  (* game threads that talk to the reader                     *)
  Writer,      (* the process that puts cards on the reader                *)
  Requests,    (* what the game may write at once: sequences of frames     *)
  WrittenMax,  (* bound: frames in deck_written_bytes                      *)
  ReadSizes,   (* bytes the game may ask for in one read                   *)
  Capacity,    (* deck_readable_bytes (1024)                               *)
  HeaderSize,  (* bytes of an encoded frame without a card                 *)
  CardSizes,   (* bytes of an encoded card: 49 and the escapes             *)
  MaxCards,    (* MAX_CARDS (30)                                           *)
  Edition,     (* tells the decks apart that the writer puts down          *)
  Nobody, NULL

Command == {"NOP", "READ", "unhandled", "bad"}

ASSUME DeckAssumption ==
  /\ Requests \subseteq Seq(Command)
  /\ WrittenMax \in Nat /\ MaxCards \in Nat
  /\ ReadSizes \subseteq Nat
  /\ Capacity \in Nat \ {0}
  /\ HeaderSize \in Nat \ {0}
  /\ CardSizes \subseteq Nat \ {0} /\ CardSizes # {}
  /\ Edition # {}
  /\ Writer \notin GameThread
  /\ Nobody \notin GameThread \cup {Writer}

Card == (1..MaxCards) \X Edition

ASSUME NullAssumption == NULL \notin Card

VARIABLES
  fd,                (* deck_uart.fd is set                                *)
  owner,             (* who is inside deck_lock                            *)
  pc,                (* where a game thread is                             *)
  written,           (* deck_uart.written                                  *)
  nbytes,            (* deck_uart.readable.pos                             *)
  mutex,             (* who owns the mutex                                 *)
  count,             (* how many times                                     *)
  read_pending,
  current_card_idx,
  nCards,            (* cards_ptr->nCards                                  *)
  cards,             (* cards_ptr->cards                                   *)
  wpc,               (* where the writer is                                *)
  wrote,             (* cards it has written since it took the mutex       *)
  edition,           (* the deck it is writing, or has written             *)
  snapshot,          (* history: the deck as it was when READ began        *)
  sent               (* history: the frames encoded for the last READ      *)

port == <<fd, owner, pc, written>>
lock == <<mutex, count>>
reader == <<read_pending, current_card_idx>>
shared == <<nCards, cards>>
writer == <<wpc, wrote, edition>>
history == <<snapshot, sent>>
vars == <<port, nbytes, lock, reader, shared, writer, history>>

(* The mapping may be there already, with a deck in it.                    *)
Init ==
  /\ fd = FALSE /\ owner = Nobody
  /\ pc = [g \in GameThread |-> "idle"]
  /\ written = <<>> /\ nbytes = 0
  /\ mutex = Nobody /\ count = 0
  /\ read_pending = FALSE /\ current_card_idx = 0
  /\ nCards \in 0..MaxCards
  /\ edition \in Edition
  /\ cards = [i \in 1..MaxCards |-> <<i, edition>>]
  /\ wpc = "idle" /\ wrote = 0
  /\ snapshot = [n |-> 0, edition |-> edition]
  /\ sent = <<>>

-----------------------------------------------------------------------------
(* The mutex.                                                              *)

ReleaseMutex(p) ==
  IF mutex = p
  THEN /\ count' = count - 1
       /\ mutex' = IF count = 1 THEN Nobody ELSE p
  ELSE UNCHANGED lock

WaitForMutex(p) ==
  /\ mutex \in {Nobody, p}
  /\ mutex' = p
  /\ count' = count + 1

-----------------------------------------------------------------------------
(* deck_frame_encode, with pos bytes in the buffer.  What does not fit is  *)
(* cut off where the buffer ends; an escaped byte is not split.            *)

Fits(pos, size) == pos + size <= Capacity

Encode(pos, size) ==
  \/ Fits(pos, size) /\ nbytes' = pos + size
  \/ ~Fits(pos, size) /\ nbytes' \in {Capacity - 1, Capacity} /\ nbytes' > pos
  \/ pos >= Capacity /\ nbytes' = pos

Frame(status, card, whole) == [status |-> status, card |-> card, whole |-> whole]

-----------------------------------------------------------------------------
(* deck_handle_irp.                                                        *)

Idle(g) == pc[g] = "idle" /\ owner = Nobody

(* OPEN fails if the port is open; CLOSE ends no read of the deck.         *)
Open(g) ==
  /\ Idle(g)
  /\ ~fd
  /\ fd' = TRUE
  /\ UNCHANGED <<owner, pc, written, nbytes, lock, reader, shared, writer, history>>

Close(g) ==
  /\ Idle(g)
  /\ fd
  /\ fd' = FALSE
  /\ UNCHANGED <<owner, pc, written, nbytes, lock, reader, shared, writer, history>>

Write(g, frames) ==
  /\ Idle(g)
  /\ fd
  /\ Len(written) + Len(frames) <= WrittenMax
  /\ written' = written \o frames
  /\ owner' = g
  /\ pc' = [pc EXCEPT ![g] = "decode"]
  /\ UNCHANGED <<fd, nbytes, lock, reader, shared, writer, history>>

(* uart_handle_irp hands over what there is, up to k bytes.                *)
Left(k) == IF nbytes > k THEN nbytes - k ELSE 0

(* deck_read_one, with pos bytes in the buffer: a card ...                 *)
SendCard(pos) ==
  /\ current_card_idx < nCards
  /\ \E size \in CardSizes :
       /\ Encode(pos, size)
       /\ sent' = Append(sent, Frame("DATA", cards[current_card_idx + 1], Fits(pos, size)))
  /\ current_card_idx' = current_card_idx + 1
  /\ UNCHANGED <<read_pending, lock>>

(* ... or the end of the deck.  Broken: keeps the mutex.                   *)
SendEndKeepsMutex(g, pos) ==
  /\ current_card_idx >= nCards
  /\ Encode(pos, HeaderSize)
  /\ sent' = Append(sent, Frame("END", NULL, Fits(pos, HeaderSize)))
  /\ read_pending' = FALSE
  /\ UNCHANGED <<current_card_idx, lock>>

SendEnd(g, pos) ==
  /\ current_card_idx >= nCards
  /\ Encode(pos, HeaderSize)
  /\ sent' = Append(sent, Frame("END", NULL, Fits(pos, HeaderSize)))
  /\ read_pending' = FALSE
  /\ ReleaseMutex(g)
  /\ UNCHANGED current_card_idx

(* Broken: encodes the next frame before it hands over the others.         *)
ReadAfterwards(g, k) ==
  /\ Idle(g)
  /\ fd
  /\ \/ ~read_pending /\ nbytes' = Left(k) /\ UNCHANGED <<reader, lock, sent>>
     \/ read_pending /\ (SendCard(nbytes) \/ SendEnd(g, nbytes))
  /\ UNCHANGED <<port, shared, writer, snapshot>>

Read(g, k) ==
  /\ Idle(g)
  /\ fd
  /\ \/ ~read_pending /\ nbytes' = Left(k) /\ UNCHANGED <<reader, lock, sent>>
     \/ read_pending /\ (SendCard(Left(k)) \/ SendEnd(g, Left(k)))
  /\ UNCHANGED <<port, shared, writer, snapshot>>

-----------------------------------------------------------------------------
(* The frames of a write, one by one.                                      *)

(* Nothing left to decode.                                                 *)
Leave(g) ==
  /\ pc[g] = "decode"
  /\ written = <<>>
  /\ owner' = Nobody
  /\ pc' = [pc EXCEPT ![g] = "idle"]
  /\ UNCHANGED <<fd, written, nbytes, lock, reader, shared, writer, history>>

(* A frame that fails to decode ends the request; what was written behind  *)
(* it waits for the next write.                                            *)
DeframeError(g) ==
  /\ pc[g] = "decode"
  /\ written # <<>> /\ Head(written) = "bad"
  /\ written' = Tail(written)
  /\ owner' = Nobody
  /\ pc' = [pc EXCEPT ![g] = "idle"]
  /\ UNCHANGED <<fd, nbytes, lock, reader, shared, writer, history>>

Take(g, command) ==
  /\ pc[g] = "decode"
  /\ written # <<>> /\ Head(written) = command
  /\ written' = Tail(written)
  /\ UNCHANGED <<fd, owner>>

deck_req_nop(g) ==
  /\ Take(g, "NOP")
  /\ Encode(nbytes, HeaderSize)
  /\ UNCHANGED <<pc, lock, reader, shared, writer, history>>

Unhandled(g) ==
  /\ Take(g, "unhandled")
  /\ UNCHANGED <<pc, nbytes, lock, reader, shared, writer, history>>

(* Broken: does not give the mutex back first.                             *)
ReadRequestKeepsMutex(g) ==
  /\ Take(g, "READ")
  /\ pc' = [pc EXCEPT ![g] = "wait"]
  /\ UNCHANGED <<nbytes, lock, reader, shared, writer, history>>

(* deck_req_read: ReleaseMutex, in case the last READ was not finished ... *)
ReadRequest(g) ==
  /\ Take(g, "READ")
  /\ ReleaseMutex(g)
  /\ pc' = [pc EXCEPT ![g] = "wait"]
  /\ UNCHANGED <<nbytes, reader, shared, writer, history>>

(* ... and the wait.  Broken: goes on where the last READ ended.           *)
ReadBeginsKeepsIndex(g) ==
  /\ pc[g] = "wait"
  /\ WaitForMutex(g)
  /\ pc' = [pc EXCEPT ![g] = "decode"]
  /\ read_pending' = TRUE
  /\ Encode(nbytes, HeaderSize)
  /\ snapshot' = [n |-> nCards, edition |-> edition]
  /\ sent' = <<Frame("START", NULL, Fits(nbytes, HeaderSize))>>
  /\ UNCHANGED <<fd, owner, written, current_card_idx, shared, writer>>

ReadBegins(g) ==
  /\ pc[g] = "wait"
  /\ WaitForMutex(g)
  /\ pc' = [pc EXCEPT ![g] = "decode"]
  /\ current_card_idx' = 0
  /\ read_pending' = TRUE
  /\ Encode(nbytes, HeaderSize)
  /\ snapshot' = [n |-> nCards, edition |-> edition]
  /\ sent' = <<Frame("START", NULL, Fits(nbytes, HeaderSize))>>
  /\ UNCHANGED <<fd, owner, written, shared, writer>>

-----------------------------------------------------------------------------
(* The other process.                                                      *)

WriterAsks ==
  /\ wpc = "idle"
  /\ wpc' = "wait"
  /\ UNCHANGED <<port, nbytes, lock, reader, shared, wrote, edition, history>>

WriterLocks ==
  /\ wpc = "wait"
  /\ mutex = Nobody
  /\ WaitForMutex(Writer)
  /\ wpc' = "write"
  /\ wrote' = 0
  /\ nCards' \in 0..MaxCards
  /\ edition' \in Edition
  /\ UNCHANGED <<port, nbytes, reader, cards, history>>

WriterWrites ==
  /\ wpc = "write"
  /\ wrote < nCards
  /\ cards' = [cards EXCEPT ![wrote + 1] = <<wrote + 1, edition>>]
  /\ wrote' = wrote + 1
  /\ UNCHANGED <<port, nbytes, lock, reader, nCards, wpc, edition, history>>

WriterUnlocks ==
  /\ wpc = "write"
  /\ wrote = nCards
  /\ ReleaseMutex(Writer)
  /\ wpc' = "idle"
  /\ UNCHANGED <<port, nbytes, reader, shared, wrote, edition, history>>

-----------------------------------------------------------------------------
Request(g) ==
  \/ Open(g)
  \/ Close(g)
  \/ \E frames \in Requests : Write(g, frames)
  \/ \E k \in ReadSizes : Read(g, k)

Inside(g) ==
  \/ Leave(g)
  \/ DeframeError(g)
  \/ deck_req_nop(g)
  \/ Unhandled(g)
  \/ ReadRequest(g)

WriterRuns == WriterLocks \/ WriterWrites \/ WriterUnlocks

Next ==
  \/ \E g \in GameThread : Request(g) \/ Inside(g) \/ ReadBegins(g)
  \/ WriterAsks
  \/ WriterRuns

Spec == Init /\ [][Next]_vars

(* Threads run on.  Windows hands a mutex to its waiters in turn, so one   *)
(* that is freed again and again is not withheld from a waiter for ever.   *)
Fairness ==
  /\ \A g \in GameThread : WF_vars(Inside(g)) /\ SF_vars(ReadBegins(g))
  /\ SF_vars(WriterLocks)
  /\ WF_vars(WriterWrites) /\ WF_vars(WriterUnlocks)

(* The game does not walk away in the middle of a deck: it opens the port  *)
(* again, and reads.                                                       *)
GameKeepsReading ==
  \A g \in GameThread : WF_vars(Open(g)) /\ SF_vars(\E k \in ReadSizes : Read(g, k))

FairSpec == Spec /\ Fairness /\ GameKeepsReading

-----------------------------------------------------------------------------
(* Properties.                                                             *)

Frames == [status : {"START", "DATA", "END"}, card : Card \cup {NULL}, whole : BOOLEAN]

TypeOK ==
  /\ fd \in BOOLEAN
  /\ owner \in GameThread \cup {Nobody}
  /\ pc \in [GameThread -> {"idle", "decode", "wait"}]
  /\ written \in Seq(Command)
  /\ nbytes \in 0..Capacity
  /\ mutex \in GameThread \cup {Writer, Nobody}
  /\ count = IF mutex = Nobody THEN 0 ELSE 1
  /\ read_pending \in BOOLEAN
  /\ current_card_idx \in 0..MaxCards
  /\ nCards \in 0..MaxCards
  /\ cards \in [1..MaxCards -> Card]
  /\ wpc \in {"idle", "wait", "write"}
  /\ wrote \in 0..MaxCards
  /\ edition \in Edition
  /\ snapshot \in [n : 0..MaxCards, edition : Edition]
  /\ sent \in Seq(Frames)

(* What the game is sent between START and END is one deck, card by card   *)
(* and in order, as the writer had left it when READ began: never a mix of *)
(* two decks, however slowly the game reads.                               *)
DeckIsOneSnapshot ==
  \A i \in 1..Len(sent) :
    /\ i <= snapshot.n + 2
    /\ sent[i].status = IF i = 1 THEN "START"
                        ELSE IF i <= snapshot.n + 1 THEN "DATA" ELSE "END"
    /\ sent[i].status = "DATA" => sent[i].card = <<i - 1, snapshot.edition>>

(* A game that asks for at least a frame in each read gets every card: the *)
(* buffer may be full of replies, but what a read makes room for is enough *)
(* for what deck_read_one adds.                                            *)
NoCardIsCut == \A i \in 1..Len(sent) : sent[i].status # "START" => sent[i].whole

(* The emulator has the mutex only while a deck is being read.             *)
MutexOnlyWhileReading == mutex \in GameThread => read_pending

(* Whoever wants to put other cards on the reader can, in the end.         *)
WriterGetsIn == wpc = "wait" ~> wpc = "write"

(* A deck is one snapshot of the shared memory and each of its cards is    *)
(* whole, with the mutex held from its first card to its last and no       *)
(* longer.                                                                 *)
DeckIsSafe ==
  /\ TypeOK
  /\ DeckIsOneSnapshot
  /\ NoCardIsCut
  /\ MutexOnlyWhileReading

=============================================================================
