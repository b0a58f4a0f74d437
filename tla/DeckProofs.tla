------------------------------ MODULE DeckProofs ------------------------------
(***************************************************************************)
(* What holds of Deck for every number of game threads and cards, every    *)
(* buffer and frame size, and everything the game may write.               *)
(***************************************************************************)
EXTENDS Deck, TLAPS

Waiting == \E g \in GameThread : pc[g] = "wait"

(* deck_lock is held by the thread that decodes or waits.                  *)
LockInv == \A g \in GameThread : pc[g] # "idle" => owner = g

(* A thread that waits for the mutex has given it back, so it will not     *)
(* own it twice.                                                           *)
WaitInv == \A g \in GameThread : pc[g] = "wait" => mutex # g

(* The shared memory holds one deck, as far as it is written.              *)
WriterInv ==
  /\ mutex = Writer <=> wpc = "write"
  /\ mutex # Writer => \A i \in 1..nCards : cards[i] = <<i, edition>>
  /\ mutex = Writer =>
       /\ wrote <= nCards
       /\ \A i \in 1..wrote : cards[i] = <<i, edition>>

(* While a deck is read the mutex is the emulator's, so what was there     *)
(* when READ began is there still.                                         *)
ReadingInv ==
  read_pending /\ ~Waiting =>
    /\ mutex \in GameThread
    /\ snapshot = [n |-> nCards, edition |-> edition]
    /\ current_card_idx <= nCards
    /\ Len(sent) = current_card_idx + 1

IInv == TypeOK /\ LockInv /\ WaitInv /\ WriterInv /\ ReadingInv /\ DeckIsOneSnapshot

-----------------------------------------------------------------------------
(* The encoder never writes past the end of the readable buffer.           *)
LEMMA EncodeInBounds ==
  ASSUME NEW pos \in 0..Capacity, NEW size \in Nat, Encode(pos, size)
  PROVE  nbytes' \in 0..Capacity
  BY DeckAssumption DEF Encode, Fits

LEMMA LeftInBounds ==
  ASSUME nbytes \in 0..Capacity, NEW k \in Nat
  PROVE  Left(k) \in 0..Capacity
  BY DeckAssumption DEF Left

LEMMA TailKeepsType ==
  ASSUME TypeOK, written # <<>>
  PROVE  Tail(written) \in Seq(Command)
  BY DEF TypeOK

(* A thread that does not wait for the mutex again owns it at most once.   *)
LEMMA ReleaseKeepsType ==
  ASSUME TypeOK, NEW p \in GameThread \cup {Writer}, ReleaseMutex(p)
  PROVE  /\ mutex' \in GameThread \cup {Writer, Nobody}
         /\ count' = IF mutex' = Nobody THEN 0 ELSE 1
         /\ mutex = p => mutex' = Nobody
         /\ mutex # p => mutex' = mutex
<1>1. p # Nobody
  BY DeckAssumption
<1>2. CASE mutex = p
  BY <1>1, <1>2 DEF TypeOK, ReleaseMutex
<1>3. CASE mutex # p
  BY <1>3 DEF TypeOK, ReleaseMutex, lock
<1>4. QED
  BY <1>2, <1>3

LEMMA WaitKeepsType ==
  ASSUME TypeOK, NEW p \in GameThread \cup {Writer}, mutex # p, WaitForMutex(p)
  PROVE  mutex = Nobody /\ mutex' = p /\ count' = 1
  BY DeckAssumption DEF TypeOK, WaitForMutex

-----------------------------------------------------------------------------
LEMMA InitInv == Init => IInv
<1> SUFFICES ASSUME Init PROVE IInv
  OBVIOUS
<1> USE DeckAssumption DEF Init
<1>1. TypeOK
  <2>1. cards \in [1..MaxCards -> Card]
    BY DEF Card
  <2>2. <<>> \in Seq(Command)
    OBVIOUS
  <2>3. <<>> \in Seq(Frames)
    OBVIOUS
  <2>4. written \in Seq(Command) /\ sent \in Seq(Frames)
    BY <2>2, <2>3
  <2>5. snapshot \in [n : 0..MaxCards, edition : Edition]
    OBVIOUS
  <2>6. pc \in [GameThread -> {"idle", "decode", "wait"}]
    OBVIOUS
  <2>7. nbytes \in 0..Capacity /\ count = IF mutex = Nobody THEN 0 ELSE 1
    OBVIOUS
  <2>8. current_card_idx \in 0..MaxCards /\ wrote \in 0..MaxCards /\ nCards \in 0..MaxCards
    OBVIOUS
  <2>9. fd \in BOOLEAN /\ read_pending \in BOOLEAN
    OBVIOUS
  <2>10. owner = Nobody /\ mutex = Nobody /\ wpc = "idle" /\ edition \in Edition
    OBVIOUS
  <2> HIDE DEF Init
  <2>11. QED
    BY <2>1, <2>4, <2>5, <2>6, <2>7, <2>8, <2>9, <2>10 DEF TypeOK
<1>2. LockInv /\ WaitInv /\ ReadingInv
  BY DEF LockInv, WaitInv, ReadingInv
<1>3. WriterInv
  BY DEF WriterInv
<1>4. DeckIsOneSnapshot
  BY DEF DeckIsOneSnapshot
<1>5. QED
  BY <1>1, <1>2, <1>3, <1>4 DEF IInv

(* Steps that leave the mutex, the cards and the deck being read alone.    *)
LEMMA CalmStep ==
  ASSUME IInv, TypeOK', LockInv',
         \A g \in GameThread : pc'[g] = "wait" <=> pc[g] = "wait",
         UNCHANGED <<lock, reader, shared, wrote, edition, history>>,
         wpc' = "write" <=> wpc = "write"
  PROVE  IInv'
<1> USE DEF IInv, lock, reader, shared, history
<1>1. WaitInv'
  BY DEF WaitInv
<1>2. WriterInv'
  BY DEF WriterInv
<1>3. Waiting' <=> Waiting
  BY DEF Waiting
<1>4. ReadingInv'
  BY <1>3 DEF ReadingInv
<1>5. DeckIsOneSnapshot'
  BY DEF DeckIsOneSnapshot
<1>6. QED
  BY <1>1, <1>2, <1>4, <1>5

(* deck_read_one sends the next card.                                      *)
LEMMA SendCardStep ==
  ASSUME IInv, NEW g \in GameThread, NEW k \in ReadSizes, Read(g, k), read_pending,
         SendCard(Left(k))
  PROVE  IInv'
<1> USE DeckAssumption DEF IInv, Read, SendCard, Idle, port, lock, shared, writer
<1>1. ~Waiting
  <2>1. owner = Nobody /\ LockInv
    OBVIOUS
  <2>2. \A h \in GameThread : pc[h] = "idle"
    BY ONLY <2>1, DeckAssumption DEF LockInv
  <2>3. QED
    BY ONLY <2>2 DEF Waiting
<1>2. /\ mutex \in GameThread
      /\ snapshot = [n |-> nCards, edition |-> edition]
      /\ Len(sent) = current_card_idx + 1
  BY <1>1 DEF ReadingInv
<1>3. current_card_idx + 1 \in 1..nCards /\ nCards \in 0..MaxCards
  BY DEF TypeOK
<1>4. mutex # Writer
  BY <1>2
<1>5. cards[current_card_idx + 1] = <<current_card_idx + 1, edition>>
  BY <1>3, <1>4 DEF WriterInv
<1>6. PICK size \in CardSizes :
        /\ Encode(Left(k), size)
        /\ sent' = Append(sent, Frame("DATA", cards[current_card_idx + 1], Fits(Left(k), size)))
  OBVIOUS
<1> DEFINE f == Frame("DATA", cards[current_card_idx + 1], Fits(Left(k), size))
<1>7. f \in Frames /\ f.status = "DATA" /\ f.card = cards[current_card_idx + 1]
  <2>1. cards[current_card_idx + 1] \in Card
    BY <1>3 DEF TypeOK
  <2>2. Fits(Left(k), size) \in BOOLEAN
    BY DEF Fits
  <2>3. QED
    BY <2>1, <2>2 DEF Frame, Frames
<1>8. nbytes' \in 0..Capacity
  <2>1. Left(k) \in 0..Capacity
    BY LeftInBounds DEF TypeOK
  <2>2. size \in Nat
    OBVIOUS
  <2>3. QED
    BY <1>6, <2>1, <2>2, EncodeInBounds
<1>9. TypeOK'
  <2>1. sent' \in Seq(Frames)
    BY <1>6, <1>7 DEF TypeOK
  <2>2. current_card_idx' \in 0..MaxCards
    BY <1>3 DEF TypeOK
  <2>3. QED
    BY <1>8, <2>1, <2>2 DEF TypeOK
<1>10. LockInv' /\ WaitInv' /\ WriterInv'
  BY DEF LockInv, WaitInv, WriterInv
<1>11. sent \in Seq(Frames) /\ sent' = Append(sent, f)
  BY <1>6 DEF TypeOK
<1>12. ReadingInv'
  BY <1>2, <1>3, <1>7, <1>11 DEF ReadingInv, TypeOK
<1>13. DeckIsOneSnapshot'
  <2> SUFFICES ASSUME NEW i \in 1..Len(sent')
               PROVE  /\ i <= snapshot.n + 2
                      /\ sent'[i].status = IF i = 1 THEN "START"
                                ELSE IF i <= snapshot.n + 1 THEN "DATA" ELSE "END"
                      /\ sent'[i].status = "DATA" => sent'[i].card = <<i - 1, snapshot.edition>>
    BY DEF DeckIsOneSnapshot
  <2>1. CASE i <= Len(sent)
    <3>1. sent'[i] = sent[i] /\ i \in 1..Len(sent)
      BY <1>11, <2>1, <1>7
    <3>2. QED
      BY <3>1 DEF DeckIsOneSnapshot
  <2>2. CASE i = Len(sent) + 1
    <3>1. sent'[i] = f
      BY <1>11, <2>2, <1>7
    <3>2. i = current_card_idx + 2 /\ i - 1 = current_card_idx + 1 /\ current_card_idx \in Nat
      BY <1>2, <2>2 DEF TypeOK
    <3>3. i # 1 /\ i <= snapshot.n + 1 /\ snapshot.edition = edition /\ i <= snapshot.n + 2
      BY <1>2, <1>3, <3>2
    <3>4. f.card = <<i - 1, snapshot.edition>>
      BY <1>5, <1>7, <3>2, <3>3
    <3>5. QED
      BY <1>7, <3>1, <3>3, <3>4
  <2>3. QED
    BY <1>7, <1>11, <2>1, <2>2
<1>14. QED
  BY <1>9, <1>10, <1>12, <1>13

(* deck_read_one ends the deck.                                            *)
LEMMA SendEndStep ==
  ASSUME IInv, NEW g \in GameThread, NEW k \in ReadSizes, Read(g, k), read_pending,
         SendEnd(g, Left(k))
  PROVE  IInv'
<1> USE DeckAssumption DEF IInv, Read, SendEnd, Idle, port, shared, writer
<1>1. ~Waiting
  <2>1. owner = Nobody /\ LockInv
    OBVIOUS
  <2>2. \A h \in GameThread : pc[h] = "idle"
    BY ONLY <2>1, DeckAssumption DEF LockInv
  <2>3. QED
    BY ONLY <2>2 DEF Waiting
<1>2. /\ mutex \in GameThread
      /\ snapshot = [n |-> nCards, edition |-> edition]
      /\ current_card_idx = nCards
      /\ Len(sent) = nCards + 1
  BY <1>1 DEF ReadingInv, TypeOK
<1> DEFINE f == Frame("END", NULL, Fits(Left(k), HeaderSize))
<1>3. f \in Frames /\ f.status = "END"
  <2>1. Fits(Left(k), HeaderSize) \in BOOLEAN
    BY DEF Fits
  <2>2. QED
    BY <2>1 DEF Frame, Frames
<1>4. sent \in Seq(Frames) /\ sent' = Append(sent, f)
  BY DEF TypeOK
<1>5. /\ mutex' \in GameThread \cup {Writer, Nobody}
      /\ count' = IF mutex' = Nobody THEN 0 ELSE 1
      /\ mutex' \in {mutex, Nobody}
  BY ReleaseKeepsType
<1>6. TypeOK'
  <2>1. nbytes' \in 0..Capacity
    <3>1. Left(k) \in 0..Capacity
      BY LeftInBounds DEF TypeOK
    <3>2. QED
      BY <3>1, EncodeInBounds
  <2>2. sent' \in Seq(Frames)
    BY <1>3, <1>4
  <2>3. QED
    BY <1>5, <2>1, <2>2 DEF TypeOK
<1>7. mutex # Writer /\ mutex' # Writer
  BY <1>2, <1>5
<1>8. LockInv' /\ WaitInv'
  BY <1>1 DEF LockInv, WaitInv, Waiting
<1>9. WriterInv'
  BY <1>7 DEF WriterInv
<1>10. ReadingInv'
  BY DEF ReadingInv
<1>11. DeckIsOneSnapshot'
  <2> SUFFICES ASSUME NEW i \in 1..Len(sent')
               PROVE  /\ i <= snapshot.n + 2
                      /\ sent'[i].status = IF i = 1 THEN "START"
                                ELSE IF i <= snapshot.n + 1 THEN "DATA" ELSE "END"
                      /\ sent'[i].status = "DATA" => sent'[i].card = <<i - 1, snapshot.edition>>
    BY DEF DeckIsOneSnapshot
  <2>1. CASE i <= Len(sent)
    <3>1. sent'[i] = sent[i] /\ i \in 1..Len(sent)
      BY <1>4, <2>1, <1>3
    <3>2. QED
      BY <3>1 DEF DeckIsOneSnapshot
  <2>2. CASE i = Len(sent) + 1
    <3>1. sent'[i] = f
      BY <1>4, <2>2, <1>3
    <3>2. i = snapshot.n + 2 /\ snapshot.n \in Nat
      BY <1>2, <2>2 DEF TypeOK
    <3>3. QED
      BY <1>3, <3>1, <3>2
  <2>3. QED
    BY <1>3, <1>4, <2>1, <2>2
<1>12. QED
  BY <1>6, <1>8, <1>9, <1>10, <1>11

(* deck_req_read gives the mutex back before it waits.                     *)
LEMMA ReadRequestStep ==
  ASSUME IInv, NEW g \in GameThread, ReadRequest(g)
  PROVE  IInv'
<1> USE DeckAssumption DEF IInv, ReadRequest, Take, reader, shared, writer, history
<1>1. /\ mutex' \in GameThread \cup {Writer, Nobody}
      /\ count' = IF mutex' = Nobody THEN 0 ELSE 1
      /\ mutex = g => mutex' = Nobody
      /\ mutex # g => mutex' = mutex
  BY ReleaseKeepsType
<1>2. pc' = [pc EXCEPT ![g] = "wait"] /\ pc \in [GameThread -> {"idle", "decode", "wait"}]
  BY DEF TypeOK
<1>3. TypeOK'
  <2>1. written' \in Seq(Command)
    BY TailKeepsType
  <2>2. QED
    BY <1>1, <1>2, <2>1 DEF TypeOK
<1>4. LockInv'
  BY <1>2 DEF LockInv
<1>5. mutex' = Writer <=> mutex = Writer
  BY <1>1
<1>6. WaitInv'
  <2> SUFFICES ASSUME NEW h \in GameThread, pc'[h] = "wait" PROVE mutex' # h
    BY DEF WaitInv
  <2>1. CASE h = g
    BY <1>1, <2>1
  <2>2. CASE h # g
    BY <1>1, <1>2, <2>2 DEF WaitInv
  <2>3. QED
    BY <2>1, <2>2
<1>7. WriterInv'
  BY <1>5 DEF WriterInv
<1>8. Waiting'
  BY <1>2 DEF Waiting
<1>9. ReadingInv' /\ DeckIsOneSnapshot'
  BY <1>8 DEF ReadingInv, DeckIsOneSnapshot
<1>10. QED
  BY <1>3, <1>4, <1>6, <1>7, <1>9

(* deck_req_read has the mutex: the deck is whole, and stays as it is.     *)
LEMMA ReadBeginsStep ==
  ASSUME IInv, NEW g \in GameThread, ReadBegins(g)
  PROVE  IInv'
<1> USE DeckAssumption DEF IInv, ReadBegins, shared, writer
<1>1. mutex = Nobody /\ mutex' = g /\ count' = 1
  BY WaitKeepsType DEF WaitInv
<1>2. pc' = [pc EXCEPT ![g] = "decode"] /\ pc \in [GameThread -> {"idle", "decode", "wait"}]
  BY DEF TypeOK
<1> DEFINE f == Frame("START", NULL, Fits(nbytes, HeaderSize))
<1>3. f \in Frames /\ f.status = "START"
  <2>1. Fits(nbytes, HeaderSize) \in BOOLEAN
    BY DEF Fits
  <2>2. QED
    BY <2>1 DEF Frame, Frames
<1>4. sent' = <<f>>
  OBVIOUS
<1>5. nbytes' \in 0..Capacity
  BY EncodeInBounds DEF TypeOK
<1>6. nCards \in 0..MaxCards /\ edition \in Edition
  BY DEF TypeOK
<1>7. TypeOK'
  <2>1. sent' \in Seq(Frames)
    BY <1>3, <1>4
  <2>2. snapshot' \in [n : 0..MaxCards, edition : Edition]
    BY <1>6
  <2>3. QED
    BY <1>1, <1>2, <1>5, <2>1, <2>2 DEF TypeOK
<1>8. LockInv' /\ WaitInv'
  <2>1. \A h \in GameThread : h # g => pc[h] = "idle" /\ pc'[h] = "idle"
    BY <1>2 DEF LockInv
  <2>2. QED
    BY <1>2, <2>1 DEF LockInv, WaitInv
<1>9. WriterInv'
  BY <1>1 DEF WriterInv
<1>10. ReadingInv'
  BY <1>1, <1>4, <1>6 DEF ReadingInv
<1>11. DeckIsOneSnapshot'
  <2>1. Len(sent') = 1 /\ sent'[1] = f
    BY <1>4
  <2>2. snapshot'.n \in Nat
    BY <1>6
  <2>3. QED
    BY <1>3, <2>1, <2>2 DEF DeckIsOneSnapshot
<1>12. QED
  BY <1>7, <1>8, <1>9, <1>10, <1>11

(* The other process touches the cards only while it has the mutex, and    *)
(* then no deck is being read.                                             *)
LEMMA WriterStep ==
  ASSUME IInv, WriterRuns
  PROVE  IInv'
<1> USE DeckAssumption DEF IInv, port, reader, shared, writer, history
<1>1. CASE WriterLocks
  <2> USE <1>1 DEF WriterLocks
  <2>1. mutex = Nobody /\ mutex' = Writer /\ count' = 1
    BY WaitKeepsType
  <2>2. ~(read_pending /\ ~Waiting)
    BY <2>1 DEF ReadingInv
  <2>3. TypeOK'
    BY <2>1 DEF TypeOK
  <2>4. LockInv' /\ WaitInv' /\ DeckIsOneSnapshot'
    BY <2>1 DEF LockInv, WaitInv, DeckIsOneSnapshot
  <2>5. WriterInv'
    BY <2>1 DEF WriterInv
  <2>6. ReadingInv'
    BY <2>2 DEF ReadingInv, Waiting
  <2>7. QED
    BY <2>3, <2>4, <2>5, <2>6
<1>2. CASE WriterWrites
  <2> USE <1>2 DEF WriterWrites, lock
  <2>1. mutex = Writer
    BY DEF WriterInv
  <2>2. ~(read_pending /\ ~Waiting)
    BY <2>1 DEF ReadingInv
  <2>3. wrote \in 0..MaxCards /\ nCards \in 0..MaxCards /\ edition \in Edition
    BY DEF TypeOK
  <2>4. <<wrote + 1, edition>> \in Card
    BY <2>3 DEF Card
  <2>5. TypeOK'
    BY <2>3, <2>4 DEF TypeOK
  <2>6. LockInv' /\ WaitInv' /\ DeckIsOneSnapshot'
    BY DEF LockInv, WaitInv, DeckIsOneSnapshot
  <2>7. WriterInv'
    <3>1. \A i \in 1..wrote' : cards'[i] = <<i, edition'>>
      BY <2>1, <2>3 DEF WriterInv, TypeOK
    <3>2. wrote' <= nCards'
      BY <2>3
    <3>3. QED
      BY <2>1, <3>1, <3>2 DEF WriterInv
  <2>8. ReadingInv'
    BY <2>2 DEF ReadingInv, Waiting
  <2>9. QED
    BY <2>5, <2>6, <2>7, <2>8
<1>3. CASE WriterUnlocks
  <2> USE <1>3 DEF WriterUnlocks
  <2>1. mutex = Writer
    BY DEF WriterInv
  <2>2. mutex' = Nobody /\ count' = 0
    BY <2>1, ReleaseKeepsType
  <2>3. ~(read_pending /\ ~Waiting)
    BY <2>1 DEF ReadingInv
  <2>4. TypeOK'
    BY <2>2 DEF TypeOK
  <2>5. LockInv' /\ WaitInv' /\ DeckIsOneSnapshot'
    BY <2>2 DEF LockInv, WaitInv, DeckIsOneSnapshot
  <2>6. WriterInv'
    BY <2>1, <2>2 DEF WriterInv
  <2>7. ReadingInv'
    BY <2>3 DEF ReadingInv, Waiting
  <2>8. QED
    BY <2>4, <2>5, <2>6, <2>7
<1>4. QED
  BY <1>1, <1>2, <1>3 DEF WriterRuns

LEMMA NextInv == IInv /\ [Next]_vars => IInv'
<1> SUFFICES ASSUME IInv, [Next]_vars PROVE IInv'
  OBVIOUS
<1> USE DeckAssumption
<1>1. ASSUME NEW g \in GameThread, Open(g) \/ Close(g) PROVE IInv'
  <2> USE <1>1 DEF Open, Close, lock, reader, shared, writer, history
  <2>1. fd' \in BOOLEAN
    OBVIOUS
  <2>2. TypeOK'
    BY <2>1 DEF IInv, TypeOK
  <2>3. LockInv'
    BY DEF IInv, LockInv
  <2>4. QED
    BY <2>2, <2>3, CalmStep
<1>2. ASSUME NEW g \in GameThread, NEW frames \in Requests, Write(g, frames) PROVE IInv'
  <2> USE <1>2 DEF IInv, Write, Idle, lock, reader, shared, writer, history
  <2>1. TypeOK'
    <3>1. written \in Seq(Command) /\ frames \in Seq(Command)
      BY DEF TypeOK
    <3>2. written' \in Seq(Command)
      BY <3>1
    <3>3. QED
      BY <3>2 DEF TypeOK
  <2>2. LockInv'
    BY DEF TypeOK, LockInv
  <2>3. \A h \in GameThread : pc'[h] = "wait" <=> pc[h] = "wait"
    BY DEF TypeOK
  <2>4. QED
    BY <2>1, <2>2, <2>3, CalmStep
<1>3. ASSUME NEW g \in GameThread, NEW k \in ReadSizes, Read(g, k) PROVE IInv'
  <2>1. CASE ~read_pending
    <3> USE <1>3, <2>1 DEF Read, Idle, port, lock, reader, shared, writer
    <3>1. nbytes' \in 0..Capacity
      BY LeftInBounds DEF IInv, TypeOK
    <3>2. TypeOK' /\ LockInv'
      BY <3>1 DEF IInv, TypeOK, LockInv
    <3>3. QED
      BY <3>2, CalmStep DEF history
  <2>2. CASE read_pending /\ SendCard(Left(k))
    BY <1>3, <2>2, SendCardStep
  <2>3. CASE read_pending /\ SendEnd(g, Left(k))
    BY <1>3, <2>3, SendEndStep
  <2>4. QED
    BY <1>3, <2>1, <2>2, <2>3 DEF Read
<1>4. ASSUME NEW g \in GameThread, Leave(g) \/ DeframeError(g) PROVE IInv'
  <2> USE <1>4 DEF IInv, Leave, DeframeError, lock, reader, shared, writer, history
  <2>1. written' \in Seq(Command)
    BY TailKeepsType DEF TypeOK
  <2>2. TypeOK'
    BY <2>1 DEF TypeOK
  <2>3. LockInv'
    BY DEF TypeOK, LockInv
  <2>4. \A h \in GameThread : pc'[h] = "wait" <=> pc[h] = "wait"
    BY DEF TypeOK
  <2>5. QED
    BY <2>2, <2>3, <2>4, CalmStep
<1>5. ASSUME NEW g \in GameThread, deck_req_nop(g) \/ Unhandled(g) PROVE IInv'
  <2> USE <1>5 DEF IInv, deck_req_nop, Unhandled, Take, lock, reader, shared, writer, history
  <2>1. written' \in Seq(Command)
    BY TailKeepsType
  <2>2. nbytes' \in 0..Capacity
    BY EncodeInBounds DEF TypeOK
  <2>3. TypeOK' /\ LockInv'
    BY <2>1, <2>2 DEF TypeOK, LockInv
  <2>4. QED
    BY <2>3, CalmStep
<1>6. ASSUME NEW g \in GameThread, ReadRequest(g) PROVE IInv'
  BY <1>6, ReadRequestStep
<1>7. ASSUME NEW g \in GameThread, ReadBegins(g) PROVE IInv'
  BY <1>7, ReadBeginsStep
<1>8. CASE WriterAsks
  <2>1. TypeOK' /\ LockInv'
    BY <1>8 DEF IInv, TypeOK, LockInv, WriterAsks, port, lock, reader, shared, history
  <2>2. QED
    BY <1>8, <2>1, CalmStep DEF WriterAsks, port
<1>9. CASE WriterRuns
  BY <1>9, WriterStep
<1>10. CASE UNCHANGED vars
  <2>1. TypeOK' /\ LockInv'
    BY <1>10 DEF IInv, TypeOK, LockInv, vars, port, lock, reader, shared, writer, history
  <2>2. QED
    BY <1>10, <2>1, CalmStep DEF vars, port, writer
<1>11. QED
  BY <1>1, <1>2, <1>3, <1>4, <1>5, <1>6, <1>7, <1>8, <1>9, <1>10 DEF Next, Request, Inside

(* games/fgohook/deck.c: the readable buffer is never overrun and a thread *)
(* never owns the mutex twice, for any number of threads.                  *)
THEOREM TypeCorrect == Spec => []TypeOK
<1>1. IInv => TypeOK
  BY DEF IInv
<1>2. QED
  BY InitInv, NextInv, <1>1, PTL DEF Spec

(* games/fgohook/deck.c: between START and END the game is sent one deck,  *)
(* never a mix of two, whoever reads the port and however slowly.          *)
THEOREM DecksAreSnapshots == Spec => []DeckIsOneSnapshot
<1>1. IInv => DeckIsOneSnapshot
  BY DEF IInv
<1>2. QED
  BY InitInv, NextInv, <1>1, PTL DEF Spec

-----------------------------------------------------------------------------
(* The game asks for at least a frame at a time.                           *)
LargeReads == \A size \in CardSizes \cup {HeaderSize} :
  size <= Capacity /\ \A k \in ReadSizes : size <= k

(* What a read makes room for is enough for a frame.                       *)
LEMMA ReadMakesRoom ==
  ASSUME LargeReads, TypeOK, NEW k \in ReadSizes, NEW size \in CardSizes \cup {HeaderSize}
  PROVE  Fits(Left(k), size)
<1>1. size <= k /\ size <= Capacity
  BY DEF LargeReads
<1>2. size \in Nat /\ k \in Nat /\ nbytes \in 0..Capacity /\ Capacity \in Nat
  BY DeckAssumption DEF TypeOK
<1>3. QED
  BY <1>1, <1>2 DEF Fits, Left

LEMMA NoCardIsCutStep ==
  ASSUME LargeReads, TypeOK, NoCardIsCut, [Next]_vars
  PROVE  NoCardIsCut'
<1> USE DeckAssumption
<1>1. CASE UNCHANGED sent
  BY <1>1 DEF NoCardIsCut
<1>2. ASSUME NEW g \in GameThread, NEW k \in ReadSizes, Read(g, k), read_pending
      PROVE  NoCardIsCut'
  <2>1. PICK f \in Frames : sent' = Append(sent, f) /\ f.whole
    <3>1. CASE SendCard(Left(k))
      <4>1. PICK size \in CardSizes :
              sent' = Append(sent, Frame("DATA", cards[current_card_idx + 1], Fits(Left(k), size)))
        BY <3>1 DEF SendCard
      <4>2. Fits(Left(k), size) = TRUE
        BY ReadMakesRoom DEF Fits
      <4>3. cards[current_card_idx + 1] \in Card
        BY <3>1 DEF TypeOK, SendCard
      <4>4. Frame("DATA", cards[current_card_idx + 1], TRUE) \in Frames
        BY <4>3 DEF Frame, Frames
      <4>5. QED
        BY <4>1, <4>2, <4>4 DEF Frame
    <3>2. CASE SendEnd(g, Left(k))
      <4>1. sent' = Append(sent, Frame("END", NULL, Fits(Left(k), HeaderSize)))
        BY <3>2 DEF SendEnd
      <4>2. Fits(Left(k), HeaderSize) = TRUE
        BY ReadMakesRoom DEF Fits
      <4>3. Frame("END", NULL, TRUE) \in Frames
        BY DEF Frame, Frames
      <4>4. QED
        BY <4>1, <4>2, <4>3 DEF Frame
    <3>3. QED
      BY <1>2, <3>1, <3>2 DEF Read
  <2>2. sent \in Seq(Frames)
    BY DEF TypeOK
  <2>3. QED
    BY <2>1, <2>2 DEF NoCardIsCut
<1>3. ASSUME NEW g \in GameThread, ReadBegins(g) PROVE NoCardIsCut'
  <2>1. sent' = <<Frame("START", NULL, Fits(nbytes, HeaderSize))>>
    BY <1>3 DEF ReadBegins
  <2>2. Len(sent') = 1 /\ sent'[1].status = "START"
    BY <2>1 DEF Frame
  <2>3. QED
    BY <2>2 DEF NoCardIsCut
<1>4. CASE Next
  <2>1. ASSUME NEW g \in GameThread, Request(g) PROVE NoCardIsCut'
    <3>1. CASE Open(g) \/ Close(g) \/ \E frames \in Requests : Write(g, frames)
      BY <1>1, <3>1 DEF Open, Close, Write, history
    <3>2. ASSUME NEW k \in ReadSizes, Read(g, k) PROVE NoCardIsCut'
      BY <1>1, <1>2, <3>2 DEF Read
    <3>3. QED
      BY <2>1, <3>1, <3>2 DEF Request
  <2>2. ASSUME NEW g \in GameThread, Inside(g) PROVE NoCardIsCut'
    BY <1>1, <2>2
    DEF Inside, Leave, DeframeError, deck_req_nop, Unhandled, ReadRequest, history
  <2>3. CASE WriterAsks \/ WriterRuns
    BY <1>1, <2>3 DEF WriterAsks, WriterRuns, WriterLocks, WriterWrites, WriterUnlocks, history
  <2>4. QED
    BY <1>3, <1>4, <2>1, <2>2, <2>3 DEF Next
<1>5. CASE UNCHANGED vars
  BY <1>1, <1>5 DEF vars, history
<1>6. QED
  BY <1>4, <1>5

(* deck_read_one: if the game asks for a frame or more in each read, no    *)
(* card of any deck is lost, even when the readable buffer is full.        *)
THEOREM CardsAreNotCut == ASSUME LargeReads PROVE Spec => []NoCardIsCut
<1>1. Init => NoCardIsCut
  BY DEF Init, NoCardIsCut
<1>2. TypeOK /\ NoCardIsCut /\ [Next]_vars => NoCardIsCut'
  BY NoCardIsCutStep, LargeReads
<1>3. QED
  BY <1>1, <1>2, TypeCorrect, PTL DEF Spec

-----------------------------------------------------------------------------
OneGameThread == \A g, h \in GameThread : g = h

LEMMA MutexStep ==
  ASSUME OneGameThread, IInv, MutexOnlyWhileReading, [Next]_vars
  PROVE  MutexOnlyWhileReading'
<1> USE DeckAssumption
<1>1. CASE UNCHANGED <<mutex, read_pending>>
  BY <1>1 DEF MutexOnlyWhileReading
<1>2. CASE mutex' \notin GameThread
  BY <1>2 DEF MutexOnlyWhileReading
<1>3. CASE read_pending'
  BY <1>3 DEF MutexOnlyWhileReading
<1>4. ASSUME NEW g \in GameThread, NEW k \in ReadSizes, Read(g, k) PROVE MutexOnlyWhileReading'
  <2>1. CASE ~read_pending \/ SendCard(Left(k))
    BY <1>1, <1>4, <2>1 DEF Read, SendCard, reader, lock
  <2>2. CASE read_pending /\ SendEnd(g, Left(k))
    <3>1. ~Waiting
      BY <1>4 DEF IInv, Waiting, LockInv, TypeOK, Read, Idle
    <3>2. mutex \in GameThread
      BY <2>2, <3>1 DEF IInv, ReadingInv
    <3>3. mutex = g
      BY <3>2, OneGameThread DEF OneGameThread
    <3>4. mutex' = Nobody
      BY <2>2, <3>3, ReleaseKeepsType DEF IInv, SendEnd
    <3>5. QED
      BY <1>2, <3>4
  <2>3. QED
    BY <1>4, <2>1, <2>2 DEF Read
<1>5. ASSUME NEW g \in GameThread, ReadRequest(g) PROVE MutexOnlyWhileReading'
  <2>1. mutex' = mutex \/ mutex' = Nobody
    BY <1>5, ReleaseKeepsType DEF IInv, ReadRequest
  <2>2. read_pending' = read_pending
    BY <1>5 DEF ReadRequest, reader
  <2>3. QED
    BY <1>1, <1>2, <2>1, <2>2
<1>6. ASSUME NEW g \in GameThread, ReadBegins(g) PROVE MutexOnlyWhileReading'
  BY <1>3, <1>6 DEF ReadBegins
<1>7. CASE WriterLocks
  BY <1>2, <1>7 DEF WriterLocks, WaitForMutex
<1>8. CASE WriterUnlocks
  <2>1. mutex = Writer /\ mutex' = Nobody
    BY <1>8, ReleaseKeepsType DEF IInv, WriterInv, WriterUnlocks
  <2>2. QED
    BY <1>2, <2>1
<1>9. CASE Next
  <2>1. ASSUME NEW g \in GameThread, Request(g) PROVE MutexOnlyWhileReading'
    <3>1. CASE Open(g) \/ Close(g) \/ \E frames \in Requests : Write(g, frames)
      BY <1>1, <3>1 DEF Open, Close, Write, lock, reader
    <3>2. QED
      BY <1>4, <2>1, <3>1 DEF Request
  <2>2. ASSUME NEW g \in GameThread, Inside(g) PROVE MutexOnlyWhileReading'
    <3>1. CASE Leave(g) \/ DeframeError(g) \/ deck_req_nop(g) \/ Unhandled(g)
      BY <1>1, <3>1 DEF Leave, DeframeError, deck_req_nop, Unhandled, lock, reader
    <3>2. QED
      BY <1>5, <2>2, <3>1 DEF Inside
  <2>3. CASE WriterAsks \/ WriterWrites
    BY <1>1, <2>3 DEF WriterAsks, WriterWrites, lock, reader
  <2>4. QED
    BY <1>6, <1>7, <1>8, <1>9, <2>1, <2>2, <2>3 DEF Next, WriterRuns
<1>10. CASE UNCHANGED vars
  BY <1>1, <1>10 DEF vars, lock, reader
<1>11. QED
  BY <1>9, <1>10

(* games/fgohook/deck.c: with one game thread on the port, the emulator    *)
(* keeps the mutex from other processes only while it reads a deck.        *)
THEOREM MutexIsGivenBack == ASSUME OneGameThread PROVE Spec => []MutexOnlyWhileReading
<1>1. Init => MutexOnlyWhileReading
  BY DeckAssumption DEF Init, MutexOnlyWhileReading
<1>2. IInv /\ MutexOnlyWhileReading /\ [Next]_vars => MutexOnlyWhileReading'
  BY MutexStep, OneGameThread
<1>3. QED
  BY <1>1, <1>2, InitInv, NextInv, PTL DEF Spec

(* DeckIsSafe, with one game thread whose reads ask for a frame or more.   *)
THEOREM DecksAreSafe ==
  ASSUME LargeReads, OneGameThread
  PROVE  Spec => []DeckIsSafe
<1>1. TypeOK /\ DeckIsOneSnapshot /\ NoCardIsCut /\ MutexOnlyWhileReading => DeckIsSafe
  BY DEF DeckIsSafe
<1>2. (Spec => []NoCardIsCut) /\ (Spec => []MutexOnlyWhileReading)
  BY CardsAreNotCut, MutexIsGivenBack, LargeReads, OneGameThread
<1>3. QED
  BY <1>1, <1>2, TypeCorrect, DecksAreSnapshots, PTL

=============================================================================
