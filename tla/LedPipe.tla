--------------------------------- MODULE LedPipe ---------------------------------
(***************************************************************************)
(* The LED output of chuniio and mu3io: ledoutput.c, pipeimpl.c and        *)
(* serialimpl.c (those of mu3io differ in names and in having no mutex for *)
(* the serial port).                                                       *)
(*                                                                         *)
(* The game has a thread for each board.  It escapes what the board shows, *)
(* hands it to the thread of the pipe, and writes it to a serial port.     *)
(* The pipe has one client after the other; a write blocks until the       *)
(* client reads or is gone.                                                *)
(***************************************************************************)
EXTENDS Integers, Sequences, SequencesExt

CONSTANTS
  LedBoards,       (* the boards, 1 to their number                        *)
  LedPatterns,     (* what a board may be told to show                     *)
  LedFraming,      (* LED_PACKET_FRAMING (0xE0)                            *)
  LedEscape,       (* LED_PACKET_ESCAPE (0xD0)                             *)
  LedWidth,        (* values of data_len (256)                             *)
  LedClients       (* bound: clients of the pipe                           *)

ASSUME LedAssumption ==
  /\ LedBoards \in Nat \ {0} /\ LedWidth \in Nat \ {0} /\ LedClients \in Nat
  /\ LedFraming \in Nat /\ LedEscape \in Nat \ {LedFraming, LedFraming + 1}
  /\ \A data \in LedPatterns : data \in Seq(Nat)

(* pc[b]: where the thread of board b is; unescaped, write_buf, update     *)
(* and is_init as in the code; init_lock, mutex: who has them; threads:    *)
(* pipe threads that were started; at: where that thread is, i: the board  *)
(* it looks at; client: what the client does; clients: how many there      *)
(* were; sent[b]: what was written last for the board, to whichever client *)
VARIABLE ledpipe

LedBoard == 1..LedBoards
LedNone == <<>>

-----------------------------------------------------------------------------
(* Broken: the escape byte is not escaped.                                 *)
LedEscapesFraming(data) ==
  FlattenSeq([i \in 1..Len(data) |->
     IF data[i] = LedFraming THEN <<LedEscape, data[i] - 1>> ELSE <<data[i]>>])

(* The bytes that stand for each of the data's.                            *)
LedEscaped(data) ==
  LET out[n \in 0..Len(data)] ==
        IF n = 0 THEN <<>>
        ELSE out[n - 1] \o (IF data[n] \in {LedFraming, LedEscape}
                            THEN <<LedEscape, data[n] - 1>> ELSE <<data[n]>>)
  IN  out

(* escape_led_data: data_len is a byte.                                    *)
escape_led_data(data) ==
  LET out == LedEscaped(data)[Len(data)]
  IN  SubSeq(out, 1, Len(out) % LedWidth)

(* What a client makes of a packet, byte by byte.                          *)
LedTakes(r, byte) ==
  CASE r.escape -> [out |-> Append(r.out, byte + 1), escape |-> FALSE]
    [] ~r.escape /\ byte = LedEscape -> [out |-> r.out, escape |-> TRUE]
    [] OTHER -> [out |-> Append(r.out, byte), escape |-> FALSE]

LedUnescaped(data) ==
  LET r[n \in 0..Len(data)] == IF n = 0 THEN [out |-> <<>>, escape |-> FALSE]
                               ELSE LedTakes(r[n - 1], data[n])
  IN  r

LedUnescape(data) == LedUnescaped(data)[Len(data)].out

LedInit ==
  ledpipe = [pc |-> [b \in LedBoard |-> "start"],
             unescaped |-> [b \in LedBoard |-> LedNone],
             write_buf |-> [b \in LedBoard |-> LedNone],
             update |-> [b \in LedBoard |-> FALSE],
             sent |-> [b \in LedBoard |-> LedNone],
             is_init |-> FALSE, init_lock |-> 0, mutex |-> -1, threads |-> 0,
             at |-> "none", i |-> 1, client |-> "none", clients |-> 0]

(* mutex: -1 none was created, 0 it is free, n the thread of board n has   *)
(* it, LedBoards + 1 the thread of the pipe.                               *)
LedPipeOwner == LedBoards + 1
LedFree == ledpipe.mutex = 0

-----------------------------------------------------------------------------
(* The threads of the game.                                                *)

(* led_output_init, called before a board is used: the wait, and what is   *)
(* done under the mutex.  led_pipe_init may fail to create its mutex.      *)
LedInitWait(b) ==
  /\ ledpipe.pc[b] = "start" /\ ledpipe.init_lock = 0
  /\ ledpipe' = [ledpipe EXCEPT !.pc[b] = "init", !.init_lock = b]

led_pipe_init(l) ==
  {l, [l EXCEPT !.mutex = 0, !.update = [b \in LedBoard |-> FALSE],
                !.threads = @ + 1, !.at = "create"]}

(* Broken: each board starts the pipe.                                     *)
LedInitsAgain(b) ==
  /\ ledpipe.pc[b] = "init"
  /\ \E l \in led_pipe_init(ledpipe) :
       ledpipe' = [l EXCEPT !.is_init = TRUE, !.init_lock = 0, !.pc[b] = "idle"]

led_output_init(b) ==
  /\ ledpipe.pc[b] = "init"
  /\ \E l \in IF ledpipe.is_init THEN {ledpipe} ELSE led_pipe_init(ledpipe) :
       ledpipe' = [l EXCEPT !.is_init = TRUE, !.init_lock = 0, !.pc[b] = "idle"]

(* led_output_update: the data is copied and escaped before any lock.      *)
led_output_update(b) ==
  /\ ledpipe.pc[b] = "idle"
  /\ \E data \in LedPatterns :
       ledpipe' = [ledpipe EXCEPT !.pc[b] = "wait", !.unescaped[b] = data]

(* led_pipe_update: the wait, which fails where there is no mutex, and the *)
(* copy under the mutex.                                                   *)
LedUpdateWait(b) ==
  /\ ledpipe.pc[b] = "wait" /\ ledpipe.mutex \in {-1, 0}
  /\ ledpipe' = IF LedFree THEN [ledpipe EXCEPT !.pc[b] = "copy", !.mutex = b]
                ELSE [ledpipe EXCEPT !.pc[b] = "idle"]

led_pipe_update(b) ==
  /\ ledpipe.pc[b] = "copy"
  /\ ledpipe' = [ledpipe EXCEPT !.write_buf[b] = escape_led_data(ledpipe.unescaped[b]),
                                !.update[b] = TRUE, !.mutex = 0, !.pc[b] = "idle"]

-----------------------------------------------------------------------------
(* The thread of the pipe.                                                 *)

(* pipe_create, which is tried until it succeeds, and the wait for a       *)
(* client; that may fail, and the pipe is closed again.                    *)
pipe_create ==
  ledpipe.at = "create" /\ ledpipe' = [ledpipe EXCEPT !.at = "connect"]

LedConnected ==
  /\ ledpipe.at = "connect"
  /\ \/ ledpipe.client = "waits" /\ ledpipe' = [ledpipe EXCEPT !.at = "lock", !.client = "reads"]
     \/ ledpipe' = [ledpipe EXCEPT !.at = "close"]

LedPipeLock ==
  /\ ledpipe.at = "lock" /\ LedFree
  /\ ledpipe' = [ledpipe EXCEPT !.at = "write", !.i = 1, !.mutex = LedPipeOwner]

LedNextBoard(l) ==
  IF l.i < LedBoards THEN [l EXCEPT !.i = @ + 1, !.at = "write"]
  ELSE [l EXCEPT !.at = "lock", !.mutex = 0]

(* Broken: the flag is taken away before the write.                        *)
LedWriteForgets ==
  /\ ledpipe.at = "write"
  /\ LET i == ledpipe.i
     IN  \/ ~ledpipe.update[i] /\ ledpipe' = LedNextBoard(ledpipe)
         \/ /\ ledpipe.update[i] /\ ledpipe.client = "reads"
            /\ ledpipe' = [ledpipe EXCEPT !.at = "written", !.sent[i] = ledpipe.write_buf[i]]
         \/ /\ ledpipe.update[i] /\ ledpipe.client = "gone"
            /\ ledpipe' = [ledpipe EXCEPT !.at = "close", !.mutex = 0, !.update[i] = FALSE]

(* Broken: the mutex is kept when a write fails.                           *)
LedWriteKeeps ==
  /\ ledpipe.at = "write"
  /\ LET i == ledpipe.i
     IN  \/ ~ledpipe.update[i] /\ ledpipe' = LedNextBoard(ledpipe)
         \/ /\ ledpipe.update[i] /\ ledpipe.client = "reads"
            /\ ledpipe' = [ledpipe EXCEPT !.at = "written", !.sent[i] = ledpipe.write_buf[i]]
         \/ /\ ledpipe.update[i] /\ ledpipe.client = "gone"
            /\ ledpipe' = [ledpipe EXCEPT !.at = "close"]

(* A board without an update is passed over; pipe_write succeeds when the  *)
(* client reads it, and fails when it is gone.                             *)
pipe_write ==
  /\ ledpipe.at = "write"
  /\ LET i == ledpipe.i
     IN  \/ ~ledpipe.update[i] /\ ledpipe' = LedNextBoard(ledpipe)
         \/ /\ ledpipe.update[i] /\ ledpipe.client = "reads"
            /\ ledpipe' = [ledpipe EXCEPT !.at = "written", !.sent[i] = ledpipe.write_buf[i]]
         \/ /\ ledpipe.update[i] /\ ledpipe.client = "gone"
            /\ ledpipe' = [ledpipe EXCEPT !.at = "close", !.mutex = 0]

LedWritten ==
  /\ ledpipe.at = "written"
  /\ ledpipe' = LedNextBoard([ledpipe EXCEPT !.update[ledpipe.i] = FALSE])

LedClose ==
  /\ ledpipe.at = "close"
  /\ ledpipe' = [ledpipe EXCEPT !.at = "create",
                                !.client = IF @ = "waits" THEN @ ELSE "none"]

(* The clients: one comes, stops to read or reads again, goes.             *)
LedClient ==
  \/ /\ ledpipe.client = "none" /\ ledpipe.clients < LedClients
     /\ ledpipe' = [ledpipe EXCEPT !.client = "waits", !.clients = @ + 1]
  \/ ledpipe.client = "reads" /\ ledpipe' = [ledpipe EXCEPT !.client = "stalls"]
  \/ ledpipe.client = "stalls" /\ ledpipe' = [ledpipe EXCEPT !.client = "reads"]
  \/ ledpipe.client \in {"reads", "stalls"} /\ ledpipe' = [ledpipe EXCEPT !.client = "gone"]

-----------------------------------------------------------------------------

LedGame(b) ==
  LedInitWait(b) \/ led_output_init(b) \/ led_output_update(b) \/ LedUpdateWait(b)
  \/ led_pipe_update(b)

LedPipeThread ==
  pipe_create \/ LedConnected \/ LedPipeLock \/ pipe_write \/ LedWritten \/ LedClose

LedNext == (\E b \in LedBoard : LedGame(b)) \/ LedPipeThread \/ LedClient

LedSpec == LedInit /\ [][LedNext]_ledpipe

-----------------------------------------------------------------------------
(* Properties.                                                             *)

LedTypeOK ==
  /\ ledpipe.update \in [LedBoard -> BOOLEAN]
  /\ ledpipe.mutex \in -1..LedPipeOwner /\ ledpipe.threads \in 0..1
  /\ ledpipe.i \in LedBoard

(* What a board was told to show is not lost: as long as it has not been   *)
(* written to a client whole, the flag stands, whoever fails and comes and *)
(* goes meanwhile.                                                         *)
LedNothingIsLost ==
  \A b \in LedBoard : ledpipe.update[b] \/ ledpipe.sent[b] = ledpipe.write_buf[b]

(* A packet says what the board was told to show, and the byte that starts *)
(* a packet is not inside one.                                             *)
LedEncodes ==
  \A b \in LedBoard :
    /\ ledpipe.pc[b] = "idle" /\ ledpipe.mutex # -1 /\ ledpipe.write_buf[b] # LedNone =>
         LedUnescape(ledpipe.write_buf[b]) = ledpipe.unescaped[b]
    /\ \A i \in 1..Len(ledpipe.write_buf[b]) : ledpipe.write_buf[b][i] # LedFraming

(* The mutex is with a thread that is between taking it and giving it      *)
(* back, so that nobody waits for a thread that has left.                  *)
LedMutexIsHeld ==
  /\ ledpipe.mutex \in LedBoard => ledpipe.pc[ledpipe.mutex] = "copy"
  /\ ledpipe.mutex = LedPipeOwner <=> ledpipe.at \in {"write", "written"}

(* The pipe as a whole: the latest colours of each board reach the client  *)
(* that is there, escaped so that a frame begins only at its framing byte, *)
(* and the mutex is held only by the one who copies or writes.             *)
LedPipeIsRight ==
  /\ LedTypeOK
  /\ LedNothingIsLost
  /\ LedEncodes
  /\ LedMutexIsHeld

=============================================================================
