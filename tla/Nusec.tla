--------------------------------- MODULE Nusec ---------------------------------
(***************************************************************************)
(* The keychip's driver (platform/nusec.c): the billing counters and the   *)
(* trace log, a ring of records between the ever growing log_tail and      *)
(* log_head, all of which is saved to a file after every change.           *)
(*                                                                         *)
(* The save makes an empty file and then writes it, and the machine can be *)
(* switched off between the two.                                           *)
(***************************************************************************)
EXTENDS Integers, Sequences, FiniteSets, SequencesExt

CONSTANTS
  NusecRecords,     (* what a trace log record can be                      *)
  NusecLogSize,     (* _countof(nusec.log)                                 *)
  NusecLimits,      (* values the game sets the limits to                  *)
  NusecHeadMax,     (* bound: where log_head stops                         *)
  NusecCountMax     (* bound: where play_count stops                       *)

ASSUME NusecAssumption == NusecLogSize \in Nat \ {0} /\ NusecHeadMax \in Nat
                            /\ NusecCountMax \in Nat

NusecNoRecord == "no record"

(* data: nusec, the structure in memory; file: "none", "short" (empty, or  *)
(* cut off) or "whole", with the structure saved; persistence: the option; *)
(* pc: "down", "idle" or the step of a save; told: the structure as of the *)
(* last change that was answered by success; puts: the records from        *)
(* log_tail on that were put and not erased                                *)
VARIABLE nusec

NusecDefault == [log_head |-> 0, log_tail |-> 0, play_count |-> 0, play_limit |-> 1,
                 nearfull |-> 1, log |-> [i \in 0..NusecLogSize - 1 |-> NusecNoRecord]]

NusecInit ==
  \E p \in BOOLEAN :
    nusec = [data |-> NusecDefault, file |-> "none", saved |-> NusecDefault,
             persistence |-> p, pc |-> "down", told |-> NusecDefault, puts |-> <<>>]

-----------------------------------------------------------------------------
(* Start and stop.                                                         *)

NusecKept(d) == [i \in 1..d.log_head - d.log_tail |->
                   d.log[(d.log_tail + i - 1) % NusecLogSize]]

(* nusec_load_data: defaults without a file; a short one makes             *)
(* nusec_hook_init, and with it the game's start, fail.                    *)
NusecStartWith(d) ==
  nusec' = [nusec EXCEPT !.pc = "idle", !.data = d, !.told = d, !.puts = NusecKept(d)]

(* Broken: the length that was read is not looked at.                      *)
NusecLoadsShort ==
  /\ nusec.pc = "down"
  /\ \/ /\ ~nusec.persistence \/ nusec.file # "whole"
        /\ NusecStartWith(NusecDefault)
     \/ /\ nusec.persistence /\ nusec.file = "whole"
        /\ NusecStartWith(nusec.saved)

nusec_load_data ==
  /\ nusec.pc = "down"
  /\ \/ /\ ~nusec.persistence \/ nusec.file = "none"
        /\ NusecStartWith(NusecDefault)
     \/ /\ nusec.persistence /\ nusec.file = "whole"
        /\ NusecStartWith(nusec.saved)

NusecOff == /\ nusec.pc # "down"
            /\ nusec' = [nusec EXCEPT !.pc = "down"]

-----------------------------------------------------------------------------
(* Changes, each of which is saved before it is answered.                  *)

(* A handler that has changed data goes on with nusec_save_data, which has *)
(* nothing to do without persistence.                                      *)
NusecChange(d, puts) ==
  /\ nusec.pc = "idle"
  /\ nusec' = [nusec EXCEPT !.data = d, !.puts = puts,
       !.pc = IF nusec.persistence THEN "save" ELSE "idle",
       !.told = IF nusec.persistence THEN @ ELSE d]

(* Broken: the ring takes one record more than it has room for.            *)
NusecPutOneMore(r) ==
  LET d == nusec.data
  IN  /\ d.log_head - d.log_tail <= NusecLogSize /\ d.log_head < NusecHeadMax
      /\ NusecChange([d EXCEPT !.log[d.log_head % NusecLogSize] = r, !.log_head = @ + 1],
                     Append(nusec.puts, r))

nusec_ioctl_put_trace_log_data(r) ==
  LET d == nusec.data
  IN  /\ d.log_head - d.log_tail < NusecLogSize /\ d.log_head < NusecHeadMax
      /\ NusecChange([d EXCEPT !.log[d.log_head % NusecLogSize] = r, !.log_head = @ + 1],
                     Append(nusec.puts, r))

(* count < avail makes count avail: everything goes, however many records  *)
(* the game has read.  It has read no more than there are.                 *)
nusec_ioctl_erase_trace_log(n) ==
  LET d == nusec.data
      avail == d.log_head - d.log_tail
  IN  /\ n <= avail
      /\ NusecChange([d EXCEPT !.log_tail = @ + (IF n < avail THEN avail ELSE n)], <<>>)

(* Broken: log_tail is left where it was.                                  *)
NusecErasesHead ==
  NusecChange([nusec.data EXCEPT !.log_head = 0], <<>>)

nusec_ioctl_td_erase_used ==
  NusecChange([nusec.data EXCEPT !.log_head = 0, !.log_tail = 0], <<>>)

nusec_ioctl_add_play_count(delta) ==
  /\ nusec.data.play_count + delta <= NusecCountMax
  /\ NusecChange([nusec.data EXCEPT !.play_count = @ + delta], nusec.puts)

nusec_ioctl_put_play_limit(n) ==
  NusecChange([nusec.data EXCEPT !.play_limit = n], nusec.puts)

nusec_ioctl_put_nearfull(n) ==
  NusecChange([nusec.data EXCEPT !.nearfull = n], nusec.puts)

(* CreateFileW with CREATE_ALWAYS leaves an empty file, or fails, which is *)
(* answered as an error by the write that follows.                         *)
NusecCreate ==
  /\ nusec.pc = "save"
  /\ \/ nusec' = [nusec EXCEPT !.pc = "write", !.file = "short"]
     \/ nusec' = [nusec EXCEPT !.pc = "idle"]

(* WriteFile: the whole structure, or an error.  The change stays in       *)
(* memory, and goes to the disk with the next one.                         *)
nusec_save_data ==
  /\ nusec.pc = "write"
  /\ \/ nusec' = [nusec EXCEPT !.pc = "idle", !.file = "whole",
                            !.saved = nusec.data, !.told = nusec.data]
     \/ nusec' = [nusec EXCEPT !.pc = "idle"]

-----------------------------------------------------------------------------
(* nusec_ioctl_get_trace_log_data: count records from pos, none past the   *)
(* head.                                                                   *)
nusec_ioctl_get_trace_log_data(pos, count) ==
  LET left == nusec.data.log_head - pos
      n == IF count < left THEN count ELSE left
  IN  [i \in 1..n |-> nusec.data.log[(pos + i - 1) % NusecLogSize]]

nusec_ioctl_get_nvram_available ==
  NusecLogSize - (nusec.data.log_head - nusec.data.log_tail)

nusec_ioctl_get_trace_log_state ==
  <<nusec.data.log_head - nusec.data.log_tail, nusec.data.log_tail>>

NusecNext ==
  \/ nusec_load_data \/ NusecOff \/ NusecCreate \/ nusec_save_data
  \/ nusec_ioctl_td_erase_used
  \/ \E r \in NusecRecords : nusec_ioctl_put_trace_log_data(r)
  \/ \E n \in 0..NusecLogSize : nusec_ioctl_erase_trace_log(n)
  \/ \E delta \in 0..1 : nusec_ioctl_add_play_count(delta)
  \/ \E n \in NusecLimits : nusec_ioctl_put_play_limit(n) \/ nusec_ioctl_put_nearfull(n)

NusecSpec == NusecInit /\ [][NusecNext]_nusec

-----------------------------------------------------------------------------
(* Properties.                                                             *)

NusecTypeOK ==
  /\ nusec.pc \in {"down", "idle", "save", "write"}
  /\ nusec.data.log_tail \in 0..nusec.data.log_head
  /\ nusec.data.log \in [0..NusecLogSize - 1 -> NusecRecords \cup {NusecNoRecord}]
  /\ nusec_ioctl_get_nvram_available \in 0..NusecLogSize

(* The log gives what was put into it and not erased, in order, from the   *)
(* place that get_trace_log_state tells, however often the ring has gone   *)
(* round, was erased or was loaded again.                                  *)
NusecLogIsKept ==
  nusec.pc # "down" =>
    LET state == nusec_ioctl_get_trace_log_state
    IN  /\ state[1] = Len(nusec.puts)
        /\ \A i \in 0..state[1], n \in 0..state[1] :
             nusec_ioctl_get_trace_log_data(state[2] + i, n)
               = SubSeq(nusec.puts, i + 1, IF i + n < state[1] THEN i + n ELSE state[1])

(* A start brings back what the game was told of, or that with the one     *)
(* change that was being saved: never a mixture, and never the defaults in *)
(* place of what was lost.                                                 *)
NusecStartIsWhole ==
  [][nusec.pc = "down" /\ nusec'.pc = "idle" /\ nusec.persistence
       => nusec'.data \in {nusec.told, nusec.data}]_nusec

(* The keychip as a whole: the trace log is read as it was put across the  *)
(* wrap, an erase and a restart, and a start finds the data that was told  *)
(* last, or what is in memory.                                             *)
NusecIsRight ==
  /\ [](NusecTypeOK /\ NusecLogIsKept)
  /\ NusecStartIsWhole

=============================================================================
