---------------------------------- MODULE Ewf ----------------------------------
(***************************************************************************)
(* The write filter (platform/ewf.c): files that the game writes to the    *)
(* system drive live in memory.  A file has a buffer that grows as it is   *)
(* written, and any number of handles with an offset each.                 *)
(***************************************************************************)
EXTENDS Integers, Sequences, FiniteSets, SequencesExt

CONSTANTS
  EwfPaths,      (* what is opened: drive, directories and name            *)
  EwfFiles,      (* EWF_MAX_VIRTUAL_FILES                                  *)
  EwfHandles,    (* handle_table_size                                      *)
  EwfBuffer,     (* EWF_DEFAULT_FILE_BUFFER_SIZE                           *)
  EwfEnd,        (* bound: the furthest offset that is written or sought   *)
  EwfCalls       (* bound: calls of the game                               *)

ASSUME EwfAssumption ==
  /\ {EwfFiles, EwfHandles, EwfBuffer, EwfEnd, EwfCalls} \subseteq Nat \ {0}
  /\ <<>> \notin EwfPaths

(* Bytes: of no known value, and written to offset k of file i.           *)
EwfJunk == -1
EwfByte(i, k) == 10 * i + k

(* files: virtual_file_table; data: the bytes that are allocated; freed:   *)
(* data points to what was given back; true: the bytes the file would have *)
(* on a disk; spoilt: a write was refused half way.  handles:              *)
(* handle_table, file 0 is a free entry; full: the option; pc: "run", or   *)
(* why nothing is defined from here on: a table is "full", a buffer is     *)
(* given back "twice", an access is "stray".  plain: files were only       *)
(* emptied, written at their end and read from the start; right: the last  *)
(* read or stat was answered as by a disk; disk: what was opened on the    *)
(* disk; calls: of the game                                                *)
VARIABLE ewf

EwfNoFile == [path |-> <<>>, length |-> 0, alloc |-> 0, data |-> <<>>, freed |-> FALSE,
              spoilt |-> FALSE, true |-> <<>>]
EwfNoHandle == [file |-> 0, offset |-> 0]

EwfInit ==
  \E full \in BOOLEAN :
    ewf = [files |-> [i \in 1..EwfFiles |-> EwfNoFile],
           handles |-> [h \in 1..EwfHandles |-> EwfNoHandle], full |-> full, pc |-> "run",
           plain |-> TRUE, right |-> TRUE, disk |-> {}, calls |-> 0]

EwfFirst(S) == CHOOSE i \in S : \A j \in S : i <= j
EwfJunks(n) == [i \in 1..n |-> EwfJunk]
EwfMax(a, b) == IF a > b THEN a ELSE b
EwfMin(a, b) == IF a < b THEN a ELSE b

(* Bytes of s from off on replaced by t; what is between is junk.          *)
EwfPut(s, off, t) ==
  [i \in 1..EwfMax(Len(s), off + Len(t)) |->
     IF i > off /\ i <= off + Len(t) THEN t[i - off]
     ELSE IF i <= Len(s) THEN s[i] ELSE EwfJunk]

EwfCrashes(how, plain) == ewf' = [ewf EXCEPT !.pc = how, !.plain = @ /\ plain]
EwfFile(h) == ewf.files[ewf.handles[h].file]
EwfIsOpen(h) == ewf.pc = "run" /\ ewf.handles[h].file # 0
EwfMayCall == ewf.calls < EwfCalls

-----------------------------------------------------------------------------
(* Which files are virtual.                                                *)
EwfDefaults == {"alib.conf", "cacert.pem", "first_ar.conf", "last_pras.log",
                "last_shime.log", "play_history.csv"}

ewf_needs_virtualization(path) ==
  IF ewf.full THEN IsPrefix(<<"C:">>, path) /\ ~IsPrefix(<<"C:", "Windows">>, path)
  ELSE Last(path) \in EwfDefaults

ewf_find_virtual_file(path) == {i \in DOMAIN ewf.files : ewf.files[i].path = path}
ewf_create_virtual_file(path) == {i \in DOMAIN ewf.files : ewf.files[i].path = <<>>}
ewf_open_virtual_file == {h \in DOMAIN ewf.handles : ewf.handles[h].file = 0}

-----------------------------------------------------------------------------
(* Open.                                                                   *)

(* Broken: the length stays.                                               *)
EwfEmptiedShort(f) == [f EXCEPT !.data = <<>>, !.freed = f.data # <<>>,
                                !.spoilt = FALSE, !.true = <<>>]

(* free(f->data), which is not set to NULL.                                *)
EwfEmptied(f) == [f EXCEPT !.length = 0, !.data = <<>>, !.freed = f.data # <<>>,
                           !.spoilt = FALSE, !.true = <<>>]

(* The first free entry of the table of handles; there being none is not   *)
(* looked at.                                                              *)
EwfOpens(i, f) ==
  IF ewf_open_virtual_file = {} THEN EwfCrashes("full", TRUE)
  ELSE ewf' = [ewf EXCEPT !.files[i] = f, !.calls = @ + 1,
                 !.handles[EwfFirst(ewf_open_virtual_file)] = [file |-> i, offset |-> 0]]

EwfCreates(path) ==
  LET room == ewf_create_virtual_file(path)
  IN IF room = {} THEN EwfCrashes("full", TRUE)
     ELSE EwfOpens(EwfFirst(room), [EwfNoFile EXCEPT !.path = path])

EwfOpensOld(i) == EwfOpens(i, ewf.files[i])

(* To empty a file that is empty already gives its buffer back twice.      *)
EwfEmpties(i) ==
  IF ewf.files[i].freed THEN EwfCrashes("twice", TRUE)
  ELSE EwfOpens(i, EwfEmptied(ewf.files[i]))

ewf_handle_open(path, creation) ==
  /\ ewf.pc = "run" /\ EwfMayCall
  /\ LET found == ewf_find_virtual_file(path)
     IN IF ~ewf_needs_virtualization(path)
        THEN ewf' = [ewf EXCEPT !.disk = @ \cup {path}]
        ELSE \/ /\ creation = "CREATE_NEW" /\ found = {}
                /\ EwfCreates(path)
             \/ /\ creation \in {"CREATE_ALWAYS", "TRUNCATE_EXISTING"} /\ found # {}
                /\ EwfEmpties(EwfFirst(found))
             \/ /\ creation \in {"OPEN_EXISTING", "OPEN_ALWAYS"} /\ found # {}
                /\ EwfOpensOld(EwfFirst(found))
             \/ /\ creation \in {"CREATE_ALWAYS", "OPEN_ALWAYS"} /\ found = {}
                /\ EwfCreates(path)
             \/ /\ \/ creation = "CREATE_NEW" /\ found # {}
                   \/ creation \in {"OPEN_EXISTING", "TRUNCATE_EXISTING"} /\ found = {}
                /\ UNCHANGED ewf

ewf_handle_close(h) ==
  /\ EwfIsOpen(h)
  /\ ewf' = [ewf EXCEPT !.handles[h].file = 0]

-----------------------------------------------------------------------------
(* Read, write, seek and stat.                                             *)

(* Broken: the file has to be longer than what is read.                    *)
EwfReadsLess(h, n) ==
  /\ EwfIsOpen(h)
  /\ LET f == EwfFile(h)
         pos == ewf.handles[h].offset
         count == IF pos + n >= f.length THEN 0 ELSE n
     IN ewf' = [ewf EXCEPT
          !.handles[h].offset = @ + count,
          !.plain = @ /\ pos = 0,
          !.right = (IF f.freed THEN EwfJunks(count) ELSE SubSeq(f.data, 1, count))
                      = SubSeq(f.true, pos + 1, EwfMin(pos + n, Len(f.true)))]

(* As many bytes as there are behind the offset, but always the first ones *)
(* of the file.  A freed buffer holds anything.                            *)
ewf_handle_read(h, n) ==
  /\ EwfIsOpen(h)
  /\ LET f == EwfFile(h)
         pos == ewf.handles[h].offset
         count == IF pos >= f.length THEN 0 ELSE EwfMin(n, f.length - pos)
     IN ewf' = [ewf EXCEPT
          !.handles[h].offset = @ + count,
          !.plain = @ /\ pos = 0,
          !.right = (IF f.freed THEN EwfJunks(count) ELSE SubSeq(f.data, 1, count))
                      = SubSeq(f.true, pos + 1, EwfMin(pos + n, Len(f.true)))]

(* realloc: more than what is missing, and of a live buffer only.          *)
ewf_grow_virtual_file_buffer(f, size) ==
  [f EXCEPT !.alloc = @ + size, !.data = @ \o EwfJunks(f.alloc + size - Len(@))]

(* Broken: a file that was emptied keeps its buffer.                       *)
EwfRoomKept(f, pos, n) ==
  IF pos + n > f.alloc THEN ewf_grow_virtual_file_buffer(f, EwfMax(pos + n, EwfBuffer)) ELSE f

(* The buffer a write needs: a new one for an empty file, whatever it had. *)
EwfRoomFor(f, pos, n) ==
  LET first == EwfMax(n, EwfBuffer)
  IN IF f.length = 0
     THEN [f EXCEPT !.alloc = first, !.data = EwfJunks(first), !.freed = FALSE]
     ELSE IF pos + n > f.alloc THEN ewf_grow_virtual_file_buffer(f, pos + n) ELSE f

(* Broken: the offset stays where it was.                                  *)
EwfWritesInPlace(h, n) ==
  /\ EwfIsOpen(h) /\ EwfMayCall
  /\ LET pos == ewf.handles[h].offset
         bytes == [i \in 1..n |-> EwfByte(ewf.handles[h].file, pos + i)]
         f == EwfRoomFor(EwfFile(h), pos, n)
     IN /\ pos + n <= EwfEnd
        /\ n <= f.alloc - f.length
        /\ ewf' = [ewf EXCEPT !.calls = @ + 1,
             !.files[ewf.handles[h].file] =
               [f EXCEPT !.data = EwfPut(@, pos, bytes), !.length = EwfMax(@, pos + n),
                         !.true = EwfPut(@, pos, bytes)]]

(* memcpy_s is told the room behind the end of the file, not behind the    *)
(* offset; when that is too little it zeroes that much and fails.          *)
ewf_handle_write(h, n) ==
  /\ EwfIsOpen(h) /\ EwfMayCall
  /\ LET i == ewf.handles[h].file
         pos == ewf.handles[h].offset
         bytes == [k \in 1..n |-> EwfByte(i, pos + k)]
         f == EwfRoomFor(EwfFile(h), pos, n)
         room == f.alloc - f.length
         touched == EwfMin(n, room)
         stray == IF f.freed THEN touched > 0 \/ f.alloc # EwfFile(h).alloc
                  ELSE touched > 0 /\ pos + touched > Len(f.data)
         plain == pos = EwfFile(h).length
     IN /\ pos + n <= EwfEnd
        /\ \/ stray /\ EwfCrashes("stray", plain)
           \/ /\ ~stray /\ n > room
              /\ ewf' = [ewf EXCEPT !.calls = @ + 1, !.plain = @ /\ plain,
                   !.files[i] = [f EXCEPT !.spoilt = @ \/ room > 0,
                     !.data = IF room = 0 THEN @ ELSE EwfPut(@, pos, [k \in 1..room |-> 0])]]
           \/ /\ ~stray /\ n <= room
              /\ ewf' = [ewf EXCEPT !.calls = @ + 1, !.plain = @ /\ plain,
                   !.handles[h].offset = @ + n,
                   !.files[i] = [f EXCEPT !.data = EwfPut(@, pos, bytes),
                     !.length = EwfMax(@, pos + n), !.true = EwfPut(@, pos, bytes)]]

(* From the start, or, by FILE_CURRENT too, from the start; FILE_END stays *)
(* where it is.  The file grows at once, its buffer if need be.            *)
ewf_handle_seek(h, origin, offset) ==
  /\ EwfIsOpen(h) /\ EwfMayCall
  /\ LET target == IF origin = "FILE_END" THEN ewf.handles[h].offset ELSE offset
         f == [EwfFile(h) EXCEPT !.length = EwfMax(@, target)]
     IN IF target < 0 THEN UNCHANGED ewf
        ELSE IF target > f.alloc /\ f.freed THEN EwfCrashes("stray", FALSE)
        ELSE ewf' = [ewf EXCEPT !.calls = @ + 1,
               !.files[ewf.handles[h].file] =
                 IF target > f.alloc THEN ewf_grow_virtual_file_buffer(f, target) ELSE f,
               !.handles[h].offset = target,
               !.plain = FALSE]

hook_stat64i32(path) ==
  /\ ewf.pc = "run" /\ ewf_needs_virtualization(path)
  /\ \E i \in ewf_find_virtual_file(path) :
       ewf' = [ewf EXCEPT !.right = ewf.files[i].length = Len(ewf.files[i].true)]

EwfCreations == {"CREATE_NEW", "CREATE_ALWAYS", "OPEN_EXISTING", "OPEN_ALWAYS", "TRUNCATE_EXISTING"}

EwfNext ==
  \/ \E path \in EwfPaths : hook_stat64i32(path)
                            \/ \E c \in EwfCreations : ewf_handle_open(path, c)
  \/ \E h \in 1..EwfHandles :
       \/ ewf_handle_close(h)
       \/ \E n \in 1..EwfEnd : ewf_handle_read(h, n)
       \/ \E n \in 1..EwfBuffer : ewf_handle_write(h, n)
       \/ \E origin \in {"FILE_BEGIN", "FILE_CURRENT", "FILE_END"}, off \in -1..EwfEnd :
            ewf_handle_seek(h, origin, off)

EwfSpec == EwfInit /\ [][EwfNext]_ewf

-----------------------------------------------------------------------------
(* Properties.                                                             *)

EwfTypeOK ==
  /\ ewf.pc \in {"run", "full", "twice", "stray"} /\ ewf.plain \in BOOLEAN
  /\ \A i \in DOMAIN ewf.files : ewf.files[i].path \in EwfPaths \cup {<<>>}
  /\ \A h \in DOMAIN ewf.handles : ewf.handles[h].file \in 0..EwfFiles
                                   /\ ewf.handles[h].offset \in 0..EwfEnd

(* A path names one file, and what is virtual is never opened on the disk. *)
EwfOneFileEach ==
  /\ \A i, j \in DOMAIN ewf.files :
       ewf.files[i].path = ewf.files[j].path /\ ewf.files[i].path # <<>> => i = j
  /\ \A path \in ewf.disk : ewf_find_virtual_file(path) = {}

(* The buffer has room for the length of the file unless it was given back *)
(* when the file was emptied, and holds what a disk would hold, for every  *)
(* way of writing and seeking, unless a write was refused half way.        *)
EwfKeepsFiles ==
  ewf.pc = "run" =>
    \A i \in DOMAIN ewf.files :
      LET f == ewf.files[i]
      IN /\ f.length <= f.alloc
         /\ ~f.freed => Len(f.data) >= f.length
         /\ ~f.freed /\ ~f.spoilt =>
              /\ Len(f.true) <= f.length
              /\ \A k \in DOMAIN f.true : f.true[k] \in {EwfJunk, f.data[k]}

(* Files that are emptied, written at their end and read from the start,   *)
(* as logs and settings are, by however many handles, answer each read and *)
(* stat as on a disk, no write of them is refused, and no byte goes beside *)
(* its buffer.                                                             *)
EwfPlainFiles ==
  ewf.plain =>
    /\ ewf.right
    /\ \A i \in DOMAIN ewf.files : ~ewf.files[i].spoilt
    /\ ewf.pc # "stray"

(* The write filter keeps the files of the game.                           *)
EwfIsRight == EwfTypeOK /\ EwfOneFileEach /\ EwfKeepsFiles /\ EwfPlainFiles

=================================================================================
