--------------------------------- MODULE Frames ---------------------------------
(***************************************************************************)
(* The framing of the serial boards.                                       *)
(*                                                                         *)
(* slider-frame.c, led15093-frame.c and led15070-frame.c take a stream of  *)
(* bytes apart; they differ in the bytes they reserve, in where the size   *)
(* is and in the checksum.  sg-frame.c and jvs-frame.c take one whole      *)
(* frame; sg-cmd.c handles what sg-frame.c has decoded.                    *)
(*                                                                         *)
(* A byte has FrameWidth values.  A codec is a record: the sync and the    *)
(* escape byte, the place of the size (1 the sync byte), how many bytes    *)
(* there are besides those the size counts, and whether the checksum is    *)
(* the negated sum of all bytes or the sum of all but the first.           *)
(***************************************************************************)
EXTENDS Integers, Sequences, SequencesExt

CONSTANTS
  FrameWidth,       (* values of a byte (256)                              *)
  FrameCodecs,      (* the codecs of streams, by name                      *)
  FrameMessages,    (* the messages of each codec, from their sync byte    *)
  FrameCapacity,    (* bytes of the written buffer (520)                   *)
  FrameSg,          (* the codec of sg-frame.c and jvs-frame.c             *)
  FrameSgStrings    (* the strings of bytes that are given to them         *)

FrameBytes == 0..FrameWidth - 1

(* The reserved bytes do not become one another.                           *)
FrameIsCodec(c) ==
  /\ {c.sync, c.esc} \subseteq 1..FrameWidth - 1
  /\ c.sync \notin {c.esc, c.esc - 1, c.esc + 1}

(* A message begins with the sync byte, and its size is in its place.      *)
FrameIsMessage(c, message) ==
  /\ message \in Seq(FrameBytes) /\ message # <<>> /\ message[1] = c.sync
  /\ c.size \in 1..Len(message) /\ c.overhead \in Int
  /\ message[c.size] + c.overhead = Len(message) + 1

ASSUME FrameAssumption ==
  /\ FrameWidth \in Nat \ {0} /\ FrameCapacity \in Nat \ {0}
  /\ \A name \in DOMAIN FrameCodecs :
       /\ FrameIsCodec(FrameCodecs[name])
       /\ \A message \in FrameMessages[name] : FrameIsMessage(FrameCodecs[name], message)
  /\ FrameIsCodec(FrameSg)
  /\ FrameSgStrings \subseteq Seq(FrameBytes)

VARIABLE frames

(* The sums of the first bytes, for any number of them.                    *)
FrameSums(bytes) ==
  LET sum[n \in 0..Len(bytes)] == IF n = 0 THEN 0 ELSE (sum[n - 1] + bytes[n]) % FrameWidth
  IN  sum

FrameSum(bytes) == FrameSums(bytes)[Len(bytes)]
FrameByte(n) == n % FrameWidth

(* Broken: the sum does not wrap.                                          *)
FrameChecksumWide(c, message) ==
  IF c.negated THEN -FrameSum(message) ELSE FrameSum(Tail(message))

FrameChecksum(c, message) ==
  IF c.negated THEN FrameByte(-FrameSum(message)) ELSE FrameSum(Tail(message))

-----------------------------------------------------------------------------
(* Broken: the escape byte itself is not escaped.                          *)
FrameStuffsSync(c, byte) == IF byte = c.sync THEN <<c.esc, byte - 1>> ELSE <<byte>>

(* slider_frame_encode_byte and its like: a reserved byte is two bytes.    *)
FrameStuff(c, byte) ==
  IF byte \in {c.sync, c.esc} THEN <<c.esc, byte - 1>> ELSE <<byte>>

(* What the first bytes become, for any number of them.                    *)
FrameStuffs(c, bytes) ==
  LET stuffed[n \in 0..Len(bytes)] ==
        IF n = 0 THEN <<>> ELSE stuffed[n - 1] \o FrameStuff(c, bytes[n])
  IN  stuffed

FrameStuffed(c, bytes) == FrameStuffs(c, bytes)[Len(bytes)]

(* slider_frame_encode and its like, with room enough.                     *)
slider_frame_encode(c, message) ==
  <<c.sync>> \o FrameStuffed(c, Append(Tail(message), FrameChecksum(c, message)))

(* Broken: the bytes are dropped at the wrong end.                         *)
FrameSyncStays(c, src) ==
  LET found == {i \in 1..Len(src) : src[i] = c.sync}
      i == IF found = {} THEN Len(src) ELSE (CHOOSE j \in found : \A k \in found : j <= k) - 1
  IN  [j \in 1..Len(src) - i |-> src[j]]

(* slider_frame_sync: bytes before a sync byte are dropped.  As many bytes *)
(* are moved as were dropped, not as many as are left, so what is behind   *)
(* these keeps its place.                                                  *)
slider_frame_sync(c, src) ==
  LET found == {i \in 1..Len(src) : src[i] = c.sync}
      i == IF found = {} THEN Len(src) ELSE (CHOOSE j \in found : \A k \in found : j <= k) - 1
  IN  [j \in 1..Len(src) - i |-> IF j <= i THEN src[i + j] ELSE src[j]]

(* slider_frame_accept: S_FALSE until as many bytes are there as the size  *)
(* says.                                                                   *)
slider_frame_accept(c, dest) ==
  LET n == Len(dest)
  IN  IF n < c.size \/ n # dest[c.size] + c.overhead THEN "S_FALSE"
      ELSE IF FrameChecksum(c, SubSeq(dest, 1, n - 1)) = dest[n] THEN "S_OK" ELSE "ERROR_CRC"

(* Broken: an escaped byte is taken as it is.                              *)
FrameStepRaw(c, d, byte) ==
  IF d.hr # "S_FALSE" THEN d
  ELSE LET e == [d EXCEPT !.used = @ + 1]
           put(b) == [e EXCEPT !.dest = Append(@, b), !.escape = FALSE,
                               !.hr = slider_frame_accept(c, Append(d.dest, b))]
       IN  CASE d.used = 0 -> put(byte)
             [] d.used > 0 /\ byte = c.sync -> [e EXCEPT !.hr = "E_FAIL"]
             [] d.used > 0 /\ byte = c.esc -> [e EXCEPT !.escape = TRUE]
             [] OTHER -> put(byte)

(* One byte more, d = [hr, dest, escape, used].                            *)
FrameStep(c, d, byte) ==
  IF d.hr # "S_FALSE" THEN d
  ELSE LET e == [d EXCEPT !.used = @ + 1]
           put(b) == [e EXCEPT !.dest = Append(@, b), !.escape = FALSE,
                               !.hr = slider_frame_accept(c, Append(d.dest, b))]
       IN  CASE d.used = 0 -> put(byte)
             [] d.used > 0 /\ byte = c.sync -> [e EXCEPT !.hr = "E_FAIL"]
             [] d.used > 0 /\ byte = c.esc -> [e EXCEPT !.hr = IF d.escape THEN "E_FAIL" ELSE @,
                                                        !.escape = TRUE]
             [] OTHER -> put(IF d.escape THEN FrameByte(byte + 1) ELSE byte)

FrameFresh == [hr |-> "S_FALSE", dest |-> <<>>, escape |-> FALSE, used |-> 0]

(* What there is after the first bytes, for any number of them.            *)
FrameSteps(c, src) ==
  LET after[n \in 0..Len(src)] ==
        IF n = 0 THEN FrameFresh ELSE FrameStep(c, after[n - 1], src[n])
  IN  after

(* slider_frame_decode and its like: what is decoded, and what is left.    *)
slider_frame_decode(c, written) ==
  LET src == slider_frame_sync(c, written)
      d == FrameSteps(c, src)[Len(src)]
  IN  [hr |-> d.hr, dest |-> d.dest,
       src |-> IF d.hr = "S_FALSE" THEN src ELSE SubSeq(src, d.used + 1, Len(src))]

-----------------------------------------------------------------------------
(* sg-frame.c and sg-cmd.c; a request is size, payload size, payload.      *)

FrameUnstuffed == [bytes |-> <<>>, escape |-> FALSE, bad |-> FALSE]

FrameUnstuff(d, byte) ==
  IF d.escape THEN [d EXCEPT !.bytes = Append(@, FrameByte(byte + 1)), !.escape = FALSE]
  ELSE IF byte = FrameSg.esc THEN [d EXCEPT !.escape = TRUE]
  ELSE [d EXCEPT !.bytes = Append(@, byte), !.bad = @ \/ byte = FrameSg.sync]

FrameUnstuffs(bytes) ==
  LET after[n \in 0..Len(bytes)] ==
        IF n = 0 THEN FrameUnstuffed ELSE FrameUnstuff(after[n - 1], bytes[n])
  IN  after

(* Broken: the checksum is not looked at.                                  *)
FrameSgTrusts(dest) ==
  LET n == Len(dest) IN IF n < 1 \/ n # dest[1] + 1 THEN "S_FALSE" ELSE "S_OK"

sg_frame_accept(dest) ==
  LET n == Len(dest)
  IN  IF n < 1 \/ n # dest[1] + 1 THEN "S_FALSE"
      ELSE IF FrameSum(SubSeq(dest, 1, n - 1)) = dest[n] THEN "S_OK" ELSE "ERROR_CRC"

FrameAfterSync(bytes) == SubSeq(bytes, 2, Len(bytes))

sg_frame_decode(bytes) ==
  LET src == FrameAfterSync(bytes)
      d == FrameUnstuffs(src)[Len(src)]
      hr == IF bytes = <<>> \/ bytes[1] # FrameSg.sync \/ d.bad \/ d.escape THEN "E_FAIL"
            ELSE sg_frame_accept(d.bytes)
  IN  [hr |-> hr, dest |-> IF hr = "S_OK" THEN Front(d.bytes) ELSE d.bytes]

sg_frame_encode(request) ==
  <<FrameSg.sync>> \o FrameStuffed(FrameSg, Append(request, FrameSum(request)))

sg_req_validate(request) ==
  Len(request) >= 2 /\ request[1] = Len(request) /\ request[2] = request[1] - 2

(* sg_req_transact: S_FALSE does not keep a request from being dispatched. *)
sg_req_transact(bytes) ==
  LET d == sg_frame_decode(bytes)
  IN  IF d.hr \in {"S_OK", "S_FALSE"} /\ sg_req_validate(d.dest) THEN d.dest ELSE <<>>

FrameJvsStep(d, byte) ==
  CASE byte = FrameSg.sync -> [d EXCEPT !.bad = TRUE]
    [] byte = FrameSg.esc -> [d EXCEPT !.bad = @ \/ d.escape, !.escape = TRUE]
    [] OTHER -> [d EXCEPT !.bytes = Append(@, IF d.escape THEN FrameByte(byte + 1) ELSE byte),
                          !.escape = FALSE]

FrameJvsSteps(bytes) ==
  LET after[n \in 0..Len(bytes)] ==
        IF n = 0 THEN FrameUnstuffed ELSE FrameJvsStep(after[n - 1], bytes[n])
  IN  after

(* jvs_frame_decode, which takes any size; jvs_frame_encode is that of sg. *)
jvs_frame_decode(bytes) ==
  LET src == FrameAfterSync(bytes)
      d == FrameJvsSteps(src)[Len(src)]
      n == Len(d.bytes)
  IN  IF bytes = <<>> \/ bytes[1] # FrameSg.sync \/ d.bad \/ n = 0 THEN <<>>
      ELSE IF FrameSum(SubSeq(d.bytes, 1, n - 1)) = d.bytes[n] THEN SubSeq(d.bytes, 1, n - 1)
      ELSE <<>>

-----------------------------------------------------------------------------
(* The game writes messages to a board with one of the codecs: whole, in   *)
(* two writes, or without their end.  sent, got: the messages written      *)
(* whole, and those the board has decoded; cut: that one was left without  *)
(* its end.                                                                *)

FrameIdle == [codec |-> "none", written |-> <<>>, rest |-> <<>>, at |-> "idle",
              sent |-> <<>>, got |-> <<>>, cut |-> FALSE, bytes |-> <<>>]

FrameInit == frames = FrameIdle

FrameCodec == FrameCodecs[frames.codec]

FrameUse ==
  /\ frames.codec = "none" /\ frames.bytes = <<>>
  /\ \/ \E c \in DOMAIN FrameCodecs : frames' = [frames EXCEPT !.codec = c]
     \/ \E bytes \in FrameSgStrings : frames' = [frames EXCEPT !.bytes = bytes]

FrameSending(bytes) ==
  /\ frames.at = "idle" /\ frames.codec # "none"
  /\ Len(frames.written) + Len(bytes) <= FrameCapacity

(* First n bytes of a message, all of them or not.                         *)
FrameWrite(m, n) ==
  LET bytes == slider_frame_encode(FrameCodec, m)
  IN  /\ FrameSending(bytes)
      /\ n <= Len(bytes) /\ frames.rest = <<>>
      /\ frames' = [frames EXCEPT !.written = @ \o SubSeq(bytes, 1, n), !.at = "decode",
                                  !.rest = SubSeq(bytes, n + 1, Len(bytes)),
                                  !.sent = Append(@, m)]

FrameWriteRest ==
  /\ FrameSending(frames.rest) /\ frames.rest # <<>>
  /\ frames' = [frames EXCEPT !.written = @ \o frames.rest, !.at = "decode", !.rest = <<>>]

FrameCut ==
  /\ frames.at = "idle" /\ frames.rest # <<>>
  /\ frames' = [frames EXCEPT !.rest = <<>>, !.sent = <<>>, !.got = <<>>, !.cut = TRUE]

(* The loop of the board: it ends with the first frame that is not whole.  *)
FrameDecode ==
  /\ frames.at = "decode"
  /\ LET d == slider_frame_decode(FrameCodec, frames.written)
     IN  frames' = [frames EXCEPT !.written = d.src,
                      !.at = IF d.hr = "S_OK" THEN "decode" ELSE "idle",
                      !.got = IF d.hr = "S_OK" THEN Append(@, Front(d.dest)) ELSE @]

FrameNext ==
  \/ FrameUse \/ FrameWriteRest \/ FrameCut \/ FrameDecode
  \/ /\ frames.codec # "none" /\ Len(frames.sent) < 2
     /\ \E m \in FrameMessages[frames.codec] :
          \E n \in 1..Len(slider_frame_encode(FrameCodec, m)) : FrameWrite(m, n)

FrameSpec == FrameInit /\ [][FrameNext]_frames

-----------------------------------------------------------------------------
(* Properties.                                                             *)

FrameTypeOK ==
  /\ Len(frames.written) <= FrameCapacity
  /\ \A i \in 1..Len(frames.written) : frames.written[i] \in FrameBytes

(* Messages come out as they went in, each once and in their order,        *)
(* whatever bytes are in them and wherever a write ends, unless one was    *)
(* left without its end.                                                   *)
FrameDelivers ==
  ~frames.cut /\ frames.at = "idle" /\ frames.rest = <<>> => frames.got = frames.sent

(* A frame behind bytes that are none is decoded if they are no fewer than *)
(* its own.                                                                *)
FrameResumes ==
  [][frames.at = "decode" /\ frames.codec # "none" =>
       \A m \in FrameMessages[frames.codec] :
         LET bytes == slider_frame_encode(FrameCodec, m)
             before == Len(frames.written) - Len(bytes)
         IN  before >= Len(bytes)
             /\ SubSeq(frames.written, before + 1, Len(frames.written)) = bytes
             /\ (\A i \in 1..before : frames.written[i] # FrameCodec.sync)
             => Front(slider_frame_decode(FrameCodec, frames.written).dest) = m]_frames

(* A request that is dispatched has the checksum it should have, or none   *)
(* at all: a frame that ends before its checksum is S_FALSE, and handled.  *)
FrameSgChecked ==
  LET request == sg_req_transact(frames.bytes)
      src == FrameAfterSync(frames.bytes)
      bytes == FrameUnstuffs(src)[Len(src)].bytes
  IN  request # <<>> => bytes \in {request, Append(request, FrameSum(request))}

(* A request that is framed for the bus or a reader comes out as it was.   *)
FrameWholeDelivers ==
  LET request == frames.bytes
  IN  request # <<>> =>
        /\ jvs_frame_decode(sg_frame_encode(request)) = request
        /\ sg_req_validate(request) => sg_req_transact(sg_frame_encode(request)) = request

(* The codecs as a whole: what is encoded is decoded as it was whatever    *)
(* bytes it holds, a checked frame has the right checksum, and after       *)
(* garbage as long as the frame itself the frame is found.                 *)
FramesAreRight ==
  /\ [](FrameTypeOK /\ FrameDelivers /\ FrameSgChecked /\ FrameWholeDelivers)
  /\ FrameResumes

=============================================================================
