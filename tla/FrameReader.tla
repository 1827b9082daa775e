---------------------------- MODULE FrameReader ----------------------------
(***************************************************************************)
(* How readerLoop (client/client.go:160-236) cuts the bytes of the modem's *)
(* connection into frames, as operators over sequences of bytes.           *)
(*                                                                         *)
(* A frame is a header byte, two bytes of length and the payload.  TCP     *)
(* delivers the bytes in chunks that know nothing of frames; CommandLink   *)
(* takes the frames as they come out here.                                 *)
(***************************************************************************)
EXTENDS Naturals, Sequences, SequencesExt

CONSTANT MaxPayload   \* a longer payload means a corrupted frame (8192)

ASSUME FrameReaderAssumption == MaxPayload \in Nat

Urc    == 224                     \* 0xe0, an unsolicited notification
Header == {160, 164, Urc, 228}    \* isValidHeader

FramePayload(header, payload) ==         \* framePayload
  <<header, (Len(payload) \div 256) % 256, Len(payload) % 256>> \o payload

Behind(s, n) == SubSeq(s, n + 1, Len(s))

\* Drop what is before the first header byte.
Resync(buf) ==
  LET at == {i \in DOMAIN buf : buf[i] \in Header}
  IN  IF at = {} THEN <<>> ELSE Behind(buf, (CHOOSE i \in at : \A j \in at : i <= j) - 1)

\* Fault variant: the header of an incomplete frame is taken for noise.
StepImpatient(r) ==
  LET buf == r.buf
      n   == buf[2] * 256 + buf[3]
  IN  CASE Len(buf) < 3 -> r
        [] Len(buf) >= 3 /\ buf[1] \notin Header -> [r EXCEPT !.buf = Resync(buf)]
        [] Len(buf) >= 3 /\ buf[1] \in Header /\ Len(buf) < n + 3 -> [r EXCEPT !.buf = Behind(buf, 1)]
        [] OTHER -> [buf    |-> Behind(buf, n + 3),
                     frames |-> Append(r.frames, [urc |-> buf[1] = Urc, payload |-> SubSeq(buf, 4, n + 3)])]

\* One turn of the inner loop; a turn that changes nothing waits for more bytes.
Step(r) ==
  LET buf == r.buf
      n   == buf[2] * 256 + buf[3]
  IN  IF Len(buf) < 3 THEN r
      ELSE IF buf[1] \notin Header THEN [r EXCEPT !.buf = Resync(buf)]
      ELSE IF n > MaxPayload THEN [r EXCEPT !.buf = Behind(buf, 1)]
      ELSE IF Len(buf) < n + 3 THEN r
      ELSE [buf    |-> Behind(buf, n + 3),
            frames |-> Append(r.frames, [urc |-> buf[1] = Urc, payload |-> SubSeq(buf, 4, n + 3)])]

\* A chunk is appended, and the loop runs until it waits: every turn before that
\* takes a byte at least.
Read(r, chunk) ==
  LET all == [r EXCEPT !.buf = @ \o chunk]
  IN  FoldLeft(LAMBDA s, turn : Step(s), all, [turn \in 1 .. Len(all.buf) |-> turn])

ReadAll(chunks) == FoldLeft(Read, [buf |-> <<>>, frames |-> <<>>], chunks).frames

-----------------------------------------------------------------------------
(* Properties of a stream of bytes *)

\* However TCP cuts a stream, also a corrupted one, the same frames come out.
SameFrames(bytes) ==
  /\ \A i \in 0 .. Len(bytes) :
       ReadAll(<<SubSeq(bytes, 1, i), Behind(bytes, i)>>) = ReadAll(<<bytes>>)
  /\ ReadAll([i \in DOMAIN bytes |-> <<bytes[i]>>]) = ReadAll(<<bytes>>)

\* Frames that follow a stretch of bytes without a header come out whole, and in
\* order, whatever their payloads look like.
FramesArrive(noise, frames) ==
  LET bytes == noise \o FlattenSeq([i \in DOMAIN frames |-> FramePayload(frames[i].header, frames[i].payload)])
  IN  ReadAll(<<bytes>>) =
        [i \in DOMAIN frames |-> [urc |-> frames[i].header = Urc, payload |-> frames[i].payload]]
=============================================================================
