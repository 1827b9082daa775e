------------------------------ MODULE SmsCodec ------------------------------
(***************************************************************************)
(* How an SMS becomes PDUs and how the list of received PDUs becomes       *)
(* messages again (commands/sms.go), as operators over bytes.              *)
(*                                                                         *)
(* A text is a sequence of characters, of which there are a few of every   *)
(* kind: "at" and "e" take one septet, "euro" takes two (an escape),       *)
(* "cyr" has no septet and takes one UTF-16 unit, "emoji" takes two (a     *)
(* surrogate pair).  The hexadecimal form of a PDU, the address of letters *)
(* and the validity period are left out.                                   *)
(***************************************************************************)
EXTENDS Integers, Sequences, SequencesExt

CONSTANTS MaxSingle7,  MaxPart7,    \* septets of a message, of a part (160, 153)
          MaxSingle16, MaxPart16,   \* units of a message, of a part (70, 67)
          MaxSingle8,  MaxPart8     \* octets of a message, of a part (140, 134)

ASSUME SmsCodecAssumption ==
  /\ {MaxSingle7, MaxPart7, MaxSingle16, MaxPart16, MaxSingle8, MaxPart8} \subseteq Nat \ {0}
  /\ MaxPart7 <= MaxSingle7 /\ MaxPart16 <= MaxSingle16

Escape == 27
High   == 55358
Low    == 56688

Septets == [at |-> <<0>>, e |-> <<101>>, space |-> <<32>>, euro |-> <<Escape, 101>>]
Units   == [at |-> <<64>>, e |-> <<101>>, space |-> <<32>>, euro |-> <<8364>>,
            cyr |-> <<1046>>, emoji |-> <<High, Low>>]

\* encodeGSM7Bit, or the UTF-16 of a text that it refuses.
IsGSM(text) == \A i \in DOMAIN text : text[i] \in DOMAIN Septets
Spell(code, text) == FlattenSeq([i \in DOMAIN text |-> code[text[i]]])

-----------------------------------------------------------------------------
(* Septets in octets *)

\* What the loops have put out, and the bits that are open.
Packed(dst, accum, shift) == [dst |-> dst, accum |-> accum, shift |-> shift]

PackSeptet(r, s) ==
  LET accum == r.accum + s * 2^r.shift
  IN  IF r.shift + 7 >= 8
      THEN Packed(Append(r.dst, accum % 256), accum \div 256, r.shift - 1)
      ELSE Packed(r.dst, accum, r.shift + 7)

Pack(septets, padding) ==
  LET end == FoldLeft(PackSeptet, Packed(<<>>, 0, padding), septets)
  IN  IF end.shift > 0 THEN Append(end.dst, end.accum % 256) ELSE end.dst

UnpackOctet(r, b) ==
  LET accum == r.accum + b * 2^r.shift
  IN  IF r.shift + 8 >= 14
      THEN Packed(r.dst \o <<accum % 128, (accum \div 128) % 128>>, accum \div 16384, r.shift - 6)
      ELSE Packed(Append(r.dst, accum % 128), accum \div 128, r.shift + 1)

Unpack(octets, count) ==
  LET end == FoldLeft(UnpackOctet, Packed(<<>>, 0, 0), octets)
      all == IF end.shift > 0 THEN Append(end.dst, end.accum % 128) ELSE end.dst
  IN  SubSeq(all, 1, IF count < Len(all) THEN count ELSE Len(all))

\* The character that one code stands for.
Sign(code, s) == IF \E c \in DOMAIN code : code[c] = <<s>>
                 THEN CHOOSE c \in DOMAIN code : code[c] = <<s>>
                 ELSE "other"

\* decodeGSM7Bit: an escape at the end is a space.
ReadSeptet(r, s) ==
  CASE r.escaped -> [text |-> Append(r.text, IF s = 101 THEN "euro" ELSE Sign(Septets, s)), escaped |-> FALSE]
    [] ~r.escaped /\ s = Escape -> [r EXCEPT !.escaped = TRUE]
    [] OTHER -> [r EXCEPT !.text = Append(@, Sign(Septets, s))]

DecodeGSM(septets) ==
  LET end == FoldLeft(ReadSeptet, [text |-> <<>>, escaped |-> FALSE], septets)
  IN  IF end.escaped THEN Append(end.text, "space") ELSE end.text

\* utf16.Decode: half a pair becomes the replacement character.
ReadUnit(text, u) ==
  CASE u = High -> Append(text, "half")
    [] u = Low /\ text # <<>> /\ Last(text) = "half" -> Append(Front(text), "emoji")
    [] u = Low /\ ~(text # <<>> /\ Last(text) = "half") -> Append(text, "bad")
    [] OTHER -> Append(text, Sign(Units, u))

DecodeUnits(units) ==
  LET text == FoldLeft(ReadUnit, <<>>, units)
  IN  [i \in DOMAIN text |-> IF text[i] = "half" THEN "bad" ELSE text[i]]

Octets(units) == FlattenSeq([i \in DOMAIN units |-> <<units[i] \div 256, units[i] % 256>>])
Paired(octets) == [i \in 1 .. (Len(octets) \div 2) |-> octets[2*i - 1] * 256 + octets[2*i]]

-----------------------------------------------------------------------------
(* encodeSMSPDUs *)

\* Fault variant: the high digit first.
EncodeHighFirst(digits) ==
  [i \in 1 .. ((Len(digits) + 1) \div 2) |->
     16 * digits[2*i - 1] + (IF 2*i <= Len(digits) THEN digits[2*i] ELSE 15)]

\* Two digits an octet, the low one first; 15 fills the last.
EncodeDigits(digits) ==
  [i \in 1 .. ((Len(digits) + 1) \div 2) |->
     digits[2*i - 1] + 16 * (IF 2*i <= Len(digits) THEN digits[2*i] ELSE 15)]

Submit(number, first, dcs, udl, ud) ==
  <<0, first, 0, Len(number.digits), IF number.plus THEN 145 ELSE 129>>
    \o EncodeDigits(number.digits) \o <<0, dcs, udl>> \o ud

Slice(codes, size, k) ==
  SubSeq(codes, (k - 1) * size + 1, IF k * size < Len(codes) THEN k * size ELSE Len(codes))

Parts(n, size) == (n + size - 1) \div size

ConcatHeader(ref, total, k) == <<5, 0, 3, ref % 256, total % 256, k % 256>>

\* Fault variant: the body of a part starts right after the header's octets.
EncodeUnpadded(number, text, ref) ==
  LET codes == Spell(Septets, text)
      total == Parts(Len(codes), MaxPart7)
  IN  IF ~IsGSM(text) \/ Len(codes) <= MaxSingle7
      THEN <<Submit(number, 1, 0, Len(codes), Pack(codes, 0))>>
      ELSE [k \in 1 .. total |->
             LET body == Slice(codes, MaxPart7, k)
             IN  Submit(number, 65, 0, 7 + Len(body), ConcatHeader(ref, total, k) \o Pack(body, 0))]

EncodePDUs(number, text, ref) ==
  IF IsGSM(text)
  THEN LET codes == Spell(Septets, text)
           total == Parts(Len(codes), MaxPart7)
       IN  IF Len(codes) <= MaxSingle7
           THEN <<Submit(number, 1, 0, Len(codes), Pack(codes, 0))>>
           ELSE [k \in 1 .. total |->
                  LET body == Slice(codes, MaxPart7, k)   \* one bit of padding after six octets
                  IN  Submit(number, 65, 0, 7 + Len(body), ConcatHeader(ref, total, k) \o Pack(body, 1))]
  ELSE LET codes == Spell(Units, text)
           total == Parts(Len(codes), MaxPart16)
       IN  IF Len(codes) <= MaxSingle16
           THEN <<Submit(number, 1, 8, 2 * Len(codes), Octets(codes))>>
           ELSE [k \in 1 .. total |->
                  LET body == Slice(codes, MaxPart16, k)
                  IN  Submit(number, 65, 8, 6 + 2 * Len(body), ConcatHeader(ref, total, k) \o Octets(body))]

-----------------------------------------------------------------------------
(* parsePDU *)

DecodeDigits(octets, count) ==
  LET all == FlattenSeq([i \in DOMAIN octets |->
               IF octets[i] \div 16 = 15 THEN <<octets[i] % 16>>
               ELSE <<octets[i] % 16, octets[i] \div 16>>])
  IN  SubSeq(all, 1, IF count < Len(all) THEN count ELSE Len(all))

Smaller(a, b) == IF a < b THEN a ELSE b

\* The characters of 8-bit data; what is not ASCII is none of the texts'.
DecodeOctets(octets) == [i \in DOMAIN octets |-> Sign(Units, octets[i])]

\* 0 are septets, 2 are units, and the rest is 8-bit data.
Coding(dcs) == IF dcs \div 16 = 15 THEN (dcs \div 4) % 2 ELSE (dcs \div 4) % 4

DecodeUserData(ud, udl, dcs, udhi) ==
  LET header == IF udhi THEN ud[1] + 1 ELSE 0
      body   == SubSeq(ud, header + 1, Smaller(udl, Len(ud)))
  IN  IF udl = 0 THEN <<>>
      ELSE IF Coding(dcs) = 0
           THEN LET septets == Unpack(SubSeq(ud, 1, Smaller((udl * 7 + 7) \div 8, Len(ud))), udl)
                IN  DecodeGSM(SubSeq(septets, (header * 8 + 6) \div 7 + 1, Len(septets)))
           ELSE IF Coding(dcs) = 2 THEN DecodeUnits(Paired(body)) ELSE DecodeOctets(body)

\* The fields after the service centre's address; a PDU that is too short for
\* them is an error.
ParsePDU(b) ==
  LET first  == 2 + b[1]
      submit == b[first] % 4 = 1
      length == first + (IF submit THEN 2 ELSE 1)         \* of the address
      octets == (b[length] + 1) \div 2
      pid    == length + 1 + (IF b[length] = 0 THEN 0 ELSE 1 + octets)
      udl    == pid + 2 + (IF submit THEN <<0, 7, 1, 7>>[((b[first] \div 8) % 4) + 1] ELSE 7)
      whole  == /\ Len(b) >= 1 /\ Len(b) >= first
                /\ b[first] % 4 \in {0, 1}
                /\ Len(b) >= length + (IF submit THEN 1 ELSE 0)
                /\ b[length] > 0 => Len(b) >= length + 1 + octets
                /\ Len(b) >= pid + 1 /\ Len(b) >= udl
                /\ (b[first] \div 64) % 2 = 1 => Len(b) > udl /\ Len(b) > udl + b[udl + 1]
  IN  IF ~whole THEN [error |-> TRUE]
      ELSE [error   |-> FALSE,
            plus    |-> b[length] > 0 /\ b[length + 1] = 145,
            digits  |-> DecodeDigits(SubSeq(b, length + 2, length + 1 + octets), b[length]),
            content |-> DecodeUserData(SubSeq(b, udl + 1, Len(b)), b[udl], b[pid + 1],
                                       (b[first] \div 64) % 2 = 1)]

\* What the network makes of a message: another header, the same user data.
Deliver(number, b) ==
  LET body == 6 + (b[4] + 1) \div 2   \* the PID
  IN  <<0, (b[2] \div 64) * 64, Len(number.digits), IF number.plus THEN 145 ELSE 129>>
        \o EncodeDigits(number.digits) \o SubSeq(b, body, body + 1)
        \o <<0, 0, 0, 0, 0, 0, 0>> \o SubSeq(b, body + 2, Len(b))

-----------------------------------------------------------------------------
(* SMSList.ParseResponse.  A date is a natural number, or a negative one for   *)
(* a string that parseSMSDate refuses: the list shows no date of a message     *)
(* that was sent, and the octets of a date may be no digits.                   *)

\* isMultipartSegment, which counts characters.
IsFull(content) == Len(content) \in {MaxSingle7, MaxPart7, MaxSingle16, MaxPart16, MaxSingle8, MaxPart8}

Close(d1, d2) == d1 = d2 \/ (d1 \in Nat /\ d2 \in Nat /\ d1 - d2 \in -5 .. 5)

Group(m) == [m EXCEPT !.indices = <<m.index>>]

Joined(g, m) == [g EXCEPT !.content = @ \o m.content, !.unread = @ \/ m.unread,
                          !.indices = Append(@, m.index)]

\* Fault variant: the segment before is not looked at, the group is.
MergeByGroup(messages) ==
  LET Add(groups, m) ==
        LET g == Last(groups)
        IN  IF m.sender = g.sender /\ Close(m.date, g.date) /\ IsFull(g.content)
            THEN Append(Front(groups), Joined(g, m))
            ELSE Append(groups, Group(m))
  IN  IF messages = <<>> THEN <<>> ELSE FoldLeft(Add, <<Group(Head(messages))>>, Tail(messages))

\* A message continues the group when the segment listed before it is full.
AddMessage(r, m) ==
  LET g == Last(r.groups)
  IN  [groups |-> IF m.sender = g.sender /\ Close(m.date, g.date) /\ IsFull(r.before)
                  THEN Append(Front(r.groups), Joined(g, m))
                  ELSE Append(r.groups, Group(m)),
       before |-> m.content]

Merge(messages) ==
  LET start == [groups |-> <<Group(Head(messages))>>, before |-> Head(messages).content]
  IN  IF messages = <<>> THEN <<>> ELSE FoldLeft(AddMessage, start, Tail(messages)).groups

\* The order of the list: by date, then what has no date, by index.
Newer(a, b) == IF a.date \in Nat \/ b.date \in Nat THEN a.date > b.date ELSE a.index > b.index

\* The sort is stable: m goes behind what it is not newer than.
Insert(s, m) == InsertAt(s, Cardinality({i \in DOMAIN s : ~Newer(m, s[i])}) + 1, m)

NewestFirst(messages) == FoldLeft(Insert, <<>>, messages)

List(messages) == NewestFirst(Merge(messages))

-----------------------------------------------------------------------------
(* Properties of a text *)

Someone == [plus |-> TRUE, digits |-> <<4, 9, 7>>]

Received(text) ==
  LET pdus == EncodePDUs(Someone, text, 300)
  IN  [k \in DOMAIN pdus |-> ParsePDU(Deliver(Someone, pdus[k])).content]

\* A boundary between two parts falls into the two codes of one character.
Cut(text) ==
  LET code == IF IsGSM(text) THEN Septets ELSE Units
      size == IF IsGSM(text) THEN MaxPart7 ELSE MaxPart16
  IN  /\ Len(Received(text)) > 1
      /\ \E i \in DOMAIN text :
           LET n == Len(Spell(code, SubSeq(text, 1, i)))
           IN  Len(code[text[i]]) = 2 /\ (n - 1) % size = 0

\* The text that the parts of a message decode to, one by one, is the text that
\* was sent, whatever its length and its characters' codes.  Excepted is the
\* character that the split cuts in two (sms.go:779, 843).
TextArrives(text) == Cut(text) \/ FlattenSeq(Received(text)) = text

\* The list of the modem's own storage shows whom a message went to, and what it
\* says, whether the number has an odd or an even count of digits and in either
\* form of a number (sms.go:395, 410).
ReadsBack(number, text) ==
  LET m == ParsePDU(EncodePDUs(number, text, 300)[1])
  IN  ~m.error /\ m.plus = number.plus /\ m.digits = number.digits /\ m.content = text

\* Parts that arrive one after the other.
Message(k, from, date, content) ==
  [index |-> k, sender |-> from, date |-> date, content |-> content, unread |-> FALSE, indices |-> <<>>]

Stored(parts, start, gap) ==
  [k \in DOMAIN parts |-> Message(k, "b", start + gap * (k - 1), parts[k])]

\* One of the two messages listed is text, with the indices of its n parts.
Shows(listed, text, n) ==
  /\ Len(listed) = 2
  /\ \E i \in 1 .. 2 : listed[i].content = text /\ listed[i].indices = [k \in 1 .. n |-> k]
  /\ ~Newer(listed[2], listed[1])

\* A long message whose parts arrive within five seconds, or are without a date, is
\* listed as one message, with all its segments' indices and apart from a neighbour
\* of another sender, in the order of the list.  Excepted is a part with a character
\* of two codes: it has fewer characters than a full segment, and does not count as
\* one (sms.go:95, 1050).
ListedOnce(text, start, gap, neighbour) ==
  LET parts  == Received(text)
      n      == Len(parts)
      wide   == \E k \in 1 .. n - 1 : \E i \in DOMAIN parts[k] : parts[k][i] \in {"euro", "emoji"}
  IN  ~wide /\ ~Cut(text) /\ (start \in Nat \/ gap = 0) /\ gap * (n - 1) <= 5 =>
        Shows(List(Append(Stored(parts, start, gap), Message(n + 1, "c", neighbour, <<"e">>))), text, n)
=============================================================================
