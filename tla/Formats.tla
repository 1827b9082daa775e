------------------------------ MODULE Formats ------------------------------
(***************************************************************************)
(* The sequential parts, FrameReader, DynFormat and SmsCodec, under a      *)
(* state machine that looks at one sample of their input after the other:  *)
(* what holds in every state holds for every sample.                       *)
(***************************************************************************)
EXTENDS FrameReader, DynFormat, SmsCodec

CONSTANTS MaxStream,    \* bound on the bytes of a stream
          MaxFormat,    \* bound on the characters of a description
          MaxText       \* bound on the characters of a text

ASSUME FormatsAssumption == {MaxStream, MaxFormat, MaxText} \subseteq Nat

VARIABLE sample

UpTo(n, S) == UNION {[1 .. k -> S] : k \in 0 .. n}

\* Two headers, lengths that are small or too large, and what is neither.
Bytes    == {0, 1, 33, 164, Urc}
Payloads == {<<>>, <<65>>, <<164>>, <<Urc, 0>>}
Noises   == {<<>>, <<1>>, <<0, 1, 2>>, <<0, 1, 2, 3>>}

None == [kind |-> "none"]

FormatsInit == sample = None

LookAtStream  == \E s \in UpTo(MaxStream, Bytes) : sample' = [kind |-> "stream", bytes |-> s]
LookAtFrames  == \E noise \in Noises, s \in UpTo(2, [header : {164, Urc}, payload : Payloads]) :
                   sample' = [kind |-> "frames", noise |-> noise, frames |-> s]
LookAtFormat  == \E s \in UpTo(MaxFormat, Chars) : sample' = [kind |-> "format", rest |-> s]
LookAtText    == \E s \in UpTo(MaxText, {"at", "euro"}) \cup UpTo(MaxText, {"cyr", "emoji"}) :
                   sample' = [kind |-> "text", text |-> s]
LookAtNumber  == \E digits \in UpTo(4, {0, 7}) \ {<<>>}, plus \in BOOLEAN :
                   sample' = [kind |-> "number", number |-> [plus |-> plus, digits |-> digits]]

FormatsNext ==
  /\ sample = None
  /\ LookAtStream \/ LookAtFrames \/ LookAtFormat \/ LookAtText \/ LookAtNumber

FormatsSpec == FormatsInit /\ [][FormatsNext]_sample

-----------------------------------------------------------------------------
(* Properties *)

\* The frames that readerLoop routes do not depend on how TCP cuts the stream,
\* also when it is corrupted, and frames after noise come out whole and in order
\* (client.go:180).
ReaderIsRobust ==
  /\ sample.kind = "stream" => SameFrames(sample.bytes)
  /\ sample.kind = "frames" => FramesArrive(sample.noise, sample.frames)

\* A description is split at the commas outside quotes and brackets, and nowhere
\* else, however quotes, brackets and blanks are mixed (dynamic_config.go:162).
FormatIsSplitRight == sample.kind = "format" => ArgumentsAreWhole(sample.rest)

\* See TextArrives.
SentTextArrives == sample.kind = "text" => TextArrives(sample.text)

\* See ReadsBack.
SubmitReadsBack ==
  sample.kind = "number" =>
    ReadsBack(sample.number, <<"at">>) /\ ReadsBack(sample.number, <<"cyr", "emoji">>)

\* See ListedOnce; the neighbour is older, or newer, or without a date.
LongMessageIsListedOnce ==
  sample.kind = "text" =>
    \A d \in {<<3, 1, -1>>, <<3, 1, 0>>, <<3, 1, 9>>, <<-2, 0, -1>>, <<-2, 0, 9>>} :
      ListedOnce(sample.text, d[1], d[2], d[3])
=============================================================================
