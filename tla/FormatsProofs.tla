--------------------------- MODULE FormatsProofs ---------------------------
(***************************************************************************)
(* Theorems about the frame reader, for every stream of bytes, every way   *)
(* of cutting it into chunks and every length of payload; about the        *)
(* descriptions of the subcommands; and about what an SMS goes through,    *)
(* for every text, every number and every limit of a part.                 *)
(*                                                                         *)
(* The folds of FrameReader are unfolded to traces of their turns.  A turn *)
(* that does something shortens the buffer, so that the inner loop ends    *)
(* with a reader that waits (FullRests), and a turn does not look beyond   *)
(* the bytes it takes (StepCommutes).  What is parsed early is therefore   *)
(* parsed as it would be later (Continues), up to leading bytes that are   *)
(* no header: a buffer shorter than a frame's header keeps them.           *)
(*                                                                         *)
(* The loop over a description is at the last of the separators it has     *)
(* seen, and has the arguments between those before (SoFar).               *)
(*                                                                         *)
(* Unpacking stays in step with packing (InStep): of the septet that is    *)
(* open between two octets it has the low bits, and the packing the rest.  *)
(* The boundaries of the parts of a text fall between characters, unless   *)
(* they cut one (EveryEnd), so that each part says the characters between  *)
(* two of them (PartsSay).  The merging of a list has seen the first parts *)
(* and made one message of them (Gathered).                                *)
(*                                                                         *)
(* The induction theorems of the library take an operator; Induction is    *)
(* their instance for sets of numbers, from the least number principle,    *)
(* and SequenceInduction that for sets of sequences.                       *)
(***************************************************************************)
EXTENDS Formats, SequenceTheorems, FiniteSetTheorems, WellFoundedInduction, TLAPS
-----------------------------------------------------------------------------
(* Induction *)

\* A set of numbers has a least element.
LEMMA Least ==
  ASSUME NEW T, T \subseteq Nat, T # {}
  PROVE  \E n \in T : \A m \in T : n <= m
<1> DEFINE R == OpToRel(<, Nat)
<1>1. IsWellFoundedOn(R, Nat)
  BY NatLessThanWellFounded
<1>2. \A x, y \in Nat : y < x => <<y, x>> \in R
  BY DEF OpToRel
<1> HIDE DEF R
<1>3. PICK n \in T : \A m \in T : <<m, n>> \notin R
  BY <1>1, WFMin
<1>4. \A m \in T : m \in Nat /\ n \in Nat
  OBVIOUS
<1>5. \A m \in T : ~(m < n)
  BY <1>2, <1>3, <1>4
<1> QED
  BY <1>4, <1>5

\* A set that has 0 and with a number the next one has them all.
LEMMA Induction ==
  ASSUME NEW T, 0 \in T, \A n \in Nat : n \in T => n + 1 \in T
  PROVE  Nat \subseteq T
<1> SUFFICES ASSUME Nat \ T # {}
             PROVE  FALSE
  OBVIOUS
<1>1. PICK n \in Nat \ T : \A m \in Nat \ T : n <= m
  BY Least
<1>2. n # 0 /\ n - 1 \in Nat
  BY <1>1
<1>3. n - 1 \in T
  BY <1>1, <1>2
<1> QED
  BY <1>1, <1>2, <1>3

-----------------------------------------------------------------------------
(* The two folds *)

\* The greatest of the numbers up to n.
LEMMA Greatest ==
  ASSUME NEW n \in Nat, NEW s \in SUBSET (1 .. n + 1), n + 1 \in s
  PROVE  Max(s) = n + 1
<1>1. \A y \in s : y \in Int /\ n + 1 >= y
  OBVIOUS
<1> DEFINE m == Max(s)
<1>2. m \in s /\ m >= n + 1
  BY <1>1, Zenon DEF Max
<1> HIDE DEF m
<1>3. m = n + 1
  BY <1>1, <1>2
<1> QED
  BY <1>3 DEF m

\* g is the fold of the turns of the inner loop over every subset of the turns.
Turns(r, n, g) ==
  g = [s \in SUBSET (1 .. n) |-> IF s = {} THEN r ELSE Step(g[s \ {Max(s)}])]

\* The fold is defined: there is such a function.
LEMMA TurnsExist ==
  ASSUME NEW r, NEW n \in Nat
  PROVE  \E g : Turns(r, n, g)
<1> DEFINE T == {m \in Nat : \E g : Turns(r, m, g)}
<1>1. 0 \in T
  <2> DEFINE g == [s \in SUBSET (1 .. 0) |-> r]
  <2>1. \A s \in SUBSET (1 .. 0) : s = {}
    OBVIOUS
  <2>2. g = [s \in SUBSET (1 .. 0) |-> IF s = {} THEN r ELSE Step(g[s \ {Max(s)}])]
    BY <2>1, Zenon
  <2> HIDE DEF g
  <2>3. Turns(r, 0, g)
    BY <2>2, Zenon DEF Turns
  <2> QED
    BY <2>3
<1>2. ASSUME NEW m \in Nat, m \in T
      PROVE  m + 1 \in T
  <2>1. PICK g : Turns(r, m, g)
    BY <1>2
  <2> DEFINE h == [s \in SUBSET (1 .. m + 1) |-> IF m + 1 \in s THEN Step(g[s \ {m + 1}]) ELSE g[s]]
  <2>2. \A s \in SUBSET (1 .. m) : g[s] = IF s = {} THEN r ELSE Step(g[s \ {Max(s)}])
    BY <2>1, Zenon DEF Turns
  <2>3. \A s \in SUBSET (1 .. m + 1) :
          /\ s \ {m + 1} \in SUBSET (1 .. m)
          /\ m + 1 \notin s => s \in SUBSET (1 .. m)
    OBVIOUS
  <2>4. \A s \in SUBSET (1 .. m) : s \in SUBSET (1 .. m + 1) /\ m + 1 \notin s
    OBVIOUS
  <2>5. \A s \in SUBSET (1 .. m) : h[s] = g[s]
    BY <2>4, Zenon
  <2>6. \A s \in SUBSET (1 .. m + 1) : h[s] = IF s = {} THEN r ELSE Step(h[s \ {Max(s)}])
    <3> SUFFICES ASSUME NEW s \in SUBSET (1 .. m + 1)
                 PROVE  h[s] = IF s = {} THEN r ELSE Step(h[s \ {Max(s)}])
      OBVIOUS
    <3>1. CASE m + 1 \in s
      <4>1. Max(s) = m + 1 /\ s # {}
        BY <3>1, Greatest
      <4>2. h[s] = Step(g[s \ {m + 1}])
        BY <3>1, Zenon
      <4>3. h[s \ {m + 1}] = g[s \ {m + 1}]
        BY <2>3, <2>5, Zenon
      <4> HIDE DEF h
      <4> QED
        BY <4>1, <4>2, <4>3, Zenon
    <3>2. CASE m + 1 \notin s
      <4>1. s \in SUBSET (1 .. m)
        BY <2>3, <3>2, Zenon
      <4>2. s \ {Max(s)} \in SUBSET (1 .. m)
        BY <4>1, Zenon
      <4> HIDE DEF h
      <4> QED
        BY <2>2, <2>5, <4>1, <4>2, Zenon
    <3> QED
      BY <3>1, <3>2
  <2>7. h = [s \in SUBSET (1 .. m + 1) |-> h[s]]
    BY Zenon
  <2> HIDE DEF h
  <2>8. Turns(r, m + 1, h)
    BY <2>6, <2>7, Zenon DEF Turns
  <2> QED
    BY <2>8
<1>3. Nat \subseteq T
  <2> HIDE DEF T
  <2> QED
    BY <1>1, <1>2, Induction
<1> QED
  BY <1>3

\* The inner loop as a trace of its turns.
LEMMA TurnsTrace ==
  ASSUME NEW r, NEW n \in Nat
  PROVE  \E t : /\ t[0] = r
                /\ \A k \in 0 .. n - 1 : t[k + 1] = Step(t[k])
                /\ FoldLeft(LAMBDA s, turn : Step(s), r, [turn \in 1 .. n |-> turn]) = t[n]
<1> DEFINE g == CHOOSE f : Turns(r, n, f)
           t == [k \in 0 .. n |-> g[1 .. k]]
<1>1. FoldLeft(LAMBDA s, turn : Step(s), r, [turn \in 1 .. n |-> turn]) = g[1 .. n]
  BY Zenon DEF FoldLeft, MapThenFoldSet, Turns
<1>2. Turns(r, n, g)
  BY TurnsExist, Zenon
<1> HIDE DEF g
<1>3. \A s \in SUBSET (1 .. n) : g[s] = IF s = {} THEN r ELSE Step(g[s \ {Max(s)}])
  BY <1>2, Zenon DEF Turns
<1>4. t[0] = r
  <2>1. t[0] = g[1 .. 0] /\ 1 .. 0 = {}
    OBVIOUS
  <2>2. {} \in SUBSET (1 .. n)
    OBVIOUS
  <2> QED
    BY <1>3, <2>1, <2>2, Zenon
<1>5. ASSUME NEW k \in 0 .. n - 1
      PROVE  t[k + 1] = Step(t[k])
  <2>1. t[k] = g[1 .. k] /\ t[k + 1] = g[1 .. k + 1]
    OBVIOUS
  <2>2. 1 .. k + 1 \in SUBSET (1 .. n) /\ 1 .. k + 1 # {} /\ (1 .. k + 1) \ {k + 1} = 1 .. k
    <3>1. k \in Nat /\ k + 1 <= n
      OBVIOUS
    <3>2. 1 .. k + 1 \in SUBSET (1 .. n)
      BY <3>1
    <3>3. k + 1 \in 1 .. k + 1
      BY <3>1
    <3>4. (1 .. k + 1) \ {k + 1} = 1 .. k
      BY <3>1
    <3> QED
      BY <3>2, <3>3, <3>4
  <2>3. Max(1 .. k + 1) = k + 1
    BY Greatest
  <2> HIDE DEF t
  <2> QED
    BY <1>3, <2>1, <2>2, <2>3, Zenon
<1>6. t[n] = g[1 .. n]
  OBVIOUS
<1> HIDE DEF t
<1> QED
  BY <1>1, <1>4, <1>5, <1>6

\* The same for the chunks c of a stream.
Chunks(r, c, n, g) ==
  g = [s \in SUBSET (1 .. n) |-> IF s = {} THEN r ELSE Read(g[s \ {Max(s)}], c[Max(s)])]

\* There is such a function here too.
LEMMA ChunksExist ==
  ASSUME NEW r, NEW c, NEW n \in Nat
  PROVE  \E g : Chunks(r, c, n, g)
<1> DEFINE T == {m \in Nat : \E g : Chunks(r, c, m, g)}
<1>1. 0 \in T
  <2> DEFINE g == [s \in SUBSET (1 .. 0) |-> r]
  <2>1. \A s \in SUBSET (1 .. 0) : s = {}
    OBVIOUS
  <2>2. g = [s \in SUBSET (1 .. 0) |-> IF s = {} THEN r ELSE Read(g[s \ {Max(s)}], c[Max(s)])]
    BY <2>1, Zenon
  <2> HIDE DEF g
  <2>3. Chunks(r, c, 0, g)
    BY <2>2, Zenon DEF Chunks
  <2> QED
    BY <2>3
<1>2. ASSUME NEW m \in Nat, m \in T
      PROVE  m + 1 \in T
  <2>1. PICK g : Chunks(r, c, m, g)
    BY <1>2
  <2> DEFINE h == [s \in SUBSET (1 .. m + 1) |-> IF m + 1 \in s THEN Read(g[s \ {m + 1}], c[m + 1]) ELSE g[s]]
  <2>2. \A s \in SUBSET (1 .. m) : g[s] = IF s = {} THEN r ELSE Read(g[s \ {Max(s)}], c[Max(s)])
    BY <2>1, Zenon DEF Chunks
  <2>3. \A s \in SUBSET (1 .. m + 1) :
          /\ s \ {m + 1} \in SUBSET (1 .. m)
          /\ m + 1 \notin s => s \in SUBSET (1 .. m)
    OBVIOUS
  <2>4. \A s \in SUBSET (1 .. m) : s \in SUBSET (1 .. m + 1) /\ m + 1 \notin s
    OBVIOUS
  <2>5. \A s \in SUBSET (1 .. m) : h[s] = g[s]
    BY <2>4, Zenon
  <2>6. \A s \in SUBSET (1 .. m + 1) : h[s] = IF s = {} THEN r ELSE Read(h[s \ {Max(s)}], c[Max(s)])
    <3> SUFFICES ASSUME NEW s \in SUBSET (1 .. m + 1)
                 PROVE  h[s] = IF s = {} THEN r ELSE Read(h[s \ {Max(s)}], c[Max(s)])
      OBVIOUS
    <3>1. CASE m + 1 \in s
      <4>1. Max(s) = m + 1 /\ s # {}
        BY <3>1, Greatest
      <4>2. h[s] = Read(g[s \ {m + 1}], c[m + 1])
        BY <3>1, Zenon
      <4>3. h[s \ {m + 1}] = g[s \ {m + 1}]
        BY <2>3, <2>5, Zenon
      <4> HIDE DEF h
      <4> QED
        BY <4>1, <4>2, <4>3, Zenon
    <3>2. CASE m + 1 \notin s
      <4>1. s \in SUBSET (1 .. m)
        BY <2>3, <3>2, Zenon
      <4>2. s \ {Max(s)} \in SUBSET (1 .. m)
        BY <4>1, Zenon
      <4> HIDE DEF h
      <4> QED
        BY <2>2, <2>5, <4>1, <4>2, Zenon
    <3> QED
      BY <3>1, <3>2
  <2>7. h = [s \in SUBSET (1 .. m + 1) |-> h[s]]
    BY Zenon
  <2> HIDE DEF h
  <2>8. Chunks(r, c, m + 1, h)
    BY <2>6, <2>7, Zenon DEF Chunks
  <2> QED
    BY <2>8
<1>3. Nat \subseteq T
  <2> HIDE DEF T
  <2> QED
    BY <1>1, <1>2, Induction
<1> QED
  BY <1>3

\* The stream as a trace of its chunks.
LEMMA ChunksTrace ==
  ASSUME NEW c, NEW n \in Nat, DOMAIN c = 1 .. n
  PROVE  \E t : /\ t[0] = [buf |-> <<>>, frames |-> <<>>]
                /\ \A k \in 0 .. n - 1 : t[k + 1] = Read(t[k], c[k + 1])
                /\ ReadAll(c) = t[n].frames
<1> DEFINE r == [buf |-> <<>>, frames |-> <<>>]
           g == CHOOSE f : Chunks(r, c, n, f)
           t == [k \in 0 .. n |-> g[1 .. k]]
<1>1. ReadAll(c) = g[1 .. n].frames
  BY Zenon DEF ReadAll, FoldLeft, MapThenFoldSet, Chunks
<1> HIDE DEF r
<1>2. Chunks(r, c, n, g)
  BY ChunksExist, Zenon
<1> HIDE DEF g
<1>3. \A s \in SUBSET (1 .. n) : g[s] = IF s = {} THEN r ELSE Read(g[s \ {Max(s)}], c[Max(s)])
  BY <1>2, Zenon DEF Chunks
<1>4. t[0] = r
  <2>1. t[0] = g[1 .. 0] /\ 1 .. 0 = {}
    OBVIOUS
  <2>2. {} \in SUBSET (1 .. n)
    OBVIOUS
  <2> QED
    BY <1>3, <2>1, <2>2, Zenon
<1>5. ASSUME NEW k \in 0 .. n - 1
      PROVE  t[k + 1] = Read(t[k], c[k + 1])
  <2>1. t[k] = g[1 .. k] /\ t[k + 1] = g[1 .. k + 1]
    OBVIOUS
  <2>2. 1 .. k + 1 \in SUBSET (1 .. n) /\ 1 .. k + 1 # {} /\ (1 .. k + 1) \ {k + 1} = 1 .. k
    <3>1. k \in Nat /\ k + 1 <= n
      OBVIOUS
    <3>2. 1 .. k + 1 \in SUBSET (1 .. n)
      BY <3>1
    <3>3. k + 1 \in 1 .. k + 1
      BY <3>1
    <3>4. (1 .. k + 1) \ {k + 1} = 1 .. k
      BY <3>1
    <3> QED
      BY <3>2, <3>3, <3>4
  <2>3. Max(1 .. k + 1) = k + 1
    BY Greatest
  <2> HIDE DEF t
  <2> QED
    BY <1>3, <2>1, <2>2, <2>3, Zenon
<1>6. t[n] = g[1 .. n]
  OBVIOUS
<1> HIDE DEF t
<1>7. /\ t[0] = [buf |-> <<>>, frames |-> <<>>]
      /\ \A k \in 0 .. n - 1 : t[k + 1] = Read(t[k], c[k + 1])
      /\ ReadAll(c) = t[n].frames
  BY <1>1, <1>4, <1>5, <1>6, Zenon DEF r
<1> QED
  BY <1>7

-----------------------------------------------------------------------------
(* A turn of the inner loop *)

Messages == [urc : BOOLEAN, payload : Seq(Nat)]
Readers  == [buf : Seq(Nat), frames : Seq(Messages)]

\* What is left of a sequence behind its first elements.
LEMMA BehindIs ==
  ASSUME NEW s \in Seq(Nat), NEW n \in 0 .. Len(s)
  PROVE  /\ Behind(s, n) \in Seq(Nat)
         /\ Len(Behind(s, n)) = Len(s) - n
         /\ \A i \in 1 .. Len(s) - n : Behind(s, n)[i] = s[n + i]
<1>1. Len(s) \in Nat /\ n \in Nat /\ n <= Len(s)
  BY LenProperties
<1>2. \A i \in n + 1 .. Len(s) : s[i] \in Nat
  BY <1>1, LenProperties
<1>3. /\ SubSeq(s, n + 1, Len(s)) \in Seq(Nat)
      /\ Len(SubSeq(s, n + 1, Len(s))) = IF n + 1 <= Len(s) THEN Len(s) - (n + 1) + 1 ELSE 0
      /\ \A i \in 1 .. Len(s) - (n + 1) + 1 : SubSeq(s, n + 1, Len(s))[i] = s[n + 1 + i - 1]
  <2>1. n + 1 \in Int /\ Len(s) \in Int
    BY <1>1
  <2> QED
    BY <1>2, <2>1, SubSeqProperties
<1>4. ASSUME NEW i \in 1 .. Len(s) - n
      PROVE  SubSeq(s, n + 1, Len(s))[i] = s[n + i]
  <2>1. n + 1 + i - 1 = n + i /\ i \in 1 .. Len(s) - (n + 1) + 1
    BY <1>1
  <2> QED
    BY <1>3, <2>1
<1>5. Len(SubSeq(s, n + 1, Len(s))) = Len(s) - n
  <2> DEFINE m == Len(SubSeq(s, n + 1, Len(s)))
  <2>1. m = IF n + 1 <= Len(s) THEN Len(s) - (n + 1) + 1 ELSE 0
    BY <1>3
  <2> HIDE DEF m
  <2>2. m = Len(s) - n
    BY <1>1, <2>1
  <2> QED
    BY <2>2 DEF m
<1> QED
  BY <1>3, <1>4, <1>5 DEF Behind

\* Resync is empty without a header, and begins with the first header otherwise.
LEMMA ResyncIs ==
  ASSUME NEW s \in Seq(Nat)
  PROVE  \/ (\A i \in DOMAIN s : s[i] \notin Header) /\ Resync(s) = <<>>
         \/ \E i \in DOMAIN s :
              /\ s[i] \in Header /\ \A j \in 1 .. i - 1 : s[j] \notin Header
              /\ Resync(s) = Behind(s, i - 1)
<1> DEFINE at == {i \in DOMAIN s : s[i] \in Header}
<1>0. DOMAIN s = 1 .. Len(s) /\ Len(s) \in Nat
  BY LenProperties
<1>1. CASE at = {}
  BY <1>1, Zenon DEF Resync
<1>2. CASE at # {}
  <2>1. at \subseteq Nat
    BY <1>0
  <2>2. \E i \in at : \A j \in at : i <= j
    BY <1>2, <2>1, Least
  <2> DEFINE i == CHOOSE k \in at : \A j \in at : k <= j
  <2>3. i \in at /\ \A j \in at : i <= j
    BY <2>2, Zenon
  <2>4. Resync(s) = Behind(s, i - 1)
    BY <1>2, Zenon DEF Resync
  <2> HIDE DEF i
  <2>5. i \in DOMAIN s /\ s[i] \in Header
    BY <2>3
  <2>6. ASSUME NEW j \in 1 .. i - 1
        PROVE  s[j] \notin Header
    <3>1. j \in DOMAIN s /\ ~(i <= j)
      BY <1>0, <2>5
    <3> QED
      BY <2>3, <3>1
  <2> QED
    BY <2>4, <2>5, <2>6
<1> QED
  BY <1>1, <1>2

\* What Resync returns is no longer than its argument, and begins with a header.
LEMMA ResyncTypes ==
  ASSUME NEW s \in Seq(Nat)
  PROVE  /\ Resync(s) \in Seq(Nat)
         /\ Len(Resync(s)) <= Len(s)
         /\ Resync(s) = <<>> \/ Resync(s)[1] \in Header
         /\ s = <<>> \/ s[1] \in Header => Resync(s) = s
         /\ s # <<>> /\ s[1] \notin Header => Len(Resync(s)) < Len(s)
<1>0. DOMAIN s = 1 .. Len(s) /\ Len(s) \in Nat /\ (s = <<>> <=> Len(s) = 0)
  BY LenProperties, EmptySeq
<1>1. CASE (\A i \in DOMAIN s : s[i] \notin Header) /\ Resync(s) = <<>>
  <2>1. Len(<<>>) = 0 /\ <<>> \in Seq(Nat)
    BY EmptySeq
  <2>2. s # <<>> => s[1] \notin Header
    BY <1>0, <1>1
  <2> QED
    BY <1>0, <1>1, <2>1, <2>2
<1>2. ASSUME NEW i \in DOMAIN s, s[i] \in Header, \A j \in 1 .. i - 1 : s[j] \notin Header,
             Resync(s) = Behind(s, i - 1)
      PROVE  /\ Resync(s) \in Seq(Nat)
             /\ Len(Resync(s)) <= Len(s)
             /\ Resync(s)[1] \in Header
             /\ s[1] \in Header => Resync(s) = s
             /\ s # <<>> /\ s[1] \notin Header => Len(Resync(s)) < Len(s)
             /\ s # <<>>
  <2>1. i - 1 \in 0 .. Len(s) /\ i \in Nat /\ i >= 1 /\ i <= Len(s)
    BY <1>0
  <2>2. /\ Resync(s) \in Seq(Nat)
        /\ Len(Resync(s)) = Len(s) - (i - 1)
        /\ \A j \in 1 .. Len(s) - (i - 1) : Resync(s)[j] = s[i - 1 + j]
    <3>1. \A n \in 0 .. Len(s) :
            /\ Behind(s, n) \in Seq(Nat)
            /\ Len(Behind(s, n)) = Len(s) - n
            /\ \A j \in 1 .. Len(s) - n : Behind(s, n)[j] = s[n + j]
      BY BehindIs
    <3> QED
      BY <1>2, <2>1, <3>1, Zenon
  <2>3. Resync(s)[1] = s[i]
    <3>1. 1 \in 1 .. Len(s) - (i - 1) /\ i - 1 + 1 = i
      BY <1>0, <2>1
    <3> QED
      BY <2>2, <3>1
  <2>4. s[1] \in Header => i = 1
    BY <1>2, <2>1
  <2>5. i = 1 => Resync(s) = s
    BY <1>0, <1>2, SubSeqFull DEF Behind
  <2>6. s[1] \notin Header => i # 1
    BY <1>2
  <2> QED
    BY <1>0, <1>2, <2>1, <2>2, <2>3, <2>4, <2>5, <2>6
<1> QED
  BY <1>0, <1>1, <1>2, ResyncIs

\* A turn takes something from the buffer, or changes nothing.
LEMMA StepIs ==
  ASSUME NEW r \in Readers
  PROVE  Step(r) \in Readers /\ (Step(r) = r \/ Len(Step(r).buf) < Len(r.buf))
<1> DEFINE buf == r.buf
           n   == buf[2] * 256 + buf[3]
<1>0. /\ buf \in Seq(Nat) /\ r.frames \in Seq(Messages) /\ Len(buf) \in Nat
      /\ r = [buf |-> buf, frames |-> r.frames]
  BY LenProperties DEF Readers
<1>1. CASE Len(buf) < 3
  BY <1>1 DEF Step
<1>2. CASE Len(buf) >= 3
  <2>0. ~(Len(buf) < 3) /\ buf # <<>>
    BY <1>0, <1>2, EmptySeq
  <2>1. n \in Nat
    <3>1. buf[2] \in Nat /\ buf[3] \in Nat
      BY <1>0, <1>2, LenProperties
    <3> QED
      BY <3>1
  <2>2. CASE buf[1] \notin Header
    <3>1. Step(r) = [buf |-> Resync(buf), frames |-> r.frames]
      BY <1>0, <2>0, <2>2 DEF Step
    <3>2. Resync(buf) \in Seq(Nat) /\ Len(Resync(buf)) < Len(buf)
      BY <1>0, <2>0, <2>2, ResyncTypes
    <3> QED
      BY <1>0, <3>1, <3>2 DEF Readers
  <2> HIDE DEF n
  <2>3. CASE buf[1] \in Header /\ n > MaxPayload
    <3>1. Step(r) = [buf |-> Behind(buf, 1), frames |-> r.frames]
      BY <1>0, <2>0, <2>3 DEF Step, n
    <3>2. Behind(buf, 1) \in Seq(Nat) /\ Len(Behind(buf, 1)) = Len(buf) - 1
      <4>1. 1 \in 0 .. Len(buf)
        BY <1>0, <1>2
      <4> QED
        BY <1>0, <4>1, BehindIs
    <3> QED
      BY <1>0, <3>1, <3>2 DEF Readers
  <2>4. CASE buf[1] \in Header /\ ~(n > MaxPayload) /\ Len(buf) < n + 3
    BY <2>0, <2>4 DEF Step, n
  <2>5. CASE buf[1] \in Header /\ ~(n > MaxPayload) /\ ~(Len(buf) < n + 3)
    <3> DEFINE m == [urc |-> buf[1] = Urc, payload |-> SubSeq(buf, 4, n + 3)]
    <3>1. Step(r) = [buf |-> Behind(buf, n + 3), frames |-> Append(r.frames, m)]
      BY <2>0, <2>5 DEF Step, n
    <3>2. n + 3 \in 0 .. Len(buf)
      BY <1>0, <2>1, <2>5
    <3>3. Behind(buf, n + 3) \in Seq(Nat) /\ Len(Behind(buf, n + 3)) < Len(buf)
      BY <1>0, <2>1, <3>2, BehindIs
    <3>4. SubSeq(buf, 4, n + 3) \in Seq(Nat)
      <4>1. \A i \in 4 .. n + 3 : buf[i] \in Nat
        BY <1>0, <2>1, <3>2, LenProperties
      <4>2. 4 \in Int /\ n + 3 \in Int
        BY <2>1
      <4> QED
        BY <4>1, <4>2, SubSeqProperties
    <3>5. m \in Messages
      BY <3>4 DEF Messages
    <3> HIDE DEF m
    <3>6. Append(r.frames, m) \in Seq(Messages)
      BY <1>0, <3>5, AppendProperties
    <3> QED
      BY <3>1, <3>3, <3>6 DEF Readers
  <2> QED
    BY <2>2, <2>3, <2>4, <2>5
<1> QED
  BY <1>0, <1>1, <1>2

-----------------------------------------------------------------------------
(* The inner loop *)

\* The inner loop on what there is.
Full(r) == FoldLeft(LAMBDA s, turn : Step(s), r, [turn \in 1 .. Len(r.buf) |-> turn])

Plus(r, a) == [buf |-> r.buf \o a, frames |-> r.frames]

\* Read is the inner loop after the chunk is appended.
LEMMA ReadIsFull ==
  ASSUME NEW r \in Readers, NEW a \in Seq(Nat)
  PROVE  Read(r, a) = Full(Plus(r, a)) /\ Plus(r, a) \in Readers
<1>1. [r EXCEPT !.buf = r.buf \o a] = Plus(r, a)
  <2> DEFINE b == r.buf
             c == r.buf \o a
             f == r.frames
  <2>1. r = [buf |-> b, frames |-> f]
    BY DEF Readers
  <2> HIDE DEF b, c, f
  <2>2. [r EXCEPT !.buf = c] = [buf |-> c, frames |-> f]
    BY <2>1
  <2> QED
    BY <2>2 DEF Plus, c, f
<1>2. Plus(r, a) \in Readers
  BY ConcatProperties DEF Readers, Plus
<1> QED
  BY <1>1, <1>2, Zenon DEF Read, Full

\* A reader with nothing in its buffer waits.
LEMMA Exhausted ==
  ASSUME NEW r, Len(r.buf) < 3
  PROVE  Step(r) = r
BY DEF Step

\* When the inner loop ends, the reader waits.
LEMMA FullRests ==
  ASSUME NEW r \in Readers
  PROVE  Full(r) \in Readers /\ Step(Full(r)) = Full(r)
<1> DEFINE n == Len(r.buf)
<1>0. n \in Nat
  BY LenProperties DEF Readers
<1>1. PICK t : /\ t[0] = r
               /\ \A k \in 0 .. n - 1 : t[k + 1] = Step(t[k])
               /\ Full(r) = t[n]
  BY <1>0, TurnsTrace, Zenon DEF Full
<1> HIDE DEF n
<1> DEFINE T == {k \in Nat : k <= n =>
                   /\ t[k] \in Readers
                   /\ Step(t[k]) = t[k] \/ Len(t[k].buf) <= n - k}
<1>2. 0 \in T
  BY <1>0, <1>1 DEF n
<1>3. ASSUME NEW k \in Nat, k \in T
      PROVE  k + 1 \in T
  <2> SUFFICES ASSUME k + 1 <= n
               PROVE  /\ t[k + 1] \in Readers
                      /\ Step(t[k + 1]) = t[k + 1] \/ Len(t[k + 1].buf) <= n - (k + 1)
    OBVIOUS
  <2>1. k \in 0 .. n - 1 /\ k <= n
    BY <1>0
  <2>2. t[k + 1] = Step(t[k]) /\ t[k] \in Readers /\ (Step(t[k]) = t[k] \/ Len(t[k].buf) <= n - k)
    BY <1>1, <1>3, <2>1
  <2>3. CASE Step(t[k]) = t[k]
    BY <2>2, <2>3
  <2>4. CASE Step(t[k]) # t[k]
    <3>1. t[k + 1] \in Readers /\ Len(t[k + 1].buf) < Len(t[k].buf)
      BY <2>2, <2>4, StepIs
    <3>2. Len(t[k + 1].buf) \in Nat /\ Len(t[k].buf) \in Nat
      BY <2>2, <3>1, LenProperties DEF Readers
    <3> QED
      BY <1>0, <2>2, <2>4, <3>1, <3>2
  <2> QED
    BY <2>3, <2>4
<1>4. n \in T
  <2> HIDE DEF T
  <2> QED
    BY <1>0, <1>2, <1>3, Induction
<1>5. t[n] \in Readers /\ (Step(t[n]) = t[n] \/ Len(t[n].buf) <= 0)
  BY <1>0, <1>4
<1>6. Len(t[n].buf) <= 0 => Step(t[n]) = t[n]
  <2>1. Len(t[n].buf) \in Nat
    BY <1>5, LenProperties DEF Readers
  <2>2. Len(t[n].buf) <= 0 => Len(t[n].buf) < 3
    BY <2>1
  <2> QED
    BY <2>2, Exhausted
<1> QED
  BY <1>1, <1>5, <1>6

\* A reader that waits goes on waiting.
LEMMA StaysPut ==
  ASSUME NEW t, NEW m \in Nat, NEW n \in Nat, m <= n, Step(t[m]) = t[m],
         \A k \in m .. n - 1 : t[k + 1] = Step(t[k])
  PROVE  t[n] = t[m]
<1> DEFINE T == {j \in Nat : m + j <= n => t[m + j] = t[m]}
<1>1. 0 \in T
  OBVIOUS
<1>2. ASSUME NEW j \in Nat, j \in T
      PROVE  j + 1 \in T
  <2> SUFFICES ASSUME m + (j + 1) <= n
               PROVE  t[m + (j + 1)] = t[m]
    OBVIOUS
  <2>1. m + j \in m .. n - 1 /\ m + (j + 1) = (m + j) + 1 /\ m + j <= n
    OBVIOUS
  <2>2. t[(m + j) + 1] = Step(t[m + j]) /\ t[m + j] = t[m]
    BY <1>2, <2>1
  <2> QED
    BY <2>1, <2>2, Zenon
<1>3. n - m \in T
  <2>1. n - m \in Nat
    OBVIOUS
  <2> HIDE DEF T
  <2> QED
    BY <1>1, <1>2, <2>1, Induction
<1>4. m + (n - m) = n
  OBVIOUS
<1> QED
  BY <1>3, <1>4

\* The inner loop may begin with its first turn already done.
LEMMA FullStep ==
  ASSUME NEW r \in Readers
  PROVE  Full(Step(r)) = Full(r) /\ (Step(r) = r => Full(r) = r)
<1> DEFINE n == Len(r.buf)
<1>0. n \in Nat
  BY LenProperties DEF Readers
<1>1. PICK t : /\ t[0] = r
               /\ \A k \in 0 .. n - 1 : t[k + 1] = Step(t[k])
               /\ Full(r) = t[n]
  BY <1>0, TurnsTrace, Zenon DEF Full
<1>2. Step(r) = r => Full(r) = r
  BY <1>0, <1>1, StaysPut
<1>3. CASE Step(r) # r
  <2> DEFINE m == Len(Step(r).buf)
  <2>0. m \in Nat /\ m + 1 <= n /\ Step(r) \in Readers
    <3>1. Step(r) \in Readers /\ Len(Step(r).buf) < Len(r.buf)
      BY <1>3, StepIs
    <3>2. m \in Nat
      BY <3>1, LenProperties DEF Readers
    <3> QED
      BY <1>0, <3>1, <3>2
  <2>1. PICK u : /\ u[0] = Step(r)
                 /\ \A k \in 0 .. m - 1 : u[k + 1] = Step(u[k])
                 /\ Full(Step(r)) = u[m]
    BY <2>0, TurnsTrace, Zenon DEF Full
  <2>2. Step(u[m]) = u[m]
    BY <2>0, <2>1, FullRests
  <2> HIDE DEF m, n
  <2> DEFINE T == {k \in Nat : k <= m => u[k] = t[k + 1]}
  <2>3. 0 \in T
    <3>1. 0 \in 0 .. n - 1 /\ 0 + 1 = 1
      BY <1>0, <2>0
    <3> QED
      BY <1>1, <2>1, <3>1
  <2>4. ASSUME NEW k \in Nat, k \in T
        PROVE  k + 1 \in T
    <3> SUFFICES ASSUME k + 1 <= m
                 PROVE  u[k + 1] = t[(k + 1) + 1]
      OBVIOUS
    <3>1. k \in 0 .. m - 1 /\ k + 1 \in 0 .. n - 1 /\ k <= m
      BY <1>0, <2>0
    <3> QED
      BY <1>1, <2>1, <2>4, <3>1
  <2>5. u[m] = t[m + 1]
    <3>1. m \in T
      <4> HIDE DEF T
      <4> QED
        BY <2>0, <2>3, <2>4, Induction
    <3> QED
      BY <2>0, <3>1
  <2>6. t[n] = t[m + 1]
    <3>1. m + 1 \in Nat /\ \A k \in m + 1 .. n - 1 : k \in 0 .. n - 1
      BY <1>0, <2>0
    <3> QED
      BY <1>0, <1>1, <2>0, <2>2, <2>5, <3>1, StaysPut
  <2> QED
    BY <1>1, <1>2, <1>3, <2>1, <2>5, <2>6
<1> QED
  BY <1>2, <1>3

-----------------------------------------------------------------------------
(* The buffer up to leading bytes that are no header *)

Norm(r) == [buf |-> Resync(r.buf), frames |-> r.frames]

\* What is behind n elements of s, or behind all of them and m elements of a.
LEMMA BehindConcat ==
  ASSUME NEW s \in Seq(Nat), NEW a \in Seq(Nat)
  PROVE  /\ \A n \in 0 .. Len(s) : Behind(s \o a, n) = Behind(s, n) \o a
         /\ \A m \in 0 .. Len(a) : Behind(s \o a, Len(s) + m) = Behind(a, m)
<1>0. /\ Len(s) \in Nat /\ Len(a) \in Nat
      /\ s \o a \in Seq(Nat) /\ Len(s \o a) = Len(s) + Len(a)
      /\ \A i \in 1 .. Len(s) + Len(a) : (s \o a)[i] = IF i <= Len(s) THEN s[i] ELSE a[i - Len(s)]
  BY LenProperties, ConcatProperties
<1>1. ASSUME NEW n \in 0 .. Len(s)
      PROVE  Behind(s \o a, n) = Behind(s, n) \o a
  <2>1. /\ Behind(s, n) \in Seq(Nat) /\ Len(Behind(s, n)) = Len(s) - n
        /\ \A i \in 1 .. Len(s) - n : Behind(s, n)[i] = s[n + i]
    BY BehindIs
  <2>2. n \in 0 .. Len(s \o a)
    BY <1>0
  <2>3. /\ Behind(s \o a, n) \in Seq(Nat) /\ Len(Behind(s \o a, n)) = Len(s \o a) - n
        /\ \A i \in 1 .. Len(s \o a) - n : Behind(s \o a, n)[i] = (s \o a)[n + i]
    BY <1>0, <2>2, BehindIs
  <2>4. /\ Behind(s, n) \o a \in Seq(Nat) /\ Len(Behind(s, n) \o a) = Len(s) - n + Len(a)
        /\ \A i \in 1 .. Len(s) - n + Len(a) :
             (Behind(s, n) \o a)[i] = IF i <= Len(s) - n THEN Behind(s, n)[i] ELSE a[i - (Len(s) - n)]
    <3> DEFINE b == Behind(s, n)
    <3>1. b \in Seq(Nat) /\ Len(b) = Len(s) - n
      BY <2>1
    <3> HIDE DEF b
    <3>2. /\ b \o a \in Seq(Nat) /\ Len(b \o a) = Len(b) + Len(a)
          /\ \A i \in 1 .. Len(b) + Len(a) : (b \o a)[i] = IF i <= Len(b) THEN b[i] ELSE a[i - Len(b)]
      BY <3>1, ConcatProperties
    <3>3. /\ b \o a \in Seq(Nat) /\ Len(b \o a) = Len(s) - n + Len(a)
          /\ \A i \in 1 .. Len(s) - n + Len(a) :
               (b \o a)[i] = IF i <= Len(s) - n THEN b[i] ELSE a[i - (Len(s) - n)]
      BY <3>1, <3>2, Zenon
    <3> QED
      BY <3>3 DEF b
  <2>5. ASSUME NEW i \in 1 .. Len(s) - n + Len(a)
        PROVE  Behind(s \o a, n)[i] = (Behind(s, n) \o a)[i]
    <3>1. /\ i \in 1 .. Len(s \o a) - n /\ n + i \in 1 .. Len(s) + Len(a)
          /\ i <= Len(s) - n <=> n + i <= Len(s)
          /\ n + i - Len(s) = i - (Len(s) - n)
          /\ i <= Len(s) - n => i \in 1 .. Len(s) - n
      BY <1>0
    <3>2. Behind(s \o a, n)[i] = IF n + i <= Len(s) THEN s[n + i] ELSE a[n + i - Len(s)]
      BY <1>0, <2>3, <3>1
    <3>3. CASE i <= Len(s) - n
      BY <2>1, <2>4, <3>1, <3>2, <3>3
    <3>4. CASE ~(i <= Len(s) - n)
      BY <2>4, <3>1, <3>2, <3>4
    <3> QED
      BY <3>3, <3>4
  <2>6. Len(Behind(s \o a, n)) = Len(Behind(s, n) \o a)
    <3>1. Len(s \o a) - n = Len(s) - n + Len(a)
      BY <1>0
    <3> QED
      BY <2>3, <2>4, <3>1
  <2>7. Len(Behind(s \o a, n)) = Len(s) - n + Len(a)
    BY <2>4, <2>6
  <2> QED
    BY <2>3, <2>4, <2>5, <2>6, <2>7, SeqEqual
<1>2. ASSUME NEW m \in 0 .. Len(a)
      PROVE  Behind(s \o a, Len(s) + m) = Behind(a, m)
  <2>1. /\ Behind(a, m) \in Seq(Nat) /\ Len(Behind(a, m)) = Len(a) - m
        /\ \A i \in 1 .. Len(a) - m : Behind(a, m)[i] = a[m + i]
    BY BehindIs
  <2>2. Len(s) + m \in 0 .. Len(s \o a)
    BY <1>0
  <2>3. /\ Behind(s \o a, Len(s) + m) \in Seq(Nat)
        /\ Len(Behind(s \o a, Len(s) + m)) = Len(s \o a) - (Len(s) + m)
        /\ \A i \in 1 .. Len(s \o a) - (Len(s) + m) :
             Behind(s \o a, Len(s) + m)[i] = (s \o a)[Len(s) + m + i]
    BY <1>0, <2>2, BehindIs
  <2>4. Len(s \o a) - (Len(s) + m) = Len(a) - m
    BY <1>0
  <2>5. ASSUME NEW i \in 1 .. Len(a) - m
        PROVE  Behind(s \o a, Len(s) + m)[i] = Behind(a, m)[i]
    <3>1. /\ Len(s) + m + i \in 1 .. Len(s) + Len(a) /\ ~(Len(s) + m + i <= Len(s))
          /\ Len(s) + m + i - Len(s) = m + i
      BY <1>0
    <3>2. (s \o a)[Len(s) + m + i] = a[m + i]
      BY <1>0, <3>1
    <3> QED
      BY <2>1, <2>3, <2>4, <3>2
  <2> QED
    BY <2>1, <2>3, <2>4, <2>5, SeqEqual
<1> QED
  BY <1>1, <1>2

\* Resync is known by the first header.
LEMMA ResyncAt ==
  ASSUME NEW s \in Seq(Nat)
  PROVE  /\ (\A i \in DOMAIN s : s[i] \notin Header) => Resync(s) = <<>>
         /\ \A i \in DOMAIN s :
              s[i] \in Header /\ (\A j \in 1 .. i - 1 : s[j] \notin Header) => Resync(s) = Behind(s, i - 1)
<1>0. DOMAIN s = 1 .. Len(s) /\ Len(s) \in Nat
  BY LenProperties
<1>1. CASE \A i \in DOMAIN s : s[i] \notin Header
  BY <1>1, ResyncIs
<1>2. ASSUME NEW i \in DOMAIN s, s[i] \in Header, \A j \in 1 .. i - 1 : s[j] \notin Header
      PROVE  Resync(s) = Behind(s, i - 1)
  <2>1. PICK k \in DOMAIN s :
          /\ s[k] \in Header /\ \A j \in 1 .. k - 1 : s[j] \notin Header
          /\ Resync(s) = Behind(s, k - 1)
    BY <1>2, ResyncIs
  <2>2. ~(k < i) /\ ~(i < k)
    <3>1. k < i => k \in 1 .. i - 1
      BY <1>0
    <3>2. i < k => i \in 1 .. k - 1
      BY <1>0
    <3> QED
      BY <1>2, <2>1, <3>1, <3>2
  <2>3. k = i
    BY <1>0, <2>2
  <2> QED
    BY <2>1, <2>3
<1> QED
  BY <1>1, <1>2

\* What arrives later does not matter to the bytes that are dropped.
LEMMA ResyncConcat ==
  ASSUME NEW s \in Seq(Nat), NEW a \in Seq(Nat)
  PROVE  Resync(Resync(s) \o a) = Resync(s \o a)
<1>0. /\ Len(s) \in Nat /\ Len(a) \in Nat
      /\ DOMAIN s = 1 .. Len(s) /\ DOMAIN a = 1 .. Len(a)
      /\ s \o a \in Seq(Nat) /\ DOMAIN (s \o a) = 1 .. Len(s) + Len(a)
      /\ \A i \in 1 .. Len(s) + Len(a) : (s \o a)[i] = IF i <= Len(s) THEN s[i] ELSE a[i - Len(s)]
  <2>1. /\ s \o a \in Seq(Nat) /\ Len(s \o a) = Len(s) + Len(a)
        /\ \A i \in 1 .. Len(s) + Len(a) : (s \o a)[i] = IF i <= Len(s) THEN s[i] ELSE a[i - Len(s)]
    BY ConcatProperties
  <2>2. DOMAIN (s \o a) = 1 .. Len(s \o a)
    BY <2>1, LenProperties
  <2> QED
    BY <2>1, <2>2, LenProperties
<1>1. CASE \A i \in DOMAIN s : s[i] \notin Header
  <2>1. Resync(s) \o a = a
    BY <1>1, ResyncAt, ConcatEmptySeq
  <2>2. CASE \A i \in DOMAIN a : a[i] \notin Header
    <3>1. ASSUME NEW i \in DOMAIN (s \o a)
          PROVE  (s \o a)[i] \notin Header
      <4>1. CASE i <= Len(s)
        BY <1>0, <1>1, <4>1
      <4>2. CASE ~(i <= Len(s))
        <5>1. i - Len(s) \in DOMAIN a
          BY <1>0, <4>2
        <5> QED
          BY <1>0, <2>2, <4>2, <5>1
      <4> QED
        BY <4>1, <4>2
    <3> QED
      BY <1>0, <2>1, <2>2, <3>1, ResyncAt
  <2>3. ASSUME NEW i \in DOMAIN a, a[i] \in Header, \A j \in 1 .. i - 1 : a[j] \notin Header
        PROVE  Resync(a) = Resync(s \o a)
    <3>1. Resync(a) = Behind(a, i - 1)
      BY <2>3, ResyncAt
    <3>2. Len(s) + i \in DOMAIN (s \o a) /\ (s \o a)[Len(s) + i] = a[i]
      <4>1. Len(s) + i \in 1 .. Len(s) + Len(a) /\ ~(Len(s) + i <= Len(s)) /\ Len(s) + i - Len(s) = i
        BY <1>0
      <4> QED
        BY <1>0, <4>1
    <3>3. ASSUME NEW j \in 1 .. Len(s) + i - 1
          PROVE  (s \o a)[j] \notin Header
      <4>1. j \in 1 .. Len(s) + Len(a)
        BY <1>0
      <4>2. CASE j <= Len(s)
        <5>1. j \in DOMAIN s /\ (s \o a)[j] = s[j]
          BY <1>0, <4>1, <4>2
        <5> QED
          BY <1>1, <5>1
      <4>3. CASE ~(j <= Len(s))
        <5>1. j - Len(s) \in 1 .. i - 1
          BY <1>0, <4>3
        <5> QED
          BY <1>0, <2>3, <4>1, <4>3, <5>1
      <4> QED
        BY <4>2, <4>3
    <3>4. Resync(s \o a) = Behind(s \o a, Len(s) + i - 1)
      <4> DEFINE k == Len(s) + i
      <4>1. k \in DOMAIN (s \o a) /\ (s \o a)[k] \in Header /\ \A j \in 1 .. k - 1 : (s \o a)[j] \notin Header
        BY <2>3, <3>2, <3>3
      <4> HIDE DEF k
      <4>2. Resync(s \o a) = Behind(s \o a, k - 1)
        BY <1>0, <4>1, ResyncAt
      <4> QED
        BY <4>2 DEF k
    <3>5. Len(s) + i - 1 = Len(s) + (i - 1) /\ i - 1 \in 0 .. Len(a)
      BY <1>0
    <3>6. \A m \in 0 .. Len(a) : Behind(s \o a, Len(s) + m) = Behind(a, m)
      BY BehindConcat
    <3> QED
      BY <3>1, <3>4, <3>5, <3>6
  <2> QED
    BY <2>1, <2>2, <2>3, ResyncIs
<1>2. ASSUME NEW i \in DOMAIN s, s[i] \in Header, \A j \in 1 .. i - 1 : s[j] \notin Header
      PROVE  Resync(Resync(s) \o a) = Resync(s \o a)
  <2>1. /\ Resync(s) = Behind(s, i - 1) /\ Resync(s) \in Seq(Nat)
        /\ Resync(s) = <<>> \/ Resync(s)[1] \in Header
    BY <1>2, ResyncAt, ResyncTypes
  <2>2. i - 1 \in 0 .. Len(s)
    BY <1>0
  <2>3. \A n \in 0 .. Len(s) :
          /\ Behind(s \o a, n) = Behind(s, n) \o a
          /\ Len(Behind(s, n)) = Len(s) - n
    BY BehindConcat, BehindIs
  <2>4. Behind(s \o a, i - 1) = Resync(s) \o a /\ Len(Resync(s)) = Len(s) - (i - 1)
    BY <2>1, <2>2, <2>3
  <2>5. Resync(s \o a) = Behind(s \o a, i - 1)
    <3>1. i \in DOMAIN (s \o a) /\ (s \o a)[i] = s[i] /\ \A j \in 1 .. i - 1 : (s \o a)[j] = s[j]
      BY <1>0
    <3> QED
      BY <1>0, <1>2, <3>1, ResyncAt
  <2>6. Resync(s) # <<>> /\ Len(Resync(s)) >= 1
    <3>1. Len(s) - (i - 1) >= 1 /\ Len(<<>>) = 0
      BY <1>0, EmptySeq
    <3> QED
      BY <2>4, <3>1
  <2>7. (Resync(s) \o a)[1] \in Header /\ Resync(s) \o a # <<>> /\ Resync(s) \o a \in Seq(Nat)
    <3>1. Len(Resync(s)) \in Nat
      BY <2>1, LenProperties
    <3>2. 1 \in 1 .. Len(Resync(s)) + Len(a) /\ 1 <= Len(Resync(s))
      BY <1>0, <2>6, <3>1
    <3>3. (Resync(s) \o a)[1] = Resync(s)[1]
      BY <2>1, <3>2, ConcatProperties
    <3>4. Resync(s) \o a \in Seq(Nat) /\ Resync(s) \o a # <<>>
      BY <2>1, <2>6, ConcatProperties, ConcatEqualIffEmpty
    <3> QED
      BY <2>1, <2>6, <3>3, <3>4
  <2>8. Resync(Resync(s) \o a) = Resync(s) \o a
    BY <2>7, ResyncTypes
  <2> QED
    BY <2>4, <2>5, <2>8
<1> QED
  BY <1>1, <1>2, ResyncIs

\* What the inner loop makes of a reader, up to such bytes.
Parsed(r) == Norm(Full(r))

\* Norm drops bytes, and only before a header.
LEMMA NormTypes ==
  ASSUME NEW r \in Readers
  PROVE  /\ Norm(r) \in Readers /\ Norm(Norm(r)) = Norm(r)
         /\ Len(Norm(r).buf) <= Len(r.buf)
         /\ Norm(r).frames = r.frames
         /\ r.buf # <<>> /\ r.buf[1] \notin Header => Len(Norm(r).buf) < Len(r.buf)
         /\ r.buf = <<>> \/ r.buf[1] \in Header => Norm(r) = r
<1> DEFINE buf == r.buf
<1>0. buf \in Seq(Nat) /\ r.frames \in Seq(Messages) /\ r = [buf |-> buf, frames |-> r.frames]
  BY DEF Readers
<1> HIDE DEF buf
<1>1. /\ Resync(buf) \in Seq(Nat)
      /\ Len(Resync(buf)) <= Len(buf)
      /\ Resync(buf) = <<>> \/ Resync(buf)[1] \in Header
      /\ buf = <<>> \/ buf[1] \in Header => Resync(buf) = buf
      /\ buf # <<>> /\ buf[1] \notin Header => Len(Resync(buf)) < Len(buf)
  BY <1>0, ResyncTypes
<1>2. Resync(Resync(buf)) = Resync(buf)
  BY <1>1, ResyncTypes
<1>3. Norm(r) = [buf |-> Resync(buf), frames |-> r.frames]
  BY DEF Norm, buf
<1>4. Norm(Norm(r)) = Norm(r)
  BY <1>2, <1>3 DEF Norm
<1>5. Norm(r) \in Readers
  BY <1>0, <1>1, <1>3 DEF Readers
<1>6. r.buf = <<>> \/ r.buf[1] \in Header => Norm(r) = r
  BY <1>0, <1>1, <1>3 DEF buf
<1> QED
  BY <1>1, <1>3, <1>4, <1>5, <1>6 DEF buf

\* A turn drops what is before the first header, or leaves it for later.
LEMMA ParsedNorm ==
  ASSUME NEW r \in Readers
  PROVE  Parsed(Norm(r)) = Parsed(r)
<1>0. /\ Norm(r) \in Readers /\ Norm(Norm(r)) = Norm(r)
      /\ Len(Norm(r).buf) <= Len(r.buf)
      /\ r.buf = <<>> \/ r.buf[1] \in Header => Norm(r) = r
  BY NormTypes
<1>a. Len(r.buf) \in Nat /\ Len(Norm(r).buf) \in Nat
  BY <1>0, LenProperties DEF Readers
<1>1. CASE r.buf = <<>> \/ r.buf[1] \in Header
  BY <1>0, <1>1
<1>2. CASE Len(r.buf) < 3
  <2>1. Step(r) = r /\ Step(Norm(r)) = Norm(r)
    BY <1>0, <1>a, <1>2, Exhausted
  <2>2. Full(r) = r /\ Full(Norm(r)) = Norm(r)
    BY <1>0, <2>1, FullStep
  <2> QED
    BY <1>0, <2>2 DEF Parsed
<1>3. CASE ~(Len(r.buf) < 3) /\ r.buf[1] \notin Header
  <2>1. Step(r) = Norm(r)
    <3> DEFINE b == r.buf
               f == r.frames
               c == Resync(r.buf)
    <3>1. r = [buf |-> b, frames |-> f]
      BY DEF Readers
    <3>2. Step(r) = [r EXCEPT !.buf = c]
      BY <1>3 DEF Step
    <3> HIDE DEF b, c, f
    <3>3. Step(r) = [buf |-> c, frames |-> f]
      BY <3>1, <3>2
    <3> QED
      BY <3>3 DEF Norm, c, f
  <2> QED
    BY <2>1, FullStep DEF Parsed
<1> QED
  BY <1>1, <1>2, <1>3

\* The same when more arrives behind such bytes.
LEMMA PlusNorm ==
  ASSUME NEW r \in Readers, NEW a \in Seq(Nat)
  PROVE  Parsed(Plus(Norm(r), a)) = Parsed(Plus(r, a))
<1>1. Norm(Plus(Norm(r), a)) = Norm(Plus(r, a))
  <2>1. Resync(Resync(r.buf) \o a) = Resync(r.buf \o a)
    BY ResyncConcat DEF Readers
  <2> QED
    BY <2>1 DEF Norm, Plus
<1>2. Norm(r) \in Readers /\ Plus(r, a) \in Readers /\ Plus(Norm(r), a) \in Readers
  BY NormTypes, ReadIsFull
<1>3. /\ Parsed(Norm(Plus(Norm(r), a))) = Parsed(Plus(Norm(r), a))
      /\ Parsed(Norm(Plus(r, a))) = Parsed(Plus(r, a))
  BY <1>2, ParsedNorm
<1> QED
  BY <1>1, <1>3

\* A turn that does something does the same when more has arrived.
LEMMA StepCommutes ==
  ASSUME NEW r \in Readers, NEW a \in Seq(Nat), r.buf[1] \in Header, Step(r) # r
  PROVE  Step(Plus(r, a)) = Plus(Step(r), a)
<1> DEFINE b == r.buf
           f == r.frames
           n == b[2] * 256 + b[3]
           c == b \o a
<1>0. b \in Seq(Nat) /\ Len(b) \in Nat /\ r = [buf |-> b, frames |-> f]
  BY LenProperties DEF Readers
<1>1. ~(Len(b) < 3)
  BY Exhausted
<1>2. n \in Nat
  <2>1. b[2] \in Nat /\ b[3] \in Nat
    BY <1>0, <1>1, LenProperties
  <2> QED
    BY <2>1
<1>3. /\ c \in Seq(Nat) /\ Len(c) = Len(b) + Len(a) /\ Len(a) \in Nat
      /\ \A i \in 1 .. Len(b) : c[i] = b[i]
  <2>1. /\ c \in Seq(Nat) /\ Len(c) = Len(b) + Len(a) /\ Len(a) \in Nat
        /\ \A i \in 1 .. Len(b) + Len(a) : c[i] = IF i <= Len(b) THEN b[i] ELSE a[i - Len(b)]
    BY <1>0, ConcatProperties, LenProperties
  <2>2. \A i \in 1 .. Len(b) : i \in 1 .. Len(b) + Len(a) /\ i <= Len(b)
    BY <1>0, <2>1
  <2> QED
    BY <2>1, <2>2
<1>4. c[1] = b[1] /\ c[2] = b[2] /\ c[3] = b[3] /\ ~(Len(c) < 3)
  <2>1. 1 \in 1 .. Len(b) /\ 2 \in 1 .. Len(b) /\ 3 \in 1 .. Len(b)
    BY <1>0, <1>1
  <2> QED
    BY <1>0, <1>1, <1>3, <2>1
<1>5. b[1] \in Header
  OBVIOUS
<1>6. Plus(r, a) = [buf |-> c, frames |-> f] /\ Plus(r, a).buf = c /\ Plus(r, a).frames = f
  BY DEF Plus
<1>7. CASE n > MaxPayload
  <2>1. Step(r) = [r EXCEPT !.buf = Behind(b, 1)]
    BY <1>1, <1>5, <1>7 DEF Step
  <2>2. Step(Plus(r, a)) = [Plus(r, a) EXCEPT !.buf = Behind(c, 1)]
    BY <1>4, <1>5, <1>6, <1>7 DEF Step
  <2>3. 1 \in 0 .. Len(b)
    BY <1>0, <1>1
  <2>4. Behind(c, 1) = Behind(b, 1) \o a
    BY <1>0, <2>3, BehindConcat
  <2> DEFINE d == Behind(b, 1)
             e == Behind(c, 1)
  <2> HIDE DEF b, c, d, e, f
  <2>5. Step(r) = [buf |-> d, frames |-> f]
    BY <1>0, <2>1 DEF d
  <2>6. Step(Plus(r, a)) = [buf |-> e, frames |-> f]
    BY <1>6, <2>2 DEF e
  <2>7. e = d \o a
    BY <2>4 DEF d, e
  <2> QED
    BY <2>5, <2>6, <2>7 DEF Plus
<1>8. CASE ~(n > MaxPayload)
  <2>1. ~(Len(b) < n + 3)
    BY <1>1, <1>5, <1>8 DEF Step
  <2>2. ~(Len(c) < n + 3)
    BY <1>0, <1>2, <1>3, <2>1
  <2>3. Step(r) = [buf    |-> Behind(b, n + 3),
                   frames |-> Append(f, [urc |-> b[1] = Urc, payload |-> SubSeq(b, 4, n + 3)])]
    BY <1>1, <1>5, <1>8, <2>1 DEF Step
  <2>4. Step(Plus(r, a)) = [buf    |-> Behind(c, n + 3),
                            frames |-> Append(f, [urc |-> b[1] = Urc, payload |-> SubSeq(c, 4, n + 3)])]
    <3> DEFINE q == Plus(r, a)
    <3>1. /\ n = q.buf[2] * 256 + q.buf[3] /\ ~(Len(q.buf) < 3)
          /\ q.buf[1] \in Header /\ ~(n > MaxPayload) /\ ~(Len(q.buf) < n + 3)
      BY <1>4, <1>5, <1>6, <1>8, <2>2
    <3> HIDE DEF q, n
    <3>2. Step(q) = [buf    |-> Behind(q.buf, n + 3),
                     frames |-> Append(q.frames, [urc     |-> q.buf[1] = Urc,
                                                  payload |-> SubSeq(q.buf, 4, n + 3)])]
      BY <3>1 DEF Step
    <3>3. q.buf = c /\ q.frames = f /\ c[1] = b[1]
      BY <1>4, <1>6 DEF q
    <3> QED
      BY <3>2, <3>3 DEF q
  <2>5. n + 3 \in 0 .. Len(b)
    BY <1>0, <1>2, <2>1
  <2>6. Behind(c, n + 3) = Behind(b, n + 3) \o a
    <3>1. \A m \in 0 .. Len(b) : Behind(c, m) = Behind(b, m) \o a
      BY <1>0, BehindConcat
    <3> QED
      BY <2>5, <3>1, Zenon
  <2>7. SubSeq(c, 4, n + 3) = SubSeq(b, 4, n + 3)
    <3> HIDE DEF n, b
    <3>1. CASE n = 0
      <4>1. 4 \in Int /\ 0 + 3 \in Int /\ 0 + 3 < 4
        OBVIOUS
      <4>2. SubSeq(c, 4, 0 + 3) = <<>> /\ SubSeq(b, 4, 0 + 3) = <<>>
        BY <4>1, SubSeqEmpty
      <4> QED
        BY <3>1, <4>2
    <3>2. CASE n # 0
      <4>1. 4 \in 1 .. Len(b) /\ n + 3 \in 1 .. Len(b)
        BY <1>0, <1>2, <2>5, <3>2
      <4> QED
        BY <1>0, <4>1, SubSeqOfConcat1
    <3> QED
      BY <3>1, <3>2
  <2> DEFINE d == Behind(b, n + 3)
             g == Append(f, [urc |-> b[1] = Urc, payload |-> SubSeq(b, 4, n + 3)])
  <2>8. Step(r) = [buf |-> d, frames |-> g]
    BY <2>3
  <2>9. Step(Plus(r, a)) = [buf |-> d \o a, frames |-> g]
    BY <2>4, <2>6, <2>7
  <2> HIDE DEF b, c, d, f, g, n
  <2> QED
    BY <2>8, <2>9 DEF Plus
<1> QED
  BY <1>7, <1>8

\* What arrives after the inner loop has run is parsed as if it had been there before.
LEMMA Continues ==
  ASSUME NEW r \in Readers, NEW a \in Seq(Nat)
  PROVE  Parsed(Plus(Parsed(r), a)) = Parsed(Plus(r, a))
<1> DEFINE Good(q) == Parsed(Plus(Parsed(q), a)) = Parsed(Plus(q, a))
           T == {n \in Nat : \E q \in Readers : Len(q.buf) = n /\ ~Good(q)}
<1>0. \A q \in Readers :
        /\ Full(q) \in Readers /\ Parsed(q) \in Readers /\ Norm(Parsed(q)) = Parsed(q)
        /\ Plus(q, a) \in Readers
        /\ Len(q.buf) \in Nat
  BY FullRests, NormTypes, ReadIsFull, LenProperties DEF Parsed, Readers
<1>p. \A q \in Readers : Parsed(Plus(Norm(q), a)) = Parsed(Plus(q, a))
  BY PlusNorm
<1>1. T = {}
  <2> SUFFICES ASSUME T # {}
               PROVE  FALSE
    OBVIOUS
  <2>1. PICK n \in T : \A m \in T : n <= m
    BY Least
  <2>2. PICK q \in Readers : Len(q.buf) = n /\ ~Good(q)
    BY <2>1
  <2>3. ASSUME NEW s \in Readers, Len(s.buf) < Len(q.buf)
        PROVE  Good(s)
    <3>1. Len(s.buf) \in Nat /\ Len(q.buf) \in Nat
      BY <1>0
    <3>2. ~(n <= Len(s.buf))
      BY <2>2, <2>3, <3>1
    <3>3. Len(s.buf) \notin T
      BY <2>1, <3>2
    <3> QED
      BY <3>1, <3>3
  <2> HIDE DEF T
  <2>4. CASE q.buf # <<>> /\ q.buf[1] \notin Header
    <3>1. Norm(q) \in Readers /\ Len(Norm(q).buf) < Len(q.buf)
      BY <2>4, NormTypes
    <3>2. Parsed(Plus(Parsed(Norm(q)), a)) = Parsed(Plus(Norm(q), a))
      BY <2>3, <3>1
    <3>3. Parsed(Norm(q)) = Parsed(q)
      BY ParsedNorm
    <3>4. Parsed(Plus(Norm(q), a)) = Parsed(Plus(q, a))
      BY <1>p
    <3> QED
      BY <2>2, <3>2, <3>3, <3>4
  <2>5. CASE Step(q) = q
    <3>1. Parsed(q) = Norm(q)
      BY <2>5, FullStep DEF Parsed
    <3> QED
      BY <1>p, <2>2, <3>1
  <2>6. CASE Step(q) # q /\ q.buf[1] \in Header
    <3>1. Step(q) \in Readers /\ Len(Step(q).buf) < Len(q.buf)
      BY <2>6, StepIs
    <3>2. Parsed(Plus(Parsed(Step(q)), a)) = Parsed(Plus(Step(q), a))
      BY <2>3, <3>1
    <3>3. Parsed(Step(q)) = Parsed(q)
      BY FullStep DEF Parsed
    <3>4. Parsed(Plus(Step(q), a)) = Parsed(Plus(q, a))
      <4>1. Step(Plus(q, a)) = Plus(Step(q), a)
        BY <2>6, StepCommutes
      <4> QED
        BY <1>0, <4>1, FullStep DEF Parsed
    <3> QED
      BY <2>2, <3>2, <3>3, <3>4
  <2>7. q.buf = <<>> => Step(q) = q
    <3>1. q.buf = <<>> => Len(q.buf) < 3
      BY EmptySeq
    <3> QED
      BY <3>1, Exhausted
  <2> QED
    BY <2>4, <2>5, <2>6, <2>7
<1> QED
  <2>1. Len(r.buf) \in Nat
    BY <1>0
  <2> QED
    BY <1>1, <2>1

-----------------------------------------------------------------------------
(* How a stream is cut *)

\* A reader that has been given these bytes, and has not looked at them.
From(bytes) == [buf |-> bytes, frames |-> <<>>]

\* A reader without bytes has nothing to do.
LEMMA NothingToParse ==
  ASSUME NEW f \in Seq(Messages)
  PROVE  Parsed([buf |-> <<>>, frames |-> f]) = [buf |-> <<>>, frames |-> f]
<1> DEFINE r == [buf |-> <<>>, frames |-> f]
<1>1. r \in Readers /\ r.buf = <<>> /\ Len(r.buf) < 3
  BY EmptySeq DEF Readers
<1> HIDE DEF r
<1>2. Full(r) = r
  BY <1>1, Exhausted, FullStep
<1>3. Norm(r) = r
  BY <1>1, NormTypes
<1> QED
  BY <1>2, <1>3 DEF Parsed, r

\* What comes out of a stream is what the inner loop makes of its bytes.
LEMMA Reassembled ==
  ASSUME NEW n \in Nat, NEW c, DOMAIN c = 1 .. n, \A k \in 1 .. n : c[k] \in Seq(Nat),
         NEW d, d[0] = <<>>, \A k \in 0 .. n - 1 : d[k + 1] = d[k] \o c[k + 1]
  PROVE  ReadAll(c) = Parsed(From(d[n])).frames
<1>1. PICK t : /\ t[0] = [buf |-> <<>>, frames |-> <<>>]
               /\ \A k \in 0 .. n - 1 : t[k + 1] = Read(t[k], c[k + 1])
               /\ ReadAll(c) = t[n].frames
  BY ChunksTrace
<1> DEFINE T == {k \in Nat : k <= n => /\ d[k] \in Seq(Nat) /\ t[k] \in Readers
                                       /\ Norm(t[k]) = Parsed(From(d[k]))}
<1>2. 0 \in T
  <2>1. <<>> \in Seq(Nat) /\ <<>> \in Seq(Messages)
    BY EmptySeq
  <2>2. t[0] \in Readers /\ t[0].buf = <<>>
    BY <1>1, <2>1 DEF Readers
  <2>3. Norm(t[0]) = t[0]
    BY <2>2, NormTypes
  <2>4. Parsed(From(d[0])) = t[0]
    BY <1>1, <2>1, NothingToParse DEF From
  <2> QED
    BY <2>1, <2>2, <2>3, <2>4
<1>3. ASSUME NEW k \in Nat, k \in T
      PROVE  k + 1 \in T
  <2> SUFFICES ASSUME k + 1 <= n
               PROVE  /\ d[k + 1] \in Seq(Nat) /\ t[k + 1] \in Readers
                      /\ Norm(t[k + 1]) = Parsed(From(d[k + 1]))
    OBVIOUS
  <2>1. k \in 0 .. n - 1 /\ k + 1 \in 1 .. n /\ k <= n
    OBVIOUS
  <2> DEFINE a == c[k + 1]
             q == t[k]
             s == d[k]
  <2>2. /\ a \in Seq(Nat) /\ s \in Seq(Nat) /\ q \in Readers /\ Norm(q) = Parsed(From(s))
        /\ t[k + 1] = Read(q, a) /\ d[k + 1] = s \o a
    BY <1>1, <1>3, <2>1
  <2> HIDE DEF a, q, s, T
  <2>3. s \o a \in Seq(Nat)
    BY <2>2, ConcatProperties
  <2>4. Read(q, a) = Full(Plus(q, a)) /\ Plus(q, a) \in Readers
    BY <2>2, ReadIsFull
  <2>5. Full(Plus(q, a)) \in Readers
    BY <2>4, FullRests
  <2>6. Parsed(Plus(q, a)) = Parsed(Plus(Norm(q), a))
    BY <2>2, PlusNorm
  <2>7. From(s) \in Readers
    <3>1. <<>> \in Seq(Messages)
      BY EmptySeq
    <3> QED
      BY <2>2, <3>1 DEF From, Readers
  <2>8. Parsed(Plus(Parsed(From(s)), a)) = Parsed(Plus(From(s), a))
    BY <2>2, <2>7, Continues
  <2>9. Plus(From(s), a) = From(s \o a)
    BY DEF Plus, From
  <2>10. Norm(t[k + 1]) = Parsed(From(d[k + 1]))
    <3>1. Norm(t[k + 1]) = Parsed(Plus(q, a))
      BY <2>2, <2>4 DEF Parsed
    <3> QED
      BY <2>2, <2>6, <2>8, <2>9, <3>1
  <2> QED
    BY <2>2, <2>3, <2>4, <2>5, <2>10
<1>4. n \in T
  <2> HIDE DEF T
  <2> QED
    BY <1>2, <1>3, Induction
<1>5. t[n] \in Readers /\ Norm(t[n]) = Parsed(From(d[n]))
  BY <1>4
<1>6. Norm(t[n]).frames = t[n].frames
  BY <1>5, NormTypes
<1> QED
  BY <1>1, <1>5, <1>6

\* The stream in one chunk.
LEMMA Whole ==
  ASSUME NEW bytes \in Seq(Nat)
  PROVE  ReadAll(<<bytes>>) = Parsed(From(bytes)).frames
<1> DEFINE c == <<bytes>>
           d == [k \in 0 .. 1 |-> IF k = 0 THEN <<>> ELSE bytes]
<1>1. DOMAIN c = 1 .. 1 /\ \A k \in 1 .. 1 : c[k] \in Seq(Nat)
  OBVIOUS
<1>2. d[0] = <<>> /\ d[1] = bytes
  OBVIOUS
<1>3. \A k \in 0 .. 1 - 1 : d[k + 1] = d[k] \o c[k + 1]
  <2> SUFFICES ASSUME NEW k \in 0 .. 1 - 1
               PROVE  d[k + 1] = d[k] \o c[k + 1]
    OBVIOUS
  <2>1. k = 0 /\ k + 1 = 1
    OBVIOUS
  <2>2. c[1] = bytes /\ <<>> \o bytes = bytes
    BY ConcatEmptySeq
  <2> HIDE DEF c, d
  <2> QED
    BY <1>2, <2>1, <2>2
<1> HIDE DEF c, d
<1>4. ReadAll(c) = Parsed(From(d[1])).frames
  BY <1>1, <1>2, <1>3, Reassembled
<1> QED
  BY <1>2, <1>4 DEF c

\* Whatever the modem sends and however TCP cuts it, a byte at a time or in two
\* at any place, the same frames come out (client.go:180).
THEOREM SameFramesHoweverCut ==
  ASSUME NEW bytes \in Seq(Nat)
  PROVE  SameFrames(bytes)
<1>0. /\ Len(bytes) \in Nat /\ DOMAIN bytes = 1 .. Len(bytes)
      /\ \A k \in 1 .. Len(bytes) : bytes[k] \in Nat
  BY LenProperties
<1>1. ASSUME NEW i \in 0 .. Len(bytes)
      PROVE  ReadAll(<<SubSeq(bytes, 1, i), Behind(bytes, i)>>) = ReadAll(<<bytes>>)
  <2> DEFINE s == SubSeq(bytes, 1, i)
             u == Behind(bytes, i)
             c == <<s, u>>
             d == [k \in 0 .. 2 |-> IF k = 0 THEN <<>> ELSE IF k = 1 THEN s ELSE bytes]
  <2>1. s \in Seq(Nat) /\ u \in Seq(Nat)
    <3>1. 1 \in Int /\ i \in Int /\ \A k \in 1 .. i : bytes[k] \in Nat
      BY <1>0
    <3> QED
      BY <3>1, SubSeqProperties, BehindIs
  <2>2. s \o u = bytes
    <3> DEFINE m == Len(bytes)
    <3>1. 1 \in 1 .. m + 1 /\ i \in 1 - 1 .. m /\ m \in i .. m
      BY <1>0
    <3>2. SubSeq(bytes, 1, i) \o SubSeq(bytes, i + 1, m) = SubSeq(bytes, 1, m)
      BY <3>1, ConcatAdjacentSubSeq
    <3>3. SubSeq(bytes, 1, m) = bytes
      BY SubSeqFull
    <3> QED
      BY <3>2, <3>3 DEF Behind
  <2> HIDE DEF s, u
  <2>3. DOMAIN c = 1 .. 2 /\ c[1] = s /\ c[2] = u /\ \A k \in 1 .. 2 : c[k] \in Seq(Nat)
    BY <2>1
  <2>4. d[0] = <<>> /\ d[1] = s /\ d[2] = bytes
    OBVIOUS
  <2> HIDE DEF c, d
  <2>5. \A k \in 0 .. 2 - 1 : d[k + 1] = d[k] \o c[k + 1]
    <3>1. <<>> \o s = s
      BY <2>1, ConcatEmptySeq
    <3> SUFFICES ASSUME NEW k \in 0 .. 2 - 1
                 PROVE  d[k + 1] = d[k] \o c[k + 1]
      OBVIOUS
    <3>2. (k = 0 /\ k + 1 = 1) \/ (k = 1 /\ k + 1 = 2)
      OBVIOUS
    <3> QED
      BY <2>2, <2>3, <2>4, <3>1, <3>2
  <2>6. ReadAll(c) = Parsed(From(d[2])).frames
    BY <2>3, <2>4, <2>5, Reassembled
  <2> QED
    BY <2>4, <2>6, Whole DEF c, s, u
<1>2. ReadAll([i \in DOMAIN bytes |-> <<bytes[i]>>]) = ReadAll(<<bytes>>)
  <2> DEFINE n == Len(bytes)
             c == [i \in DOMAIN bytes |-> <<bytes[i]>>]
             d == [k \in 0 .. n |-> SubSeq(bytes, 1, k)]
  <2>1. DOMAIN c = 1 .. n /\ \A k \in 1 .. n : c[k] = <<bytes[k]>> /\ c[k] \in Seq(Nat)
    BY <1>0
  <2>2. d[0] = <<>>
    <3>1. d[0] = SubSeq(bytes, 1, 0) /\ 1 \in Int /\ 0 \in Int /\ 0 < 1
      BY <1>0
    <3> QED
      BY <3>1, SubSeqEmpty
  <2>3. d[n] = bytes
    BY <1>0, SubSeqFull
  <2>4. ASSUME NEW k \in 0 .. n - 1
        PROVE  d[k + 1] = d[k] \o c[k + 1]
    <3>1. k + 1 \in 1 .. n /\ k \in 0 .. n /\ k + 1 \in 0 .. n /\ k + 1 - 1 = k
      BY <1>0
    <3>2. d[k + 1] = SubSeq(bytes, 1, k + 1) /\ d[k] = SubSeq(bytes, 1, k)
      BY <3>1
    <3>3. 1 \in 1 .. n /\ k + 1 \in 1 .. n
      BY <1>0, <3>1
    <3>4. SubSeq(bytes, 1, k + 1) = SubSeq(bytes, 1, k + 1 - 1) \o <<bytes[k + 1]>>
      BY <3>3, SubSeqRecursiveSecond
    <3> QED
      BY <2>1, <3>1, <3>2, <3>4
  <2> HIDE DEF c, d
  <2>5. ReadAll(c) = Parsed(From(d[n])).frames
    BY <1>0, <2>1, <2>2, <2>4, Reassembled
  <2> QED
    BY <2>3, <2>5, Whole DEF c
<1> QED
  BY <1>1, <1>2 DEF SameFrames

-----------------------------------------------------------------------------
(* Frames that come out whole *)

\* The inner loop takes a frame that is all there is.
LEMMA WholeFrame ==
  ASSUME NEW h \in Header, NEW p \in Seq(Nat), Len(p) <= MaxPayload, Len(p) \div 256 < 256,
         NEW f \in Seq(Messages)
  PROVE  /\ FramePayload(h, p) \in Seq(Nat)
         /\ Parsed([buf |-> FramePayload(h, p), frames |-> f])
              = [buf |-> <<>>, frames |-> Append(f, [urc |-> h = Urc, payload |-> p])]
<1> DEFINE n == Len(p)
           x == <<h, (n \div 256) % 256, n % 256>>
           b == x \o p
           r == [buf |-> b, frames |-> f]
           g == Append(f, [urc |-> h = Urc, payload |-> p])
<1>0. n \in Nat /\ n \div 256 < 256 /\ n <= MaxPayload /\ MaxPayload \in Nat
  BY LenProperties, FrameReaderAssumption
<1> HIDE DEF n
<1>1. /\ h \in Nat /\ (n \div 256) % 256 \in Nat /\ n % 256 \in Nat
      /\ ((n \div 256) % 256) * 256 + (n % 256) = n
  <2>1. n \div 256 \in Nat /\ n \div 256 < 256
    BY <1>0
  <2>2. (n \div 256) % 256 = n \div 256
    <3> DEFINE q == n \div 256
    <3>1. q \in Nat /\ q < 256
      BY <2>1
    <3> HIDE DEF q
    <3>2. q % 256 = q
      BY <3>1
    <3> QED
      BY <3>2 DEF q
  <2>3. (n \div 256) * 256 + (n % 256) = n /\ n % 256 \in Nat
    BY <1>0
  <2> QED
    BY <2>1, <2>2, <2>3 DEF Header, Urc
<1>2. FramePayload(h, p) = b
  BY DEF FramePayload, n
<1>3. x \in Seq(Nat) /\ Len(x) = 3 /\ x[1] = h /\ x[2] = (n \div 256) % 256 /\ x[3] = n % 256
  BY <1>1
<1> HIDE DEF x
<1>4. /\ b \in Seq(Nat) /\ Len(b) = 3 + n
      /\ \A i \in 1 .. 3 + n : b[i] = IF i <= 3 THEN x[i] ELSE p[i - 3]
  <2>1. x \in Seq(Nat) /\ Len(x) = 3
    BY <1>3
  <2>2. /\ b \in Seq(Nat) /\ Len(b) = Len(x) + Len(p)
        /\ \A i \in 1 .. Len(x) + Len(p) : b[i] = IF i <= Len(x) THEN x[i] ELSE p[i - Len(x)]
    BY <2>1, ConcatProperties
  <2>3. Len(p) = n
    BY DEF n
  <2> HIDE DEF b
  <2> QED
    BY <2>1, <2>2, <2>3
<1>5. b[1] = h /\ b[2] * 256 + b[3] = n
  <2>1. 1 \in 1 .. 3 + n /\ 2 \in 1 .. 3 + n /\ 3 \in 1 .. 3 + n
    BY <1>0
  <2>2. b[1] = x[1] /\ b[2] = x[2] /\ b[3] = x[3]
    BY <1>4, <2>1
  <2> QED
    BY <1>1, <1>3, <2>2
<1>6. SubSeq(b, 4, n + 3) = p
  <2>1. CASE n = 0
    <3>1. 4 \in Int /\ 0 + 3 \in Int /\ 0 + 3 < 4
      OBVIOUS
    <3>2. SubSeq(b, 4, 0 + 3) = <<>>
      BY <3>1, SubSeqEmpty
    <3>3. p = <<>>
      BY <2>1, EmptySeq DEF n
    <3> QED
      BY <2>1, <3>2, <3>3
  <2>2. CASE n # 0
    <3>1. 4 \in Len(x) + 1 .. Len(x) + n /\ n + 3 \in Len(x) + 1 .. Len(x) + n
      BY <1>0, <1>3, <2>2
    <3>2. SubSeq(b, 4, n + 3) = SubSeq(p, 4 - Len(x), (n + 3) - Len(x))
      <4> DEFINE i == 4
                 j == n + 3
      <4>1. i \in Len(x) + 1 .. Len(x) + Len(p) /\ j \in Len(x) + 1 .. Len(x) + Len(p)
        BY <3>1 DEF n
      <4> HIDE DEF i, j, b
      <4>2. SubSeq(x \o p, i, j) = SubSeq(p, i - Len(x), j - Len(x))
        BY <1>3, <4>1, SubSeqOfConcat2
      <4> QED
        BY <4>2 DEF b, i, j
    <3>3. 4 - Len(x) = 1 /\ (n + 3) - Len(x) = n
      BY <1>0, <1>3
    <3> QED
      BY <3>2, <3>3, SubSeqFull DEF n
  <2> QED
    BY <2>1, <2>2
<1>7. Behind(b, n + 3) = <<>>
  <2>1. n + 3 + 1 \in Int /\ Len(b) \in Int /\ Len(b) < n + 3 + 1
    BY <1>0, <1>4
  <2> QED
    BY <2>1, SubSeqEmpty DEF Behind
<1> HIDE DEF b
<1>8. Step(r) = [buf |-> <<>>, frames |-> g]
  <2>1. ~(Len(b) < 3) /\ b[1] \in Header /\ ~(n > MaxPayload) /\ ~(Len(b) < n + 3)
    BY <1>0, <1>4, <1>5
  <2>2. Step(r) = [buf    |-> Behind(b, n + 3),
                   frames |-> Append(f, [urc |-> b[1] = Urc, payload |-> SubSeq(b, 4, n + 3)])]
    <3>1. r.buf = b /\ r.frames = f
      OBVIOUS
    <3> HIDE DEF r
    <3>2. /\ n = r.buf[2] * 256 + r.buf[3] /\ ~(Len(r.buf) < 3)
          /\ r.buf[1] \in Header /\ ~(n > MaxPayload) /\ ~(Len(r.buf) < n + 3)
      BY <1>5, <2>1, <3>1
    <3>3. Step(r) = [buf    |-> Behind(r.buf, n + 3),
                     frames |-> Append(r.frames, [urc     |-> r.buf[1] = Urc,
                                                  payload |-> SubSeq(r.buf, 4, n + 3)])]
      BY <3>2 DEF Step
    <3> QED
      BY <3>1, <3>3
  <2>3. b[1] = Urc <=> h = Urc
    BY <1>5
  <2>4. (b[1] = Urc) = (h = Urc)
    BY <1>5
  <2> QED
    BY <1>6, <1>7, <2>2, <2>4
<1>9. g \in Seq(Messages)
  <2>1. [urc |-> h = Urc, payload |-> p] \in Messages
    BY DEF Messages
  <2> QED
    BY <2>1, AppendProperties
<1>10. r \in Readers
  BY <1>4 DEF Readers
<1>11. Parsed(r) = Parsed([buf |-> <<>>, frames |-> g])
  <2> HIDE DEF g, r
  <2> QED
    BY <1>8, <1>10, FullStep DEF Parsed
<1> HIDE DEF g
<1> QED
  BY <1>2, <1>4, <1>9, <1>11, NothingToParse DEF g

\* Bytes without a header leave nothing.
LEMMA NoiseIsDropped ==
  ASSUME NEW noise \in Seq(Nat), \A i \in DOMAIN noise : noise[i] \notin Header
  PROVE  Parsed(From(noise)) = From(<<>>)
<1>1. <<>> \in Seq(Messages)
  BY EmptySeq
<1>2. From(noise) \in Readers
  BY <1>1 DEF From, Readers
<1>3. Norm(From(noise)) = From(<<>>)
  BY ResyncAt DEF Norm, From
<1>4. Parsed(From(<<>>)) = From(<<>>)
  BY <1>1, NothingToParse DEF From
<1> QED
  BY <1>2, <1>3, <1>4, ParsedNorm

\* g is what FlattenSeq builds from the first n of the sequences s.
Flat(s, n, g) == g = [i \in 1 .. n |-> IF i = 1 THEN s[i] ELSE g[i - 1] \o s[i]]

\* There is such a function for every number of sequences.
LEMMA FlatExists ==
  ASSUME NEW s, NEW n \in Nat
  PROVE  \E g : Flat(s, n, g)
<1> DEFINE T == {m \in Nat : \E g : Flat(s, m, g)}
<1>1. 0 \in T
  <2> DEFINE g == [i \in 1 .. 0 |-> s[i]]
  <2>1. \A i \in 1 .. 0 : FALSE
    OBVIOUS
  <2>2. g = [i \in 1 .. 0 |-> IF i = 1 THEN s[i] ELSE g[i - 1] \o s[i]]
    BY <2>1, Zenon
  <2> HIDE DEF g
  <2>3. Flat(s, 0, g)
    BY <2>2, Zenon DEF Flat
  <2> QED
    BY <2>3
<1>2. ASSUME NEW m \in Nat, m \in T
      PROVE  m + 1 \in T
  <2>1. PICK g : Flat(s, m, g)
    BY <1>2
  <2>2. \A i \in 1 .. m : g[i] = IF i = 1 THEN s[i] ELSE g[i - 1] \o s[i]
    BY <2>1, Zenon DEF Flat
  <2> DEFINE last == IF m = 0 THEN s[1] ELSE g[m] \o s[m + 1]
             h == [i \in 1 .. m + 1 |-> IF i = m + 1 THEN last ELSE g[i]]
  <2>3. \A i \in 1 .. m : i \in 1 .. m + 1 /\ i # m + 1
    OBVIOUS
  <2>4. \A i \in 1 .. m : h[i] = g[i]
    BY <2>3, Zenon
  <2>5. m + 1 \in 1 .. m + 1
    OBVIOUS
  <2>6. h[m + 1] = last
    BY <2>5, Zenon
  <2>7. h = [i \in 1 .. m + 1 |-> h[i]]
    BY Zenon
  <2> HIDE DEF h, last
  <2>8. \A i \in 1 .. m + 1 : h[i] = IF i = 1 THEN s[i] ELSE h[i - 1] \o s[i]
    <3> SUFFICES ASSUME NEW i \in 1 .. m + 1
                 PROVE  h[i] = IF i = 1 THEN s[i] ELSE h[i - 1] \o s[i]
      OBVIOUS
    <3>1. CASE i = m + 1 /\ m = 0
      <4>1. i = 1
        BY <3>1
      <4>2. last = s[1]
        BY <3>1 DEF last
      <4> QED
        BY <2>6, <3>1, <4>1, <4>2
    <3>2. CASE i = m + 1 /\ m # 0
      <4>1. i # 1 /\ i - 1 = m /\ m \in 1 .. m
        BY <3>2
      <4>2. last = g[m] \o s[m + 1] /\ h[m] = g[m]
        BY <2>4, <3>2, <4>1 DEF last
      <4> QED
        BY <2>6, <3>2, <4>1, <4>2
    <3>3. CASE i # m + 1
      <4>1. i \in 1 .. m /\ (i # 1 => i - 1 \in 1 .. m)
        BY <3>3
      <4> QED
        BY <2>2, <2>4, <4>1
    <3> QED
      BY <3>1, <3>2, <3>3
  <2>9. Flat(s, m + 1, h)
    BY <2>7, <2>8, Zenon DEF Flat
  <2> QED
    BY <2>9
<1>3. Nat \subseteq T
  <2> HIDE DEF T
  <2> QED
    BY <1>1, <1>2, Induction
<1> QED
  BY <1>3

\* FlattenSeq as a trace.
LEMMA FlatTrace ==
  ASSUME NEW s, Len(s) \in Nat, Len(s) # 0
  PROVE  \E g : /\ g[1] = s[1]
                /\ \A i \in 1 .. Len(s) - 1 : g[i + 1] = g[i] \o s[i + 1]
                /\ FlattenSeq(s) = g[Len(s)]
<1> DEFINE g == CHOOSE f : Flat(s, Len(s), f)
<1>1. FlattenSeq(s) = g[Len(s)]
  BY Zenon DEF FlattenSeq, Flat
<1> HIDE DEF g
<1>2. Flat(s, Len(s), g)
  BY FlatExists, Zenon DEF g
<1>3. \A i \in 1 .. Len(s) : g[i] = IF i = 1 THEN s[i] ELSE g[i - 1] \o s[i]
  BY <1>2, Zenon DEF Flat
<1>4. 1 \in 1 .. Len(s)
  OBVIOUS
<1>5. g[1] = s[1]
  BY <1>3, <1>4
<1>6. ASSUME NEW i \in 1 .. Len(s) - 1
      PROVE  g[i + 1] = g[i] \o s[i + 1]
  <2>1. i + 1 \in 1 .. Len(s)
    OBVIOUS
  <2>2. g[i + 1] = IF i + 1 = 1 THEN s[i + 1] ELSE g[(i + 1) - 1] \o s[i + 1]
    BY <1>3, <2>1, Zenon
  <2>3. i + 1 # 1 /\ (i + 1) - 1 = i
    OBVIOUS
  <2> QED
    BY <2>2, <2>3
<1> QED
  BY <1>1, <1>5, <1>6, Zenon

\* However TCP cuts what the modem sends, and however corrupted it is, readerLoop
\* takes the frames it would take if all of it came at once (client.go:180).
THEOREM CutsDoNotMatter ==
  ASSUME NEW chunks \in Seq(Seq(Nat))
  PROVE  ReadAll(chunks) = ReadAll(<<FlattenSeq(chunks)>>)
<1> DEFINE n == Len(chunks)
<1>0. n \in Nat /\ DOMAIN chunks = 1 .. n /\ \A k \in 1 .. n : chunks[k] \in Seq(Nat)
  BY LenProperties, ElementOfSeq
<1>1. CASE n = 0
  <2>1. chunks = <<>> /\ <<>> \in Seq(Nat)
    BY <1>1, EmptySeq
  <2>2. FlattenSeq(chunks) = <<>>
    BY <1>1, <2>1, Zenon DEF FlattenSeq
  <2> DEFINE d == [k \in 0 .. 0 |-> <<>>]
  <2>3. d[0] = <<>>
    OBVIOUS
  <2>4. \A k \in 0 .. 0 - 1 : d[k + 1] = d[k] \o chunks[k + 1]
    OBVIOUS
  <2> HIDE DEF d
  <2>5. ReadAll(chunks) = Parsed(From(<<>>)).frames
    <3>1. DOMAIN chunks = 1 .. 0 /\ \A k \in 1 .. 0 : chunks[k] \in Seq(Nat)
      BY <1>0, <1>1
    <3>2. ReadAll(chunks) = Parsed(From(d[0])).frames
      BY <2>3, <2>4, <3>1, Reassembled
    <3> QED
      BY <2>3, <3>2
  <2> QED
    BY <2>1, <2>2, <2>5, Whole
<1>2. CASE n # 0
  <2>1. PICK g : /\ g[1] = chunks[1]
                 /\ \A i \in 1 .. n - 1 : g[i + 1] = g[i] \o chunks[i + 1]
                 /\ FlattenSeq(chunks) = g[n]
    BY <1>0, <1>2, FlatTrace
  <2> HIDE DEF n
  <2> DEFINE d == [k \in 0 .. n |-> IF k = 0 THEN <<>> ELSE g[k]]
  <2>2. d[0] = <<>> /\ \A k \in 1 .. n : d[k] = g[k]
    BY <1>0
  <2> HIDE DEF d
  <2>3. ASSUME NEW k \in 0 .. n - 1
        PROVE  d[k + 1] = d[k] \o chunks[k + 1]
    <3>1. k + 1 \in 1 .. n
      BY <1>0
    <3>2. CASE k = 0
      <4>1. <<>> \o chunks[1] = chunks[1]
        BY <1>0, <3>1, <3>2, ConcatEmptySeq
      <4>2. k + 1 = 1
        BY <3>2
      <4> QED
        BY <2>1, <2>2, <3>1, <3>2, <4>1, <4>2, Zenon
    <3>3. CASE k # 0
      <4>1. k \in 1 .. n - 1 /\ k \in 1 .. n
        BY <1>0, <3>3
      <4> QED
        BY <2>1, <2>2, <3>1, <4>1, Zenon
    <3> QED
      BY <3>2, <3>3
  <2>4. ReadAll(chunks) = Parsed(From(d[n])).frames
    BY <1>0, <2>2, <2>3, Reassembled
  <2> DEFINE T == {k \in Nat : k < n => g[k + 1] \in Seq(Nat)}
  <2>5. 0 \in T
    <3>1. 1 \in 1 .. n
      BY <1>0, <1>2
    <3>2. g[0 + 1] \in Seq(Nat)
      BY <1>0, <2>1, <3>1
    <3> QED
      BY <3>2
  <2>6. ASSUME NEW k \in Nat, k \in T
        PROVE  k + 1 \in T
    <3> SUFFICES ASSUME k + 1 < n
                 PROVE  g[(k + 1) + 1] \in Seq(Nat)
      OBVIOUS
    <3>1. k + 1 \in 1 .. n - 1 /\ (k + 1) + 1 \in 1 .. n /\ k < n
      BY <1>0
    <3>2. g[(k + 1) + 1] = g[k + 1] \o chunks[(k + 1) + 1]
      BY <2>1, <3>1, Zenon
    <3>3. g[k + 1] \in Seq(Nat) /\ chunks[(k + 1) + 1] \in Seq(Nat)
      BY <1>0, <2>6, <3>1
    <3> HIDE DEF T
    <3> QED
      BY <3>2, <3>3, ConcatProperties
  <2>7. g[n] \in Seq(Nat)
    <3>1. n - 1 \in Nat /\ n - 1 < n /\ (n - 1) + 1 = n
      BY <1>0, <1>2
    <3>2. n - 1 \in T
      <4> HIDE DEF T
      <4> QED
        BY <2>5, <2>6, <3>1, Induction
    <3> QED
      BY <3>1, <3>2
  <2>8. d[n] = g[n]
    <3>1. n \in 1 .. n
      BY <1>0, <1>2
    <3> QED
      BY <2>2, <3>1, Zenon
  <2>9. ReadAll(<<g[n]>>) = Parsed(From(g[n])).frames
    BY <2>7, Whole
  <2> QED
    BY <2>1, <2>4, <2>8, <2>9, Zenon
<1> QED
  BY <1>1, <1>2

\* A frame that follows what has been parsed is one frame more.
LEMMA OneFrameMore ==
  ASSUME NEW s \in Seq(Nat), NEW f \in Seq(Messages),
         Parsed(From(s)) = [buf |-> <<>>, frames |-> f],
         NEW h \in Header, NEW p \in Seq(Nat), Len(p) <= MaxPayload, Len(p) \div 256 < 256
  PROVE  /\ FramePayload(h, p) \in Seq(Nat)
         /\ Parsed(From(s \o FramePayload(h, p)))
              = [buf |-> <<>>, frames |-> Append(f, [urc |-> h = Urc, payload |-> p])]
<1> DEFINE a == FramePayload(h, p)
           g == Append(f, [urc |-> h = Urc, payload |-> p])
<1>1. a \in Seq(Nat) /\ Parsed([buf |-> a, frames |-> f]) = [buf |-> <<>>, frames |-> g]
  BY WholeFrame
<1> HIDE DEF a, g
<1>2. From(s) \in Readers
  <2>1. <<>> \in Seq(Messages)
    BY EmptySeq
  <2> QED
    BY <2>1 DEF From, Readers
<1>3. Plus(From(s), a) = From(s \o a)
  BY DEF Plus, From
<1>4. Plus(Parsed(From(s)), a) = [buf |-> a, frames |-> f]
  BY <1>1, ConcatEmptySeq DEF Plus
<1>5. Parsed(From(s \o a)) = [buf |-> <<>>, frames |-> g]
  BY <1>1, <1>2, <1>3, <1>4, Continues
<1> QED
  BY <1>1, <1>5 DEF a, g

\* A function that has its elements is a sequence.
LEMMA IsSequence ==
  ASSUME NEW S, NEW n \in Nat, NEW s, s = [i \in 1 .. n |-> s[i]], \A i \in 1 .. n : s[i] \in S
  PROVE  s \in Seq(S)
OBVIOUS

\* ConcatAssociative for sequences of bytes.
LEMMA Associative ==
  \A x, y, z \in Seq(Nat) : (x \o y) \o z = x \o (y \o z)
<1> SUFFICES ASSUME NEW x \in Seq(Nat), NEW y \in Seq(Nat), NEW z \in Seq(Nat)
             PROVE  (x \o y) \o z = x \o (y \o z)
  OBVIOUS
<1> QED
  BY ConcatAssociative

\* Bytes without a header.
Quiet(noise) == noise \in Seq(Nat) /\ \A i \in DOMAIN noise : noise[i] \notin Header

\* What the reader takes, and two bytes of length can say.
Fits(p) == p \in Seq(Nat) /\ Len(p) <= MaxPayload /\ Len(p) \div 256 < 256

FramesThatFit(frames) ==
  /\ frames \in Seq([header : Header, payload : Seq(Nat)])
  /\ \A i \in DOMAIN frames : Fits(frames[i].payload)

\* After bytes without a header every frame of the modem comes out whole and in
\* order, whatever its payload looks like, as long as the reader takes a payload
\* of its length and two bytes can say that length (client.go:180).
THEOREM FramesComeOutWhole ==
  ASSUME NEW noise, Quiet(noise), NEW frames, FramesThatFit(frames)
  PROVE  FramesArrive(noise, frames)
<1> DEFINE n == Len(frames)
           p == [i \in DOMAIN frames |-> FramePayload(frames[i].header, frames[i].payload)]
           e == [i \in DOMAIN frames |-> [urc |-> frames[i].header = Urc, payload |-> frames[i].payload]]
<1>0. n \in Nat /\ DOMAIN frames = 1 .. n /\ noise \in Seq(Nat)
  BY LenProperties DEF FramesThatFit, Quiet
<1> HIDE DEF n
<1>1. ASSUME NEW i \in 1 .. n
      PROVE  /\ frames[i].header \in Header /\ frames[i].payload \in Seq(Nat)
             /\ Fits(frames[i].payload)
             /\ p[i] = FramePayload(frames[i].header, frames[i].payload)
             /\ e[i] = [urc |-> frames[i].header = Urc, payload |-> frames[i].payload]
             /\ p[i] \in Seq(Nat) /\ e[i] \in Messages
  <2>1. frames[i] \in [header : Header, payload : Seq(Nat)]
    BY <1>0, LenProperties DEF n, FramesThatFit
  <2>2. frames[i].header \in Header /\ frames[i].payload \in Seq(Nat)
    BY <2>1
  <2>3. Fits(frames[i].payload)
    BY <1>0 DEF FramesThatFit
  <2>4. <<>> \in Seq(Messages)
    BY EmptySeq
  <2>5. FramePayload(frames[i].header, frames[i].payload) \in Seq(Nat)
    BY <2>2, <2>3, <2>4, WholeFrame DEF Fits
  <2>6. /\ p[i] = FramePayload(frames[i].header, frames[i].payload)
        /\ e[i] = [urc |-> frames[i].header = Urc, payload |-> frames[i].payload]
    BY <1>0, Zenon
  <2> HIDE DEF p, e
  <2>7. e[i] \in Messages
    <3> DEFINE m == [urc |-> frames[i].header = Urc, payload |-> frames[i].payload]
    <3>1. m \in Messages
      BY <2>2 DEF Messages
    <3> QED
      BY <2>6, <3>1
  <2> QED
    BY <2>2, <2>3, <2>5, <2>6, <2>7
<1>2. /\ p \in Seq(Seq(Nat)) /\ Len(p) = n
      /\ e \in Seq(Messages) /\ Len(e) = n
  <2>1. DOMAIN p = 1 .. n /\ DOMAIN e = 1 .. n /\ p = [i \in 1 .. n |-> p[i]] /\ e = [i \in 1 .. n |-> e[i]]
    BY <1>0, Zenon
  <2> HIDE DEF p, e
  <2>2. p \in Seq(Seq(Nat))
    <3>1. \A i \in 1 .. n : p[i] \in Seq(Nat)
      BY <1>1, Zenon
    <3> QED
      BY <1>0, <2>1, <3>1, IsSequence
  <2>3. e \in Seq(Messages)
    <3>1. \A i \in 1 .. n : e[i] \in Messages
      BY <1>1, Zenon
    <3> QED
      BY <1>0, <2>1, <3>1, IsSequence
  <2> QED
    BY <1>0, <2>1, <2>2, <2>3, LenProperties
<1>t. \A i \in 1 .. n : p[i] \in Seq(Nat) /\ e[i] \in Messages
  BY <1>1, Zenon
<1>3. FramesArrive(noise, frames) <=> ReadAll(<<noise \o FlattenSeq(p)>>) = e
  BY DEF FramesArrive
<1>4. Parsed(From(noise)) = [buf |-> <<>>, frames |-> <<>>] /\ <<>> \in Seq(Messages)
  BY NoiseIsDropped, EmptySeq DEF From, Quiet
<1> HIDE DEF p, e
<1>5. CASE n = 0
  <2>1. p = <<>> /\ e = <<>>
    BY <1>2, <1>5, EmptySeq
  <2>2. FlattenSeq(p) = <<>>
    BY <1>2, <1>5, <2>1, Zenon DEF FlattenSeq
  <2>3. noise \o FlattenSeq(p) = noise
    BY <2>2, ConcatEmptySeq
  <2>4. ReadAll(<<noise>>) = Parsed(From(noise)).frames
    BY <1>0, Whole
  <2>5. Parsed(From(noise)).frames = <<>>
    BY <1>4
  <2> QED
    BY <1>3, <2>1, <2>3, <2>4, <2>5, Zenon
<1>6. CASE n # 0
  <2>1. PICK g : /\ g[1] = p[1]
                 /\ \A i \in 1 .. n - 1 : g[i + 1] = g[i] \o p[i + 1]
                 /\ FlattenSeq(p) = g[n]
    <3>1. Len(p) \in Nat /\ Len(p) # 0
      BY <1>0, <1>2, <1>6
    <3>2. \E g : /\ g[1] = p[1]
                 /\ \A i \in 1 .. Len(p) - 1 : g[i + 1] = g[i] \o p[i + 1]
                 /\ FlattenSeq(p) = g[Len(p)]
      BY <3>1, FlatTrace, Zenon
    <3> QED
      BY <1>2, <3>2, Zenon
  <2> DEFINE T == {k \in Nat : k < n =>
                     /\ g[k + 1] \in Seq(Nat)
                     /\ Parsed(From(noise \o g[k + 1])) = [buf |-> <<>>, frames |-> SubSeq(e, 1, k + 1)]}
  <2>2. 0 \in T
    <3>1. 1 \in 1 .. n
      BY <1>0, <1>6
    <3>2. Parsed(From(noise \o p[1])) = [buf |-> <<>>, frames |-> Append(<<>>, e[1])]
      <4> DEFINE h == frames[1].header
                 q == frames[1].payload
      <4>1. h \in Header /\ Fits(q) /\ p[1] = FramePayload(h, q) /\ e[1] = [urc |-> h = Urc, payload |-> q]
        BY <1>1, <3>1, Zenon
      <4> HIDE DEF h, q
      <4> QED
        <5>1. q \in Seq(Nat) /\ Len(q) <= MaxPayload /\ Len(q) \div 256 < 256
          BY <4>1 DEF Fits
        <5>2. Parsed(From(noise \o FramePayload(h, q)))
                = [buf |-> <<>>, frames |-> Append(<<>>, [urc |-> h = Urc, payload |-> q])]
          BY <1>0, <1>4, <4>1, <5>1, OneFrameMore
        <5> QED
          BY <4>1, <5>2, Zenon
    <3>3. SubSeq(e, 1, 1) = Append(<<>>, e[1])
      <4>1. 1 \in 1 .. Len(e) /\ 1 \in 1 .. Len(e) /\ 1 - 1 = 0
        BY <1>2, <3>1
      <4>2. SubSeq(e, 1, 1) = SubSeq(e, 1, 0) \o <<e[1]>>
        BY <1>2, <4>1, SubSeqRecursiveSecond
      <4>3. 1 \in Int /\ 0 \in Int /\ 0 < 1
        OBVIOUS
      <4>4. SubSeq(e, 1, 0) = <<>>
        BY <4>3, SubSeqEmpty
      <4> QED
        BY <1>4, <1>t, <3>1, <4>2, <4>4, AppendIsConcat
    <3>4. 0 + 1 = 1 /\ g[1] \in Seq(Nat)
      BY <1>t, <2>1, <3>1
    <3> QED
      BY <2>1, <3>2, <3>3, <3>4
  <2>3. ASSUME NEW k \in Nat, k \in T
        PROVE  k + 1 \in T
    <3> SUFFICES ASSUME k + 1 < n
                 PROVE  /\ g[(k + 1) + 1] \in Seq(Nat)
                        /\ Parsed(From(noise \o g[(k + 1) + 1]))
                             = [buf |-> <<>>, frames |-> SubSeq(e, 1, (k + 1) + 1)]
      OBVIOUS
    <3>1. k < n /\ k + 1 \in 1 .. n - 1 /\ (k + 1) + 1 \in 1 .. n
      BY <1>0
    <3> DEFINE i == k + 1
               j == (k + 1) + 1
               f == SubSeq(e, 1, i)
    <3>2. /\ g[i] \in Seq(Nat) /\ Parsed(From(noise \o g[i])) = [buf |-> <<>>, frames |-> f]
          /\ g[j] = g[i] \o p[j] /\ j \in 1 .. n
      BY <2>1, <2>3, <3>1
    <3>3. f \in Seq(Messages) /\ SubSeq(e, 1, j) = f \o <<e[j]>>
      <4>1. i \in Nat /\ i <= n /\ j - 1 = i
        BY <1>0, <3>1
      <4> HIDE DEF i, j
      <4>2. \A m \in 1 .. i : e[m] \in Messages
        BY <1>0, <1>t, <4>1
      <4>3. 1 \in Int /\ i \in Int
        BY <4>1
      <4>4. f \in Seq(Messages)
        BY <4>2, <4>3, SubSeqProperties
      <4>5. 1 \in 1 .. Len(e) /\ j \in 1 .. Len(e)
        BY <1>2, <3>2, <4>1
      <4>6. SubSeq(e, 1, j) = SubSeq(e, 1, j - 1) \o <<e[j]>>
        BY <1>2, <4>5, SubSeqRecursiveSecond
      <4> QED
        BY <4>1, <4>4, <4>6
    <3> HIDE DEF f, i, j, T
    <3>4. e[j] \in Messages /\ p[j] \in Seq(Nat)
      BY <1>t, <3>2
    <3>5. SubSeq(e, 1, j) = Append(f, e[j])
      BY <3>3, <3>4, AppendIsConcat
    <3>6. noise \o g[i] \in Seq(Nat)
      BY <1>0, <3>2, ConcatProperties
    <3>7. Parsed(From((noise \o g[i]) \o p[j])) = [buf |-> <<>>, frames |-> Append(f, e[j])]
      <4>1. /\ frames[j].header \in Header /\ frames[j].payload \in Seq(Nat)
            /\ Fits(frames[j].payload)
            /\ p[j] = FramePayload(frames[j].header, frames[j].payload)
            /\ e[j] = [urc |-> frames[j].header = Urc, payload |-> frames[j].payload]
        BY <1>1, <3>2
      <4> DEFINE s == noise \o g[i]
                 h == frames[j].header
                 q == frames[j].payload
      <4>2. s \in Seq(Nat) /\ f \in Seq(Messages) /\ Parsed(From(s)) = [buf |-> <<>>, frames |-> f]
        BY <3>2, <3>3, <3>6, Zenon
      <4> HIDE DEF s, h, q
      <4>3. h \in Header /\ q \in Seq(Nat) /\ Len(q) <= MaxPayload /\ Len(q) \div 256 < 256
        BY <4>1 DEF h, q, Fits
      <4>4. Parsed(From(s \o FramePayload(h, q)))
              = [buf |-> <<>>, frames |-> Append(f, [urc |-> h = Urc, payload |-> q])]
        BY <4>2, <4>3, OneFrameMore
      <4>5. p[j] = FramePayload(h, q) /\ e[j] = [urc |-> h = Urc, payload |-> q]
        BY <4>1, Zenon DEF h, q
      <4>6. Parsed(From(s \o p[j])) = [buf |-> <<>>, frames |-> Append(f, e[j])]
        BY <4>4, <4>5, Zenon
      <4> QED
        BY <4>6 DEF s
    <3>8. (noise \o g[i]) \o p[j] = noise \o g[j]
      <4> DEFINE x == g[i]
                 y == p[j]
      <4>1. x \in Seq(Nat) /\ y \in Seq(Nat) /\ g[j] = x \o y
        BY <3>2, <3>4
      <4> HIDE DEF x, y
      <4>2. (noise \o x) \o y = noise \o (x \o y)
        BY <1>0, <4>1, Associative, Zenon
      <4> QED
        BY <4>1, <4>2 DEF x, y
    <3>9. g[j] \in Seq(Nat)
      BY <3>2, <3>4, ConcatProperties
    <3> QED
      BY <3>5, <3>7, <3>8, <3>9 DEF j
  <2>4. n - 1 \in T
    <3>1. n - 1 \in Nat
      BY <1>0, <1>6
    <3> HIDE DEF T
    <3> QED
      BY <2>2, <2>3, <3>1, Induction
  <2>5. n - 1 < n /\ (n - 1) + 1 = n
    BY <1>0
  <2>6. g[n] \in Seq(Nat) /\ Parsed(From(noise \o g[n])) = [buf |-> <<>>, frames |-> SubSeq(e, 1, n)]
    BY <2>4, <2>5
  <2>7. SubSeq(e, 1, n) = e
    BY <1>2, SubSeqFull
  <2>8. noise \o g[n] \in Seq(Nat)
    BY <1>0, <2>6, ConcatProperties
  <2>9. ReadAll(<<noise \o g[n]>>) = e
    <3> DEFINE s == noise \o g[n]
    <3>1. s \in Seq(Nat) /\ Parsed(From(s)) = [buf |-> <<>>, frames |-> e]
      BY <2>6, <2>7, <2>8
    <3> HIDE DEF s
    <3>2. ReadAll(<<s>>) = e
      BY <3>1, Whole
    <3> QED
      BY <3>2 DEF s
  <2> QED
    BY <1>3, <2>1, <2>9
<1> QED
  BY <1>5, <1>6

-----------------------------------------------------------------------------
(* The samples of Formats *)

\* The functions of UpTo are sequences.
LEMMA UpToIs ==
  ASSUME NEW S, NEW n \in Nat, NEW s \in UpTo(n, S)
  PROVE  s \in Seq(S)
<1>1. PICK k \in 0 .. n : s \in [1 .. k -> S]
  BY DEF UpTo
<1> QED
  BY <1>1

\* Every sample of the reader is read as ReaderIsRobust says: any stream, of any
\* bytes and cut anyhow, and any frames after noise (client.go:180); a payload of
\* two bytes, the longest of the samples, has to be one that the reader takes.
THEOREM ReaderRobustness ==
  ASSUME 2 <= MaxPayload
  PROVE  FormatsSpec => []ReaderIsRobust
<1>0. MaxPayload \in Nat /\ MaxStream \in Nat
  BY FrameReaderAssumption, FormatsAssumption
<1>1. ASSUME FormatsInit
      PROVE  ReaderIsRobust
  BY <1>1 DEF FormatsInit, None, ReaderIsRobust
<1>2. ASSUME ReaderIsRobust, [FormatsNext]_sample
      PROVE  ReaderIsRobust'
  <2>1. CASE LookAtStream
    <3>1. PICK s \in UpTo(MaxStream, Bytes) : sample' = [kind |-> "stream", bytes |-> s]
      BY <2>1 DEF LookAtStream
    <3>2. s \in Seq(Bytes)
      BY <1>0, UpToIs
    <3>3. Bytes \subseteq Nat
      BY DEF Bytes, Urc
    <3>4. s \in Seq(Nat)
      BY <3>2, <3>3, SeqMonotonic
    <3>5. SameFrames(s)
      BY <3>4, SameFramesHoweverCut
    <3>6. sample'.kind = "stream" /\ sample'.bytes = s
      BY <3>1
    <3> QED
      BY <3>5, <3>6 DEF ReaderIsRobust
  <2>2. CASE LookAtFrames
    <3>1. PICK noise \in Noises, s \in UpTo(2, [header : {164, Urc}, payload : Payloads]) :
            sample' = [kind |-> "frames", noise |-> noise, frames |-> s]
      BY <2>2 DEF LookAtFrames
    <3>2. Quiet(noise)
      <4>1. noise = <<>> \/ noise = <<1>> \/ noise = <<0, 1, 2>> \/ noise = <<0, 1, 2, 3>>
        BY DEF Noises
      <4>2. CASE noise = <<>>
        BY <4>2 DEF Quiet
      <4>3. CASE noise = <<1>>
        BY <4>3 DEF Quiet, Header, Urc
      <4>4. CASE noise = <<0, 1, 2>>
        BY <4>4 DEF Quiet, Header, Urc
      <4>5. CASE noise = <<0, 1, 2, 3>>
        BY <4>5 DEF Quiet, Header, Urc
      <4> QED
        BY <4>1, <4>2, <4>3, <4>4, <4>5
    <3>3. \A p \in Payloads : Fits(p)
      <4>1. ASSUME NEW p \in Payloads
            PROVE  p \in Seq(Nat) /\ Len(p) \in 0 .. 2
        <5>1. p = <<>> \/ p = <<65>> \/ p = <<164>> \/ p = <<Urc, 0>>
          BY DEF Payloads
        <5>2. CASE p = <<>>
          BY <5>2
        <5>3. CASE p = <<65>>
          BY <5>3
        <5>4. CASE p = <<164>>
          BY <5>4
        <5>5. CASE p = <<Urc, 0>>
          BY <5>5 DEF Urc
        <5> QED
          BY <5>1, <5>2, <5>3, <5>4, <5>5
      <4>2. \A m \in 0 .. 2 : m <= MaxPayload /\ m \div 256 < 256
        BY <1>0
      <4> QED
        BY <4>1, <4>2 DEF Fits
    <3>4. s \in Seq([header : {164, Urc}, payload : Payloads])
      BY UpToIs
    <3>5. FramesThatFit(s)
      <4> DEFINE S == [header : {164, Urc}, payload : Payloads]
                 R == [header : Header, payload : Seq(Nat)]
      <4>1. S \subseteq R /\ \A m \in S : m.payload \in Payloads
        BY <3>3 DEF Header, Fits
      <4>2. s \in Seq(S)
        BY <3>4
      <4> HIDE DEF S, R
      <4>3. s \in Seq(R)
        BY <4>1, <4>2, SeqMonotonic
      <4>4. \A i \in DOMAIN s : s[i] \in S
        BY <4>2
      <4>5. \A i \in DOMAIN s : Fits(s[i].payload)
        BY <3>3, <4>1, <4>4, Zenon
      <4> QED
        BY <4>3, <4>5 DEF FramesThatFit, R
    <3>6. FramesArrive(noise, s)
      BY <3>2, <3>5, FramesComeOutWhole
    <3>7. sample'.kind = "frames" /\ sample'.noise = noise /\ sample'.frames = s
      BY <3>1
    <3> QED
      BY <3>6, <3>7 DEF ReaderIsRobust
  <2>3. CASE LookAtFormat \/ LookAtText \/ LookAtNumber
    <3>1. sample'.kind \in {"format", "text", "number"}
      BY <2>3 DEF LookAtFormat, LookAtText, LookAtNumber
    <3> QED
      BY <3>1 DEF ReaderIsRobust
  <2>4. CASE UNCHANGED sample
    BY <1>2, <2>4 DEF ReaderIsRobust
  <2> QED
    BY <1>2, <2>1, <2>2, <2>3, <2>4 DEF FormatsNext
<1> QED
  BY <1>1, <1>2, PTL DEF FormatsSpec

-----------------------------------------------------------------------------
(* Descriptions: the loop over the characters *)

\* The fold over the characters c, as that over the chunks.
Characters(c, n, g) ==
  g = [s \in SUBSET (1 .. n) |-> IF s = {} THEN Beginning ELSE Character(g[s \ {Max(s)}], c[Max(s)])]

\* There is such a function.
LEMMA CharactersExist ==
  ASSUME NEW c, NEW n \in Nat
  PROVE  \E g : Characters(c, n, g)
<1> DEFINE T == {m \in Nat : \E g : Characters(c, m, g)}
<1>1. 0 \in T
  <2> DEFINE g == [s \in SUBSET (1 .. 0) |-> Beginning]
  <2>1. \A s \in SUBSET (1 .. 0) : s = {}
    OBVIOUS
  <2>2. g = [s \in SUBSET (1 .. 0) |-> IF s = {} THEN Beginning ELSE Character(g[s \ {Max(s)}], c[Max(s)])]
    BY <2>1, Zenon
  <2> HIDE DEF g
  <2>3. Characters(c, 0, g)
    BY <2>2, Zenon DEF Characters
  <2> QED
    BY <2>3
<1>2. ASSUME NEW m \in Nat, m \in T
      PROVE  m + 1 \in T
  <2>1. PICK g : Characters(c, m, g)
    BY <1>2
  <2> DEFINE h == [s \in SUBSET (1 .. m + 1) |->
                     IF m + 1 \in s THEN Character(g[s \ {m + 1}], c[m + 1]) ELSE g[s]]
  <2>2. \A s \in SUBSET (1 .. m) :
          g[s] = IF s = {} THEN Beginning ELSE Character(g[s \ {Max(s)}], c[Max(s)])
    BY <2>1, Zenon DEF Characters
  <2>3. \A s \in SUBSET (1 .. m + 1) :
          /\ s \ {m + 1} \in SUBSET (1 .. m)
          /\ m + 1 \notin s => s \in SUBSET (1 .. m)
    OBVIOUS
  <2>4. \A s \in SUBSET (1 .. m) : s \in SUBSET (1 .. m + 1) /\ m + 1 \notin s
    OBVIOUS
  <2>5. \A s \in SUBSET (1 .. m) : h[s] = g[s]
    BY <2>4, Zenon
  <2>6. \A s \in SUBSET (1 .. m + 1) :
          h[s] = IF s = {} THEN Beginning ELSE Character(h[s \ {Max(s)}], c[Max(s)])
    <3> SUFFICES ASSUME NEW s \in SUBSET (1 .. m + 1)
                 PROVE  h[s] = IF s = {} THEN Beginning ELSE Character(h[s \ {Max(s)}], c[Max(s)])
      OBVIOUS
    <3>1. CASE m + 1 \in s
      <4>1. Max(s) = m + 1 /\ s # {}
        BY <3>1, Greatest
      <4>2. h[s] = Character(g[s \ {m + 1}], c[m + 1])
        BY <3>1, Zenon
      <4>3. h[s \ {m + 1}] = g[s \ {m + 1}]
        BY <2>3, <2>5, Zenon
      <4> HIDE DEF h
      <4> QED
        BY <4>1, <4>2, <4>3, Zenon
    <3>2. CASE m + 1 \notin s
      <4>1. s \in SUBSET (1 .. m)
        BY <2>3, <3>2, Zenon
      <4>2. s \ {Max(s)} \in SUBSET (1 .. m)
        BY <4>1, Zenon
      <4> HIDE DEF h
      <4> QED
        BY <2>2, <2>5, <4>1, <4>2, Zenon
    <3> QED
      BY <3>1, <3>2
  <2>7. h = [s \in SUBSET (1 .. m + 1) |-> h[s]]
    BY Zenon
  <2> HIDE DEF h
  <2>8. Characters(c, m + 1, h)
    BY <2>6, <2>7, Zenon DEF Characters
  <2> QED
    BY <2>8
<1>3. Nat \subseteq T
  <2> HIDE DEF T
  <2> QED
    BY <1>1, <1>2, Induction
<1> QED
  BY <1>3

\* The loop as a trace of its states.
LEMMA CharactersTrace ==
  ASSUME NEW c, NEW n \in Nat, DOMAIN c = 1 .. n
  PROVE  \E t : /\ t[0] = Beginning
                /\ \A k \in 0 .. n - 1 : t[k + 1] = Character(t[k], c[k + 1])
                /\ Arguments(c) = IF t[n].arg = <<>> THEN t[n].args
                                  ELSE Append(t[n].args, Trim(t[n].arg))
<1> DEFINE g == CHOOSE f : Characters(c, n, f)
           t == [k \in 0 .. n |-> g[1 .. k]]
<1>1. Arguments(c) = IF g[1 .. n].arg = <<>> THEN g[1 .. n].args
                     ELSE Append(g[1 .. n].args, Trim(g[1 .. n].arg))
  <2>1. FoldLeft(Character, Beginning, c) = g[1 .. n]
    BY Zenon DEF FoldLeft, MapThenFoldSet, Characters
  <2> QED
    BY <2>1, Zenon DEF Arguments
<1>2. Characters(c, n, g)
  BY CharactersExist, Zenon
<1> HIDE DEF g
<1>3. \A s \in SUBSET (1 .. n) :
        g[s] = IF s = {} THEN Beginning ELSE Character(g[s \ {Max(s)}], c[Max(s)])
  BY <1>2, Zenon DEF Characters
<1>4. t[0] = Beginning
  <2>1. t[0] = g[1 .. 0] /\ 1 .. 0 = {}
    OBVIOUS
  <2>2. {} \in SUBSET (1 .. n)
    OBVIOUS
  <2> QED
    BY <1>3, <2>1, <2>2, Zenon
<1>5. ASSUME NEW k \in 0 .. n - 1
      PROVE  t[k + 1] = Character(t[k], c[k + 1])
  <2>1. t[k] = g[1 .. k] /\ t[k + 1] = g[1 .. k + 1]
    OBVIOUS
  <2>2. 1 .. k + 1 \in SUBSET (1 .. n) /\ 1 .. k + 1 # {} /\ (1 .. k + 1) \ {k + 1} = 1 .. k
    <3>1. k \in Nat /\ k + 1 <= n
      OBVIOUS
    <3>2. 1 .. k + 1 \in SUBSET (1 .. n)
      BY <3>1
    <3>3. k + 1 \in 1 .. k + 1
      BY <3>1
    <3>4. (1 .. k + 1) \ {k + 1} = 1 .. k
      BY <3>1
    <3> QED
      BY <3>2, <3>3, <3>4
  <2>3. Max(1 .. k + 1) = k + 1
    BY Greatest
  <2> HIDE DEF t
  <2> QED
    BY <1>3, <2>1, <2>2, <2>3, Zenon
<1>6. t[n] = g[1 .. n]
  OBVIOUS
<1> HIDE DEF t
<1>7. /\ t[0] = Beginning
      /\ \A k \in 0 .. n - 1 : t[k + 1] = Character(t[k], c[k + 1])
      /\ Arguments(c) = IF t[n].arg = <<>> THEN t[n].args ELSE Append(t[n].args, Trim(t[n].arg))
  BY <1>1, <1>4, <1>5, <1>6, Zenon
<1> QED
  BY <1>7

-----------------------------------------------------------------------------
(* Blanks *)

\* What strings.TrimSpace keeps, and the blanks around it.
Solid(s, i) == s[i] # " "
Blank(s) == \A i \in 1 .. Len(s) : ~Solid(s, i)

\* The first and the last character of s that is no blank.
Ends(s, a, b) ==
  /\ a \in 1 .. Len(s) /\ b \in 1 .. Len(s)
  /\ Solid(s, a) /\ Solid(s, b)
  /\ \A i \in 1 .. Len(s) : Solid(s, i) => a <= i /\ i <= b

\* Nothing is left of blanks.
LEMMA BlankIsTrimmed ==
  ASSUME NEW C, NEW s \in Seq(C), Blank(s)
  PROVE  Trim(s) = <<>>
<1>1. DOMAIN s = 1 .. Len(s)
  BY LenProperties
<1>2. {i \in DOMAIN s : s[i] # " "} = {}
  BY <1>1, Zenon DEF Blank, Solid
<1> QED
  BY <1>2, Zenon DEF Trim

\* Otherwise what is between the ends is left.
LEMMA TrimIs ==
  ASSUME NEW C, NEW s \in Seq(C), NEW a, NEW b, Ends(s, a, b)
  PROVE  Trim(s) = SubSeq(s, a, b)
<1> DEFINE solid == {i \in DOMAIN s : s[i] # " "}
<1>0. Len(s) \in Nat /\ DOMAIN s = 1 .. Len(s)
  BY LenProperties
<1>1. /\ a \in solid /\ b \in solid /\ solid \subseteq 1 .. Len(s)
      /\ \A i \in solid : a <= i /\ i <= b
  BY <1>0, Zenon DEF Ends, Solid
<1> HIDE DEF solid
<1>2. solid \subseteq Int
  BY <1>0, <1>1
<1>3. a = CHOOSE i \in solid : \A j \in solid : i <= j
  <2>1. \A i \in solid : (\A j \in solid : i <= j) => i = a
    BY <1>1, <1>2
  <2> QED
    BY <1>1, <2>1, Zenon
<1>4. b = CHOOSE i \in solid : \A j \in solid : i >= j
  <2>1. \A i \in solid : (\A j \in solid : i >= j) => i = b
    BY <1>1, <1>2
  <2>2. \A j \in solid : b >= j
    BY <1>1, <1>2
  <2> QED
    BY <1>1, <2>1, <2>2, Zenon
<1>5. Trim(s) = IF solid = {} THEN <<>>
                ELSE SubSeq(s, CHOOSE i \in solid : \A j \in solid : i <= j,
                               CHOOSE i \in solid : \A j \in solid : i >= j)
  BY Zenon DEF Trim, solid
<1>6. solid # {}
  BY <1>1
<1> QED
  BY <1>3, <1>4, <1>5, <1>6, Zenon

\* A set of positions has a last one.
LEMMA LastOfSome ==
  ASSUME NEW n \in Nat, NEW T \in SUBSET (0 .. n), T # {}
  PROVE  \E b \in T : \A i \in T : i <= b
<1> DEFINE back == {m \in 0 .. n : n - m \in T}
<1>1. back \subseteq Nat
  OBVIOUS
<1>2. \A i \in T : n - i \in back
  OBVIOUS
<1>3. PICK m \in back : \A k \in back : m <= k
  BY <1>1, <1>2, Least
<1>4. n - m \in T /\ m \in Nat
  OBVIOUS
<1> HIDE DEF back
<1>5. \A i \in T : i <= n - m
  BY <1>2, <1>3, <1>4
<1> QED
  BY <1>4, <1>5

\* A sequence is blank or has ends.
LEMMA BlankOrEnds ==
  ASSUME NEW C, NEW s \in Seq(C), ~Blank(s)
  PROVE  \E a, b : Ends(s, a, b)
<1> DEFINE n     == Len(s)
           solid == {i \in 1 .. n : Solid(s, i)}
<1>0. n \in Nat
  BY LenProperties
<1>1. solid \subseteq 1 .. n /\ solid # {} /\ \A i \in 1 .. n : Solid(s, i) => i \in solid
  BY Zenon DEF Blank
<1>2. \A i \in solid : Solid(s, i)
  OBVIOUS
<1> HIDE DEF solid
<1>3. PICK a \in solid : \A i \in solid : a <= i
  <2>1. solid \subseteq Nat
    BY <1>0, <1>1
  <2> QED
    BY <1>1, <2>1, Least
<1>4. PICK b \in solid : \A i \in solid : i <= b
  <2>1. solid \in SUBSET (0 .. n)
    BY <1>0, <1>1
  <2> QED
    BY <1>0, <1>1, <2>1, LastOfSome
<1>5. Ends(s, a, b)
  BY <1>1, <1>2, <1>3, <1>4, Zenon DEF Ends
<1> QED
  BY <1>5

\* What is left is of the same characters.
LEMMA TrimTypes ==
  ASSUME NEW C, NEW s \in Seq(C)
  PROVE  Trim(s) \in Seq(C)
<1>1. CASE Blank(s)
  <2>1. <<>> \in Seq(C)
    BY EmptySeq
  <2> QED
    BY <1>1, <2>1, BlankIsTrimmed, Zenon
<1>2. CASE ~Blank(s)
  <2>1. PICK a, b : Ends(s, a, b)
    BY <1>2, BlankOrEnds
  <2>2. a \in 1 .. Len(s) /\ b \in 1 .. Len(s) /\ Len(s) \in Nat
    BY <2>1, LenProperties, Zenon DEF Ends
  <2>3. a \in Int /\ b \in Int /\ \A i \in a .. b : s[i] \in C
    BY <2>2, ElementOfSeq
  <2>4. SubSeq(s, a, b) \in Seq(C)
    BY <2>3, SubSeqProperties
  <2> QED
    BY <2>1, <2>4, TrimIs, Zenon
<1> QED
  BY <1>1, <1>2

-----------------------------------------------------------------------------
(* What the loop counts *)

\* Outside quotes behind the first k characters, and the brackets there.
Quotes(s, k)    == {j \in 1 .. k : s[j] = Quote}
Plain(s, k)     == Cardinality(Quotes(s, k)) % 2 = 0
Marks(s, ch, k) == {j \in 1 .. k : s[j] = ch /\ Plain(s, j - 1)}
Tally(s, ch, k) == Cardinality(Marks(s, ch, k))

\* A set of positions and the next position.
LEMMA OneMore ==
  ASSUME NEW k \in Nat, NEW T \in SUBSET (1 .. k)
  PROVE  Cardinality(T) \in Nat /\ Cardinality(T \cup {k + 1}) = Cardinality(T) + 1
<1>1. IsFiniteSet(1 .. k)
  BY FS_Interval
<1>2. IsFiniteSet(T)
  BY <1>1, FS_Subset
<1>3. k + 1 \notin T
  OBVIOUS
<1> QED
  BY <1>2, <1>3, FS_AddElement, FS_CardinalityType, Zenon

\* The positions up to the next one.
LEMMA NextPosition ==
  ASSUME NEW k \in Nat
  PROVE  1 .. k + 1 = (1 .. k) \cup {k + 1}
OBVIOUS

\* A quote opens what was not quoted and closes what was.
LEMMA PlainFlips ==
  ASSUME NEW s, NEW k \in Nat
  PROVE  Plain(s, k + 1) <=> (IF s[k + 1] = Quote THEN ~Plain(s, k) ELSE Plain(s, k))
<1> DEFINE n == Cardinality(Quotes(s, k))
<1>1. Quotes(s, k) \in SUBSET (1 .. k)
  BY Zenon DEF Quotes
<1>2. n \in Nat /\ Cardinality(Quotes(s, k) \cup {k + 1}) = n + 1
  BY <1>1, OneMore, Zenon
<1>3. CASE s[k + 1] = Quote
  <2>1. Quotes(s, k + 1) = Quotes(s, k) \cup {k + 1}
    BY <1>3, NextPosition, Zenon DEF Quotes
  <2>2. Plain(s, k) <=> n % 2 = 0
    BY Zenon DEF Plain
  <2>3. Plain(s, k + 1) <=> (n + 1) % 2 = 0
    BY <1>2, <2>1, Zenon DEF Plain
  <2> HIDE DEF n
  <2>4. (n + 1) % 2 = 0 <=> ~(n % 2 = 0)
    BY <1>2
  <2> QED
    BY <1>3, <2>2, <2>3, <2>4, Zenon
<1>4. CASE s[k + 1] # Quote
  <2>1. Quotes(s, k + 1) = Quotes(s, k)
    BY <1>4, NextPosition, Zenon DEF Quotes
  <2> QED
    BY <1>4, <2>1, Zenon DEF Plain
<1> QED
  BY <1>3, <1>4, Zenon

\* A character outside quotes counts for its kind.
LEMMA TallyGrows ==
  ASSUME NEW s, NEW ch, NEW k \in Nat
  PROVE  /\ Tally(s, ch, k) \in Nat
         /\ Tally(s, ch, k + 1) = Tally(s, ch, k) + (IF s[k + 1] = ch /\ Plain(s, k) THEN 1 ELSE 0)
<1>1. Marks(s, ch, k) \in SUBSET (1 .. k)
  BY Zenon DEF Marks
<1>2. Tally(s, ch, k) \in Nat /\ Cardinality(Marks(s, ch, k) \cup {k + 1}) = Tally(s, ch, k) + 1
  BY <1>1, OneMore, Zenon DEF Tally
<1>3. (k + 1) - 1 = k
  OBVIOUS
<1>4. CASE s[k + 1] = ch /\ Plain(s, k)
  <2>1. Marks(s, ch, k + 1) = Marks(s, ch, k) \cup {k + 1}
    BY <1>3, <1>4, NextPosition, Zenon DEF Marks
  <2>2. Tally(s, ch, k + 1) = Tally(s, ch, k) + 1
    BY <1>2, <2>1, Zenon DEF Tally
  <2> QED
    BY <1>2, <1>4, <2>2, Zenon
<1>5. CASE ~(s[k + 1] = ch /\ Plain(s, k))
  <2>1. Marks(s, ch, k + 1) = Marks(s, ch, k)
    BY <1>3, <1>5, NextPosition, Zenon DEF Marks
  <2>2. Tally(s, ch, k + 1) = Tally(s, ch, k)
    BY <2>1, Zenon DEF Tally
  <2>3. Tally(s, ch, k) + 0 = Tally(s, ch, k)
    BY <1>2
  <2> QED
    BY <1>2, <1>5, <2>2, <2>3, Zenon
<1> QED
  BY <1>4, <1>5, Zenon

\* What separates two arguments, in these terms.
LEMMA SeparatesIs ==
  ASSUME NEW s, NEW k \in Nat
  PROVE  Separates(s, k + 1) <=>
           /\ s[k + 1] = "," /\ Plain(s, k)
           /\ Tally(s, "(", k) = Tally(s, ")", k) /\ Tally(s, "<", k) = Tally(s, ">", k)
<1>1. (k + 1) - 1 = k
  OBVIOUS
<1>2. \A ch : {j \in {j \in 1 .. k : s[j] = ch} : Cardinality({i \in 1 .. j - 1 : s[i] = Quote}) % 2 = 0}
              = Marks(s, ch, k)
  BY Zenon DEF Marks, Plain, Quotes
<1> QED
  BY <1>1, <1>2, Zenon DEF Separates, Tally, Plain, Quotes

-----------------------------------------------------------------------------
(* A turn of the loop *)

Splitters == [args : Seq(Seq(Chars)), arg : Seq(Chars), paren : Int, angle : Int, quoted : BOOLEAN]

\* The character ends an argument.
Splits(r, ch) == ch = "," /\ r.paren = 0 /\ r.angle = 0 /\ ~r.quoted

\* What the character does to a number of open brackets.
Count(r, ch, open, close) ==
  CASE ch = open /\ ~r.quoted -> 1 [] ch = close /\ ~r.quoted -> -1 [] OTHER -> 0

\* A turn that ends an argument.
LEMMA CharacterSplits ==
  ASSUME NEW r \in Splitters, NEW ch \in Chars, Splits(r, ch)
  PROVE  /\ Character(r, ch) \in Splitters
         /\ Character(r, ch).args = Append(r.args, Trim(r.arg))
         /\ Character(r, ch).arg = <<>>
         /\ Character(r, ch).paren = r.paren
         /\ Character(r, ch).angle = r.angle
         /\ Character(r, ch).quoted = r.quoted
<1>1. Character(r, ch) = [r EXCEPT !.args = Append(r.args, Trim(r.arg)), !.arg = <<>>]
  BY Zenon DEF Character, Splits
<1>2. Trim(r.arg) \in Seq(Chars)
  BY TrimTypes DEF Splitters
<1>3. Append(r.args, Trim(r.arg)) \in Seq(Seq(Chars))
  BY <1>2, AppendProperties DEF Splitters
<1>4. <<>> \in Seq(Chars)
  BY EmptySeq
<1> QED
  BY <1>1, <1>3, <1>4 DEF Splitters

\* A turn that does not.
LEMMA CharacterKeeps ==
  ASSUME NEW r \in Splitters, NEW ch \in Chars, ~Splits(r, ch)
  PROVE  /\ Character(r, ch) \in Splitters
         /\ Character(r, ch).args = r.args
         /\ Character(r, ch).arg = Append(r.arg, ch)
         /\ Character(r, ch).paren = r.paren + Count(r, ch, "(", ")")
         /\ Character(r, ch).angle = r.angle + Count(r, ch, "<", ">")
         /\ Character(r, ch).quoted = (r.quoted # (ch = Quote))
<1>1. Character(r, ch) =
        [args |-> r.args, arg |-> Append(r.arg, ch),
         paren |-> r.paren + Count(r, ch, "(", ")"), angle |-> r.angle + Count(r, ch, "<", ">"),
         quoted |-> (r.quoted # (ch = Quote))]
  BY Zenon DEF Character, Splits, Count
<1>2. Append(r.arg, ch) \in Seq(Chars)
  BY AppendProperties DEF Splitters
<1>3. Count(r, ch, "(", ")") \in Int /\ Count(r, ch, "<", ">") \in Int
  BY DEF Count
<1>4. /\ r.args \in Seq(Seq(Chars))
      /\ r.paren + Count(r, ch, "(", ")") \in Int /\ r.angle + Count(r, ch, "<", ">") \in Int
  BY <1>3 DEF Splitters
<1>5. (r.quoted # (ch = Quote)) \in BOOLEAN
  OBVIOUS
<1> QED
  <2> DEFINE paren  == r.paren + Count(r, ch, "(", ")")
             angle  == r.angle + Count(r, ch, "<", ">")
             quoted == (r.quoted # (ch = Quote))
             arg    == Append(r.arg, ch)
  <2>1. Character(r, ch) = [args |-> r.args, arg |-> arg, paren |-> paren, angle |-> angle, quoted |-> quoted]
    BY <1>1, Zenon
  <2>2. paren \in Int /\ angle \in Int /\ quoted \in BOOLEAN /\ arg \in Seq(Chars) /\ r.args \in Seq(Seq(Chars))
    BY <1>2, <1>4, <1>5, Zenon
  <2> HIDE DEF paren, angle, quoted, arg
  <2>3. /\ Character(r, ch) \in Splitters
        /\ Character(r, ch).args = r.args
        /\ Character(r, ch).arg = arg
        /\ Character(r, ch).paren = paren
        /\ Character(r, ch).angle = angle
        /\ Character(r, ch).quoted = quoted
    BY <2>1, <2>2 DEF Splitters
  <2> QED
    BY <2>3, Zenon DEF paren, angle, quoted, arg

\* The numbers of the loop are those of the characters it has seen.
Counts(s, k, r) ==
  /\ r.quoted = ~Plain(s, k)
  /\ r.paren = Tally(s, "(", k) - Tally(s, ")", k)
  /\ r.angle = Tally(s, "<", k) - Tally(s, ">", k)

\* So the loop ends an argument at the separators.
LEMMA SplitsAtSeparators ==
  ASSUME NEW s, NEW k \in Nat, NEW r, Counts(s, k, r)
  PROVE  Splits(r, s[k + 1]) <=> Separates(s, k + 1)
<1>1. \A ch : Tally(s, ch, k) \in Nat
  BY TallyGrows
<1>2. \A m, n \in Nat : m - n = 0 <=> m = n
  OBVIOUS
<1>3. r.paren = 0 <=> Tally(s, "(", k) = Tally(s, ")", k)
  BY <1>1, <1>2, Zenon DEF Counts
<1>4. r.angle = 0 <=> Tally(s, "<", k) = Tally(s, ">", k)
  BY <1>1, <1>2, Zenon DEF Counts
<1>5. r.quoted = ~Plain(s, k)
  BY Zenon DEF Counts
<1> QED
  BY <1>3, <1>4, <1>5, SeparatesIs, Zenon DEF Splits

\* A turn keeps the numbers right.
LEMMA CountsKept ==
  ASSUME NEW s, NEW k \in Nat, NEW r \in Splitters, s[k + 1] \in Chars, Counts(s, k, r)
  PROVE  Counts(s, k + 1, Character(r, s[k + 1]))
<1> DEFINE ch == s[k + 1]
           q == Character(r, ch)
<1>1. \A c : Tally(s, c, k) \in Nat
  BY TallyGrows
<1>2. \A c : Tally(s, c, k + 1) = Tally(s, c, k) + (IF ch = c /\ Plain(s, k) THEN 1 ELSE 0)
  BY TallyGrows, Zenon
<1>3. r.quoted = ~Plain(s, k) /\ r.quoted \in BOOLEAN
  BY Zenon DEF Counts, Splitters
<1>4. r.paren = Tally(s, "(", k) - Tally(s, ")", k) /\ r.angle = Tally(s, "<", k) - Tally(s, ">", k)
  BY Zenon DEF Counts
<1>5. Plain(s, k + 1) <=> (IF ch = Quote THEN ~Plain(s, k) ELSE Plain(s, k))
  BY PlainFlips, Zenon
<1>6. CASE Splits(r, ch)
  <2>1. ch = "," /\ q.paren = r.paren /\ q.angle = r.angle /\ q.quoted = r.quoted
    BY <1>6, CharacterSplits, Zenon DEF Splits
  <2>2. ch # "(" /\ ch # ")" /\ ch # "<" /\ ch # ">" /\ ch # Quote
    BY <2>1 DEF Quote
  <2> HIDE DEF ch, q
  <2>3. \A n \in Nat : n + 0 = n
    OBVIOUS
  <2>4. /\ Tally(s, "(", k + 1) = Tally(s, "(", k) /\ Tally(s, ")", k + 1) = Tally(s, ")", k)
        /\ Tally(s, "<", k + 1) = Tally(s, "<", k) /\ Tally(s, ">", k + 1) = Tally(s, ">", k)
    BY <1>1, <1>2, <2>2, <2>3, Zenon
  <2>5. Plain(s, k + 1) <=> Plain(s, k)
    BY <1>5, <2>2, Zenon
  <2>6. q.quoted = ~Plain(s, k + 1)
    BY <1>3, <2>1, <2>5, Zenon
  <2>7. Counts(s, k + 1, q)
    BY <1>4, <2>1, <2>4, <2>6, Zenon DEF Counts
  <2> QED
    BY <2>7 DEF q, ch
<1>7. CASE ~Splits(r, ch)
  <2>1. /\ q.paren = r.paren + Count(r, ch, "(", ")") /\ q.angle = r.angle + Count(r, ch, "<", ">")
        /\ q.quoted = (r.quoted # (ch = Quote))
    BY <1>7, CharacterKeeps, Zenon
  <2> HIDE DEF ch, q
  <2>2. ASSUME NEW open, NEW close, open # close
        PROVE  Count(r, ch, open, close) =
                 (IF ch = open /\ Plain(s, k) THEN 1 ELSE 0) - (IF ch = close /\ Plain(s, k) THEN 1 ELSE 0)
    <3>1. CASE ch = open /\ Plain(s, k)
      <4>1. Count(r, ch, open, close) = 1
        BY <1>3, <2>2, <3>1, Zenon DEF Count
      <4>2. ch # close /\ 1 = 1 - 0
        BY <2>2, <3>1
      <4> QED
        BY <3>1, <4>1, <4>2, Zenon
    <3>2. CASE ch = close /\ Plain(s, k)
      <4>1. Count(r, ch, open, close) = -1
        BY <1>3, <2>2, <3>2, Zenon DEF Count
      <4>2. ch # open /\ -1 = 0 - 1
        BY <2>2, <3>2
      <4> QED
        BY <3>2, <4>1, <4>2, Zenon
    <3>3. CASE ~(ch = open /\ Plain(s, k)) /\ ~(ch = close /\ Plain(s, k))
      <4>1. Count(r, ch, open, close) = 0
        BY <1>3, <3>3, Zenon DEF Count
      <4>2. 0 = 0 - 0
        OBVIOUS
      <4> QED
        BY <3>3, <4>1, <4>2, Zenon
    <3> QED
      BY <3>1, <3>2, <3>3
  <2>3. ASSUME NEW open, NEW close, open # close
        PROVE  (Tally(s, open, k) - Tally(s, close, k)) + Count(r, ch, open, close)
                 = Tally(s, open, k + 1) - Tally(s, close, k + 1)
    <3> DEFINE a == Tally(s, open, k)
               b == Tally(s, close, k)
               x == IF ch = open /\ Plain(s, k) THEN 1 ELSE 0
               y == IF ch = close /\ Plain(s, k) THEN 1 ELSE 0
    <3>1. a \in Nat /\ b \in Nat /\ x \in Int /\ y \in Int
      BY <1>1
    <3>2. Tally(s, open, k + 1) = a + x /\ Tally(s, close, k + 1) = b + y
      BY <1>2, Zenon
    <3>3. Count(r, ch, open, close) = x - y
      BY <2>2, <2>3, Zenon
    <3> HIDE DEF a, b, x, y
    <3>4. (a - b) + (x - y) = (a + x) - (b + y)
      BY <3>1
    <3>5. (a - b) + Count(r, ch, open, close) = Tally(s, open, k + 1) - Tally(s, close, k + 1)
      BY <3>2, <3>3, <3>4, Zenon
    <3> QED
      BY <3>5 DEF a, b
  <2>4. "(" # ")" /\ "<" # ">"
    OBVIOUS
  <2>5. /\ q.paren = Tally(s, "(", k + 1) - Tally(s, ")", k + 1)
        /\ q.angle = Tally(s, "<", k + 1) - Tally(s, ">", k + 1)
    BY <1>4, <2>1, <2>3, <2>4, Zenon
  <2>6. q.quoted = ~Plain(s, k + 1)
    <3>1. CASE ch = Quote
      <4>1. q.quoted = ~r.quoted
        BY <1>3, <2>1, <3>1, Zenon
      <4>2. Plain(s, k + 1) <=> ~Plain(s, k)
        BY <1>5, <3>1, Zenon
      <4> QED
        BY <1>3, <4>1, <4>2, Zenon
    <3>2. CASE ch # Quote
      <4>1. q.quoted = r.quoted
        BY <1>3, <2>1, <3>2, Zenon
      <4>2. Plain(s, k + 1) <=> Plain(s, k)
        BY <1>5, <3>2, Zenon
      <4> QED
        BY <1>3, <4>1, <4>2, Zenon
    <3> QED
      BY <3>1, <3>2
  <2>7. Counts(s, k + 1, q)
    BY <2>5, <2>6, Zenon DEF Counts
  <2> QED
    BY <2>7 DEF q, ch
<1> QED
  BY <1>6, <1>7

-----------------------------------------------------------------------------
(* Where the loop is *)

\* Members of a set of positions next to each other, and those below one.
Adjacent(S, i, j) == i < j /\ \A c \in S : c <= i \/ j <= c
Below(S, i) == {c \in S : c < i}

\* The places of the separators up to k, and the one before the first character.
Commas(s, k) == {0} \cup {i \in 1 .. k : Separates(s, i)}

\* They are finitely many positions.
LEMMA CommasAre ==
  ASSUME NEW s, NEW k \in Nat
  PROVE  /\ Commas(s, k) \subseteq 0 .. k
         /\ 0 \in Commas(s, k)
         /\ IsFiniteSet(Commas(s, k))
         /\ Cardinality(Commas(s, k)) \in Nat
<1>1. Commas(s, k) \subseteq 0 .. k
  <2>1. 0 \in 0 .. k /\ 1 .. k \subseteq 0 .. k
    OBVIOUS
  <2> QED
    BY <2>1, Zenon DEF Commas
<1>2. IsFiniteSet(0 .. k)
  BY FS_Interval
<1>3. IsFiniteSet(Commas(s, k))
  BY <1>1, <1>2, FS_Subset
<1> QED
  BY <1>1, <1>3, FS_CardinalityType, Zenon DEF Commas

\* The next position is one of them if it separates.
LEMMA CommasGrow ==
  ASSUME NEW s, NEW k \in Nat
  PROVE  /\ Separates(s, k + 1) => /\ Commas(s, k + 1) = Commas(s, k) \cup {k + 1}
                                   /\ Cardinality(Commas(s, k + 1)) = Cardinality(Commas(s, k)) + 1
         /\ ~Separates(s, k + 1) => Commas(s, k + 1) = Commas(s, k)
<1>1. ASSUME Separates(s, k + 1)
      PROVE  Commas(s, k + 1) = Commas(s, k) \cup {k + 1}
  BY <1>1, NextPosition, Zenon DEF Commas
<1>2. ASSUME ~Separates(s, k + 1)
      PROVE  Commas(s, k + 1) = Commas(s, k)
  BY <1>2, NextPosition, Zenon DEF Commas
<1>3. k + 1 \notin 0 .. k
  OBVIOUS
<1>4. k + 1 \notin Commas(s, k) /\ IsFiniteSet(Commas(s, k))
  BY <1>3, CommasAre, Zenon
<1>5. Cardinality(Commas(s, k) \cup {k + 1}) = Cardinality(Commas(s, k)) + 1
  BY <1>4, FS_AddElement, Zenon
<1> QED
  BY <1>1, <1>2, <1>5, Zenon

\* How many are below the last one, and below one before another.
LEMMA Ranks ==
  ASSUME NEW S \in SUBSET Nat, IsFiniteSet(S), NEW i \in S
  PROVE  /\ Cardinality(Below(S, i)) \in Nat
         /\ (\A c \in S : c <= i) => Cardinality(Below(S, i)) + 1 = Cardinality(S)
         /\ \A j \in S : i < j => Cardinality(Below(S, i)) + 2 <= Cardinality(S)
<1>1. Below(S, i) \in SUBSET S
  BY Zenon DEF Below
<1>2. IsFiniteSet(Below(S, i)) /\ Cardinality(Below(S, i)) \in Nat /\ Cardinality(S) \in Nat
  BY <1>1, FS_Subset, FS_CardinalityType, Zenon
<1>3. ASSUME \A c \in S : c <= i
      PROVE  Cardinality(Below(S, i)) + 1 = Cardinality(S)
  <2>1. \A c \in S : c < i <=> c # i
    BY <1>3
  <2>2. Below(S, i) = S \ {i}
    BY <2>1, Zenon DEF Below
  <2>3. Cardinality(S \ {i}) = Cardinality(S) - 1
    BY FS_RemoveElement, Zenon
  <2> QED
    BY <1>2, <2>2, <2>3
<1>4. ASSUME NEW j \in S, i < j
      PROVE  Cardinality(Below(S, i)) + 2 <= Cardinality(S)
  <2> DEFINE R == S \ {j}
             Q == R \ {i}
  <2>1. i # j /\ \A c \in S : c < i => c # i /\ c # j
    BY <1>4
  <2>2. Below(S, i) \in SUBSET Q
    BY <2>1, Zenon DEF Below
  <2>3. IsFiniteSet(R) /\ Cardinality(R) = Cardinality(S) - 1
    BY FS_RemoveElement, Zenon
  <2>4. i \in R
    BY <2>1, Zenon
  <2>5. IsFiniteSet(Q) /\ Cardinality(Q) = Cardinality(R) - 1
    BY <2>3, <2>4, FS_RemoveElement, Zenon
  <2>6. Cardinality(Below(S, i)) <= Cardinality(Q)
    BY <2>2, <2>5, FS_Subset, Zenon
  <2> HIDE DEF Q, R
  <2> QED
    BY <1>2, <2>3, <2>5, <2>6
<1> QED
  BY <1>2, <1>3, <1>4, Zenon

\* After k characters the loop has the arguments between the separators there, and
\* is in the one behind the last.
SoFar(s, k, r) ==
  /\ r \in Splitters
  /\ Counts(s, k, r)
  /\ Len(r.args) + 1 = Cardinality(Commas(s, k))
  /\ \E l \in Commas(s, k) : (\A c \in Commas(s, k) : c <= l) /\ r.arg = SubSeq(s, l + 1, k)
  /\ \A i, j \in Commas(s, k) :
       Adjacent(Commas(s, k), i, j) =>
         r.args[Cardinality(Below(Commas(s, k), i)) + 1] = Trim(SubSeq(s, i + 1, j - 1))

\* So it is before the first character.
LEMMA SoFarBegins ==
  ASSUME NEW s
  PROVE  SoFar(s, 0, Beginning)
<1>1. 1 .. 0 = {}
  OBVIOUS
<1>2. Quotes(s, 0) = {} /\ (\A ch : Marks(s, ch, 0) = {}) /\ Commas(s, 0) = {0}
  BY <1>1, Zenon DEF Quotes, Marks, Commas
<1>3. Cardinality({}) = 0 /\ Cardinality({0}) = 1
  BY FS_EmptySet, FS_Singleton
<1>4. 0 % 2 = 0 /\ 0 - 0 = 0
  OBVIOUS
<1>5. Plain(s, 0) /\ \A ch : Tally(s, ch, 0) = 0
  BY <1>2, <1>3, <1>4, Zenon DEF Plain, Tally
<1>6. Beginning.quoted = FALSE /\ Beginning.paren = 0 /\ Beginning.angle = 0 /\ Beginning.args = <<>>
      /\ Beginning.arg = <<>>
  BY DEF Beginning
<1>7. Counts(s, 0, Beginning)
  BY <1>4, <1>5, <1>6, Zenon DEF Counts
<1>8. Beginning \in Splitters
  BY DEF Beginning, Splitters
<1>9. Len(Beginning.args) + 1 = Cardinality(Commas(s, 0))
  <2>1. Len(<<>>) = 0 /\ 0 + 1 = 1
    OBVIOUS
  <2> QED
    BY <1>2, <1>3, <1>6, <2>1, Zenon
<1>10. SubSeq(s, 0 + 1, 0) = <<>>
  BY SubSeqEmpty
<1>11. \E l \in Commas(s, 0) : (\A c \in Commas(s, 0) : c <= l) /\ Beginning.arg = SubSeq(s, l + 1, 0)
  <2>1. 0 <= 0
    OBVIOUS
  <2> QED
    BY <1>2, <1>6, <1>10, <2>1, Zenon
<1>12. \A i, j \in Commas(s, 0) : ~Adjacent(Commas(s, 0), i, j)
  <2>1. ~(0 < 0)
    OBVIOUS
  <2> QED
    BY <1>2, <2>1, Zenon DEF Adjacent
<1> QED
  BY <1>7, <1>8, <1>9, <1>11, <1>12, Zenon DEF SoFar

\* A separator ends the argument.
LEMMA SoFarSplit ==
  ASSUME NEW s \in Seq(Chars), NEW k \in Nat, k + 1 \in 1 .. Len(s), NEW r, SoFar(s, k, r),
         Separates(s, k + 1)
  PROVE  SoFar(s, k + 1, Character(r, s[k + 1]))
<1> DEFINE q == Character(r, s[k + 1])
           C == Commas(s, k)
           D == Commas(s, k + 1)
<1>1. r \in Splitters /\ Counts(s, k, r) /\ s[k + 1] \in Chars
  BY ElementOfSeq, Zenon DEF SoFar
<1>2. Splits(r, s[k + 1])
  BY <1>1, SplitsAtSeparators, Zenon
<1>3. q \in Splitters /\ q.args = Append(r.args, Trim(r.arg)) /\ q.arg = <<>>
  BY <1>1, <1>2, CharacterSplits, Zenon
<1>4. Counts(s, k + 1, q)
  BY <1>1, CountsKept, Zenon
<1>5. D = C \cup {k + 1} /\ Cardinality(D) = Cardinality(C) + 1
  BY CommasGrow, Zenon
<1>6. C \subseteq 0 .. k /\ IsFiniteSet(C) /\ Cardinality(C) \in Nat
  BY CommasAre, Zenon
<1>7. Len(r.args) + 1 = Cardinality(C)
  BY Zenon DEF SoFar
<1>8. PICK l \in C : (\A c \in C : c <= l) /\ r.arg = SubSeq(s, l + 1, k)
  BY Zenon DEF SoFar
<1>9. \A i, j \in C : Adjacent(C, i, j) => r.args[Cardinality(Below(C, i)) + 1] = Trim(SubSeq(s, i + 1, j - 1))
  BY Zenon DEF SoFar
<1>10. /\ Len(q.args) = Len(r.args) + 1
       /\ \A m \in 1 .. Len(r.args) : q.args[m] = r.args[m]
       /\ q.args[Len(r.args) + 1] = Trim(r.arg)
       /\ Len(r.args) \in Nat
  <2>1. r.args \in Seq(Seq(Chars)) /\ Trim(r.arg) \in Seq(Chars)
    BY <1>1, TrimTypes DEF Splitters
  <2> DEFINE a == r.args
             x == Trim(r.arg)
  <2>2. a \in Seq(Seq(Chars)) /\ x \in Seq(Chars) /\ q.args = Append(a, x)
    BY <1>3, <2>1, Zenon
  <2> HIDE DEF a, x
  <2>3. /\ Len(Append(a, x)) = Len(a) + 1
        /\ \A m \in 1 .. Len(a) : Append(a, x)[m] = a[m]
        /\ Append(a, x)[Len(a) + 1] = x
        /\ Len(a) \in Nat
    BY <2>2, AppendProperties, LenProperties
  <2> QED
    BY <2>2, <2>3, Zenon DEF a, x
<1> HIDE DEF q, C, D
<1>11. Len(q.args) + 1 = Cardinality(D)
  BY <1>5, <1>6, <1>7, <1>10
<1>12. \E m \in D : (\A c \in D : c <= m) /\ q.arg = SubSeq(s, m + 1, k + 1)
  <2>1. SubSeq(s, (k + 1) + 1, k + 1) = <<>>
    BY SubSeqEmpty
  <2>2. k + 1 \in D /\ \A c \in D : c <= k + 1
    BY <1>5, <1>6
  <2> QED
    BY <1>3, <2>1, <2>2, Zenon
<1>13. C \in SUBSET Nat
  BY <1>6
<1>14. ASSUME NEW i \in C
       PROVE  Below(D, i) = Below(C, i)
  <2>1. ~(k + 1 < i)
    BY <1>6
  <2> QED
    BY <1>5, <2>1, Zenon DEF Below
<1>15. ASSUME NEW i \in D, NEW j \in D, Adjacent(D, i, j)
       PROVE  q.args[Cardinality(Below(D, i)) + 1] = Trim(SubSeq(s, i + 1, j - 1))
  <2>1. i < j /\ \A c \in D : c <= i \/ j <= c
    BY <1>15, Zenon DEF Adjacent
  <2>2. i \in C
    BY <1>5, <1>6, <2>1
  <2>3. CASE j \in C
    <3>1. Adjacent(C, i, j)
      BY <1>5, <2>1, Zenon DEF Adjacent
    <3>2. Cardinality(Below(C, i)) + 2 <= Cardinality(C) /\ Cardinality(Below(C, i)) \in Nat
      BY <1>6, <1>13, <2>1, <2>2, <2>3, Ranks, Zenon
    <3>3. Cardinality(Below(C, i)) + 1 \in 1 .. Len(r.args)
      BY <1>6, <1>7, <1>10, <3>2
    <3> QED
      BY <1>9, <1>10, <1>14, <2>2, <2>3, <3>1, <3>3, Zenon
  <2>4. CASE j = k + 1
    <3>1. i = l /\ j - 1 = k
      BY <1>5, <1>6, <1>8, <2>1, <2>2, <2>4
    <3>2. Cardinality(Below(C, i)) + 1 = Cardinality(C)
      BY <1>6, <1>8, <1>13, <3>1, Ranks, Zenon
    <3>3. Cardinality(Below(D, i)) + 1 = Len(r.args) + 1
      BY <1>7, <1>14, <2>2, <3>2, Zenon
    <3> QED
      BY <1>8, <1>10, <3>1, <3>3, Zenon
  <2> QED
    BY <1>5, <2>3, <2>4, Zenon
<1>16. SoFar(s, k + 1, q)
  BY <1>3, <1>4, <1>11, <1>12, <1>15, Zenon DEF SoFar, D
<1> QED
  BY <1>16 DEF q

\* Any other character belongs to it.
LEMMA SoFarKeep ==
  ASSUME NEW s \in Seq(Chars), NEW k \in Nat, k + 1 \in 1 .. Len(s), NEW r, SoFar(s, k, r),
         ~Separates(s, k + 1)
  PROVE  SoFar(s, k + 1, Character(r, s[k + 1]))
<1> DEFINE q == Character(r, s[k + 1])
           C == Commas(s, k)
<1>1. r \in Splitters /\ Counts(s, k, r) /\ s[k + 1] \in Chars
  BY ElementOfSeq, Zenon DEF SoFar
<1>2. ~Splits(r, s[k + 1])
  BY <1>1, SplitsAtSeparators, Zenon
<1>3. q \in Splitters /\ q.args = r.args /\ q.arg = Append(r.arg, s[k + 1])
  BY <1>1, <1>2, CharacterKeeps, Zenon
<1>4. Counts(s, k + 1, q)
  BY <1>1, CountsKept, Zenon
<1>5. Commas(s, k + 1) = C
  BY CommasGrow, Zenon
<1>6. C \subseteq 0 .. k
  BY CommasAre, Zenon
<1>7. PICK l \in C : (\A c \in C : c <= l) /\ r.arg = SubSeq(s, l + 1, k)
  BY Zenon DEF SoFar
<1>8. q.arg = SubSeq(s, l + 1, k + 1)
  <2>1. l + 1 \in 1 .. Len(s) /\ k + 1 \in l + 1 .. Len(s) /\ (k + 1) - 1 = k
    BY <1>6, LenProperties
  <2>2. SubSeq(s, l + 1, k + 1) = SubSeq(s, l + 1, k) \o <<s[k + 1]>>
    BY <2>1, SubSeqRecursiveSecond
  <2>3. r.arg \in Seq(Chars)
    BY <1>1 DEF Splitters
  <2> QED
    BY <1>1, <1>3, <1>7, <2>2, <2>3, AppendIsConcat, Zenon
<1>9. SoFar(s, k + 1, q)
  BY <1>3, <1>4, <1>5, <1>7, <1>8, Zenon DEF SoFar
<1> QED
  BY <1>9 DEF q

\* So it is after the last character.
LEMMA SoFarEnds ==
  ASSUME NEW s \in Seq(Chars)
  PROVE  \E r : /\ SoFar(s, Len(s), r)
                /\ Arguments(s) = IF r.arg = <<>> THEN r.args ELSE Append(r.args, Trim(r.arg))
<1> DEFINE n == Len(s)
<1>1. n \in Nat /\ DOMAIN s = 1 .. n
  BY LenProperties
<1>2. PICK t : /\ t[0] = Beginning
               /\ \A k \in 0 .. n - 1 : t[k + 1] = Character(t[k], s[k + 1])
               /\ Arguments(s) = IF t[n].arg = <<>> THEN t[n].args ELSE Append(t[n].args, Trim(t[n].arg))
  BY <1>1, CharactersTrace, Zenon
<1> DEFINE T == {k \in Nat : k <= n => SoFar(s, k, t[k])}
<1>3. 0 \in T
  BY <1>2, SoFarBegins
<1>4. ASSUME NEW k \in Nat, k \in T
      PROVE  k + 1 \in T
  <2> SUFFICES ASSUME k + 1 <= n
               PROVE  SoFar(s, k + 1, t[k + 1])
    OBVIOUS
  <2>1. k <= n /\ k \in 0 .. n - 1 /\ k + 1 \in 1 .. n
    BY <1>1
  <2>2. SoFar(s, k, t[k])
    BY <1>4, <2>1
  <2>3. t[k + 1] = Character(t[k], s[k + 1])
    BY <1>2, <2>1
  <2> HIDE DEF T
  <2>4. SoFar(s, k + 1, Character(t[k], s[k + 1]))
    BY <2>1, <2>2, SoFarSplit, SoFarKeep, Zenon
  <2> QED
    BY <2>3, <2>4, Zenon
<1>5. Nat \subseteq T
  <2> HIDE DEF T
  <2> QED
    BY <1>3, <1>4, Induction
<1>6. SoFar(s, n, t[n])
  BY <1>1, <1>5
<1> QED
  BY <1>2, <1>6, Zenon

-----------------------------------------------------------------------------
(* The arguments of a description *)

Following(S, i) == CHOOSE j \in S : j > i /\ \A k \in S : k > i => j <= k

\* The next member of a set of positions.
LEMMA FollowingIs ==
  ASSUME NEW S \in SUBSET Nat, NEW i \in S, NEW n \in S, i < n
  PROVE  /\ Following(S, i) \in S /\ Adjacent(S, i, Following(S, i))
         /\ \A j \in S : Adjacent(S, i, j) => Following(S, i) = j
<1> DEFINE T == {j \in S : j > i}
<1>1. T \subseteq Nat /\ T # {}
  OBVIOUS
<1>2. PICK j \in T : \A k \in T : j <= k
  BY <1>1, Least
<1>3. j \in S /\ j > i /\ \A k \in S : k > i => j <= k
  BY <1>2
<1> DEFINE f == Following(S, i)
<1>4. f \in S /\ f > i /\ \A k \in S : k > i => f <= k
  BY <1>3, Zenon DEF Following
<1> HIDE DEF f, T
<1>5. Adjacent(S, i, f)
  <2>1. i < f /\ \A c \in S : c <= i \/ f <= c
    BY <1>4
  <2> QED
    BY <2>1, Zenon DEF Adjacent
<1>6. ASSUME NEW k \in S, Adjacent(S, i, k)
      PROVE  f = k
  <2>1. i < k /\ \A c \in S : c <= i \/ k <= c
    BY <1>6, Zenon DEF Adjacent
  <2>2. k > i
    BY <2>1
  <2>3. f <= k /\ (f <= i \/ k <= f) /\ f > i
    BY <1>4, <2>1, <2>2, Zenon
  <2> QED
    BY <1>4, <2>3
<1> QED
  BY <1>4, <1>5, <1>6 DEF f

\* The separators and both ends; the places behind which an argument begins.
Cuts(s)   == Commas(s, Len(s)) \cup {Len(s) + 1}
Starts(s) == {i \in Cuts(s) : i <= Len(s) /\ (Following(Cuts(s), i) = Len(s) + 1 => Following(Cuts(s), i) > i + 1)}

\* The loop returns what is between the separators, and not an empty end.
LEMMA ArgumentsAre ==
  ASSUME NEW s \in Seq(Chars)
  PROVE  /\ Len(Arguments(s)) = Cardinality(Starts(s))
         /\ \A i \in Starts(s) : Arguments(s)[Cardinality(Below(Cuts(s), i)) + 1]
                                   = Trim(SubSeq(s, i + 1, Following(Cuts(s), i) - 1))
<1> DEFINE n == Len(s)
           C == Commas(s, n)
           S == Cuts(s)
           F(i) == Following(S, i)
<1>0. n \in Nat
  BY LenProperties
<1>1. PICK r : /\ SoFar(s, n, r)
               /\ Arguments(s) = IF r.arg = <<>> THEN r.args ELSE Append(r.args, Trim(r.arg))
  BY SoFarEnds, Zenon
<1>2. /\ r \in Splitters
      /\ Len(r.args) + 1 = Cardinality(C)
      /\ \A i, j \in C : Adjacent(C, i, j) =>
           r.args[Cardinality(Below(C, i)) + 1] = Trim(SubSeq(s, i + 1, j - 1))
  BY <1>1, Zenon DEF SoFar
<1>3. PICK l \in C : (\A c \in C : c <= l) /\ r.arg = SubSeq(s, l + 1, n)
  BY <1>1, Zenon DEF SoFar
<1>4. C \subseteq 0 .. n /\ IsFiniteSet(C) /\ Cardinality(C) \in Nat
  BY <1>0, CommasAre, Zenon
<1>5. S = C \cup {n + 1}
  BY Zenon DEF Cuts
<1>6. Starts(s) = {i \in S : i <= n /\ (F(i) = n + 1 => F(i) > i + 1)}
  BY Zenon DEF Starts
<1>7. r.args \in Seq(Seq(Chars)) /\ r.arg \in Seq(Chars) /\ Len(r.args) \in Nat
  BY <1>2, LenProperties DEF Splitters
<1> HIDE DEF n, C, S
<1>8. C \in SUBSET Nat /\ S \in SUBSET Nat /\ n + 1 \in S /\ C \subseteq S /\ n + 1 \notin C
  BY <1>0, <1>4, <1>5
<1>9. F(l) = n + 1 /\ l <= n /\ l \in Nat
  <2>1. l < n + 1 /\ l <= n /\ l \in Nat
    BY <1>0, <1>4
  <2>2. \A c \in S : c <= l \/ n + 1 <= c
    BY <1>0, <1>3, <1>5
  <2>3. Adjacent(S, l, n + 1)
    BY <2>1, <2>2, Zenon DEF Adjacent
  <2>4. l \in S /\ n + 1 \in S
    BY <1>8, Zenon
  <2>5. \A j \in S : Adjacent(S, l, j) => Following(S, l) = j
    BY <1>8, <2>1, <2>4, FollowingIs, Zenon
  <2> QED
    BY <2>1, <2>3, <2>4, <2>5, Zenon
<1>10. ASSUME NEW i \in C, i # l
       PROVE  /\ F(i) \in C /\ F(i) # n + 1
              /\ Cardinality(Below(C, i)) + 1 \in 1 .. Len(r.args)
              /\ r.args[Cardinality(Below(C, i)) + 1] = Trim(SubSeq(s, i + 1, F(i) - 1))
  <2>1. i < l /\ i < n + 1 /\ i \in S /\ l \in S
    BY <1>0, <1>3, <1>4, <1>8, <1>10
  <2>2. F(i) \in S /\ Adjacent(S, i, F(i))
    BY <1>8, <2>1, FollowingIs, Zenon
  <2> HIDE DEF F
  <2>3. i < F(i) /\ \A c \in S : c <= i \/ F(i) <= c
    BY <2>2, Zenon DEF Adjacent
  <2>4. F(i) <= l
    BY <1>8, <2>1, <2>3
  <2>5. F(i) # n + 1
    BY <1>0, <1>9, <2>4
  <2>6. F(i) \in C
    BY <1>5, <2>2, <2>5
  <2>7. Adjacent(C, i, F(i))
    BY <1>8, <2>3, Zenon DEF Adjacent
  <2>8. Cardinality(Below(C, i)) + 2 <= Cardinality(C) /\ Cardinality(Below(C, i)) \in Nat
    BY <1>4, <1>8, <2>1, Ranks, Zenon
  <2>9. Cardinality(Below(C, i)) + 1 \in 1 .. Len(r.args)
    BY <1>2, <1>7, <2>8
  <2> QED
    BY <1>2, <2>5, <2>6, <2>7, <2>9, Zenon
<1>11. ASSUME NEW i \in C
       PROVE  Below(S, i) = Below(C, i)
  <2>1. ~(n + 1 < i)
    BY <1>0, <1>4
  <2> QED
    BY <1>5, <2>1, Zenon DEF Below
<1>12. CASE r.arg = <<>>
  <2>1. l = n
    <3>1. ~(l < n)
      <4> SUFFICES ASSUME l < n
                   PROVE  FALSE
        OBVIOUS
      <4>1. l + 1 \in Int /\ n \in Int /\ l + 1 <= n /\ \A i \in l + 1 .. n : s[i] \in Chars
        <5>1. \A i \in l + 1 .. n : i \in 1 .. n
          BY <1>0, <1>9
        <5>2. \A i \in 1 .. n : s[i] \in Chars
          BY ElementOfSeq DEF n
        <5> QED
          BY <1>0, <1>9, <5>1, <5>2
      <4>2. Len(SubSeq(s, l + 1, n)) = (n - (l + 1)) + 1
        BY <4>1, SubSeqProperties
      <4>3. Len(SubSeq(s, l + 1, n)) = 0
        <5>1. SubSeq(s, l + 1, n) = <<>> /\ Len(<<>>) = 0
          BY <1>3, <1>12, EmptySeq
        <5> QED
          BY <5>1, Zenon
      <4> QED
        BY <1>0, <1>9, <4>2, <4>3
    <3> QED
      BY <1>0, <1>9, <3>1
  <2>2. Starts(s) = C \ {l}
    <3>1. l \notin Starts(s)
      <4>1. ~(n + 1 > n + 1)
        BY <1>0
      <4> QED
        BY <1>6, <1>9, <2>1, <4>1, Zenon
    <3>2. n + 1 \notin Starts(s)
      <4>1. ~(n + 1 <= n)
        BY <1>0
      <4> QED
        BY <1>6, <4>1, Zenon
    <3>3. ASSUME NEW i \in C, i # l
          PROVE  i \in Starts(s)
      <4>1. i <= n
        BY <1>0, <1>4
      <4> QED
        BY <1>6, <1>8, <1>10, <3>3, <4>1, Zenon
    <3>4. Starts(s) \subseteq S
      BY <1>6, Zenon
    <3> QED
      BY <1>5, <3>1, <3>2, <3>3, <3>4, Zenon
  <2>3. Cardinality(C \ {l}) = Cardinality(C) - 1
    BY <1>4, FS_RemoveElement, Zenon
  <2>4. Len(r.args) = Cardinality(C) - 1
    BY <1>2, <1>4, <1>7
  <2>5. \A i \in Starts(s) : i \in C /\ i # l
    BY <2>2, Zenon
  <2>6. Arguments(s) = r.args
    BY <1>1, <1>12, Zenon
  <2>7. Len(Arguments(s)) = Cardinality(Starts(s))
    BY <2>2, <2>3, <2>4, <2>6, Zenon
  <2>8. ASSUME NEW i \in Starts(s)
        PROVE  Arguments(s)[Cardinality(Below(S, i)) + 1] = Trim(SubSeq(s, i + 1, F(i) - 1))
    BY <1>10, <1>11, <2>5, <2>6, Zenon
  <2> QED
    BY <2>7, <2>8 DEF S
<1>13. CASE r.arg # <<>>
  <2>1. l < n
    <3>1. n < l + 1 => SubSeq(s, l + 1, n) = <<>>
      <4>1. l + 1 \in Int /\ n \in Int
        BY <1>0, <1>9
      <4> QED
        BY <4>1, SubSeqEmpty
    <3>2. ~(n < l + 1)
      BY <1>3, <1>13, <3>1, Zenon
    <3> QED
      BY <1>0, <1>9, <3>2
  <2>2. Starts(s) = C
    <3>1. l \in Starts(s)
      <4>1. n + 1 > l + 1
        BY <1>0, <1>9, <2>1
      <4> QED
        BY <1>6, <1>8, <1>9, <4>1, Zenon
    <3>2. n + 1 \notin Starts(s)
      <4>1. ~(n + 1 <= n)
        BY <1>0
      <4> QED
        BY <1>6, <4>1, Zenon
    <3>3. ASSUME NEW i \in C, i # l
          PROVE  i \in Starts(s)
      <4>1. i <= n
        BY <1>0, <1>4
      <4> QED
        BY <1>6, <1>8, <1>10, <3>3, <4>1, Zenon
    <3>4. Starts(s) \subseteq S
      BY <1>6, Zenon
    <3> QED
      BY <1>5, <3>1, <3>2, <3>3, <3>4, Zenon
  <2> DEFINE a == r.args
             x == Trim(r.arg)
  <2>3. a \in Seq(Seq(Chars)) /\ x \in Seq(Chars)
    BY <1>7, TrimTypes
  <2>4. Arguments(s) = Append(a, x)
    BY <1>1, <1>13, Zenon
  <2>5. Len(a) + 1 = Cardinality(C)
    BY <1>2, Zenon
  <2>6. /\ Len(Append(a, x)) = Len(a) + 1
        /\ \A m \in 1 .. Len(a) : Append(a, x)[m] = a[m]
        /\ Append(a, x)[Len(a) + 1] = x
    <3> HIDE DEF a, x
    <3> QED
      BY <2>3, AppendProperties
  <2>7. Len(Arguments(s)) = Cardinality(Starts(s))
    BY <2>2, <2>4, <2>5, <2>6, Zenon
  <2>8. ASSUME NEW i \in Starts(s)
        PROVE  Arguments(s)[Cardinality(Below(S, i)) + 1] = Trim(SubSeq(s, i + 1, F(i) - 1))
    <3>1. CASE i = l
      <4>1. Cardinality(Below(C, l)) + 1 = Cardinality(C)
        BY <1>3, <1>4, <1>8, Ranks, Zenon
      <4>2. Cardinality(Below(S, i)) + 1 = Len(a) + 1
        BY <1>11, <2>5, <3>1, <4>1, Zenon
      <4>3. F(i) - 1 = n
        BY <1>0, <1>9, <3>1
      <4> QED
        BY <1>3, <2>4, <2>6, <3>1, <4>2, <4>3, Zenon
    <3>2. CASE i # l
      <4>1. i \in C
        BY <2>2, Zenon
      <4> QED
        BY <1>10, <1>11, <2>4, <2>6, <3>2, <4>1, Zenon
    <3> QED
      BY <3>1, <3>2
  <2> QED
    BY <2>7, <2>8 DEF S
<1> QED
  BY <1>12, <1>13

-----------------------------------------------------------------------------
(* A description as a whole *)

\* u is a comma and then rest; line is a name and then u.
AfterComma(u, rest) == Len(u) = Len(rest) + 1 /\ u[1] = "," /\ \A i \in 1 .. Len(rest) : u[i + 1] = rest[i]
AfterName(line, rest) == line = <<Quote, "a", Quote, ",">> \o rest

\* The comma behind the name goes, and no character of the arguments.
LEMMA CommaIsDropped ==
  ASSUME NEW u \in Seq(Chars), NEW rest \in Seq(Chars), AfterComma(u, rest)
  PROVE  /\ Trim(u) # <<>> /\ Head(Trim(u)) = ","
         /\ Trim(Tail(Trim(u))) = Trim(rest)
<1> DEFINE m == Len(rest)
<1>0. m \in Nat /\ Len(u) = m + 1
  BY LenProperties, Zenon DEF AfterComma
<1>1. Solid(u, 1) /\ \A i \in 1 .. m : Solid(u, i + 1) <=> Solid(rest, i)
  <2>1. "," # " "
    OBVIOUS
  <2> QED
    BY <2>1, Zenon DEF Solid, AfterComma
<1>2. ASSUME NEW b \in 0 .. m, b = 0 \/ Solid(rest, b), \A i \in 1 .. m : Solid(rest, i) => i <= b
      PROVE  Trim(u) = SubSeq(u, 1, b + 1)
  <2>1. 1 \in 1 .. Len(u) /\ b + 1 \in 1 .. Len(u)
    BY <1>0
  <2>2. Solid(u, b + 1)
    <3>1. CASE b = 0
      <4>1. b + 1 = 1
        BY <3>1
      <4> QED
        BY <1>1, <4>1, Zenon
    <3>2. CASE b # 0
      <4>1. b \in 1 .. m
        BY <1>0, <3>2
      <4> QED
        BY <1>1, <1>2, <3>2, <4>1, Zenon
    <3> QED
      BY <3>1, <3>2
  <2>3. ASSUME NEW i \in 1 .. Len(u), Solid(u, i)
        PROVE  1 <= i /\ i <= b + 1
    <3>1. CASE i = 1
      BY <3>1
    <3>2. CASE i # 1
      <4>1. i - 1 \in 1 .. m /\ (i - 1) + 1 = i
        BY <1>0, <3>2
      <4>2. Solid(rest, i - 1)
        BY <1>1, <2>3, <4>1
      <4>3. i - 1 <= b
        BY <1>2, <4>1, <4>2
      <4> QED
        BY <1>0, <4>3
    <3> QED
      BY <3>1, <3>2
  <2>4. Ends(u, 1, b + 1)
    BY <1>1, <2>1, <2>2, <2>3, Zenon DEF Ends
  <2> QED
    BY <2>4, TrimIs
<1>3. ASSUME NEW b \in 0 .. m
      PROVE  /\ SubSeq(u, 1, b + 1) # <<>> /\ Head(SubSeq(u, 1, b + 1)) = ","
             /\ Tail(SubSeq(u, 1, b + 1)) = SubSeq(rest, 1, b)
  <2>1. 1 \in 1 .. Len(u) /\ b + 1 \in 1 .. Len(u)
    BY <1>0
  <2>0. u[1] = "," /\ \A i \in 1 .. m : u[i + 1] = rest[i]
    BY Zenon DEF AfterComma
  <2>2. Head(SubSeq(u, 1, b + 1)) = u[1] /\ Tail(SubSeq(u, 1, b + 1)) = SubSeq(u, 1 + 1, b + 1)
    BY <2>1, HeadTailOfSubSeq
  <2>3. SubSeq(u, 1, b + 1) # <<>>
    <3>1. 1 \in Int /\ b + 1 \in Int /\ 1 <= b + 1 /\ \A i \in 1 .. b + 1 : u[i] \in Chars
      <4>1. \A i \in 1 .. b + 1 : i \in 1 .. Len(u)
        BY <1>0
      <4> QED
        BY <1>0, <4>1, ElementOfSeq
    <3>2. Len(SubSeq(u, 1, b + 1)) = ((b + 1) - 1) + 1
      BY <3>1, SubSeqProperties
    <3>3. Len(SubSeq(u, 1, b + 1)) # 0
      BY <1>0, <3>2
    <3>4. Len(<<>>) = 0
      OBVIOUS
    <3> QED
      BY <3>3, <3>4, Zenon
  <2>4. SubSeq(u, 1 + 1, b + 1) = SubSeq(rest, 1, b)
    <3> DEFINE v == SubSeq(u, 2, b + 1)
               w == SubSeq(rest, 1, b)
    <3>1. /\ v \in Seq(Chars) /\ Len(v) = (IF 2 <= b + 1 THEN ((b + 1) - 2) + 1 ELSE 0)
          /\ \A i \in 1 .. ((b + 1) - 2) + 1 : v[i] = u[(2 + i) - 1]
      <4>1. \A i \in 2 .. b + 1 : i \in 1 .. Len(u)
        BY <1>0
      <4>2. 2 \in Int /\ b + 1 \in Int /\ \A i \in 2 .. b + 1 : u[i] \in Chars
        BY <1>0, <4>1, ElementOfSeq
      <4> QED
        BY <4>2, SubSeqProperties
    <3>2. /\ w \in Seq(Chars) /\ Len(w) = (IF 1 <= b THEN (b - 1) + 1 ELSE 0)
          /\ \A i \in 1 .. (b - 1) + 1 : w[i] = rest[(1 + i) - 1]
      <4>1. \A i \in 1 .. b : i \in 1 .. Len(rest)
        BY <1>0
      <4>2. 1 \in Int /\ b \in Int /\ \A i \in 1 .. b : rest[i] \in Chars
        BY <1>0, <4>1, ElementOfSeq
      <4> QED
        BY <4>2, SubSeqProperties
    <3> HIDE DEF v, w
    <3>3. Len(v) = b /\ Len(w) = b
      BY <1>0, <3>1, <3>2
    <3>4. ASSUME NEW i \in 1 .. b
          PROVE  v[i] = w[i]
      <4>1. (2 + i) - 1 = i + 1 /\ (1 + i) - 1 = i /\ i \in 1 .. m
            /\ i \in 1 .. ((b + 1) - 2) + 1 /\ i \in 1 .. (b - 1) + 1
        BY <1>0
      <4>2. v[i] = u[i + 1] /\ w[i] = rest[i]
        BY <3>1, <3>2, <4>1, Zenon
      <4> QED
        BY <2>0, <4>1, <4>2, Zenon
    <3>5. v = w
      BY <3>1, <3>2, <3>3, <3>4, SeqEqual
    <3>6. 1 + 1 = 2
      OBVIOUS
    <3> QED
      BY <3>5, <3>6, Zenon DEF v, w
  <2> QED
    BY <2>0, <2>2, <2>3, <2>4, Zenon
<1>4. CASE Blank(rest)
  <2>0. 0 \in 0 .. m
    BY <1>0
  <2>1. 0 \in 0 .. m /\ \A i \in 1 .. m : Solid(rest, i) => i <= 0
    BY <1>4, <2>0, Zenon DEF Blank
  <2>2. Trim(u) = SubSeq(u, 1, 0 + 1)
    BY <1>2, <2>1, Zenon
  <2>3. SubSeq(rest, 1, 0) = <<>>
    BY SubSeqEmpty
  <2>4. Trim(<<>>) = <<>>
    <3>1. <<>> \in Seq(Chars) /\ Len(<<>>) = 0
      BY EmptySeq
    <3>2. 1 .. 0 = {}
      OBVIOUS
    <3>3. Blank(<<>>)
      BY <3>1, <3>2, Zenon DEF Blank
    <3> QED
      BY <3>1, <3>3, BlankIsTrimmed, Zenon
  <2>5. Trim(rest) = <<>>
    BY <1>4, BlankIsTrimmed, Zenon
  <2> QED
    BY <1>3, <2>1, <2>2, <2>3, <2>4, <2>5, Zenon
<1>5. CASE ~Blank(rest)
  <2>1. PICK a, b : Ends(rest, a, b)
    BY <1>5, BlankOrEnds
  <2>2. /\ a \in 1 .. m /\ b \in 1 .. m /\ Solid(rest, a) /\ Solid(rest, b)
        /\ \A i \in 1 .. m : Solid(rest, i) => a <= i /\ i <= b
    BY <2>1, Zenon DEF Ends
  <2>3. b \in 0 .. m /\ a \in 1 .. b
    BY <1>0, <2>2
  <2>4. Trim(u) = SubSeq(u, 1, b + 1)
    BY <1>2, <2>2, <2>3, Zenon
  <2> DEFINE v == SubSeq(rest, 1, b)
  <2>5. v \in Seq(Chars) /\ Len(v) = b /\ \A i \in 1 .. b : v[i] = rest[i]
    <3>1. \A i \in 1 .. b : i \in 1 .. Len(rest)
      BY <1>0, <2>2
    <3>2. 1 \in Int /\ b \in Int /\ \A i \in 1 .. b : rest[i] \in Chars
      BY <1>0, <2>2, <3>1, ElementOfSeq
    <3>3. /\ v \in Seq(Chars) /\ Len(v) = (IF 1 <= b THEN (b - 1) + 1 ELSE 0)
          /\ \A i \in 1 .. (b - 1) + 1 : v[i] = rest[(1 + i) - 1]
      BY <3>2, SubSeqProperties
    <3> HIDE DEF v
    <3>4. Len(v) = b /\ (b - 1) + 1 = b /\ \A i \in 1 .. b : (1 + i) - 1 = i
      BY <1>0, <2>2, <3>3
    <3> QED
      BY <3>3, <3>4, Zenon
  <2>6. Trim(v) = SubSeq(v, a, b)
    <3>1. b \in 1 .. b /\ \A i \in 1 .. b : i \in 1 .. m
      BY <1>0, <2>2
    <3>2. \A i \in 1 .. b : Solid(v, i) <=> Solid(rest, i)
      BY <2>5, Zenon DEF Solid
    <3>3. Ends(v, a, b)
      BY <2>2, <2>3, <2>5, <3>1, <3>2, Zenon DEF Ends
    <3> QED
      BY <2>5, <3>3, TrimIs, Zenon
  <2>7. SubSeq(v, a, b) = SubSeq(rest, a, b)
    <3>1. /\ 1 \in 1 .. Len(rest) /\ b \in 1 .. Len(rest) /\ a \in 1 .. (b - 1) + 1 /\ b \in 1 .. (b - 1) + 1
          /\ (1 + a) - 1 = a /\ (1 + b) - 1 = b
      BY <1>0, <2>2, <2>3
    <3>2. SubSeq(SubSeq(rest, 1, b), a, b) = SubSeq(rest, (1 + a) - 1, (1 + b) - 1)
      BY <3>1, SubSeqOfSubSeq
    <3> QED
      BY <3>1, <3>2, Zenon
  <2>8. Trim(rest) = SubSeq(rest, a, b)
    BY <2>1, TrimIs
  <2> QED
    BY <1>3, <2>3, <2>4, <2>6, <2>7, <2>8, Zenon
<1> QED
  BY <1>4, <1>5

\* What the loop gets of a description with a name.
LEMMA ParsedIs ==
  ASSUME NEW rest \in Seq(Chars), NEW line, AfterName(line, rest)
  PROVE  /\ ~ParseSubcommandFormat(line).error
         /\ ParseSubcommandFormat(line).name = <<"a">>
         /\ ParseSubcommandFormat(line).args = Arguments(Trim(rest))
<1> DEFINE m == Len(rest)
           quotes == {i \in DOMAIN line : line[i] = Quote}
           u == SubSeq(line, 3 + 1, Len(line))
           tail == Trim(u)
<1>0. m \in Nat
  BY LenProperties
<1>1. /\ line \in Seq(Chars) /\ Len(line) = m + 4 /\ DOMAIN line = 1 .. m + 4
      /\ line[1] = Quote /\ line[2] = "a" /\ line[3] = Quote /\ line[4] = ","
      /\ \A i \in 1 .. m : line[i + 4] = rest[i]
  <2> DEFINE h == <<Quote, "a", Quote, ",">>
  <2>1. /\ h \in Seq(Chars) /\ Len(h) = 4
        /\ h[1] = Quote /\ h[2] = "a" /\ h[3] = Quote /\ h[4] = ","
    <3>1. Quote \in Chars /\ "a" \in Chars /\ "," \in Chars
      BY Zenon DEF Chars
    <3>2. ASSUME NEW C, NEW c1 \in C, NEW c2 \in C, NEW c3 \in C, NEW c4 \in C
          PROVE  LET t == <<c1, c2, c3, c4>> IN
                 t \in Seq(C) /\ Len(t) = 4 /\ t[1] = c1 /\ t[2] = c2 /\ t[3] = c3 /\ t[4] = c4
      OBVIOUS
    <3> QED
      BY <3>1, <3>2, Zenon
  <2> HIDE DEF h
  <2>2. /\ h \o rest \in Seq(Chars) /\ Len(h \o rest) = Len(h) + Len(rest)
        /\ \A i \in 1 .. Len(h) + Len(rest) : (h \o rest)[i] = IF i <= Len(h) THEN h[i] ELSE rest[i - Len(h)]
    BY <2>1, ConcatProperties
  <2>3. line = h \o rest
    BY Zenon DEF h, AfterName
  <2> HIDE DEF m
  <2>4. Len(line) = 4 + m /\ \A i \in 1 .. 4 + m : line[i] = IF i <= 4 THEN h[i] ELSE rest[i - 4]
    BY <2>1, <2>2, <2>3, Zenon DEF m
  <2>5. line \in Seq(Chars) /\ DOMAIN line = 1 .. Len(line)
    BY <2>2, <2>3, LenProperties
  <2>6. 4 + m = m + 4 /\ 1 \in 1 .. 4 + m /\ 2 \in 1 .. 4 + m /\ 3 \in 1 .. 4 + m /\ 4 \in 1 .. 4 + m
        /\ 1 <= 4 /\ 2 <= 4 /\ 3 <= 4 /\ 4 <= 4
    BY <1>0
  <2>7. \A i \in 1 .. m : i + 4 \in 1 .. 4 + m /\ ~(i + 4 <= 4) /\ (i + 4) - 4 = i
    BY <1>0
  <2>8. \A i \in 1 .. m : line[i + 4] = rest[i]
    BY <2>4, <2>7, Zenon
  <2> QED
    BY <2>1, <2>4, <2>5, <2>6, <2>8, Zenon
<1>2. line \in Seq(Chars) /\ Len(line) = m + 4
  BY <1>1, Zenon
<1>3. 1 \in quotes /\ 3 \in quotes /\ 2 \notin quotes /\ quotes \subseteq 1 .. m + 4
  <2>1. "a" # Quote
    BY DEF Quote
  <2>2. 1 \in 1 .. m + 4 /\ 3 \in 1 .. m + 4
    BY <1>0
  <2> QED
    BY <1>1, <2>1, <2>2, Zenon
<1> HIDE DEF quotes
<1>4. ~(Cardinality(quotes) < 2)
  <2>1. {1, 3} \subseteq quotes /\ 3 \notin {1}
    BY <1>3
  <2>2. IsFiniteSet(quotes) /\ Cardinality(quotes) \in Nat
    <3>1. IsFiniteSet(1 .. m + 4)
      BY <1>0, FS_Interval
    <3> QED
      BY <1>3, <3>1, FS_Subset, FS_CardinalityType
  <2>3. IsFiniteSet({1}) /\ Cardinality({1}) = 1
    BY FS_Singleton
  <2>4. Cardinality({1} \cup {3}) = Cardinality({1}) + 1
    BY <2>1, <2>3, FS_AddElement, Zenon
  <2>5. Cardinality({1} \cup {3}) <= Cardinality(quotes)
    <3>1. {1} \cup {3} \in SUBSET quotes
      BY <1>3
    <3> QED
      BY <2>2, <3>1, FS_Subset, Zenon
  <2> QED
    <3> DEFINE c == Cardinality(quotes)
    <3>1. 1 + 1 <= c /\ c \in Nat
      BY <2>2, <2>3, <2>4, <2>5, Zenon
    <3> HIDE DEF c
    <3>2. ~(c < 2)
      BY <3>1
    <3> QED
      BY <3>2 DEF c
<1>5. (CHOOSE i \in quotes : \A j \in quotes : i <= j) = 1
  <2>1. \A j \in quotes : 1 <= j /\ j \in Int
    BY <1>0, <1>3
  <2>2. \A i \in quotes : (\A j \in quotes : i <= j) => i = 1
    BY <1>3, <2>1
  <2> QED
    BY <1>3, <2>1, <2>2, Zenon
<1>6. (CHOOSE i \in quotes \ {1} : \A j \in quotes \ {1} : i <= j) = 3
  <2>1. \A j \in quotes \ {1} : 3 <= j /\ j \in Int
    BY <1>0, <1>3
  <2>2. 3 \in quotes \ {1}
    BY <1>3
  <2>3. \A i \in quotes \ {1} : (\A j \in quotes \ {1} : i <= j) => i = 3
    BY <2>1, <2>2
  <2> QED
    BY <2>1, <2>2, <2>3, Zenon
<1>7. SubSeq(line, 1 + 1, 3 - 1) = <<"a">>
  <2>1. 2 \in 1 .. Len(line) /\ 2 \in 2 .. Len(line) /\ 1 + 1 = 2 /\ 3 - 1 = 2
    BY <1>0, <1>2
  <2>2. SubSeq(line, 2, 2) = <<line[2]>> \o SubSeq(line, 2 + 1, 2)
    BY <1>1, <2>1, SubSeqRecursiveFirst
  <2>3. SubSeq(line, 2 + 1, 2) = <<>>
    BY SubSeqEmpty
  <2>4. \A c \in Chars : <<c>> \in Seq(Chars)
    OBVIOUS
  <2>5. <<"a">> \o <<>> = <<"a">>
    <3>1. "a" \in Chars
      BY Zenon DEF Chars
    <3> QED
      BY <2>4, <3>1, ConcatEmptySeq, Zenon
  <2> QED
    BY <1>1, <2>1, <2>2, <2>3, <2>5, Zenon
<1>8. u \in Seq(Chars) /\ AfterComma(u, rest)
  <2>1. 3 + 1 = 4 /\ Len(line) = m + 4
    BY <1>2
  <2>2. \A i \in 4 .. m + 4 : i \in 1 .. Len(line)
    BY <1>0, <1>2
  <2>3. 4 \in Int /\ m + 4 \in Int /\ \A i \in 4 .. m + 4 : line[i] \in Chars
    BY <1>0, <1>2, <2>2, ElementOfSeq
  <2>4. /\ SubSeq(line, 4, m + 4) \in Seq(Chars)
        /\ Len(SubSeq(line, 4, m + 4)) = (IF 4 <= m + 4 THEN ((m + 4) - 4) + 1 ELSE 0)
        /\ \A i \in 1 .. ((m + 4) - 4) + 1 : SubSeq(line, 4, m + 4)[i] = line[(4 + i) - 1]
    BY <2>3, SubSeqProperties
  <2>5. u = SubSeq(line, 4, m + 4)
    BY <2>1, Zenon
  <2> HIDE DEF u, m
  <2>6. 4 <= m + 4 /\ ((m + 4) - 4) + 1 = m + 1 /\ 1 \in 1 .. m + 1 /\ (4 + 1) - 1 = 4
    BY <1>0
  <2>7. u \in Seq(Chars) /\ Len(u) = m + 1 /\ \A i \in 1 .. m + 1 : u[i] = line[(4 + i) - 1]
    BY <2>4, <2>5, <2>6, Zenon
  <2>8. u[1] = ","
    BY <1>1, <2>6, <2>7, Zenon
  <2>9. \A i \in 1 .. m : i + 1 \in 1 .. m + 1 /\ (4 + (i + 1)) - 1 = i + 4
    BY <1>0
  <2>10. \A i \in 1 .. m : u[i + 1] = rest[i]
    BY <1>1, <2>7, <2>9, Zenon
  <2> QED
    BY <2>7, <2>8, <2>10, Zenon DEF m, AfterComma
<1>9. tail # <<>> /\ Head(tail) = "," /\ Trim(Tail(tail)) = Trim(rest)
  <2> HIDE DEF u
  <2> QED
    BY <1>8, CommaIsDropped, Zenon
<1>10. ParseSubcommandFormat(line) =
        [error |-> FALSE, name |-> SubSeq(line, 1 + 1, 3 - 1),
         args |-> Arguments(Trim(IF tail # <<>> /\ Head(tail) = "," THEN Tail(tail) ELSE tail))]
  <2> DEFINE first  == CHOOSE i \in quotes : \A j \in quotes : i <= j
             second == CHOOSE i \in quotes \ {first} : \A j \in quotes \ {first} : i <= j
             end    == Trim(SubSeq(line, second + 1, Len(line)))
  <2>1. ParseSubcommandFormat(line) =
          IF Cardinality(quotes) < 2 THEN [error |-> TRUE]
          ELSE [error |-> FALSE, name |-> SubSeq(line, first + 1, second - 1),
                args |-> Arguments(Trim(IF end # <<>> /\ Head(end) = "," THEN Tail(end) ELSE end))]
    BY Zenon DEF ParseSubcommandFormat, quotes
  <2>2. first = 1
    BY <1>5
  <2>3. second = 3
    BY <1>6, <2>2, Zenon
  <2> HIDE DEF first, second
  <2>4. end = tail
    BY <2>3, Zenon
  <2> HIDE DEF end, tail
  <2> QED
    BY <1>4, <2>1, <2>2, <2>3, <2>4, Zenon
<1> HIDE DEF u, tail
<1>11. ParseSubcommandFormat(line) = [error |-> FALSE, name |-> <<"a">>, args |-> Arguments(Trim(rest))]
  BY <1>7, <1>9, <1>10, Zenon
<1> QED
  BY <1>11

\* However quotes, brackets and blanks are mixed, a description is split at the
\* commas outside of them and nowhere else (dynamic_config.go:162).
THEOREM DescriptionsAreSplitRight ==
  ASSUME NEW rest \in Seq(Chars)
  PROVE  ArgumentsAreWhole(rest)
<1> DEFINE s == Trim(rest)
           parsed == ParseSubcommandFormat(<<Quote, "a", Quote, ",">> \o rest)
<1>1. s \in Seq(Chars)
  BY TrimTypes
<1>2. ~parsed.error /\ parsed.name = <<"a">> /\ parsed.args = Arguments(s)
  BY ParsedIs, Zenon DEF AfterName
<1>3. DOMAIN s = 1 .. Len(s)
  BY <1>1, LenProperties
<1>4. {0, Len(s) + 1} \cup {i \in DOMAIN s : Separates(s, i)} = Cuts(s)
  BY <1>3, Zenon DEF Cuts, Commas
<1> HIDE DEF s, parsed
<1>5. /\ Len(parsed.args) = Cardinality(Starts(s))
      /\ \A i \in Starts(s) :
           parsed.args[Cardinality(Below(Cuts(s), i)) + 1] = Trim(SubSeq(s, i + 1, Following(Cuts(s), i) - 1))
  BY <1>1, <1>2, ArgumentsAre, Zenon
<1> QED
  BY <1>2, <1>4, <1>5, Zenon DEF ArgumentsAreWhole, Starts, Below, Following, s, parsed

\* Every description that is looked at is split so.
THEOREM FormatSplitting == FormatsSpec => []FormatIsSplitRight
<1>1. ASSUME FormatsInit
      PROVE  FormatIsSplitRight
  BY <1>1 DEF FormatsInit, None, FormatIsSplitRight
<1>2. ASSUME FormatIsSplitRight, [FormatsNext]_sample
      PROVE  FormatIsSplitRight'
  <2>1. CASE LookAtFormat
    <3>1. PICK s \in UpTo(MaxFormat, Chars) : sample' = [kind |-> "format", rest |-> s]
      BY <2>1 DEF LookAtFormat
    <3>2. MaxFormat \in Nat
      BY FormatsAssumption
    <3>3. s \in Seq(Chars)
      BY <3>2, UpToIs
    <3>4. ArgumentsAreWhole(s)
      BY <3>3, DescriptionsAreSplitRight
    <3>5. sample'.rest = s
      BY <3>1
    <3> QED
      BY <3>4, <3>5 DEF FormatIsSplitRight
  <2>2. CASE LookAtStream \/ LookAtFrames \/ LookAtText \/ LookAtNumber
    <3>1. sample'.kind \in {"stream", "frames", "text", "number"}
      BY <2>2 DEF LookAtStream, LookAtFrames, LookAtText, LookAtNumber
    <3> QED
      BY <3>1 DEF FormatIsSplitRight
  <2>3. CASE UNCHANGED sample
    BY <1>2, <2>3 DEF FormatIsSplitRight
  <2> QED
    BY <1>2, <2>1, <2>2, <2>3 DEF FormatsNext
<1> QED
  BY <1>1, <1>2, PTL DEF FormatsSpec

-----------------------------------------------------------------------------
(* Folds whose step is a function *)

\* F takes a value and an element to the next value.
Steps(R, X, F) == F \in [R \X X -> R]

\* g is the fold of F over every subset of the places of c.
Iterates(F, base, c, n, g) ==
  g = [s \in SUBSET (1 .. n) |-> IF s = {} THEN base ELSE F[<<g[s \ {Max(s)}], c[Max(s)]>>]]

\* t has the values of the fold after every place of c.
Trace(R, F, base, c, t) ==
  /\ t \in [0 .. Len(c) -> R]
  /\ t[0] = base
  /\ \A k \in 0 .. Len(c) - 1 : t[k + 1] = F[<<t[k], c[k + 1]>>]

\* The value of the fold.
Value(R, F, base, c) == (CHOOSE t : Trace(R, F, base, c, t))[Len(c)]

\* The fold is defined: there is such a function, and its values are in the
\* range of F.
LEMMA IteratesExist ==
  ASSUME NEW R, NEW X, NEW F, Steps(R, X, F), NEW base \in R, NEW c \in Seq(X), NEW n \in 0 .. Len(c)
  PROVE  \E g : Iterates(F, base, c, n, g) /\ \A s \in SUBSET (1 .. n) : g[s] \in R
<1> DEFINE T == {m \in Nat : m <= Len(c) => \E g : Iterates(F, base, c, m, g) /\ \A s \in SUBSET (1 .. m) : g[s] \in R}
<1>1. 0 \in T
  <2> DEFINE g == [s \in SUBSET (1 .. 0) |-> base]
  <2>1. \A s \in SUBSET (1 .. 0) : s = {}
    OBVIOUS
  <2>2. g = [s \in SUBSET (1 .. 0) |-> IF s = {} THEN base ELSE F[<<g[s \ {Max(s)}], c[Max(s)]>>]]
    BY <2>1, Zenon
  <2>3. \A s \in SUBSET (1 .. 0) : g[s] \in R
    BY Zenon
  <2> HIDE DEF g
  <2>4. Iterates(F, base, c, 0, g)
    BY <2>2, Zenon DEF Iterates
  <2> QED
    BY <2>3, <2>4, Zenon
<1>2. ASSUME NEW m \in Nat, m \in T
      PROVE  m + 1 \in T
  <2> SUFFICES ASSUME m + 1 <= Len(c)
               PROVE  \E g : Iterates(F, base, c, m + 1, g) /\ \A s \in SUBSET (1 .. m + 1) : g[s] \in R
    OBVIOUS
  <2>0. m <= Len(c)
    <3>1. Len(c) \in Nat
      BY LenProperties
    <3> QED
      BY <3>1
  <2>1. PICK g : Iterates(F, base, c, m, g) /\ \A s \in SUBSET (1 .. m) : g[s] \in R
    BY <1>2, <2>0
  <2> DEFINE h == [s \in SUBSET (1 .. m + 1) |->
                     IF m + 1 \in s THEN F[<<g[s \ {m + 1}], c[m + 1]>>] ELSE g[s]]
  <2>2. \A s \in SUBSET (1 .. m) :
          g[s] = IF s = {} THEN base ELSE F[<<g[s \ {Max(s)}], c[Max(s)]>>]
    BY <2>1, Zenon DEF Iterates
  <2>3. \A s \in SUBSET (1 .. m + 1) :
          /\ s \ {m + 1} \in SUBSET (1 .. m)
          /\ m + 1 \notin s => s \in SUBSET (1 .. m)
    OBVIOUS
  <2>4. \A s \in SUBSET (1 .. m) : s \in SUBSET (1 .. m + 1) /\ m + 1 \notin s
    OBVIOUS
  <2>5. \A s \in SUBSET (1 .. m) : h[s] = g[s]
    BY <2>4, Zenon
  <2>6. \A s \in SUBSET (1 .. m + 1) :
          h[s] = IF s = {} THEN base ELSE F[<<h[s \ {Max(s)}], c[Max(s)]>>]
    <3> SUFFICES ASSUME NEW s \in SUBSET (1 .. m + 1)
                 PROVE  h[s] = IF s = {} THEN base ELSE F[<<h[s \ {Max(s)}], c[Max(s)]>>]
      OBVIOUS
    <3>1. CASE m + 1 \in s
      <4>1. Max(s) = m + 1 /\ s # {}
        BY <3>1, Greatest
      <4>2. h[s] = F[<<g[s \ {m + 1}], c[m + 1]>>]
        BY <3>1, Zenon
      <4>3. h[s \ {m + 1}] = g[s \ {m + 1}]
        BY <2>3, <2>5, Zenon
      <4> HIDE DEF h
      <4> QED
        BY <4>1, <4>2, <4>3, Zenon
    <3>2. CASE m + 1 \notin s
      <4>1. s \in SUBSET (1 .. m)
        BY <2>3, <3>2, Zenon
      <4>2. s \ {Max(s)} \in SUBSET (1 .. m)
        BY <4>1, Zenon
      <4> HIDE DEF h
      <4> QED
        BY <2>2, <2>5, <4>1, <4>2, Zenon
    <3> QED
      BY <3>1, <3>2
  <2>7. h = [s \in SUBSET (1 .. m + 1) |-> h[s]]
    BY Zenon
  <2>8. c[m + 1] \in X
    <3>1. m + 1 \in 1 .. Len(c)
      OBVIOUS
    <3> QED
      BY <3>1, ElementOfSeq
  <2>9. \A s \in SUBSET (1 .. m + 1) : h[s] \in R
    <3> SUFFICES ASSUME NEW s \in SUBSET (1 .. m + 1)
                 PROVE  h[s] \in R
      OBVIOUS
    <3>1. CASE m + 1 \in s
      <4>1. h[s] = F[<<g[s \ {m + 1}], c[m + 1]>>]
        BY <3>1, Zenon
      <4>2. g[s \ {m + 1}] \in R
        BY <2>1, <2>3, Zenon
      <4>3. <<g[s \ {m + 1}], c[m + 1]>> \in R \X X
        BY <2>8, <4>2, Zenon
      <4> HIDE DEF h
      <4> QED
        BY <4>1, <4>3, Zenon DEF Steps
    <3>2. CASE m + 1 \notin s
      <4>1. h[s] = g[s] /\ s \in SUBSET (1 .. m)
        BY <2>3, <2>5, <3>2, Zenon
      <4> HIDE DEF h
      <4> QED
        BY <2>1, <4>1, Zenon
    <3> QED
      BY <3>1, <3>2
  <2> HIDE DEF h
  <2>10. Iterates(F, base, c, m + 1, h)
    BY <2>6, <2>7, Zenon DEF Iterates
  <2> QED
    BY <2>9, <2>10, Zenon
<1>3. Nat \subseteq T
  <2> HIDE DEF T
  <2> QED
    BY <1>1, <1>2, Induction
<1>4. n \in Nat /\ n <= Len(c)
  BY LenProperties
<1>5. n \in T
  BY <1>3, <1>4
<1> QED
  BY <1>4, <1>5

\* A function over subsets as a trace.
LEMMA IteratesTrace ==
  ASSUME NEW R, NEW F, NEW base \in R, NEW X, NEW c \in Seq(X), NEW g,
         Iterates(F, base, c, Len(c), g), \A s \in SUBSET (1 .. Len(c)) : g[s] \in R
  PROVE  Trace(R, F, base, c, [k \in 0 .. Len(c) |-> g[1 .. k]])
<1> DEFINE n == Len(c)
           t == [k \in 0 .. n |-> g[1 .. k]]
<1>0. n \in Nat
  BY LenProperties
<1>1. \A s \in SUBSET (1 .. n) : g[s] = IF s = {} THEN base ELSE F[<<g[s \ {Max(s)}], c[Max(s)]>>]
  BY Zenon DEF Iterates
<1>2. \A s \in SUBSET (1 .. n) : g[s] \in R
  OBVIOUS
<1> HIDE DEF n
<1>3. \A k \in 0 .. n : 1 .. k \in SUBSET (1 .. n)
  BY <1>0
<1>4. t \in [0 .. n -> R]
  BY <1>2, <1>3, Zenon
<1>5. t[0] = base
  <2>1. 0 \in 0 .. n /\ 1 .. 0 = {}
    BY <1>0
  <2>2. t[0] = g[1 .. 0]
    BY <2>1, Zenon
  <2>3. {} \in SUBSET (1 .. n)
    OBVIOUS
  <2> HIDE DEF t
  <2> QED
    BY <1>1, <2>1, <2>2, <2>3, Zenon
<1>6. ASSUME NEW k \in 0 .. n - 1
      PROVE  t[k + 1] = F[<<t[k], c[k + 1]>>]
  <2>1. t[k] = g[1 .. k] /\ t[k + 1] = g[1 .. k + 1]
    BY <1>0
  <2>2. 1 .. k + 1 \in SUBSET (1 .. n) /\ 1 .. k + 1 # {} /\ (1 .. k + 1) \ {k + 1} = 1 .. k
    <3>1. k \in Nat /\ k + 1 <= n
      BY <1>0
    <3>2. 1 .. k + 1 \in SUBSET (1 .. n)
      BY <1>0, <3>1
    <3>3. k + 1 \in 1 .. k + 1
      BY <3>1
    <3>4. (1 .. k + 1) \ {k + 1} = 1 .. k
      BY <3>1
    <3> QED
      BY <3>2, <3>3, <3>4
  <2>3. Max(1 .. k + 1) = k + 1
    BY <1>0, Greatest
  <2> HIDE DEF t
  <2> QED
    BY <1>1, <2>1, <2>2, <2>3, Zenon
<1> HIDE DEF t
<1>7. Trace(R, F, base, c, t)
  BY <1>4, <1>5, <1>6, Zenon DEF Trace, n
<1> QED
  BY <1>7 DEF t, n

\* The first n elements of c and d are the same.
Alike(c, d, n) == n <= Len(c) /\ n <= Len(d) /\ \A i \in 1 .. n : c[i] = d[i]

\* Two traces agree as far as their sequences do.
LEMMA TracesAgree ==
  ASSUME NEW R, NEW F, NEW base, NEW X, NEW c \in Seq(X), NEW d \in Seq(X), NEW t, NEW u,
         Trace(R, F, base, c, t), Trace(R, F, base, d, u),
         NEW n \in Nat, Alike(c, d, n)
  PROVE  t[n] = u[n]
<1>0. n <= Len(c) /\ n <= Len(d) /\ \A i \in 1 .. n : c[i] = d[i]
  BY Zenon DEF Alike
<1>1. Len(c) \in Nat /\ Len(d) \in Nat
  BY LenProperties
<1>2. /\ t[0] = base /\ u[0] = base
      /\ \A k \in 0 .. Len(c) - 1 : t[k + 1] = F[<<t[k], c[k + 1]>>]
      /\ \A k \in 0 .. Len(d) - 1 : u[k + 1] = F[<<u[k], d[k + 1]>>]
  BY Zenon DEF Trace
<1> DEFINE T == {m \in Nat : m <= n => t[m] = u[m]}
<1>3. 0 \in T
  BY <1>2
<1>4. ASSUME NEW m \in Nat, m \in T
      PROVE  m + 1 \in T
  <2> SUFFICES ASSUME m + 1 <= n
               PROVE  t[m + 1] = u[m + 1]
    OBVIOUS
  <2>1. m <= n /\ m \in 0 .. Len(c) - 1 /\ m \in 0 .. Len(d) - 1 /\ m + 1 \in 1 .. n
    BY <1>0, <1>1
  <2>2. t[m] = u[m]
    BY <1>4, <2>1
  <2> QED
    BY <1>0, <1>2, <2>1, <2>2, Zenon
<1>5. Nat \subseteq T
  <2> HIDE DEF T
  <2> QED
    BY <1>3, <1>4, Induction
<1> QED
  BY <1>5

\* There is a trace.
LEMMA ValueTrace ==
  ASSUME NEW R, NEW X, NEW F, Steps(R, X, F), NEW base \in R, NEW c \in Seq(X)
  PROVE  \E t : Trace(R, F, base, c, t) /\ Value(R, F, base, c) = t[Len(c)]
<1>1. Len(c) \in 0 .. Len(c)
  BY LenProperties
<1>2. PICK g : Iterates(F, base, c, Len(c), g) /\ \A s \in SUBSET (1 .. Len(c)) : g[s] \in R
  BY <1>1, IteratesExist
<1>3. \E t : Trace(R, F, base, c, t)
  BY <1>2, IteratesTrace
<1>4. Trace(R, F, base, c, CHOOSE t : Trace(R, F, base, c, t))
  BY <1>3, Zenon
<1> QED
  BY <1>4, Zenon DEF Value

\* The value of the fold over nothing.
LEMMA ValueEmpty ==
  ASSUME NEW R, NEW X, NEW F, Steps(R, X, F), NEW base \in R
  PROVE  Value(R, F, base, <<>>) = base
<1> DEFINE e == <<>>
<1>0. e \in Seq(X)
  OBVIOUS
<1>1. Len(e) = 0
  OBVIOUS
<1> HIDE DEF e
<1>2. PICK t : Trace(R, F, base, e, t) /\ Value(R, F, base, e) = t[Len(e)]
  BY <1>0, ValueTrace
<1>3. Value(R, F, base, e) = base
  BY <1>1, <1>2, Zenon DEF Trace
<1> QED
  BY <1>3 DEF e

\* The value of the fold is in the range of F.
LEMMA ValueType ==
  ASSUME NEW R, NEW X, NEW F, Steps(R, X, F), NEW base \in R, NEW c \in Seq(X)
  PROVE  Value(R, F, base, c) \in R
<1>1. PICK t : Trace(R, F, base, c, t) /\ Value(R, F, base, c) = t[Len(c)]
  BY ValueTrace
<1>2. Len(c) \in 0 .. Len(c)
  BY LenProperties
<1> QED
  BY <1>1, <1>2, Zenon DEF Trace

\* The value of the fold over one more element.
LEMMA ValueAppend ==
  ASSUME NEW R, NEW X, NEW F, Steps(R, X, F), NEW base \in R, NEW c \in Seq(X), NEW x \in X
  PROVE  Value(R, F, base, Append(c, x)) = F[<<Value(R, F, base, c), x>>]
<1> DEFINE d == Append(c, x)
<1>1. /\ d \in Seq(X) /\ Len(c) \in Nat /\ Len(d) = Len(c) + 1
      /\ d[Len(c) + 1] = x /\ \A i \in 1 .. Len(c) : c[i] = d[i]
  BY AppendProperties, LenProperties
<1> HIDE DEF d
<1>2. PICK t : Trace(R, F, base, c, t) /\ Value(R, F, base, c) = t[Len(c)]
  BY ValueTrace
<1>3. PICK u : Trace(R, F, base, d, u) /\ Value(R, F, base, d) = u[Len(d)]
  BY <1>1, ValueTrace
<1>4. t[Len(c)] = u[Len(c)]
  <2>1. Len(c) \in Nat /\ Len(c) <= Len(c) /\ Len(c) <= Len(d) /\ d \in Seq(X)
    BY <1>1
  <2>2. Trace(R, F, base, c, t) /\ Trace(R, F, base, d, u)
    BY <1>2, <1>3
  <2>3. Alike(c, d, Len(c))
    BY <1>1, <2>1, Zenon DEF Alike
  <2> QED
    BY <2>1, <2>2, <2>3, TracesAgree
<1>5. u[Len(c) + 1] = F[<<u[Len(c)], d[Len(c) + 1]>>]
  <2>1. Len(c) \in 0 .. Len(d) - 1
    BY <1>1
  <2> QED
    BY <1>3, <2>1, Zenon DEF Trace
<1>6. Value(R, F, base, d) = F[<<Value(R, F, base, c), x>>]
  BY <1>1, <1>2, <1>3, <1>4, <1>5, Zenon
<1> QED
  BY <1>6 DEF d

\* g steps as F does, on what is in the range of F.
Follows(R, F, base, c, g) ==
  \A s \in SUBSET (1 .. Len(c)) :
    /\ s = {} => g[s] = base
    /\ s # {} /\ g[s \ {Max(s)}] \in R => g[s] = F[<<g[s \ {Max(s)}], c[Max(s)]>>]

\* A recursive function over subsets that steps as F does has the value of F.
\* This is what FoldLeft chooses.
LEMMA ValueIs ==
  ASSUME NEW R, NEW X, NEW F, Steps(R, X, F), NEW base \in R, NEW c \in Seq(X), NEW g,
         Follows(R, F, base, c, g)
  PROVE  g[1 .. Len(c)] = Value(R, F, base, c)
<1>a. \A s \in SUBSET (1 .. Len(c)) :
        /\ s = {} => g[s] = base
        /\ s # {} /\ g[s \ {Max(s)}] \in R => g[s] = F[<<g[s \ {Max(s)}], c[Max(s)]>>]
  BY Zenon DEF Follows
<1>0. Len(c) \in Nat
  BY LenProperties
<1> DEFINE n == Len(c)
           t == [k \in 0 .. n |-> g[1 .. k]]
           T == {k \in Nat : k <= n => g[1 .. k] \in R}
<1>1. 0 \in T
  <2>1. 1 .. 0 = {} /\ {} \in SUBSET (1 .. n)
    OBVIOUS
  <2>2. g[1 .. 0] = base
    BY <1>a, <2>1
  <2> QED
    BY <2>2
<1>2. ASSUME NEW k \in 0 .. n - 1, g[1 .. k] \in R
      PROVE  g[1 .. k + 1] = F[<<g[1 .. k], c[k + 1]>>] /\ g[1 .. k + 1] \in R
  <2>1. k \in Nat /\ k + 1 <= n /\ k + 1 \in 1 .. Len(c)
    BY <1>0
  <2>2. 1 .. k + 1 \in SUBSET (1 .. n) /\ 1 .. k + 1 # {} /\ (1 .. k + 1) \ {k + 1} = 1 .. k
    <3>2. 1 .. k + 1 \in SUBSET (1 .. n)
      BY <1>0, <2>1
    <3>3. k + 1 \in 1 .. k + 1
      BY <2>1
    <3>4. (1 .. k + 1) \ {k + 1} = 1 .. k
      BY <2>1
    <3> QED
      BY <3>2, <3>3, <3>4
  <2>3. Max(1 .. k + 1) = k + 1
    BY <1>0, Greatest
  <2>4. g[1 .. k + 1] = F[<<g[1 .. k], c[k + 1]>>]
    BY <1>a, <1>2, <2>2, <2>3, Zenon
  <2>5. c[k + 1] \in X
    BY <2>1, ElementOfSeq
  <2>6. F[<<g[1 .. k], c[k + 1]>>] \in R
    BY <1>2, <2>5, Zenon DEF Steps
  <2> QED
    BY <2>4, <2>6
<1>3. ASSUME NEW k \in Nat, k \in T
      PROVE  k + 1 \in T
  <2>1. k + 1 <= n => k \in 0 .. n - 1 /\ k <= n
    BY <1>0
  <2>2. k + 1 <= n => g[1 .. k + 1] \in R
    BY <1>2, <1>3, <2>1, Zenon
  <2> QED
    BY <2>2
<1>4. Nat \subseteq T
  <2> HIDE DEF T
  <2> QED
    BY <1>1, <1>3, Induction
<1>5. \A k \in 0 .. n : g[1 .. k] \in R
  <2>1. \A k \in 0 .. n : k \in Nat /\ k <= n
    BY <1>0
  <2> QED
    BY <1>4, <2>1, Zenon
<1>6. Trace(R, F, base, c, t)
  <2>1. t \in [0 .. n -> R]
    BY <1>5, Zenon
  <2>2. t[0] = base
    <3>1. 1 .. 0 = {} /\ {} \in SUBSET (1 .. n) /\ 0 \in 0 .. n
      BY <1>0
    <3>2. t[0] = g[1 .. 0]
      BY <3>1, Zenon
    <3> HIDE DEF t
    <3> QED
      BY <1>a, <3>1, <3>2, Zenon
  <2>3. ASSUME NEW k \in 0 .. n - 1
        PROVE  t[k + 1] = F[<<t[k], c[k + 1]>>]
    <3>1. k \in 0 .. n /\ k + 1 \in 0 .. n
      BY <1>0
    <3>2. t[k] = g[1 .. k] /\ t[k + 1] = g[1 .. k + 1]
      BY <3>1, Zenon
    <3> HIDE DEF t
    <3> QED
      BY <1>2, <1>5, <3>1, <3>2, Zenon
  <2> HIDE DEF t
  <2> QED
    BY <2>1, <2>2, <2>3, Zenon DEF Trace
<1>7. t[n] = g[1 .. n]
  BY <1>0
<1>8. PICK u : Trace(R, F, base, c, u) /\ Value(R, F, base, c) = u[Len(c)]
  BY ValueTrace
<1> HIDE DEF t
<1>9. t[Len(c)] = u[Len(c)]
  <2>1. Len(c) <= Len(c)
    BY <1>0
  <2>2. Alike(c, c, Len(c))
    BY <2>1, Zenon DEF Alike
  <2> QED
    BY <1>0, <1>6, <1>8, <2>2, TracesAgree
<1> QED
  BY <1>7, <1>8, <1>9

-----------------------------------------------------------------------------
(* The fold of the packing *)

\* The greatest of some numbers up to n is one of them.
LEMMA GreatestIsOne ==
  ASSUME NEW n \in Nat, NEW s \in SUBSET (1 .. n), s # {}
  PROVE  Max(s) \in s
<1> DEFINE T == {m \in Nat : n - m \in s}
<1>1. T # {}
  <2>1. PICK x \in s : TRUE
    OBVIOUS
  <2>2. n - x \in Nat /\ n - (n - x) = x
    OBVIOUS
  <2> QED
    BY <2>1, <2>2
<1>2. PICK m \in T : \A k \in T : m <= k
  <2> HIDE DEF T
  <2>1. T \subseteq Nat
    BY DEF T
  <2> QED
    BY <1>1, <2>1, Least
<1>3. n - m \in s /\ \A y \in s : n - m >= y
  <2>1. n - m \in s /\ m \in Nat
    OBVIOUS
  <2>2. ASSUME NEW y \in s
        PROVE  n - m >= y
    <3>1. n - y \in Nat /\ n - (n - y) = y
      OBVIOUS
    <3>2. m <= n - y
      BY <1>2, <3>1
    <3> QED
      BY <2>1, <3>1, <3>2
  <2> QED
    BY <2>1, <2>2
<1> QED
  BY <1>3, Zenon DEF Max

Septet == 0 .. 127
Octet  == 0 .. 255

PackState == [dst : Seq(Octet), accum : Nat, shift : 0 .. 7]
PackStep == [q \in PackState \X Septet |-> PackSeptet(q[1], q[2])]

\* A power of two that shifts by less than an octet.
LEMMA Powers ==
  /\ 2^0 = 1 /\ 2^1 = 2 /\ 2^2 = 4 /\ 2^3 = 8 /\ 2^4 = 16 /\ 2^5 = 32 /\ 2^6 = 64 /\ 2^7 = 128
  /\ \A p \in 0 .. 7 : 2^p \in Nat
<1>1. 2^0 = 1 /\ 2^1 = 2 /\ 2^2 = 4 /\ 2^3 = 8 /\ 2^4 = 16 /\ 2^5 = 32 /\ 2^6 = 64 /\ 2^7 = 128
  OBVIOUS
<1>2. ASSUME NEW p \in 0 .. 7
      PROVE  2^p \in Nat
  <2>1. p = 0 \/ p = 1 \/ p = 2 \/ p = 3 \/ p = 4 \/ p = 5 \/ p = 6 \/ p = 7
    OBVIOUS
  <2>2. /\ p = 0 => 2^p = 1
        /\ p = 1 => 2^p = 2
        /\ p = 2 => 2^p = 4
        /\ p = 3 => 2^p = 8
        /\ p = 4 => 2^p = 16
        /\ p = 5 => 2^p = 32
        /\ p = 6 => 2^p = 64
        /\ p = 7 => 2^p = 128
    BY <1>1, Zenon
  <2> DEFINE power == 2^p
  <2> HIDE DEF power
  <2>3. power \in Nat
    BY <2>1, <2>2 DEF power
  <2> QED
    BY <2>3 DEF power
<1> QED
  BY <1>1, <1>2

\* The state of the packing has its type.
LEMMA PackTypes ==
  ASSUME NEW r \in PackState, NEW s \in Septet
  PROVE  PackSeptet(r, s) \in PackState
<1>1. r.dst \in Seq(Octet) /\ r.accum \in Nat /\ r.shift \in 0 .. 7
  BY DEF PackState
<1> DEFINE power == 2^r.shift
           more == s * power
           a == r.accum + more
<1>2. power \in Nat
  BY <1>1, Powers
<1> HIDE DEF power
<1>3. more \in Nat
  BY <1>2 DEF Septet
<1> HIDE DEF more
<1>4. a \in Nat /\ a % 256 \in Octet /\ a \div 256 \in Nat
  <2>1. a \in Nat
    BY <1>1, <1>3
  <2> HIDE DEF a
  <2> QED
    BY <2>1 DEF Octet
<1>5. PackSeptet(r, s) = IF r.shift + 7 >= 8 THEN Packed(Append(r.dst, a % 256), a \div 256, r.shift - 1)
                         ELSE Packed(r.dst, a, r.shift + 7)
  BY Zenon DEF PackSeptet, power, more
<1> HIDE DEF a
<1>6. Append(r.dst, a % 256) \in Seq(Octet)
  BY <1>1, <1>4, AppendProperties
<1>7. /\ r.shift + 7 >= 8 => r.shift - 1 \in 0 .. 7
      /\ ~(r.shift + 7 >= 8) => r.shift + 7 \in 0 .. 7
  BY <1>1
<1>8. CASE r.shift + 7 >= 8
  <2>1. PackSeptet(r, s) = Packed(Append(r.dst, a % 256), a \div 256, r.shift - 1)
    BY <1>5, <1>8, Zenon
  <2> QED
    BY <1>4, <1>6, <1>7, <1>8, <2>1 DEF PackState, Packed
<1>9. CASE ~(r.shift + 7 >= 8)
  <2>1. PackSeptet(r, s) = Packed(r.dst, a, r.shift + 7)
    BY <1>5, <1>9, Zenon
  <2> QED
    BY <1>1, <1>4, <1>7, <1>9, <2>1 DEF PackState, Packed
<1> QED
  BY <1>8, <1>9

\* The packing as a fold of a function.
LEMMA PackValue ==
  ASSUME NEW base \in PackState, NEW c \in Seq(Septet)
  PROVE  FoldLeft(PackSeptet, base, c) = Value(PackState, PackStep, base, c)
<1> DEFINE Rec(g) == g = [s \in SUBSET DOMAIN c |->
                            IF s = {} THEN base ELSE PackSeptet(g[s \ {Max(s)}], c[Max(s)])]
           chosen == CHOOSE g : Rec(g)
<1>0. Len(c) \in Nat /\ DOMAIN c = 1 .. Len(c)
  BY LenProperties
<1>1. FoldLeft(PackSeptet, base, c) = chosen[DOMAIN c]
  BY Zenon DEF FoldLeft, MapThenFoldSet
<1>2. Steps(PackState, Septet, PackStep)
  BY PackTypes DEF Steps, PackStep
<1>3. \A r \in PackState, x \in Septet : PackStep[<<r, x>>] = PackSeptet(r, x)
  BY DEF PackStep
<1>4. \A s \in SUBSET (1 .. Len(c)) : s # {} => c[Max(s)] \in Septet /\ s \ {Max(s)} \in SUBSET (1 .. Len(c))
  BY <1>0, GreatestIsOne, ElementOfSeq
<1>5. PICK h : Iterates(PackStep, base, c, Len(c), h) /\ \A s \in SUBSET (1 .. Len(c)) : h[s] \in PackState
  <2>1. Len(c) \in 0 .. Len(c)
    BY <1>0
  <2> QED
    BY <1>2, <2>1, IteratesExist
<1>6. Rec(h)
  <2>1. h = [s \in SUBSET DOMAIN c |-> h[s]]
    BY <1>0, <1>5, Zenon DEF Iterates
  <2>2. \A s \in SUBSET DOMAIN c : h[s] = IF s = {} THEN base ELSE PackStep[<<h[s \ {Max(s)}], c[Max(s)]>>]
    BY <1>0, <1>5, Zenon DEF Iterates
  <2>3. \A s \in SUBSET DOMAIN c : h[s] = IF s = {} THEN base ELSE PackSeptet(h[s \ {Max(s)}], c[Max(s)])
    BY <1>0, <1>3, <1>4, <1>5, <2>2, Zenon
  <2> QED
    BY <2>1, <2>3, Zenon
<1>7. Rec(chosen)
  BY <1>6, Zenon
<1> HIDE DEF chosen
<1>8. chosen[1 .. Len(c)] = Value(PackState, PackStep, base, c)
  <2>1. chosen = [s \in SUBSET (1 .. Len(c)) |-> chosen[s]]
    BY <1>0, <1>7, Zenon
  <2>2. \A s \in SUBSET (1 .. Len(c)) :
          chosen[s] = IF s = {} THEN base ELSE PackSeptet(chosen[s \ {Max(s)}], c[Max(s)])
    BY <1>0, <1>7, Zenon
  <2>3. Follows(PackState, PackStep, base, c, chosen)
    BY <1>3, <1>4, <2>2, Zenon DEF Follows
  <2> HIDE DEF Rec
  <2> QED
    BY <1>2, <2>1, <2>3, ValueIs
<1> QED
  BY <1>0, <1>1, <1>8, Zenon

\* What the packing has done after nothing, and after one septet more.
LEMMA PackGrows ==
  ASSUME NEW base \in PackState
  PROVE  /\ FoldLeft(PackSeptet, base, <<>>) = base
         /\ \A c \in Seq(Septet), x \in Septet :
              /\ FoldLeft(PackSeptet, base, c) \in PackState
              /\ FoldLeft(PackSeptet, base, Append(c, x)) = PackSeptet(FoldLeft(PackSeptet, base, c), x)
<1>1. Steps(PackState, Septet, PackStep)
  BY PackTypes DEF Steps, PackStep
<1>2. \A r \in PackState, x \in Septet : PackStep[<<r, x>>] = PackSeptet(r, x)
  BY DEF PackStep
<1>3. FoldLeft(PackSeptet, base, <<>>) = base
  <2>1. <<>> \in Seq(Septet)
    OBVIOUS
  <2>2. FoldLeft(PackSeptet, base, <<>>) = Value(PackState, PackStep, base, <<>>)
    BY <2>1, PackValue, Zenon
  <2>3. Value(PackState, PackStep, base, <<>>) = base
    BY <1>1, ValueEmpty
  <2> QED
    BY <2>2, <2>3, Zenon
<1>4. ASSUME NEW c \in Seq(Septet), NEW x \in Septet
      PROVE  /\ FoldLeft(PackSeptet, base, c) \in PackState
             /\ FoldLeft(PackSeptet, base, Append(c, x)) = PackSeptet(FoldLeft(PackSeptet, base, c), x)
  <2>1. Append(c, x) \in Seq(Septet)
    BY AppendProperties
  <2>2. /\ FoldLeft(PackSeptet, base, c) = Value(PackState, PackStep, base, c)
        /\ FoldLeft(PackSeptet, base, Append(c, x)) = Value(PackState, PackStep, base, Append(c, x))
    BY <2>1, PackValue, Zenon
  <2>3. Value(PackState, PackStep, base, c) \in PackState
    BY <1>1, ValueType
  <2>4. Value(PackState, PackStep, base, Append(c, x)) = PackStep[<<Value(PackState, PackStep, base, c), x>>]
    BY <1>1, ValueAppend
  <2>5. PackStep[<<Value(PackState, PackStep, base, c), x>>] = PackSeptet(Value(PackState, PackStep, base, c), x)
    BY <1>2, <2>3, Zenon
  <2> QED
    BY <2>2, <2>3, <2>4, <2>5, Zenon
<1> QED
  BY <1>3, <1>4, Zenon

-----------------------------------------------------------------------------
(* The fold of the unpacking *)

UnpackState == [dst : Seq(Septet), accum : Nat, shift : 0 .. 7]
UnpackStep == [q \in UnpackState \X Octet |-> UnpackOctet(q[1], q[2])]

\* The state of the unpacking has its type.
LEMMA UnpackTypes ==
  ASSUME NEW r \in UnpackState, NEW b \in Octet
  PROVE  UnpackOctet(r, b) \in UnpackState
<1>1. r.dst \in Seq(Septet) /\ r.accum \in Nat /\ r.shift \in 0 .. 7
  BY DEF UnpackState
<1> DEFINE power == 2^r.shift
           more == b * power
           a == r.accum + more
<1>2. power \in Nat
  BY <1>1, Powers
<1> HIDE DEF power
<1>3. more \in Nat
  BY <1>2 DEF Octet
<1> HIDE DEF more
<1>4. a % 128 \in Septet /\ (a \div 128) % 128 \in Septet /\ a \div 16384 \in Nat /\ a \div 128 \in Nat
  <2>1. a \in Nat
    BY <1>1, <1>3
  <2> HIDE DEF a
  <2>2. a \div 128 \in Nat /\ a \div 16384 \in Nat
    BY <2>1
  <2> QED
    BY <2>1, <2>2 DEF Septet
<1>5. UnpackOctet(r, b) =
        IF r.shift + 8 >= 14
        THEN Packed(r.dst \o <<a % 128, (a \div 128) % 128>>, a \div 16384, r.shift - 6)
        ELSE Packed(Append(r.dst, a % 128), a \div 128, r.shift + 1)
  BY DEF UnpackOctet, power, more
<1> HIDE DEF a
<1>6. Append(r.dst, a % 128) \in Seq(Septet)
  BY <1>1, <1>4, AppendProperties
<1>7. r.dst \o <<a % 128, (a \div 128) % 128>> \in Seq(Septet)
  <2>1. <<a % 128, (a \div 128) % 128>> \in Seq(Septet)
    BY <1>4
  <2> QED
    BY <1>1, <2>1, ConcatProperties
<1>8. /\ r.shift + 8 >= 14 => r.shift - 6 \in 0 .. 7
      /\ ~(r.shift + 8 >= 14) => r.shift + 1 \in 0 .. 7
  BY <1>1
<1>9. CASE r.shift + 8 >= 14
  <2>1. UnpackOctet(r, b) = Packed(r.dst \o <<a % 128, (a \div 128) % 128>>, a \div 16384, r.shift - 6)
    BY <1>5, <1>9
  <2> QED
    BY <1>4, <1>7, <1>8, <1>9, <2>1 DEF UnpackState, Packed
<1>10. CASE ~(r.shift + 8 >= 14)
  <2>1. UnpackOctet(r, b) = Packed(Append(r.dst, a % 128), a \div 128, r.shift + 1)
    BY <1>5, <1>10
  <2> QED
    BY <1>4, <1>6, <1>8, <1>10, <2>1 DEF UnpackState, Packed
<1> QED
  BY <1>9, <1>10

\* The unpacking as a fold of a function.
LEMMA UnpackValue ==
  ASSUME NEW base \in UnpackState, NEW c \in Seq(Octet)
  PROVE  FoldLeft(UnpackOctet, base, c) = Value(UnpackState, UnpackStep, base, c)
<1> DEFINE Rec(g) == g = [s \in SUBSET DOMAIN c |->
                            IF s = {} THEN base ELSE UnpackOctet(g[s \ {Max(s)}], c[Max(s)])]
           chosen == CHOOSE g : Rec(g)
<1>0. Len(c) \in Nat /\ DOMAIN c = 1 .. Len(c)
  BY LenProperties
<1>1. FoldLeft(UnpackOctet, base, c) = chosen[DOMAIN c]
  BY Zenon DEF FoldLeft, MapThenFoldSet
<1>2. Steps(UnpackState, Octet, UnpackStep)
  BY UnpackTypes DEF Steps, UnpackStep
<1>3. \A r \in UnpackState, x \in Octet : UnpackStep[<<r, x>>] = UnpackOctet(r, x)
  BY DEF UnpackStep
<1>4. \A s \in SUBSET (1 .. Len(c)) : s # {} => c[Max(s)] \in Octet /\ s \ {Max(s)} \in SUBSET (1 .. Len(c))
  BY <1>0, GreatestIsOne, ElementOfSeq
<1>5. PICK h : Iterates(UnpackStep, base, c, Len(c), h) /\ \A s \in SUBSET (1 .. Len(c)) : h[s] \in UnpackState
  <2>1. Len(c) \in 0 .. Len(c)
    BY <1>0
  <2> QED
    BY <1>2, <2>1, IteratesExist
<1>6. Rec(h)
  <2>1. h = [s \in SUBSET DOMAIN c |-> h[s]]
    BY <1>0, <1>5, Zenon DEF Iterates
  <2>2. \A s \in SUBSET DOMAIN c : h[s] = IF s = {} THEN base ELSE UnpackStep[<<h[s \ {Max(s)}], c[Max(s)]>>]
    BY <1>0, <1>5, Zenon DEF Iterates
  <2>3. \A s \in SUBSET DOMAIN c : h[s] = IF s = {} THEN base ELSE UnpackOctet(h[s \ {Max(s)}], c[Max(s)])
    BY <1>0, <1>3, <1>4, <1>5, <2>2, Zenon
  <2> QED
    BY <2>1, <2>3, Zenon
<1>7. Rec(chosen)
  BY <1>6, Zenon
<1> HIDE DEF chosen
<1>8. chosen[1 .. Len(c)] = Value(UnpackState, UnpackStep, base, c)
  <2>1. chosen = [s \in SUBSET (1 .. Len(c)) |-> chosen[s]]
    BY <1>0, <1>7, Zenon
  <2>2. \A s \in SUBSET (1 .. Len(c)) :
          chosen[s] = IF s = {} THEN base ELSE UnpackOctet(chosen[s \ {Max(s)}], c[Max(s)])
    BY <1>0, <1>7, Zenon
  <2>3. Follows(UnpackState, UnpackStep, base, c, chosen)
    BY <1>3, <1>4, <2>2, Zenon DEF Follows
  <2> HIDE DEF Rec
  <2> QED
    BY <1>2, <2>1, <2>3, ValueIs
<1> QED
  BY <1>0, <1>1, <1>8, Zenon

\* What the unpacking has done after nothing, and after one octet more.
LEMMA UnpackGrows ==
  ASSUME NEW base \in UnpackState
  PROVE  /\ FoldLeft(UnpackOctet, base, <<>>) = base
         /\ \A c \in Seq(Octet), x \in Octet :
              /\ FoldLeft(UnpackOctet, base, c) \in UnpackState
              /\ FoldLeft(UnpackOctet, base, Append(c, x)) = UnpackOctet(FoldLeft(UnpackOctet, base, c), x)
<1>1. Steps(UnpackState, Octet, UnpackStep)
  BY UnpackTypes DEF Steps, UnpackStep
<1>2. \A r \in UnpackState, x \in Octet : UnpackStep[<<r, x>>] = UnpackOctet(r, x)
  BY DEF UnpackStep
<1>3. FoldLeft(UnpackOctet, base, <<>>) = base
  <2>1. <<>> \in Seq(Octet)
    OBVIOUS
  <2>2. FoldLeft(UnpackOctet, base, <<>>) = Value(UnpackState, UnpackStep, base, <<>>)
    BY <2>1, UnpackValue, Zenon
  <2>3. Value(UnpackState, UnpackStep, base, <<>>) = base
    BY <1>1, ValueEmpty
  <2> QED
    BY <2>2, <2>3, Zenon
<1>4. ASSUME NEW c \in Seq(Octet), NEW x \in Octet
      PROVE  /\ FoldLeft(UnpackOctet, base, c) \in UnpackState
             /\ FoldLeft(UnpackOctet, base, Append(c, x)) = UnpackOctet(FoldLeft(UnpackOctet, base, c), x)
  <2>1. Append(c, x) \in Seq(Octet)
    BY AppendProperties
  <2>2. /\ FoldLeft(UnpackOctet, base, c) = Value(UnpackState, UnpackStep, base, c)
        /\ FoldLeft(UnpackOctet, base, Append(c, x)) = Value(UnpackState, UnpackStep, base, Append(c, x))
    BY <2>1, UnpackValue, Zenon
  <2>3. Value(UnpackState, UnpackStep, base, c) \in UnpackState
    BY <1>1, ValueType
  <2>4. Value(UnpackState, UnpackStep, base, Append(c, x)) = UnpackStep[<<Value(UnpackState, UnpackStep, base, c), x>>]
    BY <1>1, ValueAppend
  <2>5. UnpackStep[<<Value(UnpackState, UnpackStep, base, c), x>>] = UnpackOctet(Value(UnpackState, UnpackStep, base, c), x)
    BY <1>2, <2>3, Zenon
  <2> QED
    BY <2>2, <2>3, <2>4, <2>5, Zenon
<1> QED
  BY <1>3, <1>4, Zenon

-----------------------------------------------------------------------------
(* One octet from the packing to the unpacking *)

\* What the packing has of an open septet weighs U, and what the unpacking has of
\* it fills the rest.
Weights(U, P) ==
  \/ U = 1 /\ P = 128
  \/ U = 2 /\ P = 64
  \/ U = 4 /\ P = 32
  \/ U = 8 /\ P = 16
  \/ U = 16 /\ P = 8
  \/ U = 32 /\ P = 4
  \/ U = 64 /\ P = 2

\* Division of a number whose remainder is seen.
LEMMA DividedBy ==
  ASSUME NEW x \in 0 .. 127, NEW q \in Nat
  PROVE  (x + 128 * q) % 128 = x /\ (x + 128 * q) \div 128 = q
OBVIOUS

\* A septet s meets the open one x, of which ua has been unpacked and pa has not.
Meets(U, P, ua, pa, s, acc, acc2, x) ==
  /\ Weights(U, P) /\ U \in Nat /\ P \in Nat /\ s \in 0 .. 127
  /\ ua \in Nat /\ pa \in Nat /\ ua < U /\ pa < P
  /\ acc \in Nat /\ acc2 \in Nat /\ x \in Nat
  /\ acc = pa + s * P /\ acc2 = ua + (acc % 256) * U /\ x = ua + pa * U

\* The next octet completes the open septet, and begins the next one.
LEMMA Seam ==
  ASSUME NEW U, NEW P, NEW ua, NEW pa, NEW s, NEW acc, NEW acc2, NEW x,
         Meets(U, P, ua, pa, s, acc, acc2, x)
  PROVE  /\ x < 128 /\ acc \div 256 \in Nat /\ 2 * (acc \div 256) < P
         /\ acc2 % 128 = x
         /\ acc2 \div 128 \in Nat /\ acc2 \div 128 < 2 * U
         /\ acc2 \div 128 + (acc \div 256) * (2 * U) = s
         /\ U = 64 => acc \div 256 = 0 /\ acc2 \div 128 = s /\ acc2 \div 16384 = 0
<1> DEFINE o == acc \div 256
           b == acc % 256
           q == s - o * (2 * U)
<1>0. /\ Weights(U, P) /\ U \in Nat /\ P \in Nat /\ s \in 0 .. 127
      /\ ua \in Nat /\ pa \in Nat /\ ua < U /\ pa < P
      /\ acc \in Nat /\ acc2 \in Nat /\ x \in Nat
      /\ acc = pa + s * P /\ acc2 = ua + (acc % 256) * U /\ x = ua + pa * U
  BY Zenon DEF Meets
<1>1. o \in Nat /\ b \in 0 .. 255 /\ acc = 256 * o + b
  BY <1>0
<1> HIDE DEF o, b
<1>2. x < 128 /\ 2 * o < P /\ q \in Int /\ acc2 = x + 128 * q
  BY <1>0, <1>1 DEF Weights, b
<1> HIDE DEF q
<1>3. q \in Nat
  BY <1>0, <1>2
<1>4. acc2 % 128 = x /\ acc2 \div 128 = q
  BY <1>0, <1>2, <1>3, DividedBy
<1>5. q + o * (2 * U) = s
  BY <1>0, <1>1 DEF Weights, q
<1>6. q < 2 * U
  BY <1>0, <1>1, <1>2, <1>3 DEF Weights, b
<1>7. U = 64 => o = 0 /\ q = s /\ acc2 \div 16384 = 0
  BY <1>0, <1>1, <1>2, <1>3, <1>5 DEF Weights, b
<1> QED
  BY <1>1, <1>2, <1>3, <1>4, <1>5, <1>6, <1>7 DEF o

\* The weights of shifts.
LEMMA WeightsOf ==
  ASSUME NEW u \in 0 .. 7, NEW p \in 0 .. 7, p > 0, u + p = 7
  PROVE  /\ Weights(2^u, 2^p) /\ 2^u \in Nat /\ 2^p \in Nat
         /\ 2^p = 2 * 2^(p - 1) /\ 2^(u + 1) = 2 * 2^u /\ 2^(p - 1) \in Nat
         /\ u = 6 <=> 2^u = 64
<1> DEFINE U == 2^u
           P == 2^p
           V == 2^(u + 1)
           Q == 2^(p - 1)
<1>1. \/ u = 0 /\ p = 7 /\ u + 1 = 1 /\ p - 1 = 6
      \/ u = 1 /\ p = 6 /\ u + 1 = 2 /\ p - 1 = 5
      \/ u = 2 /\ p = 5 /\ u + 1 = 3 /\ p - 1 = 4
      \/ u = 3 /\ p = 4 /\ u + 1 = 4 /\ p - 1 = 3
      \/ u = 4 /\ p = 3 /\ u + 1 = 5 /\ p - 1 = 2
      \/ u = 5 /\ p = 2 /\ u + 1 = 6 /\ p - 1 = 1
      \/ u = 6 /\ p = 1 /\ u + 1 = 7 /\ p - 1 = 0
  OBVIOUS
<1>2. \/ u = 0 /\ U = 1 /\ P = 128 /\ V = 2 /\ Q = 64
      \/ u = 1 /\ U = 2 /\ P = 64 /\ V = 4 /\ Q = 32
      \/ u = 2 /\ U = 4 /\ P = 32 /\ V = 8 /\ Q = 16
      \/ u = 3 /\ U = 8 /\ P = 16 /\ V = 16 /\ Q = 8
      \/ u = 4 /\ U = 16 /\ P = 8 /\ V = 32 /\ Q = 4
      \/ u = 5 /\ U = 32 /\ P = 4 /\ V = 64 /\ Q = 2
      \/ u = 6 /\ U = 64 /\ P = 2 /\ V = 128 /\ Q = 1
  <2>1. /\ u = 0 => U = 1
        /\ u = 1 => U = 2
        /\ u = 2 => U = 4
        /\ u = 3 => U = 8
        /\ u = 4 => U = 16
        /\ u = 5 => U = 32
        /\ u = 6 => U = 64
    BY Powers, Zenon
  <2>2. /\ p = 1 => P = 2
        /\ p = 2 => P = 4
        /\ p = 3 => P = 8
        /\ p = 4 => P = 16
        /\ p = 5 => P = 32
        /\ p = 6 => P = 64
        /\ p = 7 => P = 128
    BY Powers, Zenon
  <2>3. /\ u + 1 = 1 => V = 2
        /\ u + 1 = 2 => V = 4
        /\ u + 1 = 3 => V = 8
        /\ u + 1 = 4 => V = 16
        /\ u + 1 = 5 => V = 32
        /\ u + 1 = 6 => V = 64
        /\ u + 1 = 7 => V = 128
    BY Powers, Zenon
  <2>4. /\ p - 1 = 0 => Q = 1
        /\ p - 1 = 1 => Q = 2
        /\ p - 1 = 2 => Q = 4
        /\ p - 1 = 3 => Q = 8
        /\ p - 1 = 4 => Q = 16
        /\ p - 1 = 5 => Q = 32
        /\ p - 1 = 6 => Q = 64
    BY Powers, Zenon
  <2> HIDE DEF U, P, V, Q
  <2> QED
    BY <1>1, <2>1, <2>2, <2>3, <2>4
<1> HIDE DEF U, P, V, Q
<1>3. /\ Weights(U, P) /\ U \in Nat /\ P \in Nat
      /\ P = 2 * Q /\ V = 2 * U /\ Q \in Nat
      /\ u = 6 <=> U = 64
  <2>1. Weights(U, P)
    BY <1>2 DEF Weights
  <2>2. U \in Nat /\ P \in Nat /\ Q \in Nat
    BY <1>2
  <2>3. P = 2 * Q /\ V = 2 * U
    BY <1>2
  <2>4. u = 6 <=> U = 64
    BY <1>2
  <2> QED
    BY <2>1, <2>2, <2>3, <2>4
<1> QED
  BY <1>3 DEF U, P, V, Q

-----------------------------------------------------------------------------
(* Packing and unpacking in step *)

\* Nothing is open between r and u.
Even(all, r, u) == r.shift = 0 /\ r.accum = 0 /\ u.shift = 0 /\ u.accum = 0 /\ u.dst = all

\* The last septet is open: u has its low bits, r the rest.
Open(all, r, u) ==
  /\ r.shift > 0 /\ u.shift + r.shift = 7
  /\ u.accum < 2^u.shift /\ r.accum < 2^r.shift
  /\ all = Append(u.dst, u.accum + r.accum * 2^u.shift)

\* The unpacking u has seen the octets of the packing r, which has seen all.
InStep(all, r, u) ==
  /\ all \in Seq(Septet) /\ r \in PackState /\ u \in UnpackState
  /\ Even(all, r, u) \/ Open(all, r, u)

\* What is open has a septet's value.
LEMMA OpenValue ==
  ASSUME NEW all, NEW r, NEW u, InStep(all, r, u), Open(all, r, u)
  PROVE  u.accum + r.accum * 2^u.shift \in Septet
<1>1. u.accum \in Nat /\ r.accum \in Nat /\ u.shift \in 0 .. 7 /\ r.shift \in 0 .. 7
  BY DEF InStep, PackState, UnpackState
<1>2. r.shift > 0 /\ u.shift + r.shift = 7 /\ u.accum < 2^u.shift /\ r.accum < 2^r.shift
  BY Zenon DEF Open
<1> DEFINE U == 2^u.shift
           P == 2^r.shift
           a == u.accum
           b == r.accum
<1>3. Weights(U, P) /\ U \in Nat /\ P \in Nat
  BY <1>1, <1>2, WeightsOf
<1>4. a \in Nat /\ b \in Nat /\ a < U /\ b < P
  BY <1>1, <1>2
<1> HIDE DEF U, P, a, b
<1>5. a + b * U \in Septet
  BY <1>3, <1>4 DEF Weights, Septet
<1> QED
  BY <1>5 DEF a, b, U

\* A septet opens what was even.
LEMMA EvenStep ==
  ASSUME NEW all, NEW r, NEW u, InStep(all, r, u), Even(all, r, u), NEW s \in Septet
  PROVE  PackSeptet(r, s).dst = r.dst /\ InStep(Append(all, s), PackSeptet(r, s), u)
<1>1. /\ all \in Seq(Septet) /\ r.accum = 0 /\ r.shift = 0 /\ u.shift = 0 /\ u.accum = 0 /\ u.dst = all
      /\ r \in PackState /\ u \in UnpackState
  BY Zenon DEF InStep, Even
<1>2. r.accum + s * 2^r.shift = s
  <2>1. 2^r.shift = 1
    BY <1>1, Powers, Zenon
  <2> QED
    BY <1>1, <2>1 DEF Septet
<1>3. PackSeptet(r, s) = Packed(r.dst, s, 7)
  <2>1. ~(r.shift + 7 >= 8) /\ r.shift + 7 = 7
    BY <1>1
  <2> QED
    BY <1>2, <2>1, Zenon DEF PackSeptet
<1> DEFINE n == PackSeptet(r, s)
<1>4. n.dst = r.dst /\ n.accum = s /\ n.shift = 7
  BY <1>3 DEF Packed
<1>5. n \in PackState
  BY <1>1, PackTypes
<1> HIDE DEF n
<1>6. Append(all, s) \in Seq(Septet)
  BY <1>1, AppendProperties
<1>7. Open(Append(all, s), n, u)
  <2>1. 2^n.shift = 128 /\ 2^u.shift = 1
    BY <1>1, <1>4, Powers, Zenon
  <2>2. n.shift > 0 /\ u.shift + n.shift = 7 /\ u.accum < 2^u.shift /\ n.accum < 2^n.shift
    BY <1>1, <1>4, <2>1 DEF Septet
  <2>3. u.accum + n.accum * 2^u.shift = s
    BY <1>1, <1>4, <2>1 DEF Septet
  <2> QED
    BY <1>1, <2>2, <2>3, Zenon DEF Open
<1>8. InStep(Append(all, s), n, u)
  BY <1>1, <1>5, <1>6, <1>7, Zenon DEF InStep
<1> QED
  BY <1>4, <1>8 DEF n

\* A septet completes the octet that ends what was open.
LEMMA OpenStep ==
  ASSUME NEW all, NEW r, NEW u, InStep(all, r, u), Open(all, r, u), NEW s \in Septet
  PROVE  \E b \in Octet : /\ PackSeptet(r, s).dst = Append(r.dst, b)
                          /\ InStep(Append(all, s), PackSeptet(r, s), UnpackOctet(u, b))
<1>1. /\ all \in Seq(Septet) /\ r \in PackState /\ u \in UnpackState
      /\ r.shift > 0 /\ u.shift + r.shift = 7 /\ u.accum < 2^u.shift /\ r.accum < 2^r.shift
      /\ all = Append(u.dst, u.accum + r.accum * 2^u.shift)
  BY Zenon DEF InStep, Open
<1>2. /\ u.accum \in Nat /\ r.accum \in Nat /\ u.shift \in 0 .. 7 /\ r.shift \in 0 .. 7
      /\ u.dst \in Seq(Septet)
  BY <1>1 DEF PackState, UnpackState
<1> DEFINE U == 2^u.shift
           P == 2^r.shift
           V == 2^(u.shift + 1)
           Q == 2^(r.shift - 1)
           acc == r.accum + s * P
           b == acc % 256
           o == acc \div 256
           acc2 == u.accum + b * U
           x == u.accum + r.accum * U
           rest == acc2 \div 128
<1>3. Weights(U, P) /\ U \in Nat /\ P \in Nat /\ P = 2 * Q /\ V = 2 * U /\ Q \in Nat /\ (u.shift = 6 <=> U = 64)
  BY <1>1, <1>2, WeightsOf
<1>4. u.accum < U /\ r.accum < P
  BY <1>1
<1>5. PackSeptet(r, s) = Packed(Append(r.dst, b), o, r.shift - 1)
  <2>1. r.shift + 7 >= 8
    BY <1>1, <1>2
  <2> QED
    BY <2>1, Zenon DEF PackSeptet
<1>6. /\ u.shift = 6 => UnpackOctet(u, b) = Packed(u.dst \o <<acc2 % 128, rest % 128>>, acc2 \div 16384, u.shift - 6)
      /\ u.shift # 6 => UnpackOctet(u, b) = Packed(Append(u.dst, acc2 % 128), rest, u.shift + 1)
  <2>1. u.shift + 8 >= 14 <=> u.shift = 6
    <3>1. u.shift \in 0 .. 7 /\ r.shift \in 0 .. 7 /\ r.shift > 0 /\ u.shift + r.shift = 7
      BY <1>1, <1>2
    <3> QED
      BY <3>1
  <2>2. UnpackOctet(u, b) = IF u.shift + 8 >= 14
          THEN Packed(u.dst \o <<acc2 % 128, rest % 128>>, acc2 \div 16384, u.shift - 6)
          ELSE Packed(Append(u.dst, acc2 % 128), rest, u.shift + 1)
    BY DEF UnpackOctet
  <2> HIDE DEF acc2, b
  <2> QED
    BY <2>1, <2>2
<1>7. all = Append(u.dst, x)
  BY <1>1
<1> HIDE DEF U, P, V, Q
<1>8. acc \in Nat /\ acc2 \in Nat /\ x \in Nat /\ b \in Octet
  <2>1. s * P \in Nat /\ r.accum * U \in Nat
    BY <1>2, <1>3 DEF Septet
  <2>2. acc \in Nat /\ x \in Nat
    BY <1>2, <2>1
  <2> HIDE DEF acc
  <2>3. b \in Octet /\ b \in Nat
    BY <2>2 DEF Octet
  <2> HIDE DEF b
  <2>4. b * U \in Nat
    BY <1>3, <2>3
  <2>5. acc2 \in Nat
    BY <1>2, <2>4
  <2> QED
    BY <2>2, <2>3, <2>5 DEF acc
<1>9. /\ x < 128 /\ o \in Nat /\ 2 * o < P
      /\ acc2 % 128 = x
      /\ rest \in Nat /\ rest < 2 * U
      /\ rest + o * (2 * U) = s
      /\ U = 64 => o = 0 /\ rest = s /\ acc2 \div 16384 = 0
  <2>1. s \in 0 .. 127
    BY DEF Septet
  <2>2. acc = r.accum + s * P /\ acc2 = u.accum + (acc % 256) * U /\ x = u.accum + r.accum * U
    OBVIOUS
  <2> DEFINE ua == u.accum
             pa == r.accum
  <2>3. ua \in Nat /\ pa \in Nat /\ ua < U /\ pa < P
    BY <1>2, <1>4
  <2>4. acc = pa + s * P /\ acc2 = ua + (acc % 256) * U /\ x = ua + pa * U
    BY <2>2
  <2> HIDE DEF acc, acc2, x, ua, pa
  <2>5. acc \in Nat /\ acc2 \in Nat /\ x \in Nat
    BY <1>8
  <2>6. /\ x < 128 /\ acc \div 256 \in Nat /\ 2 * (acc \div 256) < P
        /\ acc2 % 128 = x
        /\ acc2 \div 128 \in Nat /\ acc2 \div 128 < 2 * U
        /\ acc2 \div 128 + (acc \div 256) * (2 * U) = s
        /\ U = 64 => acc \div 256 = 0 /\ acc2 \div 128 = s /\ acc2 \div 16384 = 0
    <3>1. Meets(U, P, ua, pa, s, acc, acc2, x)
      BY <1>3, <2>1, <2>3, <2>4, <2>5, Zenon DEF Meets
    <3> QED
      BY <3>1, Seam
  <2> QED
    BY <2>6
<1> DEFINE n == PackSeptet(r, s)
           m == UnpackOctet(u, b)
<1> HIDE DEF acc, acc2, x, o, b, rest
<1>10. n.dst = Append(r.dst, b) /\ n.accum = o /\ n.shift = r.shift - 1
  BY <1>5 DEF Packed
<1>11. n \in PackState /\ m \in UnpackState /\ Append(all, s) \in Seq(Septet)
  BY <1>1, <1>8, PackTypes, UnpackTypes, AppendProperties
<1>12. CASE u.shift = 6
  <2>1. m = Packed(u.dst \o <<x, rest % 128>>, 0, 0) /\ rest = s /\ o = 0
    BY <1>3, <1>6, <1>9, <1>12
  <2>2. rest % 128 = s
    BY <2>1 DEF Septet
  <2>3. m.dst = u.dst \o <<x, s>> /\ m.accum = 0 /\ m.shift = 0
    <3>1. m = Packed(u.dst \o <<x, s>>, 0, 0)
      BY <2>1, <2>2, Zenon
    <3> HIDE DEF m
    <3> QED
      BY <3>1 DEF Packed
  <2>4. u.dst \o <<x, s>> = Append(all, s)
    <3>1. x \in Septet
      BY <1>8, <1>9 DEF Septet
    <3> QED
      BY <1>2, <1>7, <3>1
  <2>5. n.shift = 0 /\ n.accum = 0
    BY <1>1, <1>2, <1>10, <1>12, <2>1
  <2> HIDE DEF m, n
  <2>6. Even(Append(all, s), n, m)
    BY <2>3, <2>4, <2>5, Zenon DEF Even
  <2>7. InStep(Append(all, s), n, m)
    BY <1>11, <2>6, Zenon DEF InStep
  <2>8. n.dst = Append(r.dst, b)
    BY <1>10
  <2> QED
    BY <1>8, <2>7, <2>8, Zenon DEF m, n
<1>13. CASE u.shift # 6
  <2>1. m = Packed(Append(u.dst, x), rest, u.shift + 1)
    BY <1>6, <1>9, <1>13
  <2>2. m.dst = all /\ m.accum = rest /\ m.shift = u.shift + 1
    BY <1>7, <2>1 DEF Packed
  <2> HIDE DEF m, n
  <2>3. n.shift > 0 /\ m.shift + n.shift = 7
    BY <1>1, <1>2, <1>10, <1>13, <2>2
  <2>4. 2^m.shift = V /\ 2^n.shift = Q
    BY <1>10, <2>2, Zenon DEF V, Q
  <2>5. m.accum < 2^m.shift /\ n.accum < 2^n.shift /\ m.accum + n.accum * 2^m.shift = s
    BY <1>3, <1>9, <1>10, <2>2, <2>4
  <2>6. Open(Append(all, s), n, m)
    BY <2>2, <2>3, <2>5, Zenon DEF Open
  <2>7. InStep(Append(all, s), n, m)
    BY <1>11, <2>6, Zenon DEF InStep
  <2>8. n.dst = Append(r.dst, b)
    BY <1>10
  <2> QED
    BY <1>8, <2>7, <2>8, Zenon DEF m, n
<1> QED
  BY <1>12, <1>13

\* A set that has the empty sequence, and with a sequence every one that is longer
\* by an element, has them all.
LEMMA SequenceInduction ==
  ASSUME NEW S, NEW T, <<>> \in T, \A s \in Seq(S), e \in S : s \in T => Append(s, e) \in T
  PROVE  Seq(S) \subseteq T
<1> DEFINE N == {n \in Nat : \A s \in Seq(S) : Len(s) = n => s \in T}
<1>1. 0 \in N
  <2>1. \A s \in Seq(S) : Len(s) = 0 => s = <<>>
    OBVIOUS
  <2> QED
    BY <2>1
<1>2. ASSUME NEW n \in Nat, n \in N
      PROVE  n + 1 \in N
  <2> SUFFICES ASSUME NEW s \in Seq(S), Len(s) = n + 1
               PROVE  s \in T
    OBVIOUS
  <2>1. s # <<>>
    OBVIOUS
  <2>2. PICK t \in Seq(S), e \in S : s = Append(t, e)
    BY <2>1, SequenceEmptyOrAppend
  <2>3. Len(t) \in Nat /\ Len(s) = Len(t) + 1
    BY <2>2, AppendProperties
  <2>4. Len(t) = n
    BY <2>3
  <2>5. t \in T
    BY <1>2, <2>4
  <2> QED
    BY <2>2, <2>5
<1>3. Nat \subseteq N
  <2> HIDE DEF N
  <2> QED
    BY <1>1, <1>2, Induction
<1>4. ASSUME NEW s \in Seq(S)
      PROVE  s \in T
  <2>1. Len(s) \in N
    BY <1>3, LenProperties
  <2> QED
    BY <2>1
<1> QED
  BY <1>4

\* The loops of packSeptetsFromBit and of the unpacking.
Packing(c, padding) == FoldLeft(PackSeptet, Packed(<<>>, 0, padding), c)
Unpacking(o)        == FoldLeft(UnpackOctet, Packed(<<>>, 0, 0), o)

\* Their states.
LEMMA LoopTypes ==
  /\ \A padding \in 0 .. 7 : Packed(<<>>, 0, padding) \in PackState
  /\ Packed(<<>>, 0, 0) \in UnpackState
  /\ \A padding \in 0 .. 7, c \in Seq(Septet) : Packing(c, padding) \in PackState
  /\ \A o \in Seq(Octet) : Unpacking(o) \in UnpackState
<1>1. \A padding \in 0 .. 7 : Packed(<<>>, 0, padding) \in PackState
  BY DEF Packed, PackState
<1>2. Packed(<<>>, 0, 0) \in UnpackState
  BY DEF Packed, UnpackState
<1>3. 0 \in Septet /\ 0 \in Octet
  BY DEF Septet, Octet
<1>4. \A padding \in 0 .. 7, c \in Seq(Septet) : Packing(c, padding) \in PackState
  BY <1>1, <1>3, PackGrows, Zenon DEF Packing
<1>5. \A o \in Seq(Octet) : Unpacking(o) \in UnpackState
  BY <1>2, <1>3, UnpackGrows, Zenon DEF Unpacking
<1> QED
  BY <1>1, <1>2, <1>4, <1>5

\* The unpacking stays in step with the packing.
LEMMA Lockstep ==
  ASSUME NEW padding \in 0 .. 7, NEW pre \in Seq(Octet), NEW before \in Seq(Septet),
         InStep(before, Packed(<<>>, 0, padding), Unpacking(pre)), NEW c \in Seq(Septet)
  PROVE  InStep(before \o c, Packing(c, padding), Unpacking(pre \o Packing(c, padding).dst))
<1> DEFINE T == {d \in Seq(Septet) :
                   InStep(before \o d, Packing(d, padding), Unpacking(pre \o Packing(d, padding).dst))}
<1>1. <<>> \in T
  <2>1. Packing(<<>>, padding) = Packed(<<>>, 0, padding)
    BY LoopTypes, PackGrows, Zenon DEF Packing
  <2>2. Packed(<<>>, 0, padding).dst = <<>>
    BY DEF Packed
  <2>3. before \o <<>> = before /\ pre \o <<>> = pre
    BY ConcatEmptySeq
  <2>4. <<>> \in Seq(Septet)
    OBVIOUS
  <2> QED
    BY <2>1, <2>2, <2>3, <2>4, Zenon
<1>2. ASSUME NEW d \in Seq(Septet), NEW s \in Septet, d \in T
      PROVE  Append(d, s) \in T
  <2> DEFINE r == Packing(d, padding)
             u == Unpacking(pre \o r.dst)
             n == Packing(Append(d, s), padding)
  <2>1. InStep(before \o d, r, u)
    BY <1>2, Zenon
  <2>2. n = PackSeptet(r, s)
    BY LoopTypes, PackGrows, Zenon DEF Packing
  <2>3. before \o Append(d, s) = Append(before \o d, s)
    OBVIOUS
  <2>4. Append(d, s) \in Seq(Septet)
    BY AppendProperties
  <2>5. r \in PackState
    BY <2>1, Zenon DEF InStep
  <2>6. r.dst \in Seq(Octet)
    BY <2>5 DEF PackState
  <2> HIDE DEF r, n
  <2>7. pre \o r.dst \in Seq(Octet)
    BY <2>6, ConcatProperties
  <2>8. InStep(Append(before \o d, s), n, Unpacking(pre \o n.dst))
    <3>1. CASE Even(before \o d, r, u)
      <4>1. n.dst = r.dst /\ InStep(Append(before \o d, s), n, u)
        BY <2>1, <2>2, <3>1, EvenStep, Zenon
      <4> QED
        BY <4>1, Zenon
    <3>2. CASE Open(before \o d, r, u)
      <4>1. PICK b \in Octet : /\ n.dst = Append(r.dst, b)
                               /\ InStep(Append(before \o d, s), n, UnpackOctet(u, b))
        BY <2>1, <2>2, <3>2, OpenStep, Zenon
      <4>2. pre \o Append(r.dst, b) = Append(pre \o r.dst, b)
        BY <2>6
      <4>3. Unpacking(Append(pre \o r.dst, b)) = UnpackOctet(u, b)
        BY <2>7, LoopTypes, UnpackGrows, Zenon DEF Unpacking
      <4> QED
        BY <4>1, <4>2, <4>3, Zenon
    <3> QED
      BY <2>1, <3>1, <3>2, Zenon DEF InStep
  <2> QED
    BY <2>3, <2>4, <2>8, Zenon DEF n
<1>3. Seq(Septet) \subseteq T
  <2> HIDE DEF T
  <2> QED
    BY <1>1, <1>2, SequenceInduction
<1> QED
  BY <1>3

\* The octets of the packing r, when o are the whole ones.
Flushed(r, o) == IF r.shift > 0 THEN Append(o, r.accum % 256) ELSE o

\* What is left open comes out of the last octet, perhaps with a septet of zeros.
LEMMA Flush ==
  ASSUME NEW all, NEW r, NEW o \in Seq(Octet), InStep(all, r, Unpacking(o))
  PROVE  Unpack(Flushed(r, o), Len(all)) = all
<1> DEFINE u == Unpacking(o)
           Rest(v) == IF v.shift > 0 THEN Append(v.dst, v.accum % 128) ELSE v.dst
<1>1. all \in Seq(Septet) /\ r \in PackState /\ u \in UnpackState
  BY Zenon DEF InStep
<1>2. /\ u.accum \in Nat /\ r.accum \in Nat /\ u.shift \in 0 .. 7 /\ r.shift \in 0 .. 7
      /\ u.dst \in Seq(Septet) /\ Len(all) \in Nat
  BY <1>1, LenProperties DEF PackState, UnpackState
<1>3. CASE Even(all, r, u)
  <2>1. r.shift = 0 /\ u.shift = 0 /\ u.dst = all
    BY <1>3, Zenon DEF Even
  <2>2. Flushed(r, o) = o
    BY <2>1 DEF Flushed
  <2>3. Rest(u) = all
    BY <2>1
  <2>4. Unpack(o, Len(all)) = SubSeq(Rest(u), 1, IF Len(all) < Len(Rest(u)) THEN Len(all) ELSE Len(Rest(u)))
    BY Zenon DEF Unpack, Unpacking
  <2>5. (IF Len(all) < Len(all) THEN Len(all) ELSE Len(all)) = Len(all)
    OBVIOUS
  <2>6. SubSeq(all, 1, Len(all)) = all
    BY <1>1, SubSeqFull
  <2> HIDE DEF Rest
  <2> QED
    BY <2>2, <2>3, <2>4, <2>5, <2>6, Zenon
<1>4. CASE Open(all, r, u)
  <2> DEFINE x == u.accum + r.accum * 2^u.shift
             v == UnpackOctet(u, r.accum)
  <2>1. r.shift > 0 /\ u.shift + r.shift = 7 /\ r.accum < 2^r.shift /\ all = Append(u.dst, x)
    BY <1>4, Zenon DEF Open
  <2>2. x \in Septet
    BY <1>4, OpenValue
  <2>3. r.accum \in Octet /\ r.accum % 256 = r.accum
    <3> DEFINE P == 2^r.shift
               U == 2^u.shift
    <3>1. Weights(U, P)
      BY <1>2, <2>1, WeightsOf
    <3>2. r.accum < P
      BY <2>1
    <3> HIDE DEF P, U
    <3>3. r.accum < 256
      BY <1>2, <3>1, <3>2 DEF Weights
    <3>4. \A a \in Nat : a < 256 => a \in Octet /\ a % 256 = a
      BY DEF Octet
    <3> QED
      BY <1>2, <3>3, <3>4, Zenon
  <2>4. Flushed(r, o) = Append(o, r.accum)
    BY <1>2, <2>1, <2>3 DEF Flushed
  <2>5. Unpacking(Append(o, r.accum)) = v
    BY <2>3, LoopTypes, UnpackGrows, Zenon DEF Unpacking
  <2> HIDE DEF x
  <2>6. x % 128 = x /\ x \div 128 = 0 /\ x \div 16384 = 0 /\ 0 % 128 = 0
    BY <2>2 DEF Septet
  <2>7. v = IF u.shift + 8 >= 14 THEN Packed(u.dst \o <<x, 0>>, 0, u.shift - 6)
            ELSE Packed(Append(u.dst, x), 0, u.shift + 1)
    <3>1. v = IF u.shift + 8 >= 14
              THEN Packed(u.dst \o <<x % 128, (x \div 128) % 128>>, x \div 16384, u.shift - 6)
              ELSE Packed(Append(u.dst, x % 128), x \div 128, u.shift + 1)
      BY DEF UnpackOctet, x
    <3> HIDE DEF v
    <3> QED
      BY <2>6, <3>1
  <2>8. Rest(v) = Append(all, 0)
    <3>1. CASE u.shift = 6
      <4>1. u.shift + 8 >= 14 /\ u.shift - 6 = 0
        BY <3>1
      <4>2. v = Packed(u.dst \o <<x, 0>>, 0, 0)
        BY <2>7, <4>1, Zenon
      <4> HIDE DEF v
      <4>3. v.shift = 0 /\ v.dst = u.dst \o <<x, 0>>
        BY <4>2 DEF Packed
      <4>4. Rest(v) = u.dst \o <<x, 0>>
        BY <4>3
      <4>5. u.dst \o <<x, 0>> = Append(Append(u.dst, x), 0)
        BY <1>2, <2>2 DEF Septet
      <4> QED
        BY <2>1, <4>4, <4>5, Zenon
    <3>2. CASE u.shift # 6
      <4>1. ~(u.shift + 8 >= 14) /\ u.shift + 1 > 0
        BY <1>2, <2>1, <3>2
      <4>2. v = Packed(Append(u.dst, x), 0, u.shift + 1)
        BY <2>7, <4>1, Zenon
      <4> HIDE DEF v
      <4>3. v.shift = u.shift + 1 /\ v.dst = Append(u.dst, x) /\ v.accum = 0
        BY <4>2 DEF Packed
      <4>4. Rest(v) = Append(Append(u.dst, x), 0)
        BY <2>6, <4>1, <4>3
      <4> QED
        BY <2>1, <4>4, Zenon
    <3> QED
      BY <3>1, <3>2
  <2>9. Unpack(Append(o, r.accum), Len(all)) =
          SubSeq(Rest(v), 1, IF Len(all) < Len(Rest(v)) THEN Len(all) ELSE Len(Rest(v)))
    BY <2>5, Zenon DEF Unpack, Unpacking
  <2>10. Len(Append(all, 0)) = Len(all) + 1 /\ SubSeq(Append(all, 0), 1, Len(all)) = all
    <3>1. 0 \in Septet
      BY DEF Septet
    <3> DEFINE w == Append(all, 0)
    <3>2. w \in Seq(Septet) /\ Len(w) = Len(all) + 1 /\ \A i \in 1 .. Len(all) : w[i] = all[i]
      BY <1>1, <3>1, AppendProperties
    <3> HIDE DEF w
    <3>3. SubSeq(w, 1, Len(all)) = all
      BY <1>1, <1>2, <3>2
    <3> QED
      BY <3>2, <3>3 DEF w
  <2>11. Len(all) < Len(all) + 1
    BY <1>2
  <2> HIDE DEF Rest, v
  <2> QED
    BY <2>4, <2>8, <2>9, <2>10, <2>11, Zenon
<1> QED
  BY <1>3, <1>4, Zenon DEF InStep

-----------------------------------------------------------------------------
(* Septets survive *)

\* What fits an octet or a septet.
LEMMA Residues ==
  ASSUME NEW a \in Nat
  PROVE  /\ a % 256 \in Octet /\ a % 128 \in Septet
         /\ a < 256 => a \in Octet
         /\ a < 128 => a \in Septet
BY DEF Octet, Septet

\* The octets of a packing after other octets.
LEMMA PackIs ==
  ASSUME NEW padding \in 0 .. 7, NEW pre \in Seq(Octet), NEW c \in Seq(Septet)
  PROVE  /\ Pack(c, padding) = Flushed(Packing(c, padding), Packing(c, padding).dst)
         /\ pre \o Pack(c, padding) = Flushed(Packing(c, padding), pre \o Packing(c, padding).dst)
         /\ Packing(c, padding).dst \in Seq(Octet) /\ Pack(c, padding) \in Seq(Octet)
<1> DEFINE r == Packing(c, padding)
<1>1. r \in PackState
  BY LoopTypes
<1>2. r.dst \in Seq(Octet) /\ r.shift \in 0 .. 7 /\ r.accum \in Nat
  BY <1>1 DEF PackState
<1>3. Pack(c, padding) = Flushed(r, r.dst)
  BY Zenon DEF Pack, Packing, Flushed
<1> HIDE DEF r
<1> DEFINE b == r.accum % 256
<1>4. b \in Octet
  BY <1>2, Residues
<1> HIDE DEF b
<1>5. Append(r.dst, b) \in Seq(Octet) /\ pre \o Append(r.dst, b) = Append(pre \o r.dst, b)
  BY <1>2, <1>4, AppendProperties
<1>6. /\ pre \o Flushed(r, r.dst) = Flushed(r, pre \o r.dst)
      /\ Flushed(r, r.dst) \in Seq(Octet)
  BY <1>2, <1>5, Zenon DEF Flushed, b
<1> QED
  BY <1>2, <1>3, <1>6, Zenon DEF r

\* How many octets the septets take.
LEMMA PackLength ==
  ASSUME NEW padding \in 0 .. 7, NEW c \in Seq(Septet)
  PROVE  Len(Pack(c, padding)) = (7 * Len(c) + padding + 7) \div 8
<1> DEFINE Right(d) == 8 * Len(Packing(d, padding).dst) + Packing(d, padding).shift = 7 * Len(d) + padding
           T == {d \in Seq(Septet) : Right(d)}
<1>1. <<>> \in T
  <2>1. Packing(<<>>, padding) = Packed(<<>>, 0, padding)
    BY LoopTypes, PackGrows, Zenon DEF Packing
  <2>2. Packing(<<>>, padding).dst = <<>> /\ Packing(<<>>, padding).shift = padding
    BY <2>1 DEF Packed
  <2>3. Len(<<>>) = 0 /\ <<>> \in Seq(Septet)
    OBVIOUS
  <2>4. 8 * 0 + padding = 7 * 0 + padding
    OBVIOUS
  <2> QED
    BY <2>2, <2>3, <2>4, Zenon
<1>2. ASSUME NEW d \in Seq(Septet), NEW s \in Septet, d \in T
      PROVE  Append(d, s) \in T
  <2> DEFINE r == Packing(d, padding)
             n == Packing(Append(d, s), padding)
             a == r.accum + s * 2^r.shift
  <2>1. 8 * Len(r.dst) + r.shift = 7 * Len(d) + padding
    BY <1>2, Zenon
  <2>2. n = PackSeptet(r, s)
    BY LoopTypes, PackGrows, Zenon DEF Packing
  <2>3. Append(d, s) \in Seq(Septet) /\ Len(Append(d, s)) = Len(d) + 1 /\ Len(d) \in Nat
    BY AppendProperties, LenProperties
  <2>4. r \in PackState /\ n \in PackState
    BY <2>3, LoopTypes
  <2> HIDE DEF r, n
  <2>5. r.dst \in Seq(Octet) /\ r.shift \in 0 .. 7 /\ Len(r.dst) \in Nat
    BY <2>4, LenProperties DEF PackState
  <2>6. CASE r.shift > 0
    <3>1. r.shift + 7 >= 8
      BY <2>5, <2>6
    <3>2. n = Packed(Append(r.dst, a % 256), a \div 256, r.shift - 1)
      BY <2>2, <3>1, Zenon DEF PackSeptet
    <3> HIDE DEF a
    <3>3. n.dst = Append(r.dst, a % 256) /\ n.shift = r.shift - 1
      BY <3>2 DEF Packed
    <3>4. Len(n.dst) = Len(r.dst) + 1
      BY <2>5, <3>3
    <3>5. 8 * Len(n.dst) + n.shift = 7 * (Len(d) + 1) + padding
      <4>1. \A m, k \in Nat, q \in 0 .. 7 :
              8 * m + q = 7 * k + padding => 8 * (m + 1) + (q - 1) = 7 * (k + 1) + padding
        OBVIOUS
      <4> QED
        <5>1. 8 * (Len(r.dst) + 1) + (r.shift - 1) = 7 * (Len(d) + 1) + padding
          BY <2>1, <2>3, <2>5, <4>1, Zenon
        <5> QED
          BY <3>3, <3>4, <5>1, Zenon
    <3> QED
      BY <2>3, <3>5, Zenon DEF n
  <2>7. CASE ~(r.shift > 0)
    <3>1. ~(r.shift + 7 >= 8) /\ r.shift = 0
      BY <2>5, <2>7
    <3>2. n = Packed(r.dst, a, r.shift + 7)
      BY <2>2, <3>1, Zenon DEF PackSeptet
    <3> HIDE DEF a
    <3>3. n.dst = r.dst /\ n.shift = r.shift + 7
      BY <3>2 DEF Packed
    <3>4. 8 * Len(n.dst) + n.shift = 7 * (Len(d) + 1) + padding
      <4>1. \A m, k \in Nat, q \in 0 .. 7 :
              8 * m + q = 7 * k + padding => 8 * m + (q + 7) = 7 * (k + 1) + padding
        OBVIOUS
      <4> QED
        <5>1. 8 * Len(r.dst) + (r.shift + 7) = 7 * (Len(d) + 1) + padding
          BY <2>1, <2>3, <2>5, <4>1, Zenon
        <5> QED
          BY <3>3, <5>1, Zenon
    <3> QED
      BY <2>3, <3>4, Zenon DEF n
  <2> QED
    BY <2>6, <2>7
<1>3. Seq(Septet) \subseteq T
  <2> HIDE DEF T
  <2> QED
    BY <1>1, <1>2, SequenceInduction
<1> DEFINE r == Packing(c, padding)
<1>4. 8 * Len(r.dst) + r.shift = 7 * Len(c) + padding
  BY <1>3, Zenon
<1>5. r \in PackState /\ <<>> \in Seq(Octet)
  BY LoopTypes
<1>6. Pack(c, padding) = Flushed(r, r.dst)
  BY <1>5, PackIs, Zenon
<1> HIDE DEF r
<1>7. r.dst \in Seq(Octet) /\ r.shift \in 0 .. 7 /\ Len(r.dst) \in Nat /\ Len(c) \in Nat
  BY <1>5, LenProperties DEF PackState
<1>8. Len(Append(r.dst, r.accum % 256)) = Len(r.dst) + 1
  BY <1>7
<1>9. Len(Flushed(r, r.dst)) = IF r.shift > 0 THEN Len(r.dst) + 1 ELSE Len(r.dst)
  BY <1>8, Zenon DEF Flushed
<1> DEFINE l == Len(Flushed(r, r.dst))
           m == Len(r.dst)
           k == Len(c)
           p == r.shift
<1>10. /\ m \in Nat /\ k \in Nat /\ p \in 0 .. 7 /\ 8 * m + p = 7 * k + padding
       /\ l = IF p > 0 THEN m + 1 ELSE m
  BY <1>4, <1>7, <1>9
<1> HIDE DEF l, m, k, p
<1>11. l = (7 * k + padding + 7) \div 8
  BY <1>10
<1> QED
  BY <1>6, <1>11 DEF l, k

\* Six octets leave six bits open.
LEMMA HeaderUnpacked ==
  ASSUME NEW h \in Seq(Octet), Len(h) = 6
  PROVE  Unpacking(h).shift = 6 /\ Len(Unpacking(h).dst) = 6 /\ Unpacking(h).accum < 2^6
<1> DEFINE Right(d) == /\ Unpacking(d).shift = Len(d) /\ Len(Unpacking(d).dst) = Len(d)
                       /\ Unpacking(d).accum < 2^Len(d)
           T == {d \in Seq(Octet) : Len(d) <= 6 => Right(d)}
<1>1. <<>> \in T
  <2>1. Unpacking(<<>>) = Packed(<<>>, 0, 0)
    BY LoopTypes, UnpackGrows, Zenon DEF Unpacking
  <2>2. Unpacking(<<>>).dst = <<>> /\ Unpacking(<<>>).shift = 0 /\ Unpacking(<<>>).accum = 0
    BY <2>1 DEF Packed
  <2>3. Len(<<>>) = 0 /\ <<>> \in Seq(Octet) /\ 0 < 1
    OBVIOUS
  <2> QED
    BY <2>2, <2>3, Powers, Zenon
<1>2. ASSUME NEW d \in Seq(Octet), NEW b \in Octet, d \in T
      PROVE  Append(d, b) \in T
  <2>1. Append(d, b) \in Seq(Octet) /\ Len(Append(d, b)) = Len(d) + 1 /\ Len(d) \in Nat
    BY AppendProperties, LenProperties
  <2> SUFFICES ASSUME Len(d) + 1 <= 6
               PROVE  Right(Append(d, b))
    BY <2>1
  <2> DEFINE u == Unpacking(d)
             n == Unpacking(Append(d, b))
             U == 2^Len(d)
             V == 2^(Len(d) + 1)
             a == u.accum + b * U
  <2>2. u.shift = Len(d) /\ Len(u.dst) = Len(d) /\ u.accum < U
    <3>1. Len(d) <= 6
      BY <2>1
    <3> QED
      BY <1>2, <3>1, Zenon
  <2>3. n = UnpackOctet(u, b)
    BY LoopTypes, UnpackGrows, Zenon DEF Unpacking
  <2>4. u \in UnpackState
    BY <2>1, LoopTypes
  <2> HIDE DEF u, n
  <2>5. u.dst \in Seq(Septet) /\ u.accum \in Nat
    BY <2>4 DEF UnpackState
  <2>6. n = Packed(Append(u.dst, a % 128), a \div 128, u.shift + 1)
    <3>1. ~(u.shift + 8 >= 14)
      BY <2>1, <2>2
    <3>2. n = Packed(Append(u.dst, (u.accum + b * 2^u.shift) % 128), (u.accum + b * 2^u.shift) \div 128, u.shift + 1)
      BY <2>3, <3>1 DEF UnpackOctet
    <3> QED
      BY <2>2, <3>2, Zenon
  <2>7. U \in Nat /\ V = 2 * U
    <3>1. Len(d) \in 0 .. 7 /\ 7 - Len(d) \in 0 .. 7 /\ 7 - Len(d) > 0 /\ Len(d) + (7 - Len(d)) = 7
      <4>1. \A l \in Nat : l + 1 <= 6 =>
              l \in 0 .. 7 /\ 7 - l \in 0 .. 7 /\ 7 - l > 0 /\ l + (7 - l) = 7
        OBVIOUS
      <4> QED
        BY <2>1, <4>1, Zenon
    <3> QED
      BY <3>1, WeightsOf
  <2> HIDE DEF U, V
  <2> DEFINE more == b * U
  <2>8. more \in Nat /\ more <= 255 * U
    BY <2>7 DEF Octet
  <2> HIDE DEF more
  <2>9. a \div 128 < V
    <3>1. a = u.accum + more
      BY DEF more
    <3> DEFINE q == u.accum
    <3>2. q \in Nat /\ q < U
      BY <2>2, <2>5
    <3> HIDE DEF q
    <3>3. a = q + more
      BY <3>1 DEF q
    <3> HIDE DEF a
    <3> QED
      BY <2>7, <2>8, <3>2, <3>3
  <2> HIDE DEF a
  <2>10. n.dst = Append(u.dst, a % 128) /\ n.accum = a \div 128 /\ n.shift = u.shift + 1
    BY <2>6 DEF Packed
  <2>11. Len(n.dst) = Len(u.dst) + 1
    BY <2>5, <2>10
  <2> QED
    BY <2>1, <2>2, <2>9, <2>10, <2>11, Zenon DEF n, V
<1>3. Seq(Octet) \subseteq T
  <2> HIDE DEF T
  <2> QED
    BY <1>1, <1>2, SequenceInduction
<1>4. Right(h)
  <2>1. Len(h) <= 6
    OBVIOUS
  <2> QED
    BY <1>3, <2>1, Zenon
<1> QED
  BY <1>4, Zenon

\* Whatever the septets of a text or of a part are, unpacking gives them back:
\* also after the six octets of a header, and one bit, of a part (sms.go:342, 369).
THEOREM SeptetsSurvive ==
  ASSUME NEW c \in Seq(0 .. 127)
  PROVE  /\ Unpack(Pack(c, 0), Len(c)) = c
         /\ \A h \in Seq(0 .. 255) :
              Len(h) = 6 => /\ Len(Unpack(h \o Pack(c, 1), 7 + Len(c))) = 7 + Len(c)
                            /\ SubSeq(Unpack(h \o Pack(c, 1), 7 + Len(c)), 8, 7 + Len(c)) = c
<1>0. c \in Seq(Septet) /\ Len(c) \in Nat
  BY LenProperties DEF Septet
<1>1. Unpack(Pack(c, 0), Len(c)) = c
  <2> DEFINE start == Packed(<<>>, 0, 0)
  <2>1. Unpacking(<<>>) = start
    BY LoopTypes, UnpackGrows, Zenon DEF Unpacking
  <2>2. start \in PackState /\ start \in UnpackState
    BY LoopTypes
  <2>3. <<>> \in Seq(Septet) /\ <<>> \in Seq(Octet)
    OBVIOUS
  <2>4. InStep(<<>>, start, Unpacking(<<>>))
    <3>1. start.dst = <<>> /\ start.accum = 0 /\ start.shift = 0
      BY DEF Packed
    <3> HIDE DEF start
    <3> QED
      BY <2>1, <2>2, <2>3, <3>1, Zenon DEF InStep, Even
  <2>5. Packing(c, 0).dst \in Seq(Octet)
    <3>1. 0 \in 0 .. 7
      OBVIOUS
    <3> QED
      BY <1>0, <2>3, <3>1, PackIs, Zenon
  <2>6. <<>> \o c = c /\ <<>> \o Packing(c, 0).dst = Packing(c, 0).dst
    BY <1>0, <2>5, ConcatEmptySeq
  <2>7. 0 \in 0 .. 7
    OBVIOUS
  <2> HIDE DEF start
  <2>8. InStep(<<>> \o c, Packing(c, 0), Unpacking(<<>> \o Packing(c, 0).dst))
    BY <1>0, <2>3, <2>4, <2>7, Lockstep, Zenon DEF start
  <2>9. Unpack(Flushed(Packing(c, 0), Packing(c, 0).dst), Len(c)) = c
    BY <2>5, <2>6, <2>8, Flush, Zenon
  <2> QED
    BY <1>0, <2>3, <2>7, <2>9, PackIs, Zenon
<1>2. ASSUME NEW h \in Seq(Octet), Len(h) = 6
      PROVE  /\ Len(Unpack(h \o Pack(c, 1), 7 + Len(c))) = 7 + Len(c)
             /\ SubSeq(Unpack(h \o Pack(c, 1), 7 + Len(c)), 8, 7 + Len(c)) = c
  <2> DEFINE start == Packed(<<>>, 0, 1)
             u == Unpacking(h)
             before == Append(u.dst, u.accum)
  <2>1. u.shift = 6 /\ Len(u.dst) = 6 /\ u.accum < 2^6
    BY <1>2, HeaderUnpacked
  <2>2. start \in PackState /\ u \in UnpackState
    BY LoopTypes
  <2> HIDE DEF u
  <2>3. u.dst \in Seq(Septet) /\ u.accum \in Nat
    BY <2>2 DEF UnpackState
  <2>4. u.accum \in Septet
    <3>1. u.accum < 64
      BY <2>1, Powers, Zenon
    <3>2. u.accum < 128
      <4>1. \A a \in Nat : a < 64 => a < 128
        OBVIOUS
      <4> QED
        BY <2>3, <3>1, <4>1, Zenon
    <3> QED
      BY <2>3, <3>2, Residues, Zenon
  <2>5. before \in Seq(Septet) /\ Len(before) = 7
    <3>1. before \in Seq(Septet) /\ Len(before) = Len(u.dst) + 1
      BY <2>3, <2>4, AppendProperties
    <3>2. 6 + 1 = 7
      OBVIOUS
    <3> QED
      BY <2>1, <3>1, <3>2, Zenon
  <2>6. InStep(before, start, u)
    <3>1. start.dst = <<>> /\ start.accum = 0 /\ start.shift = 1
      BY DEF Packed
    <3> HIDE DEF start
    <3>2. start.shift > 0 /\ u.shift + start.shift = 7 /\ 0 < 2
      BY <2>1, <3>1
    <3>3. start.accum < 2^start.shift
      BY <3>1, <3>2, Powers, Zenon
    <3>4. u.accum + start.accum * 2^u.shift = u.accum
      <4>1. 2^u.shift = 64
        BY <2>1, Powers, Zenon
      <4> QED
        BY <2>3, <3>1, <4>1
    <3>5. u.accum < 2^u.shift
      BY <2>1, Zenon
    <3>6. Open(before, start, u)
      BY <3>2, <3>3, <3>4, <3>5, Zenon DEF Open
    <3> HIDE DEF before
    <3> QED
      BY <2>2, <2>5, <3>6, Zenon DEF InStep
  <2>7. 1 \in 0 .. 7
    OBVIOUS
  <2>8. Packing(c, 1).dst \in Seq(Octet)
    BY <1>0, <2>7, PackIs
  <2>9. h \o Packing(c, 1).dst \in Seq(Octet)
    BY <2>8, ConcatProperties
  <2> HIDE DEF start, before
  <2>10. InStep(before \o c, Packing(c, 1), Unpacking(h \o Packing(c, 1).dst))
    BY <1>0, <2>5, <2>6, <2>7, Lockstep, Zenon DEF start, u
  <2>11. Unpack(Flushed(Packing(c, 1), h \o Packing(c, 1).dst), Len(before \o c)) = before \o c
    BY <2>9, <2>10, Flush, Zenon
  <2>12. Unpack(h \o Pack(c, 1), Len(before \o c)) = before \o c
    BY <1>0, <2>7, <2>11, PackIs, Zenon
  <2>13. Len(before \o c) = 7 + Len(c) /\ SubSeq(before \o c, 8, 7 + Len(c)) = c
    <3>1. before \o c \in Seq(Septet) /\ Len(before \o c) = 7 + Len(c)
          /\ \A i \in 1 .. 7 + Len(c) : (before \o c)[i] = IF i <= 7 THEN before[i] ELSE c[i - 7]
      <4>1. \A t \in Seq(Septet) : Len(t) = 7 =>
              /\ t \o c \in Seq(Septet) /\ Len(t \o c) = 7 + Len(c)
              /\ \A i \in 1 .. 7 + Len(c) : (t \o c)[i] = IF i <= 7 THEN t[i] ELSE c[i - 7]
        <5> SUFFICES ASSUME NEW t \in Seq(Septet), Len(t) = 7
                     PROVE  /\ t \o c \in Seq(Septet) /\ Len(t \o c) = 7 + Len(c)
                            /\ \A i \in 1 .. 7 + Len(c) : (t \o c)[i] = IF i <= 7 THEN t[i] ELSE c[i - 7]
          OBVIOUS
        <5>1. /\ t \o c \in Seq(Septet) /\ Len(t \o c) = Len(t) + Len(c)
              /\ \A i \in 1 .. Len(t) + Len(c) : (t \o c)[i] = IF i <= Len(t) THEN t[i] ELSE c[i - Len(t)]
          BY <1>0, ConcatProperties
        <5> QED
          BY <5>1, Zenon
      <4> QED
        BY <2>5, <4>1, Zenon
    <3> DEFINE w == before \o c
    <3> HIDE DEF w
    <3>2. SubSeq(w, 8, 7 + Len(c)) = c
      <4>1. w \in Seq(Septet) /\ Len(w) = 7 + Len(c) /\ \A i \in 1 .. Len(c) : w[i + 7] = c[i]
        BY <1>0, <3>1 DEF w
      <4> QED
        BY <1>0, <4>1
    <3> QED
      BY <3>1, <3>2 DEF w
  <2> QED
    BY <2>12, <2>13, Zenon
<1> QED
  BY <1>1, <1>2, Zenon DEF Octet

-----------------------------------------------------------------------------
(* Characters and their codes *)

\* g has what the first sequences of s flatten to, up to n.
Flattened(s, g, n) == g[1] = s[1] /\ \A i \in 1 .. n - 1 : g[i + 1] = g[i] \o s[i + 1]

\* Two sequences with the same elements up to n flatten alike up to n.
LEMMA FlatAgree ==
  ASSUME NEW s, NEW t, NEW g, NEW h, NEW n \in Nat, n >= 1,
         Flattened(s, g, n), Flattened(t, h, n), Alike(s, t, n)
  PROVE  g[n] = h[n]
<1>0. /\ g[1] = s[1] /\ h[1] = t[1]
      /\ \A i \in 1 .. n - 1 : g[i + 1] = g[i] \o s[i + 1]
      /\ \A i \in 1 .. n - 1 : h[i + 1] = h[i] \o t[i + 1]
      /\ \A i \in 1 .. n : s[i] = t[i]
  BY Zenon DEF Flattened, Alike
<1> DEFINE T == {k \in Nat : k + 1 <= n => g[k + 1] = h[k + 1]}
<1>1. 0 \in T
  <2>1. 1 \in 1 .. n /\ 0 + 1 = 1
    OBVIOUS
  <2>2. g[1] = h[1]
    BY <1>0, <2>1
  <2> QED
    BY <2>1, <2>2
<1>2. ASSUME NEW k \in Nat, k \in T
      PROVE  k + 1 \in T
  <2> SUFFICES ASSUME (k + 1) + 1 <= n
               PROVE  g[(k + 1) + 1] = h[(k + 1) + 1]
    OBVIOUS
  <2>1. k + 1 <= n /\ k + 1 \in 1 .. n - 1 /\ (k + 1) + 1 \in 1 .. n
    OBVIOUS
  <2>2. g[k + 1] = h[k + 1]
    BY <1>2, <2>1
  <2> QED
    BY <1>0, <2>1, <2>2, Zenon
<1>3. Nat \subseteq T
  <2> HIDE DEF T
  <2> QED
    BY <1>1, <1>2, Induction
<1>4. n - 1 \in Nat /\ (n - 1) + 1 = n /\ n <= n
  OBVIOUS
<1>5. n - 1 \in T
  BY <1>3, <1>4
<1> QED
  BY <1>4, <1>5

\* Flattening one sequence more.
LEMMA FlattenAppend ==
  ASSUME NEW S, NEW s \in Seq(Seq(S)), NEW x \in Seq(S)
  PROVE  FlattenSeq(Append(s, x)) = FlattenSeq(s) \o x
<1> DEFINE t == Append(s, x)
<1>1. /\ t \in Seq(Seq(S)) /\ Len(s) \in Nat /\ Len(t) = Len(s) + 1
      /\ t[Len(s) + 1] = x /\ \A i \in 1 .. Len(s) : s[i] = t[i]
  BY AppendProperties, LenProperties
<1> HIDE DEF t
<1>2. PICK h : /\ h[1] = t[1]
               /\ \A i \in 1 .. Len(t) - 1 : h[i + 1] = h[i] \o t[i + 1]
               /\ FlattenSeq(t) = h[Len(t)]
  <2>1. Len(t) \in Nat /\ Len(t) # 0
    BY <1>1
  <2> QED
    BY <2>1, FlatTrace
<1>3. CASE Len(s) = 0
  <2>1. s = <<>>
    BY <1>3
  <2>2. FlattenSeq(s) = s
    BY <1>3, Zenon DEF FlattenSeq
  <2>3. <<>> \o x = x
    BY ConcatEmptySeq
  <2>4. h[Len(t)] = x
    BY <1>1, <1>2, <1>3
  <2> QED
    BY <1>2, <2>1, <2>2, <2>3, <2>4, Zenon DEF t
<1>4. CASE Len(s) # 0
  <2>1. PICK g : /\ g[1] = s[1]
                 /\ \A i \in 1 .. Len(s) - 1 : g[i + 1] = g[i] \o s[i + 1]
                 /\ FlattenSeq(s) = g[Len(s)]
    BY <1>1, <1>4, FlatTrace
  <2> DEFINE n == Len(s)
  <2>2. n \in Nat /\ n >= 1 /\ n \in 1 .. Len(t) - 1 /\ Len(t) = n + 1
    BY <1>1, <1>4
  <2>3. \A i \in 1 .. n - 1 : h[i + 1] = h[i] \o t[i + 1]
    <3>1. \A i \in 1 .. n - 1 : i \in 1 .. Len(t) - 1
      BY <2>2
    <3> QED
      BY <1>2, <3>1, Zenon
  <2>4. g[n] = h[n]
    <3>1. Flattened(s, g, n)
      BY <2>1, Zenon DEF Flattened
    <3>2. Flattened(t, h, n)
      BY <1>2, <2>3, Zenon DEF Flattened
    <3>3. Alike(s, t, n)
      BY <1>1, <2>2 DEF Alike
    <3> HIDE DEF n
    <3> QED
      BY <2>2, <3>1, <3>2, <3>3, FlatAgree
  <2>5. h[n + 1] = h[n] \o t[n + 1]
    BY <1>2, <2>2, Zenon
  <2> QED
    BY <1>1, <1>2, <2>1, <2>2, <2>4, <2>5, Zenon DEF t
<1> QED
  BY <1>3, <1>4

\* Flattening nothing.
LEMMA FlattenEmpty == FlattenSeq(<<>>) = <<>>
<1>1. Len(<<>>) = 0
  OBVIOUS
<1> QED
  BY <1>1, Zenon DEF FlattenSeq

\* What flattening gives.
LEMMA FlattenType ==
  ASSUME NEW S, NEW s \in Seq(Seq(S))
  PROVE  FlattenSeq(s) \in Seq(S)
<1> DEFINE T == {t \in Seq(Seq(S)) : FlattenSeq(t) \in Seq(S)}
<1>1. <<>> \in T
  <2>1. <<>> \in Seq(S) /\ <<>> \in Seq(Seq(S))
    OBVIOUS
  <2> QED
    BY <2>1, FlattenEmpty, Zenon
<1>2. ASSUME NEW t \in Seq(Seq(S)), NEW x \in Seq(S), t \in T
      PROVE  Append(t, x) \in T
  <2>1. FlattenSeq(Append(t, x)) = FlattenSeq(t) \o x
    BY FlattenAppend
  <2>2. FlattenSeq(t) \o x \in Seq(S)
    BY <1>2, ConcatProperties
  <2>3. Append(t, x) \in Seq(Seq(S))
    BY AppendProperties
  <2> QED
    BY <2>1, <2>2, <2>3, Zenon
<1>3. Seq(Seq(S)) \subseteq T
  <2> HIDE DEF T
  <2> QED
    BY <1>1, <1>2, SequenceInduction
<1> QED
  BY <1>3

\* code gives every character of C some codes of X.
Codes(C, code, X) == \A c \in C : code[c] \in Seq(X)

\* The codes of one character more.
LEMMA SpellGrows ==
  ASSUME NEW C, NEW code, NEW X, Codes(C, code, X)
  PROVE  /\ Spell(code, <<>>) = <<>>
         /\ \A t \in Seq(C) : Spell(code, t) \in Seq(X)
         /\ \A t \in Seq(C), c \in C : Spell(code, Append(t, c)) = Spell(code, t) \o code[c]
<1>0. \A c \in C : code[c] \in Seq(X)
  BY Zenon DEF Codes
<1> DEFINE Mapped(t) == [i \in DOMAIN t |-> code[t[i]]]
<1>1. ASSUME NEW t \in Seq(C)
      PROVE  Mapped(t) \in Seq(Seq(X)) /\ Spell(code, t) \in Seq(X)
  <2>1. DOMAIN t = 1 .. Len(t) /\ Len(t) \in Nat
    BY LenProperties
  <2>2. \A i \in 1 .. Len(t) : code[t[i]] \in Seq(X)
    BY <1>0, ElementOfSeq
  <2>3. Mapped(t) \in Seq(Seq(X))
    <3>1. Mapped(t) = [i \in 1 .. Len(t) |-> Mapped(t)[i]]
      BY <2>1, Zenon
    <3>2. \A i \in 1 .. Len(t) : Mapped(t)[i] \in Seq(X)
      BY <2>1, <2>2, Zenon
    <3> HIDE DEF Mapped
    <3> QED
      BY <2>1, <3>1, <3>2, IsSequence
  <2> HIDE DEF Mapped
  <2>4. FlattenSeq(Mapped(t)) \in Seq(X)
    BY <2>3, FlattenType
  <2> QED
    BY <2>3, <2>4, Zenon DEF Spell, Mapped
<1>2. Spell(code, <<>>) = <<>>
  <2>1. Mapped(<<>>) = <<>>
    OBVIOUS
  <2> QED
    BY <2>1, FlattenEmpty, Zenon DEF Spell
<1>3. ASSUME NEW t \in Seq(C), NEW c \in C
      PROVE  Spell(code, Append(t, c)) = Spell(code, t) \o code[c]
  <2> DEFINE u == Append(t, c)
             x == code[c]
  <2>1. /\ u \in Seq(C) /\ Len(t) \in Nat /\ Len(u) = Len(t) + 1
        /\ u[Len(t) + 1] = c /\ \A i \in 1 .. Len(t) : u[i] = t[i]
        /\ DOMAIN u = 1 .. Len(u) /\ DOMAIN t = 1 .. Len(t)
    BY AppendProperties, LenProperties
  <2> HIDE DEF u
  <2>2. x \in Seq(X)
    BY <1>0
  <2>3. Mapped(t) \in Seq(Seq(X)) /\ Mapped(u) \in Seq(Seq(X))
    BY <1>1, <2>1, Zenon
  <2>4. Mapped(u) = Append(Mapped(t), x)
    <3> DEFINE a == Mapped(t)
               b == Mapped(u)
    <3>1. DOMAIN a = 1 .. Len(t) /\ DOMAIN b = 1 .. Len(t) + 1
      BY <2>1, Zenon
    <3>2. \A i \in 1 .. Len(t) : b[i] = a[i]
      <4>1. \A i \in 1 .. Len(t) : i \in DOMAIN u /\ i \in DOMAIN t
        BY <2>1
      <4> QED
        BY <2>1, <4>1, Zenon
    <3>3. b[Len(t) + 1] = x
      <4>1. Len(t) + 1 \in DOMAIN u
        BY <2>1
      <4> QED
        BY <2>1, <4>1, Zenon
    <3>4. a \in Seq(Seq(X)) /\ b \in Seq(Seq(X))
      BY <2>3
    <3> HIDE DEF a, b, x, Mapped
    <3>5. Len(a) = Len(t) /\ Len(b) = Len(t) + 1
      BY <2>1, <3>1, <3>4
    <3>6. b = Append(a, x)
      BY <2>1, <2>2, <3>2, <3>3, <3>4, <3>5
    <3> QED
      BY <3>6 DEF a, b
  <2> HIDE DEF Mapped, x
  <2>5. FlattenSeq(Append(Mapped(t), x)) = FlattenSeq(Mapped(t)) \o x
    BY <2>2, <2>3, FlattenAppend
  <2> QED
    BY <2>4, <2>5, Zenon DEF Spell, Mapped, x, u
<1> QED
  BY <1>1, <1>2, <1>3, Zenon

\* The codes of two texts, one after the other.
LEMMA SpellConcat ==
  ASSUME NEW C, NEW code, NEW X, Codes(C, code, X), NEW a \in Seq(C), NEW b \in Seq(C)
  PROVE  Spell(code, a \o b) = Spell(code, a) \o Spell(code, b)
<1> DEFINE T == {t \in Seq(C) : Spell(code, a \o t) = Spell(code, a) \o Spell(code, t)}
<1>0. Spell(code, a) \in Seq(X) /\ <<>> \in Seq(C)
  BY SpellGrows, Zenon, EmptySeq
<1>1. <<>> \in T
  <2>1. a \o <<>> = a /\ Spell(code, a) \o <<>> = Spell(code, a)
    BY <1>0, ConcatEmptySeq
  <2>2. Spell(code, <<>>) = <<>>
    BY SpellGrows, Zenon
  <2> QED
    BY <1>0, <2>1, <2>2, Zenon
<1>2. ASSUME NEW t \in Seq(C), NEW c \in C, t \in T
      PROVE  Append(t, c) \in T
  <2>1. Append(t, c) \in Seq(C) /\ a \o t \in Seq(C)
    BY AppendProperties, ConcatProperties
  <2>2. a \o Append(t, c) = Append(a \o t, c)
    OBVIOUS
  <2>3. Spell(code, Append(a \o t, c)) = Spell(code, a \o t) \o code[c]
    BY <2>1, SpellGrows, Zenon
  <2>4. Spell(code, Append(t, c)) = Spell(code, t) \o code[c]
    BY SpellGrows, Zenon
  <2>5. Spell(code, t) \in Seq(X) /\ code[c] \in Seq(X)
    BY SpellGrows, Zenon DEF Codes
  <2>6. (Spell(code, a) \o Spell(code, t)) \o code[c] = Spell(code, a) \o (Spell(code, t) \o code[c])
    <3>1. \A x, y, z \in Seq(X) : (x \o y) \o z = x \o (y \o z)
      BY ConcatAssociative
    <3> QED
      BY <1>0, <2>5, <3>1, Zenon
  <2> QED
    BY <1>2, <2>1, <2>2, <2>3, <2>4, <2>6, Zenon
<1>3. Seq(C) \subseteq T
  <2> HIDE DEF T
  <2> QED
    BY <1>1, <1>2, SequenceInduction
<1> QED
  BY <1>3

\* The characters of a message, those of the alphabet of septets, and what the
\* decoding may make of codes.
Signs   == {"at", "e", "space", "euro", "cyr", "emoji"}
Basic   == {"at", "e", "space", "euro"}
Letters == Signs \cup {"other", "half", "bad"}

\* The two codes, character by character.
LEMMA TheCodes ==
  /\ DOMAIN Septets = Basic /\ DOMAIN Units = Signs
  /\ Septets["at"] = <<0>> /\ Septets["e"] = <<101>> /\ Septets["space"] = <<32>>
  /\ Septets["euro"] = <<Escape, 101>>
  /\ Units["at"] = <<64>> /\ Units["e"] = <<101>> /\ Units["space"] = <<32>>
  /\ Units["euro"] = <<8364>> /\ Units["cyr"] = <<1046>> /\ Units["emoji"] = <<High, Low>>
<1>1. DOMAIN Septets = Basic /\ DOMAIN Units = Signs
  BY DEF Septets, Units, Basic, Signs
<1>2. /\ Septets["at"] = <<0>> /\ Septets["e"] = <<101>> /\ Septets["space"] = <<32>>
      /\ Septets["euro"] = <<Escape, 101>>
  BY DEF Septets
<1>3. /\ Units["at"] = <<64>> /\ Units["e"] = <<101>> /\ Units["space"] = <<32>>
      /\ Units["euro"] = <<8364>> /\ Units["cyr"] = <<1046>> /\ Units["emoji"] = <<High, Low>>
  BY DEF Units
<1> QED
  BY <1>1, <1>2, <1>3

Unit == 0 .. 65535

\* They are codes of septets, and of 16 bits.
LEMMA CodesFit ==
  Codes(Basic, Septets, Septet) /\ Codes(Signs, Units, Unit)
<1>1. ASSUME NEW c \in Basic
      PROVE  Septets[c] \in Seq(Septet)
  <2>1. <<0>> \in Seq(Septet) /\ <<101>> \in Seq(Septet) /\ <<32>> \in Seq(Septet) /\ <<Escape, 101>> \in Seq(Septet)
    BY DEF Escape, Septet
  <2>2. c = "at" \/ c = "e" \/ c = "space" \/ c = "euro"
    BY DEF Basic
  <2>3. Septets[c] = <<0>> \/ Septets[c] = <<101>> \/ Septets[c] = <<32>> \/ Septets[c] = <<Escape, 101>>
    BY <2>2, TheCodes
  <2> QED
    BY <2>1, <2>3, Zenon
<1>2. ASSUME NEW c \in Signs
      PROVE  Units[c] \in Seq(Unit)
  <2>1. c = "at" \/ c = "e" \/ c = "space" \/ c = "euro" \/ c = "cyr" \/ c = "emoji"
    BY DEF Signs
  <2>2. (\E x \in Unit : Units[c] = <<x>>) \/ (\E x, y \in Unit : Units[c] = <<x, y>>)
    <3>1. /\ 64 \in Unit /\ 101 \in Unit /\ 32 \in Unit /\ 8364 \in Unit /\ 1046 \in Unit
          /\ High \in Unit /\ Low \in Unit
      BY DEF Unit, High, Low
    <3> QED
      BY <2>1, <3>1, TheCodes
  <2>3. \A x, y \in Unit : <<x>> \in Seq(Unit) /\ <<x, y>> \in Seq(Unit)
    OBVIOUS
  <2> QED
    BY <2>2, <2>3, Zenon
<1> QED
  BY <1>1, <1>2, Zenon DEF Codes

\* c is the only character of the code s.
Only(code, s, c) ==
  /\ c \in DOMAIN code /\ code[c] = <<s>>
  /\ \A d \in DOMAIN code : code[d] = <<s>> => d = c

\* One code stands for one character.
LEMMA SignIs ==
  ASSUME NEW code, NEW s, NEW c, Only(code, s, c)
  PROVE  Sign(code, s) = c
<1>1. \E d \in DOMAIN code : code[d] = <<s>>
  BY Zenon DEF Only
<1> DEFINE e == CHOOSE d \in DOMAIN code : code[d] = <<s>>
<1>2. e \in DOMAIN code /\ code[e] = <<s>>
  BY <1>1
<1> HIDE DEF e
<1>3. e = c
  BY <1>2, Zenon DEF Only
<1>4. Sign(code, s) = e
  BY <1>1 DEF Sign, e
<1> QED
  BY <1>3, <1>4

\* The characters of one code.
LEMMA SignsAre ==
  /\ Sign(Septets, 0) = "at" /\ Sign(Septets, 101) = "e" /\ Sign(Septets, 32) = "space"
  /\ Sign(Units, 64) = "at" /\ Sign(Units, 101) = "e" /\ Sign(Units, 32) = "space"
  /\ Sign(Units, 8364) = "euro" /\ Sign(Units, 1046) = "cyr"
  /\ \A s : Sign(Septets, s) \in Letters /\ Sign(Units, s) \in Letters
<1>1. /\ <<0>> # <<101>> /\ <<0>> # <<32>> /\ <<101>> # <<32>>
      /\ <<Escape, 101>> # <<0>> /\ <<Escape, 101>> # <<101>> /\ <<Escape, 101>> # <<32>>
  BY DEF Escape
<1>2. /\ <<64>> # <<101>> /\ <<64>> # <<32>> /\ <<64>> # <<8364>> /\ <<64>> # <<1046>>
      /\ <<101>> # <<8364>> /\ <<101>> # <<1046>> /\ <<32>> # <<8364>> /\ <<32>> # <<1046>>
      /\ <<8364>> # <<1046>>
      /\ <<High, Low>> # <<64>> /\ <<High, Low>> # <<101>> /\ <<High, Low>> # <<32>>
      /\ <<High, Low>> # <<8364>> /\ <<High, Low>> # <<1046>>
  BY DEF High, Low
<1>3. /\ \A d \in DOMAIN Septets : Septets[d] = <<0>> => d = "at"
      /\ \A d \in DOMAIN Septets : Septets[d] = <<101>> => d = "e"
      /\ \A d \in DOMAIN Septets : Septets[d] = <<32>> => d = "space"
  BY <1>1, TheCodes DEF Basic
<1>4. /\ \A d \in DOMAIN Units : Units[d] = <<64>> => d = "at"
      /\ \A d \in DOMAIN Units : Units[d] = <<101>> => d = "e"
      /\ \A d \in DOMAIN Units : Units[d] = <<32>> => d = "space"
      /\ \A d \in DOMAIN Units : Units[d] = <<8364>> => d = "euro"
      /\ \A d \in DOMAIN Units : Units[d] = <<1046>> => d = "cyr"
  BY <1>2, TheCodes DEF Signs
<1>5. /\ "at" \in DOMAIN Septets /\ "e" \in DOMAIN Septets /\ "space" \in DOMAIN Septets
      /\ "at" \in DOMAIN Units /\ "e" \in DOMAIN Units /\ "space" \in DOMAIN Units
      /\ "euro" \in DOMAIN Units /\ "cyr" \in DOMAIN Units
  BY TheCodes DEF Basic, Signs
<1>6. Sign(Septets, 0) = "at" /\ Sign(Septets, 101) = "e" /\ Sign(Septets, 32) = "space"
  <2>1. Only(Septets, 0, "at") /\ Only(Septets, 101, "e") /\ Only(Septets, 32, "space")
    BY <1>3, <1>5, TheCodes DEF Only
  <2> QED
    BY <2>1, SignIs
<1>7. /\ Sign(Units, 64) = "at" /\ Sign(Units, 101) = "e" /\ Sign(Units, 32) = "space"
      /\ Sign(Units, 8364) = "euro" /\ Sign(Units, 1046) = "cyr"
  <2>1. /\ Only(Units, 64, "at") /\ Only(Units, 101, "e") /\ Only(Units, 32, "space")
        /\ Only(Units, 8364, "euro") /\ Only(Units, 1046, "cyr")
    BY <1>4, <1>5, TheCodes DEF Only
  <2> QED
    BY <2>1, SignIs
<1>8. ASSUME NEW s
      PROVE  Sign(Septets, s) \in Letters /\ Sign(Units, s) \in Letters
  <2>1. \A code : Sign(code, s) \in DOMAIN code \cup {"other"}
    BY Zenon DEF Sign
  <2>2. DOMAIN Septets \cup {"other"} \subseteq Letters /\ DOMAIN Units \cup {"other"} \subseteq Letters
    BY TheCodes DEF Basic, Signs, Letters
  <2> QED
    BY <2>1, <2>2
<1> QED
  BY <1>6, <1>7, <1>8

-----------------------------------------------------------------------------
(* Decoding what was spelled *)

ReadState == [text : Seq(Letters), escaped : BOOLEAN]
ReadStep == [q \in ReadState \X Septet |-> ReadSeptet(q[1], q[2])]
NothingRead == [text |-> <<>>, escaped |-> FALSE]

\* The state of the decoding of septets has its type.
LEMMA ReadTypes ==
  ASSUME NEW r \in ReadState, NEW s \in Septet
  PROVE  ReadSeptet(r, s) \in ReadState
<1>1. r.text \in Seq(Letters) /\ r.escaped \in BOOLEAN
  BY DEF ReadState
<1>2. "euro" \in Letters /\ Sign(Septets, s) \in Letters
  BY SignsAre DEF Letters, Signs
<1> DEFINE c == Sign(Septets, s)
           d == IF s = 101 THEN "euro" ELSE c
<1>3. ReadSeptet(r, s) = CASE r.escaped -> [text |-> Append(r.text, d), escaped |-> FALSE]
                           [] ~r.escaped /\ s = Escape -> [r EXCEPT !.escaped = TRUE]
                           [] OTHER -> [r EXCEPT !.text = Append(@, c)]
  BY DEF ReadSeptet
<1>4. c \in Letters /\ d \in Letters
  BY <1>2, Zenon
<1> HIDE DEF c, d
<1>5. Append(r.text, d) \in Seq(Letters) /\ Append(r.text, c) \in Seq(Letters)
  BY <1>1, <1>4, AppendProperties
<1>6. CASE r.escaped
  BY <1>3, <1>5, <1>6 DEF ReadState
<1>7. CASE ~r.escaped /\ s = Escape
  BY <1>3, <1>7 DEF ReadState
<1>8. CASE ~r.escaped /\ s # Escape
  BY <1>3, <1>5, <1>8 DEF ReadState
<1> QED
  BY <1>6, <1>7, <1>8

\* The decoding of septets as a fold of a function.
LEMMA ReadValue ==
  ASSUME NEW base \in ReadState, NEW c \in Seq(Septet)
  PROVE  FoldLeft(ReadSeptet, base, c) = Value(ReadState, ReadStep, base, c)
<1> DEFINE Rec(g) == g = [s \in SUBSET DOMAIN c |->
                            IF s = {} THEN base ELSE ReadSeptet(g[s \ {Max(s)}], c[Max(s)])]
           chosen == CHOOSE g : Rec(g)
<1>0. Len(c) \in Nat /\ DOMAIN c = 1 .. Len(c)
  BY LenProperties
<1>1. FoldLeft(ReadSeptet, base, c) = chosen[DOMAIN c]
  BY Zenon DEF FoldLeft, MapThenFoldSet
<1>2. Steps(ReadState, Septet, ReadStep)
  BY ReadTypes DEF Steps, ReadStep
<1>3. \A r \in ReadState, x \in Septet : ReadStep[<<r, x>>] = ReadSeptet(r, x)
  BY DEF ReadStep
<1>4. \A s \in SUBSET (1 .. Len(c)) : s # {} => c[Max(s)] \in Septet /\ s \ {Max(s)} \in SUBSET (1 .. Len(c))
  BY <1>0, GreatestIsOne, ElementOfSeq
<1>5. PICK h : Iterates(ReadStep, base, c, Len(c), h) /\ \A s \in SUBSET (1 .. Len(c)) : h[s] \in ReadState
  <2>1. Len(c) \in 0 .. Len(c)
    BY <1>0
  <2> QED
    BY <1>2, <2>1, IteratesExist
<1>6. Rec(h)
  <2>1. h = [s \in SUBSET DOMAIN c |-> h[s]]
    BY <1>0, <1>5, Zenon DEF Iterates
  <2>2. \A s \in SUBSET DOMAIN c : h[s] = IF s = {} THEN base ELSE ReadStep[<<h[s \ {Max(s)}], c[Max(s)]>>]
    BY <1>0, <1>5, Zenon DEF Iterates
  <2>3. \A s \in SUBSET DOMAIN c : h[s] = IF s = {} THEN base ELSE ReadSeptet(h[s \ {Max(s)}], c[Max(s)])
    BY <1>0, <1>3, <1>4, <1>5, <2>2, Zenon
  <2> QED
    BY <2>1, <2>3, Zenon
<1>7. Rec(chosen)
  BY <1>6, Zenon
<1> HIDE DEF chosen
<1>8. chosen[1 .. Len(c)] = Value(ReadState, ReadStep, base, c)
  <2>1. chosen = [s \in SUBSET (1 .. Len(c)) |-> chosen[s]]
    BY <1>0, <1>7, Zenon
  <2>2. \A s \in SUBSET (1 .. Len(c)) :
          chosen[s] = IF s = {} THEN base ELSE ReadSeptet(chosen[s \ {Max(s)}], c[Max(s)])
    BY <1>0, <1>7, Zenon
  <2>3. Follows(ReadState, ReadStep, base, c, chosen)
    BY <1>3, <1>4, <2>2, Zenon DEF Follows
  <2> HIDE DEF Rec
  <2> QED
    BY <1>2, <2>1, <2>3, ValueIs
<1> QED
  BY <1>0, <1>1, <1>8, Zenon

\* What it has read after nothing, and after one septet more.
LEMMA ReadGrows ==
  ASSUME NEW base \in ReadState
  PROVE  /\ FoldLeft(ReadSeptet, base, <<>>) = base
         /\ \A c \in Seq(Septet), x \in Septet :
              /\ FoldLeft(ReadSeptet, base, c) \in ReadState
              /\ FoldLeft(ReadSeptet, base, Append(c, x)) = ReadSeptet(FoldLeft(ReadSeptet, base, c), x)
<1>1. Steps(ReadState, Septet, ReadStep)
  BY ReadTypes DEF Steps, ReadStep
<1>2. \A r \in ReadState, x \in Septet : ReadStep[<<r, x>>] = ReadSeptet(r, x)
  BY DEF ReadStep
<1>3. FoldLeft(ReadSeptet, base, <<>>) = base
  <2>1. <<>> \in Seq(Septet)
    OBVIOUS
  <2>2. FoldLeft(ReadSeptet, base, <<>>) = Value(ReadState, ReadStep, base, <<>>)
    BY <2>1, ReadValue, Zenon
  <2>3. Value(ReadState, ReadStep, base, <<>>) = base
    BY <1>1, ValueEmpty
  <2> QED
    BY <2>2, <2>3, Zenon
<1>4. ASSUME NEW c \in Seq(Septet), NEW x \in Septet
      PROVE  /\ FoldLeft(ReadSeptet, base, c) \in ReadState
             /\ FoldLeft(ReadSeptet, base, Append(c, x)) = ReadSeptet(FoldLeft(ReadSeptet, base, c), x)
  <2>1. Append(c, x) \in Seq(Septet)
    BY AppendProperties
  <2>2. /\ FoldLeft(ReadSeptet, base, c) = Value(ReadState, ReadStep, base, c)
        /\ FoldLeft(ReadSeptet, base, Append(c, x)) = Value(ReadState, ReadStep, base, Append(c, x))
    BY <2>1, ReadValue, Zenon
  <2>3. Value(ReadState, ReadStep, base, c) \in ReadState
    BY <1>1, ValueType
  <2>4. Value(ReadState, ReadStep, base, Append(c, x)) = ReadStep[<<Value(ReadState, ReadStep, base, c), x>>]
    BY <1>1, ValueAppend
  <2>5. ReadStep[<<Value(ReadState, ReadStep, base, c), x>>] = ReadSeptet(Value(ReadState, ReadStep, base, c), x)
    BY <1>2, <2>3, Zenon
  <2> QED
    BY <2>2, <2>3, <2>4, <2>5, Zenon
<1> QED
  BY <1>3, <1>4, Zenon

\* A septet that is no escape, and an escape with what follows it.
LEMMA ReadsSign ==
  ASSUME NEW t \in Seq(Letters), NEW x \in Seq(Septet),
         FoldLeft(ReadSeptet, NothingRead, x) = [text |-> t, escaped |-> FALSE]
  PROVE  /\ \A s \in Septet : s # Escape =>
              FoldLeft(ReadSeptet, NothingRead, Append(x, s)) = [text |-> Append(t, Sign(Septets, s)), escaped |-> FALSE]
         /\ FoldLeft(ReadSeptet, NothingRead, Append(Append(x, Escape), 101)) =
              [text |-> Append(t, "euro"), escaped |-> FALSE]
<1> DEFINE r == [text |-> t, escaped |-> FALSE]
<1>1. NothingRead \in ReadState
  BY DEF NothingRead, ReadState
<1>2. \A s \in Septet : FoldLeft(ReadSeptet, NothingRead, Append(x, s)) = ReadSeptet(r, s)
  <2>1. FoldLeft(ReadSeptet, NothingRead, x) = r
    OBVIOUS
  <2> HIDE DEF r
  <2>2. \A s \in Septet : FoldLeft(ReadSeptet, NothingRead, Append(x, s)) =
                           ReadSeptet(FoldLeft(ReadSeptet, NothingRead, x), s)
    BY <1>1, ReadGrows, Zenon
  <2> QED
    BY <2>1, <2>2, Zenon
<1>3. ASSUME NEW s \in Septet, s # Escape
      PROVE  ReadSeptet(r, s) = [text |-> Append(t, Sign(Septets, s)), escaped |-> FALSE]
  BY <1>3 DEF ReadSeptet
<1>4. Escape \in Septet /\ 101 \in Septet
  BY DEF Escape, Septet
<1> DEFINE e == [text |-> t, escaped |-> TRUE]
<1>5. ReadSeptet(r, Escape) = e
  BY DEF ReadSeptet
<1>6. Append(x, Escape) \in Seq(Septet)
  BY <1>4, AppendProperties
<1>7. ReadSeptet(e, 101) = [text |-> Append(t, "euro"), escaped |-> FALSE]
  BY DEF ReadSeptet
<1>8. FoldLeft(ReadSeptet, NothingRead, Append(Append(x, Escape), 101)) =
        ReadSeptet(FoldLeft(ReadSeptet, NothingRead, Append(x, Escape)), 101)
  BY <1>1, <1>4, <1>6, ReadGrows, Zenon
<1>9. FoldLeft(ReadSeptet, NothingRead, Append(x, Escape)) = ReadSeptet(r, Escape)
  BY <1>2, <1>4
<1> QED
  BY <1>2, <1>3, <1>5, <1>7, <1>8, <1>9, Zenon

\* The septets of a text decode to the text.
LEMMA ReadsText ==
  ASSUME NEW text \in Seq(Basic)
  PROVE  DecodeGSM(Spell(Septets, text)) = text
<1> DEFINE Fold(x) == FoldLeft(ReadSeptet, NothingRead, x)
           T == {t \in Seq(Basic) : Fold(Spell(Septets, t)) = [text |-> t, escaped |-> FALSE]}
<1>0. NothingRead \in ReadState /\ <<>> \in Seq(Basic)
  BY DEF NothingRead, ReadState
<1>s. /\ Spell(Septets, <<>>) = <<>>
      /\ \A t \in Seq(Basic) : Spell(Septets, t) \in Seq(Septet)
      /\ \A t \in Seq(Basic), c \in Basic : Spell(Septets, Append(t, c)) = Spell(Septets, t) \o Septets[c]
  BY CodesFit, SpellGrows
<1>1. <<>> \in T
  <2>1. 0 \in Septet
    BY DEF Septet
  <2>2. Fold(<<>>) = NothingRead
    BY <1>0, <2>1, ReadGrows, Zenon
  <2> QED
    BY <1>0, <1>s, <2>2, Zenon DEF NothingRead
<1>2. ASSUME NEW t \in Seq(Basic), NEW c \in Basic, t \in T
      PROVE  Append(t, c) \in T
  <2> DEFINE x == Spell(Septets, t)
  <2>1. x \in Seq(Septet) /\ Spell(Septets, Append(t, c)) = x \o Septets[c] /\ Append(t, c) \in Seq(Basic)
    BY <1>s, AppendProperties
  <2>2. Fold(x) = [text |-> t, escaped |-> FALSE]
    BY <1>2, Zenon
  <2>3. t \in Seq(Letters)
    <3>1. Basic \subseteq Letters
      BY DEF Basic, Letters, Signs
    <3> QED
      BY <3>1, SeqMonotonic
  <2> HIDE DEF x
  <2>4. \A s \in Septet : s # Escape => Fold(Append(x, s)) = [text |-> Append(t, Sign(Septets, s)), escaped |-> FALSE]
    BY <2>1, <2>2, <2>3, ReadsSign, Zenon
  <2>5. Fold(Append(Append(x, Escape), 101)) = [text |-> Append(t, "euro"), escaped |-> FALSE]
    BY <2>1, <2>2, <2>3, ReadsSign, Zenon
  <2> HIDE DEF Fold
  <2>6. /\ 0 \in Septet /\ 101 \in Septet /\ 32 \in Septet /\ Escape \in Septet
        /\ 0 # Escape /\ 101 # Escape /\ 32 # Escape
    BY DEF Septet, Escape
  <2>7. \A s \in Septet : x \o <<s>> = Append(x, s)
    BY <2>1, AppendIsConcat
  <2>8. x \o <<Escape, 101>> = Append(Append(x, Escape), 101)
    <3>1. \A p, q \in Septet : x \o <<p, q>> = Append(Append(x, p), q)
      BY <2>1
    <3> QED
      BY <2>6, <3>1, Zenon
  <2>9. c = "at" \/ c = "e" \/ c = "space" \/ c = "euro"
    BY DEF Basic
  <2>10. CASE c = "at"
    <3>1. Septets[c] = <<0>> /\ Sign(Septets, 0) = c
      BY <2>10, TheCodes, SignsAre
    <3> QED
      BY <2>1, <2>4, <2>6, <2>7, <3>1
  <2>11. CASE c = "e"
    <3>1. Septets[c] = <<101>> /\ Sign(Septets, 101) = c
      BY <2>11, TheCodes, SignsAre
    <3> QED
      BY <2>1, <2>4, <2>6, <2>7, <3>1
  <2>12. CASE c = "space"
    <3>1. Septets[c] = <<32>> /\ Sign(Septets, 32) = c
      BY <2>12, TheCodes, SignsAre
    <3> QED
      BY <2>1, <2>4, <2>6, <2>7, <3>1
  <2>13. CASE c = "euro"
    <3>1. Septets[c] = <<Escape, 101>>
      BY <2>13, TheCodes
    <3> QED
      BY <2>1, <2>5, <2>8, <2>13, <3>1
  <2> QED
    BY <2>9, <2>10, <2>11, <2>12, <2>13
<1>3. Seq(Basic) \subseteq T
  <2> HIDE DEF T
  <2> QED
    BY <1>1, <1>2, SequenceInduction
<1>4. Fold(Spell(Septets, text)) = [text |-> text, escaped |-> FALSE]
  BY <1>3, Zenon
<1>5. DecodeGSM(Spell(Septets, text)) =
        LET end == Fold(Spell(Septets, text))
        IN  IF end.escaped THEN Append(end.text, "space") ELSE end.text
  BY Zenon DEF DecodeGSM, NothingRead
<1> HIDE DEF Fold
<1> QED
  BY <1>4, <1>5

TextState == Seq(Letters)
TextStep == [q \in TextState \X Unit |-> ReadUnit(q[1], q[2])]

\* The decoding of units makes letters.
LEMMA TextTypes ==
  ASSUME NEW r \in TextState, NEW u \in Unit
  PROVE  ReadUnit(r, u) \in TextState
<1> DEFINE c == Sign(Units, u)
           f == Front(r)
           last == Last(r)
<1>1. c \in Letters /\ "half" \in Letters /\ "bad" \in Letters /\ "emoji" \in Letters
  BY SignsAre DEF Letters, Signs
<1>2. r # <<>> => f \in Seq(Letters)
  <2>1. r \in Seq(Letters)
    BY DEF TextState
  <2> QED
    BY <2>1 DEF Front
<1>3. ReadUnit(r, u) =
        CASE u = High -> Append(r, "half")
          [] u = Low /\ r # <<>> /\ last = "half" -> Append(f, "emoji")
          [] u = Low /\ ~(r # <<>> /\ last = "half") -> Append(r, "bad")
          [] OTHER -> Append(r, c)
  BY DEF ReadUnit
<1>4. High # Low
  BY DEF High, Low
<1> HIDE DEF c, f, last
<1>5. r # <<>> => Append(f, "emoji") \in TextState
  BY <1>1, <1>2, AppendProperties DEF TextState
<1>6. Append(r, "half") \in TextState /\ Append(r, "bad") \in TextState /\ Append(r, c) \in TextState
  BY <1>1, AppendProperties DEF TextState
<1>7. \/ ReadUnit(r, u) = Append(r, "half") \/ ReadUnit(r, u) = Append(r, "bad")
      \/ ReadUnit(r, u) = Append(r, c) \/ (r # <<>> /\ ReadUnit(r, u) = Append(f, "emoji"))
  <2>1. CASE u = High
    BY <1>3, <1>4, <2>1
  <2>2. CASE u = Low /\ r # <<>> /\ last = "half"
    BY <1>3, <1>4, <2>2
  <2>3. CASE u = Low /\ ~(r # <<>> /\ last = "half")
    BY <1>3, <1>4, <2>3
  <2>4. CASE u # High /\ u # Low
    BY <1>3, <2>4
  <2> QED
    BY <2>1, <2>2, <2>3, <2>4
<1> QED
  BY <1>5, <1>6, <1>7, Zenon

\* The decoding of units as a fold of a function.
LEMMA TextValue ==
  ASSUME NEW base \in TextState, NEW c \in Seq(Unit)
  PROVE  FoldLeft(ReadUnit, base, c) = Value(TextState, TextStep, base, c)
<1> DEFINE Rec(g) == g = [s \in SUBSET DOMAIN c |->
                            IF s = {} THEN base ELSE ReadUnit(g[s \ {Max(s)}], c[Max(s)])]
           chosen == CHOOSE g : Rec(g)
<1>0. Len(c) \in Nat /\ DOMAIN c = 1 .. Len(c)
  BY LenProperties
<1>1. FoldLeft(ReadUnit, base, c) = chosen[DOMAIN c]
  BY Zenon DEF FoldLeft, MapThenFoldSet
<1>2. Steps(TextState, Unit, TextStep)
  BY TextTypes DEF Steps, TextStep
<1>3. \A r \in TextState, x \in Unit : TextStep[<<r, x>>] = ReadUnit(r, x)
  BY DEF TextStep
<1>4. \A s \in SUBSET (1 .. Len(c)) : s # {} => c[Max(s)] \in Unit /\ s \ {Max(s)} \in SUBSET (1 .. Len(c))
  BY <1>0, GreatestIsOne, ElementOfSeq
<1>5. PICK h : Iterates(TextStep, base, c, Len(c), h) /\ \A s \in SUBSET (1 .. Len(c)) : h[s] \in TextState
  <2>1. Len(c) \in 0 .. Len(c)
    BY <1>0
  <2> QED
    BY <1>2, <2>1, IteratesExist
<1>6. Rec(h)
  <2>1. h = [s \in SUBSET DOMAIN c |-> h[s]]
    BY <1>0, <1>5, Zenon DEF Iterates
  <2>2. \A s \in SUBSET DOMAIN c : h[s] = IF s = {} THEN base ELSE TextStep[<<h[s \ {Max(s)}], c[Max(s)]>>]
    BY <1>0, <1>5, Zenon DEF Iterates
  <2>3. \A s \in SUBSET DOMAIN c : h[s] = IF s = {} THEN base ELSE ReadUnit(h[s \ {Max(s)}], c[Max(s)])
    BY <1>0, <1>3, <1>4, <1>5, <2>2, Zenon
  <2> QED
    BY <2>1, <2>3, Zenon
<1>7. Rec(chosen)
  BY <1>6, Zenon
<1> HIDE DEF chosen
<1>8. chosen[1 .. Len(c)] = Value(TextState, TextStep, base, c)
  <2>1. chosen = [s \in SUBSET (1 .. Len(c)) |-> chosen[s]]
    BY <1>0, <1>7, Zenon
  <2>2. \A s \in SUBSET (1 .. Len(c)) :
          chosen[s] = IF s = {} THEN base ELSE ReadUnit(chosen[s \ {Max(s)}], c[Max(s)])
    BY <1>0, <1>7, Zenon
  <2>3. Follows(TextState, TextStep, base, c, chosen)
    BY <1>3, <1>4, <2>2, Zenon DEF Follows
  <2> HIDE DEF Rec
  <2> QED
    BY <1>2, <2>1, <2>3, ValueIs
<1> QED
  BY <1>0, <1>1, <1>8, Zenon

\* What it has read after nothing, and after one unit more.
LEMMA TextGrows ==
  ASSUME NEW base \in TextState
  PROVE  /\ FoldLeft(ReadUnit, base, <<>>) = base
         /\ \A c \in Seq(Unit), x \in Unit :
              /\ FoldLeft(ReadUnit, base, c) \in TextState
              /\ FoldLeft(ReadUnit, base, Append(c, x)) = ReadUnit(FoldLeft(ReadUnit, base, c), x)
<1>1. Steps(TextState, Unit, TextStep)
  BY TextTypes DEF Steps, TextStep
<1>2. \A r \in TextState, x \in Unit : TextStep[<<r, x>>] = ReadUnit(r, x)
  BY DEF TextStep
<1>3. FoldLeft(ReadUnit, base, <<>>) = base
  <2>1. <<>> \in Seq(Unit)
    OBVIOUS
  <2>2. FoldLeft(ReadUnit, base, <<>>) = Value(TextState, TextStep, base, <<>>)
    BY <2>1, TextValue, Zenon
  <2>3. Value(TextState, TextStep, base, <<>>) = base
    BY <1>1, ValueEmpty
  <2> QED
    BY <2>2, <2>3, Zenon
<1>4. ASSUME NEW c \in Seq(Unit), NEW x \in Unit
      PROVE  /\ FoldLeft(ReadUnit, base, c) \in TextState
             /\ FoldLeft(ReadUnit, base, Append(c, x)) = ReadUnit(FoldLeft(ReadUnit, base, c), x)
  <2>1. Append(c, x) \in Seq(Unit)
    BY AppendProperties
  <2>2. /\ FoldLeft(ReadUnit, base, c) = Value(TextState, TextStep, base, c)
        /\ FoldLeft(ReadUnit, base, Append(c, x)) = Value(TextState, TextStep, base, Append(c, x))
    BY <2>1, TextValue, Zenon
  <2>3. Value(TextState, TextStep, base, c) \in TextState
    BY <1>1, ValueType
  <2>4. Value(TextState, TextStep, base, Append(c, x)) = TextStep[<<Value(TextState, TextStep, base, c), x>>]
    BY <1>1, ValueAppend
  <2>5. TextStep[<<Value(TextState, TextStep, base, c), x>>] = ReadUnit(Value(TextState, TextStep, base, c), x)
    BY <1>2, <2>3, Zenon
  <2> QED
    BY <2>2, <2>3, <2>4, <2>5, Zenon
<1> QED
  BY <1>3, <1>4, Zenon

\* A unit that is no half of a pair, and a pair.
LEMMA ReadsUnits ==
  ASSUME NEW t \in Seq(Letters)
  PROVE  /\ \A u : u # High /\ u # Low => ReadUnit(t, u) = Append(t, Sign(Units, u))
         /\ ReadUnit(ReadUnit(t, High), Low) = Append(t, "emoji")
<1>0. High # Low
  BY DEF High, Low
<1>1. ASSUME NEW u, u # High, u # Low
      PROVE  ReadUnit(t, u) = Append(t, Sign(Units, u))
  BY <1>1 DEF ReadUnit
<1>2. ReadUnit(t, High) = Append(t, "half")
  BY <1>0 DEF ReadUnit
<1> DEFINE h == Append(t, "half")
<1>3. h # <<>> /\ Last(h) = "half" /\ Front(h) = t
  <2>1. "half" \in Letters
    BY DEF Letters
  <2>2. /\ h \in Seq(Letters) /\ Len(t) \in Nat /\ Len(h) = Len(t) + 1 /\ h # <<>>
        /\ \A i \in 1 .. Len(t) : h[i] = t[i]
        /\ h[Len(t) + 1] = "half"
    BY <2>1, AppendProperties, LenProperties
  <2> HIDE DEF h
  <2>3. Front(h) = t
    BY <2>2 DEF Front
  <2>4. Last(h) = "half"
    BY <2>2 DEF Last
  <2> QED
    BY <2>2, <2>3, <2>4
<1> HIDE DEF h
<1>4. ReadUnit(h, Low) = Append(Front(h), "emoji")
  BY <1>0, <1>3 DEF ReadUnit
<1> QED
  BY <1>1, <1>2, <1>3, <1>4, Zenon DEF h

\* The units of a text decode to the text.
LEMMA ReadsUnitText ==
  ASSUME NEW text \in Seq(Signs)
  PROVE  DecodeUnits(Spell(Units, text)) = text
<1> DEFINE Fold(x) == FoldLeft(ReadUnit, <<>>, x)
           T == {t \in Seq(Signs) : Fold(Spell(Units, t)) = t}
<1>0. <<>> \in TextState /\ <<>> \in Seq(Signs)
  BY DEF TextState
<1>s. /\ Spell(Units, <<>>) = <<>>
      /\ \A t \in Seq(Signs) : Spell(Units, t) \in Seq(Unit)
      /\ \A t \in Seq(Signs), c \in Signs : Spell(Units, Append(t, c)) = Spell(Units, t) \o Units[c]
  BY CodesFit, SpellGrows
<1>g. /\ Fold(<<>>) = <<>>
      /\ \A x \in Seq(Unit), u \in Unit : Fold(Append(x, u)) = ReadUnit(Fold(x), u)
  <2>1. 0 \in Unit
    BY DEF Unit
  <2> QED
    BY <1>0, <2>1, TextGrows, Zenon
<1>1. <<>> \in T
  BY <1>0, <1>s, <1>g, Zenon
<1>2. ASSUME NEW t \in Seq(Signs), NEW c \in Signs, t \in T
      PROVE  Append(t, c) \in T
  <2> DEFINE x == Spell(Units, t)
  <2>1. x \in Seq(Unit) /\ Spell(Units, Append(t, c)) = x \o Units[c] /\ Append(t, c) \in Seq(Signs)
    BY <1>s, AppendProperties
  <2>2. Fold(x) = t
    BY <1>2, Zenon
  <2>3. t \in Seq(Letters)
    <3>1. Signs \subseteq Letters
      BY DEF Letters
    <3> QED
      BY <3>1, SeqMonotonic
  <2> HIDE DEF x, Fold
  <2>4. \A u \in Unit : u # High /\ u # Low => Fold(x \o <<u>>) = Append(t, Sign(Units, u))
    <3> SUFFICES ASSUME NEW u \in Unit, u # High, u # Low
                 PROVE  Fold(x \o <<u>>) = Append(t, Sign(Units, u))
      OBVIOUS
    <3>1. x \o <<u>> = Append(x, u)
      BY <2>1, AppendIsConcat
    <3>2. Fold(Append(x, u)) = ReadUnit(t, u)
      BY <1>g, <2>1, <2>2, Zenon
    <3> QED
      BY <2>3, <3>1, <3>2, ReadsUnits, Zenon
  <2>5. Fold(x \o <<High, Low>>) = Append(t, "emoji")
    <3>1. High \in Unit /\ Low \in Unit
      BY DEF High, Low, Unit
    <3>2. x \o <<High, Low>> = Append(Append(x, High), Low)
      <4>1. \A p, q \in Unit : x \o <<p, q>> = Append(Append(x, p), q)
        BY <2>1
      <4> QED
        BY <3>1, <4>1, Zenon
    <3>3. Append(x, High) \in Seq(Unit)
      BY <2>1, <3>1, AppendProperties
    <3>4. Fold(Append(Append(x, High), Low)) = ReadUnit(ReadUnit(t, High), Low)
      BY <1>g, <2>1, <2>2, <3>1, <3>3, Zenon
    <3> QED
      BY <2>3, <3>2, <3>4, ReadsUnits, Zenon
  <2>6. \/ \E u \in Unit : u # High /\ u # Low /\ Units[c] = <<u>> /\ Sign(Units, u) = c
        \/ c = "emoji" /\ Units[c] = <<High, Low>>
    <3>1. c = "at" \/ c = "e" \/ c = "space" \/ c = "euro" \/ c = "cyr" \/ c = "emoji"
      BY DEF Signs
    <3>2. /\ 64 \in Unit /\ 101 \in Unit /\ 32 \in Unit /\ 8364 \in Unit /\ 1046 \in Unit
          /\ 64 # High /\ 101 # High /\ 32 # High /\ 8364 # High /\ 1046 # High
          /\ 64 # Low /\ 101 # Low /\ 32 # Low /\ 8364 # Low /\ 1046 # Low
      BY DEF Unit, High, Low
    <3>3. CASE c = "at"
      BY <3>2, <3>3, TheCodes, SignsAre
    <3>4. CASE c = "e"
      BY <3>2, <3>4, TheCodes, SignsAre
    <3>5. CASE c = "space"
      BY <3>2, <3>5, TheCodes, SignsAre
    <3>6. CASE c = "euro"
      BY <3>2, <3>6, TheCodes, SignsAre
    <3>7. CASE c = "cyr"
      BY <3>2, <3>7, TheCodes, SignsAre
    <3>8. CASE c = "emoji"
      BY <3>8, TheCodes
    <3> QED
      BY <3>1, <3>3, <3>4, <3>5, <3>6, <3>7, <3>8
  <2> QED
    BY <2>1, <2>4, <2>5, <2>6, Zenon
<1>3. Seq(Signs) \subseteq T
  <2> HIDE DEF T
  <2> QED
    BY <1>1, <1>2, SequenceInduction
<1>4. Fold(Spell(Units, text)) = text
  BY <1>3, Zenon
<1>5. DecodeUnits(Spell(Units, text)) =
        [i \in DOMAIN Fold(Spell(Units, text)) |->
           IF Fold(Spell(Units, text))[i] = "half" THEN "bad" ELSE Fold(Spell(Units, text))[i]]
  BY Zenon DEF DecodeUnits
<1> HIDE DEF Fold
<1>6. \A i \in DOMAIN text : text[i] # "half"
  <2>1. \A i \in DOMAIN text : text[i] \in Signs
    BY LenProperties, ElementOfSeq
  <2> QED
    BY <2>1 DEF Signs
<1>7. text = [i \in DOMAIN text |-> text[i]]
  BY LenProperties
<1>8. [i \in DOMAIN text |-> IF text[i] = "half" THEN "bad" ELSE text[i]] = [i \in DOMAIN text |-> text[i]]
  BY <1>6, Zenon
<1>9. DecodeUnits(Spell(Units, text)) =
        [i \in DOMAIN text |-> IF text[i] = "half" THEN "bad" ELSE text[i]]
  BY <1>4, <1>5, Zenon
<1> QED
  BY <1>7, <1>8, <1>9, Zenon

-----------------------------------------------------------------------------
(* Units in octets, and digits in octets *)

\* A unit in two octets.
LEMMA UnitInOctets ==
  \A u \in Unit : u \div 256 \in Octet /\ u % 256 \in Octet /\ (u \div 256) * 256 + (u % 256) = u
<1> SUFFICES ASSUME NEW u \in Unit
             PROVE  u \div 256 \in Octet /\ u % 256 \in Octet /\ (u \div 256) * 256 + (u % 256) = u
  OBVIOUS
<1>1. \A n \in Nat : n % 256 \in Octet /\ n \div 256 \in Nat /\ (n \div 256) * 256 + (n % 256) = n
  BY DEF Octet
<1>2. u \in Nat /\ u < 256 * 256
  BY DEF Unit
<1>3. \A q \in Nat : q * 256 < 256 * 256 => q \in Octet
  BY DEF Octet
<1> DEFINE q == u \div 256
           r == u % 256
<1>4. q \in Nat /\ r \in Octet /\ q * 256 + r = u
  BY <1>1, <1>2, Zenon
<1> HIDE DEF q, r
<1>5. r \in Nat
  BY <1>4 DEF Octet
<1>6. q * 256 < 256 * 256
  BY <1>2, <1>4, <1>5
<1>7. q \in Octet
  BY <1>3, <1>4, <1>6
<1> QED
  BY <1>4, <1>7 DEF q, r

\* The two octets of a unit, and the digits of an octet.
Halves == [u \in Unit |-> <<u \div 256, u % 256>>]
Nibbles == [o \in Octet |-> IF o \div 16 = 15 THEN <<o % 16>> ELSE <<o % 16, o \div 16>>]

\* They are octets, and numbers.
LEMMA HalvesFit ==
  /\ Codes(Unit, Halves, Octet) /\ Codes(Octet, Nibbles, Nat)
<1>1. ASSUME NEW u \in Unit
      PROVE  Halves[u] \in Seq(Octet)
  <2>1. u \div 256 \in Octet /\ u % 256 \in Octet
    BY UnitInOctets, Zenon
  <2> QED
    BY <2>1 DEF Halves
<1>2. ASSUME NEW o \in Octet
      PROVE  Nibbles[o] \in Seq(Nat)
  <2>1. o \div 16 \in Nat /\ o % 16 \in Nat
    BY DEF Octet
  <2> QED
    BY <2>1 DEF Nibbles
<1> QED
  BY <1>1, <1>2, Zenon DEF Codes

\* Octets and the digits of octets as spellings.
LEMMA OctetsSpell ==
  /\ \A units \in Seq(Unit) : Octets(units) = Spell(Halves, units)
  /\ \A octets \in Seq(Octet), n \in Nat :
       DecodeDigits(octets, n) = SubSeq(Spell(Nibbles, octets), 1, IF n < Len(Spell(Nibbles, octets)) THEN n ELSE Len(Spell(Nibbles, octets)))
<1>1. ASSUME NEW units \in Seq(Unit)
      PROVE  Octets(units) = Spell(Halves, units)
  <2>1. \A i \in DOMAIN units : units[i] \in Unit
    BY LenProperties, ElementOfSeq
  <2>2. \A u \in Unit : Halves[u] = <<u \div 256, u % 256>>
    BY DEF Halves
  <2>3. [i \in DOMAIN units |-> <<units[i] \div 256, units[i] % 256>>] = [i \in DOMAIN units |-> Halves[units[i]]]
    BY <2>1, <2>2
  <2> QED
    BY <2>3, Zenon DEF Octets, Spell
<1>2. ASSUME NEW octets \in Seq(Octet), NEW n \in Nat
      PROVE  DecodeDigits(octets, n) = SubSeq(Spell(Nibbles, octets), 1, IF n < Len(Spell(Nibbles, octets)) THEN n ELSE Len(Spell(Nibbles, octets)))
  <2>1. \A i \in DOMAIN octets : octets[i] \in Octet
    BY LenProperties, ElementOfSeq
  <2>2. \A o \in Octet : Nibbles[o] = IF o \div 16 = 15 THEN <<o % 16>> ELSE <<o % 16, o \div 16>>
    BY DEF Nibbles
  <2>3. [i \in DOMAIN octets |-> IF octets[i] \div 16 = 15 THEN <<octets[i] % 16>> ELSE <<octets[i] % 16, octets[i] \div 16>>] =
        [i \in DOMAIN octets |-> Nibbles[octets[i]]]
    BY <2>1, <2>2
  <2> QED
    BY <2>3, Zenon DEF DecodeDigits, Spell
<1> QED
  BY <1>1, <1>2, Zenon

\* Two octets a unit, the high one first.
HighFirst(units, o) ==
  /\ Len(o) = 2 * Len(units)
  /\ \A i \in 1 .. Len(units) : o[2 * i - 1] = units[i] \div 256 /\ o[2 * i] = units[i] % 256

\* The octets of units.
LEMMA OctetsAre ==
  ASSUME NEW units \in Seq(Unit)
  PROVE  Octets(units) \in Seq(Octet) /\ HighFirst(units, Octets(units))
<1> DEFINE T == {t \in Seq(Unit) : HighFirst(t, Spell(Halves, t))}
<1>s. /\ Spell(Halves, <<>>) = <<>>
      /\ \A t \in Seq(Unit) : Spell(Halves, t) \in Seq(Octet)
      /\ \A t \in Seq(Unit), u \in Unit : Spell(Halves, Append(t, u)) = Spell(Halves, t) \o Halves[u]
  BY HalvesFit, SpellGrows
<1>1. <<>> \in T
  <2>1. HighFirst(<<>>, <<>>) /\ <<>> \in Seq(Unit)
    BY DEF HighFirst
  <2> QED
    BY <1>s, <2>1, Zenon
<1>2. ASSUME NEW t \in Seq(Unit), NEW u \in Unit, t \in T
      PROVE  Append(t, u) \in T
  <2> DEFINE x == Spell(Halves, t)
             a == u \div 256
             b == u % 256
             w == Append(t, u)
             y == x \o <<a, b>>
  <2>1. x \in Seq(Octet) /\ Spell(Halves, w) = x \o Halves[u]
    BY <1>s
  <2>2. Halves[u] = <<a, b>> /\ a \in Octet /\ b \in Octet
    BY UnitInOctets, Zenon DEF Halves
  <2>3. HighFirst(t, x)
    BY <1>2, Zenon
  <2> HIDE DEF x, a, b
  <2>4. Len(x) = 2 * Len(t) /\ \A i \in 1 .. Len(t) : x[2 * i - 1] = t[i] \div 256 /\ x[2 * i] = t[i] % 256
    BY <2>3, Zenon DEF HighFirst
  <2>5. /\ w \in Seq(Unit) /\ Len(t) \in Nat /\ Len(w) = Len(t) + 1
        /\ w[Len(t) + 1] = u /\ \A i \in 1 .. Len(t) : w[i] = t[i]
    BY AppendProperties, LenProperties
  <2>6. /\ Len(x) \in Nat /\ Len(y) = Len(x) + 2
        /\ \A i \in 1 .. Len(x) : y[i] = x[i]
        /\ y[Len(x) + 1] = a /\ y[Len(x) + 2] = b
    BY <2>1, <2>2
  <2> HIDE DEF w, y
  <2>7. ASSUME NEW i \in 1 .. Len(w)
        PROVE  y[2 * i - 1] = w[i] \div 256 /\ y[2 * i] = w[i] % 256
    <3>1. CASE i = Len(t) + 1
      <4>1. 2 * i - 1 = Len(x) + 1 /\ 2 * i = Len(x) + 2
        BY <2>4, <2>5, <3>1
      <4> QED
        BY <2>5, <2>6, <3>1, <4>1, Zenon DEF a, b
    <3>2. CASE i # Len(t) + 1
      <4>1. i \in 1 .. Len(t) /\ 2 * i - 1 \in 1 .. Len(x) /\ 2 * i \in 1 .. Len(x)
        BY <2>4, <2>5, <3>2
      <4>2. w[i] = t[i]
        BY <2>5, <4>1, Zenon
      <4>3. y[2 * i - 1] = x[2 * i - 1] /\ y[2 * i] = x[2 * i]
        BY <2>6, <4>1, Zenon
      <4>4. x[2 * i - 1] = t[i] \div 256 /\ x[2 * i] = t[i] % 256
        BY <2>4, <4>1, Zenon
      <4> QED
        BY <4>2, <4>3, <4>4, Zenon
    <3> QED
      BY <3>1, <3>2
  <2>8. Len(y) = 2 * Len(w)
    BY <2>4, <2>5, <2>6
  <2>9. HighFirst(w, y)
    BY <2>7, <2>8, Zenon DEF HighFirst
  <2> QED
    BY <2>1, <2>2, <2>5, <2>9, Zenon DEF w, y
<1>3. Seq(Unit) \subseteq T
  <2> HIDE DEF T
  <2> QED
    BY <1>1, <1>2, SequenceInduction
<1> QED
  BY <1>s, <1>3, OctetsSpell, Zenon

\* Units come back from their octets.
LEMMA PairedOctets ==
  ASSUME NEW units \in Seq(Unit)
  PROVE  Paired(Octets(units)) = units
<1> DEFINE o == Octets(units)
           p == Paired(o)
<1>1. o \in Seq(Octet) /\ HighFirst(units, o)
  BY OctetsAre
<1>2. Len(units) \in Nat /\ DOMAIN units = 1 .. Len(units) /\ \A i \in 1 .. Len(units) : units[i] \in Unit
  BY LenProperties, ElementOfSeq
<1> HIDE DEF o
<1>3. Len(o) = 2 * Len(units) /\ \A i \in 1 .. Len(units) : o[2 * i - 1] = units[i] \div 256 /\ o[2 * i] = units[i] % 256
  BY <1>1, Zenon DEF HighFirst
<1>4. Len(o) \div 2 = Len(units)
  <2>1. \A l \in Nat : (2 * l) \div 2 = l
    OBVIOUS
  <2> QED
    BY <1>2, <1>3, <2>1, Zenon
<1>5. p = [i \in 1 .. Len(units) |-> o[2 * i - 1] * 256 + o[2 * i]]
  BY <1>4, Zenon DEF Paired
<1>6. ASSUME NEW i \in 1 .. Len(units)
      PROVE  o[2 * i - 1] * 256 + o[2 * i] = units[i]
  <2>1. o[2 * i - 1] = units[i] \div 256 /\ o[2 * i] = units[i] % 256
    BY <1>3
  <2>2. \A u \in Unit : (u \div 256) * 256 + (u % 256) = u
    BY UnitInOctets, Zenon
  <2> QED
    BY <1>2, <2>1, <2>2, Zenon
<1>7. [i \in 1 .. Len(units) |-> o[2 * i - 1] * 256 + o[2 * i]] = [i \in 1 .. Len(units) |-> units[i]]
  BY <1>6, Zenon
<1>8. units = [i \in 1 .. Len(units) |-> units[i]]
  BY <1>2, LenProperties
<1> QED
  BY <1>5, <1>7, <1>8, Zenon DEF o

\* The beginnings of a sequence, and what follows them.
LEMMA Beginnings ==
  ASSUME NEW S, NEW s \in Seq(S)
  PROVE  /\ Len(s) \in Nat /\ SubSeq(s, 1, 0) = <<>> /\ SubSeq(s, 1, Len(s)) = s
         /\ \A k \in 0 .. Len(s) : SubSeq(s, 1, k) \in Seq(S) /\ Len(SubSeq(s, 1, k)) = k
         /\ \A k \in 0 .. Len(s) - 1 : SubSeq(s, 1, k + 1) = Append(SubSeq(s, 1, k), s[k + 1]) /\ s[k + 1] \in S
         /\ \A i, j \in 0 .. Len(s) : i <= j =>
              /\ SubSeq(s, i + 1, j) \in Seq(S) /\ Len(SubSeq(s, i + 1, j)) = j - i
              /\ SubSeq(s, 1, j) = SubSeq(s, 1, i) \o SubSeq(s, i + 1, j)
<1>1. Len(s) \in Nat /\ SubSeq(s, 1, 0) = <<>> /\ SubSeq(s, 1, Len(s)) = s
  OBVIOUS
<1>2. ASSUME NEW k \in 0 .. Len(s)
      PROVE  SubSeq(s, 1, k) \in Seq(S) /\ Len(SubSeq(s, 1, k)) = k
  OBVIOUS
<1>3. ASSUME NEW k \in 0 .. Len(s) - 1
      PROVE  SubSeq(s, 1, k + 1) = Append(SubSeq(s, 1, k), s[k + 1]) /\ s[k + 1] \in S
  OBVIOUS
<1>4. ASSUME NEW i \in 0 .. Len(s), NEW j \in 0 .. Len(s), i <= j
      PROVE  /\ SubSeq(s, i + 1, j) \in Seq(S) /\ Len(SubSeq(s, i + 1, j)) = j - i
             /\ SubSeq(s, 1, j) = SubSeq(s, 1, i) \o SubSeq(s, i + 1, j)
  <2>1. SubSeq(s, i + 1, j) \in Seq(S) /\ Len(SubSeq(s, i + 1, j)) = j - i
    <3>1. i + 1 \in Int /\ j \in Int /\ \A x \in i + 1 .. j : s[x] \in S
      BY <1>1
    <3>2. SubSeq(s, i + 1, j) \in Seq(S) /\ Len(SubSeq(s, i + 1, j)) = IF i + 1 <= j THEN (j - (i + 1)) + 1 ELSE 0
      BY <3>1, SubSeqProperties
    <3>3. (IF i + 1 <= j THEN (j - (i + 1)) + 1 ELSE 0) = j - i
      BY <1>1, <1>4
    <3> QED
      BY <3>2, <3>3
  <2>2. SubSeq(s, 1, j) = SubSeq(s, 1, i) \o SubSeq(s, i + 1, j)
    BY <1>4
  <2> QED
    BY <2>1, <2>2
<1> QED
  BY <1>1, <1>2, <1>3, <1>4

Digit == 0 .. 9

\* Two digits in an octet, and one.
LEMMA DigitsInOctet ==
  /\ \A a, b \in Digit : a + 16 * b \in Octet /\ Nibbles[a + 16 * b] = <<a, b>>
  /\ \A a \in Digit : a + 16 * 15 \in Octet /\ Nibbles[a + 16 * 15] = <<a>>
<1>1. ASSUME NEW a \in Digit, NEW b \in 0 .. 15
      PROVE  a + 16 * b \in Octet /\ (a + 16 * b) % 16 = a /\ (a + 16 * b) \div 16 = b
  <2>1. a \in 0 .. 9
    BY DEF Digit
  <2> QED
    BY <2>1 DEF Octet
<1>2. \A o \in Octet : Nibbles[o] = IF o \div 16 = 15 THEN <<o % 16>> ELSE <<o % 16, o \div 16>>
  BY DEF Nibbles
<1>3. ASSUME NEW a \in Digit, NEW b \in Digit
      PROVE  a + 16 * b \in Octet /\ Nibbles[a + 16 * b] = <<a, b>>
  <2>1. b \in 0 .. 15 /\ b # 15
    BY DEF Digit
  <2>2. a + 16 * b \in Octet /\ (a + 16 * b) % 16 = a /\ (a + 16 * b) \div 16 = b
    BY <1>1, <2>1
  <2> QED
    BY <1>2, <2>1, <2>2, Zenon
<1>4. ASSUME NEW a \in Digit
      PROVE  a + 16 * 15 \in Octet /\ Nibbles[a + 16 * 15] = <<a>>
  <2>1. 15 \in 0 .. 15
    OBVIOUS
  <2>2. a + 16 * 15 \in Octet /\ (a + 16 * 15) % 16 = a /\ (a + 16 * 15) \div 16 = 15
    BY <1>1, <2>1
  <2> QED
    BY <1>2, <2>2, Zenon
<1> QED
  BY <1>3, <1>4

\* Half of n + 1.
Pairs(n) == (n + 1) \div 2

\* How many octets n digits take.
LEMMA PairsAre ==
  ASSUME NEW n \in Nat
  PROVE  /\ Pairs(n) \in Nat /\ n <= 2 * Pairs(n)
         /\ \A k \in 0 .. Pairs(n) - 1 : 2 * k + 1 <= n
BY DEF Pairs

\* The octets of digits.
LEMMA EncodedDigits ==
  ASSUME NEW d \in Seq(Digit)
  PROVE  /\ EncodeDigits(d) \in Seq(Octet) /\ Len(EncodeDigits(d)) = Pairs(Len(d))
         /\ \A k \in 0 .. Pairs(Len(d)) - 1 :
              Nibbles[EncodeDigits(d)[k + 1]] = IF 2 * k + 2 <= Len(d) THEN <<d[2 * k + 1], d[2 * k + 2]>> ELSE <<d[2 * k + 1]>>
<1> DEFINE e == EncodeDigits(d)
           n == Len(d)
           m == Pairs(n)
           Two(i) == d[2 * i - 1] + 16 * (IF 2 * i <= Len(d) THEN d[2 * i] ELSE 15)
<1>0. n \in Nat /\ m \in Nat /\ \A i \in 1 .. n : d[i] \in Digit
  BY LenProperties, ElementOfSeq, PairsAre
<1>1. e = [i \in 1 .. m |-> Two(i)]
  BY Zenon DEF EncodeDigits, Pairs
<1>2. ASSUME NEW k \in 0 .. m - 1
      PROVE  /\ Two(k + 1) \in Octet
             /\ Nibbles[Two(k + 1)] = IF 2 * k + 2 <= n THEN <<d[2 * k + 1], d[2 * k + 2]>> ELSE <<d[2 * k + 1]>>
  <2>1. 2 * k + 1 <= n /\ k \in Nat /\ 2 * (k + 1) - 1 = 2 * k + 1 /\ 2 * (k + 1) = 2 * k + 2
    <3>1. \A j \in 0 .. m - 1 : 2 * j + 1 <= n
      BY <1>0, PairsAre
    <3> HIDE DEF m
    <3> QED
      BY <1>0, <3>1
  <2>2. 2 * k + 1 \in 1 .. n
    BY <1>0, <2>1
  <2>3. CASE 2 * k + 2 <= n
    <3>1. 2 * k + 2 \in 1 .. n
      BY <1>0, <2>1, <2>3
    <3>2. Two(k + 1) = d[2 * k + 1] + 16 * d[2 * k + 2]
      BY <2>1, <2>3, Zenon
    <3> HIDE DEF Two
    <3> QED
      BY <1>0, <2>2, <2>3, <3>1, <3>2, DigitsInOctet, Zenon
  <2>4. CASE ~(2 * k + 2 <= n)
    <3>2. Two(k + 1) = d[2 * k + 1] + 16 * 15
      BY <2>1, <2>4, Zenon
    <3> HIDE DEF Two
    <3> QED
      BY <1>0, <2>2, <2>4, <3>2, DigitsInOctet, Zenon
  <2> QED
    BY <2>3, <2>4
<1>3. \A i \in 1 .. m : Two(i) \in Octet
  <2>1. \A i \in 1 .. m : i - 1 \in 0 .. m - 1 /\ (i - 1) + 1 = i
    BY <1>0
  <2> HIDE DEF Two, m
  <2> QED
    BY <1>2, <2>1, Zenon
<1>4. e \in Seq(Octet) /\ Len(e) = m
  <2> HIDE DEF Two, e, m
  <2> QED
    BY <1>0, <1>1, <1>3
<1>5. \A k \in 0 .. m - 1 : e[k + 1] = Two(k + 1)
  <2>1. \A k \in 0 .. m - 1 : k + 1 \in 1 .. m
    BY <1>0
  <2> HIDE DEF Two, e, m
  <2> QED
    BY <1>1, <2>1, Zenon
<1> HIDE DEF Two
<1> QED
  BY <1>2, <1>4, <1>5, Zenon

\* Whatever the digits of a number are, odd or even in count, the digits come
\* back from its octets (sms.go:395, 425).
THEOREM NumbersSurvive ==
  ASSUME NEW d \in Seq(0 .. 9)
  PROVE  DecodeDigits(EncodeDigits(d), Len(d)) = d
<1> DEFINE e == EncodeDigits(d)
           n == Len(d)
           m == Pairs(n)
           T == {k \in Nat : k <= m => Spell(Nibbles, SubSeq(e, 1, k)) = SubSeq(d, 1, IF 2 * k <= n THEN 2 * k ELSE n)}
<1>0. d \in Seq(Digit) /\ n \in Nat /\ m \in Nat /\ n <= 2 * m /\ \A k \in 0 .. m - 1 : 2 * k + 1 <= n
  BY LenProperties, PairsAre DEF Digit
<1>1. /\ e \in Seq(Octet) /\ Len(e) = m
      /\ \A k \in 0 .. m - 1 : Nibbles[e[k + 1]] = IF 2 * k + 2 <= n THEN <<d[2 * k + 1], d[2 * k + 2]>> ELSE <<d[2 * k + 1]>>
  BY <1>0, EncodedDigits
<1> HIDE DEF m, e
<1>s. /\ Spell(Nibbles, <<>>) = <<>>
      /\ \A t \in Seq(Octet), o \in Octet : Spell(Nibbles, Append(t, o)) = Spell(Nibbles, t) \o Nibbles[o]
  BY HalvesFit, SpellGrows
<1>2. 0 \in T
  <2>1. SubSeq(d, 1, 0) = <<>> /\ SubSeq(e, 1, 0) = <<>> /\ 2 * 0 = 0 /\ 0 <= n
    BY <1>0
  <2> QED
    BY <1>s, <2>1, Zenon
<1>3. ASSUME NEW k \in Nat, k \in T
      PROVE  k + 1 \in T
  <2> SUFFICES ASSUME k + 1 <= m
               PROVE  Spell(Nibbles, SubSeq(e, 1, k + 1)) = SubSeq(d, 1, IF 2 * (k + 1) <= n THEN 2 * (k + 1) ELSE n)
    OBVIOUS
  <2>1. k <= m /\ k \in 0 .. m - 1 /\ k \in 0 .. Len(e) - 1 /\ k \in 0 .. Len(e) /\ 2 * (k + 1) = 2 * k + 2
    BY <1>0, <1>1
  <2>2. 2 * k + 1 <= n
    BY <1>0, <2>1
  <2>3. Spell(Nibbles, SubSeq(e, 1, k)) = SubSeq(d, 1, 2 * k)
    <3>1. 2 * k <= n
      BY <1>0, <2>2
    <3> QED
      BY <1>3, <2>1, <3>1, Zenon
  <2>4. SubSeq(e, 1, k + 1) = Append(SubSeq(e, 1, k), e[k + 1]) /\ SubSeq(e, 1, k) \in Seq(Octet) /\ e[k + 1] \in Octet
    <3>1. /\ \A j \in 0 .. Len(e) : SubSeq(e, 1, j) \in Seq(Octet) /\ Len(SubSeq(e, 1, j)) = j
          /\ \A j \in 0 .. Len(e) - 1 : SubSeq(e, 1, j + 1) = Append(SubSeq(e, 1, j), e[j + 1]) /\ e[j + 1] \in Octet
      <4>1. e \in Seq(Octet)
        BY <1>1
      <4> QED
        BY <4>1, Beginnings
    <3> QED
      BY <2>1, <3>1, Zenon
  <2>5. Spell(Nibbles, SubSeq(e, 1, k + 1)) = SubSeq(d, 1, 2 * k) \o Nibbles[e[k + 1]]
    BY <1>s, <2>3, <2>4, Zenon
  <2>6. CASE 2 * k + 2 <= n
    <3>1. Nibbles[e[k + 1]] = <<d[2 * k + 1], d[2 * k + 2]>>
      BY <1>1, <2>1, <2>6
    <3>2. SubSeq(d, 1, 2 * k) \o <<d[2 * k + 1], d[2 * k + 2]>> = SubSeq(d, 1, 2 * k + 2)
      BY <1>0, <2>6
    <3> QED
      BY <2>1, <2>5, <2>6, <3>1, <3>2, Zenon
  <2>7. CASE ~(2 * k + 2 <= n)
    <3>1. Nibbles[e[k + 1]] = <<d[2 * k + 1]>>
      BY <1>1, <2>1, <2>7
    <3>2. SubSeq(d, 1, 2 * k) \o <<d[2 * k + 1]>> = SubSeq(d, 1, n)
      <4>1. 2 * k + 1 = n
        BY <1>0, <2>2, <2>7
      <4>2. SubSeq(d, 1, 2 * k) \o <<d[2 * k + 1]>> = SubSeq(d, 1, 2 * k + 1)
        BY <1>0, <2>2
      <4> QED
        BY <4>1, <4>2
    <3> QED
      BY <2>1, <2>5, <2>7, <3>1, <3>2, Zenon
  <2> QED
    BY <2>6, <2>7
<1>4. Nat \subseteq T
  <2> HIDE DEF T
  <2> QED
    BY <1>2, <1>3, Induction
<1>5. Spell(Nibbles, e) = d
  <2>1. SubSeq(e, 1, m) = e /\ SubSeq(d, 1, n) = d /\ m <= m
    BY <1>0, <1>1
  <2>2. Spell(Nibbles, SubSeq(e, 1, m)) = SubSeq(d, 1, IF 2 * m <= n THEN 2 * m ELSE n)
    BY <1>0, <1>4, <2>1, Zenon
  <2>3. (IF 2 * m <= n THEN 2 * m ELSE n) = n
    BY <1>0
  <2> QED
    BY <2>1, <2>2, <2>3, Zenon
<1>6. DecodeDigits(e, n) = SubSeq(d, 1, IF n < n THEN n ELSE n)
  BY <1>0, <1>1, <1>5, OctetsSpell, Zenon
<1>7. SubSeq(d, 1, n) = d
  BY <1>0
<1> QED
  BY <1>6, <1>7, Zenon DEF e

-----------------------------------------------------------------------------
(* The fields of a PDU *)

\* Two fields, one after the other.
LEMMA Two ==
  ASSUME NEW S, NEW x \in Seq(S), NEW z \in Seq(S)
  PROVE  /\ x \o z \in Seq(S) /\ Len(x) \in Nat /\ Len(z) \in Nat /\ Len(x \o z) = Len(x) + Len(z)
         /\ \A i \in 1 .. Len(x) : (x \o z)[i] = x[i]
         /\ \A i \in 1 .. Len(z) : (x \o z)[Len(x) + i] = z[i]
         /\ SubSeq(x \o z, 1, Len(x)) = x
         /\ SubSeq(x \o z, Len(x) + 1, Len(x \o z)) = z
<1> DEFINE w == x \o z
           n == Len(x)
<1>1. /\ w \in Seq(S) /\ n \in Nat /\ Len(z) \in Nat /\ Len(w) = n + Len(z)
      /\ \A i \in 1 .. n : w[i] = x[i]
      /\ \A i \in 1 .. Len(z) : w[n + i] = z[i]
  OBVIOUS
<1> HIDE DEF w
<1>2. SubSeq(w, 1, n) = x
  BY <1>1
<1>3. SubSeq(w, n + 1, Len(w)) = z
  <2> HIDE DEF n
  <2> DEFINE v == SubSeq(w, n + 1, n + Len(z))
  <2>1. n + 1 \in Int /\ n + Len(z) \in Int /\ \A i \in n + 1 .. n + Len(z) : w[i] \in S
    BY <1>1
  <2>2. /\ v \in Seq(S) /\ Len(v) = IF n + 1 <= n + Len(z) THEN ((n + Len(z)) - (n + 1)) + 1 ELSE 0
        /\ \A i \in 1 .. ((n + Len(z)) - (n + 1)) + 1 : v[i] = w[((n + 1) + i) - 1]
    BY <2>1, SubSeqProperties
  <2>3. /\ (IF n + 1 <= n + Len(z) THEN ((n + Len(z)) - (n + 1)) + 1 ELSE 0) = Len(z)
        /\ ((n + Len(z)) - (n + 1)) + 1 = Len(z)
        /\ \A i \in 1 .. Len(z) : ((n + 1) + i) - 1 = n + i
    BY <1>1
  <2> HIDE DEF v
  <2>4. v \in Seq(S) /\ Len(v) = Len(z) /\ \A i \in 1 .. Len(z) : v[i] = z[i]
    BY <1>1, <2>2, <2>3, Zenon
  <2>5. v = z
    BY <2>4
  <2> QED
    BY <1>1, <2>5 DEF v
<1> QED
  BY <1>1, <1>2, <1>3 DEF w

\* w is four fields, one after the other.
InFour(w, a, e, f, g) ==
  /\ w \in Seq(Nat) /\ Len(w) = ((Len(a) + Len(e)) + Len(f)) + Len(g)
  /\ \A i \in 1 .. Len(a) : w[i] = a[i]
  /\ \A i \in 1 .. Len(f) : w[(Len(a) + Len(e)) + i] = f[i]
  /\ \A i \in 1 .. Len(g) : w[((Len(a) + Len(e)) + Len(f)) + i] = g[i]
  /\ SubSeq(w, Len(a) + 1, Len(a) + Len(e)) = e
  /\ SubSeq(w, ((Len(a) + Len(e)) + Len(f)) + 1, Len(w)) = g

\* Fields in a row are where they should be.
LEMMA Fields ==
  ASSUME NEW a \in Seq(Nat), NEW e \in Seq(Nat), NEW f \in Seq(Nat), NEW g \in Seq(Nat)
  PROVE  InFour(((a \o e) \o f) \o g, a, e, f, g)
<1> DEFINE x == a \o e
           y == x \o f
           w == y \o g
           la == Len(a)
           le == Len(e)
           lf == Len(f)
           lg == Len(g)
<1>0. la \in Nat /\ le \in Nat /\ lf \in Nat /\ lg \in Nat
  BY LenProperties
<1>1. /\ x \in Seq(Nat) /\ Len(x) = la + le
      /\ \A i \in 1 .. la : x[i] = a[i]
      /\ \A i \in 1 .. le : x[la + i] = e[i]
  BY Two
<1> HIDE DEF x
<1>2. /\ y \in Seq(Nat) /\ Len(y) = (la + le) + lf
      /\ \A i \in 1 .. la + le : y[i] = x[i]
      /\ \A i \in 1 .. lf : y[(la + le) + i] = f[i]
  <2>1. x \in Seq(Nat) /\ Len(x) = la + le
    BY <1>1
  <2>2. /\ y \in Seq(Nat) /\ Len(y) = Len(x) + lf
        /\ \A i \in 1 .. Len(x) : y[i] = x[i]
        /\ \A i \in 1 .. lf : y[Len(x) + i] = f[i]
    <3>1. \A p \in Seq(Nat) :
            /\ p \o f \in Seq(Nat) /\ Len(p \o f) = Len(p) + lf
            /\ \A i \in 1 .. Len(p) : (p \o f)[i] = p[i]
            /\ \A i \in 1 .. lf : (p \o f)[Len(p) + i] = f[i]
      BY Two
    <3> QED
      BY <2>1, <3>1, Zenon
  <2> HIDE DEF y
  <2> QED
    BY <2>1, <2>2, Zenon
<1> HIDE DEF y
<1>3. /\ w \in Seq(Nat) /\ Len(w) = ((la + le) + lf) + lg
      /\ \A i \in 1 .. (la + le) + lf : w[i] = y[i]
      /\ \A i \in 1 .. lg : w[((la + le) + lf) + i] = g[i]
      /\ SubSeq(w, ((la + le) + lf) + 1, Len(w)) = g
  <2>1. y \in Seq(Nat) /\ Len(y) = (la + le) + lf
    BY <1>2
  <2>2. /\ w \in Seq(Nat) /\ Len(w) = Len(y) + lg
        /\ \A i \in 1 .. Len(y) : w[i] = y[i]
        /\ \A i \in 1 .. lg : w[Len(y) + i] = g[i]
        /\ SubSeq(w, Len(y) + 1, Len(w)) = g
    <3>1. \A p \in Seq(Nat) :
            /\ p \o g \in Seq(Nat) /\ Len(p \o g) = Len(p) + lg
            /\ \A i \in 1 .. Len(p) : (p \o g)[i] = p[i]
            /\ \A i \in 1 .. lg : (p \o g)[Len(p) + i] = g[i]
            /\ SubSeq(p \o g, Len(p) + 1, Len(p \o g)) = g
      BY Two
    <3> QED
      BY <2>1, <3>1, Zenon
  <2> HIDE DEF w
  <2> QED
    BY <2>1, <2>2, Zenon
<1> HIDE DEF w
<1>4. \A i \in 1 .. la : w[i] = a[i]
  <2>1. \A i \in 1 .. la : i \in 1 .. la + le /\ i \in 1 .. (la + le) + lf
    BY <1>0
  <2> QED
    BY <1>1, <1>2, <1>3, <2>1, Zenon
<1>5. \A i \in 1 .. lf : w[(la + le) + i] = f[i]
  <2>1. \A i \in 1 .. lf : (la + le) + i \in 1 .. (la + le) + lf
    BY <1>0
  <2> QED
    BY <1>2, <1>3, <2>1, Zenon
<1>6. \A i \in 1 .. le : w[la + i] = e[i]
  <2>1. \A i \in 1 .. le : la + i \in 1 .. (la + le) + lf /\ la + i \in 1 .. la + le
    BY <1>0
  <2> QED
    BY <1>1, <1>2, <1>3, <2>1, Zenon
<1>7. SubSeq(w, la + 1, la + le) = e
  <2> HIDE DEF la, lf, lg
  <2>1. la + le <= Len(w)
    BY <1>0, <1>3
  <2> QED
    BY <1>0, <1>3, <1>6, <2>1
<1> QED
  BY <1>3, <1>4, <1>5, <1>7, Zenon DEF InFour, w, y, x, la, le, lf, lg

\* A number is some digits.
Number == [plus : BOOLEAN, digits : Seq(Digit) \ {<<>>}]

\* The field of the address: the digits, and their octets.
LEMMA AddressIs ==
  ASSUME NEW number \in Number
  PROVE  /\ number.digits \in Seq(Digit) /\ Len(number.digits) \in Nat /\ Len(number.digits) > 0
         /\ number.plus \in BOOLEAN
         /\ EncodeDigits(number.digits) \in Seq(Nat)
         /\ Len(EncodeDigits(number.digits)) = Pairs(Len(number.digits)) /\ Pairs(Len(number.digits)) \in Nat
         /\ DecodeDigits(EncodeDigits(number.digits), Len(number.digits)) = number.digits
<1>1. number.digits \in Seq(Digit) /\ number.digits # <<>> /\ number.plus \in BOOLEAN
  BY DEF Number
<1> DEFINE d == number.digits
<1>2. d \in Seq(Digit) /\ d # <<>>
  BY <1>1
<1> HIDE DEF d
<1>3. Len(d) \in Nat /\ Len(d) > 0
  BY <1>2
<1>4. EncodeDigits(d) \in Seq(Octet) /\ Len(EncodeDigits(d)) = Pairs(Len(d))
  BY <1>2, EncodedDigits
<1>5. EncodeDigits(d) \in Seq(Nat)
  <2>1. Octet \subseteq Nat
    BY DEF Octet
  <2> QED
    BY <1>4, <2>1, SeqMonotonic
<1>6. DecodeDigits(EncodeDigits(d), Len(d)) = d
  <2>1. d \in Seq(0 .. 9)
    BY <1>2 DEF Digit
  <2> QED
    BY <2>1, NumbersSurvive
<1>7. Pairs(Len(d)) \in Nat
  BY <1>3, PairsAre
<1> QED
  BY <1>1, <1>3, <1>4, <1>5, <1>6, <1>7, Zenon DEF d

\* Where the fields of b are: the length of the address, the protocol and the
\* length of the user data.
Layout(b, length, pid, udl) ==
  /\ b[1] = 0 /\ b[2] % 4 \in {0, 1} /\ (b[2] \div 8) % 4 = 0
  /\ length = 2 + (IF b[2] % 4 = 1 THEN 2 ELSE 1)
  /\ b[length] \in Nat /\ b[length] > 0
  /\ pid = (length + 2) + Pairs(b[length])
  /\ udl = (pid + 2) + (IF b[2] % 4 = 1 THEN 0 ELSE 7)
  /\ Len(b) >= udl
  /\ (b[2] \div 64) % 2 = 1 => Len(b) > udl + b[udl + 1] /\ b[udl + 1] \in Nat

\* The fields of b are read from there.
ReadAt(b, length, pid, udl) ==
  /\ ParsePDU(b).error = FALSE
  /\ ParsePDU(b).plus = (b[length + 1] = 145)
  /\ ParsePDU(b).digits = DecodeDigits(SubSeq(b, length + 2, (length + 1) + Pairs(b[length])), b[length])
  /\ ParsePDU(b).content = DecodeUserData(SubSeq(b, udl + 1, Len(b)), b[udl], b[pid + 1], (b[2] \div 64) % 2 = 1)

\* What a PDU of that layout is read as.
LEMMA FieldsAreRead ==
  ASSUME NEW b \in Seq(Nat), NEW length \in Nat, NEW pid \in Nat, NEW udl \in Nat, Layout(b, length, pid, udl)
  PROVE  ReadAt(b, length, pid, udl)
<1> DEFINE first1  == 2 + b[1]
           submit1 == b[first1] % 4 = 1
           length1 == first1 + (IF submit1 THEN 2 ELSE 1)
           octets1 == (b[length1] + 1) \div 2
           pid1    == (length1 + 1) + (IF b[length1] = 0 THEN 0 ELSE 1 + octets1)
           udl1    == (pid1 + 2) + (IF submit1 THEN <<0, 7, 1, 7>>[((b[first1] \div 8) % 4) + 1] ELSE 7)
           whole1  == /\ Len(b) >= 1 /\ Len(b) >= first1
                      /\ b[first1] % 4 \in {0, 1}
                      /\ Len(b) >= length1 + (IF submit1 THEN 1 ELSE 0)
                      /\ b[length1] > 0 => Len(b) >= (length1 + 1) + octets1
                      /\ Len(b) >= pid1 + 1 /\ Len(b) >= udl1
                      /\ (b[first1] \div 64) % 2 = 1 => Len(b) > udl1 /\ Len(b) > udl1 + b[udl1 + 1]
           record1 == [error   |-> FALSE,
                       plus    |-> b[length1] > 0 /\ b[length1 + 1] = 145,
                       digits  |-> DecodeDigits(SubSeq(b, length1 + 2, (length1 + 1) + octets1), b[length1]),
                       content |-> DecodeUserData(SubSeq(b, udl1 + 1, Len(b)), b[udl1], b[pid1 + 1],
                                                  (b[first1] \div 64) % 2 = 1)]
<1>1. ParsePDU(b) = IF ~whole1 THEN [error |-> TRUE] ELSE record1
  BY DEF ParsePDU
<1>2. /\ b[1] = 0 /\ b[2] % 4 \in {0, 1} /\ (b[2] \div 8) % 4 = 0
      /\ length = 2 + (IF b[2] % 4 = 1 THEN 2 ELSE 1)
      /\ b[length] \in Nat /\ b[length] > 0
      /\ pid = (length + 2) + Pairs(b[length])
      /\ udl = (pid + 2) + (IF b[2] % 4 = 1 THEN 0 ELSE 7)
      /\ Len(b) >= udl
      /\ (b[2] \div 64) % 2 = 1 => Len(b) > udl + b[udl + 1] /\ b[udl + 1] \in Nat
  BY Zenon DEF Layout
<1>3. first1 = 2
  BY <1>2
<1>4. length1 = length
  BY <1>2, <1>3, Zenon
<1>5. octets1 = Pairs(b[length]) /\ Pairs(b[length]) \in Nat
  <2>1. octets1 = Pairs(b[length])
    BY <1>4, Zenon DEF Pairs
  <2>2. Pairs(b[length]) \in Nat
    BY <1>2, PairsAre
  <2> QED
    BY <2>1, <2>2
<1> DEFINE m == Pairs(b[length])
<1> HIDE DEF m, first1, length1, octets1
<1>6. pid1 = pid
  <2>1. pid1 = (length + 1) + (1 + m)
    <3>1. b[length] # 0
      BY <1>2
    <3> QED
      BY <1>4, <1>5, <3>1, Zenon DEF m
  <2>2. pid = (length + 2) + m /\ m \in Nat
    BY <1>2, <1>5, Zenon DEF m
  <2> QED
    BY <2>1, <2>2
<1> HIDE DEF pid1
<1>7. udl1 = udl
  <2>1. submit1 <=> b[2] % 4 = 1
    BY <1>3
  <2>2. (b[first1] \div 8) % 4 = 0
    BY <1>2, <1>3, Zenon
  <2>3. <<0, 7, 1, 7>>[((b[first1] \div 8) % 4) + 1] = 0
    <3>1. <<0, 7, 1, 7>>[0 + 1] = 0
      OBVIOUS
    <3> QED
      BY <2>2, <3>1, Zenon
  <2> QED
    BY <1>2, <1>6, <2>1, <2>3, Zenon
<1> HIDE DEF udl1
<1>8. whole1
  <2>1. /\ Len(b) \in Nat /\ length >= 3 /\ length <= 4 /\ (b[2] % 4 # 1 => length = 3)
        /\ m \in Nat /\ pid = (length + 2) + m /\ Len(b) >= udl /\ udl >= pid + 2
    <3>1. Len(b) \in Nat /\ m \in Nat /\ pid = (length + 2) + m /\ Len(b) >= udl
      BY <1>2, <1>5, LenProperties, Zenon DEF m
    <3>2. length >= 3 /\ length <= 4 /\ (b[2] % 4 # 1 => length = 3)
      BY <1>2
    <3>3. udl >= pid + 2
      BY <1>2
    <3> QED
      BY <3>1, <3>2, <3>3
  <2>2. Len(b) >= 1 /\ Len(b) >= 2 /\ Len(b) >= length + 1 /\ Len(b) >= length + 0
        /\ Len(b) >= (length + 1) + m /\ Len(b) >= pid + 1
    BY <2>1
  <2>3. (b[2] \div 64) % 2 = 1 => Len(b) > udl /\ Len(b) > udl + b[udl + 1]
    BY <1>2, <2>1
  <2>4. Len(b) >= length + (IF submit1 THEN 1 ELSE 0)
    BY <2>2
  <2> QED
    BY <1>2, <1>3, <1>4, <1>5, <1>6, <1>7, <2>1, <2>2, <2>3, <2>4, Zenon DEF m
<1>9. ParsePDU(b) = record1
  BY <1>1, <1>8, Zenon
<1>10. /\ ParsePDU(b).error = FALSE
       /\ ParsePDU(b).plus = (b[length1] > 0 /\ b[length1 + 1] = 145)
       /\ ParsePDU(b).digits = DecodeDigits(SubSeq(b, length1 + 2, (length1 + 1) + octets1), b[length1])
       /\ ParsePDU(b).content = DecodeUserData(SubSeq(b, udl1 + 1, Len(b)), b[udl1], b[pid1 + 1],
                                                 (b[first1] \div 64) % 2 = 1)
  <2> HIDE DEF submit1, whole1
  <2>1. ParsePDU(b).error = FALSE
    BY <1>9
  <2>2. ParsePDU(b).plus = (b[length1] > 0 /\ b[length1 + 1] = 145)
    BY <1>9
  <2>3. ParsePDU(b).digits = DecodeDigits(SubSeq(b, length1 + 2, (length1 + 1) + octets1), b[length1])
    BY <1>9
  <2>4. ParsePDU(b).content = DecodeUserData(SubSeq(b, udl1 + 1, Len(b)), b[udl1], b[pid1 + 1],
                                             (b[first1] \div 64) % 2 = 1)
    BY <1>9
  <2> QED
    BY <2>1, <2>2, <2>3, <2>4
<1>11. ParsePDU(b).plus = (b[length + 1] = 145)
  BY <1>2, <1>4, <1>10, Zenon
<1> QED
  BY <1>3, <1>4, <1>5, <1>6, <1>7, <1>10, <1>11, Zenon DEF m, ReadAt

\* The user data of a PDU: octets, with a header of six where the first octet
\* of the PDU says so.
Headed(first, ud) == first = 65 => Len(ud) >= 6 /\ ud[1] = 5

\* b is submitted with these fields, the digits in m octets.
Submitted(b, m, number, first, dcs, udl, ud) ==
  /\ b \in Seq(Nat) /\ Len(b) = (8 + m) + Len(ud)
  /\ b[1] = 0 /\ b[2] = first /\ b[4] = Len(number.digits) /\ b[5] = (IF number.plus THEN 145 ELSE 129)
  /\ b[6 + m] = 0 /\ b[7 + m] = dcs /\ b[8 + m] = udl
  /\ \A i \in 1 .. Len(ud) : b[(8 + m) + i] = ud[i]
  /\ SubSeq(b, 6, 5 + m) = EncodeDigits(number.digits)
  /\ SubSeq(b, 9 + m, Len(b)) = ud

\* The fields of a PDU that is submitted.
LEMMA SubmitFields ==
  ASSUME NEW number \in Number, NEW first \in {1, 65}, NEW dcs \in Nat, NEW udl \in Nat, NEW ud \in Seq(Nat),
         Headed(first, ud)
  PROVE  Submitted(Submit(number, first, dcs, udl, ud), Pairs(Len(number.digits)), number, first, dcs, udl, ud)
<1> DEFINE n == Len(number.digits)
           m == Pairs(n)
           type == IF number.plus THEN 145 ELSE 129
           a == <<0, first, 0, n, type>>
           e == EncodeDigits(number.digits)
           f == <<0, dcs, udl>>
           b == ((a \o e) \o f) \o ud
<1>1. Submit(number, first, dcs, udl, ud) = b
  BY DEF Submit
<1>2. n \in Nat /\ m \in Nat /\ e \in Seq(Nat) /\ Len(e) = m
  BY AddressIs, Zenon
<1>3. type \in Nat
  OBVIOUS
<1> HIDE DEF type, e, n
<1>4. a \in Seq(Nat) /\ Len(a) = 5 /\ a[1] = 0 /\ a[2] = first /\ a[4] = n /\ a[5] = type
  <2>1. first \in Nat
    OBVIOUS
  <2> QED
    BY <1>2, <1>3, <2>1
<1>5. f \in Seq(Nat) /\ Len(f) = 3 /\ f[1] = 0 /\ f[2] = dcs /\ f[3] = udl
  OBVIOUS
<1> HIDE DEF a, f, m
<1>6. /\ b \in Seq(Nat) /\ Len(b) = ((5 + m) + 3) + Len(ud)
      /\ \A i \in 1 .. 5 : b[i] = a[i]
      /\ \A i \in 1 .. 3 : b[(5 + m) + i] = f[i]
      /\ \A i \in 1 .. Len(ud) : b[((5 + m) + 3) + i] = ud[i]
      /\ SubSeq(b, 5 + 1, 5 + m) = e
      /\ SubSeq(b, ((5 + m) + 3) + 1, Len(b)) = ud
  <2>1. /\ b \in Seq(Nat) /\ Len(b) = ((Len(a) + Len(e)) + Len(f)) + Len(ud)
        /\ \A i \in 1 .. Len(a) : b[i] = a[i]
        /\ \A i \in 1 .. Len(f) : b[(Len(a) + Len(e)) + i] = f[i]
        /\ \A i \in 1 .. Len(ud) : b[((Len(a) + Len(e)) + Len(f)) + i] = ud[i]
        /\ SubSeq(b, Len(a) + 1, Len(a) + Len(e)) = e
        /\ SubSeq(b, ((Len(a) + Len(e)) + Len(f)) + 1, Len(b)) = ud
    <3>1. InFour(b, a, e, f, ud)
      BY <1>2, <1>4, <1>5, Fields
    <3> HIDE DEF b
    <3> QED
      BY <3>1, Zenon DEF InFour
  <2> HIDE DEF b
  <2> QED
    BY <1>2, <1>4, <1>5, <2>1, Zenon
<1> HIDE DEF b
<1>7. /\ (5 + m) + 3 = 8 + m /\ (5 + m) + 1 = 6 + m /\ (5 + m) + 2 = 7 + m /\ 5 + 1 = 6
      /\ (8 + m) + 1 = 9 + m
  BY <1>2
<1>8. 1 \in 1 .. 5 /\ 2 \in 1 .. 5 /\ 4 \in 1 .. 5 /\ 5 \in 1 .. 5 /\ 1 \in 1 .. 3 /\ 2 \in 1 .. 3 /\ 3 \in 1 .. 3
  OBVIOUS
<1>9. b[1] = 0 /\ b[2] = first /\ b[4] = n /\ b[5] = type
  BY <1>4, <1>6, <1>8, Zenon
<1>10. b[6 + m] = 0 /\ b[7 + m] = dcs /\ b[8 + m] = udl
  <2>1. b[(5 + m) + 1] = f[1] /\ b[(5 + m) + 2] = f[2] /\ b[(5 + m) + 3] = f[3]
    BY <1>6, <1>8, Zenon
  <2> QED
    BY <1>5, <1>7, <2>1, Zenon
<1>11. /\ Len(b) = (8 + m) + Len(ud) /\ \A i \in 1 .. Len(ud) : b[(8 + m) + i] = ud[i]
       /\ SubSeq(b, 6, 5 + m) = e /\ SubSeq(b, 9 + m, Len(b)) = ud
  BY <1>6, <1>7, Zenon
<1> QED
  BY <1>1, <1>6, <1>9, <1>10, <1>11, Zenon DEF m, n, e, type, Submitted

\* b is read as a message to that number, of that content.
IsRead(b, number, content) ==
  /\ ~ParsePDU(b).error /\ ParsePDU(b).plus = number.plus
  /\ ParsePDU(b).digits = number.digits /\ ParsePDU(b).content = content

\* A PDU that is submitted reads back.
LEMMA SubmitIsRead ==
  ASSUME NEW number \in Number, NEW first \in {1, 65}, NEW dcs \in Nat, NEW udl \in Nat, NEW ud \in Seq(Nat),
         Headed(first, ud)
  PROVE  IsRead(Submit(number, first, dcs, udl, ud), number, DecodeUserData(ud, udl, dcs, (first \div 64) % 2 = 1))
<1> DEFINE n == Len(number.digits)
           m == Pairs(n)
           b == Submit(number, first, dcs, udl, ud)
           e == EncodeDigits(number.digits)
<1>1. /\ b \in Seq(Nat) /\ Len(b) = (8 + m) + Len(ud)
      /\ b[1] = 0 /\ b[2] = first /\ b[4] = n /\ b[5] = (IF number.plus THEN 145 ELSE 129)
      /\ b[6 + m] = 0 /\ b[7 + m] = dcs /\ b[8 + m] = udl
      /\ \A i \in 1 .. Len(ud) : b[(8 + m) + i] = ud[i]
      /\ SubSeq(b, 6, 5 + m) = e
      /\ SubSeq(b, 9 + m, Len(b)) = ud
  <2>1. Submitted(b, m, number, first, dcs, udl, ud)
    BY SubmitFields
  <2> QED
    BY <2>1, Zenon DEF Submitted
<1>2. /\ n \in Nat /\ n > 0 /\ m \in Nat /\ number.plus \in BOOLEAN /\ Len(ud) \in Nat
      /\ DecodeDigits(e, n) = number.digits
  BY AddressIs, LenProperties, Zenon
<1> HIDE DEF b, n, e
<1>3. Layout(b, 4, 6 + m, 8 + m)
  <2>1. b[2] % 4 = 1 /\ (b[2] \div 8) % 4 = 0
    <3>1. b[2] = 1 \/ b[2] = 65
      BY <1>1
    <3>2. 1 % 4 = 1 /\ 65 % 4 = 1 /\ (1 \div 8) % 4 = 0 /\ (65 \div 8) % 4 = 0
      OBVIOUS
    <3> QED
      BY <3>1, <3>2, Zenon
  <2>2. 4 = 2 + (IF b[2] % 4 = 1 THEN 2 ELSE 1)
    BY <2>1
  <2>3. b[4] \in Nat /\ b[4] > 0 /\ Pairs(b[4]) = m
    BY <1>1, <1>2, Zenon
  <2> HIDE DEF m
  <2>4. 6 + m = (4 + 2) + Pairs(b[4]) /\ 8 + m = ((6 + m) + 2) + (IF b[2] % 4 = 1 THEN 0 ELSE 7)
    BY <1>2, <2>1, <2>3
  <2>5. Len(b) >= 8 + m
    BY <1>1, <1>2
  <2>6. ASSUME (b[2] \div 64) % 2 = 1
        PROVE  Len(b) > (8 + m) + b[(8 + m) + 1] /\ b[(8 + m) + 1] \in Nat
    <3>1. first = 65
      <4>1. (1 \div 64) % 2 # 1
        OBVIOUS
      <4> QED
        BY <1>1, <2>6, <4>1
    <3>2. Len(ud) >= 6 /\ ud[1] = 5
      BY <3>1 DEF Headed
    <3>3. b[(8 + m) + 1] = 5
      BY <1>1, <1>2, <3>2
    <3> QED
      BY <1>1, <1>2, <3>2, <3>3
  <2> QED
    BY <1>1, <2>1, <2>2, <2>3, <2>4, <2>5, <2>6 DEF Layout
<1> HIDE DEF m
<1>4. /\ ParsePDU(b).error = FALSE
      /\ ParsePDU(b).plus = (b[4 + 1] = 145)
      /\ ParsePDU(b).digits = DecodeDigits(SubSeq(b, 4 + 2, (4 + 1) + Pairs(b[4])), b[4])
      /\ ParsePDU(b).content = DecodeUserData(SubSeq(b, (8 + m) + 1, Len(b)), b[8 + m], b[(6 + m) + 1], (b[2] \div 64) % 2 = 1)
  <2>1. 4 \in Nat /\ 6 + m \in Nat /\ 8 + m \in Nat
    BY <1>2
  <2> QED
    <3>1. ReadAt(b, 4, 6 + m, 8 + m)
      BY <1>1, <1>3, <2>1, FieldsAreRead
    <3> QED
      BY <3>1, Zenon DEF ReadAt
<1>5. 4 + 1 = 5 /\ 4 + 2 = 6 /\ (8 + m) + 1 = 9 + m /\ (6 + m) + 1 = 7 + m
  BY <1>2
<1>6. Pairs(b[4]) = m
  BY <1>1, Zenon DEF m
<1>7. ParsePDU(b).plus = number.plus
  <2>1. ParsePDU(b).plus = (b[5] = 145)
    BY <1>4, <1>5, Zenon
  <2>2. 129 # 145
    OBVIOUS
  <2>3. (b[5] = 145) = number.plus
    <3>1. CASE number.plus = TRUE
      BY <1>1, <3>1
    <3>2. CASE number.plus = FALSE
      BY <1>1, <2>2, <3>2
    <3> QED
      BY <1>2, <3>1, <3>2
  <2> QED
    BY <2>1, <2>3, Zenon
<1>8. ParsePDU(b).digits = number.digits
  <2>1. ParsePDU(b).digits = DecodeDigits(SubSeq(b, 6, 5 + m), n)
    BY <1>1, <1>4, <1>5, <1>6, Zenon
  <2> QED
    BY <1>1, <1>2, <2>1, Zenon
<1>9. ParsePDU(b).content = DecodeUserData(ud, udl, dcs, (first \div 64) % 2 = 1)
  BY <1>1, <1>4, <1>5, Zenon
<1> QED
  BY <1>4, <1>7, <1>8, <1>9, Zenon DEF b, IsRead

\* Fields put together another way.
Regroups(x, p, z, u, v) == ((x \o p) \o z) \o (u \o v) = (x \o ((p \o z) \o u)) \o v

\* They are the same.
LEMMA Regrouped ==
  ASSUME NEW x \in Seq(Nat), NEW p \in Seq(Nat), NEW z \in Seq(Nat), NEW u \in Seq(Nat), NEW v \in Seq(Nat)
  PROVE  Regroups(x, p, z, u, v)
<1> DEFINE Same(r, s, t) == (r \o s) \o t = r \o (s \o t)
<1>0. \A r, s, t \in Seq(Nat) : Same(r, s, t)
  BY Associative
<1> HIDE DEF Same
<1>1. x \o p \in Seq(Nat) /\ p \o z \in Seq(Nat) /\ (p \o z) \o u \in Seq(Nat) /\ x \o (p \o z) \in Seq(Nat)
  <2>1. \A r, s \in Seq(Nat) : r \o s \in Seq(Nat)
    BY ConcatProperties
  <2> QED
    BY <2>1, Zenon
<1>2. Same(x, p, z) /\ Same(x \o (p \o z), u, v) /\ Same(x, p \o z, u)
  BY <1>0, <1>1, Zenon
<1>3. /\ (x \o p) \o z = x \o (p \o z)
      /\ (x \o (p \o z)) \o (u \o v) = ((x \o (p \o z)) \o u) \o v
      /\ (x \o (p \o z)) \o u = x \o ((p \o z) \o u)
  BY <1>2 DEF Same
<1> QED
  BY <1>3, Zenon DEF Regroups

\* Two elements, one after the other.
LEMMA TwoElements ==
  ASSUME NEW S, NEW x \in S, NEW y \in S
  PROVE  <<x>> \o <<y>> = <<x, y>> /\ Append(Append(<<>>, x), y) = <<x, y>>
<1>1. <<x>> \in Seq(S) /\ Append(<<>>, x) = <<x>>
  OBVIOUS
<1>2. Append(<<x>>, y) = <<x>> \o <<y>>
  BY <1>1, AppendIsConcat
<1>3. Append(<<x>>, y) = <<x, y>>
  <2> DEFINE s == Append(<<x>>, y)
             t == <<x, y>>
  <2>1. s \in Seq(S) /\ Len(s) = 2 /\ s[1] = x /\ s[2] = y
    BY <1>1, AppendProperties
  <2>2. t \in Seq(S) /\ Len(t) = 2 /\ t[1] = x /\ t[2] = y
    OBVIOUS
  <2> HIDE DEF s, t
  <2>3. \A i \in 1 .. 2 : i = 1 \/ i = 2
    OBVIOUS
  <2>4. s = t
    BY <2>1, <2>2, <2>3, SeqEqual
  <2> QED
    BY <2>4 DEF s, t
<1> QED
  BY <1>1, <1>2, <1>3, Zenon

\* The user data of a PDU arrives, from a number.
Arrives(from, b, content) ==
  ParsePDU(Deliver(from, b)).error = FALSE /\ ParsePDU(Deliver(from, b)).content = content

\* A PDU that was submitted and is delivered has its user data.
LEMMA DeliverIsRead ==
  ASSUME NEW number \in Number, NEW first \in {1, 65}, NEW dcs \in Nat, NEW udl \in Nat, NEW ud \in Seq(Nat),
         Headed(first, ud), NEW from \in Number
  PROVE  Arrives(from, Submit(number, first, dcs, udl, ud), DecodeUserData(ud, udl, dcs, (first \div 64) % 2 = 1))
<1> DEFINE b    == Submit(number, first, dcs, udl, ud)
           k    == Pairs(Len(number.digits))
           n    == Len(from.digits)
           m    == Pairs(n)
           e    == EncodeDigits(from.digits)
           type == IF from.plus THEN 145 ELSE 129
           head == (first \div 64) * 64
           a    == <<0, head, n, type>>
           p    == <<0, dcs>>
           z    == <<0, 0, 0, 0, 0, 0, 0>>
           f    == (p \o z) \o <<udl>>
           w    == ((a \o e) \o f) \o ud
<1>1. Submitted(b, k, number, first, dcs, udl, ud) /\ k \in Nat
  BY SubmitFields, AddressIs
<1>2. /\ n \in Nat /\ n > 0 /\ m \in Nat /\ e \in Seq(Nat) /\ Len(e) = m
  BY AddressIs, Zenon
<1>3. Len(ud) \in Nat
  BY LenProperties
<1>4. SubSeq(b, 6 + k, (6 + k) + 1) = p /\ SubSeq(b, (6 + k) + 2, Len(b)) = <<udl>> \o ud
  <2>1. /\ b \in Seq(Nat) /\ Len(b) = (8 + k) + Len(ud)
        /\ b[6 + k] = 0 /\ b[7 + k] = dcs /\ b[8 + k] = udl
        /\ SubSeq(b, 9 + k, Len(b)) = ud
    BY <1>1, Zenon DEF Submitted
  <2>2. 6 + k \in Nat /\ (6 + k) + 1 = 7 + k /\ (6 + k) + 2 = 8 + k /\ (8 + k) + 1 = 9 + k
    BY <1>1
  <2> HIDE DEF b, k
  <2>3. SubSeq(b, 6 + k, 7 + k) = p
    <3>1. 6 + k \in 1 .. Len(b) /\ 7 + k \in 6 + k .. Len(b) /\ 7 + k \in 1 .. Len(b) /\ 7 + k \in 7 + k .. Len(b)
      BY <1>1, <1>3, <2>1
    <3>2. SubSeq(b, 6 + k, 7 + k) = <<b[6 + k]>> \o SubSeq(b, (6 + k) + 1, 7 + k)
      BY <2>1, <3>1, SubSeqRecursiveFirst
    <3>3. SubSeq(b, 7 + k, 7 + k) = <<b[7 + k]>> \o SubSeq(b, (7 + k) + 1, 7 + k)
      BY <2>1, <3>1, SubSeqRecursiveFirst
    <3>4. SubSeq(b, (7 + k) + 1, 7 + k) = <<>>
      BY <1>1, SubSeqEmpty
    <3>5. <<0>> \o (<<dcs>> \o <<>>) = <<0, dcs>>
      <4>1. <<dcs>> \o <<>> = <<dcs>>
        OBVIOUS
      <4>2. <<0>> \o <<dcs>> = <<0, dcs>>
        <5>1. 0 \in Nat
          OBVIOUS
        <5> QED
          BY <5>1, TwoElements
      <4> QED
        BY <4>1, <4>2, Zenon
    <3> QED
      BY <2>1, <2>2, <3>2, <3>3, <3>4, <3>5, Zenon
  <2>4. SubSeq(b, 8 + k, Len(b)) = <<b[8 + k]>> \o SubSeq(b, (8 + k) + 1, Len(b))
    <3>1. 8 + k \in 1 .. Len(b) /\ Len(b) \in 8 + k .. Len(b)
      BY <1>1, <1>3, <2>1
    <3> QED
      BY <2>1, <3>1, SubSeqRecursiveFirst
  <2> QED
    BY <2>1, <2>2, <2>3, <2>4, Zenon
<1>5. Deliver(from, b) = (((a \o e) \o p) \o z) \o (<<udl>> \o ud)
  <2>1. b[2] = first /\ 6 + ((b[4] + 1) \div 2) = 6 + k
    BY <1>1, Zenon DEF Submitted, Pairs
  <2> HIDE DEF b, k
  <2>2. Deliver(from, b) =
          (((<<0, (b[2] \div 64) * 64, n, type>> \o e) \o SubSeq(b, 6 + ((b[4] + 1) \div 2), (6 + ((b[4] + 1) \div 2)) + 1)) \o z)
            \o SubSeq(b, (6 + ((b[4] + 1) \div 2)) + 2, Len(b))
    BY DEF Deliver
  <2> QED
    BY <1>4, <2>1, <2>2, Zenon
<1>6. type \in Nat /\ head \in Nat /\ (first = 1 => head = 0) /\ (first = 65 => head = 64)
  OBVIOUS
<1> HIDE DEF b, k, n, e, type, head
<1>7. a \in Seq(Nat) /\ Len(a) = 4 /\ a[1] = 0 /\ a[2] = head /\ a[3] = n /\ a[4] = type
  BY <1>2, <1>6
<1>8. f \in Seq(Nat) /\ Len(f) = 10 /\ f[1] = 0 /\ f[2] = dcs /\ f[10] = udl
  OBVIOUS
<1>9. Deliver(from, b) = w
  <2>1. p \in Seq(Nat) /\ z \in Seq(Nat) /\ <<udl>> \in Seq(Nat)
    OBVIOUS
  <2>2. a \o e \in Seq(Nat)
    BY <1>2, <1>7, ConcatProperties
  <2> HIDE DEF a, p, z
  <2> DEFINE x == a \o e
             u == <<udl>>
  <2> HIDE DEF x, u
  <2>3. ((x \o p) \o z) \o (u \o ud) = (x \o ((p \o z) \o u)) \o ud
    <3>1. x \in Seq(Nat) /\ p \in Seq(Nat) /\ z \in Seq(Nat) /\ u \in Seq(Nat)
      BY <2>1, <2>2 DEF x, u
    <3>2. Regroups(x, p, z, u, ud)
      BY <3>1, Regrouped
    <3> QED
      BY <3>2, Zenon DEF Regroups
  <2> QED
    BY <1>5, <2>3, Zenon DEF x, u
<1> HIDE DEF a, f, m
<1>10. InFour(w, a, e, f, ud)
  BY <1>2, <1>7, <1>8, Fields
<1> HIDE DEF w
<1>11. /\ w \in Seq(Nat) /\ Len(w) = ((4 + m) + 10) + Len(ud)
       /\ \A i \in 1 .. 4 : w[i] = a[i]
       /\ \A i \in 1 .. 10 : w[(4 + m) + i] = f[i]
       /\ \A i \in 1 .. Len(ud) : w[((4 + m) + 10) + i] = ud[i]
       /\ SubSeq(w, ((4 + m) + 10) + 1, Len(w)) = ud
  BY <1>2, <1>7, <1>8, <1>10, Zenon DEF InFour
<1>12. /\ (4 + m) + 10 = 14 + m /\ (4 + m) + 1 = 5 + m /\ (4 + m) + 2 = (5 + m) + 1 
  BY <1>2
<1>13. 1 \in 1 .. 4 /\ 2 \in 1 .. 4 /\ 3 \in 1 .. 4 /\ 2 \in 1 .. 10 /\ 10 \in 1 .. 10
  OBVIOUS
<1>14. w[1] = 0 /\ w[2] = head /\ w[3] = n
  BY <1>7, <1>11, <1>13, Zenon
<1>15. w[(5 + m) + 1] = dcs /\ w[14 + m] = udl
  <2>1. w[(4 + m) + 2] = f[2] /\ w[(4 + m) + 10] = f[10]
    BY <1>11, <1>13, Zenon
  <2> QED
    BY <1>8, <1>12, <2>1, Zenon
<1>16. Layout(w, 3, 5 + m, 14 + m)
  <2>1. w[2] % 4 = 0 /\ (w[2] \div 8) % 4 = 0
    <3>1. w[2] = 0 \/ w[2] = 64
      BY <1>6, <1>14
    <3>2. 0 % 4 = 0 /\ 64 % 4 = 0 /\ (0 \div 8) % 4 = 0 /\ (64 \div 8) % 4 = 0
      OBVIOUS
    <3> QED
      BY <3>1, <3>2, Zenon
  <2>2. 3 = 2 + (IF w[2] % 4 = 1 THEN 2 ELSE 1)
    BY <2>1
  <2>3. w[3] \in Nat /\ w[3] > 0 /\ Pairs(w[3]) = m
    BY <1>2, <1>14, Zenon DEF m
  <2>4. 5 + m = (3 + 2) + Pairs(w[3]) /\ 14 + m = ((5 + m) + 2) + (IF w[2] % 4 = 1 THEN 0 ELSE 7)
    BY <1>2, <2>1, <2>3
  <2>5. Len(w) = (14 + m) + Len(ud) /\ \A i \in 1 .. Len(ud) : w[(14 + m) + i] = ud[i]
    BY <1>11, <1>12, Zenon
  <2>6. Len(w) >= 14 + m
    BY <1>2, <1>3, <2>5
  <2>7. ASSUME (w[2] \div 64) % 2 = 1
        PROVE  Len(w) > (14 + m) + w[(14 + m) + 1] /\ w[(14 + m) + 1] \in Nat
    <3>1. first = 65
      <4>1. (0 \div 64) % 2 # 1
        OBVIOUS
      <4> QED
        BY <1>6, <1>14, <2>7, <4>1
    <3>2. Len(ud) >= 6 /\ ud[1] = 5
      BY <3>1 DEF Headed
    <3>3. w[(14 + m) + 1] = 5
      BY <1>3, <2>5, <3>2
    <3> QED
      BY <1>2, <1>3, <2>5, <3>2, <3>3
  <2> QED
    BY <1>14, <2>1, <2>2, <2>3, <2>4, <2>6, <2>7 DEF Layout
<1>17. ReadAt(w, 3, 5 + m, 14 + m)
  <2>1. 3 \in Nat /\ 5 + m \in Nat /\ 14 + m \in Nat
    BY <1>2
  <2> QED
    BY <1>11, <1>16, <2>1, FieldsAreRead
<1>18. /\ ParsePDU(w).error = FALSE
       /\ ParsePDU(w).content = DecodeUserData(SubSeq(w, (14 + m) + 1, Len(w)), w[14 + m], w[(5 + m) + 1], (w[2] \div 64) % 2 = 1)
  BY <1>17, Zenon DEF ReadAt
<1>19. ((w[2] \div 64) % 2 = 1) <=> ((first \div 64) % 2 = 1)
  <2>1. (0 \div 64) % 2 # 1 /\ (1 \div 64) % 2 # 1 /\ (64 \div 64) % 2 = 1 /\ (65 \div 64) % 2 = 1
    OBVIOUS
  <2> QED
    BY <1>6, <1>14, <2>1, Zenon
<1>20. ParsePDU(w).content = DecodeUserData(ud, udl, dcs, (w[2] \div 64) % 2 = 1)
  BY <1>11, <1>12, <1>15, <1>18, Zenon
<1>21. ((w[2] \div 64) % 2 = 1) = ((first \div 64) % 2 = 1)
  BY <1>19
<1> QED
  BY <1>9, <1>18, <1>20, <1>21, Zenon DEF b, Arrives

-----------------------------------------------------------------------------
(* The user data of a PDU *)

\* z is what remains behind x.
Remains(x, z) == SubSeq(x \o z, Len(x) + 1, Len(x \o z)) = z

\* The second of two fields remains behind the first.
LEMMA SecondRemains ==
  ASSUME NEW S, NEW x \in Seq(S), NEW z \in Seq(S)
  PROVE  Remains(x, z)
BY Two DEF Remains

\* No codes are no text.
LEMMA NoText == DecodeGSM(<<>>) = <<>> /\ DecodeUnits(<<>>) = <<>>
<1>1. <<>> \in Seq(Basic) /\ <<>> \in Seq(Signs)
  OBVIOUS
<1>2. Spell(Septets, <<>>) = <<>> /\ Spell(Units, <<>>) = <<>>
  BY CodesFit, SpellGrows
<1> QED
  BY <1>1, <1>2, ReadsText, ReadsUnitText, Zenon

\* The data coding of septets, and of units.
LEMMA Codings == Coding(0) = 0 /\ Coding(8) = 2 /\ 2 # 0
BY DEF Coding

\* Septets without a header.
LEMMA SeptetsAlone ==
  ASSUME NEW c \in Seq(Septet), NEW u, ~u
  PROVE  DecodeUserData(Pack(c, 0), Len(c), 0, u) = DecodeGSM(c)
<1> DEFINE ud == Pack(c, 0)
           n  == Len(c)
           l  == Smaller((n * 7 + 7) \div 8, Len(ud))
           s  == Unpack(SubSeq(ud, 1, l), n)
<1>1. DecodeUserData(ud, n, 0, u) =
        IF n = 0 THEN <<>>
        ELSE IF Coding(0) = 0 THEN DecodeGSM(SubSeq(s, ((0 * 8 + 6) \div 7) + 1, Len(s)))
        ELSE IF Coding(0) = 2 THEN DecodeUnits(Paired(SubSeq(ud, 0 + 1, Smaller(n, Len(ud)))))
        ELSE DecodeOctets(SubSeq(ud, 0 + 1, Smaller(n, Len(ud))))
  BY DEF DecodeUserData
<1>2. n \in Nat /\ ud \in Seq(Octet) /\ Len(ud) = (n * 7 + 7) \div 8
  <2>1. 0 \in 0 .. 7 /\ <<>> \in Seq(Octet)
    OBVIOUS
  <2>2. n \in Nat /\ ud \in Seq(Octet)
    BY <2>1, PackIs, LenProperties
  <2>3. Len(ud) = (7 * n + 0 + 7) \div 8
    BY <2>1, PackLength
  <2>4. 7 * n + 0 + 7 = n * 7 + 7
    BY <2>2
  <2> QED
    BY <2>2, <2>3, <2>4, Zenon
<1> HIDE DEF ud, n
<1>3. l = Len(ud)
  BY <1>2, Zenon DEF Smaller
<1>4. SubSeq(ud, 1, Len(ud)) = ud
  BY <1>2, SubSeqFull
<1>5. s = c
  <2>1. s = Unpack(ud, n)
    BY <1>3, <1>4, Zenon
  <2>2. c \in Seq(0 .. 127)
    BY DEF Septet
  <2>3. Unpack(Pack(c, 0), Len(c)) = c
    BY <2>2, SeptetsSurvive
  <2> QED
    BY <2>1, <2>3, Zenon DEF ud, n
<1>6. CASE n = 0
  <2>1. c = <<>>
    BY <1>6 DEF n
  <2> QED
    BY <1>1, <1>6, <2>1, NoText, Zenon DEF ud, n
<1>7. CASE n # 0
  <2>1. ((0 * 8 + 6) \div 7) + 1 = 1
    OBVIOUS
  <2>2. SubSeq(c, 1, Len(c)) = c
    BY SubSeqFull
  <2> HIDE DEF s
  <2> QED
    BY <1>1, <1>5, <1>7, <2>1, <2>2, Codings, Zenon DEF ud, n
<1> QED
  BY <1>6, <1>7

\* Septets after a header.
LEMMA SeptetsBehind ==
  ASSUME NEW c \in Seq(Septet), NEW h \in Seq(Octet), Len(h) = 6, h[1] = 5, NEW u, u
  PROVE  DecodeUserData(h \o Pack(c, 1), 7 + Len(c), 0, u) = DecodeGSM(c)
<1> DEFINE ud == h \o Pack(c, 1)
           k  == Len(c)
           n  == 7 + k
           l  == Smaller((n * 7 + 7) \div 8, Len(ud))
           s  == Unpack(SubSeq(ud, 1, l), n)
<1>1. DecodeUserData(ud, n, 0, u) =
        IF n = 0 THEN <<>>
        ELSE IF Coding(0) = 0 THEN DecodeGSM(SubSeq(s, (((ud[1] + 1) * 8 + 6) \div 7) + 1, Len(s)))
        ELSE IF Coding(0) = 2 THEN DecodeUnits(Paired(SubSeq(ud, (ud[1] + 1) + 1, Smaller(n, Len(ud)))))
        ELSE DecodeOctets(SubSeq(ud, (ud[1] + 1) + 1, Smaller(n, Len(ud))))
  BY DEF DecodeUserData
<1>2. k \in Nat /\ ud \in Seq(Octet) /\ Len(ud) = 6 + ((7 * k + 8) \div 8) /\ ud[1] = 5
  <2> DEFINE p == Pack(c, 1)
  <2>1. 1 \in 0 .. 7 /\ <<>> \in Seq(Octet)
    OBVIOUS
  <2>2. k \in Nat /\ p \in Seq(Octet)
    BY <2>1, PackIs, LenProperties
  <2>3. Len(p) = (7 * k + 1 + 7) \div 8
    BY <2>1, PackLength
  <2>4. 7 * k + 1 + 7 = 7 * k + 8
    BY <2>2
  <2> HIDE DEF p, k
  <2>5. h \o p \in Seq(Octet) /\ Len(h \o p) = 6 + Len(p) /\ (h \o p)[1] = 5
    <3>1. \A q \in Seq(Octet) : h \o q \in Seq(Octet) /\ Len(h \o q) = Len(h) + Len(q) /\ \A i \in 1 .. Len(h) : (h \o q)[i] = h[i]
      BY Two
    <3>2. 1 \in 1 .. 6
      OBVIOUS
    <3> QED
      BY <2>2, <3>1, <3>2, Zenon
  <2> QED
    BY <2>2, <2>3, <2>4, <2>5, Zenon DEF p
<1> HIDE DEF ud, k
<1>3. l = Len(ud)
  <2>1. (n * 7 + 7) \div 8 = 6 + ((7 * k + 8) \div 8)
    BY <1>2
  <2> QED
    BY <1>2, <2>1, Zenon DEF Smaller
<1>4. SubSeq(ud, 1, Len(ud)) = ud
  BY <1>2, SubSeqFull
<1>5. Len(s) = n /\ SubSeq(s, 8, n) = c
  <2>1. s = Unpack(ud, n)
    BY <1>3, <1>4, Zenon
  <2>2. c \in Seq(0 .. 127) /\ h \in Seq(0 .. 255)
    BY DEF Septet, Octet
  <2>3. Len(Unpack(ud, n)) = n /\ SubSeq(Unpack(ud, n), 8, n) = c
    BY <2>2, SeptetsSurvive DEF ud, k
  <2> QED
    BY <2>1, <2>3, Zenon
<1>6. n # 0 /\ (((ud[1] + 1) * 8 + 6) \div 7) + 1 = 8
  <2>1. (((5 + 1) * 8 + 6) \div 7) + 1 = 8
    OBVIOUS
  <2> QED
    BY <1>2, <2>1
<1> HIDE DEF s, n, l
<1> QED
  BY <1>1, <1>5, <1>6, Codings, Zenon DEF ud, n, k

\* Units without a header.
LEMMA UnitsAlone ==
  ASSUME NEW c \in Seq(Unit), NEW u, ~u
  PROVE  DecodeUserData(Octets(c), 2 * Len(c), 8, u) = DecodeUnits(c)
<1> DEFINE ud == Octets(c)
           n  == 2 * Len(c)
           s  == Unpack(SubSeq(ud, 1, Smaller((n * 7 + 7) \div 8, Len(ud))), n)
<1>1. DecodeUserData(ud, n, 8, u) =
        IF n = 0 THEN <<>>
        ELSE IF Coding(8) = 0 THEN DecodeGSM(SubSeq(s, ((0 * 8 + 6) \div 7) + 1, Len(s)))
        ELSE IF Coding(8) = 2 THEN DecodeUnits(Paired(SubSeq(ud, 0 + 1, Smaller(n, Len(ud)))))
        ELSE DecodeOctets(SubSeq(ud, 0 + 1, Smaller(n, Len(ud))))
  BY DEF DecodeUserData
<1>2. Len(c) \in Nat /\ ud \in Seq(Octet) /\ Len(ud) = n /\ Paired(ud) = c
  BY OctetsAre, PairedOctets, LenProperties, Zenon DEF HighFirst
<1> HIDE DEF ud
<1>3. SubSeq(ud, 0 + 1, Smaller(n, Len(ud))) = ud
  <2>1. Smaller(n, Len(ud)) = Len(ud)
    BY <1>2, Zenon DEF Smaller
  <2>2. SubSeq(ud, 1, Len(ud)) = ud
    BY <1>2, SubSeqFull
  <2>3. 0 + 1 = 1
    OBVIOUS
  <2> QED
    BY <2>1, <2>2, <2>3, Zenon
<1>4. n = 0 => c = <<>>
  BY <1>2
<1> HIDE DEF n, s
<1> QED
  BY <1>1, <1>2, <1>3, <1>4, NoText, Codings, Zenon DEF ud, n

\* Units after a header.
LEMMA UnitsBehind ==
  ASSUME NEW c \in Seq(Unit), NEW h \in Seq(Octet), Len(h) = 6, h[1] = 5, NEW u, u
  PROVE  DecodeUserData(h \o Octets(c), 6 + 2 * Len(c), 8, u) = DecodeUnits(c)
<1> DEFINE o  == Octets(c)
           ud == h \o o
           n  == 6 + 2 * Len(c)
           s  == Unpack(SubSeq(ud, 1, Smaller((n * 7 + 7) \div 8, Len(ud))), n)
<1>1. DecodeUserData(ud, n, 8, u) =
        IF n = 0 THEN <<>>
        ELSE IF Coding(8) = 0 THEN DecodeGSM(SubSeq(s, (((ud[1] + 1) * 8 + 6) \div 7) + 1, Len(s)))
        ELSE IF Coding(8) = 2 THEN DecodeUnits(Paired(SubSeq(ud, (ud[1] + 1) + 1, Smaller(n, Len(ud)))))
        ELSE DecodeOctets(SubSeq(ud, (ud[1] + 1) + 1, Smaller(n, Len(ud))))
  BY DEF DecodeUserData
<1>2. Len(c) \in Nat /\ o \in Seq(Octet) /\ Len(o) = 2 * Len(c) /\ Paired(o) = c
  BY OctetsAre, PairedOctets, LenProperties, Zenon DEF HighFirst
<1> HIDE DEF o
<1>3. /\ Len(ud) = Len(h) + Len(o) /\ \A i \in 1 .. Len(h) : ud[i] = h[i]
      /\ SubSeq(ud, Len(h) + 1, Len(ud)) = o
  <2>1. \A q \in Seq(Octet) : Len(h \o q) = Len(h) + Len(q) /\ \A i \in 1 .. Len(h) : (h \o q)[i] = h[i]
    BY Two
  <2>2. \A q \in Seq(Octet) : SubSeq(h \o q, Len(h) + 1, Len(h \o q)) = q
    <3>1. \A q \in Seq(Octet) : Remains(h, q)
      BY SecondRemains
    <3> QED
      BY <3>1, Zenon DEF Remains
  <2> QED
    BY <1>2, <2>1, <2>2, Zenon
<1> HIDE DEF ud
<1>4. Len(ud) = n /\ (ud[1] + 1) + 1 = Len(h) + 1 /\ n # 0
  <2>1. 1 \in 1 .. 6
    OBVIOUS
  <2>2. ud[1] = 5
    BY <1>3, <2>1, Zenon
  <2> QED
    BY <1>2, <1>3, <2>2
<1>5. SubSeq(ud, (ud[1] + 1) + 1, Smaller(n, Len(ud))) = o
  <2>1. Smaller(n, Len(ud)) = Len(ud)
    BY <1>4, Zenon DEF Smaller
  <2> QED
    BY <1>3, <1>4, <2>1, Zenon
<1> HIDE DEF n, s
<1> QED
  BY <1>1, <1>2, <1>4, <1>5, Codings, Zenon DEF ud, n, o

-----------------------------------------------------------------------------
(* A text in one PDU *)

\* A text of basic characters goes in septets.
LEMMA BasicIsGSM ==
  ASSUME NEW text \in Seq(Signs)
  PROVE  IsGSM(text) <=> text \in Seq(Basic)
<1>1. DOMAIN text = 1 .. Len(text) /\ Len(text) \in Nat
  BY LenProperties
<1>2. IsGSM(text) <=> \A i \in 1 .. Len(text) : text[i] \in Basic
  <2>1. DOMAIN Septets = Basic
    BY TheCodes
  <2> QED
    BY <1>1, <2>1, Zenon DEF IsGSM
<1>3. text \in Seq(Basic) => \A i \in 1 .. Len(text) : text[i] \in Basic
  BY ElementOfSeq
<1>4. ASSUME \A i \in 1 .. Len(text) : text[i] \in Basic
      PROVE  text \in Seq(Basic)
  <2>1. text = [i \in 1 .. Len(text) |-> text[i]]
    BY LenProperties
  <2> QED
    BY <1>1, <1>4, <2>1, IsSequence
<1> QED
  BY <1>2, <1>3, <1>4, Zenon

\* The codes of a text, and whether one PDU holds them.
CodesOf(text) == Spell(IF IsGSM(text) THEN Septets ELSE Units, text)
Single(text) == Len(CodesOf(text)) <= (IF IsGSM(text) THEN MaxSingle7 ELSE MaxSingle16)

\* Its user data decodes to the text.
OneHolds(pdus, number, text) ==
  \E dcs \in Nat, udl \in Nat, ud \in Seq(Nat) :
    /\ pdus = <<Submit(number, 1, dcs, udl, ud)>>
    /\ DecodeUserData(ud, udl, dcs, (1 \div 64) % 2 = 1) = text

\* What septets, and units, are.
LEMMA CodesAre ==
  ASSUME NEW text \in Seq(Signs)
  PROVE  /\ IsGSM(text) => CodesOf(text) = Spell(Septets, text) /\ CodesOf(text) \in Seq(Septet) /\ DecodeGSM(CodesOf(text)) = text
         /\ ~IsGSM(text) => CodesOf(text) = Spell(Units, text) /\ CodesOf(text) \in Seq(Unit) /\ DecodeUnits(CodesOf(text)) = text
<1>1. ASSUME IsGSM(text)
      PROVE  CodesOf(text) = Spell(Septets, text) /\ CodesOf(text) \in Seq(Septet) /\ DecodeGSM(CodesOf(text)) = text
  <2>1. CodesOf(text) = Spell(Septets, text)
    BY <1>1, Zenon DEF CodesOf
  <2>2. text \in Seq(Basic)
    BY <1>1, BasicIsGSM
  <2>3. Spell(Septets, text) \in Seq(Septet)
    BY <2>2, CodesFit, SpellGrows
  <2>4. DecodeGSM(Spell(Septets, text)) = text
    BY <2>2, ReadsText
  <2> QED
    BY <2>1, <2>3, <2>4, Zenon
<1>2. ASSUME ~IsGSM(text)
      PROVE  CodesOf(text) = Spell(Units, text) /\ CodesOf(text) \in Seq(Unit) /\ DecodeUnits(CodesOf(text)) = text
  <2>1. CodesOf(text) = Spell(Units, text)
    BY <1>2, Zenon DEF CodesOf
  <2>3. Spell(Units, text) \in Seq(Unit)
    BY CodesFit, SpellGrows
  <2>4. DecodeUnits(Spell(Units, text)) = text
    BY ReadsUnitText
  <2> QED
    BY <2>1, <2>3, <2>4, Zenon
<1> QED
  BY <1>1, <1>2

\* A text that fits is sent in one PDU.
LEMMA OneSubmitted ==
  ASSUME NEW number \in Number, NEW text \in Seq(Signs), NEW ref, Single(text)
  PROVE  OneHolds(EncodePDUs(number, text, ref), number, text)
<1> DEFINE c == CodesOf(text)
           headed == (1 \div 64) % 2 = 1
<1>0. ~headed
  OBVIOUS
<1>1. Octet \subseteq Nat /\ Seq(Octet) \subseteq Seq(Nat)
  <2>1. Octet \subseteq Nat
    BY DEF Octet
  <2> QED
    BY <2>1, SeqMonotonic
<1>2. CASE IsGSM(text)
  <2>1. c = Spell(Septets, text) /\ c \in Seq(Septet) /\ DecodeGSM(c) = text
    BY <1>2, CodesAre
  <2>2. Len(c) <= MaxSingle7
    BY <1>2, Zenon DEF Single
  <2> HIDE DEF c
  <2>3. EncodePDUs(number, text, ref) = <<Submit(number, 1, 0, Len(c), Pack(c, 0))>>
    BY <1>2, <2>1, <2>2, Zenon DEF EncodePDUs
  <2>4. Pack(c, 0) \in Seq(Nat) /\ Len(c) \in Nat /\ 0 \in Nat
    <3>1. 0 \in 0 .. 7 /\ <<>> \in Seq(Octet)
      OBVIOUS
    <3> QED
      BY <1>1, <2>1, <3>1, PackIs, LenProperties
  <2>5. DecodeUserData(Pack(c, 0), Len(c), 0, headed) = DecodeGSM(c)
    BY <1>0, <2>1, SeptetsAlone, Zenon
  <2> QED
    BY <2>1, <2>3, <2>4, <2>5, Zenon DEF OneHolds
<1>3. CASE ~IsGSM(text)
  <2>1. c = Spell(Units, text) /\ c \in Seq(Unit) /\ DecodeUnits(c) = text
    BY <1>3, CodesAre
  <2>2. Len(c) <= MaxSingle16
    BY <1>3, Zenon DEF Single
  <2> HIDE DEF c
  <2>3. EncodePDUs(number, text, ref) = <<Submit(number, 1, 8, 2 * Len(c), Octets(c))>>
    BY <1>3, <2>1, <2>2, Zenon DEF EncodePDUs
  <2>4. Octets(c) \in Seq(Nat) /\ 2 * Len(c) \in Nat /\ 8 \in Nat
    <3>1. Octets(c) \in Seq(Octet) /\ Len(c) \in Nat
      BY <2>1, OctetsAre, LenProperties
    <3> QED
      BY <1>1, <3>1
  <2>5. DecodeUserData(Octets(c), 2 * Len(c), 8, headed) = DecodeUnits(c)
    BY <1>0, <2>1, UnitsAlone, Zenon
  <2> QED
    BY <2>1, <2>3, <2>4, <2>5, Zenon DEF OneHolds
<1> QED
  BY <1>2, <1>3

\* A message of one PDU reads back from the modem's own storage with its number,
\* whatever the number and the text are (sms.go:395, 410).
THEOREM MessagesReadBack ==
  ASSUME NEW number \in Number, NEW text \in Seq(Signs), Single(text)
  PROVE  ReadsBack(number, text)
<1>1. PICK dcs \in Nat, udl \in Nat, ud \in Seq(Nat) :
        /\ EncodePDUs(number, text, 300) = <<Submit(number, 1, dcs, udl, ud)>>
        /\ DecodeUserData(ud, udl, dcs, (1 \div 64) % 2 = 1) = text
  <2>1. OneHolds(EncodePDUs(number, text, 300), number, text)
    BY OneSubmitted
  <2> QED
    BY <2>1, Zenon DEF OneHolds
<1> DEFINE b == Submit(number, 1, dcs, udl, ud)
<1>2. IsRead(b, number, DecodeUserData(ud, udl, dcs, (1 \div 64) % 2 = 1))
  <2>1. 1 \in {1, 65} /\ Headed(1, ud)
    BY DEF Headed
  <2> QED
    BY <2>1, SubmitIsRead
<1>3. EncodePDUs(number, text, 300)[1] = b
  BY <1>1
<1> HIDE DEF b
<1> QED
  BY <1>1, <1>2, <1>3, Zenon DEF ReadsBack, IsRead

\* Every sample of a number reads back (sms.go:395, 410); the longer of its
\* texts, of three units, has to be one that one PDU holds.
THEOREM NumbersReadBack ==
  ASSUME 3 <= MaxSingle16
  PROVE  FormatsSpec => []SubmitReadsBack
<1>1. ASSUME FormatsInit
      PROVE  SubmitReadsBack
  BY <1>1 DEF FormatsInit, None, SubmitReadsBack
<1>2. ASSUME SubmitReadsBack, [FormatsNext]_sample
      PROVE  SubmitReadsBack'
  <2>1. CASE LookAtNumber
    <3>1. PICK digits \in UpTo(4, {0, 7}) \ {<<>>}, plus \in BOOLEAN :
            sample' = [kind |-> "number", number |-> [plus |-> plus, digits |-> digits]]
      BY <2>1 DEF LookAtNumber
    <3> DEFINE number == [plus |-> plus, digits |-> digits]
    <3>2. number \in Number
      <4>1. 4 \in Nat
        OBVIOUS
      <4>2. digits \in Seq({0, 7}) /\ digits # <<>>
        BY <4>1, UpToIs
      <4>3. {0, 7} \subseteq Digit
        BY DEF Digit
      <4>4. digits \in Seq(Digit)
        BY <4>2, <4>3, SeqMonotonic
      <4> QED
        BY <4>2, <4>4 DEF Number
    <3>3. sample'.number = number
      BY <3>1
    <3> HIDE DEF number
    <3>4. <<"at">> \in Seq(Signs) /\ Single(<<"at">>)
      <4>1. <<"at">> \in Seq(Basic) /\ <<"at">> \in Seq(Signs)
        BY DEF Basic, Signs
      <4>2. IsGSM(<<"at">>)
        BY <4>1, BasicIsGSM
      <4>3. Spell(Septets, <<"at">>) = <<0>>
        <5>1. Append(<<>>, "at") = <<"at">> /\ <<>> \in Seq(Basic) /\ "at" \in Basic
          BY DEF Basic
        <5>2. /\ Spell(Septets, <<>>) = <<>>
              /\ \A t \in Seq(Basic), c \in Basic : Spell(Septets, Append(t, c)) = Spell(Septets, t) \o Septets[c]
          BY CodesFit, SpellGrows
        <5>3. Spell(Septets, <<"at">>) = <<>> \o Septets["at"]
          BY <5>1, <5>2, Zenon
        <5>4. Septets["at"] = <<0>> /\ <<>> \o <<0>> = <<0>>
          BY TheCodes
        <5> QED
          BY <5>3, <5>4
      <4>4. CodesOf(<<"at">>) = <<0>>
        BY <4>2, <4>3, Zenon DEF CodesOf
      <4>5. Len(<<0>>) = 1 /\ 1 <= MaxSingle7
        BY SmsCodecAssumption
      <4> QED
        BY <4>1, <4>2, <4>4, <4>5, Zenon DEF Single
    <3>5. <<"cyr", "emoji">> \in Seq(Signs) /\ Single(<<"cyr", "emoji">>)
      <4> DEFINE two == <<"cyr", "emoji">>
      <4>1. two \in Seq(Signs) /\ two[1] = "cyr" /\ Len(two) = 2
        BY DEF Signs
      <4>2. ~IsGSM(two)
        <5>1. "cyr" \notin Basic /\ 1 \in 1 .. Len(two)
          BY DEF Basic
        <5> HIDE DEF two
        <5>2. two \notin Seq(Basic)
          BY <4>1, <5>1, ElementOfSeq
        <5> QED
          BY <4>1, <5>2, BasicIsGSM
      <4>3. Len(Spell(Units, two)) = 3
        <5>1. Append(Append(<<>>, "cyr"), "emoji") = two /\ <<>> \in Seq(Signs) /\ "cyr" \in Signs /\ "emoji" \in Signs
          <6>1. "cyr" \in Signs /\ "emoji" \in Signs /\ <<>> \in Seq(Signs)
            BY DEF Signs
          <6> QED
            BY <6>1, TwoElements
        <5>2. Append(<<>>, "cyr") \in Seq(Signs)
          BY <5>1, AppendProperties
        <5>3. /\ Spell(Units, <<>>) = <<>>
              /\ \A t \in Seq(Signs) : Spell(Units, t) \in Seq(Unit)
              /\ \A t \in Seq(Signs), c \in Signs : Spell(Units, Append(t, c)) = Spell(Units, t) \o Units[c]
          BY CodesFit, SpellGrows
        <5>4. Spell(Units, two) = (<<>> \o Units["cyr"]) \o Units["emoji"]
          BY <5>1, <5>2, <5>3, Zenon
        <5>5. \A p, q, r \in Nat : Len((<<>> \o <<p>>) \o <<q, r>>) = 3
          OBVIOUS
        <5>6. 1046 \in Nat /\ High \in Nat /\ Low \in Nat
          BY DEF High, Low
        <5>7. Units["cyr"] = <<1046>> /\ Units["emoji"] = <<High, Low>>
          BY TheCodes
        <5> QED
          BY <5>4, <5>5, <5>6, <5>7
      <4> HIDE DEF two
      <4>4. CodesOf(two) = Spell(Units, two)
        BY <4>2, Zenon DEF CodesOf
      <4>5. Single(two)
        BY <4>2, <4>3, <4>4, Zenon DEF Single
      <4> QED
        BY <4>1, <4>5, Zenon DEF two
    <3>6. ReadsBack(number, <<"at">>) /\ ReadsBack(number, <<"cyr", "emoji">>)
      BY <3>2, <3>4, <3>5, MessagesReadBack
    <3> QED
      BY <3>3, <3>6, Zenon DEF SubmitReadsBack
  <2>2. CASE LookAtStream \/ LookAtFrames \/ LookAtText \/ LookAtFormat
    <3>1. sample'.kind \in {"stream", "frames", "text", "format"}
      BY <2>2 DEF LookAtStream, LookAtFrames, LookAtText, LookAtFormat
    <3> QED
      BY <3>1 DEF SubmitReadsBack
  <2>3. CASE UNCHANGED sample
    BY <1>2, <2>3 DEF SubmitReadsBack
  <2> QED
    BY <1>2, <2>1, <2>2, <2>3 DEF FormatsNext
<1> QED
  BY <1>1, <1>2, PTL DEF FormatsSpec

-----------------------------------------------------------------------------
(* Parts of a size *)

\* Multiples of a size, and division by it.
LEMMA Multiples ==
  ASSUME NEW size \in Nat, size > 0
  PROVE  /\ \A a \in Nat : a * size \in Nat /\ (a + 1) * size = a * size + size
         /\ \A a, b \in Nat : a <= b => a * size <= b * size
         /\ \A a \in Nat : a \div size \in Nat /\ a % size \in 0 .. size - 1 /\ a = (a \div size) * size + (a % size)
         /\ \A a \in Nat : (a * size) % size = 0
<1>1. \A a \in Nat : a * size \in Nat /\ (a + 1) * size = a * size + size
  OBVIOUS
<1>2. \A a, b \in Nat : a <= b => a * size <= b * size
  OBVIOUS
<1>3. \A a \in Nat : a \div size \in Nat /\ a % size \in 0 .. size - 1 /\ a = (a \div size) * size + (a % size)
  OBVIOUS
<1>4. ASSUME NEW a \in Nat
      PROVE  (a * size) % size = 0
  <2> DEFINE n == a * size
             q == n \div size
             r == n % size
  <2>1. n \in Nat
    BY <1>1
  <2>2. q \in Nat /\ r \in 0 .. size - 1 /\ n = q * size + r
    <3> HIDE DEF n
    <3> QED
      BY <1>3, <2>1
  <2> HIDE DEF q, r
  <2>3. CASE a <= q
    <3>1. a * size <= q * size
      BY <1>2, <2>2, <2>3
    <3> DEFINE x == a * size
               y == q * size
    <3>2. x \in Nat /\ y \in Nat /\ x <= y /\ x = y + r
      BY <1>1, <2>2, <3>1
    <3> HIDE DEF x, y
    <3>3. r = 0
      BY <2>2, <3>2
    <3> QED
      BY <3>3 DEF r
  <2>4. CASE a > q
    <3>1. (q + 1) * size <= a * size /\ (q + 1) * size = q * size + size
      BY <1>1, <1>2, <2>2, <2>4
    <3> DEFINE x == a * size
               y == q * size
    <3>2. x \in Nat /\ y \in Nat /\ y + size <= x /\ x = y + r
      BY <1>1, <2>2, <3>1
    <3> HIDE DEF x, y
    <3>3. FALSE
      BY <2>2, <3>2
    <3> QED
      BY <3>3
  <2> QED
    BY <2>2, <2>3, <2>4
<1> QED
  BY <1>1, <1>2, <1>3, <1>4, Zenon

\* How many parts there are, and where they begin.
LEMMA PartsAre ==
  ASSUME NEW n \in Nat, n > 0, NEW size \in Nat, size > 0
  PROVE  /\ Parts(n, size) \in Nat /\ Parts(n, size) >= 1
         /\ n <= Parts(n, size) * size
         /\ \A k \in 0 .. Parts(n, size) - 1 : k * size < n
         /\ n > size => Parts(n, size) > 1
<1> DEFINE a == (n + size) - 1
           t == a \div size
           r == a % size
<1>0. Parts(n, size) = t
  <2>1. a = n + size - 1
    OBVIOUS
  <2> QED
    BY <2>1, Zenon DEF Parts
<1>1. a \in Nat /\ a + 1 = n + size
  OBVIOUS
<1>2. t \in Nat /\ r \in 0 .. size - 1 /\ a = t * size + r
  <2> HIDE DEF a
  <2> QED
    BY <1>1, Multiples
<1> HIDE DEF a, t, r
<1> DEFINE x == t * size
<1>3. x \in Nat /\ a = x + r
  BY <1>2, Multiples
<1>4. t # 0
  <2>1. 0 * size = 0
    OBVIOUS
  <2> QED
    BY <1>1, <1>2, <2>1
<1>5. t - 1 \in Nat /\ (t - 1) + 1 = t /\ (t - 1) * size + size = x /\ (t - 1) * size \in Nat
  <2>1. t - 1 \in Nat /\ (t - 1) + 1 = t
    BY <1>2, <1>4
  <2> DEFINE p == t - 1
  <2>2. (p + 1) * size = p * size + size /\ p * size \in Nat
    <3> HIDE DEF p
    <3>1. p \in Nat
      BY <2>1 DEF p
    <3> QED
      BY <3>1, Multiples
  <2> QED
    BY <2>1, <2>2, Zenon
<1> DEFINE y == (t - 1) * size
<1> HIDE DEF x, y
<1>6. n <= x /\ y < n
  <2>1. y + size = x /\ y \in Nat
    BY <1>5, Zenon DEF y
  <2> QED
    BY <1>1, <1>2, <1>3, <2>1
<1>7. ASSUME NEW k \in 0 .. t - 1
      PROVE  k * size < n
  <2>1. k \in Nat /\ k <= t - 1
    BY <1>2
  <2>2. k * size <= y /\ k * size \in Nat
    BY <1>5, <2>1, Multiples DEF y
  <2> QED
    BY <1>5, <1>6, <2>2 DEF y
<1>8. n > size => t > 1
  <2>1. t = 1 => x = size
    BY DEF x
  <2> QED
    BY <1>2, <1>4, <1>6, <2>1
<1> QED
  BY <1>0, <1>2, <1>4, <1>6, <1>7, <1>8 DEF x

\* Where the codes of the k-th part end.
End(n, size, k) == IF k * size < n THEN k * size ELSE n

\* The parts lie one behind the other.
LEMMA EndsAre ==
  ASSUME NEW n \in Nat, n > 0, NEW size \in Nat, size > 0
  PROVE  /\ End(n, size, 0) = 0 /\ End(n, size, Parts(n, size)) = n
         /\ \A k \in 0 .. Parts(n, size) : End(n, size, k) \in 0 .. n
         /\ \A k \in 0 .. Parts(n, size) - 1 :
              /\ End(n, size, k) = k * size /\ End(n, size, k) <= End(n, size, k + 1)
              /\ End(n, size, k + 1) <= End(n, size, k) + size
<1> DEFINE t == Parts(n, size)
<1>1. /\ t \in Nat /\ t >= 1 /\ n <= t * size
      /\ \A k \in 0 .. t - 1 : k * size < n
  BY PartsAre
<1>2. /\ \A a \in Nat : a * size \in Nat /\ (a + 1) * size = a * size + size
  BY Multiples
<1> HIDE DEF t
<1>3. End(n, size, 0) = 0
  <2>1. 0 * size = 0
    OBVIOUS
  <2> QED
    BY <2>1 DEF End
<1>4. End(n, size, t) = n
  <2> DEFINE x == t * size
  <2>1. x \in Nat /\ n <= x
    BY <1>1, <1>2
  <2>2. End(n, size, t) = IF x < n THEN x ELSE n
    BY DEF End
  <2> HIDE DEF x
  <2> QED
    BY <2>1, <2>2
<1>5. ASSUME NEW k \in 0 .. t
      PROVE  End(n, size, k) \in 0 .. n
  <2> DEFINE x == k * size
  <2>1. x \in Nat
    BY <1>2
  <2>2. End(n, size, k) = IF x < n THEN x ELSE n
    BY DEF End
  <2> HIDE DEF x
  <2> QED
    BY <2>1, <2>2
<1>6. ASSUME NEW k \in 0 .. t - 1
      PROVE  /\ End(n, size, k) = k * size /\ End(n, size, k) <= End(n, size, k + 1)
             /\ End(n, size, k + 1) <= End(n, size, k) + size
  <2> DEFINE x == k * size
             y == (k + 1) * size
  <2>1. x \in Nat /\ y = x + size /\ x < n
    BY <1>1, <1>2
  <2>2. End(n, size, k) = IF x < n THEN x ELSE n
    BY DEF End
  <2>3. End(n, size, k + 1) = IF y < n THEN y ELSE n
    BY DEF End
  <2>4. \A w : w = x => w = k * size
    OBVIOUS
  <2> HIDE DEF x, y
  <2>5. End(n, size, k) = x /\ x <= End(n, size, k + 1) /\ End(n, size, k + 1) <= x + size
    BY <2>1, <2>2, <2>3
  <2> QED
    BY <2>4, <2>5
<1> QED
  BY <1>1, <1>3, <1>4, <1>5, <1>6, Zenon DEF t

\* The codes of a part are those between two ends.
LEMMA SlicesAre ==
  ASSUME NEW X, NEW c \in Seq(X), Len(c) > 0, NEW size \in Nat, size > 0
  PROVE  \A k \in 0 .. Parts(Len(c), size) - 1 :
           /\ Slice(c, size, k + 1) = SubSeq(c, End(Len(c), size, k) + 1, End(Len(c), size, k + 1))
           /\ Slice(c, size, k + 1) \in Seq(X)
           /\ Len(Slice(c, size, k + 1)) = End(Len(c), size, k + 1) - End(Len(c), size, k)
<1> DEFINE n == Len(c)
           t == Parts(n, size)
<1>0. n \in Nat /\ n > 0
  BY LenProperties
<1>1. /\ \A k \in 0 .. t : End(n, size, k) \in 0 .. n
      /\ \A k \in 0 .. t - 1 : End(n, size, k) = k * size /\ End(n, size, k) <= End(n, size, k + 1)
  BY <1>0, EndsAre
<1>2. t \in Nat
  BY <1>0, PartsAre
<1> SUFFICES ASSUME NEW k \in 0 .. t - 1
             PROVE  /\ Slice(c, size, k + 1) = SubSeq(c, End(n, size, k) + 1, End(n, size, k + 1))
                    /\ Slice(c, size, k + 1) \in Seq(X)
                    /\ Len(Slice(c, size, k + 1)) = End(n, size, k + 1) - End(n, size, k)
  OBVIOUS
<1>3. Slice(c, size, k + 1) = SubSeq(c, End(n, size, k) + 1, End(n, size, k + 1))
  <2>1. k \in Nat /\ (k + 1) - 1 = k
    BY <1>2
  <2>2. Slice(c, size, k + 1) = SubSeq(c, ((k + 1) - 1) * size + 1, End(n, size, k + 1))
    BY Zenon DEF Slice, End
  <2> QED
    BY <1>1, <2>1, <2>2, Zenon
<1>4. End(n, size, k) \in 0 .. n /\ End(n, size, k + 1) \in 0 .. n /\ End(n, size, k) <= End(n, size, k + 1)
  <2>1. k \in 0 .. t /\ k + 1 \in 0 .. t
    BY <1>2
  <2> QED
    BY <1>1, <2>1, Zenon
<1> HIDE DEF t
<1>5. \A i, j \in 0 .. n : i <= j => SubSeq(c, i + 1, j) \in Seq(X) /\ Len(SubSeq(c, i + 1, j)) = j - i
  BY Beginnings
<1> QED
  BY <1>3, <1>4, <1>5, Zenon

-----------------------------------------------------------------------------
(* What arrives *)

\* The user data of a submitted PDU arrives.
LEMMA SubmittedArrives ==
  ASSUME NEW first \in {1, 65}, NEW dcs \in Nat, NEW udl \in Nat, NEW ud \in Seq(Nat), Headed(first, ud)
  PROVE  Arrives(Someone, Submit(Someone, first, dcs, udl, ud), DecodeUserData(ud, udl, dcs, (first \div 64) % 2 = 1))
<1>1. Someone \in Number
  BY DEF Someone, Number, Digit
<1> QED
  BY <1>1, DeliverIsRead

\* A text in one PDU arrives.
LEMMA OneReceived ==
  ASSUME NEW text \in Seq(Signs), Single(text)
  PROVE  Received(text) = <<text>>
<1>0. Someone \in Number
  BY DEF Someone, Number, Digit
<1>1. PICK dcs \in Nat, udl \in Nat, ud \in Seq(Nat) :
        /\ EncodePDUs(Someone, text, 300) = <<Submit(Someone, 1, dcs, udl, ud)>>
        /\ DecodeUserData(ud, udl, dcs, (1 \div 64) % 2 = 1) = text
  <2>1. OneHolds(EncodePDUs(Someone, text, 300), Someone, text)
    BY <1>0, OneSubmitted
  <2> QED
    BY <2>1, Zenon DEF OneHolds
<1> DEFINE b == Submit(Someone, 1, dcs, udl, ud)
<1>2. Arrives(Someone, b, text)
  <2>1. 1 \in {1, 65} /\ Headed(1, ud)
    BY DEF Headed
  <2>2. Arrives(Someone, b, DecodeUserData(ud, udl, dcs, (1 \div 64) % 2 = 1))
    BY <2>1, SubmittedArrives
  <2> QED
    BY <1>1, <2>2, Zenon
<1> HIDE DEF b
<1>3. Received(text) = [k \in DOMAIN <<b>> |-> ParsePDU(Deliver(Someone, <<b>>[k])).content]
  BY <1>1, Zenon DEF Received, b
<1>4. \A k \in DOMAIN <<b>> : ParsePDU(Deliver(Someone, <<b>>[k])).content = text
  <2>1. \A k \in DOMAIN <<b>> : <<b>>[k] = b
    OBVIOUS
  <2> QED
    BY <1>2, <2>1, Zenon DEF Arrives
<1>5. [k \in DOMAIN <<b>> |-> text] = <<text>>
  OBVIOUS
<1> QED
  BY <1>3, <1>4, <1>5, Zenon

-----------------------------------------------------------------------------
(* The PDU of a part *)

\* The octets in front of a part.
LEMMA HeaderIs ==
  ASSUME NEW ref \in Nat, NEW total \in Nat, NEW k \in Nat
  PROVE  /\ ConcatHeader(ref, total, k) \in Seq(Octet) /\ Len(ConcatHeader(ref, total, k)) = 6
         /\ ConcatHeader(ref, total, k)[1] = 5
<1>1. \A a \in Nat : a % 256 \in Octet
  BY DEF Octet
<1>2. 5 \in Octet /\ 0 \in Octet /\ 3 \in Octet
  BY DEF Octet
<1>3. \A p, q, r \in Octet : <<5, 0, 3, p, q, r>> \in Seq(Octet) /\ Len(<<5, 0, 3, p, q, r>>) = 6 /\ <<5, 0, 3, p, q, r>>[1] = 5
  BY <1>2
<1>4. ref % 256 \in Octet /\ total % 256 \in Octet /\ k % 256 \in Octet
  BY <1>1
<1> QED
  BY <1>3, <1>4, Zenon DEF ConcatHeader

\* A PDU that begins with them is read with them.
LEMMA BehindHeader ==
  ASSUME NEW h \in Seq(Octet), Len(h) = 6, h[1] = 5, NEW z \in Seq(Octet)
  PROVE  h \o z \in Seq(Nat) /\ Headed(65, h \o z)
<1>1. /\ h \o z \in Seq(Octet) /\ Len(h \o z) = Len(h) + Len(z) /\ Len(z) \in Nat
      /\ \A i \in 1 .. Len(h) : (h \o z)[i] = h[i]
  BY Two
<1>2. Octet \subseteq Nat
  BY DEF Octet
<1>3. h \o z \in Seq(Nat)
  BY <1>1, <1>2, SeqMonotonic
<1>4. Len(h \o z) >= 6
  BY <1>1
<1>5. 1 \in 1 .. 6
  OBVIOUS
<1>6. (h \o z)[1] = 5
  BY <1>1, <1>5, Zenon
<1> QED
  BY <1>3, <1>4, <1>6, Zenon DEF Headed

\* A text's codes, how many of them a part holds, and what becomes of them.
CodeOf(text) == IF IsGSM(text) THEN Septets ELSE Units
SizeOf(text) == IF IsGSM(text) THEN MaxPart7 ELSE MaxPart16
Total(text)  == Parts(Len(CodesOf(text)), SizeOf(text))
Part(text, k) == Slice(CodesOf(text), SizeOf(text), k)
Decoded(text, codes) == IF IsGSM(text) THEN DecodeGSM(codes) ELSE DecodeUnits(codes)
Alphabet(text) == IF IsGSM(text) THEN Septet ELSE Unit

\* A text that does not fit is longer than a part.
LEMMA LongIs ==
  ASSUME NEW text \in Seq(Signs)
  PROVE  /\ CodesOf(text) \in Seq(Alphabet(text)) /\ Len(CodesOf(text)) \in Nat
         /\ SizeOf(text) \in Nat /\ SizeOf(text) > 0
         /\ ~Single(text) => /\ Len(CodesOf(text)) > SizeOf(text) /\ Len(CodesOf(text)) > 0
                             /\ Total(text) \in Nat /\ Total(text) > 1
<1>1. CodesOf(text) \in Seq(Alphabet(text))
  BY CodesAre, Zenon DEF Alphabet
<1>2. Len(CodesOf(text)) \in Nat
  BY <1>1, LenProperties
<1>3. SizeOf(text) \in Nat /\ SizeOf(text) > 0
  BY SmsCodecAssumption DEF SizeOf
<1>4. ASSUME ~Single(text)
      PROVE  /\ Len(CodesOf(text)) > SizeOf(text) /\ Len(CodesOf(text)) > 0
             /\ Total(text) \in Nat /\ Total(text) > 1
  <2>1. Len(CodesOf(text)) > SizeOf(text) /\ Len(CodesOf(text)) > 0
    BY <1>2, <1>4, SmsCodecAssumption DEF Single, SizeOf
  <2>2. Total(text) \in Nat /\ Total(text) > 1
    BY <1>2, <1>3, <2>1, PartsAre DEF Total
  <2> QED
    BY <2>1, <2>2
<1> QED
  BY <1>1, <1>2, <1>3, <1>4

\* The PDU of a part of septets.
LEMMA SeptetsArrive ==
  ASSUME NEW c \in Seq(Septet), NEW total \in Nat, NEW k \in Nat
  PROVE  Arrives(Someone, Submit(Someone, 65, 0, 7 + Len(c), ConcatHeader(300, total, k) \o Pack(c, 1)), DecodeGSM(c))
<1> DEFINE h == ConcatHeader(300, total, k)
           p == Pack(c, 1)
           u == (65 \div 64) % 2 = 1
<1>1. h \in Seq(Octet) /\ Len(h) = 6 /\ h[1] = 5
  BY HeaderIs
<1>2. p \in Seq(Octet) /\ Len(c) \in Nat
  <2>1. 1 \in 0 .. 7 /\ <<>> \in Seq(Octet)
    OBVIOUS
  <2> QED
    BY <2>1, PackIs, LenProperties
<1>3. u
  OBVIOUS
<1> HIDE DEF h
<1>4. h \o p \in Seq(Nat) /\ Headed(65, h \o p)
  BY <1>1, <1>2, BehindHeader
<1>5. DecodeUserData(h \o p, 7 + Len(c), 0, u) = DecodeGSM(c)
  BY <1>1, <1>3, SeptetsBehind, Zenon
<1> HIDE DEF p
<1>6. Arrives(Someone, Submit(Someone, 65, 0, 7 + Len(c), h \o p), DecodeUserData(h \o p, 7 + Len(c), 0, u))
  <2>1. 65 \in {1, 65} /\ 0 \in Nat /\ 7 + Len(c) \in Nat
    BY <1>2
  <2> QED
    BY <1>4, <2>1, SubmittedArrives
<1> QED
  BY <1>5, <1>6, Zenon DEF h, p

\* The PDU of a part of units.
LEMMA UnitsArrive ==
  ASSUME NEW c \in Seq(Unit), NEW total \in Nat, NEW k \in Nat
  PROVE  Arrives(Someone, Submit(Someone, 65, 8, 6 + 2 * Len(c), ConcatHeader(300, total, k) \o Octets(c)), DecodeUnits(c))
<1> DEFINE h == ConcatHeader(300, total, k)
           p == Octets(c)
           u == (65 \div 64) % 2 = 1
<1>1. h \in Seq(Octet) /\ Len(h) = 6 /\ h[1] = 5
  BY HeaderIs
<1>2. p \in Seq(Octet) /\ Len(c) \in Nat
  BY OctetsAre, LenProperties
<1>3. u
  OBVIOUS
<1> HIDE DEF h
<1>4. h \o p \in Seq(Nat) /\ Headed(65, h \o p)
  BY <1>1, <1>2, BehindHeader
<1>5. DecodeUserData(h \o p, 6 + 2 * Len(c), 8, u) = DecodeUnits(c)
  BY <1>1, <1>3, UnitsBehind, Zenon
<1> HIDE DEF p
<1>6. Arrives(Someone, Submit(Someone, 65, 8, 6 + 2 * Len(c), h \o p), DecodeUserData(h \o p, 6 + 2 * Len(c), 8, u))
  <2>1. 65 \in {1, 65} /\ 8 \in Nat /\ 6 + 2 * Len(c) \in Nat
    BY <1>2
  <2> QED
    BY <1>4, <2>1, SubmittedArrives
<1> QED
  BY <1>5, <1>6, Zenon DEF h, p

\* Each part of a long text arrives, decoded by itself.
LEMMA LongReceived ==
  ASSUME NEW text \in Seq(Signs), ~Single(text)
  PROVE  Received(text) = [k \in 1 .. Total(text) |-> Decoded(text, Part(text, k))]
<1> DEFINE c    == CodesOf(text)
           size == SizeOf(text)
           t    == Total(text)
<1>1. /\ c \in Seq(Alphabet(text)) /\ Len(c) > 0 /\ size \in Nat /\ size > 0
      /\ t \in Nat
  BY LongIs
<1>2. \A k \in 1 .. t : Slice(c, size, k) \in Seq(Alphabet(text)) /\ k \in Nat
  <2>1. \A k \in 0 .. Parts(Len(c), size) - 1 : Slice(c, size, k + 1) \in Seq(Alphabet(text))
    BY <1>1, SlicesAre
  <2>2. \A k \in 0 .. t - 1 : Slice(c, size, k + 1) \in Seq(Alphabet(text))
    BY <2>1, Zenon DEF Total
  <2> HIDE DEF c, size, t
  <2>3. \A k \in 1 .. t : k - 1 \in 0 .. t - 1 /\ (k - 1) + 1 = k /\ k \in Nat
    BY <1>1
  <2> QED
    BY <2>2, <2>3, Zenon
<1> DEFINE pdus == EncodePDUs(Someone, text, 300)
<1>3. DOMAIN pdus = 1 .. t /\ \A k \in 1 .. t : Arrives(Someone, pdus[k], Decoded(text, Part(text, k)))
  <2>1. CASE IsGSM(text)
    <3>1. c = Spell(Septets, text)
      BY <2>1, CodesAre
    <3>2. ~(Len(c) <= MaxSingle7)
      BY <2>1, Zenon DEF Single
    <3>3. t = Parts(Len(c), MaxPart7) /\ size = MaxPart7
      BY <2>1, Zenon DEF Total, SizeOf
    <3> HIDE DEF c, t, size
    <3>4. pdus = [k \in 1 .. t |-> Submit(Someone, 65, 0, 7 + Len(Slice(c, size, k)),
                                          ConcatHeader(300, t, k) \o Pack(Slice(c, size, k), 1))]
      BY <2>1, <3>1, <3>2, <3>3, Zenon DEF EncodePDUs
    <3> HIDE DEF pdus
    <3>5. ASSUME NEW k \in 1 .. t
          PROVE  Arrives(Someone, pdus[k], Decoded(text, Part(text, k)))
      <4>1. Slice(c, size, k) \in Seq(Septet) /\ k \in Nat
        BY <1>2, <2>1, Zenon DEF Alphabet
      <4>2. Arrives(Someone, Submit(Someone, 65, 0, 7 + Len(Slice(c, size, k)), ConcatHeader(300, t, k) \o Pack(Slice(c, size, k), 1)),
                    DecodeGSM(Slice(c, size, k)))
        BY <1>1, <4>1, SeptetsArrive
      <4>3. Decoded(text, Part(text, k)) = DecodeGSM(Slice(c, size, k))
        BY <2>1, Zenon DEF Decoded, Part, c, size
      <4> QED
        BY <3>4, <4>2, <4>3, Zenon
    <3> QED
      BY <3>4, <3>5, Zenon
  <2>2. CASE ~IsGSM(text)
    <3>1. c = Spell(Units, text)
      BY <2>2, CodesAre
    <3>2. ~(Len(c) <= MaxSingle16)
      BY <2>2, Zenon DEF Single
    <3>3. t = Parts(Len(c), MaxPart16) /\ size = MaxPart16
      BY <2>2, Zenon DEF Total, SizeOf
    <3> HIDE DEF c, t, size
    <3>4. pdus = [k \in 1 .. t |-> Submit(Someone, 65, 8, 6 + 2 * Len(Slice(c, size, k)),
                                          ConcatHeader(300, t, k) \o Octets(Slice(c, size, k)))]
      BY <2>2, <3>1, <3>2, <3>3, Zenon DEF EncodePDUs
    <3> HIDE DEF pdus
    <3>5. ASSUME NEW k \in 1 .. t
          PROVE  Arrives(Someone, pdus[k], Decoded(text, Part(text, k)))
      <4>1. Slice(c, size, k) \in Seq(Unit) /\ k \in Nat
        BY <1>2, <2>2, Zenon DEF Alphabet
      <4>2. Arrives(Someone, Submit(Someone, 65, 8, 6 + 2 * Len(Slice(c, size, k)), ConcatHeader(300, t, k) \o Octets(Slice(c, size, k))),
                    DecodeUnits(Slice(c, size, k)))
        BY <1>1, <4>1, UnitsArrive
      <4>3. Decoded(text, Part(text, k)) = DecodeUnits(Slice(c, size, k))
        BY <2>2, Zenon DEF Decoded, Part, c, size
      <4> QED
        BY <3>4, <4>2, <4>3, Zenon
    <3> QED
      BY <3>4, <3>5, Zenon
  <2> QED
    BY <2>1, <2>2
<1>4. Received(text) = [k \in DOMAIN pdus |-> ParsePDU(Deliver(Someone, pdus[k])).content]
  BY Zenon DEF Received
<1> HIDE DEF pdus
<1>5. \A k \in 1 .. t : ParsePDU(Deliver(Someone, pdus[k])).content = Decoded(text, Part(text, k))
  BY <1>3, Zenon DEF Arrives
<1> HIDE DEF t
<1>6. Received(text) = [k \in 1 .. t |-> Decoded(text, Part(text, k))]
  BY <1>3, <1>4, <1>5, Zenon
<1> QED
  BY <1>6 DEF t

-----------------------------------------------------------------------------
(* Where a part ends *)

\* How many codes the first i characters of a text have.
Reach(code, text, i) == Len(Spell(code, SubSeq(text, 1, i)))

\* They grow with the characters.
LEMMA ReachIs ==
  ASSUME NEW C, NEW code, NEW X, Codes(C, code, X), NEW text \in Seq(C)
  PROVE  /\ Reach(code, text, 0) = 0 /\ Reach(code, text, Len(text)) = Len(Spell(code, text))
         /\ \A i \in 0 .. Len(text) : Reach(code, text, i) \in Nat
         /\ \A i \in 0 .. Len(text) - 1 :
              Reach(code, text, i + 1) = Reach(code, text, i) + Len(code[text[i + 1]])
<1>1. /\ Len(text) \in Nat /\ SubSeq(text, 1, 0) = <<>> /\ SubSeq(text, 1, Len(text)) = text
      /\ \A k \in 0 .. Len(text) : SubSeq(text, 1, k) \in Seq(C)
      /\ \A k \in 0 .. Len(text) - 1 : SubSeq(text, 1, k + 1) = Append(SubSeq(text, 1, k), text[k + 1]) /\ text[k + 1] \in C
  BY Beginnings
<1>2. /\ Spell(code, <<>>) = <<>>
      /\ \A t \in Seq(C) : Spell(code, t) \in Seq(X)
      /\ \A t \in Seq(C), c \in C : Spell(code, Append(t, c)) = Spell(code, t) \o code[c]
  BY SpellGrows
<1>3. Len(<<>>) = 0
  OBVIOUS
<1>4. Reach(code, text, 0) = 0 /\ Reach(code, text, Len(text)) = Len(Spell(code, text))
  BY <1>1, <1>2, <1>3, Zenon DEF Reach
<1>5. ASSUME NEW i \in 0 .. Len(text)
      PROVE  Reach(code, text, i) \in Nat
  <2>1. Spell(code, SubSeq(text, 1, i)) \in Seq(X)
    BY <1>1, <1>2, Zenon
  <2> QED
    BY <2>1, LenProperties DEF Reach
<1>6. ASSUME NEW i \in 0 .. Len(text) - 1
      PROVE  Reach(code, text, i + 1) = Reach(code, text, i) + Len(code[text[i + 1]])
  <2>1. i \in 0 .. Len(text)
    BY <1>1
  <2> DEFINE x == Spell(code, SubSeq(text, 1, i))
             y == code[text[i + 1]]
  <2>2. x \in Seq(X)
    BY <1>1, <1>2, <2>1, Zenon
  <2>3. y \in Seq(X)
    BY <1>1, Zenon DEF Codes
  <2>4. Spell(code, SubSeq(text, 1, i + 1)) = x \o y
    BY <1>1, <1>2, <2>1, Zenon
  <2> HIDE DEF x, y
  <2>5. Len(x \o y) = Len(x) + Len(y)
    BY <2>2, <2>3, ConcatProperties
  <2> QED
    BY <2>4, <2>5, Zenon DEF Reach, x, y
<1> QED
  BY <1>4, <1>5, <1>6

\* y lies between x and z.
Lies(x, y, z) == SubSeq((x \o y) \o z, Len(x) + 1, Len(x \o y)) = y

\* It does.
LEMMA MiddleLies ==
  ASSUME NEW S, NEW x \in Seq(S), NEW y \in Seq(S), NEW z \in Seq(S)
  PROVE  Lies(x, y, z)
<1> DEFINE w == x \o y
           v == w \o z
           a == Len(x) + 1
           b == Len(w)
           p == SubSeq(v, a, b)
<1>1. /\ w \in Seq(S) /\ Len(x) \in Nat /\ Len(y) \in Nat /\ Len(w) = Len(x) + Len(y)
      /\ \A i \in 1 .. Len(y) : w[Len(x) + i] = y[i]
  BY Two
<1>2. /\ v \in Seq(S) /\ Len(z) \in Nat /\ Len(v) = Len(w) + Len(z)
      /\ \A i \in 1 .. Len(w) : v[i] = w[i]
  <2>1. \A r, q \in Seq(S) : /\ r \o q \in Seq(S) /\ Len(q) \in Nat /\ Len(r \o q) = Len(r) + Len(q)
                             /\ \A i \in 1 .. Len(r) : (r \o q)[i] = r[i]
    BY Two
  <2> HIDE DEF w
  <2> QED
    BY <1>1, <2>1, Zenon
<1> HIDE DEF w, v
<1>3. p \in Seq(S) /\ Len(p) = Len(y) /\ \A i \in 1 .. Len(p) : p[i] = v[(a + i) - 1]
  <2>1. a \in Int /\ b \in Int /\ \A i \in a .. b : v[i] \in S
    <3>1. \A i \in 1 .. Len(v) : v[i] \in S
      BY <1>2, ElementOfSeq
    <3>2. \A i \in a .. b : i \in 1 .. Len(v)
      BY <1>1, <1>2
    <3> QED
      BY <1>1, <3>1, <3>2
  <2>2. /\ p \in Seq(S) /\ Len(p) = IF a <= b THEN (b - a) + 1 ELSE 0
        /\ \A i \in 1 .. (b - a) + 1 : p[i] = v[(a + i) - 1]
    <3> HIDE DEF a, b
    <3> QED
      BY <2>1, SubSeqProperties
  <2>3. (IF a <= b THEN (b - a) + 1 ELSE 0) = Len(y) /\ (b - a) + 1 = Len(y)
    BY <1>1
  <2> QED
    BY <2>2, <2>3, Zenon
<1>4. \A i \in 1 .. Len(y) : v[(a + i) - 1] = y[i]
  <2>1. \A i \in 1 .. Len(y) : (a + i) - 1 = Len(x) + i /\ Len(x) + i \in 1 .. Len(w)
    BY <1>1
  <2> QED
    BY <1>1, <1>2, <2>1, Zenon
<1> HIDE DEF p, a
<1>5. p = y
  BY <1>3, <1>4, SeqEqual
<1> QED
  BY <1>5, Zenon DEF Lies, p, a, v, w

\* The codes between two characters are the codes of the text between them.
LEMMA SpellBetween ==
  ASSUME NEW C, NEW code, NEW X, Codes(C, code, X), NEW text \in Seq(C),
         NEW i \in 0 .. Len(text), NEW j \in 0 .. Len(text), i <= j
  PROVE  SubSeq(Spell(code, text), Reach(code, text, i) + 1, Reach(code, text, j)) = Spell(code, SubSeq(text, i + 1, j))
<1> DEFINE n  == Len(text)
           ta == SubSeq(text, 1, i)
           tb == SubSeq(text, i + 1, j)
           tj == SubSeq(text, 1, j)
           td == SubSeq(text, j + 1, n)
           x  == Spell(code, ta)
           y  == Spell(code, tb)
           z  == Spell(code, td)
<1>1. n \in Nat /\ n \in 0 .. n /\ j <= n
  BY LenProperties
<1>2. ta \in Seq(C) /\ tb \in Seq(C) /\ td \in Seq(C) /\ tj \in Seq(C)
  BY <1>1, Beginnings
<1>3. tj = ta \o tb
  BY Beginnings
<1>4. text = tj \o td
  <2>1. SubSeq(text, 1, n) = text
    BY Beginnings
  <2>2. SubSeq(text, 1, n) = tj \o td
    <3>1. \A k, l \in 0 .. n : k <= l => SubSeq(text, 1, l) = SubSeq(text, 1, k) \o SubSeq(text, k + 1, l)
      BY Beginnings
    <3> QED
      BY <1>1, <3>1, Zenon
  <2> QED
    BY <2>1, <2>2, Zenon
<1> HIDE DEF ta, tb, tj, td
<1>5. Spell(code, tj) = x \o y
  BY <1>2, <1>3, SpellConcat
<1>6. Spell(code, text) = (x \o y) \o z
  <2>1. Spell(code, tj \o td) = Spell(code, tj) \o Spell(code, td)
    <3>1. \A a, b \in Seq(C) : Spell(code, a \o b) = Spell(code, a) \o Spell(code, b)
      BY SpellConcat
    <3> QED
      BY <1>2, <3>1, Zenon
  <2> QED
    BY <1>4, <1>5, <2>1, Zenon
<1>7. x \in Seq(X) /\ y \in Seq(X) /\ z \in Seq(X)
  BY <1>2, SpellGrows
<1>8. Lies(x, y, z)
  <2> HIDE DEF x, y, z
  <2> QED
    BY <1>7, MiddleLies
<1>9. Reach(code, text, i) = Len(x) /\ Reach(code, text, j) = Len(x \o y)
  BY <1>5, Zenon DEF Reach, ta, tj
<1> QED
  BY <1>6, <1>8, <1>9, Zenon DEF Lies, tb

\* A character has one code, or two.
Narrow(C, code) == \A c \in C : Len(code[c]) \in {1, 2}

\* A multiple of a size falls between two characters, or into the codes of one.
LEMMA EveryEnd ==
  ASSUME NEW C, NEW code, NEW X, Codes(C, code, X), NEW text \in Seq(C), Narrow(C, code),
         NEW size \in Nat, size > 0, NEW v \in Nat, v % size = 0, v <= Reach(code, text, Len(text)),
         \A i \in 1 .. Len(text) : ~(Len(code[text[i]]) = 2 /\ (Reach(code, text, i) - 1) % size = 0)
  PROVE  \E i \in 0 .. Len(text) : Reach(code, text, i) = v
<1> DEFINE n == Len(text)
           L(i) == Reach(code, text, i)
           Met(i) == \E j \in 0 .. n : j <= i /\ L(j) = v
           N == {i \in Nat : i <= n => L(i) < v \/ Met(i)}
<1>1. n \in Nat
  BY LenProperties
<1>2. /\ L(0) = 0 /\ \A i \in 0 .. n : L(i) \in Nat
      /\ \A i \in 0 .. n - 1 : L(i + 1) = L(i) + Len(code[text[i + 1]])
  BY ReachIs
<1>3. 0 \in N
  <2>1. 0 \in 0 .. n /\ 0 <= 0
    BY <1>1
  <2>2. L(0) < v \/ L(0) = v
    BY <1>2
  <2> QED
    BY <2>1, <2>2
<1>4. ASSUME NEW i \in Nat, i \in N
      PROVE  i + 1 \in N
  <2> SUFFICES ASSUME i + 1 <= n
               PROVE  L(i + 1) < v \/ Met(i + 1)
    OBVIOUS
  <2>1. i <= n /\ i \in 0 .. n - 1 /\ i + 1 \in 0 .. n /\ i + 1 \in 1 .. n /\ i \in 0 .. n
    BY <1>1
  <2>2. CASE Met(i)
    <3>1. PICK j \in 0 .. n : j <= i /\ L(j) = v
      BY <2>2
    <3>2. j <= i + 1
      BY <3>1
    <3> QED
      BY <3>1, <3>2
  <2>3. CASE L(i) < v
    <3>1. L(i + 1) = L(i) + Len(code[text[i + 1]])
      BY <1>2, <2>1
    <3>2. Len(code[text[i + 1]]) \in {1, 2}
      <4>1. text[i + 1] \in C
        BY <2>1, ElementOfSeq
      <4> QED
        BY <4>1, Zenon DEF Narrow
    <3>3. ~(Len(code[text[i + 1]]) = 2 /\ (L(i + 1) - 1) % size = 0)
      BY <2>1
    <3> DEFINE d == Len(code[text[i + 1]])
               l == L(i + 1)
               p == L(i)
    <3>4. p \in Nat /\ l = p + d /\ d \in {1, 2} /\ p < v
      BY <1>2, <2>1, <2>3, <3>1, <3>2
    <3>5. ~(d = 2 /\ (l - 1) % size = 0)
      BY <3>3
    <3> HIDE DEF d, l, p
    <3>6. l < v \/ l = v \/ (d = 2 /\ l - 1 = v)
      BY <3>4
    <3>7. l < v \/ l = v
      BY <3>5, <3>6, Zenon
    <3>8. l = v => Met(i + 1)
      <4>1. i + 1 <= i + 1
        OBVIOUS
      <4> QED
        BY <2>1, <4>1 DEF l
    <3> QED
      BY <3>7, <3>8 DEF l
  <2> QED
    BY <1>4, <2>1, <2>2, <2>3
<1>5. Nat \subseteq N
  <2> HIDE DEF N
  <2> QED
    BY <1>3, <1>4, Induction
<1>6. L(n) < v \/ Met(n)
  <2>1. n \in N /\ n <= n
    BY <1>1, <1>5
  <2> QED
    BY <2>1
<1>7. ~(L(n) < v)
  <2>1. L(n) \in Nat
    BY <1>1, <1>2
  <2> QED
    BY <2>1
<1> QED
  BY <1>6, <1>7

-----------------------------------------------------------------------------
(* What a part says *)

\* The characters that a text is made of.
Repertoire(text) == IF IsGSM(text) THEN Basic ELSE Signs

\* They are spelt and read.
Spelt(text) ==
  /\ text \in Seq(Repertoire(text)) /\ CodesOf(text) = Spell(CodeOf(text), text)
  /\ Codes(Repertoire(text), CodeOf(text), Alphabet(text)) /\ Narrow(Repertoire(text), CodeOf(text))
  /\ \A t \in Seq(Repertoire(text)) : Decoded(text, Spell(CodeOf(text), t)) = t

\* Every text is.
LEMMA TextIsSpelt ==
  ASSUME NEW text \in Seq(Signs)
  PROVE  Spelt(text)
<1>0. \A p, q \in Nat : Len(<<p>>) = 1 /\ Len(<<p, q>>) = 2
  OBVIOUS
<1>1. Narrow(Basic, Septets)
  <2>1. 0 \in Nat /\ 101 \in Nat /\ 32 \in Nat /\ Escape \in Nat
    BY DEF Escape
  <2>2. /\ Len(Septets["at"]) = 1 /\ Len(Septets["e"]) = 1 /\ Len(Septets["space"]) = 1
        /\ Len(Septets["euro"]) = 2
    BY <1>0, <2>1, TheCodes
  <2> QED
    BY <2>2 DEF Narrow, Basic
<1>2. Narrow(Signs, Units)
  <2>1. 64 \in Nat /\ 101 \in Nat /\ 32 \in Nat /\ 8364 \in Nat /\ 1046 \in Nat /\ High \in Nat /\ Low \in Nat
    BY DEF High, Low
  <2>2. /\ Len(Units["at"]) = 1 /\ Len(Units["e"]) = 1 /\ Len(Units["space"]) = 1 /\ Len(Units["euro"]) = 1
        /\ Len(Units["cyr"]) = 1 /\ Len(Units["emoji"]) = 2
    BY <1>0, <2>1, TheCodes
  <2> QED
    BY <2>2 DEF Narrow, Signs
<1>3. CASE IsGSM(text)
  <2>1. text \in Seq(Basic)
    BY <1>3, BasicIsGSM
  <2>2. \A t \in Seq(Basic) : DecodeGSM(Spell(Septets, t)) = t
    BY ReadsText
  <2>3. Codes(Basic, Septets, Septet)
    BY CodesFit
  <2> QED
    BY <1>1, <1>3, <2>1, <2>2, <2>3, Zenon DEF Spelt, Repertoire, CodesOf, CodeOf, Alphabet, Decoded
<1>4. CASE ~IsGSM(text)
  <2>2. \A t \in Seq(Signs) : DecodeUnits(Spell(Units, t)) = t
    BY ReadsUnitText
  <2>3. Codes(Signs, Units, Unit)
    BY CodesFit
  <2> QED
    BY <1>2, <1>4, <2>2, <2>3, Zenon DEF Spelt, Repertoire, CodesOf, CodeOf, Alphabet, Decoded
<1> QED
  BY <1>3, <1>4

\* A text has at least as many codes as characters.
LEMMA SpellLonger ==
  ASSUME NEW C, NEW code, NEW X, Codes(C, code, X), Narrow(C, code)
  PROVE  \A t \in Seq(C) : Len(Spell(code, t)) >= Len(t)
<1> DEFINE T == {t \in Seq(C) : Len(Spell(code, t)) >= Len(t)}
<1>1. /\ Spell(code, <<>>) = <<>>
      /\ \A t \in Seq(C) : Spell(code, t) \in Seq(X)
      /\ \A t \in Seq(C), c \in C : Spell(code, Append(t, c)) = Spell(code, t) \o code[c]
  BY SpellGrows
<1>2. <<>> \in T
  BY <1>1
<1>3. ASSUME NEW t \in Seq(C), NEW c \in C, t \in T
      PROVE  Append(t, c) \in T
  <2> DEFINE x == Spell(code, t)
             y == code[c]
  <2>1. x \in Seq(X) /\ Spell(code, Append(t, c)) = x \o y
    BY <1>1, Zenon
  <2>2. y \in Seq(X) /\ Len(y) \in {1, 2}
    BY Zenon DEF Codes, Narrow
  <2>3. Len(x) >= Len(t)
    BY <1>3
  <2> HIDE DEF x, y
  <2>4. Len(x \o y) = Len(x) + Len(y) /\ Len(x) \in Nat
    BY <2>1, <2>2, ConcatProperties, LenProperties
  <2>5. Append(t, c) \in Seq(C) /\ Len(Append(t, c)) = Len(t) + 1 /\ Len(t) \in Nat
    BY AppendProperties, LenProperties
  <2>6. Len(x \o y) >= Len(Append(t, c))
    <3>1. \A a, b, l \in Nat : a >= l /\ b \in {1, 2} => a + b >= l + 1
      OBVIOUS
    <3>2. Len(y) \in Nat
      BY <2>2, LenProperties
    <3> QED
      BY <2>2, <2>3, <2>4, <2>5, <3>1, <3>2, Zenon
  <2> QED
    BY <2>1, <2>5, <2>6
<1>4. Seq(C) \subseteq T
  <2> HIDE DEF T
  <2> QED
    BY <1>2, <1>3, SequenceInduction
<1> QED
  BY <1>4

\* More characters reach farther.
LEMMA ReachGrows ==
  ASSUME NEW C, NEW code, NEW X, Codes(C, code, X), Narrow(C, code), NEW text \in Seq(C)
  PROVE  \A i, j \in 0 .. Len(text) : i <= j => Reach(code, text, j) >= Reach(code, text, i) + (j - i)
<1> SUFFICES ASSUME NEW i \in 0 .. Len(text), NEW j \in 0 .. Len(text), i <= j
             PROVE  Reach(code, text, j) >= Reach(code, text, i) + (j - i)
  OBVIOUS
<1> DEFINE ta == SubSeq(text, 1, i)
           tb == SubSeq(text, i + 1, j)
           x  == Spell(code, ta)
           y  == Spell(code, tb)
<1>1. ta \in Seq(C) /\ tb \in Seq(C) /\ Len(tb) = j - i
  BY Beginnings
<1>2. SubSeq(text, 1, j) = ta \o tb
  BY Beginnings
<1> HIDE DEF ta, tb
<1>3. Spell(code, ta \o tb) = x \o y
  BY <1>1, SpellConcat
<1>4. x \in Seq(X) /\ y \in Seq(X) /\ Len(y) >= Len(tb)
  BY <1>1, SpellGrows, SpellLonger
<1>5. Reach(code, text, i) = Len(x) /\ Reach(code, text, j) = Len(x \o y)
  BY <1>2, <1>3, Zenon DEF Reach, ta
<1> HIDE DEF x, y
<1>6. Len(x \o y) = Len(x) + Len(y) /\ Len(x) \in Nat /\ Len(y) \in Nat
  BY <1>4, ConcatProperties, LenProperties
<1>7. i \in Int /\ j \in Int
  BY LenProperties
<1> QED
  BY <1>1, <1>4, <1>5, <1>6, <1>7

\* No boundary falls into the codes of a character.
LEMMA WholeCharacters ==
  ASSUME NEW text \in Seq(Signs), ~Single(text), ~Cut(text)
  PROVE  \A i \in 1 .. Len(text) :
           ~(Len(CodeOf(text)[text[i]]) = 2 /\ (Reach(CodeOf(text), text, i) - 1) % SizeOf(text) = 0)
<1> DEFINE t == Total(text)
           R == [k \in 1 .. t |-> Decoded(text, Part(text, k))]
<1>1. t \in Nat /\ t > 1
  BY LongIs
<1>2. Received(text) = R
  BY LongReceived
<1>3. Len(Received(text)) > 1
  <2> HIDE DEF t
  <2>1. Len(R) = t
    BY <1>1
  <2> HIDE DEF R
  <2> QED
    BY <1>1, <1>2, <2>1
<1>4. DOMAIN text = 1 .. Len(text)
  BY LenProperties
<1> QED
  BY <1>3, <1>4, Zenon DEF Cut, CodeOf, SizeOf, Reach

\* Where the codes of a long text's k-th part end, and how many characters the
\* first k parts have.
EndOf(text, k) == End(Len(CodesOf(text)), SizeOf(text), k)
Before(text, k) == CHOOSE i \in 0 .. Len(text) : Reach(CodeOf(text), text, i) = EndOf(text, k)

\* The parts of a text that no boundary cuts are made of whole characters.
LEMMA BeforeIs ==
  ASSUME NEW text \in Seq(Signs), ~Single(text), ~Cut(text)
  PROVE  \A k \in 0 .. Total(text) : /\ Before(text, k) \in 0 .. Len(text)
                                     /\ Reach(CodeOf(text), text, Before(text, k)) = EndOf(text, k)
<1> DEFINE code == CodeOf(text)
           c    == CodesOf(text)
           n    == Len(c)
           size == SizeOf(text)
           t    == Total(text)
           m    == Len(text)
           A    == Repertoire(text)
           X    == Alphabet(text)
<1>1. /\ n \in Nat /\ size \in Nat /\ size > 0 /\ n > 0 /\ t \in Nat /\ t > 1
  BY LongIs
<1>2. /\ text \in Seq(A) /\ c = Spell(code, text) /\ Codes(A, code, X) /\ Narrow(A, code)
  BY TextIsSpelt, Zenon DEF Spelt
<1>3. \A i \in 1 .. m : ~(Len(code[text[i]]) = 2 /\ (Reach(code, text, i) - 1) % size = 0)
  BY WholeCharacters
<1>4. m \in Nat
  BY LenProperties
<1>5. Reach(code, text, m) = n
  <2> HIDE DEF code, c, A, X
  <2> QED
    BY <1>2, ReachIs, Zenon
<1>6. /\ \A k \in 0 .. t : EndOf(text, k) \in 0 .. n
      /\ \A k \in 0 .. t - 1 : EndOf(text, k) = k * size
      /\ EndOf(text, t) = n
  <2> HIDE DEF n, size
  <2>1. /\ End(n, size, Parts(n, size)) = n
        /\ \A k \in 0 .. Parts(n, size) : End(n, size, k) \in 0 .. n
        /\ \A k \in 0 .. Parts(n, size) - 1 : End(n, size, k) = k * size
    BY <1>1, EndsAre
  <2>2. t = Parts(n, size) /\ \A k : EndOf(text, k) = End(n, size, k)
    BY Zenon DEF Total, EndOf, n, size
  <2> QED
    BY <2>1, <2>2, Zenon
<1> HIDE DEF code, c, size, t, A, X, n
<1>7. ASSUME NEW k \in 0 .. t
      PROVE  \E i \in 0 .. m : Reach(code, text, i) = EndOf(text, k)
  <2>1. CASE k = t
    <3>1. m \in 0 .. m
      BY <1>4
    <3> QED
      BY <1>5, <1>6, <2>1, <3>1
  <2>2. CASE k # t
    <3>1. k \in 0 .. t - 1 /\ k \in Nat
      BY <1>1, <2>2
    <3> DEFINE v == EndOf(text, k)
    <3>2. v = k * size /\ v \in 0 .. n
      BY <1>6, <3>1
    <3>3. v % size = 0
      <4>1. (k * size) % size = 0
        BY <1>1, <3>1, Multiples
      <4> QED
        BY <3>2, <4>1, Zenon
    <3> HIDE DEF v
    <3>4. v \in Nat /\ v <= Reach(code, text, Len(text))
      BY <1>1, <1>5, <3>2
    <3>5. \E i \in 0 .. Len(text) : Reach(code, text, i) = v
      BY <1>1, <1>2, <1>3, <3>3, <3>4, EveryEnd
    <3> QED
      BY <3>5, Zenon DEF v
  <2> QED
    BY <2>1, <2>2
<1>8. ASSUME NEW k \in 0 .. t
      PROVE  Before(text, k) \in 0 .. m /\ Reach(code, text, Before(text, k)) = EndOf(text, k)
  BY <1>7, Zenon DEF Before, code
<1> QED
  BY <1>8, Zenon DEF t, code

\* They divide the text.
LEMMA BeforeGrows ==
  ASSUME NEW text \in Seq(Signs), ~Single(text), ~Cut(text)
  PROVE  /\ Before(text, 0) = 0 /\ Before(text, Total(text)) = Len(text)
         /\ \A k \in 0 .. Total(text) - 1 : Before(text, k) <= Before(text, k + 1)
<1> DEFINE code == CodeOf(text)
           c    == CodesOf(text)
           n    == Len(c)
           size == SizeOf(text)
           t    == Total(text)
           m    == Len(text)
           A    == Repertoire(text)
           X    == Alphabet(text)
           B(k) == Before(text, k)
           L(i) == Reach(code, text, i)
<1>1. /\ n \in Nat /\ size \in Nat /\ size > 0 /\ n > 0 /\ t \in Nat /\ t > 1
  BY LongIs
<1>2. /\ text \in Seq(A) /\ c = Spell(code, text) /\ Codes(A, code, X) /\ Narrow(A, code)
  BY TextIsSpelt, Zenon DEF Spelt
<1>3. m \in Nat
  BY LenProperties
<1>4. \A k \in 0 .. t : B(k) \in 0 .. m /\ L(B(k)) = EndOf(text, k)
  BY BeforeIs
<1>5. /\ EndOf(text, 0) = 0 /\ EndOf(text, t) = n
      /\ \A k \in 0 .. t - 1 : EndOf(text, k) <= EndOf(text, k + 1)
  <2> HIDE DEF n, size
  <2>1. /\ End(n, size, 0) = 0 /\ End(n, size, Parts(n, size)) = n
        /\ \A k \in 0 .. Parts(n, size) - 1 : End(n, size, k) <= End(n, size, k + 1)
    BY <1>1, EndsAre
  <2>2. t = Parts(n, size) /\ \A k : EndOf(text, k) = End(n, size, k)
    BY Zenon DEF Total, EndOf, n, size
  <2> QED
    BY <2>1, <2>2, Zenon
<1> HIDE DEF code, c, size, t, A, X
<1>6. /\ L(0) = 0 /\ L(m) = n
      /\ \A i \in 0 .. m : L(i) \in Nat
  BY <1>2, ReachIs
<1>7. \A i, j \in 0 .. m : i <= j => L(j) >= L(i) + (j - i)
  BY <1>2, ReachGrows
<1>8. \A i, j \in 0 .. m : L(i) <= L(j) => i <= j
  <2> SUFFICES ASSUME NEW i \in 0 .. m, NEW j \in 0 .. m, L(i) <= L(j)
               PROVE  i <= j
    OBVIOUS
  <2>1. L(i) \in Nat /\ L(j) \in Nat
    BY <1>6
  <2>2. j <= i => L(i) >= L(j) + (i - j)
    BY <1>7
  <2> HIDE DEF L
  <2> QED
    BY <1>3, <2>1, <2>2
<1>9. 0 \in 0 .. t /\ t \in 0 .. t /\ 0 \in 0 .. m /\ m \in 0 .. m
  BY <1>1, <1>3
<1>10. B(0) = 0
  <2>1. B(0) \in 0 .. m /\ L(B(0)) = 0
    BY <1>4, <1>5, <1>9, Zenon
  <2>2. L(B(0)) <= L(0)
    BY <1>6, <2>1
  <2>3. B(0) <= 0
    BY <1>8, <1>9, <2>1, <2>2
  <2> QED
    BY <2>1, <2>3
<1>11. B(t) = m
  <2>1. B(t) \in 0 .. m /\ L(B(t)) = n
    BY <1>4, <1>5, <1>9, Zenon
  <2>2. L(m) <= L(B(t))
    BY <1>1, <1>6, <2>1
  <2>3. m <= B(t)
    BY <1>8, <1>9, <2>1, <2>2
  <2> QED
    BY <1>3, <2>1, <2>3
<1>12. \A k \in 0 .. t - 1 : B(k) <= B(k + 1)
  <2> SUFFICES ASSUME NEW k \in 0 .. t - 1
               PROVE  B(k) <= B(k + 1)
    OBVIOUS
  <2>1. k \in 0 .. t /\ k + 1 \in 0 .. t
    BY <1>1
  <2>2. L(B(k)) <= L(B(k + 1))
    BY <1>4, <1>5, <2>1
  <2> QED
    BY <1>4, <1>8, <2>1, <2>2
<1> QED
  BY <1>10, <1>11, <1>12, Zenon DEF t

\* What a part says.
Says(text, k) == SubSeq(text, Before(text, k - 1) + 1, Before(text, k))

\* Each part has the codes of the characters between its boundaries, and says them.
LEMMA PartsSay ==
  ASSUME NEW text \in Seq(Signs), ~Single(text), ~Cut(text)
  PROVE  \A k \in 0 .. Total(text) - 1 : /\ Decoded(text, Part(text, k + 1)) = Says(text, k + 1)
                                         /\ Part(text, k + 1) = Spell(CodeOf(text), Says(text, k + 1))
<1> DEFINE code == CodeOf(text)
           c    == CodesOf(text)
           n    == Len(c)
           size == SizeOf(text)
           t    == Total(text)
           m    == Len(text)
           A    == Repertoire(text)
           X    == Alphabet(text)
<1>1. /\ n \in Nat /\ size \in Nat /\ size > 0 /\ n > 0 /\ t \in Nat /\ c \in Seq(X)
  BY LongIs
<1>2. /\ text \in Seq(A) /\ c = Spell(code, text) /\ Codes(A, code, X)
      /\ \A s \in Seq(A) : Decoded(text, Spell(code, s)) = s
  BY TextIsSpelt, Zenon DEF Spelt
<1>3. \A k \in 0 .. t : Before(text, k) \in 0 .. m /\ Reach(code, text, Before(text, k)) = EndOf(text, k)
  BY BeforeIs
<1>4. \A k \in 0 .. t - 1 : Before(text, k) <= Before(text, k + 1)
  BY BeforeGrows
<1>5. \A k \in 0 .. t - 1 : Part(text, k + 1) = SubSeq(c, EndOf(text, k) + 1, EndOf(text, k + 1))
  <2> HIDE DEF c, size, X
  <2>1. \A k \in 0 .. Parts(Len(c), size) - 1 : Slice(c, size, k + 1) = SubSeq(c, End(Len(c), size, k) + 1, End(Len(c), size, k + 1))
    BY <1>1, SlicesAre
  <2> QED
    BY <2>1, Zenon DEF Total, EndOf, Part, c, size
<1> HIDE DEF code, c, size, t, A, X
<1> SUFFICES ASSUME NEW k \in 0 .. t - 1
             PROVE  /\ Decoded(text, Part(text, k + 1)) = Says(text, k + 1)
                    /\ Part(text, k + 1) = Spell(code, Says(text, k + 1))
  BY DEF t, code
<1>6. k \in 0 .. t /\ k + 1 \in 0 .. t /\ (k + 1) - 1 = k
  BY <1>1
<1> DEFINE i == Before(text, k)
           j == Before(text, k + 1)
<1>7. i \in 0 .. m /\ j \in 0 .. m /\ i <= j /\ Reach(code, text, i) = EndOf(text, k) /\ Reach(code, text, j) = EndOf(text, k + 1)
  BY <1>3, <1>4, <1>6, Zenon
<1> HIDE DEF i, j
<1>8. SubSeq(Spell(code, text), Reach(code, text, i) + 1, Reach(code, text, j)) = Spell(code, SubSeq(text, i + 1, j))
  BY <1>2, <1>7, SpellBetween
<1>9. Part(text, k + 1) = Spell(code, SubSeq(text, i + 1, j))
  BY <1>2, <1>5, <1>7, <1>8, Zenon
<1>10. SubSeq(text, i + 1, j) \in Seq(A)
  BY <1>2, <1>7, Beginnings
<1>11. Decoded(text, Part(text, k + 1)) = SubSeq(text, i + 1, j)
  BY <1>2, <1>9, <1>10, Zenon
<1> QED
  BY <1>6, <1>9, <1>11, Zenon DEF Says, i, j

\* A long text that no boundary cuts arrives in parts.
LEMMA PartsAreReceived ==
  ASSUME NEW text \in Seq(Signs), ~Single(text), ~Cut(text)
  PROVE  /\ Received(text) = [k \in 1 .. Total(text) |-> Says(text, k)]
         /\ Received(text) \in Seq(Seq(Signs)) /\ Len(Received(text)) = Total(text)
         /\ \A k \in 0 .. Total(text) - 1 : /\ Received(text)[k + 1] = SubSeq(text, Before(text, k) + 1, Before(text, k + 1))
                                            /\ Before(text, k) \in 0 .. Len(text) /\ Before(text, k + 1) \in 0 .. Len(text)
                                            /\ Before(text, k) <= Before(text, k + 1)
<1> DEFINE t == Total(text)
           m == Len(text)
           R == [k \in 1 .. t |-> Says(text, k)]
<1>1. t \in Nat
  BY LongIs
<1>2. \A k \in 1 .. t : k - 1 \in 0 .. t - 1 /\ (k - 1) + 1 = k
  BY <1>1
<1>3. \A k \in 0 .. t - 1 : k \in 0 .. t /\ k + 1 \in 0 .. t /\ k + 1 \in 1 .. t /\ (k + 1) - 1 = k
  BY <1>1
<1>4. \A k \in 0 .. t : Before(text, k) \in 0 .. m
  BY BeforeIs
<1>5. \A k \in 0 .. t - 1 : Before(text, k) <= Before(text, k + 1)
  BY BeforeGrows
<1>6. \A k \in 1 .. t : Decoded(text, Part(text, k)) = Says(text, k)
  <2>1. \A k \in 0 .. t - 1 : Decoded(text, Part(text, k + 1)) = Says(text, k + 1)
    BY PartsSay
  <2> QED
    BY <1>2, <2>1, Zenon
<1>7. Received(text) = R
  <2>1. Received(text) = [k \in 1 .. t |-> Decoded(text, Part(text, k))]
    BY LongReceived
  <2> QED
    BY <1>6, <2>1, Zenon
<1>8. \A k \in 0 .. t - 1 : Says(text, k + 1) = SubSeq(text, Before(text, k) + 1, Before(text, k + 1))
  BY <1>3, Zenon DEF Says
<1>9. \A i, j \in 0 .. m : i <= j => SubSeq(text, i + 1, j) \in Seq(Signs)
  BY Beginnings
<1>10. \A k \in 1 .. t : Says(text, k) \in Seq(Signs)
  <2>1. \A k \in 0 .. t - 1 : Says(text, k + 1) \in Seq(Signs)
    BY <1>3, <1>4, <1>5, <1>8, <1>9, Zenon
  <2> QED
    BY <1>2, <2>1, Zenon
<1>11. R \in Seq(Seq(Signs)) /\ Len(R) = t
  <2> HIDE DEF t
  <2>1. R \in Seq(Seq(Signs))
    BY <1>1, <1>10, IsSequence
  <2>2. Len(R) = t
    BY <1>1
  <2> QED
    BY <2>1, <2>2
<1>12. \A k \in 0 .. t - 1 : R[k + 1] = Says(text, k + 1)
  BY <1>3, Zenon
<1> HIDE DEF t, R
<1>13. \A k \in 0 .. t - 1 : /\ R[k + 1] = SubSeq(text, Before(text, k) + 1, Before(text, k + 1))
                             /\ Before(text, k) \in 0 .. m /\ Before(text, k + 1) \in 0 .. m
                             /\ Before(text, k) <= Before(text, k + 1)
  BY <1>3, <1>4, <1>5, <1>8, <1>12, Zenon
<1> QED
  BY <1>7, <1>11, <1>13, Zenon DEF t, R

\* Whatever a text says and however long it is, its parts arrive and say it
\* together, unless a boundary cuts a character in two (sms.go:779, 843).
THEOREM TextsArrive ==
  ASSUME NEW text \in Seq(Signs)
  PROVE  TextArrives(text)
<1>1. CASE Single(text)
  <2>1. Received(text) = <<text>>
    BY <1>1, OneReceived
  <2>2. FlattenSeq(<<text>>) = text
    <3>1. <<>> \in Seq(Seq(Signs)) /\ Append(<<>>, text) = <<text>> /\ <<>> \o text = text
      OBVIOUS
    <3>2. FlattenSeq(Append(<<>>, text)) = FlattenSeq(<<>>) \o text
      BY <3>1, FlattenAppend
    <3> QED
      BY <3>1, <3>2, FlattenEmpty, Zenon
  <2> QED
    BY <2>1, <2>2, Zenon DEF TextArrives
<1>2. CASE ~Single(text) /\ ~Cut(text)
  <2> DEFINE t == Total(text)
             R == Received(text)
             B(k) == Before(text, k)
             N == {k \in Nat : k <= t => FlattenSeq(SubSeq(R, 1, k)) = SubSeq(text, 1, B(k))}
  <2>1. /\ R \in Seq(Seq(Signs)) /\ Len(R) = t
        /\ \A k \in 0 .. t - 1 : /\ R[k + 1] = SubSeq(text, B(k) + 1, B(k + 1))
                                 /\ B(k) \in 0 .. Len(text) /\ B(k + 1) \in 0 .. Len(text)
                                 /\ B(k) <= B(k + 1)
    BY <1>2, PartsAreReceived, Zenon
  <2>2. B(0) = 0 /\ B(t) = Len(text) /\ t \in Nat
    BY <1>2, BeforeGrows, LongIs
  <2> HIDE DEF t, R, B
  <2>3. /\ SubSeq(R, 1, 0) = <<>> /\ SubSeq(R, 1, Len(R)) = R
        /\ \A k \in 0 .. Len(R) : SubSeq(R, 1, k) \in Seq(Seq(Signs))
        /\ \A k \in 0 .. Len(R) - 1 : SubSeq(R, 1, k + 1) = Append(SubSeq(R, 1, k), R[k + 1]) /\ R[k + 1] \in Seq(Signs)
    BY <2>1, Beginnings
  <2>4. /\ SubSeq(text, 1, 0) = <<>> /\ SubSeq(text, 1, Len(text)) = text
        /\ \A i, j \in 0 .. Len(text) : i <= j => SubSeq(text, 1, j) = SubSeq(text, 1, i) \o SubSeq(text, i + 1, j)
    BY Beginnings
  <2>5. 0 \in N
    <3>1. FlattenSeq(SubSeq(R, 1, 0)) = SubSeq(text, 1, B(0))
      BY <2>2, <2>3, <2>4, FlattenEmpty, Zenon
    <3> QED
      BY <3>1
  <2>6. ASSUME NEW k \in Nat, k \in N
        PROVE  k + 1 \in N
    <3> SUFFICES ASSUME k + 1 <= t
                 PROVE  FlattenSeq(SubSeq(R, 1, k + 1)) = SubSeq(text, 1, B(k + 1))
      OBVIOUS
    <3>1. k \in 0 .. t - 1 /\ k \in 0 .. t /\ k <= t
      BY <2>2
    <3>2. FlattenSeq(SubSeq(R, 1, k)) = SubSeq(text, 1, B(k))
      BY <2>6, <3>1
    <3>3. FlattenSeq(SubSeq(R, 1, k + 1)) = FlattenSeq(SubSeq(R, 1, k)) \o R[k + 1]
      <4>1. /\ SubSeq(R, 1, k) \in Seq(Seq(Signs)) /\ R[k + 1] \in Seq(Signs)
            /\ SubSeq(R, 1, k + 1) = Append(SubSeq(R, 1, k), R[k + 1])
        BY <2>1, <2>3, <3>1, Zenon
      <4> DEFINE s == SubSeq(R, 1, k)
                 x == R[k + 1]
      <4> HIDE DEF s, x
      <4>2. FlattenSeq(Append(s, x)) = FlattenSeq(s) \o x
        BY <4>1, FlattenAppend DEF s, x
      <4> QED
        BY <4>1, <4>2, Zenon DEF s, x
    <3>4. SubSeq(text, 1, B(k + 1)) = SubSeq(text, 1, B(k)) \o R[k + 1]
      BY <2>1, <2>4, <3>1, Zenon
    <3> QED
      BY <3>2, <3>3, <3>4, Zenon
  <2>7. Nat \subseteq N
    <3> HIDE DEF N
    <3> QED
      BY <2>5, <2>6, Induction
  <2>8. t \in N /\ t <= t
    BY <2>2, <2>7
  <2>9. FlattenSeq(SubSeq(R, 1, t)) = SubSeq(text, 1, B(t))
    BY <2>8
  <2>10. FlattenSeq(R) = text
    BY <2>1, <2>2, <2>3, <2>4, <2>9, Zenon
  <2> QED
    BY <2>10, Zenon DEF TextArrives, R
<1>3. CASE Cut(text)
  BY <1>3, Zenon DEF TextArrives
<1> QED
  BY <1>1, <1>2, <1>3

\* The samples are texts.
LEMMA SamplesAreTexts ==
  ASSUME NEW s \in UpTo(MaxText, {"at", "euro"}) \cup UpTo(MaxText, {"cyr", "emoji"})
  PROVE  s \in Seq(Signs)
<1>1. MaxText \in Nat
  BY FormatsAssumption
<1>2. s \in Seq({"at", "euro"}) \/ s \in Seq({"cyr", "emoji"})
  BY <1>1, UpToIs
<1>3. {"at", "euro"} \subseteq Signs /\ {"cyr", "emoji"} \subseteq Signs
  BY DEF Signs
<1> QED
  BY <1>2, <1>3, SeqMonotonic

\* Every sample of a text arrives (sms.go:779, 843).
THEOREM SamplesArrive == FormatsSpec => []SentTextArrives
<1>1. ASSUME FormatsInit
      PROVE  SentTextArrives
  BY <1>1 DEF FormatsInit, None, SentTextArrives
<1>2. ASSUME SentTextArrives, [FormatsNext]_sample
      PROVE  SentTextArrives'
  <2>1. CASE LookAtText
    <3>1. PICK s \in UpTo(MaxText, {"at", "euro"}) \cup UpTo(MaxText, {"cyr", "emoji"}) :
            sample' = [kind |-> "text", text |-> s]
      BY <2>1 DEF LookAtText
    <3>2. s \in Seq(Signs)
      BY <3>1, SamplesAreTexts
    <3>3. TextArrives(s)
      BY <3>2, TextsArrive
    <3>4. sample'.text = s
      BY <3>1
    <3> QED
      BY <3>3, <3>4, Zenon DEF SentTextArrives
  <2>2. CASE LookAtStream \/ LookAtFrames \/ LookAtNumber \/ LookAtFormat
    <3>1. sample'.kind \in {"stream", "frames", "number", "format"}
      BY <2>2 DEF LookAtStream, LookAtFrames, LookAtNumber, LookAtFormat
    <3> QED
      BY <3>1 DEF SentTextArrives
  <2>3. CASE UNCHANGED sample
    BY <1>2, <2>3 DEF SentTextArrives
  <2> QED
    BY <1>2, <2>1, <2>2, <2>3 DEF FormatsNext
<1> QED
  BY <1>1, <1>2, PTL DEF FormatsSpec

-----------------------------------------------------------------------------
(* The list of messages *)

\* g has the states of the merging over every subset of the first n places of c.
Merges(base, c, n, g) ==
  g = [s \in SUBSET (1 .. n) |-> IF s = {} THEN base ELSE AddMessage(g[s \ {Max(s)}], c[Max(s)])]

\* There are such states.
LEMMA MergesExist ==
  ASSUME NEW base, NEW c, NEW n \in Nat
  PROVE  \E g : Merges(base, c, n, g)
<1> DEFINE T == {m \in Nat : \E g : Merges(base, c, m, g)}
<1>1. 0 \in T
  <2> DEFINE g == [s \in SUBSET (1 .. 0) |-> base]
  <2>1. \A s \in SUBSET (1 .. 0) : s = {}
    OBVIOUS
  <2>2. g = [s \in SUBSET (1 .. 0) |-> IF s = {} THEN base ELSE AddMessage(g[s \ {Max(s)}], c[Max(s)])]
    BY <2>1, Zenon
  <2> HIDE DEF g
  <2>3. Merges(base, c, 0, g)
    BY <2>2, Zenon DEF Merges
  <2> QED
    BY <2>3, Zenon
<1>2. ASSUME NEW m \in Nat, m \in T
      PROVE  m + 1 \in T
  <2>1. PICK g : Merges(base, c, m, g)
    BY <1>2
  <2> DEFINE h == [s \in SUBSET (1 .. m + 1) |->
                     IF m + 1 \in s THEN AddMessage(g[s \ {m + 1}], c[m + 1]) ELSE g[s]]
  <2>2. \A s \in SUBSET (1 .. m) :
          g[s] = IF s = {} THEN base ELSE AddMessage(g[s \ {Max(s)}], c[Max(s)])
    BY <2>1, Zenon DEF Merges
  <2>3. \A s \in SUBSET (1 .. m + 1) :
          /\ s \ {m + 1} \in SUBSET (1 .. m)
          /\ m + 1 \notin s => s \in SUBSET (1 .. m)
    OBVIOUS
  <2>4. \A s \in SUBSET (1 .. m) : s \in SUBSET (1 .. m + 1) /\ m + 1 \notin s
    OBVIOUS
  <2>5. \A s \in SUBSET (1 .. m) : h[s] = g[s]
    BY <2>4, Zenon
  <2>6. \A s \in SUBSET (1 .. m + 1) :
          h[s] = IF s = {} THEN base ELSE AddMessage(h[s \ {Max(s)}], c[Max(s)])
    <3> SUFFICES ASSUME NEW s \in SUBSET (1 .. m + 1)
                 PROVE  h[s] = IF s = {} THEN base ELSE AddMessage(h[s \ {Max(s)}], c[Max(s)])
      OBVIOUS
    <3>1. CASE m + 1 \in s
      <4>1. Max(s) = m + 1 /\ s # {}
        BY <3>1, Greatest
      <4>2. h[s] = AddMessage(g[s \ {m + 1}], c[m + 1])
        BY <3>1, Zenon
      <4>3. h[s \ {m + 1}] = g[s \ {m + 1}]
        BY <2>3, <2>5, Zenon
      <4> HIDE DEF h
      <4> QED
        BY <4>1, <4>2, <4>3, Zenon
    <3>2. CASE m + 1 \notin s
      <4>1. s \in SUBSET (1 .. m)
        BY <2>3, <3>2, Zenon
      <4>2. s \ {Max(s)} \in SUBSET (1 .. m)
        BY <4>1, Zenon
      <4> HIDE DEF h
      <4> QED
        BY <2>2, <2>5, <4>1, <4>2, Zenon
    <3> QED
      BY <3>1, <3>2
  <2>7. h = [s \in SUBSET (1 .. m + 1) |-> h[s]]
    BY Zenon
  <2> HIDE DEF h
  <2>8. Merges(base, c, m + 1, h)
    BY <2>6, <2>7, Zenon DEF Merges
  <2>9. m + 1 \in Nat
    OBVIOUS
  <2> QED
    BY <2>8, <2>9, Zenon
<1>3. Nat \subseteq T
  <2> HIDE DEF T
  <2> QED
    BY <1>1, <1>2, Induction
<1> QED
  BY <1>3

\* The merging ends where a run of its steps ends.
LEMMA MergeFollows ==
  ASSUME NEW base, NEW X, NEW c \in Seq(X), NEW t, t[0] = base,
         \A k \in 0 .. Len(c) - 1 : t[k + 1] = AddMessage(t[k], c[k + 1])
  PROVE  FoldLeft(AddMessage, base, c) = t[Len(c)]
<1> DEFINE Rec(g) == g = [s \in SUBSET DOMAIN c |->
                            IF s = {} THEN base ELSE AddMessage(g[s \ {Max(s)}], c[Max(s)])]
           chosen == CHOOSE g : Rec(g)
           n == Len(c)
           N == {k \in Nat : k <= n => chosen[1 .. k] = t[k]}
<1>0. n \in Nat /\ DOMAIN c = 1 .. n
  BY LenProperties
<1>1. FoldLeft(AddMessage, base, c) = chosen[1 .. n]
  <2>1. FoldLeft(AddMessage, base, c) = chosen[DOMAIN c]
    BY Zenon DEF FoldLeft, MapThenFoldSet
  <2> QED
    BY <1>0, <2>1, Zenon
<1>2. Rec(chosen)
  <2>1. PICK h : Merges(base, c, n, h)
    BY <1>0, MergesExist
  <2>2. Rec(h)
    BY <1>0, <2>1, Zenon DEF Merges
  <2> QED
    BY <2>2, Zenon
<1> HIDE DEF chosen
<1>3. \A s \in SUBSET (1 .. n) :
        chosen[s] = IF s = {} THEN base ELSE AddMessage(chosen[s \ {Max(s)}], c[Max(s)])
  BY <1>0, <1>2, Zenon
<1> HIDE DEF Rec
<1>4. 0 \in N
  <2>1. 1 .. 0 = {} /\ {} \in SUBSET (1 .. n)
    OBVIOUS
  <2>2. chosen[1 .. 0] = t[0]
    BY <1>3, <2>1, Zenon
  <2> QED
    BY <2>2
<1>5. ASSUME NEW k \in Nat, k \in N
      PROVE  k + 1 \in N
  <2> SUFFICES ASSUME k + 1 <= n
               PROVE  chosen[1 .. k + 1] = t[k + 1]
    OBVIOUS
  <2>1. k <= n /\ k \in 0 .. n - 1
    BY <1>0
  <2>2. 1 .. k + 1 \in SUBSET (1 .. n) /\ 1 .. k + 1 # {} /\ (1 .. k + 1) \ {k + 1} = 1 .. k
    <3>1. 1 .. k + 1 \in SUBSET (1 .. n)
      BY <1>0
    <3>2. k + 1 \in 1 .. k + 1
      OBVIOUS
    <3>3. (1 .. k + 1) \ {k + 1} = 1 .. k
      OBVIOUS
    <3> QED
      BY <3>1, <3>2, <3>3
  <2>3. Max(1 .. k + 1) = k + 1
    BY <1>0, Greatest
  <2>4. chosen[1 .. k] = t[k]
    BY <1>5, <2>1
  <2>5. chosen[1 .. k + 1] = AddMessage(chosen[1 .. k], c[k + 1])
    BY <1>3, <2>2, <2>3, Zenon
  <2> QED
    BY <2>1, <2>4, <2>5, Zenon
<1>6. Nat \subseteq N
  <2> HIDE DEF N
  <2> QED
    BY <1>4, <1>5, Induction
<1>7. n \in N /\ n <= n
  BY <1>0, <1>6
<1> QED
  BY <1>1, <1>7

\* g has the states of the sort over every subset of the first n places of c.
Sorts(base, c, n, g) ==
  g = [s \in SUBSET (1 .. n) |-> IF s = {} THEN base ELSE Insert(g[s \ {Max(s)}], c[Max(s)])]

\* There are such states.
LEMMA SortsExist ==
  ASSUME NEW base, NEW c, NEW n \in Nat
  PROVE  \E g : Sorts(base, c, n, g)
<1> DEFINE T == {m \in Nat : \E g : Sorts(base, c, m, g)}
<1>1. 0 \in T
  <2> DEFINE g == [s \in SUBSET (1 .. 0) |-> base]
  <2>1. \A s \in SUBSET (1 .. 0) : s = {}
    OBVIOUS
  <2>2. g = [s \in SUBSET (1 .. 0) |-> IF s = {} THEN base ELSE Insert(g[s \ {Max(s)}], c[Max(s)])]
    BY <2>1, Zenon
  <2> HIDE DEF g
  <2>3. Sorts(base, c, 0, g)
    BY <2>2, Zenon DEF Sorts
  <2> QED
    BY <2>3, Zenon
<1>2. ASSUME NEW m \in Nat, m \in T
      PROVE  m + 1 \in T
  <2>1. PICK g : Sorts(base, c, m, g)
    BY <1>2
  <2> DEFINE h == [s \in SUBSET (1 .. m + 1) |->
                     IF m + 1 \in s THEN Insert(g[s \ {m + 1}], c[m + 1]) ELSE g[s]]
  <2>2. \A s \in SUBSET (1 .. m) :
          g[s] = IF s = {} THEN base ELSE Insert(g[s \ {Max(s)}], c[Max(s)])
    BY <2>1, Zenon DEF Sorts
  <2>3. \A s \in SUBSET (1 .. m + 1) :
          /\ s \ {m + 1} \in SUBSET (1 .. m)
          /\ m + 1 \notin s => s \in SUBSET (1 .. m)
    OBVIOUS
  <2>4. \A s \in SUBSET (1 .. m) : s \in SUBSET (1 .. m + 1) /\ m + 1 \notin s
    OBVIOUS
  <2>5. \A s \in SUBSET (1 .. m) : h[s] = g[s]
    BY <2>4, Zenon
  <2>6. \A s \in SUBSET (1 .. m + 1) :
          h[s] = IF s = {} THEN base ELSE Insert(h[s \ {Max(s)}], c[Max(s)])
    <3> SUFFICES ASSUME NEW s \in SUBSET (1 .. m + 1)
                 PROVE  h[s] = IF s = {} THEN base ELSE Insert(h[s \ {Max(s)}], c[Max(s)])
      OBVIOUS
    <3>1. CASE m + 1 \in s
      <4>1. Max(s) = m + 1 /\ s # {}
        BY <3>1, Greatest
      <4>2. h[s] = Insert(g[s \ {m + 1}], c[m + 1])
        BY <3>1, Zenon
      <4>3. h[s \ {m + 1}] = g[s \ {m + 1}]
        BY <2>3, <2>5, Zenon
      <4> HIDE DEF h
      <4> QED
        BY <4>1, <4>2, <4>3, Zenon
    <3>2. CASE m + 1 \notin s
      <4>1. s \in SUBSET (1 .. m)
        BY <2>3, <3>2, Zenon
      <4>2. s \ {Max(s)} \in SUBSET (1 .. m)
        BY <4>1, Zenon
      <4> HIDE DEF h
      <4> QED
        BY <2>2, <2>5, <4>1, <4>2, Zenon
    <3> QED
      BY <3>1, <3>2
  <2>7. h = [s \in SUBSET (1 .. m + 1) |-> h[s]]
    BY Zenon
  <2> HIDE DEF h
  <2>8. Sorts(base, c, m + 1, h)
    BY <2>6, <2>7, Zenon DEF Sorts
  <2>9. m + 1 \in Nat
    OBVIOUS
  <2> QED
    BY <2>8, <2>9, Zenon
<1>3. Nat \subseteq T
  <2> HIDE DEF T
  <2> QED
    BY <1>1, <1>2, Induction
<1> QED
  BY <1>3

\* The sort ends where a run of its steps ends.
LEMMA SortFollows ==
  ASSUME NEW base, NEW X, NEW c \in Seq(X), NEW t, t[0] = base,
         \A k \in 0 .. Len(c) - 1 : t[k + 1] = Insert(t[k], c[k + 1])
  PROVE  FoldLeft(Insert, base, c) = t[Len(c)]
<1> DEFINE Rec(g) == g = [s \in SUBSET DOMAIN c |->
                            IF s = {} THEN base ELSE Insert(g[s \ {Max(s)}], c[Max(s)])]
           chosen == CHOOSE g : Rec(g)
           n == Len(c)
           N == {k \in Nat : k <= n => chosen[1 .. k] = t[k]}
<1>0. n \in Nat /\ DOMAIN c = 1 .. n
  BY LenProperties
<1>1. FoldLeft(Insert, base, c) = chosen[1 .. n]
  <2>1. FoldLeft(Insert, base, c) = chosen[DOMAIN c]
    BY Zenon DEF FoldLeft, MapThenFoldSet
  <2> QED
    BY <1>0, <2>1, Zenon
<1>2. Rec(chosen)
  <2>1. PICK h : Sorts(base, c, n, h)
    BY <1>0, SortsExist
  <2>2. Rec(h)
    BY <1>0, <2>1, Zenon DEF Sorts
  <2> QED
    BY <2>2, Zenon
<1> HIDE DEF chosen
<1>3. \A s \in SUBSET (1 .. n) :
        chosen[s] = IF s = {} THEN base ELSE Insert(chosen[s \ {Max(s)}], c[Max(s)])
  BY <1>0, <1>2, Zenon
<1> HIDE DEF Rec
<1>4. 0 \in N
  <2>1. 1 .. 0 = {} /\ {} \in SUBSET (1 .. n)
    OBVIOUS
  <2>2. chosen[1 .. 0] = t[0]
    BY <1>3, <2>1, Zenon
  <2> QED
    BY <2>2
<1>5. ASSUME NEW k \in Nat, k \in N
      PROVE  k + 1 \in N
  <2> SUFFICES ASSUME k + 1 <= n
               PROVE  chosen[1 .. k + 1] = t[k + 1]
    OBVIOUS
  <2>1. k <= n /\ k \in 0 .. n - 1
    BY <1>0
  <2>2. 1 .. k + 1 \in SUBSET (1 .. n) /\ 1 .. k + 1 # {} /\ (1 .. k + 1) \ {k + 1} = 1 .. k
    <3>1. 1 .. k + 1 \in SUBSET (1 .. n)
      BY <1>0
    <3>2. k + 1 \in 1 .. k + 1
      OBVIOUS
    <3>3. (1 .. k + 1) \ {k + 1} = 1 .. k
      OBVIOUS
    <3> QED
      BY <3>1, <3>2, <3>3
  <2>3. Max(1 .. k + 1) = k + 1
    BY <1>0, Greatest
  <2>4. chosen[1 .. k] = t[k]
    BY <1>5, <2>1
  <2>5. chosen[1 .. k + 1] = Insert(chosen[1 .. k], c[k + 1])
    BY <1>3, <2>2, <2>3, Zenon
  <2> QED
    BY <2>1, <2>4, <2>5, Zenon
<1>6. Nat \subseteq N
  <2> HIDE DEF N
  <2> QED
    BY <1>4, <1>5, Induction
<1>7. n \in N /\ n <= n
  BY <1>0, <1>6
<1> QED
  BY <1>1, <1>7

\* A text of characters with one code each has as many codes as characters.
LEMMA SpellNarrow ==
  ASSUME NEW C, NEW code, NEW X, Codes(C, code, X), \A c \in C : Len(code[c]) = 1
  PROVE  \A t \in Seq(C) : Len(Spell(code, t)) = Len(t)
<1> DEFINE T == {t \in Seq(C) : Len(Spell(code, t)) = Len(t)}
<1>1. /\ Spell(code, <<>>) = <<>>
      /\ \A t \in Seq(C) : Spell(code, t) \in Seq(X)
      /\ \A t \in Seq(C), c \in C : Spell(code, Append(t, c)) = Spell(code, t) \o code[c]
  BY SpellGrows
<1>2. <<>> \in T
  BY <1>1
<1>3. ASSUME NEW t \in Seq(C), NEW c \in C, t \in T
      PROVE  Append(t, c) \in T
  <2> DEFINE x == Spell(code, t)
             y == code[c]
  <2>1. x \in Seq(X) /\ Spell(code, Append(t, c)) = x \o y
    BY <1>1, Zenon
  <2>2. y \in Seq(X) /\ Len(y) = 1
    BY Zenon DEF Codes
  <2>3. Len(x) = Len(t)
    BY <1>3
  <2> HIDE DEF x, y
  <2>4. Len(x \o y) = Len(x) + Len(y)
    BY <2>1, <2>2, ConcatProperties
  <2>5. Append(t, c) \in Seq(C) /\ Len(Append(t, c)) = Len(t) + 1
    BY AppendProperties
  <2>6. Len(x \o y) = Len(Append(t, c))
    BY <2>2, <2>3, <2>4, <2>5, Zenon
  <2> QED
    BY <2>1, <2>5, <2>6
<1>4. Seq(C) \subseteq T
  <2> HIDE DEF T
  <2> QED
    BY <1>2, <1>3, SequenceInduction
<1> QED
  BY <1>4

\* The characters of one code.
OneCode(text) == Repertoire(text) \ {"euro", "emoji"}

\* They have one code.
LEMMA OneCodeIsNarrow ==
  ASSUME NEW text \in Seq(Signs)
  PROVE  /\ Codes(OneCode(text), CodeOf(text), Alphabet(text))
         /\ \A c \in OneCode(text) : Len(CodeOf(text)[c]) = 1
<1>1. Codes(OneCode(text), CodeOf(text), Alphabet(text))
  <2>1. Codes(Repertoire(text), CodeOf(text), Alphabet(text))
    BY TextIsSpelt, Zenon DEF Spelt
  <2> QED
    BY <2>1, Zenon DEF Codes, OneCode
<1>2. \A p \in Nat : Len(<<p>>) = 1
  OBVIOUS
<1>3. 0 \in Nat /\ 64 \in Nat /\ 101 \in Nat /\ 32 \in Nat /\ 1046 \in Nat
  OBVIOUS
<1>4. CASE IsGSM(text)
  <2>1. Len(Septets["at"]) = 1 /\ Len(Septets["e"]) = 1 /\ Len(Septets["space"]) = 1
    BY <1>2, <1>3, TheCodes
  <2>2. \A c \in OneCode(text) : c \in {"at", "e", "space"}
    BY <1>4 DEF OneCode, Repertoire, Basic
  <2>3. CodeOf(text) = Septets
    BY <1>4, Zenon DEF CodeOf
  <2> QED
    BY <1>1, <2>1, <2>2, <2>3
<1>5. CASE ~IsGSM(text)
  <2>1. Len(Units["at"]) = 1 /\ Len(Units["e"]) = 1 /\ Len(Units["space"]) = 1 /\ Len(Units["cyr"]) = 1
    BY <1>2, <1>3, TheCodes
  <2>2. \A c \in OneCode(text) : c \in {"at", "e", "space", "cyr"}
    BY <1>5 DEF OneCode, Repertoire, Signs
  <2>3. CodeOf(text) = Units
    BY <1>5, Zenon DEF CodeOf
  <2> QED
    BY <1>1, <2>1, <2>2, <2>3
<1> QED
  BY <1>4, <1>5

\* A part of such characters that is not the last counts as full (sms.go:1050).
LEMMA PartsAreFull ==
  ASSUME NEW text \in Seq(Signs), ~Single(text), ~Cut(text), NEW k \in 0 .. Total(text) - 2,
         \A i \in DOMAIN Received(text)[k + 1] : Received(text)[k + 1][i] \notin {"euro", "emoji"}
  PROVE  IsFull(Received(text)[k + 1])
<1> DEFINE code == CodeOf(text)
           c    == CodesOf(text)
           n    == Len(c)
           size == SizeOf(text)
           t    == Total(text)
           s    == Received(text)[k + 1]
           A    == Repertoire(text)
           i    == Before(text, k)
           j    == Before(text, k + 1)
<1>1. /\ n \in Nat /\ size \in Nat /\ size > 0 /\ n > 0 /\ t \in Nat /\ c \in Seq(Alphabet(text))
  BY LongIs
<1>2. k \in 0 .. t - 1 /\ k + 1 \in 0 .. t - 1 /\ k \in Nat /\ (k + 1) - 1 = k
  BY <1>1
<1>3. s = SubSeq(text, i + 1, j) /\ i \in 0 .. Len(text) /\ j \in 0 .. Len(text) /\ i <= j
  BY <1>2, PartsAreReceived, Zenon
<1>4. s = Says(text, k + 1)
  BY <1>2, <1>3, Zenon DEF Says
<1>5. Part(text, k + 1) = Spell(code, s)
  BY <1>2, <1>4, PartsSay, Zenon
<1>6. Len(Part(text, k + 1)) = size
  <2> HIDE DEF c, n, size
  <2>1. /\ \A m \in 0 .. Parts(n, size) - 1 : End(n, size, m) = m * size
    BY <1>1, EndsAre
  <2>2. \A m \in 0 .. Parts(n, size) - 1 : Len(Slice(c, size, m + 1)) = End(n, size, m + 1) - End(n, size, m)
    BY <1>1, SlicesAre DEF n
  <2>3. t = Parts(n, size) /\ Part(text, k + 1) = Slice(c, size, k + 1)
    BY Zenon DEF Total, Part, n, c, size
  <2>4. Len(Part(text, k + 1)) = (k + 1) * size - k * size
    BY <1>2, <2>1, <2>2, <2>3, Zenon
  <2>5. (k + 1) * size = k * size + size /\ k * size \in Nat
    BY <1>1, <1>2, Multiples
  <2> DEFINE x == k * size
             y == (k + 1) * size
  <2>6. Len(Part(text, k + 1)) = y - x /\ y = x + size /\ x \in Nat
    BY <2>4, <2>5, Zenon
  <2> HIDE DEF x, y
  <2> QED
    BY <1>1, <2>6
<1>7. s \in Seq(OneCode(text))
  <2>1. text \in Seq(A)
    BY TextIsSpelt, Zenon DEF Spelt
  <2> HIDE DEF i, j, A
  <2>2. SubSeq(text, i + 1, j) \in Seq(A)
    BY <1>3, <2>1, Beginnings
  <2>3. s \in Seq(A)
    BY <1>3, <2>2, Zenon
  <2>4. \A m \in DOMAIN s : s[m] \notin {"euro", "emoji"}
    OBVIOUS
  <2> HIDE DEF s
  <2>5. DOMAIN s = 1 .. Len(s) /\ Len(s) \in Nat /\ s = [m \in 1 .. Len(s) |-> s[m]]
    BY <2>3, LenProperties
  <2>6. \A m \in 1 .. Len(s) : s[m] \in A
    BY <2>3, ElementOfSeq
  <2>7. \A m \in 1 .. Len(s) : s[m] \in OneCode(text)
    BY <2>4, <2>5, <2>6, Zenon DEF OneCode, A
  <2> QED
    BY <2>5, <2>7, IsSequence
<1> HIDE DEF s
<1>8. Len(Spell(code, s)) = Len(s)
  <2>1. Codes(OneCode(text), code, Alphabet(text)) /\ \A d \in OneCode(text) : Len(code[d]) = 1
    BY OneCodeIsNarrow
  <2> HIDE DEF code
  <2>2. \A u \in Seq(OneCode(text)) : Len(Spell(code, u)) = Len(u)
    BY <2>1, SpellNarrow
  <2> QED
    BY <1>7, <2>2, Zenon
<1>9. Len(s) \in {MaxPart7, MaxPart16}
  BY <1>5, <1>6, <1>8, Zenon DEF SizeOf
<1> QED
  BY <1>9, Zenon DEF IsFull, s

\* A message of these fields.
Fielded(i, s, d, c, u, n) == [index |-> i, sender |-> s, date |-> d, content |-> c, unread |-> u, indices |-> n]

\* Its fields.
LEMMA FieldsAre ==
  ASSUME NEW i, NEW s, NEW d, NEW c, NEW u, NEW n
  PROVE  /\ Fielded(i, s, d, c, u, n).index = i /\ Fielded(i, s, d, c, u, n).sender = s
         /\ Fielded(i, s, d, c, u, n).date = d /\ Fielded(i, s, d, c, u, n).content = c
         /\ Fielded(i, s, d, c, u, n).indices = n
BY DEF Fielded

\* Whether it was read.
LEMMA UnreadIs ==
  ASSUME NEW i, NEW s, NEW d, NEW c, NEW u, NEW n
  PROVE  Fielded(i, s, d, c, u, n).unread = u
BY DEF Fielded

\* What becomes of them.
LEMMA IndicesChange ==
  ASSUME NEW i, NEW s, NEW d, NEW c, NEW u, NEW n, NEW y
  PROVE  [Fielded(i, s, d, c, u, n) EXCEPT !.indices = y] = Fielded(i, s, d, c, u, y)
BY DEF Fielded

\* A message that another continues.
Continued(r, x, v, y) == [r EXCEPT !.content = x, !.unread = v, !.indices = y]

\* Its fields.
LEMMA FieldsChange ==
  ASSUME NEW i, NEW s, NEW d, NEW c, NEW u, NEW n, NEW x, NEW v, NEW y
  PROVE  Continued(Fielded(i, s, d, c, u, n), x, v, y) = Fielded(i, s, d, x, v, y)
<1>1. [Fielded(i, s, d, c, u, n) EXCEPT !.content = x] = Fielded(i, s, d, x, u, n)
  BY DEF Fielded
<1>2. [Fielded(i, s, d, x, u, n) EXCEPT !.unread = v] = Fielded(i, s, d, x, v, n)
  BY DEF Fielded
<1>3. [Fielded(i, s, d, c, u, n) EXCEPT !.content = x, !.unread = v, !.indices = y]
        = [[[Fielded(i, s, d, c, u, n) EXCEPT !.content = x] EXCEPT !.unread = v] EXCEPT !.indices = y]
  OBVIOUS
<1>4. [Fielded(i, s, d, x, v, n) EXCEPT !.indices = y] = Fielded(i, s, d, x, v, y)
  BY IndicesChange
<1> QED
  BY <1>1, <1>2, <1>3, <1>4, Zenon DEF Continued

\* The first k parts, put together.
Gathered(p, start, k) ==
  [index |-> 1, sender |-> "b", date |-> start, content |-> FlattenSeq(SubSeq(p, 1, k)),
   unread |-> FALSE, indices |-> [i \in 1 .. k |-> i]]

\* One part alone.
LEMMA GatheredOne ==
  ASSUME NEW S, NEW p \in Seq(Seq(S)), Len(p) >= 1, NEW start \in Int, NEW gap \in Nat
  PROVE  Group(Message(1, "b", start + gap * (1 - 1), p[1])) = Gathered(p, start, 1)
<1> DEFINE m == Message(1, "b", start + gap * (1 - 1), p[1])
<1>1. FlattenSeq(SubSeq(p, 1, 1)) = p[1]
  <2>1. 0 \in 0 .. Len(p) - 1 /\ 0 + 1 = 1 /\ Len(p) \in Nat
    BY LenProperties
  <2>2. SubSeq(p, 1, 1) = Append(<<>>, p[1]) /\ p[1] \in Seq(S)
    BY <2>1, Beginnings
  <2>3. <<>> \in Seq(Seq(S))
    OBVIOUS
  <2>4. \A x \in Seq(S) : FlattenSeq(Append(<<>>, x)) = FlattenSeq(<<>>) \o x
    BY <2>3, FlattenAppend
  <2>5. \A x \in Seq(S) : <<>> \o x = x
    OBVIOUS
  <2> QED
    BY <2>2, <2>4, <2>5, FlattenEmpty, Zenon
<1>2. start + gap * (1 - 1) = start
  OBVIOUS
<1>3. [i \in 1 .. 1 |-> i] = <<1>>
  OBVIOUS
<1> DEFINE no == FALSE
<1>4. m = Fielded(1, "b", start, p[1], no, <<>>)
  BY <1>2, Zenon DEF Message, Fielded
<1> HIDE DEF m, no
<1>5. m.index = 1
  BY <1>4, FieldsAre
<1>6. [m EXCEPT !.indices = <<1>>] = Fielded(1, "b", start, p[1], no, <<1>>)
  <2>1. [Fielded(1, "b", start, p[1], no, <<>>) EXCEPT !.indices = <<1>>] = Fielded(1, "b", start, p[1], no, <<1>>)
    BY IndicesChange
  <2> QED
    BY <1>4, <2>1, Zenon
<1>7. Group(m) = Fielded(1, "b", start, p[1], no, <<1>>)
  BY <1>5, <1>6, Zenon DEF Group
<1> QED
  BY <1>1, <1>3, <1>7, Zenon DEF Gathered, Fielded, m, no

\* One part more.
LEMMA GatheredNext ==
  ASSUME NEW S, NEW p \in Seq(Seq(S)), NEW start, NEW k \in 1 .. Len(p) - 1, NEW date
  PROVE  Joined(Gathered(p, start, k), Message(k + 1, "b", date, p[k + 1])) = Gathered(p, start, k + 1)
<1> DEFINE g == Gathered(p, start, k)
           m == Message(k + 1, "b", date, p[k + 1])
           a == FlattenSeq(SubSeq(p, 1, k))
           b == [i \in 1 .. k |-> i]
<1>0. k \in 0 .. Len(p) - 1 /\ k \in 0 .. Len(p) /\ k \in Nat
  BY LenProperties
<1>1. FlattenSeq(SubSeq(p, 1, k + 1)) = a \o p[k + 1]
  <2>1. SubSeq(p, 1, k + 1) = Append(SubSeq(p, 1, k), p[k + 1]) /\ p[k + 1] \in Seq(S) /\ SubSeq(p, 1, k) \in Seq(Seq(S))
    BY <1>0, Beginnings
  <2> DEFINE s == SubSeq(p, 1, k)
             x == p[k + 1]
  <2> HIDE DEF s, x
  <2>2. FlattenSeq(Append(s, x)) = FlattenSeq(s) \o x
    BY <2>1, FlattenAppend DEF s, x
  <2> QED
    BY <2>1, <2>2, Zenon DEF s, x
<1>2. Append(b, k + 1) = [i \in 1 .. k + 1 |-> i]
  BY <1>0
<1> HIDE DEF a, b
<1> DEFINE no == FALSE
<1>3. g = Fielded(1, "b", start, a, no, b)
  BY Zenon DEF Gathered, Fielded, a, b
<1>4. m = Fielded(k + 1, "b", date, p[k + 1], no, <<>>)
  BY Zenon DEF Message, Fielded
<1> HIDE DEF g, m, no
<1>5. m.index = k + 1 /\ m.content = p[k + 1] /\ m.unread = no
  BY <1>4, FieldsAre, UnreadIs
<1>6. g.content = a /\ g.indices = b /\ g.unread = no
  BY <1>3, FieldsAre, UnreadIs
<1>7. (g.unread \/ m.unread) = no
  BY <1>5, <1>6 DEF no
<1>8. Joined(g, m) = [g EXCEPT !.content = g.content \o m.content, !.unread = g.unread \/ m.unread,
                               !.indices = Append(g.indices, m.index)]
  BY Zenon DEF Joined
<1>9. Joined(g, m) = [g EXCEPT !.content = a \o p[k + 1], !.unread = no, !.indices = Append(b, k + 1)]
  BY <1>5, <1>6, <1>7, <1>8, Zenon
<1>10. Joined(g, m) = Fielded(1, "b", start, a \o p[k + 1], no, Append(b, k + 1))
  <2> DEFINE x == a \o p[k + 1]
             y == Append(b, k + 1)
  <2> HIDE DEF x, y
  <2>1. Continued(Fielded(1, "b", start, a, no, b), x, no, y) = Fielded(1, "b", start, x, no, y)
    BY FieldsChange
  <2> QED
    BY <1>3, <1>9, <2>1, Zenon DEF x, y, Continued
<1> QED
  BY <1>1, <1>2, <1>10, Zenon DEF Gathered, Fielded, g, m, no

\* The fields of the messages.
LEMMA MessageIs ==
  ASSUME NEW k, NEW from, NEW date, NEW content
  PROVE  /\ Message(k, from, date, content).sender = from /\ Message(k, from, date, content).date = date
         /\ Message(k, from, date, content).content = content
BY DEF Message

\* The fields of the parts that are gathered.
LEMMA GatheredIs ==
  ASSUME NEW p, NEW start, NEW k
  PROVE  /\ Gathered(p, start, k).index = 1 /\ Gathered(p, start, k).sender = "b" /\ Gathered(p, start, k).date = start
         /\ Gathered(p, start, k).content = FlattenSeq(SubSeq(p, 1, k)) /\ Gathered(p, start, k).indices = [i \in 1 .. k |-> i]
BY DEF Gathered

\* The same for any of them.
LEMMA GatheredFrom == \A p, start, k : Gathered(p, start, k).sender = "b" /\ Gathered(p, start, k).date = start
BY DEF Gathered

\* A group has the date and the index of its first message.
LEMMA GroupIs ==
  ASSUME NEW k, NEW from, NEW date, NEW content
  PROVE  Group(Message(k, from, date, content)).date = date /\ Group(Message(k, from, date, content)).index = k
<1>1. \A m, y : [m EXCEPT !.indices = y].date = m.date /\ [m EXCEPT !.indices = y].index = m.index
  OBVIOUS
<1>2. Message(k, from, date, content).index = k
  BY DEF Message
<1> QED
  BY <1>1, <1>2, MessageIs DEF Group

\* A group of one.
LEMMA OnlyGroup ==
  ASSUME NEW g
  PROVE  Last(<<g>>) = g /\ Front(<<g>>) = <<>> /\ \A h : Append(<<>>, h) = <<h>> /\ Append(<<g>>, h) = <<g, h>>
<1>1. Len(<<g>>) = 1
  OBVIOUS
<1>2. Last(<<g>>) = g
  BY <1>1 DEF Last
<1>3. Front(<<g>>) = <<>>
  BY <1>1 DEF Front
<1>4. \A h : Append(<<>>, h) = <<h>>
  OBVIOUS
<1>5. ASSUME NEW h
      PROVE  Append(<<g>>, h) = <<g, h>>
  <2>1. g \in {g, h} /\ h \in {g, h}
    OBVIOUS
  <2>2. Append(Append(<<>>, g), h) = <<g, h>>
    BY <2>1, TwoElements
  <2> QED
    BY <1>4, <2>2, Zenon
<1> QED
  BY <1>2, <1>3, <1>4, <1>5, Zenon

\* A message after a group of one.
LEMMA AddIs ==
  ASSUME NEW g, NEW before, NEW m, NEW r, r = [groups |-> <<g>>, before |-> before]
  PROVE  AddMessage(r, m) =
           [groups |-> IF m.sender = g.sender /\ Close(m.date, g.date) /\ IsFull(before)
                       THEN <<Joined(g, m)>> ELSE <<g, Group(m)>>,
            before |-> m.content]
<1>1. r.groups = <<g>> /\ r.before = before
  OBVIOUS
<1>2. AddMessage(r, m) =
        [groups |-> IF m.sender = g.sender /\ Close(m.date, g.date) /\ IsFull(before)
                    THEN Append(<<>>, Joined(g, m)) ELSE Append(<<g>>, Group(m)),
         before |-> m.content]
  BY <1>1, OnlyGroup, Zenon DEF AddMessage
<1>3. Append(<<>>, Joined(g, m)) = <<Joined(g, m)>> /\ Append(<<g>>, Group(m)) = <<g, Group(m)>>
  BY OnlyGroup, Zenon
<1> QED
  BY <1>2, <1>3, Zenon

\* After a full part of the same sender it continues the group.
LEMMA AddSame ==
  ASSUME NEW g, NEW before, NEW m, NEW r, r = [groups |-> <<g>>, before |-> before],
         m.sender = g.sender, Close(m.date, g.date), IsFull(before)
  PROVE  AddMessage(r, m) = [groups |-> <<Joined(g, m)>>, before |-> m.content]
BY AddIs, Zenon

\* One of another sender does not.
LEMMA AddOther ==
  ASSUME NEW g, NEW before, NEW m, NEW r, r = [groups |-> <<g>>, before |-> before], ~(m.sender = g.sender)
  PROVE  AddMessage(r, m) = [groups |-> <<g, Group(m)>>, before |-> m.content]
BY AddIs, Zenon

\* Parts and a neighbour become two messages.
MergesInto(p, start, gap, neighbour, last) ==
  Merge(Append(Stored(p, start, gap), Message(Len(p) + 1, "c", neighbour, last)))
    = <<Gathered(p, start, Len(p)), Group(Message(Len(p) + 1, "c", neighbour, last))>>

\* The parts are close in time, or without a date.
InTime(n, start, gap) == (start \in Nat \/ gap = 0) /\ gap * (n - 1) <= 5

\* Full parts that arrive within five seconds are one message, and the neighbour
\* stays apart.
LEMMA PartsMerge ==
  ASSUME NEW S, NEW p \in Seq(Seq(S)), Len(p) >= 1, NEW start \in Int, NEW gap \in Nat,
         InTime(Len(p), start, gap),
         \A k \in 1 .. Len(p) - 1 : IsFull(p[k]), NEW neighbour, NEW last
  PROVE  MergesInto(p, start, gap, neighbour, last)
<1> DEFINE n  == Len(p)
           nb == Message(n + 1, "c", neighbour, last)
           st == Stored(p, start, gap)
           M  == Append(st, nb)
           c  == Tail(M)
           R(k) == [groups |-> <<Gathered(p, start, k + 1)>>, before |-> p[k + 1]]
           end == [groups |-> <<Gathered(p, start, n), Group(nb)>>, before |-> last]
           t  == [k \in 0 .. n |-> IF k = n THEN end ELSE R(k)]
           base == [groups |-> <<Group(Head(M))>>, before |-> Head(M).content]
           X  == {M[i] : i \in 1 .. n + 1}
<1>1. n \in Nat /\ n >= 1 /\ DOMAIN p = 1 .. n
  BY LenProperties
<1>2. st = [k \in 1 .. n |-> Message(k, "b", start + gap * (k - 1), p[k])]
  BY <1>1, Zenon DEF Stored
<1>3. /\ Len(st) = n /\ \A k \in 1 .. n : st[k] = Message(k, "b", start + gap * (k - 1), p[k])
  <2> HIDE DEF n
  <2>1. Len([k \in 1 .. n |-> Message(k, "b", start + gap * (k - 1), p[k])]) = n
    BY <1>1
  <2>2. \A k \in 1 .. n : st[k] = Message(k, "b", start + gap * (k - 1), p[k])
    BY <1>2, Zenon
  <2> QED
    BY <1>2, <2>1, <2>2, Zenon
<1>4. /\ st \in Seq({st[i] : i \in 1 .. n})
  <2> DEFINE Y == {st[i] : i \in 1 .. n}
  <2>1. \A i \in 1 .. n : st[i] \in Y
    BY Zenon
  <2>2. st = [i \in 1 .. n |-> st[i]]
    BY <1>2, Zenon
  <2> HIDE DEF Y, st, n
  <2> QED
    BY <1>1, <2>1, <2>2, IsSequence DEF Y
<1> HIDE DEF n, st, nb
<1>5. /\ Len(M) = n + 1 /\ M[n + 1] = nb /\ \A i \in 1 .. n : M[i] = st[i]
  <2>1. \A Y : st \in Seq(Y) /\ nb \in Y => Len(M) = Len(st) + 1 /\ M[Len(st) + 1] = nb /\ \A i \in 1 .. Len(st) : M[i] = st[i]
    BY AppendProperties
  <2> DEFINE Y == {st[i] : i \in 1 .. n} \cup {nb}
  <2>2. nb \in Y /\ {st[i] : i \in 1 .. n} \subseteq Y
    BY Zenon
  <2> HIDE DEF Y
  <2>3. st \in Seq(Y)
    BY <1>4, <2>2, SeqMonotonic
  <2> QED
    BY <1>3, <2>1, <2>2, <2>3, Zenon
<1>6. M \in Seq(X) /\ M # <<>>
  <2>1. M \in Seq(UNION {{st[i] : i \in 1 .. n}, {nb}})
    <3> DEFINE Y == UNION {{st[i] : i \in 1 .. n}, {nb}}
    <3>1. nb \in Y /\ {st[i] : i \in 1 .. n} \subseteq Y
      BY Zenon
    <3> HIDE DEF Y
    <3>2. st \in Seq(Y)
      BY <1>4, <3>1, SeqMonotonic
    <3> QED
      BY <3>1, <3>2, AppendProperties DEF Y
  <2>2. M = [i \in 1 .. n + 1 |-> M[i]]
    <3> HIDE DEF M
    <3> QED
      BY <1>5, <2>1, LenProperties
  <2>3. \A i \in 1 .. n + 1 : M[i] \in X
    BY Zenon
  <2>4. n + 1 \in Nat
    BY <1>1
  <2> HIDE DEF M, X
  <2>5. M \in Seq(X)
    BY <2>2, <2>3, <2>4, IsSequence
  <2> QED
    BY <1>1, <1>5, <2>5
<1>7. /\ c \in Seq(X) /\ Len(c) = n /\ \A i \in 1 .. n : c[i] = M[i + 1]
      /\ Head(M) = M[1]
  <2> HIDE DEF M, X
  <2>1. c \in Seq(X) /\ Len(c) = Len(M) - 1 /\ \A i \in 1 .. Len(c) : c[i] = M[i + 1]
    BY <1>6, HeadTailProperties
  <2>2. Head(M) = M[1]
    BY <1>6, HeadTailProperties
  <2>3. Len(c) = n
    BY <1>1, <1>5, <2>1
  <2> QED
    BY <2>1, <2>2, <2>3, Zenon
<1>8. Merge(M) = FoldLeft(AddMessage, base, c).groups
  BY <1>6, Zenon DEF Merge
<1>9. t[0] = base
  <2>1. 0 \in 0 .. n /\ 0 # n /\ 0 + 1 = 1 /\ 1 \in 1 .. n
    BY <1>1
  <2>2. t[0] = [groups |-> <<Gathered(p, start, 1)>>, before |-> p[1]]
    BY <2>1, Zenon
  <2>3. Head(M) = Message(1, "b", start + gap * (1 - 1), p[1])
    BY <1>3, <1>5, <1>7, <2>1, Zenon
  <2>4. Group(Head(M)) = Gathered(p, start, 1)
    BY <1>1, <2>3, GatheredOne DEF n
  <2>5. Head(M).content = p[1]
    BY <2>3, MessageIs
  <2> HIDE DEF t, M
  <2> QED
    BY <2>2, <2>4, <2>5, Zenon
<1>10. ASSUME NEW k \in 0 .. n - 1
       PROVE  t[k + 1] = AddMessage(t[k], c[k + 1])
  <2>1. k \in Nat /\ k \in 0 .. n /\ k + 1 \in 0 .. n /\ k # n /\ k + 1 \in 1 .. n /\ (k + 1) + 1 = k + 2
    BY <1>1
  <2>2. t[k] = [groups |-> <<Gathered(p, start, k + 1)>>, before |-> p[k + 1]]
    BY <2>1, Zenon
  <2>3. c[k + 1] = M[(k + 1) + 1]
    BY <1>7, <2>1, Zenon
  <2>4. CASE k + 1 = n
    <3>1. t[k + 1] = end
      BY <2>1, <2>4, Zenon
    <3>2. c[k + 1] = nb
      BY <1>5, <2>3, <2>4, Zenon
    <3>3. nb.sender = "c" /\ nb.content = last
      BY MessageIs DEF nb
    <3>4. Gathered(p, start, k + 1).sender = "b"
      BY GatheredFrom, Zenon
    <3>5. nb.sender # Gathered(p, start, k + 1).sender
      <4>1. "c" # "b"
        OBVIOUS
      <4> QED
        BY <3>3, <3>4, <4>1, Zenon
    <3> HIDE DEF t, c
    <3>6. AddMessage(t[k], nb) = [groups |-> <<Gathered(p, start, k + 1), Group(nb)>>, before |-> nb.content]
      <4> DEFINE g == Gathered(p, start, k + 1)
                 before == p[k + 1]
      <4>1. t[k] = [groups |-> <<g>>, before |-> before]
        BY <2>2, Zenon
      <4>2. ~(nb.sender = g.sender)
        BY <3>5, Zenon
      <4> HIDE DEF g, before
      <4>3. AddMessage(t[k], nb) = [groups |-> <<g, Group(nb)>>, before |-> nb.content]
        BY <4>1, <4>2, AddOther
      <4> QED
        BY <4>3, Zenon DEF g
    <3> QED
      BY <2>4, <3>1, <3>2, <3>3, <3>6, Zenon
  <2>5. CASE k + 1 # n
    <3> DEFINE m == c[k + 1]
               j == k + 1
    <3>0. j \in 1 .. n - 1 /\ j + 1 \in 1 .. n /\ j \in Nat /\ (j + 1) - 1 = j
      BY <1>1, <2>1, <2>5
    <3>1. t[k + 1] = [groups |-> <<Gathered(p, start, j + 1)>>, before |-> p[j + 1]]
      BY <2>1, <2>5, Zenon
    <3>2. m = Message(j + 1, "b", start + gap * ((j + 1) - 1), p[j + 1])
      BY <1>3, <1>5, <2>3, <3>0, Zenon
    <3> HIDE DEF m, c, t, j
    <3>3. m.sender = "b" /\ m.date = start + gap * ((j + 1) - 1) /\ m.content = p[j + 1]
      <4> DEFINE d == start + gap * ((j + 1) - 1)
                 x == p[j + 1]
                 w == Message(j + 1, "b", d, x)
      <4>1. m = w
        BY <3>2, Zenon
      <4> HIDE DEF d, x
      <4>2. w.sender = "b" /\ w.date = d /\ w.content = x
        BY DEF Message
      <4> HIDE DEF w
      <4>3. m.sender = "b" /\ m.date = d /\ m.content = x
        BY <4>1, <4>2, Zenon
      <4> QED
        BY <4>3, Zenon DEF d, x
    <3>4. Gathered(p, start, j).sender = "b" /\ Gathered(p, start, j).date = start
      BY GatheredFrom, Zenon
    <3>5. Close(m.date, Gathered(p, start, j).date)
      <4>1. \A a, b \in Nat : a <= b => gap * a <= gap * b /\ gap * a \in Nat
        OBVIOUS
      <4> DEFINE e == n - 1
                 x == gap * j
                 y == gap * e
      <4>2. e \in Nat /\ j <= e
        BY <1>1, <3>0
      <4>4. y <= 5
        BY Zenon DEF n, InTime
      <4>7. start \in Nat \/ gap = 0
        BY Zenon DEF InTime
      <4> HIDE DEF e
      <4>3. x <= y /\ x \in Nat /\ y \in Nat
        BY <4>1, <4>2, <3>0
      <4>5. m.date = start + x
        BY <3>0, <3>3
      <4>6. gap = 0 => x = 0
        BY <3>0
      <4> HIDE DEF x, y
      <4> QED
        BY <3>4, <4>3, <4>4, <4>5, <4>6, <4>7 DEF Close
    <3>6. IsFull(p[j])
      BY <3>0 DEF n
    <3>7. t[k] = [groups |-> <<Gathered(p, start, j)>>, before |-> p[j]]
      BY <2>2, Zenon DEF j
    <3>8. m.sender = Gathered(p, start, j).sender
      BY <3>3, <3>4, Zenon
    <3>9. AddMessage(t[k], m) = [groups |-> <<Joined(Gathered(p, start, j), m)>>, before |-> m.content]
      BY <3>5, <3>6, <3>7, <3>8, AddSame, Zenon
    <3>10. Joined(Gathered(p, start, j), m) = Gathered(p, start, j + 1)
      <4>1. j \in 1 .. Len(p) - 1
        BY <3>0 DEF n
      <4> DEFINE d == start + gap * ((j + 1) - 1)
      <4> HIDE DEF d
      <4>2. Joined(Gathered(p, start, j), Message(j + 1, "b", d, p[j + 1])) = Gathered(p, start, j + 1)
        BY <4>1, GatheredNext
      <4> QED
        BY <3>2, <4>2, Zenon DEF d
    <3> QED
      BY <3>1, <3>3, <3>9, <3>10, Zenon DEF m
  <2> QED
    BY <2>4, <2>5
<1>11. t[n] = end
  <2>1. n \in 0 .. n
    BY <1>1
  <2> QED
    BY <2>1, Zenon
<1>12. FoldLeft(AddMessage, base, c) = end
  <2> HIDE DEF base, t, c, end, X
  <2>1. \A k \in 0 .. Len(c) - 1 : t[k + 1] = AddMessage(t[k], c[k + 1])
    BY <1>7, <1>10, Zenon
  <2>2. FoldLeft(AddMessage, base, c) = t[Len(c)]
    BY <1>7, <1>9, <2>1, MergeFollows
  <2> QED
    BY <1>7, <1>11, <2>2, Zenon
<1>13. end.groups = <<Gathered(p, start, n), Group(nb)>>
  OBVIOUS
<1> HIDE DEF end
<1>14. Merge(M) = <<Gathered(p, start, n), Group(nb)>>
  BY <1>8, <1>12, <1>13, Zenon
<1> QED
  BY <1>14, Zenon DEF n, nb, st, MergesInto

\* Before one message there is none, and so behind it.
LEMMA AroundOne ==
  ASSUME NEW a
  PROVE  /\ SubSeq(<<a>>, 1, 2 - 1) = <<a>> /\ SubSeq(<<a>>, 2, Len(<<a>>)) = <<>>
         /\ SubSeq(<<a>>, 1, 1 - 1) = <<>> /\ SubSeq(<<a>>, 1, Len(<<a>>)) = <<a>>
         /\ SubSeq(<<>>, 1, 1 - 1) = <<>> /\ SubSeq(<<>>, 1, Len(<<>>)) = <<>>
<1> DEFINE s == <<a>>
<1>1. s \in Seq({a}) /\ Len(s) = 1 /\ <<>> \in Seq({a}) /\ 2 - 1 = 1 /\ 1 - 1 = 0
  OBVIOUS
<1> HIDE DEF s
<1>2. SubSeq(s, 1, 0) = <<>> /\ SubSeq(s, 1, Len(s)) = s
  BY <1>1, Beginnings
<1>3. SubSeq(<<>>, 1, 0) = <<>> /\ SubSeq(<<>>, 1, Len(<<>>)) = <<>>
  BY <1>1, Beginnings
<1>4. SubSeq(s, 2, Len(s)) = <<>>
  BY <1>1, SubSeqEmpty
<1> QED
  BY <1>1, <1>2, <1>3, <1>4, Zenon DEF s

\* A message before one, or after one.
LEMMA InsertOne ==
  ASSUME NEW a, NEW b
  PROVE  /\ Insert(<<>>, a) = <<a>>
         /\ Insert(<<a>>, b) = IF Newer(b, a) THEN <<b, a>> ELSE <<a, b>>
<1>0. 0 + 1 = 1 /\ 1 + 1 = 2
  OBVIOUS
<1>a. Cardinality({}) = 0 /\ Cardinality({1}) = 1
  BY FS_EmptySet, FS_Singleton, Zenon
<1>b. \A x : (<<>> \o <<x>>) = <<x>> /\ <<x>> \o <<>> = <<x>>
  OBVIOUS
<1>1. Insert(<<>>, a) = <<a>>
  <2> DEFINE P == {i \in DOMAIN <<>> : ~Newer(a, <<>>[i])}
  <2>1. P = {}
    OBVIOUS
  <2>2. Insert(<<>>, a) = InsertAt(<<>>, Cardinality(P) + 1, a)
    BY Zenon DEF Insert
  <2> HIDE DEF P
  <2>3. Insert(<<>>, a) = InsertAt(<<>>, 1, a)
    BY <1>0, <1>a, <2>1, <2>2, Zenon
  <2> QED
    BY <1>b, <2>3, AroundOne, Zenon DEF InsertAt
<1>2. Insert(<<a>>, b) = IF Newer(b, a) THEN <<b, a>> ELSE <<a, b>>
  <2> DEFINE P == {i \in DOMAIN <<a>> : ~Newer(b, <<a>>[i])}
  <2>0. Insert(<<a>>, b) = InsertAt(<<a>>, Cardinality(P) + 1, b)
    BY Zenon DEF Insert
  <2>1. CASE ~Newer(b, a)
    <3>1. P = {1}
      BY <2>1
    <3> HIDE DEF P
    <3>2. Insert(<<a>>, b) = InsertAt(<<a>>, 2, b)
      BY <1>0, <1>a, <2>0, <3>1, Zenon
    <3>3. <<a>> \o <<b>> = <<a, b>> /\ <<a, b>> \o <<>> = <<a, b>>
      <4>1. a \in {a, b} /\ b \in {a, b}
        OBVIOUS
      <4>2. <<a>> \o <<b>> = <<a, b>>
        BY <4>1, TwoElements
      <4>3. <<a, b>> \o <<>> = <<a, b>>
        <5> DEFINE w == <<a, b>>
        <5>1. w \in Seq({a, b})
          OBVIOUS
        <5> HIDE DEF w
        <5>2. w \o <<>> = w
          BY <5>1
        <5> QED
          BY <5>2 DEF w
      <4> QED
        BY <4>2, <4>3, Zenon
    <3>4. InsertAt(<<a>>, 2, b) = <<a, b>>
      BY <3>3, AroundOne, Zenon DEF InsertAt
    <3> QED
      BY <2>1, <3>2, <3>4, Zenon
  <2>2. CASE Newer(b, a)
    <3>1. P = {}
      BY <2>2
    <3> HIDE DEF P
    <3>2. Insert(<<a>>, b) = InsertAt(<<a>>, 1, b)
      BY <1>0, <1>a, <2>0, <3>1, Zenon
    <3>3. <<b>> \o <<a>> = <<b, a>>
      <4>1. a \in {a, b} /\ b \in {a, b}
        OBVIOUS
      <4> QED
        BY <4>1, TwoElements
    <3>4. InsertAt(<<a>>, 1, b) = <<b, a>>
      BY <1>b, <3>3, AroundOne, Zenon DEF InsertAt
    <3> QED
      BY <2>2, <3>2, <3>4, Zenon
  <2> QED
    BY <2>1, <2>2
<1> QED
  BY <1>1, <1>2, Zenon

\* Two messages, newest first.
LEMMA TwoSorted ==
  ASSUME NEW a, NEW b
  PROVE  NewestFirst(<<a, b>>) = IF Newer(b, a) THEN <<b, a>> ELSE <<a, b>>
<1> DEFINE c == <<a, b>>
           end == IF Newer(b, a) THEN <<b, a>> ELSE <<a, b>>
           t == [k \in 0 .. 2 |-> IF k = 0 THEN <<>> ELSE IF k = 1 THEN <<a>> ELSE end]
           base == <<>>
<1>1. c \in Seq({a, b}) /\ Len(c) = 2 /\ c[1] = a /\ c[2] = b
  OBVIOUS
<1>2. t[0] = base /\ t[1] = <<a>> /\ t[2] = end
  <2>1. 0 \in 0 .. 2 /\ 1 \in 0 .. 2 /\ 2 \in 0 .. 2 /\ 1 # 0 /\ 2 # 0 /\ 2 # 1
    OBVIOUS
  <2> QED
    BY <2>1, Zenon
<1>3. Insert(base, a) = <<a>> /\ Insert(<<a>>, b) = end
  BY InsertOne
<1> HIDE DEF c, t, end, base
<1>4. \A k \in 0 .. Len(c) - 1 : t[k + 1] = Insert(t[k], c[k + 1])
  <2>1. \A k \in 0 .. Len(c) - 1 : k = 0 \/ k = 1
    BY <1>1
  <2>2. 0 + 1 = 1 /\ 1 + 1 = 2
    OBVIOUS
  <2> QED
    BY <1>1, <1>2, <1>3, <2>1, <2>2, Zenon
<1>5. FoldLeft(Insert, base, c) = t[Len(c)]
  BY <1>1, <1>2, <1>4, SortFollows
<1> QED
  BY <1>1, <1>2, <1>5, Zenon DEF NewestFirst, c, end, base

\* A long message whose parts arrive within five seconds, or have no date, is one
\* message of the list, whatever it says, how many parts it has and when its neighbour arrived,
\* if a part that is not the last is full of characters (sms.go:95, 1050).
THEOREM LongMessagesAreListedOnce ==
  ASSUME NEW text \in Seq(Signs), NEW start \in Int, NEW gap \in Nat, NEW neighbour \in Int
  PROVE  ListedOnce(text, start, gap, neighbour)
<1> DEFINE p  == Received(text)
           n  == Len(p)
           nb == Message(n + 1, "c", neighbour, <<"e">>)
           M  == Append(Stored(p, start, gap), nb)
           wide == \E k \in 1 .. n - 1 : \E i \in DOMAIN p[k] : p[k][i] \in {"euro", "emoji"}
           listed == List(M)
<1> SUFFICES ASSUME ~wide, ~Cut(text), start \in Nat \/ gap = 0, gap * (n - 1) <= 5
             PROVE  /\ Len(listed) = 2
                    /\ \E i \in 1 .. 2 : listed[i].content = text /\ listed[i].indices = [k \in 1 .. n |-> k]
                    /\ ~Newer(listed[2], listed[1])
  BY Zenon DEF ListedOnce, Shows
<1>1. p \in Seq(Seq(Signs)) /\ n \in Nat /\ n >= 1
  <2>1. CASE Single(text)
    <3>1. p = <<text>>
      BY <2>1, OneReceived
    <3> HIDE DEF p
    <3> QED
      BY <3>1
  <2>2. CASE ~Single(text)
    <3>1. p \in Seq(Seq(Signs)) /\ n = Total(text)
      BY <2>2, PartsAreReceived
    <3>2. Total(text) \in Nat /\ Total(text) > 1
      BY <2>2, LongIs
    <3> HIDE DEF p
    <3> QED
      BY <3>1, <3>2
  <2> QED
    BY <2>1, <2>2
<1>2. \A k \in 1 .. n - 1 : IsFull(p[k])
  <2>1. CASE Single(text)
    <3>1. p = <<text>>
      BY <2>1, OneReceived
    <3> HIDE DEF p
    <3>2. n = 1
      BY <3>1
    <3> QED
      BY <3>2
  <2>2. CASE ~Single(text)
    <3> SUFFICES ASSUME NEW k \in 1 .. n - 1
                 PROVE  IsFull(p[k])
      OBVIOUS
    <3>1. n = Total(text)
      BY <2>2, PartsAreReceived
    <3>2. \A i \in DOMAIN p[k] : p[k][i] \notin {"euro", "emoji"}
      BY Zenon
    <3> DEFINE j == k - 1
    <3>3. j \in 0 .. Total(text) - 2 /\ j + 1 = k
      <4>1. \A m \in Nat : \A a \in 1 .. m - 1 : a - 1 \in 0 .. m - 2 /\ (a - 1) + 1 = a
        OBVIOUS
      <4>2. n \in Nat
        BY <1>1
      <4> QED
        BY <3>1, <4>1, <4>2, Zenon
    <3> HIDE DEF j
    <3>4. \A i \in DOMAIN Received(text)[j + 1] : Received(text)[j + 1][i] \notin {"euro", "emoji"}
      BY <3>2, <3>3, Zenon
    <3>5. IsFull(Received(text)[j + 1])
      BY <2>2, <3>3, <3>4, PartsAreFull
    <3> QED
      BY <3>3, <3>5, Zenon
  <2> QED
    BY <2>1, <2>2
<1>3. FlattenSeq(p) = text
  BY TextsArrive, Zenon DEF TextArrives
<1>4. SubSeq(p, 1, n) = p
  BY <1>1, Beginnings
<1> HIDE DEF p, wide
<1> DEFINE a == Gathered(p, start, n)
           b == Group(nb)
<1>5. Merge(M) = <<a, b>>
  <2>1. MergesInto(p, start, gap, neighbour, <<"e">>)
    BY <1>1, <1>2, PartsMerge DEF InTime
  <2> QED
    BY <2>1, Zenon DEF MergesInto
<1>6. a.index = 1 /\ a.date = start /\ a.content = FlattenSeq(SubSeq(p, 1, n)) /\ a.indices = [k \in 1 .. n |-> k]
  BY GatheredIs
<1>7. b.date = neighbour /\ b.index = n + 1
  BY GroupIs
<1> HIDE DEF a, b, M, n
<1>8. a.content = text
  BY <1>3, <1>4, <1>6, Zenon
<1>9. listed = IF Newer(b, a) THEN <<b, a>> ELSE <<a, b>>
  <2>1. NewestFirst(<<a, b>>) = IF Newer(b, a) THEN <<b, a>> ELSE <<a, b>>
    BY TwoSorted
  <2> QED
    BY <1>5, <2>1, Zenon DEF List
<1> HIDE DEF listed
<1>10. CASE ~Newer(b, a)
  <2>1. Len(listed) = 2 /\ listed[1] = a /\ listed[2] = b
    BY <1>9, <1>10
  <2>2. 1 \in 1 .. 2
    OBVIOUS
  <2> QED
    BY <1>6, <1>8, <1>10, <2>1, <2>2, Zenon
<1>11. CASE Newer(b, a)
  <2>1. Len(listed) = 2 /\ listed[1] = b /\ listed[2] = a
    BY <1>9, <1>11
  <2>2. 2 \in 1 .. 2
    OBVIOUS
  <2>3. ~Newer(a, b)
    BY <1>1, <1>6, <1>7, <1>11 DEF Newer
  <2> QED
    BY <1>6, <1>8, <2>1, <2>2, <2>3, Zenon
<1> QED
  BY <1>10, <1>11

\* Every sample of a text is (sms.go:95, 1050).
THEOREM SamplesAreListedOnce == FormatsSpec => []LongMessageIsListedOnce
<1>1. ASSUME FormatsInit
      PROVE  LongMessageIsListedOnce
  BY <1>1 DEF FormatsInit, None, LongMessageIsListedOnce
<1>2. ASSUME LongMessageIsListedOnce, [FormatsNext]_sample
      PROVE  LongMessageIsListedOnce'
  <2>1. CASE LookAtText
    <3>1. PICK s \in UpTo(MaxText, {"at", "euro"}) \cup UpTo(MaxText, {"cyr", "emoji"}) :
            sample' = [kind |-> "text", text |-> s]
      BY <2>1 DEF LookAtText
    <3>2. s \in Seq(Signs)
      BY <3>1, SamplesAreTexts
    <3>3. \A d \in {<<3, 1, -1>>, <<3, 1, 0>>, <<3, 1, 9>>, <<-2, 0, -1>>, <<-2, 0, 9>>} :
            ListedOnce(s, d[1], d[2], d[3])
      <4>1. \A d \in {<<3, 1, -1>>, <<3, 1, 0>>, <<3, 1, 9>>, <<-2, 0, -1>>, <<-2, 0, 9>>} :
              d[1] \in Int /\ d[2] \in Nat /\ d[3] \in Int
        OBVIOUS
      <4>2. \A start \in Int : \A gap \in Nat : \A neighbour \in Int : ListedOnce(s, start, gap, neighbour)
        BY <3>2, LongMessagesAreListedOnce
      <4> QED
        BY <4>1, <4>2, Zenon
    <3>4. sample'.text = s
      BY <3>1
    <3> QED
      BY <3>3, <3>4, Zenon DEF LongMessageIsListedOnce
  <2>2. CASE LookAtStream \/ LookAtFrames \/ LookAtNumber \/ LookAtFormat
    <3>1. sample'.kind \in {"stream", "frames", "number", "format"}
      BY <2>2 DEF LookAtStream, LookAtFrames, LookAtNumber, LookAtFormat
    <3> QED
      BY <3>1 DEF LongMessageIsListedOnce
  <2>3. CASE UNCHANGED sample
    BY <1>2, <2>3 DEF LongMessageIsListedOnce
  <2> QED
    BY <1>2, <2>1, <2>2, <2>3 DEF FormatsNext
<1> QED
  BY <1>1, <1>2, PTL DEF FormatsSpec
=============================================================================
