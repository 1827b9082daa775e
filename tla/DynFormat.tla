----------------------------- MODULE DynFormat -----------------------------
(***************************************************************************)
(* How the description of a subcommand, such as                            *)
(*   "WWAN",(0,1),(1-42),<IP_family>                                       *)
(* becomes a name and a list of arguments: ParseSubcommandFormat           *)
(* (commands/dynamic_config.go), as operators over the characters that it  *)
(* looks at; "a" stands for the others.                                    *)
(***************************************************************************)
EXTENDS Integers, Sequences, FiniteSets, SequencesExt

Quote == "q"    \* the double quote
Chars == {"(", ")", "<", ">", Quote, ",", " ", "a"}

\* strings.TrimSpace
Trim(s) ==
  LET solid == {i \in DOMAIN s : s[i] # " "}
  IN  IF solid = {} THEN <<>>
      ELSE SubSeq(s, CHOOSE i \in solid : \A j \in solid : i <= j,
                     CHOOSE i \in solid : \A j \in solid : i >= j)

\* The loop over the characters after the name keeps the arguments, the one that it is
\* in, how many brackets of either kind are open, and whether a quote is.
Beginning == [args |-> <<>>, arg |-> <<>>, paren |-> 0, angle |-> 0, quoted |-> FALSE]

\* Fault variant: brackets count within quotes too.
ArgumentsByBrackets(rest) ==
  LET Take(r, ch) ==
        LET paren == r.paren + (IF ch = "(" THEN 1 ELSE IF ch = ")" THEN -1 ELSE 0)
            angle == r.angle + (IF ch = "<" THEN 1 ELSE IF ch = ">" THEN -1 ELSE 0)
        IN  IF ch = "," /\ paren = 0 /\ angle = 0 /\ ~r.quoted
            THEN [r EXCEPT !.args = Append(@, Trim(r.arg)), !.arg = <<>>]
            ELSE [args |-> r.args, arg |-> Append(r.arg, ch), paren |-> paren, angle |-> angle,
                  quoted |-> (r.quoted # (ch = Quote))]
      end == FoldLeft(Take, Beginning, rest)
  IN  IF end.arg = <<>> THEN end.args ELSE Append(end.args, Trim(end.arg))

Character(r, ch) ==
  LET Count(open, close) ==
        CASE ch = open /\ ~r.quoted -> 1 [] ch = close /\ ~r.quoted -> -1 [] OTHER -> 0
  IN  IF ch = "," /\ r.paren = 0 /\ r.angle = 0 /\ ~r.quoted
      THEN [r EXCEPT !.args = Append(@, Trim(r.arg)), !.arg = <<>>]
      ELSE [args   |-> r.args,
            arg    |-> Append(r.arg, ch),
            paren  |-> r.paren + Count("(", ")"),
            angle  |-> r.angle + Count("<", ">"),
            quoted |-> (r.quoted # (ch = Quote))]

Arguments(rest) ==
  LET end == FoldLeft(Character, Beginning, rest)
  IN  IF end.arg = <<>> THEN end.args ELSE Append(end.args, Trim(end.arg))

\* The name between the first two quotes, and what follows it and a comma.
ParseSubcommandFormat(line) ==
  LET quotes == {i \in DOMAIN line : line[i] = Quote}
      first  == CHOOSE i \in quotes : \A j \in quotes : i <= j
      second == CHOOSE i \in quotes \ {first} : \A j \in quotes \ {first} : i <= j
      tail   == Trim(SubSeq(line, second + 1, Len(line)))
      rest   == Trim(IF tail # <<>> /\ Head(tail) = "," THEN Tail(tail) ELSE tail)
  IN  IF Cardinality(quotes) < 2 THEN [error |-> TRUE]
      ELSE [error |-> FALSE, name |-> SubSeq(line, first + 1, second - 1), args |-> Arguments(rest)]

-----------------------------------------------------------------------------
(* Properties of a description *)

\* What a comma must be to separate two arguments of s, said without the loop:
\* an even number of quotes before it, and as many closed as open brackets of
\* either kind outside the quotes.
Separates(s, i) ==
  LET Before(ch)  == {j \in 1 .. i - 1 : s[j] = ch}
      Outside(j)  == Cardinality({k \in 1 .. j - 1 : s[k] = Quote}) % 2 = 0
      Balanced(open, close) ==
        Cardinality({j \in Before(open) : Outside(j)}) = Cardinality({j \in Before(close) : Outside(j)})
  IN  s[i] = "," /\ Outside(i) /\ Balanced("(", ")") /\ Balanced("<", ">")

\* The arguments are the stretches between the commas that separate, trimmed, up
\* to an empty one at the end.
ArgumentsAreWhole(rest) ==
  LET trimmed == Trim(rest)
      commas  == {0, Len(trimmed) + 1} \cup {i \in DOMAIN trimmed : Separates(trimmed, i)}
      After(i) == CHOOSE j \in commas : j > i /\ \A k \in commas : k > i => j <= k
      Nth(i)  == Cardinality({k \in commas : k < i}) + 1
      starts  == {i \in commas : i <= Len(trimmed)
                                 /\ (After(i) = Len(trimmed) + 1 => After(i) > i + 1)}
      parsed  == ParseSubcommandFormat(<<Quote, "a", Quote, ",">> \o rest)
  IN  /\ ~parsed.error /\ parsed.name = <<"a">>
      /\ Len(parsed.args) = Cardinality(starts)
      /\ \A i \in starts : parsed.args[Nth(i)] = Trim(SubSeq(trimmed, i + 1, After(i) - 1))
=============================================================================
