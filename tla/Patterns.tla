------------------------------ MODULE Patterns ------------------------------
(***************************************************************************)
(* The three parsers of signature text and the three matchers:             *)
(* CompiledPattern (compiled_pattern.cpp), parse_signature and             *)
(* match_pattern (dma.cpp), parse_ida_pattern and match_pattern_in_buffer  *)
(* (pattern_scanner_enhanced.cpp).                                         *)
(*                                                                         *)
(* A text is the sequence of its tokens, a token the sequence of its       *)
(* characters: "0" and "1" stand for the hex digits, "g" for what is none. *)
(* A pattern is a sequence of bytes and wildcards; <<>> is a refusal (each *)
(* caller of parse_signature throws when it gets no byte).                 *)
(***************************************************************************)
EXTENDS Integers, Sequences, FiniteSetsExt, SequencesExt

CONSTANT MaxLength  \* the longest pattern CompiledPattern accepts (1024)

ASSUME PatternsAssumption == MaxLength \in Nat

Text == Seq(Seq(STRING))
Wildcard == -1      \* a wildcard, mask 0x00
Invalid == -2       \* a token that is refused

DigitValue == [c \in {"0", "1"} |-> IF c = "1" THEN 1 ELSE 0]
Hex(s) == \A i \in DOMAIN s : s[i] \in DOMAIN DigitValue

\* The byte hex digits are cast to: what the last two of them say.
Value(s) == DigitValue[s[Len(s)]] + IF Len(s) = 1 THEN 0 ELSE 16 * DigitValue[s[Len(s) - 1]]

-----------------------------------------------------------------------------
(* Parsing *)

\* CompiledPattern::parse_token
parse_token(t) ==
  CASE t \in {<<"?">>, <<"?", "?">>} -> Wildcard
    [] Len(t) \in 1 .. 2 /\ Hex(t) -> Value(t)
    [] OTHER -> Invalid

compile(text) ==
  LET pattern == [i \in DOMAIN text |-> parse_token(text[i])] IN
  IF Len(text) > MaxLength \/ \E i \in DOMAIN text : pattern[i] = Invalid
    THEN <<>> ELSE pattern

\* std::stoul(t, nullptr, 16) cast to uint8_t: the digits t begins with.
LeadingByte(t) ==
  LET n == CHOOSE n \in 0 .. Len(t) : /\ \A i \in 1 .. n : t[i] \in DOMAIN DigitValue
                                      /\ n = Len(t) \/ t[n + 1] \notin DOMAIN DigitValue IN
  IF n = 0 THEN Invalid ELSE Value(SubSeq(t, 1, n))

signature_token(t) ==
  IF t \in {<<"?">>, <<"?", "?">>, <<"*">>} THEN Wildcard ELSE LeadingByte(t)

parse_signature(text) ==
  LET pattern == [i \in DOMAIN text |-> signature_token(text[i])] IN
  IF \E i \in DOMAIN text : pattern[i] = Invalid THEN <<>> ELSE pattern

\* Blanks removed, two characters at a time; an odd one at the end is dropped, and
\* what is no number becomes a wildcard.
IdaByte(pair) ==
  IF pair = <<"?", "?">> \/ LeadingByte(pair) = Invalid THEN Wildcard ELSE LeadingByte(pair)

parse_ida_pattern(text) ==
  LET cleaned == FlattenSeq(text) IN
  [i \in 1 .. (Len(cleaned) \div 2) |-> IdaByte(SubSeq(cleaned, (2 * i) - 1, 2 * i))]

-----------------------------------------------------------------------------
(* Matching: data is the sequence of the bytes read, offsets count from 0 *)

MatchAt(data, i, pattern) ==
  \A j \in DOMAIN pattern : pattern[j] = Wildcard \/ data[i + j] = pattern[j]

\* Where the pattern lies entirely inside the data.
Offsets(data, pattern) ==
  {i \in 0 .. (Len(data) - Len(pattern)) : MatchAt(data, i, pattern)}

\* CompiledPattern::find_in_buffer: an address, or 0.
find_in_buffer(data, base, pattern) ==
  LET found == Offsets(data, pattern) IN
  IF data = <<>> \/ pattern = <<>> \/ found = {} THEN 0 ELSE base + Min(found)

\* The numbers of a set from the least to the greatest.
Ascending(S) == CHOOSE s \in [1 .. Cardinality(S) -> S] :
                /\ S = {s[i] : i \in DOMAIN s}
                /\ \A i, j \in DOMAIN s : i < j => s[i] < s[j]

\* EnhancedPatternScanner::match_pattern_in_buffer: the offsets, in order.
match_pattern_in_buffer(data, pattern, first_match_only) ==
  LET found == Ascending(Offsets(data, pattern)) IN
  IF first_match_only /\ found # <<>> THEN <<found[1]>> ELSE found
=============================================================================
