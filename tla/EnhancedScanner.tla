-------------------------- MODULE EnhancedScanner --------------------------
(***************************************************************************)
(* EnhancedPatternScanner (pattern_scanner_enhanced.cpp): the cache of     *)
(* compiled patterns, the scan in overlapping chunks and its statistics.   *)
(* The memory of the target is fixed, and a range reaches to its end; a    *)
(* chunk with an unreadable byte is read up to it, and not at all if it is *)
(* the first.                                                              *)
(*                                                                         *)
(* scan_pattern keys the cache by the text without blanks, a multi-scan by *)
(* the position of the pattern in its list.                                *)
(***************************************************************************)
EXTENDS Patterns

CONSTANTS
  ScanTexts,     \* pattern texts
  ScanMemory,    \* the target: bytes and Hole, the first at address 0
  Starts,        \* the places in it (1 is address 0) where a range begins
  ScanChunk,     \* chunk_size, 1 MB
  ScanSpace,     \* 2^64
  MaxScans,      \* bound on the scans made
  MaxBytes       \* bytes_scanned wraps here, for 2^64

Hole == -4

\* A pattern may be longer than a chunk and than the range; with the memory it is shorter
\* than the address space.
ASSUME EnhancedAssumption ==
  /\ MaxScans \in Nat /\ MaxBytes \in Nat \ {0} /\ ScanChunk \in Nat \ {0}
  /\ ScanMemory \in Seq(0 .. 255 \cup {Hole})
  /\ Starts \subseteq 1 .. Len(ScanMemory)
  /\ ScanTexts \subseteq Text /\ ScanSpace \in Nat
  /\ \A text \in ScanTexts : Len(parse_ida_pattern(text)) + Len(ScanMemory) <= ScanSpace

VARIABLES
  pattern_cache_,  \* keys to patterns
  stats_,          \* total_scans, total_matches, cached_patterns, bytes_scanned
  todo,            \* the patterns this call has still to scan for, the first in work
  texts,           \* history: the texts they were asked as
  start_address,
  position,        \* current_address
  first_only,      \* first_match_only
  multi,           \* the call is scan_multi_patterns
  results,         \* the addresses appended for the pattern in work
  matches,         \* what the patterns before it matched
  scans,           \* history: calls begun
  first_asked      \* history: the texts of the first multi-scan since the cache was empty

enhanced_vars == <<pattern_cache_, stats_, todo, texts, start_address, position, first_only,
                   multi, results, matches, scans, first_asked>>

NoStats == [total_scans |-> 0, total_matches |-> 0, cached_patterns |-> 0, bytes_scanned |-> 0]

EnhancedInit ==
  /\ pattern_cache_ = <<>>
  /\ stats_ = NoStats
  /\ todo = <<>> /\ texts = <<>>
  /\ start_address = 1 /\ position = 1
  /\ first_only = FALSE /\ multi = FALSE
  /\ results = <<>> /\ matches = {}
  /\ scans = 0 /\ first_asked = <<>>

\* generate_cache_key
Key(text) == FlattenSeq(text)
PositionKey(i) == <<"pattern_", i>>

\* A text's key is in upper case.
ASSUME KeysApart == \A text \in ScanTexts, i \in 0 .. 1 : Key(text) # PositionKey(i)

\* The cache after a lookup of key: what it had, or the text compiled.
WithKey(cache, key, text) ==
  IF key \in DOMAIN cache THEN cache
  ELSE [k \in DOMAIN cache \cup {key} |-> IF k = key THEN parse_ida_pattern(text) ELSE cache[k]]

Begin(cache, patterns, asked, start, first_match_only, is_multi) ==
  /\ todo = <<>> /\ scans < MaxScans
  /\ pattern_cache_' = cache
  /\ stats_' = [stats_ EXCEPT !.cached_patterns =
                  IF cache = pattern_cache_ THEN @ ELSE Cardinality(DOMAIN cache)]
  /\ todo' = patterns
  /\ texts' = asked
  /\ start_address' = start /\ position' = start
  /\ first_only' = first_match_only
  /\ multi' = is_multi
  /\ results' = <<>>
  /\ matches' = {}
  /\ scans' = scans + 1
  /\ first_asked' = IF is_multi /\ first_asked = <<>> THEN asked ELSE first_asked

scan_pattern(text, start, first_match_only) ==
  LET cache == WithKey(pattern_cache_, Key(text), text) IN
  Begin(cache, <<cache[Key(text)]>>, <<text>>, start, first_match_only, FALSE)

\* compile_pattern for each of two texts, in their order.
scan_multi_patterns(first, second, start, first_match_only) ==
  LET cache == WithKey(WithKey(pattern_cache_, PositionKey(0), first), PositionKey(1), second) IN
  Begin(cache, <<cache[PositionKey(0)], cache[PositionKey(1)]>>, <<first, second>>,
        start, first_match_only, TRUE)

-----------------------------------------------------------------------------
(* scan_compiled *)

Size == Len(todo[1])

\* What a read of n bytes at position a delivers.
Delivered(a, n) ==
  LET holes == {i \in a .. (a + n - 1) : ScanMemory[i] = Hole} IN
  SubSeq(ScanMemory, a, IF holes = {} THEN a + n - 1 ELSE Min(holes) - 1)

\* Mutant of NextChunk: the chunks do not overlap.
NextChunkApart(a, n) == a + n

\* The place is unsigned: below address 0 it is far behind the range.
NextChunk(a, n) ==
  LET back == a + n - (Size - 1) IN IF back < 1 THEN back + ScanSpace ELSE back

ChunkRound ==
  LET n == Min({ScanChunk, Len(ScanMemory) - position + 1})
      data == Delivered(position, n)
      found == match_pattern_in_buffer(data, todo[1], first_only) IN
  /\ todo # <<>> /\ Size > 0
  /\ position <= Len(ScanMemory)
  /\ ~(first_only /\ results # <<>>)
  /\ stats_' = [stats_ EXCEPT !.bytes_scanned = (@ + Len(data)) % MaxBytes]
  /\ results' = results \o [i \in DOMAIN found |-> position + found[i]]
  /\ position' = IF data = <<>> THEN position + n ELSE NextChunk(position, n)
  /\ UNCHANGED <<pattern_cache_, todo, texts, start_address, first_only, multi, matches, scans,
                 first_asked>>

\* scan_compiled returns: an empty pattern, the end of the range, or the first match.
\* A multi-scan goes on with its next pattern; the call ends after the last, or after
\* the first that matches when one match is enough.  Only scan_pattern counts itself.
EndPattern ==
  LET addresses == {<<results[i], Len(texts) - Len(todo) + 1>> : i \in DOMAIN results}
      all == matches \cup addresses
      last == Len(todo) = 1 \/ (first_only /\ all # {}) IN
  /\ todo # <<>>
  /\ Size = 0 \/ position > Len(ScanMemory) \/ (first_only /\ results # <<>>)
  /\ matches' = all
  /\ todo' = IF last THEN <<>> ELSE Tail(todo)
  /\ position' = start_address
  /\ results' = <<>>
  /\ stats_' = IF multi THEN stats_
               ELSE [stats_ EXCEPT !.total_scans = @ + 1, !.total_matches = @ + Len(results)]
  /\ UNCHANGED <<pattern_cache_, texts, start_address, first_only, multi, scans, first_asked>>

clear_cache ==
  /\ todo = <<>>
  /\ pattern_cache_' = <<>>
  /\ stats_' = [stats_ EXCEPT !.cached_patterns = 0]
  /\ first_asked' = <<>>
  /\ UNCHANGED <<todo, texts, start_address, position, first_only, multi, results, matches,
                 scans>>

reset_stats ==
  /\ todo = <<>>
  /\ stats_' = NoStats
  /\ UNCHANGED <<pattern_cache_, todo, texts, start_address, position, first_only, multi,
                 results, matches, scans, first_asked>>

EnhancedNext ==
  \/ \E start \in Starts, first_match_only \in BOOLEAN :
       \/ \E text \in ScanTexts : scan_pattern(text, start, first_match_only)
       \/ \E first, second \in ScanTexts :
            scan_multi_patterns(first, second, start, first_match_only)
  \/ ChunkRound \/ EndPattern \/ clear_cache \/ reset_stats

EnhancedSpec == EnhancedInit /\ [][EnhancedNext]_enhanced_vars

-----------------------------------------------------------------------------
\* Addresses of the range where a pattern lies in readable memory before address a.
Occurrences(pattern, start, a) ==
  {i \in start .. (a - Len(pattern)) : \A j \in DOMAIN pattern :
     ScanMemory[i + j - 1] # Hole /\ pattern[j] \in {Wildcard, ScanMemory[i + j - 1]}}

Unbroken(start, a) == \A i \in start .. (a - 1) : ScanMemory[i] # Hole

\* However often the place goes back, before the start of the range too: what is reported
\* are occurrences inside the range, none twice and in the order of the addresses; and up
\* to the place the scan has reached all of them, those that span two chunks included, as
\* long as no read failed and the pattern fits into a chunk.
EachOnce ==
  todo # <<>> /\ Size > 0 =>
    LET end == Len(ScanMemory) + 1
        reached == Min({position + Size - 1, end})
        found == {results[i] : i \in DOMAIN results} IN
    /\ \A i, j \in DOMAIN results : i < j => results[i] < results[j]
    /\ found \subseteq Occurrences(todo[1], start_address, end)
    /\ Unbroken(start_address, reached) /\ ~first_only /\ Size <= ScanChunk
         => found = Occurrences(todo[1], start_address, reached)

\* Single scans and multi-scans share the cache, and no key of one leads to a pattern of
\* the other: a scan works with the pattern it was asked for, a multi-scan with those of
\* the first one since the cache was cleared, whatever was scanned for in between.
PatternAsAsked ==
  todo # <<>> =>
    LET asked == IF multi THEN first_asked ELSE texts
        k == Len(asked) - Len(todo) IN
    \A i \in DOMAIN todo : todo[i] = parse_ida_pattern(asked[k + i])

\* Both: what is reported, and for which pattern.
EnhancedSound == EachOnce /\ PatternAsAsked

-----------------------------------------------------------------------------
(* Documented, and not so *)

\* scan_multi_patterns looks for the "vector of pattern strings" it is given
\* (pattern_scanner_enhanced.hh:126): violated by the second one with other strings.
MultiAsAsked ==
  todo # <<>> => LET k == Len(texts) - Len(todo) IN
    \A i \in DOMAIN todo : todo[i] = parse_ida_pattern(texts[k + i])

EnhancedFairSpec == EnhancedSpec /\ WF_enhanced_vars(ChunkRound \/ EndPattern)

\* Every scan returns a "vector of matches" (pattern_scanner_enhanced.hh:109): violated with a
\* pattern of two bytes or more, since after the last chunk the place goes back by the
\* overlap and stays before the end, unless the read there fails.
ScanReturns == todo # <<>> ~> todo = <<>>
=============================================================================
