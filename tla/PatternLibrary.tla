--------------------------- MODULE PatternLibrary ---------------------------
(***************************************************************************)
(* PatternLibrary (pattern_library.cpp): named patterns behind a lock that *)
(* searchers share, with a file they are saved to and loaded from.  Of an  *)
(* entry there is its name and its pattern.                                *)
(*                                                                         *)
(* get_pattern raises two counters under the shared lock: two searchers    *)
(* may load the same value, and then one of the two counts is lost.  The   *)
(* other calls hold the lock alone and are one step.                       *)
(***************************************************************************)
EXTENDS Patterns

CONSTANTS
  Searchers,       \* threads
  LibraryNames,    \* names, of which
  HashNames,       \*   these begin with #, which makes their line a comment,
  BarNames,        \*   and these hold a |: a line that begins with one is read as
  HeadOf, RestOf,  \*   the name up to it, and what follows as the pattern
  LibraryTexts,    \* pattern texts; <<>> stands for one of blanks, << <<>> >> for none
  HandWritten,     \* files not written by save_to_file: sequences of lines
  MAX_PATTERNS,
  MaxLibraryOps, MaxSearches

\* A line of the file: what it begins with, the pattern after it, and whether the five
\* fields that must be there are.
Line == [name : LibraryNames, text : Text, full : BOOLEAN]

ASSUME LibraryAssumption ==
  /\ HashNames \cup BarNames \subseteq LibraryNames
  /\ LibraryTexts \subseteq Text
  /\ HeadOf \in [BarNames -> LibraryNames] /\ RestOf \in [BarNames -> Text]
  /\ HandWritten \subseteq Seq(Line)
  /\ IsFiniteSet(Searchers)
  /\ MAX_PATTERNS \in Nat /\ MaxLibraryOps \in Nat /\ MaxSearches \in Nat

VARIABLES
  patterns,        \* patterns_
  library_stats,   \* stats_
  library_file,    \* the lines of the file
  searching,       \* each searcher: the counter it is about to store, what it loaded
  library_ops,
  searched,        \* history: searches since the counters were cleared
  overlapped,      \* history: two of them ran at the same time
  uncounted,       \* history: entries that failed loads stored since the total was set
  saved,           \* history: what save_to_file found, until the file is written by hand
  restored         \* history: whether the patterns were loaded from that file, no others

library_vars == <<patterns, library_stats, library_file, searching, library_ops, searched,
                  overlapped, uncounted, saved, restored>>

NoLibraryStats == [total_patterns |-> 0, total_searches |-> 0, cache_hits |-> 0]
NotSearching == [counter |-> "none", seen |-> 0, name |-> "none"]
Entry(name, text) == [name |-> name, text |-> text]

LibraryInit ==
  /\ patterns = <<>>
  /\ library_stats = NoLibraryStats
  /\ library_file = <<>>
  /\ searching = [t \in Searchers |-> NotSearching]
  /\ library_ops = 0 /\ searched = 0
  /\ overlapped = FALSE /\ uncounted = 0
  /\ saved = <<>>
  /\ restored = FALSE

\* Mutant of validate_pattern: two characters are enough.
TwoCharacters(text) == \A i \in DOMAIN text : Len(text[i]) = 2 \/ text[i] = <<"?">>

validate_pattern(text) ==
  \A i \in DOMAIN text : text[i] \in {<<"?">>, <<"?", "?">>} \/ (Len(text[i]) = 2 /\ Hex(text[i]))

is_valid(entry) == entry.name # "" /\ validate_pattern(entry.text)

\* The entry that load_from_file makes of a line's fields.
Read(name, text) ==
  IF name \in BarNames THEN Entry(HeadOf[name], RestOf[name]) ELSE Entry(name, text)

-----------------------------------------------------------------------------
(* Under the exclusive lock *)

Exclusive ==
  /\ \A t \in Searchers : searching[t] = NotSearching
  /\ library_ops < MaxLibraryOps /\ library_ops' = library_ops + 1

Counted(new) == [library_stats EXCEPT !.total_patterns = Cardinality(DOMAIN new)]

\* A new name is refused at the limit, and a name that is there replaced.
add_pattern(name, text) ==
  LET new == [n \in DOMAIN patterns \cup {name} |-> IF n = name THEN text ELSE patterns[n]] IN
  /\ Exclusive
  /\ is_valid(Entry(name, text))
  /\ Cardinality(DOMAIN patterns) < MAX_PATTERNS \/ name \in DOMAIN patterns
  /\ patterns' = new /\ library_stats' = Counted(new)
  /\ uncounted' = 0 /\ restored' = FALSE
  /\ UNCHANGED <<library_file, searching, searched, overlapped, saved>>

remove_pattern(name) ==
  LET new == [n \in DOMAIN patterns \ {name} |-> patterns[n]] IN
  /\ Exclusive
  /\ patterns' = new /\ library_stats' = Counted(new)
  /\ uncounted' = 0 /\ restored' = FALSE
  /\ UNCHANGED <<library_file, searching, searched, overlapped, saved>>

clear_library ==
  /\ Exclusive
  /\ patterns' = <<>> /\ library_stats' = NoLibraryStats
  /\ searched' = 0 /\ overlapped' = FALSE /\ uncounted' = 0 /\ restored' = FALSE
  /\ UNCHANGED <<library_file, searching, saved>>

\* The lines that are no comments and that have their fields; the others are skipped.
Lines == {i \in DOMAIN library_file : library_file[i].name \notin HashNames /\ library_file[i].full}

Parsed(i) == Read(library_file[i].name, library_file[i].text)

NamesOf(lines) == {Parsed(i).name : i \in lines}

\* Line i is refused: it is no entry, its name is there already, or the library is full.
Refused(i) ==
  \/ ~is_valid(Parsed(i))
  \/ Parsed(i).name \in DOMAIN patterns \cup NamesOf({j \in Lines : j < i})
  \/ Cardinality(DOMAIN patterns) + Cardinality({j \in Lines : j <= i}) > MAX_PATTERNS

\* The lines before the first that is refused.
Taken == {i \in Lines : \A j \in Lines : j <= i => ~Refused(j)}

\* They are stored, and counted only if none was refused.
load_from_file ==
  LET LineOf(n) == CHOOSE i \in Taken : Parsed(i).name = n
      new == [n \in DOMAIN patterns \cup NamesOf(Taken) |->
                IF n \in NamesOf(Taken) THEN Parsed(LineOf(n)).text ELSE patterns[n]]
      complete == Taken = Lines IN
  /\ Exclusive
  /\ patterns' = new
  /\ library_stats' = IF complete THEN Counted(new) ELSE library_stats
  /\ uncounted' = IF complete THEN 0
                  ELSE uncounted + Cardinality(DOMAIN new) - Cardinality(DOMAIN patterns)
  /\ restored' = (complete /\ patterns = <<>> /\ saved # <<>>)
  /\ UNCHANGED <<library_file, searching, searched, overlapped, saved>>

-----------------------------------------------------------------------------
(* Under the shared lock *)

\* The entries are written in the order of an unordered map.
save_to_file ==
  /\ library_ops < MaxLibraryOps /\ library_ops' = library_ops + 1
  /\ \E order \in SetToSeqs(DOMAIN patterns) :
       library_file' = [i \in DOMAIN order |->
         [name |-> order[i], text |-> patterns[order[i]], full |-> TRUE]]
  /\ saved' = patterns
  /\ restored' = FALSE
  /\ UNCHANGED <<patterns, library_stats, searching, searched, overlapped, uncounted>>

WriteByHand(lines) ==
  /\ library_ops < MaxLibraryOps /\ library_ops' = library_ops + 1
  /\ library_file' = lines
  /\ saved' = <<>> /\ restored' = FALSE
  /\ UNCHANGED <<patterns, library_stats, searching, searched, overlapped, uncounted>>

\* total_searches is loaded,
get_pattern(t, name) ==
  /\ searching[t] = NotSearching /\ searched < MaxSearches
  /\ searching' = [searching EXCEPT ![t] =
       [counter |-> "total_searches", seen |-> library_stats.total_searches, name |-> name]]
  /\ searched' = searched + 1
  /\ overlapped' = (overlapped \/ \E u \in Searchers : searching[u] # NotSearching)
  /\ UNCHANGED <<patterns, library_stats, library_file, library_ops, uncounted, saved, restored>>

\* stored, and the name looked up; the same again for cache_hits when it is there.
StoreCounter(t) ==
  LET s == searching[t]
      hit == s.counter = "total_searches" /\ s.name \in DOMAIN patterns IN
  /\ s.counter \in {"total_searches", "cache_hits"}
  /\ library_stats' = [library_stats EXCEPT ![s.counter] = s.seen + 1]
  /\ searching' = [searching EXCEPT ![t] = IF hit THEN [s EXCEPT !.counter = "found"] ELSE NotSearching]
  /\ UNCHANGED <<patterns, library_file, library_ops, searched, overlapped, uncounted, saved, restored>>

LoadHits(t) ==
  /\ searching[t].counter = "found"
  /\ searching' = [searching EXCEPT ![t].counter = "cache_hits", ![t].seen = library_stats.cache_hits]
  /\ UNCHANGED <<patterns, library_stats, library_file, library_ops, searched, overlapped,
                 uncounted, saved, restored>>

LibraryNext ==
  \/ \E name \in LibraryNames :
       \/ \E text \in LibraryTexts : add_pattern(name, text)
       \/ remove_pattern(name)
       \/ \E t \in Searchers : get_pattern(t, name)
  \/ clear_library \/ load_from_file \/ save_to_file
  \/ \E lines \in HandWritten : WriteByHand(lines)
  \/ \E t \in Searchers : StoreCounter(t) \/ LoadHits(t)

-----------------------------------------------------------------------------
\* However the entries came in, by calls or from a file that was taken in part, they are
\* within the limit, each token is a wildcard or a byte of two digits, and the two parsers
\* that scans use accept and read them alike.
EntriesUsable ==
  /\ Cardinality(DOMAIN patterns) <= MAX_PATTERNS
  /\ \A n \in DOMAIN patterns :
       /\ \A i \in DOMAIN patterns[n] :
            /\ parse_token(patterns[n][i]) # Invalid
            /\ Len(patterns[n][i]) = 2 \/ patterns[n][i] = <<"?">>
       /\ Len(patterns[n]) <= MaxLength => parse_signature(patterns[n]) = compile(patterns[n])

\* total_patterns lags behind the entries by what failed loads have stored; without
\* overlapping searches none is lost from the counters, and with them none is counted twice.
LibraryCounts ==
  /\ library_stats.total_patterns + uncounted = Cardinality(DOMAIN patterns)
  /\ library_stats.cache_hits <= searched /\ library_stats.total_searches <= searched
  /\ ~overlapped /\ (\A t \in Searchers : searching[t] = NotSearching) =>
       library_stats.total_searches = searched

\* Of what was saved, a load brings back exactly what its lines are read as: nothing of the
\* names that begin with #, and of those that hold a | another entry.
ComesBack ==
  restored =>
    LET back == {Read(n, saved[n]) : n \in DOMAIN saved \ HashNames} IN
    /\ DOMAIN patterns = {e.name : e \in back}
    /\ \A e \in back : patterns[e.name] = e.text

\* All three: the entries, the counters and the file.
LibrarySound == EntriesUsable /\ LibraryCounts /\ ComesBack

-----------------------------------------------------------------------------
(* Documented, and not so *)

\* Load patterns from file, what was saved to it (pattern_library.hh:96, :108): violated by
\* names that begin with # or hold a |.
SavedIsLoaded == restored => patterns = saved

\* "Pattern count" (pattern_library.hh:161) and total_patterns are the same: violated by a
\* load that fails after its first entries.
TotalIsSize == library_stats.total_patterns = Cardinality(DOMAIN patterns)
=============================================================================
