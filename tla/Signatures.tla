----------------------------- MODULE Signatures -----------------------------
(***************************************************************************)
(* DMA::find_signature (dma.cpp), both overloads: a scan of the target's   *)
(* memory chunk by chunk.  A step is one round of the loop.                *)
(*                                                                         *)
(* Unreadable addresses stand for a failed or short VMMDLL_MemReadEx.  A   *)
(* round that reads fewer bytes than the pattern has makes the bound of    *)
(* the text overload's inner loop wrap: it goes on in the bytes an earlier *)
(* round left in the buffer, then past its end, where the process dies or  *)
(* a match is found in bytes that are no part of the target.               *)
(***************************************************************************)
EXTENDS Patterns

CONSTANTS
  Texts,      \* signature texts given to the scan
  Top,        \* the target's addresses are 0 .. Top
  Memories,   \* what they may hold: bytes, or Unreadable
  ChunkSize   \* 4096

Unreadable == -3

ASSUME SignaturesAssumption ==
  /\ Texts \subseteq Text
  /\ Top \in Nat /\ ChunkSize \in Nat \ {0}
  /\ Memories \subseteq [0 .. Top -> 0 .. 255 \cup {Unreadable}]

VARIABLES
  memory,           \* the target; it does not change during a scan
  scan,             \* the arguments: overload, text and its pattern, and range
  buffer,           \* what the rounds have left in the chunk buffer
  current_address, total_scanned, found_address,
  scan_pc           \* "idle", "scan", "done", or how the call ended otherwise

signature_vars == <<memory, scan, buffer, current_address, total_scanned, found_address, scan_pc>>

NoMemory == [a \in 0 .. Top |-> Unreadable]
NoScan == [compiled |-> FALSE, text |-> <<>>, pattern |-> <<>>, start |-> 0, end |-> 0]

SignatureInit ==
  /\ memory = NoMemory
  /\ scan = NoScan
  /\ buffer = <<>>
  /\ current_address = 0
  /\ total_scanned = 0
  /\ found_address = 0
  /\ scan_pc = "idle"

\* The pattern is compiled before the call, or parsed by it; either may throw, as
\* an empty range does.  A vector of ChunkSize zeroes is the buffer.
FindSignature(compiled, text, start, end) ==
  LET pattern == IF compiled THEN compile(text) ELSE parse_signature(text)
      ok == start < end /\ pattern # <<>> IN
  /\ scan_pc = "idle"
  /\ memory' \in Memories
  /\ scan' = [compiled |-> compiled, text |-> text, pattern |-> pattern,
              start |-> start, end |-> end]
  /\ buffer' = [i \in 1 .. ChunkSize |-> 0]
  /\ current_address' = start
  /\ total_scanned' = 0
  /\ found_address' = 0
  /\ scan_pc' = IF ok THEN "scan" ELSE "threw"

\* What a read of n bytes at a delivers.
ReadAt(a, n) ==
  LET upto == CHOOSE k \in 0 .. n :
                /\ \A i \in 0 .. (k - 1) : memory[a + i] # Unreadable
                /\ k = n \/ memory[a + k] = Unreadable IN
  [i \in 1 .. upto |-> memory[a + i - 1]]

\* Offsets the text overload finds in old bytes of the buffer, after a short read.
StaleOffsets(data, bytes, pattern) ==
  Offsets(bytes, pattern) \ (0 .. Len(data))

\* The next round starts where this one ended, or the loop ends.
Advance(next, found) ==
  /\ found_address' = found
  /\ current_address' = IF found # 0 THEN current_address ELSE next
  /\ scan_pc' = IF found # 0 \/ next >= scan.end THEN "done" ELSE "scan"

\* Mutant of ReadSize: the last chunk is not cut at the end of the range.
ReadSizeWhole == IF current_address + ChunkSize <= Top + 1
                   THEN ChunkSize ELSE Top + 1 - current_address

ReadSize == IF ChunkSize < scan.end - current_address
              THEN ChunkSize ELSE scan.end - current_address

ScanRound ==
  LET data == ReadAt(current_address, ReadSize)
      next == current_address + ReadSize
      bytes == [i \in 1 .. ChunkSize |-> IF i \in DOMAIN data THEN data[i] ELSE buffer[i]]
      short == ~scan.compiled /\ data # <<>> /\ Len(data) < Len(scan.pattern)
      stale == StaleOffsets(data, bytes, scan.pattern)
      beyond == (ChunkSize - Len(scan.pattern) + 1) .. ChunkSize IN
  /\ scan_pc = "scan"
  /\ buffer' = bytes
  /\ total_scanned' = total_scanned + Len(data)
  /\ \/ ~short /\ Advance(next, find_in_buffer(data, current_address, scan.pattern))
     \/ short /\ stale # {} /\ Advance(next, current_address + Min(stale))
     \/ short /\ stale = {} /\ \E i \in beyond : Advance(next, current_address + i)
     \/ /\ short /\ stale = {}
        /\ scan_pc' = "died"
        /\ UNCHANGED <<found_address, current_address>>
  /\ UNCHANGED <<memory, scan>>

\* record_scan and the answer; the caller may call again.
ScanReturn ==
  /\ scan_pc \in {"done", "threw"}
  /\ memory' = NoMemory
  /\ scan' = NoScan
  /\ buffer' = <<>>
  /\ current_address' = 0 /\ total_scanned' = 0 /\ found_address' = 0
  /\ scan_pc' = "idle"

SignatureNext ==
  \/ \E compiled \in BOOLEAN, text \in Texts, start, end \in 0 .. (Top + 1) :
       FindSignature(compiled, text, start, end)
  \/ ScanRound
  \/ ScanReturn

-----------------------------------------------------------------------------
\* The last address of the chunk that holds address a.
ChunkEnd(a) == LET k == (a - scan.start) \div ChunkSize IN
  Min({scan.start + (k + 1) * ChunkSize, scan.end}) - 1

\* Addresses where the pattern matches bytes of one chunk that a read delivers.
Matches == {a \in scan.start .. (scan.end - Len(scan.pattern)) :
              /\ a + Len(scan.pattern) - 1 <= ChunkEnd(a)
              /\ \A b \in (scan.start + ((a - scan.start) \div ChunkSize) * ChunkSize)
                          .. (a + Len(scan.pattern) - 1) : memory[b] # Unreadable
              /\ \A j \in DOMAIN scan.pattern :
                   scan.pattern[j] \in {Wildcard, memory[a + j - 1]}}

\* Some round of the scan so far read less than the pattern.
ShortRead == \E k \in 0 .. Top :
  LET a == scan.start + k * ChunkSize IN
  /\ a < scan.end
  /\ Len(ReadAt(a, ChunkEnd(a) + 1 - a)) \in 1 .. (Len(scan.pattern) - 1)

\* A scan that starts above address 0 answers the lowest match inside one chunk, and 0
\* when there is none: a match that spans two chunks is missed, and nothing else is.
\* Of the text overload this is true only while no chunk is shorter than the pattern.
ChunkedSearch ==
  scan_pc = "done" /\ scan.start > 0 /\ (scan.compiled \/ ~ShortRead)
    => found_address = IF Matches = {} THEN 0 ELSE Min(Matches)

\* The three parsers agree on the texts that spell each byte with two digits and each
\* wildcard with two marks; what CompiledPattern accepts parse_signature reads alike.
ParsersAgree ==
  LET text == scan.text IN
  /\ compile(text) # <<>> => parse_signature(text) = compile(text)
  /\ compile(text) # <<>> /\ (\A i \in DOMAIN text : Len(text[i]) = 2)
       => parse_ida_pattern(text) = compile(text)

\* Both: where the scan finds its pattern, and that it is the pattern the text spells.
SignaturesSound == ChunkedSearch /\ ParsersAgree
=============================================================================
