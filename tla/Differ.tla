------------------------------- MODULE Differ -------------------------------
(***************************************************************************)
(* MemoryDiffer (differ.cpp) and DMA's delegation to it: two buffers       *)
(* compared by diff_buffers_impl, a region read twice while the target     *)
(* writes it, a value searched, and the statistics of the last call.       *)
(*                                                                         *)
(* A region is read by DMA::batch_read_range, which delivers zeros for a   *)
(* chunk it cannot read; here a region is one chunk of bytes from 0.       *)
(***************************************************************************)
EXTENDS Integers, Sequences, FiniteSets, SequencesExt

CONSTANTS
  DiffConfigs,    \* configurations
  DefaultDiff,    \* the one a differ starts with
  Region,         \* length of the region
  Contents,       \* contents of the region: functions from 0 .. Region - 1 to bytes
  SearchValues,   \* values to search for: sequences of bytes
  FilterLists,    \* lists of addresses to narrow down
  MaxCompares     \* bound on the calls

ASSUME DifferAssumption ==
  /\ Region \in Nat \ {0} /\ MaxCompares \in Nat /\ DefaultDiff \in DiffConfigs
  /\ \A c \in DiffConfigs :
       /\ c.max_results \in Nat \ {0} /\ c.max_change_size \in Nat \ {0}
       /\ c.min_change_size \in Nat /\ c.adjacency_threshold \in Nat
       /\ c.group_adjacent \in BOOLEAN

VARIABLES
  diff_config,   \* config_
  content,       \* the region of the target
  before, after, \* buffer1 and buffer2
  phase,         \* "idle", "waiting" between two reads, "diffing" or "counting"
  diff_base,     \* start_address
  place,         \* i: the bytes before it are compared
  diffs,         \* the differences found: <<first, length>>
  found,         \* addresses found, by the calls that return addresses
  diff_stats,    \* total_bytes_compared, total_changes_found, bytes_changed
  compares       \* calls begun

diff_vars == <<diff_config, content, before, after, phase, diff_base, place, diffs, found,
               diff_stats, compares>>

Blank == [i \in 0 .. Region - 1 |-> 0]

DifferInit ==
  /\ diff_config = DefaultDiff
  /\ content = Blank /\ before = Blank /\ after = Blank
  /\ phase = "idle"
  /\ diff_base = 0
  /\ place = 0
  /\ diffs = <<>> /\ found = <<>>
  /\ diff_stats = [compared |-> 0, changes |-> 0, bytes_changed |-> 0]
  /\ compares = 0

Begins ==
  /\ phase = "idle" /\ compares < MaxCompares
  /\ compares' = compares + 1
  /\ place' = 0 /\ diffs' = <<>> /\ found' = <<>>

Changed(i) == before[i] # after[i]

-----------------------------------------------------------------------------
(* diff_buffers_impl *)

\* A difference goes on at the byte i: it is changed, or the next change is near.
GoesOn(i) ==
  \/ Changed(i)
  \/ /\ diff_config.group_adjacent
     /\ \E j \in i + 1 .. Region - 1 : j - i <= diff_config.adjacency_threshold /\ Changed(j)

\* Mutant of Extent: a difference as long as it may be takes one change more.
ExtentOneMore(s) ==
  Min({e \in s + 1 .. Region :
         /\ Changed(e - 1)
         /\ e = Region \/ e - s > diff_config.max_change_size \/ ~GoesOn(e)})

\* Where the difference that starts at s ends: after the first changed byte with which it
\* is as long as it may be, or behind which it does not go on.
Extent(s) ==
  Min({e \in s + 1 .. Region :
         /\ Changed(e - 1)
         /\ e = Region \/ e - s >= diff_config.max_change_size \/ ~GoesOn(e)})

\* One round: the next difference is reported if its length is within the limits; one that
\* a bridged gap has made too long is not.
NextDifference ==
  LET start == Min({i \in place .. Region - 1 : Changed(i)})
      size == Extent(start) - start
      reported == size >= diff_config.min_change_size /\ size <= diff_config.max_change_size IN
  /\ phase = "diffing"
  /\ Len(diffs) < diff_config.max_results
  /\ \E i \in place .. Region - 1 : Changed(i)
  /\ place' = Extent(start)
  /\ diffs' = IF reported THEN Append(diffs, <<start, size>>) ELSE diffs
  /\ diff_stats' = [diff_stats EXCEPT !.bytes_changed = IF reported THEN @ + size ELSE @]
  /\ UNCHANGED <<diff_config, content, before, after, phase, diff_base, found, compares>>

EndDiff ==
  /\ phase = "diffing"
  /\ Len(diffs) >= diff_config.max_results \/ \A i \in place .. Region - 1 : ~Changed(i)
  /\ phase' = "idle"
  /\ diff_stats' = [diff_stats EXCEPT !.changes = Len(diffs)]
  /\ UNCHANGED <<diff_config, content, before, after, diff_base, place, diffs, found, compares>>

\* compare_buffers, of a caller's buffers or the bytes of two files: as many bytes as the
\* shorter one has.
compare_buffers(buffer1, buffer2) ==
  /\ Begins
  /\ before' = buffer1 /\ after' = buffer2
  /\ phase' = "diffing"
  /\ diff_base' = 0
  /\ diff_stats' = [diff_stats EXCEPT !.compared = Region]
  /\ UNCHANGED <<diff_config, content>>

\* A snapshot that cannot be opened, a range that is empty or above 100 MB, a process that
\* cannot be read: no answer, and nothing is counted.
NoComparison ==
  /\ Begins
  /\ UNCHANGED <<diff_config, content, before, after, phase, diff_base, diff_stats>>

-----------------------------------------------------------------------------
(* find_changed_addresses, compare_regions and find_value *)

\* The first read of the region.
BeginLive(base) ==
  /\ Begins
  /\ before' = content \/ before' = Blank
  /\ phase' = "waiting"
  /\ diff_base' = base
  /\ UNCHANGED <<diff_config, content, after, diff_stats>>

\* The interval is over: the second read.
SecondRead(detailed) ==
  /\ phase = "waiting"
  /\ after' = content \/ after' = Blank
  /\ phase' = IF detailed THEN "diffing" ELSE "counting"
  /\ diff_stats' = [diff_stats EXCEPT !.compared = Region]
  /\ UNCHANGED <<diff_config, content, before, diff_base, place, diffs, found, compares>>

\* The second read of filter_changed, one for each address: those whose bytes changed.
FilterChanged(addresses) ==
  LET kept(a, now) == \E i \in a .. Region - 1 :
                        i < a + diff_config.max_change_size /\ before[i] # now[i] IN
  /\ phase = "waiting" /\ addresses # <<>>
  /\ \E now \in {content, Blank} :
       /\ after' = now
       /\ found' = SelectSeq(addresses, LAMBDA a : kept(a, now))
  /\ diff_stats' = [diff_stats EXCEPT !.compared = Len(addresses) * diff_config.max_change_size,
                                      !.changes = Len(found')]
  /\ phase' = "idle"
  /\ UNCHANGED <<diff_config, content, before, diff_base, place, diffs, compares>>

\* find_changed_addresses counts every changed byte, up to max_results.
CountChanged ==
  LET changed == SetToSortSeq({i \in 0 .. Region - 1 : Changed(i)}, <)
      kept == SubSeq(changed, 1, Min({Len(changed), diff_config.max_results})) IN
  /\ phase = "counting"
  /\ found' = [i \in DOMAIN kept |-> diff_base + kept[i]]
  /\ diff_stats' = [diff_stats EXCEPT !.changes = Len(kept), !.bytes_changed = @ + Len(kept)]
  /\ place' = Region
  /\ phase' = "idle"
  /\ UNCHANGED <<diff_config, content, before, after, diff_base, diffs, compares>>

\* find_value: every place where the value lies, overlapping ones too, up to max_results.
find_value(base, value) ==
  LET lies(now) == SetToSortSeq({i \in 0 .. Region - Len(value) :
                                   \A j \in DOMAIN value : now[i + j - 1] = value[j]}, <)
      kept(now) == SubSeq(lies(now), 1, Min({Len(lies(now)), diff_config.max_results})) IN
  /\ phase = "idle" /\ compares < MaxCompares
  /\ value # <<>> /\ Len(value) <= Region
  /\ compares' = compares + 1
  /\ \E now \in {content, Blank} :
       found' = [i \in DOMAIN kept(now) |-> base + kept(now)[i]]
  /\ diff_stats' = [diff_stats EXCEPT !.compared = Region, !.changes = Len(found')]
  /\ UNCHANGED <<diff_config, content, before, after, phase, diff_base, place, diffs>>

TargetChanges(new_content) ==
  /\ phase = "waiting"
  /\ content' = new_content
  /\ UNCHANGED <<diff_config, before, after, phase, diff_base, place, diffs, found,
                 diff_stats, compares>>

set_diff_config(new_config) ==
  /\ phase = "idle"
  /\ diff_config' = new_config
  /\ place' = 0 /\ diffs' = <<>> /\ found' = <<>>
  /\ UNCHANGED <<content, before, after, phase, diff_base, diff_stats, compares>>

DifferNext ==
  \/ \E buffer \in Contents : compare_buffers(Blank, buffer)
  \/ NoComparison
  \/ NextDifference \/ EndDiff \/ CountChanged
  \/ \E base \in {0, 1} :
       BeginLive(base) \/ \E value \in SearchValues : find_value(base, value)
  \/ \E addresses \in FilterLists : FilterChanged(addresses)
  \/ \E detailed \in BOOLEAN : SecondRead(detailed)
  \/ \E new_content \in Contents : TargetChanges(new_content)
  \/ \E c \in DiffConfigs : set_diff_config(c)

DifferSpec == DifferInit /\ [][DifferNext]_diff_vars

-----------------------------------------------------------------------------
\* The longest gap a difference may bridge.
Gap == IF diff_config.group_adjacent THEN diff_config.adjacency_threshold ELSE 0

Covered(i) == \E k \in DOMAIN diffs : diffs[k][1] <= i /\ i < diffs[k][1] + diffs[k][2]

\* A stretch from s to before e begins and ends with a changed byte and bridges no longer gap
\* than the configuration allows.
Stretch(s, e) ==
  /\ Changed(s) /\ Changed(e - 1)
  /\ \A i \in s .. e - 1 : \E j \in i .. i + Gap : Changed(j)

\* No change is so near behind e that it would be grouped with what ends there.
NoneNear(e) == \A j \in e .. Region - 1 : j - e <= Gap => ~Changed(j)

\* A change so near before s ends a stretch that is as long as a difference may be.
CutBefore(s) ==
  \A j \in 0 .. s - 1 :
    Changed(j) /\ (\A x \in j + 1 .. s - 1 : ~Changed(x)) /\ s - (j + 1) <= Gap =>
      \E r \in 0 .. j : j + 1 - r >= diff_config.max_change_size /\ Stretch(r, j + 1)

\* What is not reported: a whole stretch that is too short, or one that only the gap before its
\* last change has made too long.
LeftOut(s, e) ==
  /\ Stretch(s, e) /\ CutBefore(s)
  /\ \/ /\ e - s < diff_config.min_change_size
        /\ e - s < diff_config.max_change_size => NoneNear(e)
     \/ /\ e - s > diff_config.max_change_size
        /\ \A j \in s + diff_config.max_change_size - 1 .. e - 2 : ~Changed(j)

\* The differences come in order and apart from each other, are stretches within the limits,
\* and are not continued by the next one unless they are as long as they may be.  Every
\* changed byte before the place reached is in one of them or in a stretch left out.
DiffsSound ==
  phase = "diffing" =>
    /\ \A k \in DOMAIN diffs :
         LET first == diffs[k][1]  size == diffs[k][2] IN
         /\ Stretch(first, first + size)
         /\ size \in diff_config.min_change_size .. diff_config.max_change_size
         /\ k < Len(diffs) =>
              /\ first + size <= diffs[k + 1][1]
              /\ size < diff_config.max_change_size => diffs[k + 1][1] - (first + size) > Gap
    /\ \A i \in 0 .. place - 1 : Changed(i) /\ ~Covered(i) =>
         \E s, e \in 0 .. place : s <= i /\ i < e /\ LeftOut(s, e)

\* As the configuration is documented, only changes shorter than min_change_size are ignored.
ChangesReported ==
  phase = "diffing" /\ diff_config.min_change_size <= 1 =>
    \A i \in 0 .. place - 1 : Changed(i) => Covered(i)

\* The bytes counted as changed are never more than the bytes compared.
PercentageBounded == diff_stats.bytes_changed <= diff_stats.compared
=============================================================================
