------------------------------ MODULE FileSink ------------------------------
(***************************************************************************)
(* FileSink (file_sink.cpp): a log file that is rotated when it is full or *)
(* old.  The mutex makes every call one step.  What goes wrong between the *)
(* system calls of a rotation, and with the program, is part of it: a      *)
(* rename may throw half way, the file may not open, the program may crash *)
(* with lines still in the stream's buffer, and it starts again on the     *)
(* files that are there.                                                   *)
(***************************************************************************)
EXTENDS Naturals, Sequences

CONSTANTS
  Policies,     \* rotation policies in use
  max_size,     \* lines that fill a file
  MaxFiles,     \* values of max_files
  TopFile,      \* the highest number a file may get
  MaxLines,     \* bound on the lines written
  MaxRestarts   \* bound on the restarts

ASSUME SinkAssumption ==
  /\ Policies \subseteq {"NONE", "SIZE", "DAILY", "HOURLY"} /\ max_size \in Nat
  /\ TopFile \in Nat \ {0} /\ MaxFiles \subseteq 0 .. TopFile
  /\ MaxLines \in Nat /\ MaxRestarts \in Nat

VARIABLES
  policy, max_files,   \* as configured
  disk,                \* the files: 0 is the current one, i the one named .i; lines are numbers
  stream,              \* lines still in the buffer of file_
  current_size,        \* current_size_, in lines: the header of a new file counts for none
  opened,              \* file_.is_open()
  due,                 \* whether the hour or the day has passed since the last rotation
  enabled,             \* enabled_
  line,                \* lines that were written to file_
  lost,                \* history: those that a crash took from the buffer
  restarts

sink_vars ==
  <<policy, max_files, disk, stream, current_size, opened, due, enabled, line, lost, restarts>>

Missing == <<0>>
Numbers == 0 .. TopFile

SinkInit ==
  /\ policy \in Policies /\ max_files \in MaxFiles
  /\ disk = [i \in Numbers |-> Missing]
  /\ stream = <<>> /\ current_size = 0
  /\ opened = FALSE
  /\ due = FALSE /\ enabled = TRUE
  /\ line = 0 /\ lost = {} /\ restarts = 0

-----------------------------------------------------------------------------
should_rotate ==
  \/ policy = "SIZE" /\ current_size >= max_size
  \/ policy \in {"DAILY", "HOURLY"} /\ due

\* The buffer is flushed and the file closed.
Closed == IF opened THEN [disk EXCEPT ![0] = @ \o stream] ELSE disk

\* The number of the oldest file after a rotation: 1 also when max_files is 0.
Oldest == IF max_files = 0 THEN 1 ELSE max_files

\* The oldest file is removed, and then the files numbered Oldest - 1 down to `last` get
\* the next number, the file itself being 0.  With max_files 0 nothing is removed, and
\* the file itself, if there is one, takes the place of the one rotated before.
Rotated(last) ==
  IF max_files = 0 /\ (last = 1 \/ disk[0] = Missing) THEN Closed
  ELSE [i \in Numbers |-> CASE i = last -> Missing
                            [] last < i /\ i <= Oldest -> Closed[i - 1]
                            [] OTHER -> Closed[i]]

\* Mutant of open_file: the file is opened to write, which empties it.
open_truncating(d) == [d EXCEPT ![0] = <<>>]

\* The file is opened to append, and made when it is not there.
open_file(d) == IF d[0] = Missing THEN [d EXCEPT ![0] = <<>>] ELSE d

\* A line is put in the stream; the stream writes it out when it likes.
Append1(d, s, size) ==
  /\ line' = line + 1
  /\ current_size' = size + 1
  /\ \/ disk' = d /\ stream' = Append(s, line')
     \/ disk' = [d EXCEPT ![0] = @ \o Append(s, line')] /\ stream' = <<>>

Rest == UNCHANGED <<policy, max_files, enabled, lost, restarts>>

\* A line is refused while the sink is disabled, and dropped when the file does not open.
write(opens) ==
  /\ enabled /\ line < MaxLines
  /\ ~should_rotate
  /\ IF opened THEN Append1(disk, stream, current_size) /\ UNCHANGED opened
     ELSE IF opens THEN LET d == open_file(disk) IN
                        Append1(d, <<>>, Len(d[0])) /\ opened' = TRUE
     ELSE UNCHANGED <<disk, stream, current_size, line, opened>>
  /\ UNCHANGED due /\ Rest

\* perform_rotation in full.  A file that does not open is tried again by the caller.
perform_rotation(opens) ==
  /\ disk' = IF opens THEN open_file(Rotated(0)) ELSE Rotated(0)
  /\ stream' = <<>> /\ current_size' = 0 /\ opened' = opens /\ due' = FALSE

write_rotating(opens) ==
  /\ enabled /\ line < MaxLines
  /\ should_rotate
  /\ IF opens THEN /\ Append1(open_file(Rotated(0)), <<>>, 0)
                   /\ opened' = TRUE /\ due' = FALSE
     ELSE perform_rotation(FALSE) /\ UNCHANGED line
  /\ Rest

\* A rename of a rotation throws, and a line that was to be written is not: the file stays
\* closed, and the size and the time of the last rotation as they were, so the next write
\* tries again.
RotationThrows(last) ==
  /\ last \in 1 .. Oldest
  /\ disk' = Rotated(last)
  /\ stream' = <<>> /\ opened' = FALSE
  /\ UNCHANGED <<current_size, due, line>> /\ Rest

rotate(opens) == perform_rotation(opens) /\ UNCHANGED line /\ Rest

flush ==
  /\ opened /\ stream # <<>>
  /\ disk' = Closed /\ stream' = <<>>
  /\ UNCHANGED <<current_size, opened, due, line>> /\ Rest

set_enabled(e) ==
  /\ enabled' = e
  /\ UNCHANGED <<policy, max_files, disk, stream, current_size, opened, due, line, lost,
                 restarts>>

TimePasses ==
  /\ due' = TRUE
  /\ UNCHANGED <<disk, stream, current_size, opened, line>> /\ Rest

\* The constructor opens the file that an earlier run may have left.
Start(opens) ==
  /\ ~opened /\ line = 0 /\ restarts = 0 /\ disk[0] = Missing
  /\ disk' = IF opens THEN open_file(disk) ELSE disk
  /\ opened' = opens
  /\ UNCHANGED <<stream, current_size, due, line>> /\ Rest

\* The sink is destroyed, which writes the buffer, or the program crashes, which loses
\* it; then it is constructed again.
Restart(crash, opens) ==
  /\ restarts < MaxRestarts /\ restarts' = restarts + 1
  /\ disk' = LET left == IF crash THEN disk ELSE Closed IN
             IF opens THEN open_file(left) ELSE left
  /\ current_size' = IF opens THEN Len(disk'[0]) ELSE 0
  /\ lost' = IF crash THEN lost \cup {stream[i] : i \in DOMAIN stream} ELSE lost
  /\ stream' = <<>> /\ opened' = opens
  /\ due' = FALSE /\ enabled' = TRUE
  /\ UNCHANGED <<policy, max_files, line>>

SinkNext ==
  \/ \E opens \in BOOLEAN :
       \/ Start(opens) \/ write(opens) \/ write_rotating(opens) \/ rotate(opens)
       \/ \E crash \in BOOLEAN : Restart(crash, opens)
  \/ \E last \in Numbers : RotationThrows(last)
  \/ flush \/ TimePasses
  \/ \E e \in BOOLEAN : set_enabled(e)

SinkSpec == SinkInit /\ [][SinkNext]_sink_vars

-----------------------------------------------------------------------------
\* The texts by age: the buffer, the file itself, and then the files in their order.
Ages == 0 .. TopFile + 1
Text(age) ==
  IF age = 0 THEN stream ELSE IF disk[age - 1] = Missing THEN <<>> ELSE disk[age - 1]

\* Read from the highest number down to the file itself and then the buffer, the lines
\* come in the order in which they were written, and only older lines than all of these
\* are gone, but for those that a crash took: through rotations that fail half way, files
\* that do not open, restarts and crashes.
KeptInOrder ==
  LET there == UNION {{Text(i)[x] : x \in DOMAIN Text(i)} : i \in Ages} IN
  /\ \A i, j \in Ages : \A x \in DOMAIN Text(i), y \in DOMAIN Text(j) :
       j < i \/ (j = i /\ x < y) => Text(i)[x] < Text(j)[y]
  /\ \A first \in there : first .. line \subseteq there \cup lost
=============================================================================
