------------------------------ MODULE Scatter ------------------------------
(***************************************************************************)
(* The scatter requests of Process (process.cpp): requests are prepared on *)
(* a handle of the VMM library and carried out together.  Process counts   *)
(* the requests of each handle beside the library, and execute_scatter     *)
(* goes by that count.  Calls of one Process come from one thread; the     *)
(* library hands out the value of a closed handle again.                   *)
(***************************************************************************)
EXTENDS Naturals, FiniteSets

CONSTANTS
  ScatterHandles,   \* values of a handle
  MaxRequests       \* bound on the requests prepared

ASSUME ScatterAssumption == MaxRequests \in Nat

VARIABLES
  open_handles,     \* handles that exist in the library
  scatter_counts,   \* the count of each handle; NoCount when the map has no entry
  prepared,         \* library: requests prepared on the handle and not cleared
  done,             \* library: those of them that were carried out
  owed,             \* history: requests added since the last execute_scatter of the handle
  requests, executed

scatter_vars ==
  <<open_handles, scatter_counts, prepared, done, owed, requests, executed>>

NoCount == MaxRequests + 1
NoExecution == [success |-> FALSE, missed |-> {}]
Empty == [h \in ScatterHandles |-> {}]

ScatterInit ==
  /\ open_handles = {}
  /\ scatter_counts = [h \in ScatterHandles |-> NoCount]
  /\ prepared = Empty /\ done = Empty /\ owed = Empty
  /\ requests = 0 /\ executed = NoExecution

-----------------------------------------------------------------------------
create_scatter(h) ==
  /\ h \notin open_handles
  /\ open_handles' = open_handles \cup {h}
  /\ UNCHANGED <<scatter_counts, prepared, done, owed, requests, executed>>

close_scatter(h) ==
  /\ h \in open_handles
  /\ open_handles' = open_handles \ {h}
  /\ scatter_counts' = [scatter_counts EXCEPT ![h] = NoCount]
  /\ prepared' = [prepared EXCEPT ![h] = {}]
  /\ done' = [done EXCEPT ![h] = {}]
  /\ owed' = [owed EXCEPT ![h] = {}]
  /\ UNCHANGED <<requests, executed>>

\* Mutant of Counted: the map makes its entry, and the request is not counted in it.
EntryMade(h) == IF scatter_counts[h] = NoCount THEN 0 ELSE scatter_counts[h] + 1

\* The count, made on the first request.
Counted(h) == IF scatter_counts[h] = NoCount THEN 1 ELSE scatter_counts[h] + 1

\* add_read_scatter, add_write_scatter: nothing happens when the address is not valid or
\* the library refuses.
add_scatter(h) ==
  /\ h \in open_handles /\ requests < MaxRequests
  /\ requests' = requests + 1
  /\ prepared' = [prepared EXCEPT ![h] = @ \cup {requests'}]
  /\ owed' = [owed EXCEPT ![h] = @ \cup {requests'}]
  /\ scatter_counts' = [scatter_counts EXCEPT ![h] = Counted(h)]
  /\ UNCHANGED <<open_handles, done, executed>>

\* Nothing to do when the count is zero.  Otherwise the library carries out what is
\* prepared and clears it; either may fail, and the count is zero in every case.
execute_scatter(h, ran, cleared) ==
  /\ h \in open_handles
  /\ owed' = [owed EXCEPT ![h] = {}]
  /\ IF scatter_counts[h] \in {0, NoCount}
     THEN /\ executed' = [success |-> TRUE, missed |-> owed[h] \ done[h]]
          /\ UNCHANGED <<scatter_counts, prepared, done>>
     ELSE LET carried == IF ran THEN done[h] \cup prepared[h] ELSE done[h] IN
          /\ executed' = [success |-> ran /\ cleared, missed |-> owed[h] \ carried]
          /\ prepared' = IF cleared THEN [prepared EXCEPT ![h] = {}] ELSE prepared
          /\ done' = [done EXCEPT ![h] = IF cleared THEN {} ELSE carried]
          /\ scatter_counts' = [scatter_counts EXCEPT ![h] = 0]
  /\ UNCHANGED <<open_handles, requests>>

ScatterNext ==
  \E h \in ScatterHandles :
    \/ create_scatter(h) \/ close_scatter(h) \/ add_scatter(h)
    \/ \E ran, cleared \in BOOLEAN : execute_scatter(h, ran, cleared)

ScatterSpec == ScatterInit /\ [][ScatterNext]_scatter_vars

-----------------------------------------------------------------------------
\* When execute_scatter answers TRUE, every request that was added to the handle since
\* it was last called has been carried out, after closed and failed handles too.
NothingMissed == executed.success => executed.missed = {}
=============================================================================
