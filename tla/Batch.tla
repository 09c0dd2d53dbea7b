------------------------------- MODULE Batch -------------------------------
(***************************************************************************)
(* BatchOperations (batch.cpp, batch.hh) and DMA's delegation to it: a     *)
(* batch of reads, checked, sorted and served one after the other; the     *)
(* typed and the range form, which build a batch and read its result.      *)
(*                                                                         *)
(* A buffer holds the address its bytes were read from, or Zeros.  All the *)
(* requests of a batch have one size but the last chunk of a range.        *)
(***************************************************************************)
EXTENDS Integers, Sequences, FiniteSets

CONSTANTS
  BatchPids,     \* process ids that callers pass
  RejectedPids,  \* 0 and 4
  RequestLists,  \* sequences of addresses that callers ask for
  RequestSize,   \* sizeof(T) of a typed batch
  RangeEnds,     \* ends of ranges, <<start, end>>
  ChunkSizes,    \* chunk_size, 0 for the default
  DefaultChunk,  \* 4096
  PageSize,      \* 4096
  MaxBatches     \* bound on the batches

ASSUME BatchAssumption ==
  /\ PageSize \in Nat \ {0} /\ DefaultChunk \in Nat \ {0} /\ MaxBatches \in Nat
  /\ RequestLists \subseteq Seq(Nat) /\ RangeEnds \subseteq Nat \X Nat /\ ChunkSizes \subseteq Nat
  /\ RequestSize \in Nat

VARIABLES
  handle_set,     \* whether set_vmm_handle has been called
  stats_enabled,
  batch_stats,    \* the statistics
  form,           \* the call under way: "batch", "typed", "range" or "none"
  asked,          \* its arguments: the requests in the order the caller gave them
  requests,       \* the requests as they are: address, size, slot, success
  served,         \* how many of them are done
  slots,          \* the buffer of each request, in the order the caller gave them
  result,         \* failed_reads, failed_indices
  batches         \* batches begun

batch_vars == <<handle_set, stats_enabled, batch_stats, form, asked, requests, served,
                slots, result, batches>>

Zeros == -1
NoBatchStats == [operations |-> 0, reads |-> 0, successful |-> 0, failed |-> 0,
                 sorted |-> 0, pages |-> 0]
NoResult == [failed_reads |-> 0, failed_indices |-> {}]

BatchInit ==
  /\ handle_set = FALSE
  /\ stats_enabled = TRUE
  /\ batch_stats = NoBatchStats
  /\ form = "none"
  /\ asked = <<>> /\ requests = <<>> /\ slots = <<>>
  /\ served = 0
  /\ result = NoResult
  /\ batches = 0

Request(address, size, slot) ==
  [address |-> address, size |-> size, slot |-> slot, success |-> FALSE]

\* What std::sort may make of the list: it need not keep the order of equal addresses.
sort_by_address(list) ==
  {[i \in DOMAIN list |-> list[order[i]]] :
     order \in {p \in [DOMAIN list -> DOMAIN list] :
                 \A i, j \in DOMAIN list :
                   i < j => p[i] # p[j] /\ list[p[i]].address <= list[p[j]].address}}

\* group_by_page counts the pages of the requests, and regroups nothing.
group_by_page(list) == Cardinality({list[i].address \div PageSize : i \in DOMAIN list})

Nullopt == -2

\* What the caller gets from each form: its requests, served or not; optional values, by
\* the success of the request at that place of the list as it is now; or the chunks of the
\* range, with zeros for those that failed.
Answer(kind, list, buffers) ==
  [i \in DOMAIN list |->
     CASE kind = "typed" -> IF list[i].success THEN buffers[i] ELSE Nullopt
       [] kind = "range" -> IF list[i].success THEN buffers[i] ELSE Zeros
       [] kind = "batch" -> buffers[list[i].slot]]

\* batch_read up to its loop: nothing is asked; the process is rejected and every request
\* has failed; or the requests are sorted, if that is wanted.
batch_read(kind, list, pid, optimize) ==
  /\ form = "none" /\ batches < MaxBatches
  /\ batches' = batches + 1
  /\ asked' = list
  /\ slots' = [i \in DOMAIN list |-> Zeros]
  /\ served' = 0
  /\ IF list = <<>> \/ pid \in RejectedPids
     THEN /\ form' = "none"
          /\ requests' = list
          /\ result' = [failed_reads |-> Len(list), failed_indices |-> DOMAIN list]
          /\ UNCHANGED batch_stats
     ELSE /\ form' = kind
          /\ requests' \in IF optimize THEN sort_by_address(list) ELSE {list}
          /\ result' = NoResult
          /\ batch_stats' = IF optimize /\ stats_enabled
                            THEN [batch_stats EXCEPT !.sorted = @ + 1,
                                                     !.pages = @ + group_by_page(list)]
                            ELSE batch_stats
  /\ UNCHANGED <<handle_set, stats_enabled>>

\* One buffer and one request for each address; the typed form always sorts them.
Singles(addresses) == [i \in DOMAIN addresses |-> Request(addresses[i], RequestSize, i)]

batch_read_typed(addresses, pid) == batch_read("typed", Singles(addresses), pid, TRUE)

\* Mutant of Pieces: the last chunk is as long as the others.
PiecesWhole(start, end, chunk) ==
  [i \in 1 .. ((end - start + chunk - 1) \div chunk) |->
     Request(start + (i - 1) * chunk, chunk, i)]

\* The chunks of a range, the last one as long as what is left.
Pieces(start, end, chunk) ==
  [i \in 1 .. ((end - start + chunk - 1) \div chunk) |->
     LET a == start + (i - 1) * chunk IN
     Request(a, IF a + chunk <= end THEN chunk ELSE end - a, i)]

batch_read_range(start, end, chunk_size, pid) ==
  /\ start < end
  /\ batch_read("range", Pieces(start, end, IF chunk_size = 0 THEN DefaultChunk ELSE chunk_size),
                pid, TRUE)

\* is_safe_range takes the size for the end of the range.
Safe(request) == request.address < request.size

\* One request: the range is checked, then the device reads all of it into its buffer, or
\* fails, as it does without a handle.
ServeRequest ==
  LET i == served + 1 IN
  /\ form # "none" /\ served < Len(requests)
  /\ \E success \in BOOLEAN :
       /\ success => Safe(requests[i]) /\ handle_set
       /\ requests' = [requests EXCEPT ![i].success = success]
       /\ slots' = IF success THEN [slots EXCEPT ![requests[i].slot] = requests[i].address] ELSE slots
       /\ result' = IF success THEN result
                    ELSE [failed_reads |-> result.failed_reads + 1,
                          failed_indices |-> result.failed_indices \cup {i}]
  /\ served' = i
  /\ UNCHANGED <<handle_set, stats_enabled, batch_stats, form, asked, batches>>

\* The batch returns and is counted; one that was empty or rejected is not.
FinishBatch ==
  /\ form # "none" /\ served = Len(requests)
  /\ batch_stats' =
       IF stats_enabled
       THEN [batch_stats EXCEPT !.operations = @ + 1, !.reads = @ + Len(requests),
                                !.successful = @ + Len(requests) - result.failed_reads,
                                !.failed = @ + result.failed_reads]
       ELSE batch_stats
  /\ form' = "none"
  /\ UNCHANGED <<handle_set, stats_enabled, asked, requests, served, slots, result, batches>>

set_vmm_handle ==
  /\ form = "none"
  /\ handle_set' = TRUE
  /\ UNCHANGED <<stats_enabled, batch_stats, form, asked, requests, served, slots,
                 result, batches>>

set_statistics_enabled(enabled) ==
  /\ form = "none"
  /\ stats_enabled' = enabled
  /\ UNCHANGED <<handle_set, batch_stats, form, asked, requests, served, slots,
                 result, batches>>

reset_statistics ==
  /\ form = "none"
  /\ batch_stats' = NoBatchStats
  /\ UNCHANGED <<handle_set, stats_enabled, form, asked, requests, served, slots,
                 result, batches>>

BatchNext ==
  \/ \E pid \in BatchPids :
       \/ \E list \in RequestLists : \/ batch_read_typed(list, pid)
                                     \/ \E optimize \in BOOLEAN :
                                          batch_read("batch", Singles(list), pid, optimize)
       \/ \E ends \in RangeEnds, chunk \in ChunkSizes :
            batch_read_range(ends[1], ends[2], chunk, pid)
  \/ ServeRequest \/ FinishBatch
  \/ set_vmm_handle \/ reset_statistics
  \/ \E enabled \in BOOLEAN : set_statistics_enabled(enabled)

BatchSpec == BatchInit /\ [][BatchNext]_batch_vars

-----------------------------------------------------------------------------
\* The buffers hold what was read for them or zeros, in whatever order the requests were
\* served; the chunks of a range lie end to end from its start to its end, each at most a
\* chunk long; and every request is among the failed ones or was read.
BatchBuffers ==
  /\ \A i \in DOMAIN asked : slots[i] \in {asked[i].address, Zeros}
  /\ Cardinality(result.failed_indices) = result.failed_reads
  /\ \A i \in 1 .. served : (i \in result.failed_indices) = ~requests[i].success
  /\ form = "range" =>
       /\ \A i \in 1 .. Len(asked) - 1 : asked[i + 1].address = asked[i].address + asked[i].size
       /\ \E ends \in RangeEnds :
            asked[1].address = ends[1] /\ asked[Len(asked)].address + asked[Len(asked)].size = ends[2]

\* A place of a typed answer is empty if the read of its address failed, and else holds the
\* value of that address.
TypedAnswer ==
  form = "typed" /\ served = Len(requests) =>
    \A i \in DOMAIN asked : Answer(form, requests, slots)[i] \in {asked[i].address, Nullopt}
=============================================================================
