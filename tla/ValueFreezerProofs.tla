------------------------- MODULE ValueFreezerProofs -------------------------
(***************************************************************************)
(* Proofs about ValueFreezer, for any addresses, values and intervals.     *)
(*                                                                         *)
(* LateWriteOnce is about writes from a copy of the map that users change  *)
(* meanwhile.  NoSecond is what makes it inductive: once an address has    *)
(* had its late write, what the worker still has to write there is wanted. *)
(***************************************************************************)
EXTENDS ValueFreezer, TLAPS, FiniteSetTheorems

Copies == UNION {[D -> Values] : D \in SUBSET Addresses}

WorkerState ==
  [pc : {"top", "copy", "write", "succeeded", "failed", "returned"},
   todo : SUBSET Addresses, copy : Copies, age : Ages]

\* The worker is to write a, in this round, from its copy.
Pending(a) ==
  /\ a \in worker.todo
  /\ \/ worker.pc = "write"
     \/ worker.pc \in {"succeeded", "failed"} /\ \E b \in worker.todo : b < a

NoSecond ==
  \A a \in Addresses :
    /\ late[a] \in 0..1
    /\ late[a] = 1 => /\ Pending(a) => Wanted(a, worker.copy[a])
                      /\ worker.pc = "copy" => ~global_paused_

\* The copy holds a value of every address the round has left.
Copied ==
  /\ worker \in WorkerState
  /\ worker.todo \subseteq DOMAIN worker.copy

FreezerInv == TypeOK /\ Copied /\ NoSecond /\ StatsAgree

\* Ages run up to the longest interval.
LEMMA AgesType ==
  /\ MaxAge \in Nat /\ 0 \in Ages /\ Ages \subseteq Nat
  /\ \A n \in Ages : Older(n) \in Ages
<1>1. MaxAge \in Nat
  BY FreezerAssumption DEF MaxAge
<1> QED BY <1>1 DEF Ages, Older

\* The number of frozen addresses is a number.
LEMMA FrozenFinite ==
  ASSUME NEW F \in SUBSET Addresses
  PROVE  IsFiniteSet(F) /\ Cardinality(F) \in Nat
BY FreezerAssumption, FS_Subset, FS_CardinalityType

\* A freezer just built, its worker at the top of the loop.
LEMMA FreezerInit == Init => FreezerInv
<1> SUFFICES ASSUME Init PROVE FreezerInv
  OBVIOUS
<1> USE FreezerAssumption, AgesType DEF Init
<1>1. Frozen = {} /\ frozen_values_ \in [Frozen -> FrozenValue]
  BY DEF Frozen, NoEntries
<1>2. TypeOK
  BY <1>1 DEF TypeOK
<1>3. Copied
  <2>1. NoEntries \in [{} -> Values]
    BY DEF NoEntries
  <2>2. NoEntries \in Copies
    BY <2>1 DEF Copies
  <2> QED BY <2>2 DEF Copied, WorkerState
<1>4. NoSecond
  BY DEF NoSecond
<1>5. StatsAgree
  BY <1>1, FS_EmptySet DEF StatsAgree
<1> QED BY <1>2, <1>3, <1>4, <1>5 DEF FreezerInv

-----------------------------------------------------------------------------
\* A user changes what is wanted at the addresses A, and nothing elsewhere.
LEMMA CallInv ==
  ASSUME FreezerInv, NEW A \in SUBSET Addresses, Call(A),
         \A a \in Addresses \ A, v \in Values : Wanted(a, v) => Wanted(a, v)',
         A # Addresses => global_paused_' = global_paused_
  PROVE  Copied' /\ NoSecond' /\ late' \in [Addresses -> Nat]
<1> USE DEF FreezerInv
<1>1. /\ worker' = worker
      /\ late' = [a \in Addresses |-> IF a \in A THEN 0 ELSE late[a]]
      /\ worker \in WorkerState /\ worker.todo \subseteq DOMAIN worker.copy
  BY DEF Call, Copied
<1>2. \A a \in worker.todo : a \in Addresses /\ worker.copy[a] \in Values
  <2>1. \A f \in Copies : \A a \in DOMAIN f : f[a] \in Values
    BY DEF Copies
  <2> QED BY <1>1, <2>1 DEF WorkerState
<1>3. late' \in [Addresses -> Nat]
  BY <1>1 DEF TypeOK
<1>4. NoSecond'
  <2> SUFFICES ASSUME NEW a \in Addresses
      PROVE  /\ late'[a] \in 0..1
             /\ late'[a] = 1 => /\ Pending(a)' => Wanted(a, worker.copy[a])'
                                /\ worker'.pc = "copy" => ~global_paused_'
    BY <1>1 DEF NoSecond
  <2>1. CASE a \in A
    BY <1>1, <2>1
  <2>2. CASE a \notin A
    <3>1. late'[a] = late[a] /\ global_paused_' = global_paused_
      BY <1>1, <2>2
    <3>2. Pending(a)' => Pending(a)
      BY <1>1 DEF Pending
    <3>3. Pending(a) => worker.copy[a] \in Values
      BY <1>2 DEF Pending
    <3>4. Pending(a) /\ Wanted(a, worker.copy[a]) => Wanted(a, worker.copy[a])'
      BY <1>1, <2>2, <3>3
    <3> QED BY <1>1, <3>1, <3>2, <3>4 DEF NoSecond
  <2> QED BY <2>1, <2>2
<1> QED BY <1>1, <1>3, <1>4 DEF Copied

\* freeze_value, unfreeze and unfreeze_all: the count follows the map.
LEMMA EntryInv ==
  ASSUME FreezerInv,
         \/ unfreeze_all
         \/ \E a \in Addresses :
              \/ unfreeze(a)
              \/ \E v \in Values, interval \in Intervals : freeze_value(a, v, interval)
  PROVE  FreezerInv'
<1> USE FreezerAssumption, AgesType
<1>0. /\ Frozen \subseteq Addresses /\ frozen_values_ \in [Frozen -> FrozenValue]
      /\ stats_ \in [active : Nat, paused : Nat, total : Nat, failed : Nat]
      /\ stats_.failed <= stats_.total
  BY DEF FreezerInv, TypeOK, StatsAgree
<1>1. ASSUME NEW n \in Nat, stats_' = [stats_ EXCEPT !.active = n]
      PROVE  /\ stats_' \in [active : Nat, paused : Nat, total : Nat, failed : Nat]
             /\ stats_'.active = n /\ stats_'.failed <= stats_'.total
  BY <1>0, <1>1
<1>2. ASSUME NEW A \in SUBSET Addresses, Call(A), global_paused_' = global_paused_,
             NEW f, frozen_values_' = f,
             DOMAIN f \subseteq Addresses, f \in [DOMAIN f -> FrozenValue],
             \A b \in Frozen \ A : b \in DOMAIN f /\ f[b] = frozen_values_[b],
             stats_' = [stats_ EXCEPT !.active = Cardinality(DOMAIN f)]
      PROVE  FreezerInv'
  <2>1. Frozen' = DOMAIN f
    BY <1>2 DEF Frozen
  <2>2. Cardinality(DOMAIN f) \in Nat
    BY <1>2, FrozenFinite
  <2>3. \A a \in Addresses \ A, v \in Values : Wanted(a, v) => Wanted(a, v)'
    BY <1>2, <2>1 DEF Wanted
  <2>4. Copied' /\ NoSecond' /\ late' \in [Addresses -> Nat]
    BY <1>2, <2>3, CallInv
  <2>5. /\ stats_' \in [active : Nat, paused : Nat, total : Nat, failed : Nat]
        /\ stats_'.active = Cardinality(DOMAIN f) /\ stats_'.failed <= stats_'.total
    BY <1>1, <1>2, <2>2
  <2>6. StatsAgree'
    BY <2>1, <2>5 DEF StatsAgree
  <2>7. TypeOK'
    BY <1>2, <2>1, <2>4, <2>5 DEF FreezerInv, TypeOK, Call
  <2> QED BY <2>4, <2>6, <2>7 DEF FreezerInv
<1>3. CASE unfreeze_all
  <2>1. DOMAIN NoEntries = {} /\ NoEntries \in [{} -> FrozenValue] /\ Cardinality({}) = 0
    BY FS_EmptySet DEF NoEntries
  <2>2. /\ frozen_values_' = NoEntries /\ Call(Addresses) /\ global_paused_' = global_paused_
        /\ stats_' = [stats_ EXCEPT !.active = 0]
    BY <1>3 DEF unfreeze_all
  <2>3. stats_' = [stats_ EXCEPT !.active = Cardinality(DOMAIN NoEntries)]
    BY <2>1, <2>2
  <2>4. \A b \in Frozen \ Addresses : b \in DOMAIN NoEntries /\ NoEntries[b] = frozen_values_[b]
    BY <1>0
  <2> HIDE DEF NoEntries
  <2>5. DOMAIN NoEntries \subseteq Addresses /\ NoEntries \in [DOMAIN NoEntries -> FrozenValue]
    BY <2>1
  <2> QED BY <1>2, <2>2, <2>3, <2>4, <2>5
<1>4. ASSUME NEW a \in Addresses, unfreeze(a) PROVE FreezerInv'
  <2> DEFINE f == [b \in Frozen \ {a} |-> frozen_values_[b]]
  <2>1. DOMAIN f = Frozen \ {a} /\ f \in [Frozen \ {a} -> FrozenValue]
    BY <1>0
  <2>2. \A b \in Frozen \ {a} : b \in DOMAIN f /\ f[b] = frozen_values_[b]
    OBVIOUS
  <2>3. /\ frozen_values_' = f /\ Call({a}) /\ global_paused_' = global_paused_
        /\ stats_' = [stats_ EXCEPT !.active = Cardinality(Frozen \ {a})]
    BY <1>4 DEF unfreeze
  <2> HIDE DEF f
  <2> QED BY <1>0, <1>2, <2>1, <2>2, <2>3
<1>5. ASSUME NEW a \in Addresses, NEW v \in Values, NEW interval \in Intervals,
             freeze_value(a, v, interval)
      PROVE  FreezerInv'
  <2> DEFINE entry == [value |-> v, interval |-> interval, age |-> 0, paused |-> FALSE]
             f == [b \in Frozen \cup {a} |-> IF b = a THEN entry ELSE frozen_values_[b]]
  <2>1. DOMAIN f = Frozen \cup {a} /\ f \in [Frozen \cup {a} -> FrozenValue]
    <3>1. entry \in FrozenValue
      BY DEF FrozenValue
    <3> HIDE DEF entry
    <3> QED BY <1>0, <3>1
  <2>2. \A b \in Frozen \ {a} : b \in DOMAIN f /\ f[b] = frozen_values_[b]
    OBVIOUS
  <2>3. /\ frozen_values_' = f /\ Call({a}) /\ global_paused_' = global_paused_
        /\ stats_' = [stats_ EXCEPT !.active = Cardinality(Frozen \cup {a})]
    BY <1>5 DEF freeze_value
  <2> HIDE DEF f
  <2> QED BY <1>0, <1>2, <2>1, <2>2, <2>3
<1> QED BY <1>3, <1>4, <1>5

\* pause, resume, pause_all, resume_all, set_global_pause and reset_stats.
LEMMA SettingInv ==
  ASSUME FreezerInv,
         \/ \E a \in Addresses, paused \in BOOLEAN : set_paused(a, paused)
         \/ \E paused \in BOOLEAN : set_global_pause(paused)
         \/ reset_stats
  PROVE  FreezerInv'
<1> USE FreezerAssumption
<1>0. /\ Frozen \subseteq Addresses /\ frozen_values_ \in [Frozen -> FrozenValue]
      /\ stats_ \in [active : Nat, paused : Nat, total : Nat, failed : Nat]
      /\ stats_.failed <= stats_.total /\ stats_.active = Cardinality(Frozen)
  BY DEF FreezerInv, TypeOK, StatsAgree
<1>1. ASSUME NEW a \in Addresses, NEW paused \in BOOLEAN, set_paused(a, paused)
      PROVE  FreezerInv'
  <2> DEFINE P == {b \in Frozen : IF b = a THEN paused ELSE frozen_values_[b].paused}
  <2>1. /\ a \in Frozen /\ Call({a}) /\ global_paused_' = global_paused_
        /\ frozen_values_' = [frozen_values_ EXCEPT ![a].paused = paused]
        /\ stats_' = [stats_ EXCEPT !.paused = Cardinality(P)]
    BY <1>1 DEF set_paused
  <2>2. Frozen' = Frozen
    BY <2>1 DEF Frozen
  <2>3. \A b \in Frozen \ {a} : frozen_values_'[b] = frozen_values_[b]
    BY <1>0, <2>1
  <2>4. frozen_values_' \in [Frozen -> FrozenValue]
    <3>1. [frozen_values_[a] EXCEPT !.paused = paused] \in FrozenValue
      BY <1>0, <2>1 DEF FrozenValue
    <3> QED BY <1>0, <2>1, <3>1
  <2>5. \A b \in Addresses \ {a}, v \in Values : Wanted(b, v) => Wanted(b, v)'
    BY <2>1, <2>2, <2>3 DEF Wanted
  <2>6. Copied' /\ NoSecond' /\ late' \in [Addresses -> Nat]
    BY <2>1, <2>5, CallInv
  <2>7. Cardinality(P) \in Nat
    BY <1>0, FrozenFinite
  <2> HIDE DEF P
  <2>8. /\ stats_' \in [active : Nat, paused : Nat, total : Nat, failed : Nat]
        /\ stats_'.failed <= stats_'.total /\ stats_'.active = Cardinality(Frozen)
    BY <1>0, <2>1, <2>7
  <2>9. TypeOK'
    BY <1>0, <2>1, <2>2, <2>4, <2>6, <2>8 DEF FreezerInv, TypeOK, Call
  <2>10. StatsAgree'
    BY <2>2, <2>8 DEF StatsAgree
  <2> QED BY <2>6, <2>9, <2>10 DEF FreezerInv
<1>2. ASSUME NEW paused \in BOOLEAN, set_global_pause(paused) PROVE FreezerInv'
  <2>1. /\ Call(Addresses) /\ global_paused_' = paused
        /\ UNCHANGED <<frozen_values_, stats_>>
    BY <1>2 DEF set_global_pause
  <2>2. Copied' /\ NoSecond' /\ late' \in [Addresses -> Nat]
    BY <2>1, CallInv
  <2> QED BY <2>1, <2>2 DEF FreezerInv, TypeOK, StatsAgree, Frozen, Call
<1>3. CASE reset_stats
  <2>1. /\ Call({}) /\ UNCHANGED <<frozen_values_, global_paused_>>
        /\ stats_' = [stats_ EXCEPT !.total = 0, !.failed = 0]
    BY <1>3 DEF reset_stats
  <2>2. \A b \in Addresses \ {}, v \in Values : Wanted(b, v) => Wanted(b, v)'
    BY <2>1 DEF Wanted, Frozen
  <2>3. Copied' /\ NoSecond' /\ late' \in [Addresses -> Nat]
    BY <2>1, <2>2, CallInv
  <2>4. /\ stats_' \in [active : Nat, paused : Nat, total : Nat, failed : Nat]
        /\ stats_'.failed <= stats_'.total /\ stats_'.active = Cardinality(Frozen)
    <3>1. /\ stats_' \in [active : Nat, paused : Nat, total : Nat, failed : Nat]
          /\ stats_'.failed = 0 /\ stats_'.total = 0 /\ stats_'.active = stats_.active
      BY <1>0, <2>1
    <3> QED BY <1>0, <3>1
  <2> QED BY <2>1, <2>3, <2>4 DEF FreezerInv, TypeOK, StatsAgree, Frozen, Call
<1> QED BY <1>1, <1>2, <1>3

-----------------------------------------------------------------------------
\* The top of the loop: a round starts only when there is no pause.
LEMMA TopInv == FreezerInv /\ Top => FreezerInv'
<1> SUFFICES ASSUME FreezerInv, Top PROVE FreezerInv'
  OBVIOUS
<1>1. /\ worker.pc = "top"
      /\ UNCHANGED <<frozen_values_, global_paused_, worker_running_, stats_, lifecycle,
                     memory, late>>
      /\ \/ worker' = [worker EXCEPT !.pc = "returned"]
         \/ ~global_paused_ /\ worker' = [worker EXCEPT !.pc = "copy"]
  BY DEF Top
<1>2. worker \in WorkerState
  BY DEF FreezerInv, Copied
<1>3. /\ worker' \in WorkerState /\ worker'.todo = worker.todo /\ worker'.copy = worker.copy
      /\ worker'.pc = "returned" \/ (worker'.pc = "copy" /\ ~global_paused_)
  <2>1. CASE worker' = [worker EXCEPT !.pc = "returned"]
    <3>1. worker' \in WorkerState
      BY <1>2, <2>1 DEF WorkerState
    <3>2. worker'.todo = worker.todo /\ worker'.copy = worker.copy
      BY <1>2, <2>1 DEF WorkerState
    <3>3. worker'.pc = "returned"
      BY <1>2, <2>1 DEF WorkerState
    <3> QED BY <3>1, <3>2, <3>3
  <2>2. CASE ~global_paused_ /\ worker' = [worker EXCEPT !.pc = "copy"]
    <3>1. worker' \in WorkerState
      BY <1>2, <2>2 DEF WorkerState
    <3>2. worker'.todo = worker.todo /\ worker'.copy = worker.copy
      BY <1>2, <2>2 DEF WorkerState
    <3>3. worker'.pc = "copy"
      BY <1>2, <2>2 DEF WorkerState
    <3> QED BY <2>2, <3>1, <3>2, <3>3
  <2>3. \/ worker' = [worker EXCEPT !.pc = "returned"]
        \/ ~global_paused_ /\ worker' = [worker EXCEPT !.pc = "copy"]
    BY <1>1
  <2> QED BY <2>1, <2>2, <2>3
<1>4. Copied'
  BY <1>3 DEF FreezerInv, Copied
<1>5. NoSecond'
  BY <1>1, <1>3 DEF FreezerInv, NoSecond, Pending
<1>6. TypeOK' /\ StatsAgree'
  BY <1>1, <1>3 DEF FreezerInv, TypeOK, StatsAgree, Frozen, WorkerState
<1> QED BY <1>4, <1>5, <1>6 DEF FreezerInv

\* The copy of the map: what the round is to write is wanted when it is copied.
LEMMA CopyInv == FreezerInv /\ Copy => FreezerInv'
<1> SUFFICES ASSUME FreezerInv, Copy PROVE FreezerInv'
  OBVIOUS
<1> USE AgesType
<1> DEFINE todo == {a \in Frozen : Due(frozen_values_[a])}
           copy == [a \in todo |-> frozen_values_[a].value]
           next == IF todo = {} THEN "top" ELSE "write"
<1>1. /\ worker.pc = "copy"
      /\ worker' = [pc |-> next, todo |-> todo, copy |-> copy, age |-> 0]
      /\ UNCHANGED <<frozen_values_, global_paused_, worker_running_, stats_, lifecycle,
                     memory, late>>
      /\ Frozen \subseteq Addresses /\ frozen_values_ \in [Frozen -> FrozenValue]
  BY DEF Copy, FreezerInv, TypeOK
<1>2. todo \in SUBSET Addresses /\ copy \in Copies /\ DOMAIN copy = todo
  <2>1. \A a \in todo : frozen_values_[a].value \in Values
    BY <1>1 DEF FrozenValue
  <2>2. todo \in SUBSET Addresses
    BY <1>1
  <2>3. copy \in [todo -> Values]
    BY <2>1
  <2> QED BY <2>2, <2>3 DEF Copies
<1>3. \A a \in todo : /\ a \in Frozen /\ ~frozen_values_[a].paused
                      /\ copy[a] = frozen_values_[a].value
  BY DEF Due
<1> HIDE DEF todo, copy
<1>4. /\ worker' \in WorkerState /\ worker'.todo = todo /\ worker'.copy = copy
      /\ worker'.pc \in {"top", "write"}
  BY <1>1, <1>2 DEF WorkerState
<1>5. Copied'
  BY <1>2, <1>4 DEF Copied
<1>6. NoSecond'
  <2> SUFFICES ASSUME NEW a \in Addresses
      PROVE  /\ late[a] \in 0..1
             /\ late[a] = 1 => /\ Pending(a)' => Wanted(a, copy[a])
                               /\ worker'.pc = "copy" => ~global_paused_'
    BY <1>1, <1>4 DEF NoSecond, Wanted, Frozen
  <2>1. late[a] \in 0..1 /\ (late[a] = 1 => ~global_paused_)
    BY <1>1 DEF FreezerInv, NoSecond
  <2>2. Pending(a)' => a \in todo
    BY <1>4 DEF Pending
  <2> QED BY <1>3, <1>4, <2>1, <2>2 DEF Wanted
<1>7. TypeOK' /\ StatsAgree'
  BY <1>1, <1>4 DEF FreezerInv, TypeOK, StatsAgree, Frozen, WorkerState
<1> QED BY <1>5, <1>6, <1>7 DEF FreezerInv

\* A write that is not wanted any more is the first since the user changed his mind.
LEMMA WriteInv ==
  ASSUME FreezerInv, NEW a \in Addresses, NEW success \in BOOLEAN, Write(a, success)
  PROVE  FreezerInv'
<1>1. /\ worker.pc = "write" /\ a \in worker.todo /\ \A b \in worker.todo : a <= b
      /\ memory' = IF success THEN [memory EXCEPT ![a] = worker.copy[a]] ELSE memory
      /\ late' = IF Wanted(a, worker.copy[a]) THEN late ELSE [late EXCEPT ![a] = @ + 1]
      /\ worker' = [worker EXCEPT !.pc = IF success THEN "succeeded" ELSE "failed"]
      /\ UNCHANGED <<frozen_values_, global_paused_, worker_running_, stats_, lifecycle>>
  BY DEF Write
<1>2. worker \in WorkerState /\ worker.todo \subseteq DOMAIN worker.copy
      /\ late \in [Addresses -> Nat] /\ worker.todo \subseteq Addresses
  BY DEF FreezerInv, Copied, TypeOK
<1>3. /\ worker' \in WorkerState /\ worker'.todo = worker.todo /\ worker'.copy = worker.copy
      /\ worker'.pc \in {"succeeded", "failed"}
  BY <1>1, <1>2 DEF WorkerState
<1>4. worker.copy[a] \in Values
  <2>1. \A f \in Copies : \A b \in DOMAIN f : f[b] \in Values
    BY DEF Copies
  <2> QED BY <1>1, <1>2, <2>1 DEF WorkerState
<1>5. Copied'
  BY <1>2, <1>3 DEF Copied
<1>6. ASSUME NEW b \in Addresses, b # a
      PROVE  /\ late'[b] = late[b]
             /\ Pending(b)' => Pending(b)
  BY <1>1, <1>2, <1>3, <1>6 DEF Pending
<1>7. ~Pending(a)'
  <2>1. \A b \in worker.todo : ~(b < a)
    BY <1>1, <1>2, FreezerAssumption
  <2> QED BY <1>3, <2>1 DEF Pending
<1>8. late'[a] \in 0..1
  <2>1. late[a] \in 0..1 /\ (late[a] = 1 => Wanted(a, worker.copy[a]))
    BY <1>1 DEF FreezerInv, NoSecond, Pending
  <2> QED BY <1>1, <1>2, <2>1
<1>9. NoSecond'
  <2> SUFFICES ASSUME NEW b \in Addresses
      PROVE  /\ late'[b] \in 0..1
             /\ late'[b] = 1 => /\ Pending(b)' => Wanted(b, worker.copy[b])
                                /\ worker'.pc = "copy" => ~global_paused_'
    BY <1>1, <1>3 DEF NoSecond, Wanted, Frozen
  <2>1. CASE b = a
    BY <1>3, <1>7, <1>8, <2>1
  <2>2. CASE b # a
    BY <1>3, <1>6, <2>2 DEF FreezerInv, NoSecond
  <2> QED BY <2>1, <2>2
<1>10. TypeOK' /\ StatsAgree'
  <2>1. late' \in [Addresses -> Nat] /\ memory' \in [Addresses -> Values \cup {Other}]
    BY <1>1, <1>2, <1>4 DEF FreezerInv, TypeOK
  <2> QED BY <1>1, <1>3, <2>1 DEF FreezerInv, TypeOK, StatsAgree, Frozen, WorkerState
<1> QED BY <1>5, <1>9, <1>10 DEF FreezerInv

\* The round goes on to the next address; the map keeps its addresses and values.
LEMMA UpdateInv ==
  ASSUME FreezerInv, NEW a \in Addresses, Update(a)
  PROVE  FreezerInv'
<1> USE FreezerAssumption
<1> DEFINE next == IF Remaining(a) = {} THEN "top" ELSE "write"
<1>1. /\ worker.pc \in {"succeeded", "failed"} /\ a \in worker.todo
      /\ \A b \in worker.todo : a <= b
      /\ worker' = [worker EXCEPT !.todo = worker.todo \ {a}, !.pc = next]
      /\ UNCHANGED <<global_paused_, worker_running_, lifecycle, memory, late>>
  BY DEF Update, Remaining
<1>2. /\ worker \in WorkerState /\ worker.todo \subseteq DOMAIN worker.copy
      /\ worker.todo \subseteq Addresses /\ worker.age \in Ages
      /\ Frozen \subseteq Addresses /\ frozen_values_ \in [Frozen -> FrozenValue]
      /\ stats_ \in [active : Nat, paused : Nat, total : Nat, failed : Nat]
      /\ stats_.failed <= stats_.total /\ stats_.active = Cardinality(Frozen)
  BY DEF FreezerInv, Copied, TypeOK, StatsAgree
<1>3. /\ worker' \in WorkerState /\ worker'.todo = worker.todo \ {a}
      /\ worker'.copy = worker.copy /\ worker'.pc \in {"top", "write"}
  BY <1>1, <1>2 DEF WorkerState
<1>4. frozen_values_' = [b \in Frozen |->
        IF b = a THEN [frozen_values_[b] EXCEPT !.age = worker.age] ELSE frozen_values_[b]]
  BY DEF Update
<1>5. /\ Frozen' = Frozen /\ frozen_values_' \in [Frozen -> FrozenValue]
      /\ \A b \in Frozen : /\ frozen_values_'[b].value = frozen_values_[b].value
                           /\ frozen_values_'[b].paused = frozen_values_[b].paused
  <2>1. \A e \in FrozenValue :
          /\ [e EXCEPT !.age = worker.age] \in FrozenValue
          /\ [e EXCEPT !.age = worker.age].value = e.value
          /\ [e EXCEPT !.age = worker.age].paused = e.paused
    BY <1>2 DEF FrozenValue
  <2>2. Frozen' = Frozen
    BY <1>4 DEF Frozen
  <2> QED BY <1>2, <1>4, <2>1, <2>2
<1>6. Copied'
  BY <1>2, <1>3 DEF Copied
<1>7. NoSecond'
  <2> SUFFICES ASSUME NEW b \in Addresses
      PROVE  /\ late[b] \in 0..1
             /\ late[b] = 1 => /\ Pending(b)' => Wanted(b, worker.copy[b])'
                               /\ worker'.pc = "copy" => ~global_paused_'
    BY <1>1, <1>3 DEF NoSecond
  <2>1. Pending(b)' => Pending(b)
    <3> SUFFICES ASSUME b \in worker.todo \ {a} PROVE Pending(b)
      BY <1>3 DEF Pending
    <3>1. a < b
      BY <1>1, <1>2
    <3> QED BY <1>1, <3>1 DEF Pending
  <2>2. Wanted(b, worker.copy[b]) => Wanted(b, worker.copy[b])'
    BY <1>1, <1>3, <1>5 DEF Wanted
  <2> QED BY <1>3, <2>1, <2>2 DEF FreezerInv, NoSecond
<1>8. /\ stats_' \in [active : Nat, paused : Nat, total : Nat, failed : Nat]
      /\ stats_'.failed <= stats_'.total /\ stats_'.active = Cardinality(Frozen)
  <2> DEFINE failed == IF worker.pc = "failed" THEN Bump(stats_.failed) ELSE stats_.failed
             total == Bump(stats_.total)
  <2>1. stats_' = [stats_ EXCEPT !.total = total, !.failed = failed]
    BY DEF Update
  <2>2. total \in Nat /\ failed \in Nat /\ failed <= total
    BY <1>2 DEF Bump
  <2> HIDE DEF total, failed
  <2> QED BY <1>2, <2>1, <2>2
<1>9. TypeOK' /\ StatsAgree'
  BY <1>1, <1>2, <1>3, <1>5, <1>8 DEF FreezerInv, TypeOK, StatsAgree, WorkerState
<1> QED BY <1>6, <1>7, <1>9 DEF FreezerInv

\* The destructor, the target and time.
LEMMA OthersInv ==
  ASSUME FreezerInv, StopWorker \/ Join \/ Tick \/ \E a \in Addresses : TargetWrite(a)
  PROVE  FreezerInv'
<1>1. CASE StopWorker \/ Join
  <2>1. /\ UNCHANGED <<frozen_values_, global_paused_, stats_, worker, memory, late>>
        /\ worker_running_' \in {FALSE, worker_running_}
        /\ lifecycle' \in {"stopping", "destroyed"}
    BY <1>1 DEF StopWorker, Join
  <2>2. TypeOK' /\ StatsAgree'
    BY <2>1 DEF FreezerInv, TypeOK, StatsAgree, Frozen
  <2>3. Copied' /\ NoSecond'
    BY <2>1 DEF FreezerInv, Copied, NoSecond, Frozen, Pending, Wanted
  <2> QED BY <2>2, <2>3 DEF FreezerInv
<1>2. ASSUME NEW a \in Addresses, TargetWrite(a) PROVE FreezerInv'
  BY <1>2 DEF TargetWrite, FreezerInv, TypeOK, Copied, NoSecond, StatsAgree, Frozen,
              Pending, Wanted
<1>3. CASE Tick
  <2>1. /\ frozen_values_' = [a \in Frozen |-> [frozen_values_[a] EXCEPT !.age = Older(@)]]
        /\ worker' = [worker EXCEPT !.age = IF worker.todo = {} THEN @ ELSE Older(@)]
        /\ UNCHANGED <<global_paused_, worker_running_, stats_, lifecycle, memory, late>>
    BY <1>3 DEF Tick
  <2>2. /\ worker \in WorkerState
        /\ frozen_values_ \in [Frozen -> FrozenValue]
    BY DEF FreezerInv, Copied, TypeOK
  <2>3. /\ worker' \in WorkerState /\ worker'.todo = worker.todo
        /\ worker'.copy = worker.copy /\ worker'.pc = worker.pc
    <3>1. worker.age \in Ages /\ Older(worker.age) \in Ages
      BY <2>2, AgesType DEF WorkerState
    <3> QED BY <2>1, <2>2, <3>1 DEF WorkerState
  <2>4. Frozen' = Frozen
    BY <2>1 DEF Frozen
  <2>5. \A e \in FrozenValue :
          /\ [e EXCEPT !.age = Older(@)] \in FrozenValue
          /\ [e EXCEPT !.age = Older(@)].value = e.value
          /\ [e EXCEPT !.age = Older(@)].paused = e.paused
    BY AgesType DEF FrozenValue
  <2>6. /\ frozen_values_' \in [Frozen -> FrozenValue]
        /\ \A b \in Frozen : /\ frozen_values_'[b].value = frozen_values_[b].value
                             /\ frozen_values_'[b].paused = frozen_values_[b].paused
    BY <2>1, <2>2, <2>5
  <2>7. \A b \in Addresses : /\ Pending(b)' <=> Pending(b)
                             /\ Wanted(b, worker.copy[b]) => Wanted(b, worker.copy[b])'
    BY <2>1, <2>3, <2>4, <2>6 DEF Pending, Wanted
  <2>8. NoSecond'
    BY <2>1, <2>3, <2>7 DEF FreezerInv, NoSecond
  <2>9. Copied' /\ TypeOK' /\ StatsAgree'
    BY <2>1, <2>3, <2>4, <2>6 DEF FreezerInv, Copied, TypeOK, StatsAgree, WorkerState
  <2> QED BY <2>8, <2>9 DEF FreezerInv
<1> QED BY <1>1, <1>2, <1>3

-----------------------------------------------------------------------------
\* FreezerInv holds in every state.
THEOREM FreezerInvariance == Spec => []FreezerInv
<1>1. ASSUME FreezerInv, [Next]_vars PROVE FreezerInv'
  <2>1. CASE User
    BY <1>1, <2>1, EntryInv, SettingInv DEF User
  <2>2. CASE Worker
    BY <1>1, <2>2, TopInv, CopyInv, WriteInv, UpdateInv DEF Worker
  <2>3. CASE StopWorker \/ Join \/ Tick \/ \E a \in Addresses : TargetWrite(a)
    BY <1>1, <2>3, OthersInv
  <2>4. CASE UNCHANGED vars
    BY <1>1, <2>4 DEF vars, FreezerInv, TypeOK, Copied, NoSecond, StatsAgree, Frozen,
                      Pending, Wanted
  <2> QED BY <1>1, <2>1, <2>2, <2>3, <2>4 DEF Next
<1> QED BY FreezerInit, <1>1, PTL DEF Spec

\* Every variable keeps its type.
THEOREM FreezerTyped == Spec => []TypeOK
<1>1. FreezerInv => TypeOK
  BY DEF FreezerInv
<1> QED BY <1>1, FreezerInvariance, PTL

\* A call that takes back a value is followed by at most one more write of it, for any
\* number of addresses and however long the round of the worker takes.
THEOREM OneLateWrite == Spec => []LateWriteOnce
<1>1. FreezerInv => LateWriteOnce
  BY DEF FreezerInv, NoSecond, LateWriteOnce
<1> QED BY <1>1, FreezerInvariance, PTL

\* The statistics agree with the map that they are kept beside.
THEOREM StatsFollowMap == Spec => []StatsAgree
<1>1. FreezerInv => StatsAgree
  BY DEF FreezerInv
<1> QED BY <1>1, FreezerInvariance, PTL
=============================================================================
