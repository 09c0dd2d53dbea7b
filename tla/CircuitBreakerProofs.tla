------------------------ MODULE CircuitBreakerProofs ------------------------
(***************************************************************************)
(* Proofs about CircuitBreaker, for any threads and configurations.        *)
(*                                                                         *)
(* BreakerInv is inductive.  CallAccounting needs OnlyRelockBlocks: a      *)
(* thread that holds mutex_ in transition_state has been counted already,  *)
(* so that where it goes from there changes no count.  NoEarlyOpen rests   *)
(* on Consecutive.                                                         *)
(***************************************************************************)
EXTENDS CircuitBreaker, TLAPS, FiniteSetTheorems

\* The breaker never takes more failures for consecutive than were recorded since the
\* last success, nor, while closed, since it was closed, unless the count is to be cleared.
Consecutive ==
  /\ stats_.consecutive_failures <= run
  /\ state_ = "CLOSED" => stats_.consecutive_failures <= own \/ Closing

BreakerInv == TypeOK /\ OnlyRelockBlocks /\ CallAccounting /\ Consecutive

Places == {"idle", "check", "exchange", "update", "relock", "reject",
           "operate", "success", "failure", "reset_stats"}

Statistics ==
  [total_calls : Nat, successful_calls : Nat, failed_calls : Nat,
   rejected_calls : Nat, state_transitions : Nat, age : Nat,
   current_state : CircuitState, consecutive_failures : Nat, consecutive_successes : Nat]

\* A place inside execute whose call is not counted yet, given where the thread goes
\* after transition_state.
Counting(place, next) ==
  \/ place \in {"check", "reject", "operate", "success", "failure"}
  \/ place \in {"exchange", "update"} /\ next = "operate"

\* Who is in flight when one thread has moved.
LEMMA MoveInFlight ==
  ASSUME TypeOK, NEW t \in Threads,
         \A u \in Threads \ {t} : pc'[u] = pc[u] /\ then'[u] = then[u]
  PROVE  /\ Cardinality(InFlight) \in Nat
         /\ (Counting(pc'[t], then'[t]) <=> Counting(pc[t], then[t]))
              => Cardinality(InFlight') = Cardinality(InFlight)
         /\ Counting(pc'[t], then'[t]) /\ ~Counting(pc[t], then[t])
              => Cardinality(InFlight') = Cardinality(InFlight) + 1
         /\ ~Counting(pc'[t], then'[t]) /\ Counting(pc[t], then[t])
              => Cardinality(InFlight') = Cardinality(InFlight) - 1
<1>1. IsFiniteSet(InFlight)
  <2>1. InFlight \subseteq Threads
    BY DEF InFlight
  <2> QED BY <2>1, BreakerAssumption, FS_Subset
<1>2. \A u \in Threads :
        /\ u \in InFlight <=> Counting(pc[u], then[u])
        /\ u \in InFlight' <=> Counting(pc'[u], then'[u])
  BY DEF InFlight, Counting
<1>3. InFlight \subseteq Threads /\ InFlight' \subseteq Threads
  BY DEF InFlight
<1>4. \A u \in Threads \ {t} : u \in InFlight' <=> u \in InFlight
  BY <1>2
<1>5. CASE Counting(pc'[t], then'[t]) <=> Counting(pc[t], then[t])
  <2>1. InFlight' = InFlight
    BY <1>2, <1>3, <1>4, <1>5
  <2> QED BY <1>1, <1>5, <2>1, FS_CardinalityType
<1>6. CASE Counting(pc'[t], then'[t]) /\ ~Counting(pc[t], then[t])
  <2>1. InFlight' = InFlight \cup {t} /\ t \notin InFlight
    BY <1>2, <1>3, <1>4, <1>6
  <2> QED BY <1>1, <1>6, <2>1, FS_CardinalityType, FS_AddElement
<1>7. CASE ~Counting(pc'[t], then'[t]) /\ Counting(pc[t], then[t])
  <2>1. InFlight' = InFlight \ {t} /\ t \in InFlight
    BY <1>2, <1>3, <1>4, <1>7
  <2> QED BY <1>1, <1>7, <2>1, FS_CardinalityType, FS_RemoveElement
<1> QED BY <1>5, <1>6, <1>7

\* A breaker just built.
LEMMA BreakerInit == Init => BreakerInv
<1> SUFFICES ASSUME Init PROVE BreakerInv
  OBVIOUS
<1> USE BreakerAssumption DEF Init
<1>1. TypeOK
  BY DEF TypeOK, Fresh, CircuitState
<1>2. InFlight = {}
  BY DEF InFlight
<1>3. CallAccounting
  BY <1>2, FS_EmptySet DEF CallAccounting, Fresh
<1>4. OnlyRelockBlocks /\ Consecutive
  BY DEF OnlyRelockBlocks, Consecutive, Fresh
<1> QED BY <1>1, <1>3, <1>4 DEF BreakerInv

-----------------------------------------------------------------------------
\* What a step does not disturb of Consecutive: a thread that is not about to clear the count
\* moves, and the count does not grow.
LEMMA ConsecutiveStays ==
  ASSUME BreakerInv, NEW t \in Threads, pc[t] \notin {"update", "relock"},
         \A u \in Threads \ {t} : pc'[u] = pc[u] /\ new_state'[u] = new_state[u],
         state_' = state_, run' = run, own' = own,
         stats_'.consecutive_failures \in {0, stats_.consecutive_failures}
  PROVE  Consecutive'
<1>1. /\ stats_.consecutive_failures <= run /\ run \in Nat /\ own \in Nat
      /\ state_ = "CLOSED" => stats_.consecutive_failures <= own \/ Closing
  BY DEF BreakerInv, TypeOK, Consecutive
<1>2. Closing => Closing'
  BY DEF Closing
<1> QED BY <1>1, <1>2 DEF Consecutive

\* A thread moves without a look at the counts, which stay.
LEMMA MoveInv ==
  ASSUME BreakerInv, NEW t \in Threads,
         \A u \in Threads \ {t} : pc'[u] = pc[u] /\ then'[u] = then[u],
         Counting(pc'[t], then'[t]) <=> Counting(pc[t], then[t]),
         stats_'.total_calls = stats_.total_calls,
         stats_'.successful_calls = stats_.successful_calls,
         stats_'.failed_calls = stats_.failed_calls,
         stats_'.rejected_calls = stats_.rejected_calls,
         UNCHANGED <<calls, forgotten>>
  PROVE  CallAccounting'
<1>1. Cardinality(InFlight') = Cardinality(InFlight)
  BY MoveInFlight DEF BreakerInv
<1> QED BY <1>1 DEF BreakerInv, CallAccounting

\* The exchange of state_, with or without mutex_.
LEMMA ExchangeInv ==
  ASSUME BreakerInv, NEW t \in Threads, Exchange(t)
  PROVE  BreakerInv'
<1> USE BreakerAssumption
<1> DEFINE next == IF ~(state_ # new_state[t]) THEN then[t]
                   ELSE IF mutex_ = t THEN "relock" ELSE "update"
<1>0. /\ pc[t] = "exchange" /\ pc' = [pc EXCEPT ![t] = next]
      /\ state_' = new_state[t]
      /\ mutex_' = IF mutex_ = t /\ ~(state_ # new_state[t]) THEN Nobody ELSE mutex_
      /\ trial' = IF state_ # new_state[t] /\ new_state[t] = "HALF_OPEN" THEN 0 ELSE trial
      /\ open_for' = IF state_ # new_state[t] /\ new_state[t] = "OPEN" THEN 0 ELSE open_for
      /\ own' = IF state_ # new_state[t] THEN 0 ELSE own
      /\ UNCHANGED <<config_, stats_, new_state, then, crashed, calls, forgotten, run, spell>>
  BY DEF Exchange, Move
<1>1. TypeOK'
  BY <1>0 DEF BreakerInv, TypeOK
<1>2. mutex_ = t => then[t] = "idle"
  BY DEF BreakerInv, OnlyRelockBlocks
<1>3. OnlyRelockBlocks'
  BY <1>0 DEF BreakerInv, TypeOK, OnlyRelockBlocks
<1>4. /\ \A u \in Threads \ {t} : pc'[u] = pc[u] /\ then'[u] = then[u]
      /\ pc'[t] = next /\ then'[t] = then[t]
      /\ then[t] \in {"idle", "operate", "reset_stats"}
  BY <1>0 DEF BreakerInv, TypeOK
<1>5. Counting(pc'[t], then'[t]) <=> Counting(pc[t], then[t])
  BY <1>0, <1>2, <1>4 DEF Counting
<1>6. CallAccounting'
  BY <1>0, <1>4, <1>5, MoveInv
<1>7. Consecutive'
  <2>1. CASE state_ = new_state[t]
    BY <1>0, <1>4, <2>1, ConsecutiveStays
  <2>2. CASE state_ # new_state[t]
    <3>1. stats_'.consecutive_failures <= run'
      BY <1>0 DEF BreakerInv, Consecutive
    <3>2. state_' = "CLOSED" => Closing'
      BY <1>0, <1>4, <2>2 DEF Closing
    <3> QED BY <3>1, <3>2 DEF Consecutive
  <2> QED BY <2>1, <2>2
<1> QED BY <1>1, <1>3, <1>6, <1>7 DEF BreakerInv

\* The statistics of a transition made without mutex_.
LEMMA UpdateInv ==
  ASSUME BreakerInv, NEW t \in Threads, Update(t)
  PROVE  BreakerInv'
<1> USE BreakerAssumption
<1>0. /\ pc[t] = "update" /\ pc' = [pc EXCEPT ![t] = then[t]]
      /\ mutex_ = Nobody /\ mutex_' = Nobody
      /\ UNCHANGED <<config_, state_, new_state, then, crashed, calls, forgotten, failing,
                     trial, open_for>>
  BY DEF Update, Move, Locked, history
<1>1. /\ stats_' \in Statistics
      /\ stats_'.total_calls = stats_.total_calls
      /\ stats_'.successful_calls = stats_.successful_calls
      /\ stats_'.failed_calls = stats_.failed_calls
      /\ stats_'.rejected_calls = stats_.rejected_calls
      /\ stats_'.consecutive_failures \in {0, stats_.consecutive_failures}
      /\ new_state[t] = "CLOSED" => stats_'.consecutive_failures = 0
  <2>1. stats_ \in Statistics /\ new_state[t] \in CircuitState
    BY DEF BreakerInv, TypeOK, Statistics
  <2>2. /\ Recount(new_state[t], stats_) \in Statistics
        /\ Recount(new_state[t], stats_).total_calls = stats_.total_calls
        /\ Recount(new_state[t], stats_).successful_calls = stats_.successful_calls
        /\ Recount(new_state[t], stats_).failed_calls = stats_.failed_calls
        /\ Recount(new_state[t], stats_).rejected_calls = stats_.rejected_calls
        /\ Recount(new_state[t], stats_).consecutive_failures
             \in {0, stats_.consecutive_failures}
        /\ new_state[t] = "CLOSED"
             => Recount(new_state[t], stats_).consecutive_failures = 0
    BY <2>1 DEF Recount, Statistics
  <2> DEFINE counted == Recount(new_state[t], stats_)
  <2> DEFINE n == IF counted.state_transitions < MaxChanges
                  THEN counted.state_transitions + 1 ELSE counted.state_transitions
  <2>3. /\ stats_' = [counted EXCEPT !.current_state = new_state[t],
                                    !.state_transitions = n, !.age = 0]
        /\ n \in Nat
    <3>1. counted.state_transitions \in Nat
      BY <2>2 DEF Statistics
    <3>2. n \in Nat
      BY <3>1
    <3>3. stats_' = [counted EXCEPT !.current_state = new_state[t],
                                   !.state_transitions = n, !.age = 0]
      BY DEF Update
    <3> QED BY <3>2, <3>3
  <2> HIDE DEF counted, n
  <2>4. counted \in Statistics
    BY <2>2 DEF counted
  <2>5. /\ stats_' \in Statistics
        /\ stats_'.total_calls = counted.total_calls
        /\ stats_'.successful_calls = counted.successful_calls
        /\ stats_'.failed_calls = counted.failed_calls
        /\ stats_'.rejected_calls = counted.rejected_calls
        /\ stats_'.consecutive_failures = counted.consecutive_failures
    BY <2>1, <2>3, <2>4 DEF Statistics
  <2> QED BY <2>2, <2>5 DEF counted
<1>2. TypeOK'
  BY <1>0, <1>1 DEF failing, BreakerInv, TypeOK, Statistics
<1>3. OnlyRelockBlocks'
  BY <1>0 DEF OnlyRelockBlocks
<1>4. /\ \A u \in Threads \ {t} : pc'[u] = pc[u] /\ then'[u] = then[u]
      /\ Counting(pc'[t], then'[t]) <=> Counting(pc[t], then[t])
  BY <1>0 DEF BreakerInv, TypeOK, Counting
<1>5. CallAccounting'
  BY <1>0, <1>1, <1>4, MoveInv
<1>6. Consecutive'
  <2>1. /\ stats_.consecutive_failures <= run /\ run \in Nat /\ own \in Nat
        /\ state_ = "CLOSED" => stats_.consecutive_failures <= own \/ Closing
    BY DEF BreakerInv, Consecutive, TypeOK
  <2>2. /\ run' = run /\ own' = own /\ state_' = state_ /\ new_state' = new_state
        /\ \A u \in Threads \ {t} : pc'[u] = pc[u]
    BY <1>0, <1>4 DEF failing
  <2>3. CASE new_state[t] = "CLOSED"
    BY <1>1, <2>1, <2>2, <2>3 DEF Consecutive
  <2>4. CASE new_state[t] # "CLOSED"
    <3>1. Closing => Closing'
      BY <2>2, <2>4 DEF Closing
    <3> QED BY <1>1, <2>1, <2>2, <3>1 DEF Consecutive
  <2> QED BY <2>3, <2>4
<1> QED BY <1>2, <1>3, <1>5, <1>6 DEF BreakerInv

\* The calls that begin with a transition, the test of the timeout and the operation:
\* nothing is counted.
LEMMA WalkInv ==
  ASSUME BreakerInv, NEW t \in Threads,
         CheckTimeout(t) \/ Operate(t) \/ trip(t) \/ half_open(t) \/ reset(t)
  PROVE  BreakerInv'
<1> USE BreakerAssumption
<1>1. /\ \E p \in Places : pc' = [pc EXCEPT ![t] = p]
      /\ \E n \in CircuitState : new_state' = [new_state EXCEPT ![t] = n]
      /\ \E n \in {"idle", "operate", "reset_stats"} : then' = [then EXCEPT ![t] = n]
      /\ Counting(pc'[t], then'[t]) <=> Counting(pc[t], then[t])
      /\ pc[t] \in {"check", "operate", "idle"}
      /\ UNCHANGED <<config_, state_, mutex_, stats_, crashed, calls, forgotten, failing,
                     trial, open_for>>
  <2> USE DEF BreakerInv, TypeOK, Move, history, Places, Counting, CircuitState
  <2>1. CASE CheckTimeout(t)
    BY <2>1 DEF CheckTimeout, Locked
  <2>2. CASE Operate(t)
    <3>1. PICK outcome \in {"success", "failure"} :
             pc[t] = "operate" /\ pc' = [pc EXCEPT ![t] = outcome]
      BY <2>2 DEF Operate
    <3>2. UNCHANGED <<config_, state_, mutex_, stats_, new_state, then, crashed, history>>
      BY <2>2 DEF Operate
    <3>3. /\ new_state[t] \in CircuitState
          /\ new_state' = [new_state EXCEPT ![t] = new_state[t]]
      BY <3>2
    <3>4. /\ then[t] \in {"idle", "operate", "reset_stats"}
          /\ then' = [then EXCEPT ![t] = then[t]]
      BY <3>2
    <3>5. Counting(pc'[t], then'[t]) <=> Counting(pc[t], then[t])
      BY <3>1, <3>2
    <3> QED BY <3>1, <3>2, <3>3, <3>4, <3>5
  <2>3. CASE trip(t) \/ half_open(t) \/ reset(t)
    BY <2>3 DEF trip, half_open, reset, Manual
  <2> QED BY <2>1, <2>2, <2>3
<1>2. TypeOK'
  BY <1>1 DEF failing, BreakerInv, TypeOK, Places
<1>3. OnlyRelockBlocks'
  BY <1>1 DEF BreakerInv, TypeOK, OnlyRelockBlocks
<1>4. \A u \in Threads \ {t} : pc'[u] = pc[u] /\ then'[u] = then[u]
  BY <1>1 DEF BreakerInv, TypeOK
<1>5. CallAccounting'
  BY <1>1, <1>4, MoveInv
<1>6. Consecutive'
  <2>1. \A u \in Threads \ {t} : pc'[u] = pc[u] /\ new_state'[u] = new_state[u]
    BY <1>1 DEF BreakerInv, TypeOK
  <2> QED BY <1>1, <2>1, ConsecutiveStays DEF failing
<1> QED BY <1>2, <1>3, <1>5, <1>6 DEF BreakerInv

\* A call of execute begins.
LEMMA ExecuteInv ==
  ASSUME BreakerInv, NEW t \in Threads, Execute(t)
  PROVE  BreakerInv'
<1> USE BreakerAssumption
<1>0. /\ pc[t] = "idle" /\ \E p \in {"check", "operate"} : pc' = [pc EXCEPT ![t] = p]
      /\ calls' = calls + 1
      /\ UNCHANGED <<config_, state_, mutex_, stats_, new_state, then, crashed,
                     forgotten, failing, trial, open_for>>
  BY DEF Execute, Move
<1>1. TypeOK'
  BY <1>0 DEF failing, BreakerInv, TypeOK
<1>2. OnlyRelockBlocks' /\ Consecutive'
  <2>1. OnlyRelockBlocks'
    BY <1>0 DEF BreakerInv, TypeOK, OnlyRelockBlocks
  <2>2. \A u \in Threads \ {t} : pc'[u] = pc[u] /\ new_state'[u] = new_state[u]
    BY <1>0 DEF BreakerInv, TypeOK
  <2> QED BY <1>0, <2>1, <2>2, ConsecutiveStays DEF failing
<1>3. /\ \A u \in Threads \ {t} : pc'[u] = pc[u] /\ then'[u] = then[u]
      /\ Counting(pc'[t], then'[t]) /\ ~Counting(pc[t], then[t])
  BY <1>0 DEF BreakerInv, TypeOK, Counting
<1>4. Cardinality(InFlight') = Cardinality(InFlight) + 1 /\ Cardinality(InFlight) \in Nat
  BY <1>3, MoveInFlight DEF BreakerInv
<1>5. CallAccounting'
  <2>1. stats_.total_calls \in Nat /\ stats_.rejected_calls \in Nat /\ forgotten \in Nat
    BY DEF BreakerInv, TypeOK
  <2> QED BY <1>0, <1>4, <2>1 DEF BreakerInv, CallAccounting
<1> QED BY <1>1, <1>2, <1>5 DEF BreakerInv

\* A call ends, and is counted: n more successes, failures and rejections.
LEMMA CountedInv ==
  ASSUME BreakerInv, NEW t \in Threads,
         NEW s \in 0..1, NEW f \in 0..1, NEW r \in 0..1, s + f + r = 1,
         stats_'.total_calls = stats_.total_calls + s + f,
         stats_'.successful_calls = stats_.successful_calls + s,
         stats_'.failed_calls = stats_.failed_calls + f,
         stats_'.rejected_calls = stats_.rejected_calls + r,
         \A u \in Threads \ {t} : pc'[u] = pc[u] /\ then'[u] = then[u],
         Counting(pc[t], then[t]), ~Counting(pc'[t], then'[t]),
         UNCHANGED <<calls, forgotten>>
  PROVE  CallAccounting'
<1>1. Cardinality(InFlight') = Cardinality(InFlight) - 1 /\ Cardinality(InFlight) \in Nat
  BY MoveInFlight DEF BreakerInv
<1>2. /\ stats_.total_calls \in Nat /\ stats_.rejected_calls \in Nat
      /\ stats_.successful_calls \in Nat /\ stats_.failed_calls \in Nat /\ forgotten \in Nat
  BY DEF BreakerInv, TypeOK
<1>3. /\ calls = forgotten + stats_.total_calls + stats_.rejected_calls + Cardinality(InFlight)
      /\ stats_.total_calls = stats_.successful_calls + stats_.failed_calls
  BY DEF BreakerInv, CallAccounting
<1>4. s \in Int /\ f \in Int /\ r \in Int
  OBVIOUS
<1>5. calls' = forgotten' + stats_'.total_calls + stats_'.rejected_calls + Cardinality(InFlight')
  BY <1>1, <1>2, <1>3, <1>4
<1>6. stats_'.total_calls = stats_'.successful_calls + stats_'.failed_calls
  BY <1>2, <1>3, <1>4
<1> QED BY <1>5, <1>6 DEF CallAccounting

\* A rejection is counted.
LEMMA RejectedInv ==
  ASSUME BreakerInv, NEW t \in Threads, RecordRejected(t)
  PROVE  BreakerInv'
<1> USE BreakerAssumption
<1>0. /\ pc[t] = "reject" /\ pc' = [pc EXCEPT ![t] = "idle"]
      /\ mutex_ = Nobody /\ mutex_' = Nobody
      /\ stats_' = [stats_ EXCEPT !.rejected_calls = @ + 1]
      /\ UNCHANGED <<config_, state_, new_state, then, crashed, calls, forgotten, failing,
                     trial, open_for>>
  BY DEF RecordRejected, Move, Locked, history
<1>1. TypeOK'
  BY <1>0 DEF failing, BreakerInv, TypeOK
<1>2. OnlyRelockBlocks'
  BY <1>0 DEF OnlyRelockBlocks
<1>3. /\ \A u \in Threads \ {t} : pc'[u] = pc[u] /\ then'[u] = then[u]
      /\ ~Counting(pc'[t], then'[t]) /\ Counting(pc[t], then[t])
  BY <1>0 DEF BreakerInv, TypeOK, Counting
<1>4. /\ stats_'.total_calls = stats_.total_calls + 0 + 0
      /\ stats_'.successful_calls = stats_.successful_calls + 0
      /\ stats_'.failed_calls = stats_.failed_calls + 0
      /\ stats_'.rejected_calls = stats_.rejected_calls + 1
      /\ stats_'.consecutive_failures = stats_.consecutive_failures
  BY <1>0 DEF BreakerInv, TypeOK
<1>5. CallAccounting'
  BY <1>0, <1>3, <1>4, CountedInv
<1>6. Consecutive'
  BY <1>0, <1>3, <1>4, ConsecutiveStays DEF failing
<1> QED BY <1>1, <1>2, <1>5, <1>6 DEF BreakerInv

\* The end of record_success and record_failure: mutex_ is free, or held by a thread
\* whose call has been counted.
LEMMA ConcludeInv ==
  ASSUME BreakerInv, NEW t \in Threads, NEW from \in {"success", "failure"},
         NEW change \in BOOLEAN, NEW new \in CircuitState, Conclude(t, from, change, new)
  PROVE  /\ OnlyRelockBlocks'
         /\ mutex_' \in Threads \cup {Nobody}
         /\ pc' \in [Threads -> Places] /\ new_state' \in [Threads -> CircuitState]
         /\ then' \in [Threads -> {"idle", "operate", "reset_stats"}]
         /\ \A u \in Threads \ {t} : pc'[u] = pc[u] /\ then'[u] = then[u]
         /\ Counting(pc[t], then[t]) /\ ~Counting(pc'[t], then'[t])
<1> USE BreakerAssumption DEF BreakerInv, TypeOK, Conclude, Move
<1>1. /\ mutex_' \in Threads \cup {Nobody}
      /\ pc' \in [Threads -> Places] /\ new_state' \in [Threads -> CircuitState]
      /\ then' \in [Threads -> {"idle", "operate", "reset_stats"}]
  BY DEF Places
<1>2. OnlyRelockBlocks'
  BY DEF OnlyRelockBlocks
<1>3. /\ \A u \in Threads \ {t} : pc'[u] = pc[u] /\ then'[u] = then[u]
      /\ Counting(pc[t], then[t]) /\ ~Counting(pc'[t], then'[t])
  BY DEF Counting
<1> QED BY <1>1, <1>2, <1>3

\* A success is counted, and ends a run of failures.
LEMMA SuccessInv ==
  ASSUME BreakerInv, NEW t \in Threads, RecordSuccess(t)
  PROVE  BreakerInv'
<1> DEFINE change == /\ state_ = "HALF_OPEN"
                     /\ stats_'.consecutive_successes >= config_.success_threshold
<1>0. /\ stats_' = Succeed(stats_) /\ Conclude(t, "success", change, "CLOSED")
      /\ run' = 0 /\ own' = 0 /\ spell' = 0 /\ trial' = trial + 1
      /\ UNCHANGED <<config_, state_, crashed, calls, forgotten, open_for>>
  BY DEF RecordSuccess
<1>1. /\ stats_' \in Statistics
      /\ stats_'.total_calls = stats_.total_calls + 1 + 0
      /\ stats_'.successful_calls = stats_.successful_calls + 1
      /\ stats_'.failed_calls = stats_.failed_calls + 0
      /\ stats_'.rejected_calls = stats_.rejected_calls + 0
      /\ stats_'.consecutive_failures = 0
  <2>1. stats_ \in Statistics
    BY DEF BreakerInv, TypeOK, Statistics
  <2>2. stats_' = Succeed(stats_)
    BY <1>0
  <2>3. /\ stats_.total_calls \in Nat /\ stats_.successful_calls \in Nat
        /\ stats_.failed_calls \in Nat /\ stats_.rejected_calls \in Nat
        /\ stats_.consecutive_failures \in Nat /\ stats_.consecutive_successes \in Nat
    BY <2>1 DEF Statistics
  <2>4. stats_' \in Statistics
    <3>1. ASSUME NEW i \in Nat, NEW j \in Nat, NEW k \in Nat
          PROVE  [stats_ EXCEPT !.total_calls = i, !.successful_calls = j,
                                !.consecutive_successes = k, !.consecutive_failures = 0] \in Statistics
      BY <2>1 DEF Statistics
    <3>2. /\ stats_.total_calls + 1 \in Nat /\ stats_.successful_calls + 1 \in Nat
          /\ stats_.consecutive_successes + 1 \in Nat
      BY <2>3
    <3> QED BY <2>2, <3>1, <3>2 DEF Succeed
  <2>5. /\ stats_'.total_calls = stats_.total_calls + 1
        /\ stats_'.successful_calls = stats_.successful_calls + 1
        /\ stats_'.failed_calls = stats_.failed_calls
        /\ stats_'.rejected_calls = stats_.rejected_calls
        /\ stats_'.consecutive_failures = 0
    BY <2>1, <2>2 DEF Succeed, Statistics
  <2> QED BY <2>3, <2>4, <2>5
<1>2. change \in BOOLEAN /\ "CLOSED" \in CircuitState
  BY DEF CircuitState
<1> HIDE DEF change
<1>3. /\ OnlyRelockBlocks'
      /\ mutex_' \in Threads \cup {Nobody}
      /\ pc' \in [Threads -> Places] /\ new_state' \in [Threads -> CircuitState]
      /\ then' \in [Threads -> {"idle", "operate", "reset_stats"}]
      /\ \A u \in Threads \ {t} : pc'[u] = pc[u] /\ then'[u] = then[u]
      /\ Counting(pc[t], then[t]) /\ ~Counting(pc'[t], then'[t])
  BY <1>0, <1>2, ConcludeInv
<1>4. TypeOK'
  BY <1>0, <1>1, <1>3 DEF BreakerInv, TypeOK, Statistics, Places
<1>5. CallAccounting'
  BY <1>0, <1>1, <1>3, CountedInv
<1>6. Consecutive'
  BY <1>0, <1>1 DEF Consecutive
<1> QED BY <1>3, <1>4, <1>5, <1>6 DEF BreakerInv

\* A failure is counted, and the run of failures is one longer.
LEMMA FailureInv ==
  ASSUME BreakerInv, NEW t \in Threads, RecordFailure(t)
  PROVE  BreakerInv'
<1> DEFINE change == /\ state_ \in {"CLOSED", "HALF_OPEN"}
                     /\ stats_'.consecutive_failures >= config_.failure_threshold
<1>0. /\ stats_' = Fail(stats_) /\ Conclude(t, "failure", change, "OPEN")
      /\ run' = run + 1 /\ own' = own + 1
      /\ UNCHANGED <<config_, state_, crashed, calls, forgotten, spell, trial, open_for>>
  BY DEF RecordFailure
<1>1. /\ stats_' \in Statistics
      /\ stats_'.total_calls = stats_.total_calls + 0 + 1
      /\ stats_'.successful_calls = stats_.successful_calls + 0
      /\ stats_'.failed_calls = stats_.failed_calls + 1
      /\ stats_'.rejected_calls = stats_.rejected_calls + 0
      /\ stats_'.consecutive_failures = stats_.consecutive_failures + 1
  <2>1. stats_ \in Statistics
    BY DEF BreakerInv, TypeOK, Statistics
  <2>2. stats_' = Fail(stats_)
    BY <1>0
  <2>3. /\ stats_.total_calls \in Nat /\ stats_.successful_calls \in Nat
        /\ stats_.failed_calls \in Nat /\ stats_.rejected_calls \in Nat
        /\ stats_.consecutive_failures \in Nat /\ stats_.consecutive_successes \in Nat
    BY <2>1 DEF Statistics
  <2>4. stats_' \in Statistics
    <3>1. ASSUME NEW i \in Nat, NEW j \in Nat, NEW k \in Nat
          PROVE  [stats_ EXCEPT !.total_calls = i, !.failed_calls = j,
                                !.consecutive_failures = k, !.consecutive_successes = 0] \in Statistics
      BY <2>1 DEF Statistics
    <3>2. /\ stats_.total_calls + 1 \in Nat /\ stats_.failed_calls + 1 \in Nat
          /\ stats_.consecutive_failures + 1 \in Nat
      BY <2>3
    <3> QED BY <2>2, <3>1, <3>2 DEF Fail
  <2>5. /\ stats_'.total_calls = stats_.total_calls + 1
        /\ stats_'.failed_calls = stats_.failed_calls + 1
        /\ stats_'.successful_calls = stats_.successful_calls
        /\ stats_'.rejected_calls = stats_.rejected_calls
        /\ stats_'.consecutive_failures = stats_.consecutive_failures + 1
    BY <2>1, <2>2 DEF Fail, Statistics
  <2> QED BY <2>3, <2>4, <2>5
<1>2. change \in BOOLEAN /\ "OPEN" \in CircuitState
  BY DEF CircuitState
<1> HIDE DEF change
<1>3. /\ OnlyRelockBlocks'
      /\ mutex_' \in Threads \cup {Nobody}
      /\ pc' \in [Threads -> Places] /\ new_state' \in [Threads -> CircuitState]
      /\ then' \in [Threads -> {"idle", "operate", "reset_stats"}]
      /\ \A u \in Threads \ {t} : pc'[u] = pc[u] /\ then'[u] = then[u]
      /\ Counting(pc[t], then[t]) /\ ~Counting(pc'[t], then'[t])
  BY <1>0, <1>2, ConcludeInv
<1>4. TypeOK'
  BY <1>0, <1>1, <1>3 DEF BreakerInv, TypeOK, Statistics, Places
<1>5. CallAccounting'
  BY <1>0, <1>1, <1>3, CountedInv
<1>6. Consecutive'
  <2>1. /\ stats_.consecutive_failures <= run /\ stats_.consecutive_failures \in Nat
        /\ run \in Nat /\ own \in Nat
        /\ state_ = "CLOSED" => stats_.consecutive_failures <= own \/ Closing
    BY DEF BreakerInv, Consecutive, TypeOK
  <2>2. pc[t] = "failure" /\ \A u \in Threads \ {t} : new_state'[u] = new_state[u]
    BY <1>0 DEF Conclude, Move, BreakerInv, TypeOK
  <2>3. Closing => Closing'
    BY <1>3, <2>2 DEF Closing
  <2> QED BY <1>0, <1>1, <2>1, <2>3 DEF Consecutive
<1> QED BY <1>3, <1>4, <1>5, <1>6 DEF BreakerInv

\* reset_stats: what was counted is moved to the history.
LEMMA ResetInv ==
  ASSUME BreakerInv, NEW t \in Threads, ResetStats(t)
  PROVE  BreakerInv'
<1> USE BreakerAssumption
<1>0. /\ pc[t] \in {"idle", "reset_stats"} /\ pc' = [pc EXCEPT ![t] = "idle"]
      /\ mutex_ = Nobody /\ mutex_' = Nobody
      /\ stats_' = Fresh(state_)
      /\ forgotten' = forgotten + stats_.total_calls + stats_.rejected_calls
      /\ UNCHANGED <<config_, state_, new_state, then, crashed, calls, failing, trial, open_for>>
  BY DEF ResetStats, Move, Locked
<1>1. /\ stats_' \in Statistics
      /\ stats_'.total_calls = 0 /\ stats_'.rejected_calls = 0
      /\ stats_'.successful_calls = 0 /\ stats_'.failed_calls = 0
      /\ stats_'.consecutive_failures = 0
  BY <1>0 DEF Fresh, BreakerInv, TypeOK, Statistics
<1>2. TypeOK'
  BY <1>0, <1>1 DEF failing, BreakerInv, TypeOK, Statistics
<1>3. OnlyRelockBlocks'
  BY <1>0 DEF OnlyRelockBlocks
<1>4. /\ \A u \in Threads \ {t} : pc'[u] = pc[u] /\ then'[u] = then[u]
      /\ Counting(pc'[t], then'[t]) <=> Counting(pc[t], then[t])
  BY <1>0 DEF BreakerInv, TypeOK, Counting
<1>5. Cardinality(InFlight') = Cardinality(InFlight) /\ Cardinality(InFlight) \in Nat
  BY <1>4, MoveInFlight DEF BreakerInv
<1>6. CallAccounting'
  <2>1. stats_.total_calls \in Nat /\ stats_.rejected_calls \in Nat /\ forgotten \in Nat
    BY DEF BreakerInv, TypeOK
  <2> QED BY <1>0, <1>1, <1>5, <2>1 DEF BreakerInv, CallAccounting
<1>7. Consecutive'
  BY <1>0, <1>1, <1>4, ConsecutiveStays DEF failing
<1> QED BY <1>2, <1>3, <1>6, <1>7 DEF BreakerInv

\* Time, a new configuration, and the end of the process.
LEMMA OthersInv ==
  ASSUME BreakerInv,
         \/ Tick
         \/ \E t \in Threads : Terminate(t) \/ \E config \in Configs : update_config(t, config)
  PROVE  BreakerInv'
<1> USE BreakerAssumption
<1>1. CASE Tick
  <2>1. /\ stats_' = [stats_ EXCEPT !.age = Older(@)] /\ open_for' = Older(open_for)
        /\ spell' = IF run = 0 THEN 0 ELSE Older(spell)
        /\ UNCHANGED <<config_, state_, mutex_, pc, new_state, then, crashed, calls,
                       forgotten, run, own, trial>>
    BY <1>1 DEF Tick, thread_vars
  <2>2. \A n \in Nat : Older(n) \in Nat
    BY DEF Older
  <2>3. /\ stats_' \in Statistics /\ open_for' \in Nat /\ spell' \in Nat
        /\ stats_'.total_calls = stats_.total_calls
        /\ stats_'.successful_calls = stats_.successful_calls
        /\ stats_'.failed_calls = stats_.failed_calls
        /\ stats_'.rejected_calls = stats_.rejected_calls
        /\ stats_'.consecutive_failures = stats_.consecutive_failures
    BY <2>1, <2>2 DEF BreakerInv, TypeOK, Statistics
  <2>4. TypeOK'
    BY <2>1, <2>3 DEF BreakerInv, TypeOK, Statistics
  <2>5. OnlyRelockBlocks' /\ CallAccounting' /\ Consecutive'
    BY <2>1, <2>3 DEF BreakerInv, OnlyRelockBlocks, CallAccounting, Consecutive, Closing, InFlight
  <2> QED BY <2>4, <2>5 DEF BreakerInv
<1>2. ASSUME NEW t \in Threads, Terminate(t) PROVE BreakerInv'
  BY <1>2 DEF Terminate, thread_vars, history, failing, BreakerInv, TypeOK, OnlyRelockBlocks,
              CallAccounting, Consecutive, Closing, InFlight
<1>3. ASSUME NEW t \in Threads, NEW config \in Configs, update_config(t, config)
      PROVE  BreakerInv'
  <2>1. pc' = pc
    BY <1>3 DEF update_config, Move, BreakerInv, TypeOK
  <2> QED BY <1>3, <2>1 DEF update_config, Locked, history, failing, BreakerInv, TypeOK,
             OnlyRelockBlocks, CallAccounting, Consecutive, Closing, InFlight
<1> QED BY <1>1, <1>2, <1>3

\* Every step of the breaker keeps BreakerInv.
LEMMA BreakerNext == BreakerInv /\ [Next]_vars => BreakerInv'
<1> SUFFICES ASSUME BreakerInv, [Next]_vars PROVE BreakerInv'
  OBVIOUS
<1>1. ASSUME NEW t \in Threads, Step(t) PROVE BreakerInv'
  BY <1>1, ExchangeInv, UpdateInv, WalkInv, RejectedInv, SuccessInv, FailureInv, ResetInv
     DEF Step
<1>2. ASSUME NEW t \in Threads, Call(t) PROVE BreakerInv'
  BY <1>2, ExecuteInv, WalkInv, ResetInv, OthersInv DEF Call
<1>3. CASE Tick \/ \E t \in Threads : Terminate(t)
  BY <1>3, OthersInv
<1>4. CASE UNCHANGED vars
  BY <1>4 DEF vars, thread_vars, history, failing, BreakerInv, TypeOK, OnlyRelockBlocks,
              CallAccounting, Consecutive, Closing, InFlight
<1> QED BY <1>1, <1>2, <1>3, <1>4 DEF Next

\* BreakerInv holds in every state.
THEOREM BreakerInvariance == Spec => []BreakerInv
<1> QED BY BreakerInit, BreakerNext, PTL DEF Spec

\* Every variable of the breaker keeps its type.
THEOREM BreakerTyped == Spec => []TypeOK
<1>1. BreakerInv => TypeOK
  BY DEF BreakerInv
<1> QED BY <1>1, BreakerInvariance, PTL

\* Each call of execute is counted exactly once, for any number of threads that
\* execute, trip, reset and configure the breaker.
THEOREM CallsCounted == Spec => []CallAccounting
<1>1. BreakerInv => CallAccounting
  BY DEF BreakerInv
<1> QED BY <1>1, BreakerInvariance, PTL

\* A thread that keeps mutex_ from the others is one that is about to lock it again in
\* transition_state, on behalf of record_success or record_failure.
THEOREM RelockOnly == Spec => []OnlyRelockBlocks
<1>1. BreakerInv => OnlyRelockBlocks
  BY DEF BreakerInv
<1> QED BY <1>1, BreakerInvariance, PTL

\* Only failures in a row open the circuit, as many as the threshold; and where no change
\* to CLOSED is half made, only those recorded since the circuit was closed.
THEOREM OpensInTime == Spec => NoEarlyOpen
<1>1. ASSUME BreakerInv, NEW t \in Threads, RecordFailure(t), mutex_' = t
      PROVE  /\ run' >= config_.failure_threshold
             /\ state_ = "CLOSED" /\ ~Closing => own' >= config_.failure_threshold
  <2>1. /\ stats_' = Fail(stats_) /\ run' = run + 1 /\ own' = own + 1
        /\ stats_'.consecutive_failures >= config_.failure_threshold
    BY <1>1, BreakerAssumption DEF RecordFailure, Conclude
  <2>2. stats_'.consecutive_failures = stats_.consecutive_failures + 1
    BY <1>1, <2>1 DEF Fail, BreakerInv, TypeOK
  <2>3. /\ stats_.consecutive_failures \in Nat /\ run \in Nat /\ own \in Nat
        /\ stats_.consecutive_failures <= run
        /\ state_ = "CLOSED" => stats_.consecutive_failures <= own \/ Closing
        /\ config_.failure_threshold \in Nat
    BY <1>1, BreakerAssumption DEF BreakerInv, TypeOK, Consecutive
  <2> QED BY <2>1, <2>2, <2>3
<1>2. BreakerInv /\ [Next]_vars
        => [\A t \in Threads : RecordFailure(t) /\ mutex_' = t =>
              /\ run' >= config_.failure_threshold
              /\ state_ = "CLOSED" /\ ~Closing => own' >= config_.failure_threshold]_vars
  BY <1>1
<1> QED BY <1>2, BreakerInvariance, PTL DEF Spec, NoEarlyOpen
=============================================================================
