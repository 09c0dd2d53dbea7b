-------------------------- MODULE ThreadPoolProofs --------------------------
(***************************************************************************)
(* Proofs about ThreadPool, for any number of workers, clients and tasks.  *)
(*                                                                         *)
(* Inv is inductive.  Beyond TypeOK, OnePlace and CountedTwice it says how  *)
(* stop_, the exit of the workers and the destructor go together, which    *)
(* ShutdownCompletes rests on, and that wait_all() owes only tasks that    *)
(* were accepted, which WaitGap rests on.                                  *)
(***************************************************************************)
EXTENDS ThreadPool, TLAPS, FiniteSetTheorems, SequenceTheorems

Elements(s) == {s[i] : i \in DOMAIN s}

Distinct(s) == \A i, j \in DOMAIN s : s[i] = s[j] => i = j

\* push() at the back adds its argument, and repeats nothing if it is new.
LEMMA AppendElements ==
  ASSUME NEW S, NEW s \in Seq(S), NEW t \in S
  PROVE  /\ Append(s, t) \in Seq(S)
         /\ Elements(Append(s, t)) = Elements(s) \cup {t}
         /\ Distinct(s) /\ t \notin Elements(s) => Distinct(Append(s, t))
<1> DEFINE n == Len(s)
<1>1. /\ Append(s, t) \in Seq(S)
      /\ DOMAIN Append(s, t) = 1..(n + 1)
      /\ DOMAIN s = 1..n
      /\ n \in Nat
      /\ \A i \in 1..n : Append(s, t)[i] = s[i]
      /\ Append(s, t)[n + 1] = t
  BY AppendProperties, LenProperties
<1>2. Elements(Append(s, t)) = Elements(s) \cup {t}
  BY <1>1 DEF Elements
<1>3. Distinct(s) /\ t \notin Elements(s) => Distinct(Append(s, t))
  BY <1>1 DEF Elements, Distinct
<1> QED BY <1>1, <1>2, <1>3

\* front() and pop() split the queue into its first task and the others.
LEMMA PopElements ==
  ASSUME NEW S, NEW s \in Seq(S), s # << >>
  PROVE  /\ Head(s) \in S
         /\ Tail(s) \in Seq(S)
         /\ Elements(s) = Elements(Tail(s)) \cup {Head(s)}
         /\ Distinct(s) => Distinct(Tail(s)) /\ Head(s) \notin Elements(Tail(s))
<1> DEFINE n == Len(s)
<1>1. /\ Head(s) \in S
      /\ Head(s) = s[1]
      /\ Tail(s) \in Seq(S)
      /\ DOMAIN Tail(s) = 1..(n - 1)
      /\ DOMAIN s = 1..n
      /\ n \in Nat \ {0}
      /\ \A i \in 1..(n - 1) : Tail(s)[i] = s[i + 1]
  BY HeadTailProperties, LenProperties, EmptySeq
<1>2. Elements(s) \subseteq Elements(Tail(s)) \cup {Head(s)}
  <2> SUFFICES ASSUME NEW i \in 1..n PROVE s[i] \in Elements(Tail(s)) \cup {Head(s)}
    BY <1>1 DEF Elements
  <2>1. CASE i = 1
    BY <2>1, <1>1
  <2>2. CASE i # 1
    <3>1. i - 1 \in 1..(n - 1) /\ Tail(s)[i - 1] = s[i]
      BY <2>2, <1>1
    <3> QED BY <3>1, <1>1 DEF Elements
  <2> QED BY <2>1, <2>2
<1>3. Elements(Tail(s)) \cup {Head(s)} \subseteq Elements(s)
  BY <1>1 DEF Elements
<1>4. Distinct(s) => Distinct(Tail(s)) /\ Head(s) \notin Elements(Tail(s))
  BY <1>1 DEF Elements, Distinct
<1> QED BY <1>1, <1>2, <1>3, <1>4

-----------------------------------------------------------------------------
(* The inductive invariant *)

\* A worker that has returned saw stop_ with an empty queue, and no task can be
\* enqueued after that; stop_ is set exactly when the destructor has begun, and
\* the destructor is over only when every worker has returned.
Shutdown ==
  /\ stop_ <=> joined # "alive"
  /\ \A w \in Workers : pc[w] = "exited" => stop_ /\ tasks_ = << >>
  /\ joined = "joined" => \A w \in Workers : pc[w] = "exited"

Owing == \A c \in Clients : owed[c] \subseteq accepted

Inv == TypeOK /\ OnePlace /\ Shutdown /\ Owing

\* A pool just built, with its workers started and nothing queued, satisfies Inv.
LEMMA InitInv == Init => Inv
<1> SUFFICES ASSUME Init PROVE Inv
  OBVIOUS
<1> USE DEF Init
<1>1. TypeOK
  BY EmptySeq DEF TypeOK, WorkerPC, NoTask
<1>2. OnePlace
  BY DEF OnePlace, Queued, Held, Holders
<1>3. Shutdown /\ Owing
  BY DEF Shutdown, Owing
<1> QED BY <1>1, <1>2, <1>3 DEF Inv

\* The steps that push, pop or move no task and touch no worker's place.
LEMMA QuietInv ==
  ASSUME Inv, UNCHANGED <<tasks_, pc, task, accepted, completed>>, TypeOK', Shutdown', Owing'
  PROVE  Inv'
<1>1. Queued' = Queued /\ Holders' = Holders
  BY DEF Queued, Holders
<1>2. Held' = Held
  BY <1>1 DEF Held
<1>3. OnePlace'
  BY <1>1, <1>2 DEF Inv, OnePlace
<1> QED BY <1>3 DEF Inv

\* Every step of enqueue(), the throw of a stopped pool included, keeps Inv.
LEMMA EnqueueInv ==
  ASSUME Inv, NEW x \in Clients \cup Workers, NEW t \in Tasks, Enqueue(x, t)
  PROVE  Inv'
<1> USE DEF Inv, Enqueue
<1>1. CASE stop_ /\ UNCHANGED <<tasks_, accepted, notifying>>
  <2>1. TypeOK' /\ Shutdown' /\ Owing'
    BY <1>1 DEF TypeOK, Shutdown, Owing
  <2> QED BY <1>1, <2>1, QuietInv
<1>2. CASE ~stop_ /\ tasks_' = Append(tasks_, t)
  <2>1. /\ tasks_' \in Seq(Tasks)
        /\ Queued' = Queued \cup {t}
        /\ t \notin Queued => \A i, j \in DOMAIN tasks_' : tasks_'[i] = tasks_'[j] => i = j
    BY <1>2, AppendElements DEF TypeOK, OnePlace, Queued, Distinct, Elements
  <2>2. TypeOK'
    BY <1>2, <2>1 DEF TypeOK, MayEnqueue, IdleClient, SpawningWorker
  <2>3. t \notin Queued \cup Held \cup completed
    BY DEF OnePlace
  <2>4. Held' = Held /\ Holders' = Holders /\ completed' = completed /\ accepted' = accepted \cup {t}
    BY <1>2 DEF Held, Holders
  <2>5. OnePlace'
    BY <2>1, <2>3, <2>4 DEF OnePlace
  <2>6. Shutdown' /\ Owing'
    BY <1>2 DEF Shutdown, Owing
  <2> QED BY <2>2, <2>5, <2>6
<1> QED BY <1>1, <1>2

\* A worker that goes from one place to another, both inside or both outside of
\* the places where it holds a task.
LEMMA WalkInv ==
  ASSUME Inv, NEW w \in Workers, NEW p \in WorkerPC \ {"exited"},
         pc' = [pc EXCEPT ![w] = p],
         \/ w \in Holders /\ p \in {"popped", "counted", "running"}
         \/ w \notin Holders /\ p \notin {"popped", "counted", "running"},
         w \in Holders => task' = task,
         \A v \in Workers \ {w} : task'[v] = task[v],
         UNCHANGED <<tasks_, stop_, joined, accepted, completed>>,
         joined # "joined",
         TypeOK', Owing'
  PROVE  Inv'
<1> USE DEF Inv
<1>1. Holders' = Holders
  BY DEF Holders, TypeOK
<1>2. \A v \in Holders : task'[v] = task[v]
  BY DEF Holders
<1>3. Held' = Held
  BY <1>1, <1>2 DEF Held
<1>4. OnePlace'
  BY <1>1, <1>2, <1>3 DEF OnePlace, Queued
<1>5. Shutdown'
  BY DEF Shutdown, TypeOK
<1> QED BY <1>4, <1>5

\* The destructor returns only when every worker has left its loop, so while
\* one has not, `joined' is still FALSE.
LEMMA NotJoined ==
  ASSUME Inv, NEW w \in Workers, pc[w] # "exited"
  PROVE  joined # "joined"
BY DEF Inv, Shutdown

\* A worker that gets queue_mutex_ and evaluates the predicate keeps Inv: it
\* pops the first task, leaves the loop, or sleeps.
LEMMA AcquireInv ==
  ASSUME Inv, NEW w \in Workers, Acquire(w)
  PROVE  Inv'
<1> USE DEF Inv, Acquire
<1>0. joined # "joined" /\ w \notin Holders
  BY NotJoined DEF Holders
<1>1. CASE ~MayExit /\ PopTask(w)
  <2> USE <1>1 DEF PopTask
  <2> DEFINE t == Head(tasks_)
  <2>0. tasks_ \in Seq(Tasks) /\ tasks_ # << >> /\ Distinct(tasks_)
    BY DEF TypeOK, OnePlace, Distinct
  <2>1. /\ t \in Tasks
        /\ tasks_' \in Seq(Tasks)
        /\ Queued = Queued' \cup {t}
        /\ t \notin Queued'
        /\ \A i, j \in DOMAIN tasks_' : tasks_'[i] = tasks_'[j] => i = j
    <3>1. /\ t \in Tasks
          /\ tasks_' \in Seq(Tasks)
          /\ Elements(tasks_) = Elements(tasks_') \cup {t}
          /\ Distinct(tasks_') /\ t \notin Elements(tasks_')
      BY <2>0, PopElements
    <3> QED BY <3>1 DEF Queued, Distinct, Elements
  <2>2. TypeOK'
    BY <2>1 DEF TypeOK, WorkerPC
  <2>3. /\ Holders' = Holders \cup {w}
        /\ task'[w] = t
        /\ \A v \in Holders : task'[v] = task[v]
    BY <1>0 DEF Holders, TypeOK
  <2>4. Held' = Held \cup {t}
    BY <2>3 DEF Held
  <2>5. t \notin Held
    BY <2>1 DEF OnePlace
  <2>6. \A u, v \in Holders' : task'[u] = task'[v] => u = v
    BY <2>3, <2>5 DEF OnePlace, Held
  <2>7. OnePlace'
    BY <2>1, <2>4, <2>5, <2>6 DEF OnePlace
  <2>8. Shutdown' /\ Owing'
    BY <1>0 DEF Shutdown, Owing, TypeOK
  <2> QED BY <2>2, <2>7, <2>8
<1>2. CASE MayExit /\ pc' = [pc EXCEPT ![w] = "exited"] /\ UNCHANGED <<tasks_, task>>
  <2>1. TypeOK'
    BY <1>2 DEF TypeOK, WorkerPC
  <2>2. Holders' = Holders
    BY <1>2, <1>0 DEF Holders, TypeOK
  <2>3. OnePlace'
    BY <1>2, <2>2 DEF OnePlace, Queued, Held
  <2>4. Shutdown' /\ Owing'
    BY <1>2, <1>0 DEF Shutdown, Owing, MayExit, TypeOK
  <2> QED BY <2>1, <2>3, <2>4
<1>3. CASE ~stop_ /\ tasks_ = << >> /\ pc' = [pc EXCEPT ![w] = "asleep"] /\ UNCHANGED <<tasks_, task>>
  <2>1. TypeOK' /\ Owing'
    BY <1>3 DEF TypeOK, WorkerPC, Owing
  <2> QED BY <1>0, <1>3, <2>1, WalkInv DEF WorkerPC
<1> QED BY <1>1, <1>2, <1>3

\* A wakeup nobody asked for moves a sleeper to the mutex and keeps Inv.
LEMMA SpuriousWakeupInv ==
  ASSUME Inv, NEW w \in Workers, SpuriousWakeup(w)
  PROVE  Inv'
<1> USE DEF Inv, SpuriousWakeup
<1>1. TypeOK' /\ Owing' /\ joined # "joined" /\ w \notin Holders
  BY NotJoined DEF TypeOK, WorkerPC, Owing, Holders
<1> QED BY <1>1, WalkInv DEF WorkerPC

\* Both notifications wake sleeping workers and nothing else.
LEMMA WakeInv ==
  ASSUME Inv, pc' \in [Workers -> WorkerPC],
         \A w \in Workers : pc'[w] = pc[w] \/ (pc[w] = "asleep" /\ pc'[w] = "ready"),
         UNCHANGED <<tasks_, stop_, active_tasks_, task, waiting,
                     accepted, refused, completed, owed>>,
         notifying' \subseteq notifying,
         joined' = joined \/ (joined = "stopped" /\ joined' = "notified")
  PROVE  Inv'
<1> USE DEF Inv
<1>1. Holders' = Holders
  BY DEF Holders
<1>2. OnePlace'
  BY <1>1 DEF OnePlace, Queued, Held
<1>3. TypeOK' /\ Owing'
  BY DEF TypeOK, Owing
<1>4. Shutdown'
  BY DEF Shutdown
<1> QED BY <1>2, <1>3, <1>4

\* notify_one() keeps Inv.
LEMMA NotifyInv ==
  ASSUME Inv, NEW x \in Clients \cup Workers, Notify(x)
  PROVE  Inv'
<1>1. pc' \in [Workers -> WorkerPC]
  BY DEF Inv, TypeOK, Notify, WakeOne, WorkerPC
<1>2. \A w \in Workers : pc'[w] = pc[w] \/ (pc[w] = "asleep" /\ pc'[w] = "ready")
  BY DEF Inv, TypeOK, Notify, WakeOne
<1> QED BY <1>1, <1>2, WakeInv DEF Notify

\* notify_all() in the destructor keeps Inv.
LEMMA NotifyAllInv ==
  ASSUME Inv, NotifyAll
  PROVE  Inv'
<1>1. pc' \in [Workers -> WorkerPC]
  BY DEF Inv, TypeOK, NotifyAll, WorkerPC
<1>2. \A w \in Workers : pc'[w] = pc[w] \/ (pc[w] = "asleep" /\ pc'[w] = "ready")
  BY DEF Inv, TypeOK, NotifyAll
<1> QED BY <1>1, <1>2, WakeInv DEF NotifyAll

\* The four steps of a worker that change active_tasks_, whose range is the
\* subject of ActiveStep below.
LEMMA CountersInv ==
  ASSUME Inv, active_tasks_' \in Nat, NEW w \in Workers,
         Count(w) \/ WrapperCount(w) \/ WrapperUncount(w) \/ Uncount(w)
  PROVE  Inv'
<1> USE DEF Inv
<1>0. joined # "joined"
  BY NotJoined DEF Count, WrapperCount, WrapperUncount, Uncount
<1>1. TypeOK' /\ Owing'
  BY DEF TypeOK, Owing, WorkerPC, Count, WrapperCount, WrapperUncount, Uncount
<1>2. CASE Count(w)
  <2>1. w \in Holders
    BY <1>2 DEF Count, Holders
  <2> QED BY <1>0, <1>1, <1>2, <2>1, WalkInv DEF Count, WorkerPC
<1>3. CASE WrapperCount(w)
  <2>1. w \in Holders
    BY <1>3 DEF WrapperCount, Holders
  <2> QED BY <1>0, <1>1, <1>3, <2>1, WalkInv DEF WrapperCount, WorkerPC
<1>4. CASE WrapperUncount(w)
  <2>1. w \notin Holders
    BY <1>4 DEF WrapperUncount, Holders
  <2> QED BY <1>0, <1>1, <1>4, <2>1, WalkInv DEF WrapperUncount, WorkerPC
<1>5. CASE Uncount(w)
  <2>1. w \notin Holders
    BY <1>5 DEF Uncount, Holders
  <2>2. \A v \in Workers \ {w} : task'[v] = task[v]
    BY <1>5 DEF Uncount, TypeOK
  <2> QED BY <1>0, <1>1, <1>5, <2>1, <2>2, WalkInv DEF Uncount, WorkerPC
<1> QED BY <1>2, <1>3, <1>4, <1>5

\* Running a task, which may enqueue others through a client, keeps Inv.
LEMMA RunInv ==
  ASSUME Inv, NEW w \in Workers, Run(w)
  PROVE  Inv'
<1> USE DEF Inv, Run
<1>1. w \in Holders /\ joined # "joined"
  BY NotJoined DEF Holders
<1>2. task[w] \in Held /\ task[w] \in Tasks
  BY <1>1 DEF Held, OnePlace, TypeOK
<1>3. Holders' = Holders \ {w}
  BY DEF Holders, TypeOK
<1>4. Held' = Held \ {task[w]}
  BY <1>1, <1>3 DEF Held, OnePlace
<1>5. Queued' = Queued /\ completed' = completed \cup {task[w]}
  BY DEF Queued
<1>6. OnePlace'
  BY <1>2, <1>3, <1>4, <1>5 DEF OnePlace
<1>7. TypeOK' /\ Owing'
  BY <1>2 DEF TypeOK, Owing, WorkerPC
<1>8. Shutdown'
  BY <1>1 DEF Shutdown, TypeOK
<1> QED BY <1>6, <1>7, <1>8

\* wait_all() and the first and last steps of the destructor.
LEMMA ClientInv ==
  ASSUME Inv,
         \/ \E c \in Clients : WaitCall(c) \/ WaitReturn(c)
         \/ Stop \/ Join
  PROVE  Inv'
<1> USE DEF Inv
<1>1. ASSUME NEW c \in Clients, WaitCall(c) PROVE Inv'
  <2>1. TypeOK' /\ Shutdown' /\ Owing'
    BY <1>1 DEF WaitCall, IdleClient, TypeOK, Shutdown, Owing
  <2> QED BY <1>1, <2>1, QuietInv DEF WaitCall
<1>2. ASSUME NEW c \in Clients, WaitReturn(c) PROVE Inv'
  <2>1. TypeOK' /\ Shutdown' /\ Owing'
    BY <1>2 DEF WaitReturn, TypeOK, Shutdown, Owing
  <2> QED BY <1>2, <2>1, QuietInv DEF WaitReturn
<1>3. CASE Stop
  <2>1. TypeOK' /\ Shutdown' /\ Owing'
    BY <1>3 DEF Stop, TypeOK, Shutdown, Owing
  <2> QED BY <1>3, <2>1, QuietInv DEF Stop
<1>4. CASE Join
  <2>1. TypeOK' /\ Shutdown' /\ Owing'
    BY <1>4 DEF Join, TypeOK, Shutdown, Owing
  <2> QED BY <1>4, <2>1, QuietInv DEF Join
<1> QED BY <1>1, <1>2, <1>3, <1>4

\* Every step of the pool and of its clients keeps Inv.
LEMMA NextInv ==
  ASSUME Inv, [Next]_vars, active_tasks_' \in Nat
  PROVE  Inv'
<1>1. CASE Next
  <2>1. CASE \E x \in Clients \cup Workers, t \in Tasks : Enqueue(x, t)
    BY <2>1, EnqueueInv
  <2>2. CASE \E x \in Clients \cup Workers : Notify(x)
    BY <2>2, NotifyInv
  <2>3. CASE \E w \in Workers : WorkerStep(w) \/ SpuriousWakeup(w)
    BY <2>3, AcquireInv, CountersInv, RunInv, SpuriousWakeupInv DEF WorkerStep
  <2>4. CASE (\E c \in Clients : WaitCall(c) \/ WaitReturn(c)) \/ Stop \/ Join
    BY <2>4, ClientInv
  <2>5. CASE NotifyAll
    BY <2>5, NotifyAllInv
  <2> QED BY <1>1, <2>1, <2>2, <2>3, <2>4, <2>5 DEF Next
<1>2. CASE UNCHANGED vars
  <2>1. TypeOK' /\ Shutdown' /\ Owing'
    BY <1>2 DEF vars, Inv, TypeOK, Shutdown, Owing
  <2> QED BY <1>2, <2>1, QuietInv DEF vars
<1> QED BY <1>1, <1>2

-----------------------------------------------------------------------------
(* active_tasks_ *)

\* The sets whose sizes add up to active_tasks_ are finite.
LEMMA FiniteCounts ==
  /\ IsFiniteSet(Counting) /\ Cardinality(Counting) \in Nat
  /\ IsFiniteSet(Wrapping) /\ Cardinality(Wrapping) \in Nat
<1>1. Counting \subseteq Workers /\ Wrapping \subseteq Workers
  BY DEF Counting, Wrapping
<1>2. IsFiniteSet(Counting) /\ IsFiniteSet(Wrapping)
  BY <1>1, PoolAssumption, FS_Subset
<1> QED BY <1>2, FS_CardinalityType

\* A worker in Counting is counted, so its decrement does not wrap.
LEMMA ActiveStep ==
  ASSUME TypeOK, CountedTwice, [Next]_vars
  PROVE  CountedTwice' /\ active_tasks_' \in Nat
<1> USE DEF CountedTwice
<1>1. ASSUME NEW w \in Workers, Count(w) PROVE CountedTwice' /\ active_tasks_' \in Nat
  <2>1. Counting' = Counting \cup {w} /\ w \notin Counting /\ Wrapping' = Wrapping
    BY <1>1 DEF Count, Counting, Wrapping, TypeOK
  <2>2. Cardinality(Counting') = Cardinality(Counting) + 1
    BY <2>1, FiniteCounts, FS_AddElement
  <2> QED BY <1>1, <2>1, <2>2, FiniteCounts DEF Count
<1>2. ASSUME NEW w \in Workers, WrapperCount(w) PROVE CountedTwice' /\ active_tasks_' \in Nat
  <2>1. Wrapping' = Wrapping \cup {w} /\ w \notin Wrapping /\ Counting' = Counting
    BY <1>2 DEF WrapperCount, Counting, Wrapping, TypeOK
  <2>2. Cardinality(Wrapping') = Cardinality(Wrapping) + 1
    BY <2>1, FiniteCounts, FS_AddElement
  <2> QED BY <1>2, <2>1, <2>2, FiniteCounts DEF WrapperCount
<1>3. ASSUME NEW w \in Workers, WrapperUncount(w) PROVE CountedTwice' /\ active_tasks_' \in Nat
  <2>1. Wrapping' = Wrapping \ {w} /\ w \in Wrapping /\ Counting' = Counting
    BY <1>3 DEF WrapperUncount, Counting, Wrapping, TypeOK
  <2>2. Cardinality(Wrapping) # 0
    BY <2>1, FiniteCounts, FS_EmptySet
  <2>3. Cardinality(Wrapping') = Cardinality(Wrapping) - 1
    BY <2>1, FiniteCounts, FS_RemoveElement
  <2> QED BY <1>3, <2>1, <2>2, <2>3, FiniteCounts DEF WrapperUncount
<1>4. ASSUME NEW w \in Workers, Uncount(w) PROVE CountedTwice' /\ active_tasks_' \in Nat
  <2>1. Counting' = Counting \ {w} /\ w \in Counting /\ Wrapping' = Wrapping
    BY <1>4 DEF Uncount, Counting, Wrapping, TypeOK
  <2>2. Cardinality(Counting) # 0
    BY <2>1, FiniteCounts, FS_EmptySet
  <2>3. Cardinality(Counting') = Cardinality(Counting) - 1
    BY <2>1, FiniteCounts, FS_RemoveElement
  <2> QED BY <1>4, <2>1, <2>2, <2>3, FiniteCounts DEF Uncount
<1> DEFINE Harmless(w) ==
       \/ pc'[w] = pc[w]
       \/ /\ pc[w] \in {"ready", "asleep"}
          /\ pc'[w] \in {"ready", "asleep", "popped", "exited"}
       \/ pc[w] = "running" /\ pc'[w] = "ran"
<1>5. ASSUME UNCHANGED active_tasks_, \A w \in Workers : Harmless(w)
      PROVE CountedTwice' /\ active_tasks_' \in Nat
  <2>1. Counting' = Counting /\ Wrapping' = Wrapping
    BY <1>5 DEF Counting, Wrapping
  <2> QED BY <1>5, <2>1 DEF TypeOK
<1>6. ASSUME NEW w \in Workers, Acquire(w) \/ Run(w) \/ SpuriousWakeup(w)
      PROVE CountedTwice' /\ active_tasks_' \in Nat
  <2>1. UNCHANGED active_tasks_ /\ \A v \in Workers : Harmless(v)
    BY <1>6 DEF Acquire, PopTask, Run, SpuriousWakeup, TypeOK
  <2> HIDE DEF Harmless
  <2> QED BY <1>5, <2>1
<1>7. ASSUME NEW x \in Clients \cup Workers, Notify(x)
      PROVE CountedTwice' /\ active_tasks_' \in Nat
  <2>1. UNCHANGED active_tasks_ /\ \A v \in Workers : Harmless(v)
    BY <1>7 DEF Notify, WakeOne, TypeOK
  <2> HIDE DEF Harmless
  <2> QED BY <1>5, <2>1
<1>8. CASE NotifyAll
  <2>1. UNCHANGED active_tasks_ /\ \A v \in Workers : Harmless(v)
    BY <1>8 DEF NotifyAll, TypeOK
  <2> HIDE DEF Harmless
  <2> QED BY <1>5, <2>1
<1>9. CASE UNCHANGED <<active_tasks_, pc>>
  <2>1. UNCHANGED active_tasks_ /\ \A v \in Workers : Harmless(v)
    BY <1>9
  <2> HIDE DEF Harmless
  <2> QED BY <1>5, <2>1
<1>10. CASE Next
  <2>1. ASSUME NEW x \in Clients \cup Workers, NEW t \in Tasks, Enqueue(x, t)
        PROVE UNCHANGED <<active_tasks_, pc>>
    BY <2>1 DEF Enqueue
  <2>2. ASSUME NEW c \in Clients, WaitCall(c) \/ WaitReturn(c)
        PROVE UNCHANGED <<active_tasks_, pc>>
    BY <2>2 DEF WaitCall, WaitReturn
  <2>3. ASSUME Stop \/ Join PROVE UNCHANGED <<active_tasks_, pc>>
    BY <2>3 DEF Stop, Join
  <2> QED BY <1>1, <1>2, <1>3, <1>4, <1>6, <1>7, <1>8, <1>9, <1>10, <2>1, <2>2, <2>3
          DEF Next, WorkerStep
<1>11. CASE UNCHANGED vars
  BY <1>9, <1>11 DEF vars
<1> QED BY <1>10, <1>11

-----------------------------------------------------------------------------
(* Theorems *)

\* The inductive invariant: Inv by NextInv, and with its help the count that
\* active_tasks_ keeps by ActiveStep.
THEOREM Invariance == Spec => [](Inv /\ CountedTwice)
<1>1. Init => Inv /\ CountedTwice
  <2>1. ASSUME Init PROVE CountedTwice
    <3>1. Counting = {} /\ Wrapping = {}
      BY <2>1 DEF Init, Counting, Wrapping
    <3> QED BY <2>1, <3>1, FS_EmptySet DEF Init, CountedTwice
  <2> QED BY <2>1, InitInv
<1>2. Inv /\ CountedTwice /\ [Next]_vars => (Inv /\ CountedTwice)'
  <2>1. ASSUME Inv, CountedTwice, [Next]_vars PROVE Inv' /\ CountedTwice'
    <3>1. CountedTwice' /\ active_tasks_' \in Nat
      BY <2>1, ActiveStep DEF Inv
    <3> QED BY <2>1, <3>1, NextInv
  <2> QED BY <2>1
<1> QED BY <1>1, <1>2, PTL DEF Spec

\* The variables of the pool keep their types; active_tasks_ never wraps.
THEOREM TypeCorrect == Spec => []TypeOK
BY Invariance, PTL DEF Inv

\* No task that enqueue() took is lost, duplicated or run twice.
THEOREM NoTaskLost == Spec => []OnePlace
BY Invariance, PTL DEF Inv

\* get_active_count() is off from the number of running tasks in the way that
\* CountedTwice states, and in no other.
THEOREM CountIsTwofold == Spec => []CountedTwice
BY Invariance, PTL

\* When ~DMAThreadPool returns, every task that enqueue() took has run.
THEOREM ShutdownIsComplete == Spec => []ShutdownCompletes
<1>1. Inv => ShutdownCompletes
  <2> SUFFICES ASSUME Inv, joined = "joined" PROVE completed = accepted
    BY DEF ShutdownCompletes
  <2>1. tasks_ = << >> /\ Holders = {}
    BY PoolAssumption DEF Inv, Shutdown, Holders
  <2>2. Queued = {} /\ Held = {}
    BY <2>1 DEF Queued, Held
  <2> QED BY <2>2 DEF Inv, OnePlace
<1> QED BY <1>1, Invariance, PTL

\* The only task wait_all() can miss is one just popped and not counted yet.
THEOREM WaitGapOnly == Spec => WaitGap
<1> DEFINE Gap == \A c \in Clients : WaitReturn(c) =>
       owed[c] \ completed \subseteq {task[w] : w \in {v \in Workers : pc[v] = "popped"}}
<1>1. Inv /\ CountedTwice => Gap
  <2> SUFFICES ASSUME Inv, CountedTwice, NEW c \in Clients, WaitReturn(c)
               PROVE owed[c] \ completed \subseteq {task[w] : w \in {v \in Workers : pc[v] = "popped"}}
    OBVIOUS
  <2>1. tasks_ = << >> /\ active_tasks_ = 0
    BY DEF WaitReturn, AllDone
  <2>2. Queued = {}
    BY <2>1 DEF Queued
  <2>3. Counting = {}
    <3>1. Cardinality(Counting) = 0
      BY <2>1, FiniteCounts DEF CountedTwice
    <3> QED BY <3>1, FiniteCounts, FS_EmptySet
  <2>4. \A w \in Holders : pc[w] = "popped"
    BY <2>3 DEF Holders, Counting
  <2>5. Held \subseteq {task[w] : w \in {v \in Workers : pc[v] = "popped"}}
    BY <2>4 DEF Held, Holders
  <2>6. owed[c] \subseteq Held \cup completed
    BY <2>2 DEF Inv, OnePlace, Owing
  <2> QED BY <2>5, <2>6
<1>2. Inv /\ CountedTwice => [Gap]_vars
  BY <1>1
<1> QED BY <1>2, Invariance, PTL DEF WaitGap

-----------------------------------------------------------------------------
(* ThreadPool implements TaskBag *)

\* A step that leaves the histories and the stage of the destructor alone, as far as the
\* bag can see them, is a stutter of the bag.
LEMMA BagStutter ==
  ASSUME UNCHANGED <<accepted, completed, refused, Open>>
  PROVE  UNCHANGED Bag!bag_vars
BY DEF Bag!bag_vars

\* enqueue() takes the task or turns it away, as the destructor has begun or not.
LEMMA BagEnqueue ==
  ASSUME Inv, NEW x \in Clients \cup Workers, NEW t \in Tasks, Enqueue(x, t)
  PROVE  Bag!Take(t) \/ Bag!TurnAway(t)
<1> USE DEF Inv, Enqueue
<1>1. joined # "joined" /\ Open' = Open
  BY DEF MayEnqueue, IdleClient, SpawningWorker, Shutdown, Open
<1>2. Bag!Fresh(t)
  BY DEF Bag!Fresh, OnePlace
<1>3. CASE stop_ /\ refused' = refused \cup {t} /\ UNCHANGED accepted
  <2>1. Open = "closing"
    BY <1>1, <1>3 DEF Shutdown, Open
  <2> QED BY <1>1, <1>2, <1>3, <2>1 DEF Bag!TurnAway
<1>4. CASE ~stop_ /\ accepted' = accepted \cup {t} /\ UNCHANGED refused
  <2>1. Open = "open"
    BY <1>4 DEF Shutdown, Open
  <2>2. accepted' \ completed' = (accepted \ completed) \cup {t}
    BY <1>4 DEF OnePlace
  <2> QED BY <1>1, <1>2, <1>4, <2>1, <2>2 DEF Bag!Take
<1> QED BY <1>3, <1>4

\* A worker runs a task that was to do.
LEMMA BagRun ==
  ASSUME Inv, NEW w \in Workers, Run(w)
  PROVE  task[w] \in Tasks /\ Bag!RunTask(task[w])
<1> USE DEF Inv, Run
<1>1. task[w] \in Held
  BY DEF Held, Holders
<1>2. task[w] \in accepted /\ task[w] \notin completed /\ task[w] \in Tasks
  BY <1>1 DEF OnePlace, TypeOK
<1>3. Open' = Open
  BY DEF Open
<1> QED BY <1>2, <1>3 DEF Bag!RunTask

\* When every worker has returned nothing is left to do.
LEMMA BagClose ==
  ASSUME Inv, Join
  PROVE  Bag!Close
<1>1. tasks_ = << >> /\ Holders = {}
  BY PoolAssumption DEF Inv, Shutdown, Holders, Join
<1>2. Queued = {} /\ Held = {}
  BY <1>1 DEF Queued, Held
<1>3. accepted \ completed = {}
  BY <1>2 DEF Inv, OnePlace
<1>4. Open = "closing" /\ Open' = "closed"
  BY DEF Join, Open
<1> QED BY <1>3, <1>4 DEF Bag!Close, Join

\* The pool implements TaskBag, for any number of workers, clients and tasks.
THEOREM PoolImplementsBag == Spec => ImplementsBag
<1>1. Init => Bag!Init
  BY DEF Init, Bag!Init, Open
<1>2. ASSUME Inv, [Next]_vars PROVE [Bag!Next]_(Bag!bag_vars)
  <2>1. ASSUME NEW x \in Clients \cup Workers, NEW t \in Tasks, Enqueue(x, t) PROVE Bag!Next
    BY <1>2, <2>1, BagEnqueue DEF Bag!Next
  <2>2. ASSUME NEW w \in Workers, Run(w) PROVE Bag!Next
    BY <1>2, <2>2, BagRun DEF Bag!Next
  <2>3. CASE Stop
    <3>1. Open = "open" /\ Open' = "closing"
      BY <2>3 DEF Stop, Open
    <3> QED BY <2>3, <3>1 DEF Stop, Bag!Next, Bag!BeginClose
  <2>4. CASE Join
    BY <1>2, <2>4, BagClose DEF Bag!Next
  <2>5. CASE UNCHANGED <<accepted, completed, refused, Open>>
    BY <2>5, BagStutter
  <2>6. CASE NotifyAll
    BY <2>5, <2>6 DEF NotifyAll, Open
  <2>7. CASE UNCHANGED <<accepted, completed, refused, joined>>
    BY <2>5, <2>7 DEF Open
  <2>8. ASSUME NEW w \in Workers, Acquire(w) \/ Count(w) \/ WrapperCount(w)
                   \/ WrapperUncount(w) \/ Uncount(w) \/ SpuriousWakeup(w)
        PROVE UNCHANGED <<accepted, completed, refused, joined>>
    BY <2>8 DEF Acquire, Count, WrapperCount, WrapperUncount, Uncount, SpuriousWakeup
  <2>9. ASSUME NEW x \in Clients \cup Workers, Notify(x)
        PROVE UNCHANGED <<accepted, completed, refused, joined>>
    BY <2>9 DEF Notify
  <2>10. ASSUME NEW c \in Clients, WaitCall(c) \/ WaitReturn(c)
         PROVE UNCHANGED <<accepted, completed, refused, joined>>
    BY <2>10 DEF WaitCall, WaitReturn
  <2>11. CASE UNCHANGED vars
    BY <2>7, <2>11 DEF vars
  <2> QED BY <1>2, <2>1, <2>2, <2>3, <2>4, <2>6, <2>7, <2>8, <2>9, <2>10, <2>11
          DEF Next, WorkerStep
<1> QED BY <1>1, <1>2, Invariance, PTL DEF Spec, ImplementsBag, Bag!Spec
=============================================================================
