----------------------------- MODULE ThreadPool -----------------------------
(***************************************************************************)
(* ArgoSentry::Async::DMAThreadPool (src/src/async.cpp, async.hh): a FIFO  *)
(* of tasks, workers that pop and run them, wait_all() and the destructor. *)
(*                                                                         *)
(* Grain.  A step is one critical section of queue_mutex_, one access to   *)
(* active_tasks_, or the body of a task.  Both the worker's wait predicate *)
(* and going to sleep are one step: stop_ and tasks_ change only under     *)
(* queue_mutex_.                                                           *)
(***************************************************************************)
EXTENDS Naturals, Sequences, FiniteSets

CONSTANTS
  Workers,   \* workers_
  Clients,   \* threads that own or use the pool
  Tasks,     \* every callable that may be enqueued, each at most once
  Spawning   \* the tasks whose body may enqueue other tasks

ASSUME PoolAssumption ==
  /\ IsFiniteSet(Workers)
  /\ Workers # {}
  /\ Workers \cap Clients = {}
  /\ Spawning \subseteq Tasks

VARIABLES
  tasks_, stop_, active_tasks_,
  pc,         \* each worker: its place in the worker loop
  task,       \* each worker: the task it has popped
  notifying,  \* threads inside enqueue(), between push and notify_one
  waiting,    \* clients inside wait_all()
  joined,     \* ~DMAThreadPool: "alive", "stopped", "notified", "joined"
  accepted,   \* history: tasks enqueue() took
  refused,    \* history: tasks enqueue() threw for
  completed,  \* history: tasks whose body has run
  owed        \* history: unfinished tasks when a client called wait_all()

vars == <<tasks_, stop_, active_tasks_, pc, task, notifying, waiting, joined,
          accepted, refused, completed, owed>>

NoTask == {}

WorkerPC == {"ready", "asleep", "popped", "counted", "running", "ran", "unwrapped", "exited"}

\* The tasks in the queue.
Queued == {tasks_[i] : i \in DOMAIN tasks_}

\* The workers between popping a task and the end of its body.
Holders == {w \in Workers : pc[w] \in {"popped", "counted", "running"}}

Held == {task[w] : w \in Holders}

Init ==
  /\ tasks_ = << >>
  /\ stop_ = FALSE
  /\ active_tasks_ = 0
  /\ pc = [w \in Workers |-> "ready"]
  /\ task = [w \in Workers |-> NoTask]
  /\ notifying = {}
  /\ waiting = {}
  /\ joined = "alive"
  /\ accepted = {}
  /\ refused = {}
  /\ completed = {}
  /\ owed = [c \in Clients |-> {}]

-----------------------------------------------------------------------------
(* enqueue: called by a client, or by a task from inside the pool *)

\* A client uses the pool only before it begins to destroy it.
IdleClient(x) == x \in Clients /\ x \notin waiting /\ joined = "alive"

\* A task that enqueues runs on a worker.
SpawningWorker(x) == x \in Workers /\ pc[x] = "running" /\ task[x] \in Spawning

MayEnqueue(x) == (IdleClient(x) \/ SpawningWorker(x)) /\ x \notin notifying

\* Push under queue_mutex_; a stopped pool throws.
Enqueue(x, t) ==
  /\ MayEnqueue(x)
  /\ t \notin accepted \cup refused
  /\ \/ /\ stop_
        /\ refused' = refused \cup {t}
        /\ UNCHANGED <<tasks_, accepted, notifying>>
     \/ /\ ~stop_
        /\ tasks_' = Append(tasks_, t)
        /\ accepted' = accepted \cup {t}
        /\ notifying' = notifying \cup {x}
        /\ UNCHANGED refused
  /\ UNCHANGED <<stop_, active_tasks_, pc, task, waiting, joined, completed, owed>>

\* Mutant of WakeOne: the notification is forgotten.
WakeNone == UNCHANGED pc

\* condition_.notify_one(): some sleeping worker, if there is one, becomes ready.
WakeOne ==
  \/ \E w \in Workers : pc[w] = "asleep" /\ pc' = [pc EXCEPT ![w] = "ready"]
  \/ (\A w \in Workers : pc[w] # "asleep") /\ UNCHANGED pc

\* notify_one after queue_mutex_ is released; enqueue returns.
Notify(x) ==
  /\ x \in notifying
  /\ WakeOne
  /\ notifying' = notifying \ {x}
  /\ UNCHANGED <<tasks_, stop_, active_tasks_, task, waiting, joined,
                 accepted, refused, completed, owed>>

-----------------------------------------------------------------------------
(* The worker loop *)

\* Mutant of PopTask: the task is copied and not popped.
CopyTask(w) ==
  /\ tasks_ # << >>
  /\ task' = [task EXCEPT ![w] = Head(tasks_)]
  /\ pc' = [pc EXCEPT ![w] = "popped"]
  /\ UNCHANGED tasks_

\* Move the front task out of the queue; queue_mutex_ is released next.
PopTask(w) ==
  /\ tasks_ # << >>
  /\ tasks_' = Tail(tasks_)
  /\ task' = [task EXCEPT ![w] = Head(tasks_)]
  /\ pc' = [pc EXCEPT ![w] = "popped"]

\* Mutant of MayExit: a stopped worker leaves the queue as it is.
ExitOnStop == stop_

\* The condition under which a worker returns.
MayExit == stop_ /\ tasks_ = << >>

\* One critical section: wait predicate, exit test, pop.
Acquire(w) ==
  /\ pc[w] = "ready"
  /\ \/ ~MayExit /\ PopTask(w)
     \/ /\ MayExit
        /\ pc' = [pc EXCEPT ![w] = "exited"]
        /\ UNCHANGED <<tasks_, task>>
     \/ /\ ~stop_
        /\ tasks_ = << >>
        /\ pc' = [pc EXCEPT ![w] = "asleep"]
        /\ UNCHANGED <<tasks_, task>>
  /\ UNCHANGED <<stop_, active_tasks_, notifying, waiting, joined, accepted, refused, completed, owed>>

\* A condition variable may wake a waiter with no notification.
SpuriousWakeup(w) ==
  /\ pc[w] = "asleep"
  /\ pc' = [pc EXCEPT ![w] = "ready"]
  /\ UNCHANGED <<tasks_, stop_, active_tasks_, task, notifying, waiting, joined,
                 accepted, refused, completed, owed>>

\* The worker counts the task ...
Count(w) ==
  /\ pc[w] = "popped"
  /\ active_tasks_' = active_tasks_ + 1
  /\ pc' = [pc EXCEPT ![w] = "counted"]
  /\ UNCHANGED <<tasks_, stop_, task, notifying, waiting, joined, accepted, refused, completed, owed>>

\* ... and so does the wrapper that enqueue() queued.
WrapperCount(w) ==
  /\ pc[w] = "counted"
  /\ active_tasks_' = active_tasks_ + 1
  /\ pc' = [pc EXCEPT ![w] = "running"]
  /\ UNCHANGED <<tasks_, stop_, task, notifying, waiting, joined, accepted, refused, completed, owed>>

\* The packaged_task runs; what it returns or throws goes to its future.
Run(w) ==
  /\ pc[w] = "running"
  /\ w \notin notifying
  /\ completed' = completed \cup {task[w]}
  /\ pc' = [pc EXCEPT ![w] = "ran"]
  /\ UNCHANGED <<tasks_, stop_, active_tasks_, task, notifying, waiting, joined, accepted, refused, owed>>

WrapperUncount(w) ==
  /\ pc[w] = "ran"
  /\ active_tasks_' = active_tasks_ - 1
  /\ pc' = [pc EXCEPT ![w] = "unwrapped"]
  /\ UNCHANGED <<tasks_, stop_, task, notifying, waiting, joined, accepted, refused, completed, owed>>

\* The worker's own decrement; the callable is destroyed.
Uncount(w) ==
  /\ pc[w] = "unwrapped"
  /\ active_tasks_' = active_tasks_ - 1
  /\ pc' = [pc EXCEPT ![w] = "ready"]
  /\ task' = [task EXCEPT ![w] = NoTask]
  /\ UNCHANGED <<tasks_, stop_, notifying, waiting, joined, accepted, refused, completed, owed>>

WorkerStep(w) ==
  \/ Acquire(w) \/ Count(w) \/ WrapperCount(w) \/ Run(w) \/ WrapperUncount(w) \/ Uncount(w)

-----------------------------------------------------------------------------
(* wait_all *)

WaitCall(c) ==
  /\ IdleClient(c)
  /\ c \notin notifying
  /\ waiting' = waiting \cup {c}
  /\ owed' = [owed EXCEPT ![c] = accepted \ completed]
  /\ UNCHANGED <<tasks_, stop_, active_tasks_, pc, task, notifying, joined, accepted, refused, completed>>

\* Mutant of AllDone: only the counter is looked at.
NoneActive == active_tasks_ = 0

\* The test wait_all() makes under queue_mutex_, every 10 ms.
AllDone == tasks_ = << >> /\ active_tasks_ = 0

\* The round that succeeds; one that does not changes nothing.
WaitReturn(c) ==
  /\ c \in waiting
  /\ AllDone
  /\ waiting' = waiting \ {c}
  /\ owed' = [owed EXCEPT ![c] = {}]
  /\ UNCHANGED <<tasks_, stop_, active_tasks_, pc, task, notifying, joined, accepted, refused, completed>>

-----------------------------------------------------------------------------
(* ~DMAThreadPool, which the owner calls when no client uses the pool *)

Stop ==
  /\ joined = "alive"
  /\ waiting = {}
  /\ notifying \cap Clients = {}
  /\ stop_' = TRUE
  /\ joined' = "stopped"
  /\ UNCHANGED <<tasks_, active_tasks_, pc, task, notifying, waiting, accepted, refused, completed, owed>>

\* condition_.notify_all()
NotifyAll ==
  /\ joined = "stopped"
  /\ pc' = [w \in Workers |-> IF pc[w] = "asleep" THEN "ready" ELSE pc[w]]
  /\ joined' = "notified"
  /\ UNCHANGED <<tasks_, stop_, active_tasks_, task, notifying, waiting, accepted, refused, completed, owed>>

Join ==
  /\ joined = "notified"
  /\ \A w \in Workers : pc[w] = "exited"
  /\ joined' = "joined"
  /\ UNCHANGED <<tasks_, stop_, active_tasks_, pc, task, notifying, waiting,
                 accepted, refused, completed, owed>>

-----------------------------------------------------------------------------
Next ==
  \/ \E x \in Clients \cup Workers, t \in Tasks : Enqueue(x, t)
  \/ \E x \in Clients \cup Workers : Notify(x)
  \/ \E w \in Workers : WorkerStep(w) \/ SpuriousWakeup(w)
  \/ \E c \in Clients : WaitCall(c) \/ WaitReturn(c)
  \/ Stop \/ NotifyAll \/ Join

Spec == Init /\ [][Next]_vars

\* Threads that can run do: a worker, a thread inside enqueue() (which is not
\* starved), a client inside wait_all(), the destructor.  Task bodies end.
FairSpec ==
  /\ Spec
  /\ \A w \in Workers : WF_vars(WorkerStep(w))
  /\ \A x \in Clients \cup Workers : WF_vars(Notify(x))
  /\ \A c \in Clients : WF_vars(WaitReturn(c))
  /\ WF_vars(NotifyAll \/ Join)

-----------------------------------------------------------------------------
(* Properties *)

\* Types; in particular active_tasks_, a size_t, never wraps below zero.
TypeOK ==
  /\ tasks_ \in Seq(Tasks)
  /\ stop_ \in BOOLEAN
  /\ active_tasks_ \in Nat
  /\ pc \in [Workers -> WorkerPC]
  /\ task \in [Workers -> Tasks \cup {NoTask}]
  /\ notifying \subseteq Clients \cup Workers
  /\ waiting \subseteq Clients
  /\ joined \in {"alive", "stopped", "notified", "joined"}
  /\ accepted \subseteq Tasks
  /\ refused \subseteq Tasks
  /\ completed \subseteq Tasks
  /\ owed \in [Clients -> SUBSET Tasks]

\* Every task enqueue() took is in exactly one place: queued once, held by one
\* worker, or finished.  No task runs twice and none is lost.
OnePlace ==
  /\ accepted = Queued \cup Held \cup completed
  /\ Queued \cap Held = {}
  /\ (Queued \cup Held) \cap completed = {}
  /\ \A i, j \in DOMAIN tasks_ : tasks_[i] = tasks_[j] => i = j
  /\ \A v, w \in Holders : task[v] = task[w] => v = w

\* The workers between their own increment and decrement of active_tasks_, and
\* those between the increment and decrement of the wrapper.
Counting == {w \in Workers : pc[w] \in {"counted", "running", "ran", "unwrapped"}}
Wrapping == {w \in Workers : pc[w] \in {"running", "ran"}}

\* What active_tasks_ holds: a worker counts for one from its own increment to its own
\* decrement, and for a second one while the wrapper of enqueue() runs.
CountedTwice == active_tasks_ = Cardinality(Counting) + Cardinality(Wrapping)

\* async.hh: get_active_count() is to "Get active task count".  Then no more tasks are
\* active than the workers have popped and not yet finished with.
ActiveCount == active_tasks_ <= Cardinality({w \in Workers : task[w] # NoTask})

\* wait_all() can miss a task in one window only: after a worker has popped it
\* and before it has counted it.
WaitGap ==
  [][\A c \in Clients : WaitReturn(c) =>
       owed[c] \ completed \subseteq {task[w] : w \in {v \in Workers : pc[v] = "popped"}}]_vars

\* async.hh: "Destructor - waits for all tasks to complete".  It does, and a task
\* that enqueues while the pool is being destroyed gets an exception, never a
\* task that is silently dropped.
ShutdownCompletes == joined = "joined" => completed = accepted

\* async.hh: wait_all() is to "Wait for all tasks to complete".
WaitWaits == [][\A c \in Clients : WaitReturn(c) => owed[c] \subseteq completed]_vars

-----------------------------------------------------------------------------
(* The pool as its users see it *)

Open == IF joined = "alive" THEN "open" ELSE IF joined = "joined" THEN "closed" ELSE "closing"

Bag == INSTANCE TaskBag WITH
  todo <- accepted \ completed, finished <- completed, turned <- refused, phase <- Open

\* The pool implements TaskBag: the queue, the workers, the two counters and the
\* notifications add no behaviour.  A task is taken or turned away by what the
\* destructor has done by then, and none is left to run when it returns.  That none
\* runs twice is OnePlace: a second run changes nothing the bag can see.
ImplementsBag == Bag!Spec

-----------------------------------------------------------------------------
\* Under FairSpec every accepted task runs, since with notify_one after the unlock
\* and several workers falling asleep no wakeup that is needed is lost; wait_all()
\* returns once nobody enqueues any more, and so does the destructor.
Progress ==
  /\ \A t \in Tasks : t \in accepted ~> t \in completed
  /\ \A c \in Clients : c \in waiting ~> c \notin waiting
  /\ joined = "stopped" ~> joined = "joined"
=============================================================================
