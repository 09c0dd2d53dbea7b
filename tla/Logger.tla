------------------------------- MODULE Logger -------------------------------
(***************************************************************************)
(* ArgoSentry::Logger (src/src/logger.cpp, logger.hh): client threads log  *)
(* either through a bounded queue drained by one worker thread or, with    *)
(* async logging off, straight to the sinks.                               *)
(*                                                                         *)
(* Grain.  A step is one critical section of queue_mutex_ or sinks_mutex_, *)
(* or one access to an atomic.  queue_mutex_ is held across two steps only *)
(* by the worker, between evaluating its wait predicate and going to sleep *)
(* (worker.pc = "block"): shutdown_ is stored without that mutex, so the   *)
(* destructor can run in between.  write_to_sinks is one step because it   *)
(* holds sinks_mutex_ throughout.                                          *)
(***************************************************************************)
EXTENDS Naturals, Sequences, FiniteSets

CONSTANTS
  Clients,         \* threads that call the public methods
  Sinks,           \* ILogSink implementations, external to the logger
  Flaky,           \* the sinks that may be disabled or throw at any write
  Levels,          \* LogLevel, ordered
  INFO,            \* the level the logger starts with
  SinkLevel,       \* ILogSink::get_min_level of every sink
  MAX_QUEUE_SIZE,  \* capacity of message_queue_
  MaxLogs,         \* bound: log() calls that pass the level check
  AsyncToggles     \* bound: may clients call set_async?

ASSUME LoggerAssumption ==
  /\ IsFiniteSet(Clients)
  /\ Levels \subseteq Nat
  /\ INFO \in Levels
  /\ Flaky \subseteq Sinks
  /\ SinkLevel \in [Sinks -> Levels]
  /\ MAX_QUEUE_SIZE \in Nat \ {0}
  /\ MaxLogs \in Nat
  /\ AsyncToggles \in BOOLEAN

VARIABLES
  min_level_, async_enabled_, shutdown_,
  sinks_,           \* the attached sinks
  message_queue_,
  message_count_, dropped_count_,
  worker,           \* the worker thread: its place in worker_thread and the popped message
  client,           \* each client: its place in a method, the message it carries
  destructor,       \* progress of ~Logger
  offered,          \* history: the messages write_to_sinks has handled, in order
  written,          \* history: what each sink received, in order
  logged,           \* history: counted log() calls per client
  owed              \* history: what was pending when a client called flush

vars == <<min_level_, async_enabled_, shutdown_, sinks_, message_queue_,
          message_count_, dropped_count_, worker, client, destructor,
          offered, written, logged, owed>>

\* LogMessage, identified by its sender and the number of the call; the path the
\* call took is recorded for the properties.
Message == [src : Clients, n : 1..MaxLogs, level : Levels, async : BOOLEAN]
NoMessage == [src |-> {}, n |-> 0, level |-> 0, async |-> FALSE]

WorkerPC == {"top", "enter", "block", "waiting", "write", "next", "exit", "exitWrite", "done"}
ClientPC == {"idle", "async", "notify", "sync", "poll", "flush"}
DestructorPC == {"alive", "stored", "notified", "joined", "destroyed"}

\* The messages of a sequence.
Contents(s) == {s[i] : i \in DOMAIN s}

Init ==
  /\ min_level_ = INFO
  /\ async_enabled_ = TRUE
  /\ shutdown_ = FALSE
  /\ sinks_ = {}
  /\ message_queue_ = << >>
  /\ message_count_ = 0
  /\ dropped_count_ = 0
  /\ worker = [pc |-> "top", msg |-> NoMessage]
  /\ client = [c \in Clients |-> [pc |-> "idle", msg |-> NoMessage]]
  /\ destructor = "alive"
  /\ offered = << >>
  /\ written = [s \in Sinks |-> << >>]
  /\ logged = [c \in Clients |-> 0]
  /\ owed = [c \in Clients |-> {}]

(***************************************************************************)
(* write_to_sinks: every attached sink whose level admits the message gets *)
(* it; a flaky sink may be disabled or throw, which the others do not      *)
(* notice.                                                                 *)
(***************************************************************************)
write_to_sinks(msg) ==
  \E failing \in SUBSET (sinks_ \cap Flaky) :
    /\ offered' = Append(offered, msg)
    /\ written' = [s \in Sinks |->
         IF s \in sinks_ \ failing /\ msg.level >= SinkLevel[s]
           THEN Append(written[s], msg) ELSE written[s]]

QueueMutexFree == worker.pc # "block"

-----------------------------------------------------------------------------
(* Client threads *)

\* A public method may be called: the caller is in no other method and the
\* owner has not begun to destroy the logger.
MayCall(c) == client[c].pc = "idle" /\ destructor = "alive"

\* log: level check, construction of the message, count, reading async_enabled_.
LogBegin(c, level) ==
  /\ MayCall(c)
  /\ message_count_ < MaxLogs
  /\ level >= min_level_
  /\ logged' = [logged EXCEPT ![c] = @ + 1]
  /\ message_count_' = message_count_ + 1
  /\ client' = [client EXCEPT ![c] =
       [pc |-> IF async_enabled_ THEN "async" ELSE "sync",
        msg |-> [src |-> c, n |-> logged[c] + 1, level |-> level, async |-> async_enabled_]]]
  /\ UNCHANGED <<min_level_, async_enabled_, shutdown_, sinks_, message_queue_,
                 dropped_count_, worker, destructor, offered, written, owed>>

QueueFull == Len(message_queue_) >= MAX_QUEUE_SIZE

\* log, asynchronous path: push under queue_mutex_, or drop when full.
LogEnqueue(c) ==
  /\ client[c].pc = "async"
  /\ QueueMutexFree
  /\ \/ /\ QueueFull
        /\ dropped_count_' = dropped_count_ + 1
        /\ client' = [client EXCEPT ![c] = [pc |-> "idle", msg |-> NoMessage]]
        /\ UNCHANGED message_queue_
     \/ /\ ~QueueFull
        /\ message_queue_' = Append(message_queue_, client[c].msg)
        /\ client' = [client EXCEPT ![c] = [pc |-> "notify", msg |-> NoMessage]]
        /\ UNCHANGED dropped_count_
  /\ UNCHANGED <<min_level_, async_enabled_, shutdown_, sinks_, message_count_,
                 worker, destructor, offered, written, logged, owed>>

\* Mutant of WakeWorker: the notification is forgotten.
ForgetWakeup == UNCHANGED worker

\* queue_cv_.notify_one() / notify_all(): only the worker ever waits.
WakeWorker ==
  worker' = IF worker.pc = "waiting" THEN [worker EXCEPT !.pc = "enter"] ELSE worker

\* log, asynchronous path: notify after the mutex is released.
LogNotify(c) ==
  /\ client[c].pc = "notify"
  /\ WakeWorker
  /\ client' = [client EXCEPT ![c].pc = "idle"]
  /\ UNCHANGED <<min_level_, async_enabled_, shutdown_, sinks_, message_queue_,
                 message_count_, dropped_count_, destructor, offered, written, logged, owed>>

\* log, synchronous path.
LogSync(c) ==
  /\ client[c].pc = "sync"
  /\ write_to_sinks(client[c].msg)
  /\ client' = [client EXCEPT ![c] = [pc |-> "idle", msg |-> NoMessage]]
  /\ UNCHANGED <<min_level_, async_enabled_, shutdown_, sinks_, message_queue_,
                 message_count_, dropped_count_, worker, destructor, logged, owed>>

\* Messages that left the queue and have not reached the sinks.
InHand == IF worker.pc \in {"write", "exitWrite"} THEN {worker.msg} ELSE {}

\* flush: the branch on async_enabled_.  owed records what is pending at the call.
FlushBegin(c) ==
  /\ MayCall(c)
  /\ client' = [client EXCEPT ![c].pc = IF async_enabled_ THEN "poll" ELSE "flush"]
  /\ owed' = [owed EXCEPT ![c] = IF async_enabled_ THEN Contents(message_queue_) \cup InHand
                                                   ELSE {}]
  /\ UNCHANGED <<min_level_, async_enabled_, shutdown_, sinks_, message_queue_,
                 message_count_, dropped_count_, worker, destructor, offered, written, logged>>

\* Mutant of FlushMayReturn: flush leaves while the last message is queued.
FlushLeavesOne == Len(message_queue_) <= 1

\* flush: the condition that ends the polling loop.
FlushMayReturn == message_queue_ = << >>

\* flush: one round of the polling loop finds the queue empty and leaves it
\* (a round that finds messages sleeps and changes nothing).
FlushPoll(c) ==
  /\ client[c].pc = "poll"
  /\ QueueMutexFree
  /\ FlushMayReturn
  /\ client' = [client EXCEPT ![c].pc = "flush"]
  /\ UNCHANGED <<min_level_, async_enabled_, shutdown_, sinks_, message_queue_,
                 message_count_, dropped_count_, worker, destructor, offered, written, logged, owed>>

\* flush: the sinks are flushed and the call returns.
FlushReturn(c) ==
  /\ client[c].pc = "flush"
  /\ client' = [client EXCEPT ![c].pc = "idle"]
  /\ owed' = [owed EXCEPT ![c] = {}]
  /\ UNCHANGED <<min_level_, async_enabled_, shutdown_, sinks_, message_queue_,
                 message_count_, dropped_count_, worker, destructor, offered, written, logged>>

ClientStep(c) ==
  \/ LogEnqueue(c) \/ LogNotify(c) \/ LogSync(c)
  \/ FlushPoll(c) \/ FlushReturn(c)

-----------------------------------------------------------------------------
(* Configuration: each is one store or one critical section of sinks_mutex_. *)

set_min_level(level) ==
  /\ destructor = "alive"
  /\ min_level_' = level
  /\ UNCHANGED <<async_enabled_, shutdown_, sinks_, message_queue_, message_count_,
                 dropped_count_, worker, client, destructor, offered, written, logged, owed>>

set_async(enabled) ==
  /\ AsyncToggles
  /\ destructor = "alive"
  /\ async_enabled_' = enabled
  /\ UNCHANGED <<min_level_, shutdown_, sinks_, message_queue_, message_count_,
                 dropped_count_, worker, client, destructor, offered, written, logged, owed>>

\* The logger owns its sinks: one that clear_sinks destroyed never comes back,
\* so a sink that has received something is not attached again.
add_sink(s) ==
  /\ destructor = "alive"
  /\ s \notin sinks_
  /\ written[s] = << >>
  /\ sinks_' = sinks_ \cup {s}
  /\ UNCHANGED <<min_level_, async_enabled_, shutdown_, message_queue_, message_count_,
                 dropped_count_, worker, client, destructor, offered, written, logged, owed>>

clear_sinks ==
  /\ destructor = "alive"
  /\ sinks_' = {}
  /\ UNCHANGED <<min_level_, async_enabled_, shutdown_, message_queue_, message_count_,
                 dropped_count_, worker, client, destructor, offered, written, logged, owed>>

Configure ==
  \/ \E level \in Levels : set_min_level(level)
  \/ \E enabled \in BOOLEAN : set_async(enabled)
  \/ \E s \in Sinks : add_sink(s)
  \/ clear_sinks

-----------------------------------------------------------------------------
(* worker_thread *)

\* The loop condition reads shutdown_.
WorkerTop ==
  /\ worker.pc = "top"
  /\ worker' = [worker EXCEPT !.pc = IF shutdown_ THEN "exit" ELSE "enter"]
  /\ UNCHANGED <<min_level_, async_enabled_, shutdown_, sinks_, message_queue_, message_count_,
                 dropped_count_, client, destructor, offered, written, logged, owed>>

\* Mutant of Pop: front() without pop().
PopKeeps(next) ==
  /\ message_queue_ # << >>
  /\ worker' = [pc |-> next, msg |-> Head(message_queue_)]
  /\ UNCHANGED message_queue_

\* Mutant of Pop: the newest message first.
PopNewest(next) ==
  LET last == Len(message_queue_) IN
  /\ message_queue_ # << >>
  /\ message_queue_' = SubSeq(message_queue_, 1, last - 1)
  /\ worker' = [pc |-> next, msg |-> message_queue_[last]]

\* Take the first message and release queue_mutex_ to write it.
Pop(next) ==
  /\ message_queue_ # << >>
  /\ message_queue_' = Tail(message_queue_)
  /\ worker' = [pc |-> next, msg |-> Head(message_queue_)]

\* Acquire queue_mutex_ and evaluate the wait predicate: with a message pop it,
\* at shutdown leave the inner loop at once, otherwise keep the mutex and go to
\* sleep in a step of its own.
WorkerEnter ==
  /\ worker.pc = "enter"
  /\ \/ Pop("write")
     \/ /\ message_queue_ = << >>
        /\ worker' = [worker EXCEPT !.pc = IF shutdown_ THEN "top" ELSE "block"]
        /\ UNCHANGED message_queue_
  /\ UNCHANGED <<min_level_, async_enabled_, shutdown_, sinks_, message_count_,
                 dropped_count_, client, destructor, offered, written, logged, owed>>

\* queue_cv_.wait releases queue_mutex_ and sleeps.
WorkerBlock ==
  /\ worker.pc = "block"
  /\ worker' = [worker EXCEPT !.pc = "waiting"]
  /\ UNCHANGED <<min_level_, async_enabled_, shutdown_, sinks_, message_queue_, message_count_,
                 dropped_count_, client, destructor, offered, written, logged, owed>>

\* A condition variable may wake its waiter with no notification.
SpuriousWakeup ==
  /\ worker.pc = "waiting"
  /\ worker' = [worker EXCEPT !.pc = "enter"]
  /\ UNCHANGED <<min_level_, async_enabled_, shutdown_, sinks_, message_queue_, message_count_,
                 dropped_count_, client, destructor, offered, written, logged, owed>>

\* write_to_sinks outside queue_mutex_, in the main loop and in the final drain.
WorkerWrite ==
  /\ worker.pc \in {"write", "exitWrite"}
  /\ write_to_sinks(worker.msg)
  /\ worker' = [pc |-> IF worker.pc = "write" THEN "next" ELSE "exit", msg |-> NoMessage]
  /\ UNCHANGED <<min_level_, async_enabled_, shutdown_, sinks_, message_queue_, message_count_,
                 dropped_count_, client, destructor, logged, owed>>

\* Re-acquire queue_mutex_: next message, or back to the loop condition.
WorkerNext ==
  /\ worker.pc = "next"
  /\ \/ Pop("write")
     \/ /\ message_queue_ = << >>
        /\ worker' = [worker EXCEPT !.pc = "top"]
        /\ UNCHANGED message_queue_
  /\ UNCHANGED <<min_level_, async_enabled_, shutdown_, sinks_, message_count_,
                 dropped_count_, client, destructor, offered, written, logged, owed>>

\* Mutant of WorkerExit: no drain after the loop.
WorkerExitAtOnce ==
  /\ worker.pc = "exit"
  /\ worker' = [worker EXCEPT !.pc = "done"]
  /\ UNCHANGED <<min_level_, async_enabled_, shutdown_, sinks_, message_queue_, message_count_,
                 dropped_count_, client, destructor, offered, written, logged, owed>>

\* The drain after the loop.
WorkerExit ==
  /\ worker.pc = "exit"
  /\ \/ Pop("exitWrite")
     \/ /\ message_queue_ = << >>
        /\ worker' = [worker EXCEPT !.pc = "done"]
        /\ UNCHANGED message_queue_
  /\ UNCHANGED <<min_level_, async_enabled_, shutdown_, sinks_, message_count_,
                 dropped_count_, client, destructor, offered, written, logged, owed>>

Worker ==
  \/ WorkerTop \/ WorkerEnter \/ WorkerBlock \/ WorkerWrite \/ WorkerNext \/ WorkerExit

-----------------------------------------------------------------------------
(* ~Logger, which the owner calls when no thread uses the logger any more *)

StoreShutdown ==
  /\ destructor = "alive"
  /\ \A c \in Clients : client[c].pc = "idle"
  /\ shutdown_' = TRUE
  /\ destructor' = "stored"
  /\ UNCHANGED <<min_level_, async_enabled_, sinks_, message_queue_, message_count_,
                 dropped_count_, worker, client, offered, written, logged, owed>>

NotifyShutdown ==
  /\ destructor = "stored"
  /\ WakeWorker
  /\ destructor' = "notified"
  /\ UNCHANGED <<min_level_, async_enabled_, shutdown_, sinks_, message_queue_, message_count_,
                 dropped_count_, client, offered, written, logged, owed>>

Join ==
  /\ destructor = "notified"
  /\ worker.pc = "done"
  /\ destructor' = "joined"
  /\ UNCHANGED <<min_level_, async_enabled_, shutdown_, sinks_, message_queue_, message_count_,
                 dropped_count_, worker, client, offered, written, logged, owed>>

\* The sinks are flushed, then destroyed with the other members.
Destroy ==
  /\ destructor = "joined"
  /\ destructor' = "destroyed"
  /\ sinks_' = {}
  /\ UNCHANGED <<min_level_, async_enabled_, shutdown_, message_queue_, message_count_,
                 dropped_count_, worker, client, offered, written, logged, owed>>

Destructor == NotifyShutdown \/ Join \/ Destroy

-----------------------------------------------------------------------------
Next ==
  \/ \E c \in Clients, level \in Levels : LogBegin(c, level)
  \/ \E c \in Clients : FlushBegin(c)
  \/ \E c \in Clients : ClientStep(c)
  \/ Configure
  \/ Worker
  \/ SpuriousWakeup
  \/ StoreShutdown
  \/ Destructor

Spec == Init /\ [][Next]_vars

\* The operating system keeps running every thread that can run: the worker, a
\* client inside a method, the owner inside the destructor.  Nobody has to call
\* a method, and a spurious wakeup may never happen.  Strong fairness of a client:
\* endless spurious wakeups of the worker do not starve it of queue_mutex_.
FairSpec ==
  /\ Spec
  /\ WF_vars(Worker)
  /\ \A c \in Clients : SF_vars(ClientStep(c))
  /\ WF_vars(Destructor)

-----------------------------------------------------------------------------
(* Properties *)

\* Types: the queue never exceeds its capacity, every thread is at a known place.
TypeOK ==
  /\ min_level_ \in Levels
  /\ async_enabled_ \in BOOLEAN
  /\ shutdown_ \in BOOLEAN
  /\ sinks_ \subseteq Sinks
  /\ message_queue_ \in Seq(Message)
  /\ Len(message_queue_) <= MAX_QUEUE_SIZE
  /\ message_count_ \in Nat
  /\ dropped_count_ \in Nat
  /\ worker \in [pc : WorkerPC, msg : Message \cup {NoMessage}]
  /\ client \in [Clients -> [pc : ClientPC, msg : Message \cup {NoMessage}]]
  /\ destructor \in DestructorPC
  /\ offered \in Seq(Message)
  /\ written \in [Sinks -> Seq(Message)]
  /\ logged \in [Clients -> 0..MaxLogs]
  /\ owed \in [Clients -> SUBSET Message]

\* The clients whose counted message is still in their own hands.
Undecided == {c \in Clients : client[c].pc \in {"async", "sync"}}

\* No message is lost or handled twice: every message get_message_count reports
\* is dropped, queued, held by the worker, held by a log() call in progress, or
\* has been offered to the sinks exactly once.
Accounting ==
  message_count_ = dropped_count_ + Len(message_queue_) + Cardinality(InHand)
                     + Cardinality(Undecided) + Len(offered)

\* Every sink sees the messages of one thread that took the same path in the
\* order of the log() calls and none of them twice, whatever the other threads,
\* full queues, failing sinks and set_async calls do in between.
SinkOrder ==
  \A s \in Sinks : \A i, j \in DOMAIN written[s] :
    i < j /\ written[s][i].src = written[s][j].src /\ written[s][i].async = written[s][j].async
      => written[s][i].n < written[s][j].n

\* When flush() has seen the queue empty, at most one of the messages that were
\* pending at the call has not reached the sinks: the one the worker holds.
FlushGap ==
  \A c \in Clients : client[c].pc = "flush" => owed[c] \ Contents(offered) \subseteq InHand

\* The destructor loses nothing: once the worker is joined, every counted message
\* was dropped for lack of room or has been offered to the sinks.
ShutdownDrains ==
  destructor \in {"joined", "destroyed"} =>
    /\ message_queue_ = << >>
    /\ Len(offered) = message_count_ - dropped_count_

\* logger.hh: flush() "Blocks until all pending messages are written".
FlushWaits == [][\A c \in Clients : FlushReturn(c) => owed[c] \subseteq Contents(offered)]_vars

\* As many messages as log() took are eventually offered to the sinks: pushing
\* under the mutex and notifying after it loses no wakeup, even if the owner
\* destroys the logger meanwhile.
Taken == message_count_ - dropped_count_ - Cardinality(Undecided)
Delivered == \A k \in 1..MaxLogs : Taken >= k ~> Len(offered) >= k

\* A flush() of a logger nobody logs to any more returns.
FlushReturns ==
  \A c \in Clients : client[c].pc = "poll" ~> client[c].pc = "idle"

\* Under FairSpec what log() took reaches the sinks, and every flush() returns.
Progress == Delivered /\ FlushReturns

\* logger.hh: "Destructor - stops background thread and flushes logs".
DestructorReturns == destructor = "stored" ~> destructor = "destroyed"
=============================================================================
