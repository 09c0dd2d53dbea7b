---------------------------- MODULE LoggerProofs ----------------------------
(***************************************************************************)
(* Proofs about Logger, for any clients, sinks, levels and capacity.       *)
(*                                                                         *)
(* LoggerInv follows a message from the log() call that numbers it, by way *)
(* of the queue and the worker's hand, into the sinks.  Order says that at *)
(* each place it is behind the earlier ones of its thread and path;        *)
(* Numbers, that the message a client has yet to hand over is the last;    *)
(* Stages ties the worker and the clients to the destructor.               *)
(***************************************************************************)
EXTENDS Logger, TLAPS, FiniteSetTheorems, SequenceTheorems

\* m goes before k wherever the two are comparable.
Before(m, k) == m.src = k.src /\ m.async = k.async => m.n < k.n

Ordered(s) == \A i, j \in DOMAIN s : i < j => Before(s[i], s[j])

Carried ==
  /\ worker.pc \in {"write", "exitWrite"} => worker.msg \in Message
  /\ message_count_ <= MaxLogs
  /\ \A c \in Clients : logged[c] <= message_count_

Stages ==
  /\ shutdown_ <=> destructor # "alive"
  /\ shutdown_ => \A c \in Clients : client[c].pc = "idle"
  /\ worker.pc \in {"exit", "exitWrite", "done"} => shutdown_
  /\ worker.pc = "done" => message_queue_ = << >>
  /\ destructor \in {"joined", "destroyed"} => worker.pc = "done"

Order ==
  /\ Ordered(message_queue_)
  /\ \A m \in InHand, k \in Contents(message_queue_) : Before(m, k)
  /\ \A s \in Sinks :
       /\ Ordered(written[s])
       /\ \A m \in Contents(written[s]), k \in InHand \cup Contents(message_queue_) : Before(m, k)

\* m is one of the messages its sender has numbered, and not one he still carries.
Old(m) ==
  /\ m.n <= logged[m.src]
  /\ m.src \in Undecided => m.n < logged[m.src]

Numbers ==
  /\ \A m \in InHand \cup Contents(message_queue_) : m.async /\ Old(m)
  /\ \A s \in Sinks : \A m \in Contents(written[s]) : Old(m)
  /\ \A c \in Undecided :
       /\ client[c].msg \in Message
       /\ client[c].msg.src = c /\ client[c].msg.n = logged[c]
       /\ client[c].msg.async <=> client[c].pc = "async"

Flushing ==
  \A c \in Clients :
    /\ client[c].pc = "poll"
         => owed[c] \ Contents(offered) \subseteq Contents(message_queue_) \cup InHand
    /\ client[c].pc = "flush" => owed[c] \ Contents(offered) \subseteq InHand

LoggerInv == TypeOK /\ Carried /\ Stages /\ Accounting /\ Order /\ Numbers /\ Flushing

-----------------------------------------------------------------------------
(* Sequences of messages *)

\* push() adds its argument at the back.
LEMMA AppendContents ==
  ASSUME NEW S, NEW q \in Seq(S), NEW m \in S
  PROVE  /\ Append(q, m) \in Seq(S)
         /\ Len(q) \in Nat /\ Len(Append(q, m)) = Len(q) + 1
         /\ Contents(Append(q, m)) = Contents(q) \cup {m}
         /\ Ordered(q) /\ (\A k \in Contents(q) : Before(k, m)) => Ordered(Append(q, m))
<1>1. /\ Append(q, m) \in Seq(S) /\ Len(q) \in Nat /\ Len(Append(q, m)) = Len(q) + 1
      /\ DOMAIN Append(q, m) = 1..(Len(q) + 1) /\ DOMAIN q = 1..Len(q)
      /\ \A i \in 1..Len(q) : Append(q, m)[i] = q[i]
      /\ Append(q, m)[Len(q) + 1] = m
  BY AppendProperties, LenProperties
<1>2. Contents(Append(q, m)) = Contents(q) \cup {m}
  BY <1>1 DEF Contents
<1>3. Ordered(q) /\ (\A k \in Contents(q) : Before(k, m)) => Ordered(Append(q, m))
  <2> SUFFICES ASSUME Ordered(q), \A k \in Contents(q) : Before(k, m),
                      NEW i \in 1..(Len(q) + 1), NEW j \in 1..(Len(q) + 1), i < j
               PROVE  Before(Append(q, m)[i], Append(q, m)[j])
    BY <1>1 DEF Ordered
  <2>1. i \in 1..Len(q) /\ Append(q, m)[i] = q[i] /\ q[i] \in Contents(q)
    BY <1>1 DEF Contents
  <2>2. CASE j \in 1..Len(q)
    BY <1>1, <2>1, <2>2 DEF Ordered
  <2>3. CASE j = Len(q) + 1
    BY <1>1, <2>1, <2>3
  <2> QED BY <1>1, <2>2, <2>3
<1> QED BY <1>1, <1>2, <1>3

\* front() and pop() take the first message off.
LEMMA PopContents ==
  ASSUME NEW S, NEW q \in Seq(S), q # << >>
  PROVE  /\ Head(q) \in S /\ Tail(q) \in Seq(S)
         /\ Len(q) \in Nat \ {0} /\ Len(Tail(q)) = Len(q) - 1
         /\ Contents(q) = Contents(Tail(q)) \cup {Head(q)}
         /\ Ordered(q) => /\ Ordered(Tail(q))
                          /\ \A k \in Contents(Tail(q)) : Before(Head(q), k)
<1> DEFINE n == Len(q)
<1>1. /\ Head(q) \in S /\ Head(q) = q[1] /\ Tail(q) \in Seq(S)
      /\ DOMAIN Tail(q) = 1..(n - 1) /\ DOMAIN q = 1..n
      /\ n \in Nat \ {0} /\ Len(Tail(q)) = n - 1
      /\ \A i \in 1..(n - 1) : Tail(q)[i] = q[i + 1]
  BY HeadTailProperties, LenProperties, EmptySeq
<1>2. Contents(q) \subseteq Contents(Tail(q)) \cup {Head(q)}
  <2> SUFFICES ASSUME NEW i \in 1..n PROVE q[i] \in Contents(Tail(q)) \cup {Head(q)}
    BY <1>1 DEF Contents
  <2>1. CASE i = 1
    BY <2>1, <1>1
  <2>2. CASE i # 1
    <3>1. i - 1 \in 1..(n - 1) /\ Tail(q)[i - 1] = q[i]
      BY <2>2, <1>1
    <3> QED BY <3>1, <1>1 DEF Contents
  <2> QED BY <2>1, <2>2
<1>3. Contents(Tail(q)) \cup {Head(q)} \subseteq Contents(q)
  BY <1>1 DEF Contents
<1>4. Ordered(q) => /\ Ordered(Tail(q))
                    /\ \A k \in Contents(Tail(q)) : Before(Head(q), k)
  BY <1>1 DEF Ordered, Contents
<1> QED BY <1>1, <1>2, <1>3, <1>4

\* The worker holds one message or none.
LEMMA HandCount ==
  /\ worker.pc \in {"write", "exitWrite"} => InHand = {worker.msg} /\ Cardinality(InHand) = 1
  /\ worker.pc \notin {"write", "exitWrite"} => InHand = {} /\ Cardinality(InHand) = 0
BY FS_EmptySet, FS_Singleton DEF InHand

\* The clients with a message of their own can be counted.
LEMMA UndecidedFinite == IsFiniteSet(Undecided) /\ Cardinality(Undecided) \in Nat
<1>1. Undecided \subseteq Clients
  BY DEF Undecided
<1> QED BY <1>1, LoggerAssumption, FS_Subset, FS_CardinalityType

\* A logger just built.
LEMMA LoggerInit == Init => LoggerInv
<1> SUFFICES ASSUME Init PROVE LoggerInv
  OBVIOUS
<1> USE LoggerAssumption DEF Init
<1>1. /\ << >> \in Seq(Message) /\ Len(<< >>) = 0 /\ DOMAIN << >> = {}
      /\ Contents(<< >>) = {} /\ Ordered(<< >>)
  BY EmptySeq DEF Contents, Ordered
<1>2. TypeOK
  <2>1. /\ worker \in [pc : WorkerPC, msg : Message \cup {NoMessage}]
        /\ client \in [Clients -> [pc : ClientPC, msg : Message \cup {NoMessage}]]
    BY DEF WorkerPC, ClientPC
  <2>2. /\ logged \in [Clients -> 0..MaxLogs] /\ owed \in [Clients -> SUBSET Message]
        /\ written \in [Sinks -> Seq(Message)]
    BY <1>1
  <2>3. /\ message_queue_ \in Seq(Message) /\ offered \in Seq(Message)
        /\ Len(message_queue_) <= MAX_QUEUE_SIZE
    BY <1>1
  <2> QED BY <2>1, <2>2, <2>3 DEF TypeOK, DestructorPC
<1>3. InHand = {} /\ Undecided = {} /\ Cardinality({}) = 0
  BY FS_EmptySet DEF InHand, Undecided
<1>4. Carried /\ Stages
  BY DEF Carried, Stages
<1>5. Accounting
  BY <1>1, <1>3 DEF Accounting
<1>6. Order /\ Numbers /\ Flushing
  BY <1>1, <1>3 DEF Order, Numbers, Flushing
<1> QED BY <1>2, <1>4, <1>5, <1>6 DEF LoggerInv

-----------------------------------------------------------------------------
\* Nothing is handed over, and no client takes or gives a message.
LEMMA SamePlaces ==
  ASSUME LoggerInv,
         UNCHANGED <<message_queue_, message_count_, dropped_count_, offered, written, logged>>,
         InHand' = InHand, Undecided' = Undecided,
         \A c \in Undecided : client'[c] = client[c]
  PROVE  Accounting' /\ Order' /\ Numbers'
<1>1. Accounting'
  BY DEF LoggerInv, Accounting
<1>2. Order'
  BY DEF LoggerInv, Order, Ordered, Before
<1>3. Numbers'
  BY DEF LoggerInv, Numbers, Old
<1> QED BY <1>1, <1>2, <1>3

\* What is pending for a flush may move on, but not vanish.
LEMMA FlushMoves ==
  ASSUME LoggerInv, owed' = owed,
         \A c \in Clients : client'[c].pc \in {"poll", "flush"} => client'[c].pc = client[c].pc,
         Contents(offered) \subseteq Contents(offered'),
         InHand \ Contents(offered') \subseteq InHand',
         Contents(message_queue_) \subseteq Contents(message_queue_') \cup InHand'
  PROVE  Flushing'
BY DEF LoggerInv, Flushing

\* The worker walks between places where it holds nothing.
LEMMA WalkInv ==
  ASSUME LoggerInv, NEW p \in WorkerPC \ {"write", "exitWrite"},
         worker.pc \notin {"write", "exitWrite"},
         worker' = [worker EXCEPT !.pc = p],
         p \in {"exit", "done"} => shutdown_,
         p = "done" => message_queue_ = << >>,
         worker.pc = "done" => p = "done",
         UNCHANGED <<min_level_, async_enabled_, shutdown_, sinks_, message_queue_,
                     message_count_, dropped_count_, client, destructor, offered, written,
                     logged, owed>>
  PROVE  LoggerInv'
<1>1. /\ worker'.pc = p /\ worker' \in [pc : WorkerPC, msg : Message \cup {NoMessage}]
  BY DEF LoggerInv, TypeOK
<1>2. TypeOK'
  BY <1>1 DEF LoggerInv, TypeOK
<1>3. Carried' /\ Stages'
  BY <1>1 DEF LoggerInv, Carried, Stages, WorkerPC
<1>4. InHand = {} /\ InHand' = {} /\ Undecided' = Undecided
  BY <1>1 DEF InHand, Undecided
<1>5. Accounting' /\ Order' /\ Numbers'
  BY <1>4, SamePlaces
<1>6. Flushing'
  BY <1>4, FlushMoves
<1> QED BY <1>2, <1>3, <1>5, <1>6 DEF LoggerInv

\* The worker takes the first message of the queue.
LEMMA PopInv ==
  ASSUME LoggerInv, NEW next \in {"write", "exitWrite"}, Pop(next),
         worker.pc \in {"enter", "next", "exit"},
         next = "exitWrite" => worker.pc = "exit",
         UNCHANGED <<min_level_, async_enabled_, shutdown_, sinks_, message_count_,
                     dropped_count_, client, destructor, offered, written, logged, owed>>
  PROVE  LoggerInv'
<1> DEFINE m == Head(message_queue_)
<1>1. /\ message_queue_ # << >> /\ message_queue_ \in Seq(Message)
      /\ message_queue_' = Tail(message_queue_)
      /\ worker' = [pc |-> next, msg |-> m]
  BY DEF Pop, LoggerInv, TypeOK
<1>2. /\ m \in Message /\ message_queue_' \in Seq(Message)
      /\ Len(message_queue_) \in Nat \ {0} /\ Len(message_queue_') = Len(message_queue_) - 1
      /\ Contents(message_queue_) = Contents(message_queue_') \cup {m}
  BY <1>1, PopContents
<1>3. Ordered(message_queue_') /\ \A k \in Contents(message_queue_') : Before(m, k)
  BY <1>1, PopContents DEF LoggerInv, Order
<1> HIDE DEF m
<1>4. worker'.pc = next /\ worker'.msg = m
  BY <1>1
<1>5. /\ InHand = {} /\ Cardinality(InHand) = 0
      /\ InHand' = {m} /\ Cardinality(InHand') = 1 /\ Undecided' = Undecided
  BY <1>4, HandCount, FS_Singleton DEF InHand, Undecided
<1>6. TypeOK'
  <2>1. Len(message_queue_') <= MAX_QUEUE_SIZE
    BY <1>2, LoggerAssumption DEF LoggerInv, TypeOK
  <2>2. worker' \in [pc : WorkerPC, msg : Message \cup {NoMessage}]
    BY <1>1, <1>2 DEF WorkerPC
  <2> QED BY <1>2, <2>1, <2>2 DEF LoggerInv, TypeOK
<1>7. Carried' /\ Stages'
  BY <1>2, <1>4 DEF LoggerInv, Carried, Stages
<1>8. Accounting'
  <2>1. /\ dropped_count_ \in Nat /\ Cardinality(Undecided) \in Nat /\ Len(offered) \in Nat
    BY UndecidedFinite, LenProperties DEF LoggerInv, TypeOK
  <2> QED BY <1>2, <1>5, <2>1 DEF LoggerInv, Accounting
<1>9. Order'
  BY <1>2, <1>3, <1>5 DEF LoggerInv, Order, Before, Ordered
<1>10. Numbers'
  BY <1>2, <1>5 DEF LoggerInv, Numbers, Old
<1>11. Flushing'
  BY <1>2, <1>5, FlushMoves
<1> QED BY <1>6, <1>7, <1>8, <1>9, <1>10, <1>11 DEF LoggerInv

\* A message reaches the sinks that take it, in the right order, if it is old enough.
LEMMA SinksInv ==
  ASSUME LoggerInv, NEW m \in Message, write_to_sinks(m),
         \A s \in Sinks : \A k \in Contents(written[s]) : Before(k, m)
  PROVE  /\ offered' \in Seq(Message) /\ Len(offered') = Len(offered) + 1 /\ Len(offered) \in Nat
         /\ Contents(offered') = Contents(offered) \cup {m}
         /\ written' \in [Sinks -> Seq(Message)]
         /\ \A s \in Sinks : /\ Ordered(written'[s])
                             /\ Contents(written'[s]) \subseteq Contents(written[s]) \cup {m}
<1>1. offered \in Seq(Message) /\ written \in [Sinks -> Seq(Message)]
  BY DEF LoggerInv, TypeOK
<1>2. PICK failing \in SUBSET (sinks_ \cap Flaky) :
        /\ offered' = Append(offered, m)
        /\ written' = [s \in Sinks |->
             IF s \in sinks_ \ failing /\ m.level >= SinkLevel[s]
               THEN Append(written[s], m) ELSE written[s]]
  BY DEF write_to_sinks
<1>3. /\ offered' \in Seq(Message) /\ Len(offered') = Len(offered) + 1 /\ Len(offered) \in Nat
      /\ Contents(offered') = Contents(offered) \cup {m}
  BY <1>1, <1>2, AppendContents
<1>4. ASSUME NEW s \in Sinks
      PROVE  /\ written'[s] \in Seq(Message) /\ Ordered(written'[s])
             /\ Contents(written'[s]) \subseteq Contents(written[s]) \cup {m}
  <2>1. written[s] \in Seq(Message) /\ Ordered(written[s])
    BY <1>1 DEF LoggerInv, Order
  <2>2. CASE written'[s] = Append(written[s], m)
    BY <2>1, <2>2, AppendContents
  <2>3. CASE written'[s] = written[s]
    BY <2>1, <2>3
  <2> QED BY <1>2, <2>2, <2>3
<1>5. written' \in [Sinks -> Seq(Message)]
  <2>1. written' = [s \in Sinks |-> written'[s]]
    BY <1>2
  <2> QED BY <1>4, <2>1
<1> QED BY <1>3, <1>4, <1>5

\* The worker writes its message.
LEMMA WriteInv ==
  ASSUME LoggerInv, WorkerWrite
  PROVE  LoggerInv'
<1> DEFINE m == worker.msg
           next == IF worker.pc = "write" THEN "next" ELSE "exit"
<1>1. /\ worker.pc \in {"write", "exitWrite"} /\ write_to_sinks(m)
      /\ worker' = [pc |-> next, msg |-> NoMessage]
      /\ UNCHANGED <<min_level_, async_enabled_, shutdown_, sinks_, message_queue_,
                     message_count_, dropped_count_, client, destructor, logged, owed>>
  BY DEF WorkerWrite
<1>2. m \in Message /\ InHand = {m} /\ Cardinality(InHand) = 1
  BY <1>1, HandCount DEF LoggerInv, Carried
<1>3. worker'.pc = next /\ next \in {"next", "exit"}
  BY <1>1
<1>4. InHand' = {} /\ Cardinality(InHand') = 0 /\ Undecided' = Undecided
  BY <1>1, <1>3, FS_EmptySet DEF InHand, Undecided
<1>5. \A s \in Sinks : \A k \in Contents(written[s]) : Before(k, m)
  BY <1>2 DEF LoggerInv, Order
<1> HIDE DEF m
<1>6. /\ offered' \in Seq(Message) /\ Len(offered') = Len(offered) + 1 /\ Len(offered) \in Nat
      /\ Contents(offered') = Contents(offered) \cup {m}
      /\ written' \in [Sinks -> Seq(Message)]
      /\ \A s \in Sinks : /\ Ordered(written'[s])
                          /\ Contents(written'[s]) \subseteq Contents(written[s]) \cup {m}
  BY <1>1, <1>2, <1>5, SinksInv
<1>7. TypeOK'
  <2>1. worker' \in [pc : WorkerPC, msg : Message \cup {NoMessage}]
    BY <1>1 DEF WorkerPC
  <2> QED BY <1>1, <1>6, <2>1 DEF LoggerInv, TypeOK
<1>8. Carried' /\ Stages'
  BY <1>1, <1>3 DEF LoggerInv, Carried, Stages
<1>9. Accounting'
  <2>1. /\ dropped_count_ \in Nat /\ Cardinality(Undecided) \in Nat
        /\ Len(message_queue_) \in Nat
    BY UndecidedFinite, LenProperties DEF LoggerInv, TypeOK
  <2> QED BY <1>1, <1>2, <1>4, <1>6, <2>1 DEF LoggerInv, Accounting
<1>10. Order'
  BY <1>1, <1>2, <1>4, <1>6 DEF LoggerInv, Order, Before, Ordered
<1>11. Numbers'
  <2>1. Old(m)
    BY <1>2 DEF LoggerInv, Numbers
  <2>2. \A k : Old(k) <=> Old(k)'
    BY <1>1, <1>4 DEF Old
  <2> QED BY <1>1, <1>4, <1>6, <2>1, <2>2 DEF LoggerInv, Numbers
<1>12. Flushing'
  BY <1>1, <1>2, <1>4, <1>6, FlushMoves
<1> QED BY <1>7, <1>8, <1>9, <1>10, <1>11, <1>12 DEF LoggerInv

\* Every step of the worker, its spurious wakeups included.
LEMMA WorkerInv ==
  ASSUME LoggerInv, Worker \/ SpuriousWakeup
  PROVE  LoggerInv'
<1>1. CASE WorkerTop
  <2>1. PICK p \in {"exit", "enter"} :
          worker' = [worker EXCEPT !.pc = p] /\ (p = "exit" => shutdown_)
    BY <1>1 DEF WorkerTop
  <2> QED BY <1>1, <2>1, WalkInv DEF WorkerTop, WorkerPC
<1>2. CASE WorkerEnter
  <2>1. CASE Pop("write")
    BY <1>2, <2>1, PopInv DEF WorkerEnter
  <2>2. CASE ~Pop("write")
    <3>1. PICK p \in {"top", "block"} :
            worker' = [worker EXCEPT !.pc = p] /\ UNCHANGED message_queue_
      BY <1>2, <2>2 DEF WorkerEnter
    <3> QED BY <1>2, <3>1, WalkInv DEF WorkerEnter, WorkerPC
  <2> QED BY <2>1, <2>2
<1>3. CASE WorkerBlock
  BY <1>3, WalkInv DEF WorkerBlock, WorkerPC
<1>4. CASE SpuriousWakeup
  BY <1>4, WalkInv DEF SpuriousWakeup, WorkerPC
<1>5. CASE WorkerNext
  <2>1. CASE Pop("write")
    BY <1>5, <2>1, PopInv DEF WorkerNext
  <2>2. CASE ~Pop("write")
    BY <1>5, <2>2, WalkInv DEF WorkerNext, WorkerPC
  <2> QED BY <2>1, <2>2
<1>6. CASE WorkerExit
  <2>1. CASE Pop("exitWrite")
    BY <1>6, <2>1, PopInv DEF WorkerExit
  <2>2. CASE ~Pop("exitWrite")
    <3>1. shutdown_
      BY <1>6 DEF WorkerExit, LoggerInv, Stages
    <3> QED BY <1>6, <2>2, <3>1, WalkInv DEF WorkerExit, WorkerPC
  <2> QED BY <2>1, <2>2
<1> QED BY <1>1, <1>2, <1>3, <1>4, <1>5, <1>6, WriteInv DEF Worker

-----------------------------------------------------------------------------
\* A client that has neither a message nor leaves one walks on; the worker may be woken.
LEMMA ClientWalk ==
  ASSUME LoggerInv, NEW c \in Clients, NEW p \in ClientPC \ {"async", "sync"},
         client[c].pc \notin {"async", "sync"}, ~shutdown_,
         client' = [client EXCEPT ![c].pc = p],
         \/ UNCHANGED worker
         \/ worker.pc = "waiting" /\ worker' = [worker EXCEPT !.pc = "enter"],
         UNCHANGED <<min_level_, async_enabled_, shutdown_, sinks_, message_queue_,
                     message_count_, dropped_count_, destructor, offered, written, logged>>,
         owed' \in [Clients -> SUBSET Message]
  PROVE  /\ TypeOK' /\ Carried' /\ Stages' /\ Accounting' /\ Order' /\ Numbers'
         /\ InHand' = InHand
         /\ \A d \in Clients : client'[d].pc = IF d = c THEN p ELSE client[d].pc
<1>1. /\ client' \in [Clients -> [pc : ClientPC, msg : Message \cup {NoMessage}]]
      /\ client'[c].pc = p /\ \A d \in Clients \ {c} : client'[d] = client[d]
  BY DEF LoggerInv, TypeOK
<1>2. /\ worker' \in [pc : WorkerPC, msg : Message \cup {NoMessage}]
      /\ InHand' = InHand
      /\ worker'.pc \in {"write", "exitWrite"} => worker'.msg \in Message
      /\ worker'.pc \in {"exit", "exitWrite", "done"} => worker'.pc = worker.pc
      /\ worker.pc = "done" => worker'.pc = "done"
  <2>1. CASE UNCHANGED worker
    BY <2>1 DEF LoggerInv, TypeOK, Carried, InHand
  <2>2. CASE worker.pc = "waiting" /\ worker' = [worker EXCEPT !.pc = "enter"]
    <3>1. worker \in [pc : WorkerPC, msg : Message \cup {NoMessage}]
      BY DEF LoggerInv, TypeOK
    <3>2. worker' \in [pc : WorkerPC, msg : Message \cup {NoMessage}] /\ worker'.pc = "enter"
      BY <2>2, <3>1 DEF WorkerPC
    <3> QED BY <2>2, <3>2 DEF InHand
  <2> QED BY <2>1, <2>2
<1>3. TypeOK' /\ Carried'
  BY <1>1, <1>2 DEF LoggerInv, TypeOK, Carried
<1>4. Stages'
  BY <1>1, <1>2 DEF LoggerInv, Stages
<1>5. Undecided' = Undecided /\ \A d \in Undecided : client'[d] = client[d]
  BY <1>1 DEF Undecided
<1>6. Accounting' /\ Order' /\ Numbers'
  BY <1>2, <1>5, SamePlaces
<1> QED BY <1>1, <1>2, <1>3, <1>4, <1>6

\* The notification, and the steps of flush.
LEMMA FlushInv ==
  ASSUME LoggerInv, NEW c \in Clients,
         LogNotify(c) \/ FlushBegin(c) \/ FlushPoll(c) \/ FlushReturn(c)
  PROVE  LoggerInv'
<1>1. ~shutdown_
  BY DEF LogNotify, FlushBegin, FlushPoll, FlushReturn, MayCall, LoggerInv, Stages
<1>2. owed \in [Clients -> SUBSET Message] /\ Contents(message_queue_) \cup InHand \subseteq Message
  <2>1. Contents(message_queue_) \subseteq Message
    BY LenProperties, ElementOfSeq DEF LoggerInv, TypeOK, Contents
  <2> QED BY <2>1 DEF LoggerInv, TypeOK, Carried, InHand
<1>3. CASE LogNotify(c)
  <2>1. /\ client[c].pc = "notify" /\ client' = [client EXCEPT ![c].pc = "idle"]
        /\ \/ UNCHANGED worker
           \/ worker.pc = "waiting" /\ worker' = [worker EXCEPT !.pc = "enter"]
        /\ UNCHANGED <<min_level_, async_enabled_, shutdown_, sinks_, message_queue_,
                       message_count_, dropped_count_, destructor, offered, written, logged,
                       owed>>
    BY <1>3 DEF LogNotify, WakeWorker
  <2>5. {"idle", "poll", "flush"} \subseteq ClientPC \ {"async", "sync"}
    BY DEF ClientPC
  <2>6. client[c].pc \notin {"async", "sync"}
    BY <2>1
  <2>2. /\ TypeOK' /\ Carried' /\ Stages' /\ Accounting' /\ Order' /\ Numbers'
        /\ InHand' = InHand
        /\ \A d \in Clients : client'[d].pc = IF d = c THEN "idle" ELSE client[d].pc
    BY <1>1, <1>2, <2>1, <2>5, <2>6, ClientWalk
  <2>3. Flushing'
    BY <2>1, <2>2, FlushMoves
  <2> QED BY <2>2, <2>3 DEF LoggerInv
<1>4. CASE FlushBegin(c)
  <2> DEFINE p == IF async_enabled_ THEN "poll" ELSE "flush"
             pending == IF async_enabled_ THEN Contents(message_queue_) \cup InHand ELSE {}
  <2>1. /\ client[c].pc = "idle" /\ client' = [client EXCEPT ![c].pc = p]
        /\ UNCHANGED <<min_level_, async_enabled_, shutdown_, sinks_, message_queue_, worker,
                       message_count_, dropped_count_, destructor, offered, written, logged>>
        /\ owed' = [owed EXCEPT ![c] = pending]
    BY <1>4 DEF FlushBegin, MayCall
  <2>2. owed' \in [Clients -> SUBSET Message]
    BY <1>2, <2>1
  <2>5. p \in ClientPC \ {"async", "sync"}
    BY DEF ClientPC
  <2>6. client[c].pc \notin {"async", "sync"}
    BY <2>1
  <2>3. /\ TypeOK' /\ Carried' /\ Stages' /\ Accounting' /\ Order' /\ Numbers'
        /\ InHand' = InHand
        /\ \A d \in Clients : client'[d].pc = IF d = c THEN p ELSE client[d].pc
    BY <1>1, <2>1, <2>2, <2>5, <2>6, ClientWalk
  <2>4. Flushing'
    BY <1>2, <2>1, <2>3 DEF LoggerInv, Flushing
  <2> QED BY <2>3, <2>4 DEF LoggerInv
<1>5. CASE FlushPoll(c)
  <2>1. /\ client[c].pc = "poll" /\ client' = [client EXCEPT ![c].pc = "flush"]
        /\ message_queue_ = << >>
        /\ UNCHANGED <<min_level_, async_enabled_, shutdown_, sinks_, message_queue_, worker,
                       message_count_, dropped_count_, destructor, offered, written, logged,
                       owed>>
    BY <1>5 DEF FlushPoll, FlushMayReturn
  <2>5. {"idle", "poll", "flush"} \subseteq ClientPC \ {"async", "sync"}
    BY DEF ClientPC
  <2>6. client[c].pc \notin {"async", "sync"}
    BY <2>1
  <2>2. /\ TypeOK' /\ Carried' /\ Stages' /\ Accounting' /\ Order' /\ Numbers'
        /\ InHand' = InHand
        /\ \A d \in Clients : client'[d].pc = IF d = c THEN "flush" ELSE client[d].pc
    BY <1>1, <1>2, <2>1, <2>5, <2>6, ClientWalk
  <2>3. Contents(message_queue_) = {}
    BY <2>1 DEF Contents
  <2>4. Flushing'
    BY <2>1, <2>2, <2>3 DEF LoggerInv, Flushing
  <2> QED BY <2>2, <2>4 DEF LoggerInv
<1>6. CASE FlushReturn(c)
  <2>1. /\ client[c].pc = "flush" /\ client' = [client EXCEPT ![c].pc = "idle"]
        /\ UNCHANGED <<min_level_, async_enabled_, shutdown_, sinks_, message_queue_, worker,
                       message_count_, dropped_count_, destructor, offered, written, logged>>
        /\ owed' = [owed EXCEPT ![c] = {}]
    BY <1>6 DEF FlushReturn
  <2>2. owed' \in [Clients -> SUBSET Message]
    BY <1>2, <2>1
  <2>5. {"idle", "poll", "flush"} \subseteq ClientPC \ {"async", "sync"}
    BY DEF ClientPC
  <2>6. client[c].pc \notin {"async", "sync"}
    BY <2>1
  <2>3. /\ TypeOK' /\ Carried' /\ Stages' /\ Accounting' /\ Order' /\ Numbers'
        /\ InHand' = InHand
        /\ \A d \in Clients : client'[d].pc = IF d = c THEN "idle" ELSE client[d].pc
    BY <1>1, <2>1, <2>2, <2>5, <2>6, ClientWalk
  <2>4. Flushing'
    BY <1>2, <2>1, <2>3 DEF LoggerInv, Flushing
  <2> QED BY <2>3, <2>4 DEF LoggerInv
<1> QED BY <1>3, <1>4, <1>5, <1>6

\* log() takes the next number of its thread.
LEMMA BeginInv ==
  ASSUME LoggerInv, NEW c \in Clients, NEW level \in Levels, LogBegin(c, level)
  PROVE  LoggerInv'
<1> DEFINE p == IF async_enabled_ THEN "async" ELSE "sync"
           m == [src |-> c, n |-> logged[c] + 1, level |-> level, async |-> async_enabled_]
<1>1. /\ client[c].pc = "idle" /\ destructor = "alive" /\ message_count_ < MaxLogs
      /\ logged' = [logged EXCEPT ![c] = logged[c] + 1]
      /\ message_count_' = message_count_ + 1
      /\ client' = [client EXCEPT ![c] = [pc |-> p, msg |-> m]]
      /\ UNCHANGED <<min_level_, async_enabled_, shutdown_, sinks_, message_queue_,
                     dropped_count_, worker, destructor, offered, written, owed>>
  BY DEF LogBegin, MayCall
<1>2. /\ logged \in [Clients -> 0..MaxLogs] /\ message_count_ \in Nat
      /\ \A d \in Clients : logged[d] \in Nat /\ logged[d] <= message_count_
      /\ MaxLogs \in Nat
  BY LoggerAssumption DEF LoggerInv, TypeOK, Carried
<1>3. logged[c] + 1 \in 1..MaxLogs /\ logged' \in [Clients -> 0..MaxLogs]
  BY <1>1, <1>2
<1>4. m \in Message
  BY <1>3 DEF Message, LoggerInv, TypeOK
<1>5. m.src = c /\ m.n = logged[c] + 1 /\ m.async = async_enabled_
  OBVIOUS
<1> HIDE DEF m
<1>6. /\ client' \in [Clients -> [pc : ClientPC, msg : Message \cup {NoMessage}]]
      /\ client'[c].pc = p /\ client'[c].msg = m
      /\ \A d \in Clients \ {c} : client'[d] = client[d]
  BY <1>1, <1>4 DEF LoggerInv, TypeOK, ClientPC
<1>7. TypeOK'
  BY <1>1, <1>2, <1>3, <1>6 DEF LoggerInv, TypeOK
<1>8. Carried' /\ Stages'
  <2>1. \A d \in Clients : logged'[d] <= message_count_'
    BY <1>1, <1>2
  <2>2. message_count_' <= MaxLogs
    BY <1>1, <1>2
  <2>3. ~shutdown_
    BY <1>1 DEF LoggerInv, Stages
  <2> QED BY <1>1, <2>1, <2>2, <2>3 DEF LoggerInv, Carried, Stages
<1>9. InHand' = InHand /\ Undecided' = Undecided \cup {c} /\ c \notin Undecided
  BY <1>1, <1>6 DEF InHand, Undecided
<1>10. Accounting'
  <2>1. Cardinality(Undecided') = Cardinality(Undecided) + 1
    BY <1>9, UndecidedFinite, FS_AddElement
  <2>2. /\ dropped_count_ \in Nat /\ Cardinality(Undecided) \in Nat /\ Len(offered) \in Nat
        /\ Len(message_queue_) \in Nat /\ Cardinality(InHand) \in Nat
    BY UndecidedFinite, LenProperties, HandCount DEF LoggerInv, TypeOK
  <2> QED BY <1>1, <1>9, <2>1, <2>2 DEF LoggerInv, Accounting
<1>11. Order'
  BY <1>1, <1>9 DEF LoggerInv, Order, Ordered, Before
<1>12. Numbers'
  <2>1. ASSUME NEW k \in Message, Old(k) PROVE Old(k)'
    <3>1. k.src \in Clients /\ k.n \in Nat
      BY DEF Message
    <3>2. CASE k.src = c
      <4>1. k.n <= logged[c] /\ logged[c] \in Nat /\ logged'[k.src] = logged[c] + 1
        BY <1>1, <1>2, <2>1, <3>2 DEF Old
      <4> QED BY <3>1, <4>1 DEF Old
    <3>3. CASE k.src # c
      BY <1>1, <1>2, <1>9, <2>1, <3>1, <3>3 DEF Old
    <3> QED BY <3>2, <3>3
  <2>2. /\ Contents(message_queue_) \subseteq Message /\ InHand \subseteq Message
        /\ \A s \in Sinks : Contents(written[s]) \subseteq Message
    BY LenProperties, ElementOfSeq DEF LoggerInv, TypeOK, Contents, Carried, InHand
  <2>3. \A d \in Undecided' :
          /\ client'[d].msg \in Message
          /\ client'[d].msg.src = d /\ client'[d].msg.n = logged'[d]
          /\ client'[d].msg.async <=> client'[d].pc = "async"
    <3> SUFFICES ASSUME NEW d \in Undecided'
        PROVE  /\ client'[d].msg \in Message
               /\ client'[d].msg.src = d /\ client'[d].msg.n = logged'[d]
               /\ client'[d].msg.async <=> client'[d].pc = "async"
      OBVIOUS
    <3>1. CASE d = c
      <4>1. logged'[c] = logged[c] + 1
        BY <1>1, <1>2
      <4>2. async_enabled_ \in BOOLEAN
        BY DEF LoggerInv, TypeOK
      <4> QED BY <1>4, <1>5, <1>6, <3>1, <4>1, <4>2
    <3>2. CASE d # c
      <4>1. d \in Undecided /\ d \in Clients /\ client'[d] = client[d] /\ logged'[d] = logged[d]
        BY <1>1, <1>2, <1>6, <1>9, <3>2 DEF Undecided
      <4> QED BY <4>1 DEF LoggerInv, Numbers
    <3> QED BY <3>1, <3>2
  <2> QED BY <1>1, <1>9, <2>1, <2>2, <2>3 DEF LoggerInv, Numbers
<1>13. Flushing'
  <2>1. \A d \in Clients : client'[d].pc \in {"poll", "flush"} => client'[d].pc = client[d].pc
    BY <1>6
  <2> QED BY <1>1, <1>9, <2>1, FlushMoves
<1> QED BY <1>7, <1>8, <1>10, <1>11, <1>12, <1>13 DEF LoggerInv

\* A client hands its message over, or drops it: it is the last of its thread so far.
LEMMA HandOver ==
  ASSUME LoggerInv, NEW c \in Undecided, NEW p \in ClientPC \ {"async", "sync", "poll", "flush"},
         NEW m, m = client[c].msg,
         client' = [client EXCEPT ![c] = [pc |-> p, msg |-> NoMessage]],
         UNCHANGED logged
  PROVE  /\ client' \in [Clients -> [pc : ClientPC, msg : Message \cup {NoMessage}]]
         /\ \A d \in Clients : client'[d].pc \in {"poll", "flush"} => client'[d].pc = client[d].pc
         /\ Cardinality(Undecided') = Cardinality(Undecided) - 1
         /\ Cardinality(Undecided) \in Nat /\ Cardinality(Undecided') \in Nat
         /\ m \in Message /\ (m.async <=> client[c].pc = "async")
         /\ \A k : Old(k) => Old(k)' /\ Before(k, m)
         /\ Old(m)'
         /\ \A d \in Undecided' :
              /\ client'[d].msg \in Message
              /\ client'[d].msg.src = d /\ client'[d].msg.n = logged'[d]
              /\ client'[d].msg.async <=> client'[d].pc = "async"
         /\ ~shutdown_
<1>1. c \in Clients /\ client[c].pc \in {"async", "sync"}
  BY DEF Undecided
<1>2. /\ client' \in [Clients -> [pc : ClientPC, msg : Message \cup {NoMessage}]]
      /\ client'[c].pc = p /\ \A d \in Clients \ {c} : client'[d] = client[d]
  BY <1>1 DEF LoggerInv, TypeOK
<1>3. \A d \in Clients : client'[d].pc \in {"poll", "flush"} => client'[d].pc = client[d].pc
  BY <1>2
<1>4. Undecided' = Undecided \ {c}
  BY <1>1, <1>2 DEF Undecided
<1>5. /\ Cardinality(Undecided') = Cardinality(Undecided) - 1
      /\ Cardinality(Undecided) \in Nat /\ Cardinality(Undecided') \in Nat
  BY <1>4, UndecidedFinite, FS_RemoveElement, FS_Subset, FS_CardinalityType
<1>6. \A k : Old(k) => Old(k)'
  BY <1>4 DEF Old
<1>7. /\ m \in Message /\ m.src = c /\ m.n = logged[c]
      /\ (m.async <=> client[c].pc = "async") /\ logged[c] \in Nat
  BY <1>1 DEF LoggerInv, Numbers, TypeOK
<1>8. Old(m)'
  BY <1>4, <1>7 DEF Old
<1>9. \A k : Old(k) => Before(k, m)
  BY <1>7 DEF Old, Before
<1>10. ASSUME NEW d \in Undecided'
       PROVE  /\ client'[d].msg \in Message
              /\ client'[d].msg.src = d /\ client'[d].msg.n = logged'[d]
              /\ client'[d].msg.async <=> client'[d].pc = "async"
  <2>1. d \in Undecided /\ d \in Clients \ {c}
    BY <1>4 DEF Undecided
  <2>2. client'[d] = client[d]
    BY <1>2, <2>1
  <2> QED BY <2>1, <2>2 DEF LoggerInv, Numbers
<1>11. ~shutdown_
  BY <1>1 DEF LoggerInv, Stages
<1> QED BY <1>2, <1>3, <1>5, <1>6, <1>7, <1>8, <1>9, <1>10, <1>11

\* log() pushes its message, or drops it because the queue is full.
LEMMA EnqueueInv ==
  ASSUME LoggerInv, NEW c \in Clients, LogEnqueue(c)
  PROVE  LoggerInv'
<1>3. PICK m : m = client[c].msg
  OBVIOUS
<1>1. PICK p \in {"idle", "notify"} :
        /\ client[c].pc = "async"
        /\ client' = [client EXCEPT ![c] = [pc |-> p, msg |-> NoMessage]]
        /\ \/ /\ dropped_count_' = dropped_count_ + 1
              /\ UNCHANGED message_queue_
           \/ /\ ~(Len(message_queue_) >= MAX_QUEUE_SIZE)
              /\ message_queue_' = Append(message_queue_, m)
              /\ UNCHANGED dropped_count_
        /\ UNCHANGED <<min_level_, async_enabled_, shutdown_, sinks_, message_count_,
                       worker, destructor, offered, written, logged, owed>>
  BY <1>3 DEF LogEnqueue, QueueFull
<1>2. c \in Undecided /\ p \in ClientPC \ {"async", "sync", "poll", "flush"}
  BY <1>1 DEF Undecided, ClientPC
<1>4. /\ client' \in [Clients -> [pc : ClientPC, msg : Message \cup {NoMessage}]]
      /\ \A d \in Clients : client'[d].pc \in {"poll", "flush"} => client'[d].pc = client[d].pc
      /\ Cardinality(Undecided') = Cardinality(Undecided) - 1
      /\ Cardinality(Undecided) \in Nat /\ Cardinality(Undecided') \in Nat
      /\ m \in Message /\ (m.async <=> client[c].pc = "async")
      /\ \A k : Old(k) => Old(k)' /\ Before(k, m)
      /\ Old(m)'
      /\ \A d \in Undecided' :
           /\ client'[d].msg \in Message
           /\ client'[d].msg.src = d /\ client'[d].msg.n = logged'[d]
           /\ client'[d].msg.async <=> client'[d].pc = "async"
      /\ ~shutdown_
  BY <1>1, <1>2, <1>3, HandOver
<1>5. /\ message_queue_ \in Seq(Message) /\ Len(message_queue_) \in Nat
      /\ Len(message_queue_) <= MAX_QUEUE_SIZE /\ MAX_QUEUE_SIZE \in Nat
      /\ dropped_count_ \in Nat /\ Len(offered) \in Nat
      /\ InHand' = InHand /\ Cardinality(InHand) \in Nat
  BY <1>1, LenProperties, HandCount, LoggerAssumption DEF LoggerInv, TypeOK, InHand
<1>6. \A k \in Contents(message_queue_) \cup InHand : Old(k) /\ Before(k, m)
  BY <1>4 DEF LoggerInv, Numbers
<1>7. /\ message_queue_' \in Seq(Message) /\ Len(message_queue_') <= MAX_QUEUE_SIZE
      /\ dropped_count_' \in Nat
      /\ dropped_count_' + Len(message_queue_') = dropped_count_ + Len(message_queue_) + 1
      /\ Len(message_queue_') \in Nat
      /\ Contents(message_queue_) \subseteq Contents(message_queue_')
      /\ Contents(message_queue_') \subseteq Contents(message_queue_) \cup {m}
      /\ Ordered(message_queue_')
  <2>1. Ordered(message_queue_)
    BY DEF LoggerInv, Order
  <2>2. CASE dropped_count_' = dropped_count_ + 1 /\ UNCHANGED message_queue_
    BY <1>5, <2>1, <2>2
  <2>3. CASE /\ ~(Len(message_queue_) >= MAX_QUEUE_SIZE)
             /\ message_queue_' = Append(message_queue_, m)
             /\ UNCHANGED dropped_count_
    <3>1. /\ message_queue_' \in Seq(Message) /\ Len(message_queue_') = Len(message_queue_) + 1
          /\ Contents(message_queue_') = Contents(message_queue_) \cup {m}
          /\ Ordered(message_queue_')
      BY <1>4, <1>5, <1>6, <2>1, <2>3, AppendContents
    <3> QED BY <1>5, <2>3, <3>1
  <2> QED BY <1>1, <2>2, <2>3
<1>8. TypeOK'
  BY <1>1, <1>4, <1>7 DEF LoggerInv, TypeOK
<1>9. Carried' /\ Stages'
  <2>1. worker.pc # "done" /\ destructor = "alive"
    BY <1>4 DEF LoggerInv, Stages
  <2> QED BY <1>1, <1>4, <2>1 DEF LoggerInv, Carried, Stages
<1>10. Accounting'
  BY <1>1, <1>4, <1>5, <1>7 DEF LoggerInv, Accounting
<1>11. Order'
  <2>1. \A s \in Sinks : \A k \in Contents(written[s]) : Before(k, m)
    BY <1>4 DEF LoggerInv, Numbers
  <2>2. \A k \in InHand', l \in Contents(message_queue_') : Before(k, l)
    BY <1>5, <1>6, <1>7 DEF LoggerInv, Order
  <2>3. \A s \in Sinks :
          /\ Ordered(written'[s])
          /\ \A k \in Contents(written'[s]), l \in InHand' \cup Contents(message_queue_') :
               Before(k, l)
    BY <1>1, <1>5, <1>7, <2>1 DEF LoggerInv, Order
  <2> QED BY <1>7, <2>2, <2>3 DEF Order, Ordered, Before
<1>12. Numbers'
  <2>1. \A k \in InHand' \cup Contents(message_queue_') : k.async /\ Old(k)'
    BY <1>1, <1>4, <1>5, <1>7 DEF LoggerInv, Numbers
  <2>2. \A s \in Sinks : \A k \in Contents(written'[s]) : Old(k)'
    BY <1>1, <1>4 DEF LoggerInv, Numbers
  <2> QED BY <1>4, <2>1, <2>2 DEF Numbers
<1>13. Flushing'
  BY <1>1, <1>4, <1>5, <1>7, FlushMoves
<1> QED BY <1>8, <1>9, <1>10, <1>11, <1>12, <1>13 DEF LoggerInv

\* log() on the synchronous path.
LEMMA SyncInv ==
  ASSUME LoggerInv, NEW c \in Clients, LogSync(c)
  PROVE  LoggerInv'
<1>3. PICK m : m = client[c].msg
  OBVIOUS
<1>1. /\ client[c].pc = "sync" /\ write_to_sinks(m)
      /\ client' = [client EXCEPT ![c] = [pc |-> "idle", msg |-> NoMessage]]
      /\ UNCHANGED <<min_level_, async_enabled_, shutdown_, sinks_, message_queue_,
                     message_count_, dropped_count_, worker, destructor, logged, owed>>
  BY <1>3 DEF LogSync
<1>2. c \in Undecided /\ "idle" \in ClientPC \ {"async", "sync", "poll", "flush"}
  BY <1>1 DEF Undecided, ClientPC
<1>4. /\ client' \in [Clients -> [pc : ClientPC, msg : Message \cup {NoMessage}]]
      /\ \A d \in Clients : client'[d].pc \in {"poll", "flush"} => client'[d].pc = client[d].pc
      /\ Cardinality(Undecided') = Cardinality(Undecided) - 1
      /\ Cardinality(Undecided) \in Nat /\ Cardinality(Undecided') \in Nat
      /\ m \in Message /\ (m.async <=> client[c].pc = "async")
      /\ \A k : Old(k) => Old(k)' /\ Before(k, m)
      /\ Old(m)'
      /\ \A d \in Undecided' :
           /\ client'[d].msg \in Message
           /\ client'[d].msg.src = d /\ client'[d].msg.n = logged'[d]
           /\ client'[d].msg.async <=> client'[d].pc = "async"
      /\ ~shutdown_
  BY <1>1, <1>2, <1>3, HandOver
<1>5. \A s \in Sinks : \A k \in Contents(written[s]) : Before(k, m)
  BY <1>4 DEF LoggerInv, Numbers
<1>6. /\ offered' \in Seq(Message) /\ Len(offered') = Len(offered) + 1 /\ Len(offered) \in Nat
      /\ Contents(offered') = Contents(offered) \cup {m}
      /\ written' \in [Sinks -> Seq(Message)]
      /\ \A s \in Sinks : /\ Ordered(written'[s])
                          /\ Contents(written'[s]) \subseteq Contents(written[s]) \cup {m}
  BY <1>1, <1>4, <1>5, SinksInv
<1>7. InHand' = InHand /\ Cardinality(InHand) \in Nat
  BY <1>1, HandCount DEF InHand
<1>8. TypeOK'
  BY <1>1, <1>4, <1>6 DEF LoggerInv, TypeOK
<1>9. Carried' /\ Stages'
  BY <1>1, <1>4 DEF LoggerInv, Carried, Stages
<1>10. Accounting'
  <2>1. dropped_count_ \in Nat /\ Len(message_queue_) \in Nat
    BY LenProperties DEF LoggerInv, TypeOK
  <2>2. /\ Cardinality(Undecided') = Cardinality(Undecided) - 1
        /\ Cardinality(Undecided) \in Nat
        /\ Len(offered') = Len(offered) + 1 /\ Len(offered) \in Nat
    BY <1>4, <1>6
  <2>3. message_count_ = dropped_count_ + Len(message_queue_) + Cardinality(InHand)
                           + Cardinality(Undecided) + Len(offered)
    BY DEF LoggerInv, Accounting
  <2> QED BY <1>1, <1>7, <2>1, <2>2, <2>3 DEF Accounting
<1>11. Order'
  <2>1. \A k \in InHand \cup Contents(message_queue_) : Before(m, k)
    BY <1>1, <1>4 DEF LoggerInv, Numbers, Before
  <2>2. \A s \in Sinks :
          /\ Ordered(written'[s])
          /\ \A k \in Contents(written'[s]), l \in InHand' \cup Contents(message_queue_') :
               Before(k, l)
    BY <1>1, <1>6, <1>7, <2>1 DEF LoggerInv, Order
  <2>3. /\ Ordered(message_queue_')
        /\ \A k \in InHand', l \in Contents(message_queue_') : Before(k, l)
    BY <1>1, <1>7 DEF LoggerInv, Order
  <2> QED BY <2>2, <2>3 DEF Order, Ordered, Before
<1>12. Numbers'
  <2>1. \A k \in InHand' \cup Contents(message_queue_') : k.async /\ Old(k)'
    BY <1>1, <1>4, <1>7 DEF LoggerInv, Numbers
  <2>2. \A s \in Sinks : \A k \in Contents(written'[s]) : Old(k)'
    BY <1>4, <1>6 DEF LoggerInv, Numbers
  <2> QED BY <1>4, <2>1, <2>2 DEF Numbers
<1>13. Flushing'
  BY <1>1, <1>4, <1>6, <1>7, FlushMoves
<1> QED BY <1>8, <1>9, <1>10, <1>11, <1>12, <1>13 DEF LoggerInv

-----------------------------------------------------------------------------
\* The configuration touches no message.
LEMMA ConfigureInv ==
  ASSUME LoggerInv, Configure
  PROVE  LoggerInv'
<1>1. /\ min_level_' \in Levels /\ async_enabled_' \in BOOLEAN /\ sinks_' \subseteq Sinks
      /\ UNCHANGED <<shutdown_, message_queue_, message_count_, dropped_count_, worker, client,
                     destructor, offered, written, logged, owed>>
  BY DEF Configure, set_min_level, set_async, add_sink, clear_sinks, LoggerInv, TypeOK
<1>2. TypeOK' /\ Carried' /\ Stages'
  BY <1>1 DEF LoggerInv, TypeOK, Carried, Stages
<1>3. InHand' = InHand /\ Undecided' = Undecided
  BY <1>1 DEF InHand, Undecided
<1>4. Accounting' /\ Order' /\ Numbers'
  BY <1>1, <1>3, SamePlaces
<1>5. Flushing'
  BY <1>1, <1>3, FlushMoves
<1> QED BY <1>2, <1>4, <1>5 DEF LoggerInv

\* The steps of the destructor.
LEMMA DestructorInv ==
  ASSUME LoggerInv, StoreShutdown \/ Destructor
  PROVE  LoggerInv'
<1>1. /\ UNCHANGED <<min_level_, async_enabled_, message_queue_, message_count_, dropped_count_,
                     client, offered, written, logged, owed>>
      /\ sinks_' \subseteq Sinks /\ shutdown_' = TRUE /\ shutdown_' \in BOOLEAN
      /\ destructor' \in DestructorPC \ {"alive"}
      /\ \A c \in Clients : client[c].pc = "idle"
      /\ destructor' \in {"joined", "destroyed"} => worker.pc = "done" /\ UNCHANGED worker
      /\ \/ UNCHANGED worker
         \/ worker.pc = "waiting" /\ worker' = [worker EXCEPT !.pc = "enter"]
  BY DEF StoreShutdown, Destructor, NotifyShutdown, Join, Destroy, WakeWorker, DestructorPC,
         LoggerInv, TypeOK, Stages
<1>2. /\ worker' \in [pc : WorkerPC, msg : Message \cup {NoMessage}]
      /\ InHand' = InHand
      /\ worker'.pc \in {"write", "exitWrite"} => worker'.msg \in Message
      /\ worker'.pc = "done" => worker.pc = "done"
      /\ worker.pc = "done" => worker'.pc = "done"
  <2>1. CASE UNCHANGED worker
    BY <2>1 DEF LoggerInv, TypeOK, Carried, InHand
  <2>2. CASE worker.pc = "waiting" /\ worker' = [worker EXCEPT !.pc = "enter"]
    <3>1. worker \in [pc : WorkerPC, msg : Message \cup {NoMessage}]
      BY DEF LoggerInv, TypeOK
    <3>2. worker' \in [pc : WorkerPC, msg : Message \cup {NoMessage}] /\ worker'.pc = "enter"
      BY <2>2, <3>1 DEF WorkerPC
    <3> QED BY <2>2, <3>2 DEF InHand
  <2> QED BY <1>1, <2>1, <2>2
<1>3. TypeOK' /\ Carried'
  BY <1>1, <1>2 DEF LoggerInv, TypeOK, Carried
<1>4. Stages'
  BY <1>1, <1>2 DEF LoggerInv, Stages
<1>5. Undecided' = Undecided
  BY <1>1 DEF Undecided
<1>6. Accounting' /\ Order' /\ Numbers'
  BY <1>1, <1>2, <1>5, SamePlaces
<1>7. Flushing'
  BY <1>1, <1>2, FlushMoves
<1> QED BY <1>3, <1>4, <1>6, <1>7 DEF LoggerInv

\* Every step of Next.
LEMMA LoggerNext == LoggerInv /\ [Next]_vars => LoggerInv'
<1> SUFFICES ASSUME LoggerInv, [Next]_vars PROVE LoggerInv'
  OBVIOUS
<1>1. CASE \E c \in Clients, level \in Levels : LogBegin(c, level)
  BY <1>1, BeginInv
<1>2. CASE \E c \in Clients : FlushBegin(c) \/ ClientStep(c)
  BY <1>2, EnqueueInv, SyncInv, FlushInv DEF ClientStep
<1>3. CASE Configure
  BY <1>3, ConfigureInv
<1>4. CASE Worker \/ SpuriousWakeup
  BY <1>4, WorkerInv
<1>5. CASE StoreShutdown \/ Destructor
  BY <1>5, DestructorInv
<1>6. CASE UNCHANGED vars
  <2>1. InHand' = InHand /\ Undecided' = Undecided
    BY <1>6 DEF vars, InHand, Undecided
  <2>2. TypeOK' /\ Carried' /\ Stages'
    BY <1>6 DEF vars, LoggerInv, TypeOK, Carried, Stages
  <2>3. Accounting' /\ Order' /\ Numbers'
    BY <1>6, <2>1, SamePlaces DEF vars
  <2>4. Flushing'
    BY <1>6, <2>1, FlushMoves DEF vars
  <2> QED BY <2>2, <2>3, <2>4 DEF LoggerInv
<1> QED BY <1>1, <1>2, <1>3, <1>4, <1>5, <1>6 DEF Next

\* LoggerInv holds in every reachable state, whatever the threads, sinks and capacity.
THEOREM LoggerInvariance == Spec => []LoggerInv
BY LoggerInit, LoggerNext, PTL DEF Spec

\* The queue never exceeds MAX_QUEUE_SIZE, and every thread is at a known place.
THEOREM LoggerTyped == Spec => []TypeOK
<1>1. LoggerInv => TypeOK
  BY DEF LoggerInv
<1> QED BY <1>1, LoggerInvariance, PTL

\* get_message_count() and get_dropped_count() account for every message: none is
\* lost or handled twice between log(), the queue, the worker and the sinks.
THEOREM MessagesCounted == Spec => []Accounting
<1>1. LoggerInv => Accounting
  BY DEF LoggerInv
<1> QED BY <1>1, LoggerInvariance, PTL

\* Each sink sees a thread's messages of one path in the order of its log() calls.
THEOREM SinksInOrder == Spec => []SinkOrder
<1>1. LoggerInv => SinkOrder
  BY DEF LoggerInv, Order, Ordered, Before, SinkOrder
<1> QED BY <1>1, LoggerInvariance, PTL

\* A flush() that saw the queue empty has at most the worker's one message outstanding.
THEOREM FlushGapOnly == Spec => []FlushGap
<1>1. LoggerInv => FlushGap
  BY DEF LoggerInv, Flushing, FlushGap
<1> QED BY <1>1, LoggerInvariance, PTL

\* Once the worker is joined, every message was dropped for lack of room or written.
THEOREM ShutdownDrained == Spec => []ShutdownDrains
<1>1. LoggerInv => ShutdownDrains
  <2> SUFFICES ASSUME LoggerInv, destructor \in {"joined", "destroyed"}
               PROVE  /\ message_queue_ = << >>
                      /\ Len(offered) = message_count_ - dropped_count_
    BY DEF ShutdownDrains
  <2>1. /\ worker.pc = "done" /\ message_queue_ = << >>
        /\ \A c \in Clients : client[c].pc = "idle"
    BY DEF LoggerInv, Stages
  <2>2. Undecided = {} /\ Cardinality(Undecided) = 0
    BY <2>1, FS_EmptySet DEF Undecided
  <2>3. Cardinality(InHand) = 0
    BY <2>1, HandCount
  <2>4. Len(offered) \in Nat /\ dropped_count_ \in Nat /\ Len(message_queue_) = 0
    BY <2>1, LenProperties, EmptySeq DEF LoggerInv, TypeOK
  <2> QED BY <2>1, <2>2, <2>3, <2>4 DEF LoggerInv, Accounting
<1> QED BY <1>1, LoggerInvariance, PTL
=============================================================================
