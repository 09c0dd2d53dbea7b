------------------------------ MODULE TaskBag ------------------------------
(***************************************************************************)
(* What a pool of workers promises (async.hh), without workers, queue or   *)
(* notifications: a task is taken while the pool is open and runs once, a  *)
(* task that comes later is turned away, and the pool is closed only when  *)
(* everything it took has run.  ThreadPool implements it.                  *)
(***************************************************************************)
CONSTANT Tasks

VARIABLES
  todo,       \* tasks taken and not yet run
  finished,   \* tasks that have run
  turned,     \* tasks that were turned away
  phase       \* "open", "closing" or "closed"

bag_vars == <<todo, finished, turned, phase>>

Init == todo = {} /\ finished = {} /\ turned = {} /\ phase = "open"

Fresh(t) == t \notin todo \cup finished \cup turned

Take(t) ==
  /\ phase = "open" /\ Fresh(t)
  /\ todo' = todo \cup {t}
  /\ UNCHANGED <<finished, turned, phase>>

TurnAway(t) ==
  /\ phase = "closing" /\ Fresh(t)
  /\ turned' = turned \cup {t}
  /\ UNCHANGED <<todo, finished, phase>>

RunTask(t) ==
  /\ t \in todo
  /\ todo' = todo \ {t}
  /\ finished' = finished \cup {t}
  /\ UNCHANGED <<turned, phase>>

BeginClose ==
  /\ phase = "open" /\ phase' = "closing"
  /\ UNCHANGED <<todo, finished, turned>>

Close ==
  /\ phase = "closing" /\ todo = {}
  /\ phase' = "closed"
  /\ UNCHANGED <<todo, finished, turned>>

Next ==
  \/ \E t \in Tasks : Take(t) \/ TurnAway(t) \/ RunTask(t)
  \/ BeginClose \/ Close

Spec == Init /\ [][Next]_bag_vars
=============================================================================
