----------------------------- MODULE DMAObject -----------------------------
(***************************************************************************)
(* The life of a DMA object (dma.cpp): the constructor that builds its     *)
(* parts one by one and may throw between them, the settings that create   *)
(* and destroy parts later, the registries of tools per process with the   *)
(* raw pointers they hand out, the unlocked reads that such a setting may  *)
(* overtake, and the destruction of the members in the reverse order of    *)
(* their declaration (dma.hh), which is not the order in which the         *)
(* constructor builds them.                                                *)
(***************************************************************************)
EXTENDS Naturals, Sequences, FiniteSets

CONSTANTS
  Callers,    \* threads
  ToolPids,   \* process ids
  MaxTools    \* bound on the tools made

ASSUME ObjectAssumption == MaxTools \in Nat

VARIABLES
  phase,     \* building, open, closing or gone
  built,     \* how many parts the constructor has built
  alive,     \* the members that hold an object
  inside,    \* the member that a read under way has entered, or nowhere
  tool,      \* the registries: the tool of each kind and process, or None
  made,      \* tools made so far; a tool is its number
  needs,     \* the tools whose raw pointers an offset finder holds
  freed,     \* history: the tools that a destroy function was asked to free
  finding,   \* create_offset_finder under way: who, for which process, with what
  handle     \* the pointer each caller got last

object_vars == <<phase, built, alive, inside, tool, made, needs, freed, finding, handle>>

None == 0
Kinds == {"value_freezers", "pattern_scanners", "struct_managers",
          "module_enumerators", "offset_finders"}
Slots == Kinds \X ToolPids

\* Mutant of Declared: the handle is declared last.
DeclaredLast ==
  <<"metrics", "cache", "analyzer", "batch_ops", "health_monitor", "differ", "rate_limiter",
    "circuit_breaker", "self_healing", "chains", "value_freezers", "pattern_scanners",
    "struct_managers", "module_enumerators", "offset_finders", "logger", "handle">>

\* The members in the order of their declaration, and in that of the constructor's body.
Declared ==
  <<"handle", "metrics", "cache", "analyzer", "batch_ops", "health_monitor", "differ",
    "rate_limiter", "circuit_breaker", "self_healing", "chains", "value_freezers",
    "pattern_scanners", "struct_managers", "module_enumerators", "offset_finders", "logger">>
Constructed ==
  <<"handle", "metrics", "cache", "analyzer", "batch_ops", "differ", "rate_limiter",
    "circuit_breaker", "self_healing", "chains">>

\* The members that a setting destroys while the object is open.
Optional == {"cache", "rate_limiter"}

\* Who follows a pointer to what, when it runs or is destroyed: the callbacks of the
\* breaker and of self-healing log, and so does what the thread of a freezer writes through.
Uses(member) ==
  CASE member = "circuit_breaker" -> {"logger"}
    [] member = "self_healing" -> {"circuit_breaker", "logger"}
    [] member = "value_freezers" -> {"handle", "logger"}
    [] member \in {"batch_ops"} \cup (Kinds \ {"value_freezers"}) -> {"handle"}
    [] OTHER -> {}

NoFinding == [by |-> "nobody", pid |-> 0, scanner |-> None, enumerator |-> None, step |-> "none"]

\* The logger is taken in the initializer list, before the body builds anything.
ObjectInit ==
  /\ phase = "building" /\ built = 0
  /\ alive = {"logger"}
  /\ inside = "nowhere"
  /\ tool = [s \in Slots |-> None]
  /\ made = 0 /\ needs = <<>> /\ freed = {}
  /\ finding = NoFinding
  /\ handle = [c \in Callers |-> None]

-----------------------------------------------------------------------------
(* Constructor and destructor *)

\* The next part is built; the registries are there, empty, from the handle on.
Build ==
  /\ phase = "building"
  /\ built' = built + 1
  /\ alive' = alive \cup {Constructed[built']} \cup Kinds
  /\ phase' = IF built' = Len(Constructed) THEN "open" ELSE "building"
  /\ UNCHANGED <<inside, tool, made, needs, freed, finding, handle>>

\* VMMDLL_Initialize fails, or a part cannot be made: the constructor throws.
Throw ==
  /\ phase = "building"
  /\ phase' = "closing"
  /\ UNCHANGED <<built, alive, inside, tool, made, needs, freed, finding, handle>>

\* ~DMA is called when no call is under way: clean_fpga changes nothing here.
Close ==
  /\ phase = "open" /\ finding = NoFinding /\ inside = "nowhere"
  /\ phase' = "closing"
  /\ UNCHANGED <<built, alive, inside, tool, made, needs, freed, finding, handle>>

LastMember ==
  Declared[CHOOSE i \in DOMAIN Declared :
             Declared[i] \in alive /\ \A j \in i + 1 .. Len(Declared) : Declared[j] \notin alive]

\* A member is destroyed, and with a registry its tools; a freezer joins its thread.
DestroyMember ==
  /\ phase = "closing" /\ alive # {}
  /\ alive' = alive \ {LastMember}
  /\ tool' = [s \in Slots |-> IF s[1] = LastMember THEN None ELSE tool[s]]
  /\ phase' = IF alive' = {} THEN "gone" ELSE "closing"
  /\ UNCHANGED <<built, inside, made, needs, freed, finding, handle>>

-----------------------------------------------------------------------------
(* Settings and reads, under no lock *)

Settle(members) ==
  /\ phase = "open" /\ alive' = members
  /\ UNCHANGED <<phase, built, inside, tool, made, needs, freed, finding, handle>>

\* enable_cache, enable_rate_limiting: the object is made once, or destroyed, whoever is
\* inside it; nobody asks.
enable(member, on) == Settle(IF on THEN alive \cup {member} ELSE alive \ {member})

\* A limit makes the limiter when it is missing.
set_rate_limit == Settle(alive \cup {"rate_limiter"})

\* Also run_health_checks and start_automatic_health_monitoring; nothing destroys it again.
enable_health_monitoring == Settle(alive \cup {"health_monitor"})

\* A read has seen the pointer set and calls the member, and comes back from the call.
Call(member) ==
  /\ phase = "open" /\ inside = "nowhere" /\ member \in alive
  /\ inside' = member
  /\ UNCHANGED <<phase, built, alive, tool, made, needs, freed, finding, handle>>

Return ==
  /\ inside # "nowhere" /\ inside' = "nowhere"
  /\ UNCHANGED <<phase, built, alive, tool, made, needs, freed, finding, handle>>

-----------------------------------------------------------------------------
(* The registries.  Each has a mutex of its own, held for the whole call. *)

Idle(c) == phase = "open" /\ finding.by # c
Unlocked(kind) == kind = "offset_finders" => finding = NoFinding
Give(c, t) == handle' = [handle EXCEPT ![c] = t]
Unmoved == UNCHANGED <<phase, built, alive, inside>>

\* The tool of the process, made on demand, with the pointers it will keep.
Create(c, kind, pid, need) ==
  /\ IF tool[<<kind, pid>>] = None
     THEN /\ made < MaxTools
          /\ made' = made + 1
          /\ tool' = [tool EXCEPT ![<<kind, pid>>] = made']
          /\ needs' = Append(needs, need)
     ELSE UNCHANGED <<made, tool, needs>>
  /\ Give(c, tool'[<<kind, pid>>])

create(c, kind, pid) ==
  /\ Idle(c) /\ kind # "offset_finders"
  /\ Create(c, kind, pid, {})
  /\ UNCHANGED <<freed, finding>> /\ Unmoved

\* The pointer is still used after the mutex is released.
get(c, kind, pid) ==
  /\ Idle(c) /\ Unlocked(kind)
  /\ Give(c, tool[<<kind, pid>>])
  /\ UNCHANGED <<tool, made, needs, freed, finding>> /\ Unmoved

destroy(c, kind, pid) ==
  /\ Idle(c) /\ Unlocked(kind)
  /\ freed' = freed \cup ({tool[<<kind, pid>>]} \ {None})
  /\ tool' = [tool EXCEPT ![<<kind, pid>>] = None]
  /\ UNCHANGED <<made, needs, finding, handle>> /\ Unmoved

\* create_offset_finder: offset_finders_mutex_ is held while the scanner and the
\* enumerator are looked up, each under its own mutex.
create_offset_finder(c, pid) ==
  /\ Idle(c) /\ finding = NoFinding
  /\ IF tool[<<"offset_finders", pid>>] # None
     THEN Give(c, tool[<<"offset_finders", pid>>]) /\ UNCHANGED finding
     ELSE /\ finding' = [NoFinding EXCEPT !.by = c, !.pid = pid, !.step = "scanner"]
          /\ UNCHANGED handle
  /\ UNCHANGED <<tool, made, needs, freed>> /\ Unmoved

GetScanner ==
  /\ finding.step = "scanner"
  /\ finding' = [finding EXCEPT !.scanner = tool[<<"pattern_scanners", finding.pid>>],
                                !.step = "enumerator"]
  /\ UNCHANGED <<tool, made, needs, freed, handle>> /\ Unmoved

GetEnumerator ==
  /\ finding.step = "enumerator"
  /\ finding' = [finding EXCEPT !.enumerator = tool[<<"module_enumerators", finding.pid>>],
                                !.step = "make"]
  /\ UNCHANGED <<tool, made, needs, freed, handle>> /\ Unmoved

\* Null when one of them is missing; by now the two pointers may be of freed tools.
MakeFinder ==
  LET need == {finding.scanner, finding.enumerator} IN
  /\ finding.step = "make"
  /\ IF None \in need
     THEN Give(finding.by, None) /\ UNCHANGED <<tool, made, needs>>
     ELSE Create(finding.by, "offset_finders", finding.pid, need)
  /\ finding' = NoFinding
  /\ UNCHANGED freed /\ Unmoved

ObjectNext ==
  \/ Build \/ Throw \/ Close \/ DestroyMember
  \/ \E member \in Optional : Call(member) \/ \E on \in BOOLEAN : enable(member, on)
  \/ Return \/ set_rate_limit \/ enable_health_monitoring
  \/ \E c \in Callers, pid \in ToolPids :
       \/ \E kind \in Kinds : create(c, kind, pid) \/ get(c, kind, pid) \/ destroy(c, kind, pid)
       \/ create_offset_finder(c, pid)
  \/ GetScanner \/ GetEnumerator \/ MakeFinder

ObjectSpec == ObjectInit /\ [][ObjectNext]_object_vars

-----------------------------------------------------------------------------
Tools == {tool[s] : s \in Slots} \ {None}

FreezersLeft == \E pid \in ToolPids : tool[<<"value_freezers", pid>>] # None

\* What a member points to is there as long as the member is, and destroyed after it, in
\* the constructor that throws half way too; of the logger, the first to be destroyed,
\* this holds until the destruction begins.  The tools that a finder points to are in
\* their registries, unless a destroy function freed them.
UsersFirst ==
  /\ \A m \in alive : Uses(m) \ (IF phase = "closing" THEN {"logger"} ELSE {}) \subseteq alive
  /\ \A t \in Tools : needs[t] \subseteq Tools \cup freed

\* The pointer a caller holds is of a tool in the registry, or of one that a destroy
\* function was asked to free: creating a tool again never frees the first.
FreedOnRequest ==
  phase = "open" => \A c \in Callers : handle[c] \in Tools \cup freed \cup {None}

\* Members and tools outlive who uses them, but for the logger and what callers free.
NothingDangles == UsersFirst /\ FreedOnRequest

\* What README.md promises ("Thread-safe - Race conditions eliminated, proper RAII") and
\* this code does not keep: the threads of freezers that are still running have the logger,
LoggerOutlives == phase = "closing" /\ FreezersLeft => "logger" \in alive

\* no setting destroys a member under a read that has entered it,
MembersOutlive == inside # "nowhere" => inside \in alive

\* and no pointer that a registry handed out, to a caller or to a finder, is of a freed tool.
PointersLive ==
  /\ phase = "open" => \A c \in Callers : handle[c] \in Tools \cup {None}
  /\ \A t \in Tools : needs[t] \subseteq Tools
=============================================================================
