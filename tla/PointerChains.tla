--------------------------- MODULE PointerChains ---------------------------
(***************************************************************************)
(* PointerChain and PointerChainManager (pointer_chain.cpp): a chain that  *)
(* threads resolve and validate while others edit it, its cache, and the   *)
(* named chains of the manager with their file.                            *)
(*                                                                         *)
(* The target's memory holds a pointer or nothing readable at each         *)
(* address, and changes.  A chain's base and offsets are read and written  *)
(* without a lock; the cached address has a mutex.                         *)
(***************************************************************************)
EXTENDS Integers, Sequences, FiniteSets, TLC

CONSTANTS
  Resolvers,     \* threads
  Space,         \* 2^64
  Bases, Steps,  \* base addresses and offsets that callers use
  MaxDepth,      \* bound on the offsets of a chain
  Names,         \* names of chains
  SavedName,     \* what the file gives back for a name: it ends at a quotation mark
  MaxChainOps    \* bound on the operations

NoOne == "no one"

ASSUME ChainAssumption ==
  /\ IsFiniteSet(Resolvers) /\ NoOne \notin Resolvers
  /\ Space \in Nat \ {0} /\ MaxDepth \in Nat /\ MaxChainOps \in Nat
  /\ SavedName \in [Names -> Names]

VARIABLES
  pointers,   \* the target: an address, or Unreadable, at each address
  chain,      \* base_address_ and offsets_ of the shared chain
  cached,     \* cache_enabled_, cached_address_ (or NoAddress), whether its time lasts,
              \* and as a history the epoch it was resolved in
  epoch,      \* history: number of the edits of the chain
  raced,      \* history: epochs whose resolutions were under way at an edit
  unfinished,    \* edits that have changed the chain and not yet emptied the cache
  walk,       \* for each thread what it does, with what chain, before which step, at which
              \* address and level, and since which epoch
  chains_,    \* the manager's names with their chains
  manager_mutex_,   \* mutex_ of the manager: the thread that holds it, or NoOne
  doubled,    \* history: how often a second unlock released the mutex of another thread
  file,       \* the chains in the file
  chain_ops   \* operations begun

edit_vars == <<chain, cached, epoch, raced, unfinished>>
manager_vars == <<chains_, manager_mutex_, doubled, file>>
chain_vars == <<pointers, edit_vars, walk, manager_vars, chain_ops>>

Unreadable == -1
NoAddress == -2
Chain(base, offsets) == [base |-> base, offsets |-> offsets]
NoChain == Chain(0, <<>>)
Walk(does, on, at, current, level, since) ==
  [does |-> does, on |-> on, at |-> at, current |-> current, level |-> level, since |-> since]
Resting == Walk("rest", NoChain, "rest", 0, 0, 0)

ChainInit ==
  /\ pointers = [a \in 0 .. Space - 1 |-> (a + 1) % Space]
  /\ chain = Chain(1, <<>>)
  /\ cached = [enabled |-> FALSE, address |-> NoAddress, live |-> FALSE, epoch |-> 0]
  /\ epoch = 0
  /\ raced = {}
  /\ unfinished = 0
  /\ walk = [t \in Resolvers |-> Resting]
  /\ chains_ = <<>>
  /\ manager_mutex_ = NoOne
  /\ doubled = 0
  /\ file = <<>>
  /\ chain_ops = 0

Rests(t) == walk' = [walk EXCEPT ![t] = Resting]

Starts(t, begun) ==
  /\ walk[t] = Resting /\ chain_ops < MaxChainOps
  /\ chain_ops' = chain_ops + 1
  /\ walk' = [walk EXCEPT ![t] = begun]

\* The walk w goes on before another step, at another address and level.
Going(w, at, current, level) == Walk(w.does, w.on, at, current, level, w.since)

\* A walk is over; that of a named chain leaves the manager's operation too.
Ended(w) == IF w.does = "resolve copy" THEN Going(w, "leave", 0, 0) ELSE Resting

-----------------------------------------------------------------------------
(* Resolving and validating *)

\* The cache answers while its time lasts.
is_cache_valid == cached.enabled /\ cached.address # NoAddress /\ cached.live

resolve(t) ==
  /\ ~is_cache_valid
  /\ Starts(t, Walk("resolve", NoChain, "base", 0, 0, 0))
  /\ UNCHANGED <<pointers, edit_vars, manager_vars>>

\* A walk of the shared chain goes on from w, with nothing else changed.
StepsOn(t, w) ==
  walk' = [walk EXCEPT ![t] = w] /\ UNCHANGED <<pointers, edit_vars, manager_vars, chain_ops>>

ReadBase(t) ==
  /\ walk[t].at = "base"
  /\ StepsOn(t, Walk("resolve", NoChain, "test", chain.base, 0, epoch))

\* A chain with base 0 is not valid; the cache is not asked.
validate(t) ==
  /\ chain.base # 0
  /\ Starts(t, Walk("validate", NoChain, "test", chain.base, 0, epoch))
  /\ UNCHANGED <<pointers, edit_vars, manager_vars>>

\* The chain a walk reads at this step: the shared one as it is now, or a manager's copy.
Walked(t) == IF walk[t].does = "resolve copy" THEN walk[t].on ELSE chain

\* offsets_[i] as it is now; past the end of the offsets it is whatever lies there.
OffsetsAt(t) ==
  LET offsets == Walked(t).offsets  i == walk[t].level + 1 IN
  IF i \in DOMAIN offsets THEN {offsets[i]} ELSE Steps

\* There is another level: the pointer is read, and the walk ends when that fails.
FollowLevel(t) ==
  LET w == walk[t] IN
  /\ w.at = "test" /\ w.level < Len(Walked(t).offsets)
  /\ StepsOn(t, IF pointers[w.current] = Unreadable THEN Ended(w)
                 ELSE Going(w, "add", pointers[w.current], w.level))

\* The offset is added, in 64 bits.
AddOffset(t) ==
  LET w == walk[t] IN
  /\ w.at = "add"
  /\ \E offset \in OffsetsAt(t) :
       StepsOn(t, Going(w, "check", (w.current + offset) % Space, w.level))

\* The walk ends when the address is null or, by the offset as it is now, was null before.
CheckLevel(t) ==
  LET w == walk[t] IN
  /\ w.at = "check"
  /\ \E offset \in OffsetsAt(t) :
       StepsOn(t, IF w.current \in {0, offset} THEN Ended(w)
                  ELSE Going(w, "test", w.current, w.level + 1))

\* The last level is done: a resolution of the shared chain goes on to store the address.
FinishWalk(t) ==
  LET w == walk[t] IN
  /\ w.at = "test" /\ w.level >= Len(Walked(t).offsets)
  /\ StepsOn(t, IF w.does = "resolve" /\ cached.enabled THEN Going(w, "store", w.current, 0)
                 ELSE Ended(w))

\* update_cache does not ask again whether caching is enabled.
update_cache(t) ==
  LET w == walk[t] IN
  /\ w.at = "store"
  /\ cached' = [enabled |-> cached.enabled, address |-> w.current, live |-> TRUE,
                epoch |-> w.since]
  /\ Rests(t)
  /\ UNCHANGED <<pointers, chain, epoch, raced, unfinished, manager_vars, chain_ops>>

-----------------------------------------------------------------------------
(* Editing the chain, by any thread: the chain is written first, then the cache emptied *)

Overtaken == {t \in Resolvers : walk[t].does = "resolve" /\ walk[t].at # "base"}

Edit(new_chain) ==
  /\ chain_ops < MaxChainOps
  /\ chain_ops' = chain_ops + 1
  /\ chain' = new_chain
  /\ epoch' = epoch + 1
  /\ raced' = raced \cup {walk[t].since : t \in Overtaken}
  /\ UNCHANGED <<pointers, cached, walk, manager_vars>>

Invalid == [cached EXCEPT !.address = NoAddress]

EditAndInvalidate(new_chain) == Edit(new_chain) /\ unfinished' = unfinished + 1

add_offset(offset) ==
  /\ Len(chain.offsets) < MaxDepth
  /\ EditAndInvalidate([chain EXCEPT !.offsets = Append(@, offset)])

set_base_address(base) ==
  base # chain.base /\ EditAndInvalidate([chain EXCEPT !.base = base])

clear_offsets == chain.offsets # <<>> /\ EditAndInvalidate([chain EXCEPT !.offsets = <<>>])

\* Mutant of InvalidateAfter: the cache is left as it is while caching is not enabled.
InvalidateEnabled ==
  /\ unfinished > 0
  /\ unfinished' = unfinished - 1
  /\ cached' = IF cached.enabled THEN Invalid ELSE cached
  /\ UNCHANGED <<pointers, chain, epoch, raced, walk, manager_vars, chain_ops>>

\* The end of an edit.
InvalidateAfter ==
  /\ unfinished > 0
  /\ unfinished' = unfinished - 1
  /\ cached' = Invalid
  /\ UNCHANGED <<pointers, chain, epoch, raced, walk, manager_vars, chain_ops>>

\* The header's own bodies of two edits: they do not look at the cache.
InlineEdit ==
  /\ \/ \E base \in Bases : base # chain.base /\ Edit([chain EXCEPT !.base = base])
     \/ chain.offsets # <<>> /\ Edit([chain EXCEPT !.offsets = <<>>])
  /\ UNCHANGED unfinished

\* A new time to live also renews the answer in the cache, or ends it.
enable_chain_cache(enable, live) ==
  /\ cached' = [cached EXCEPT !.enabled = enable, !.live = live,
                              !.address = IF enable THEN @ ELSE NoAddress]
  /\ UNCHANGED <<pointers, chain, epoch, raced, unfinished, walk, manager_vars, chain_ops>>

invalidate_chain ==
  /\ cached' = Invalid
  /\ UNCHANGED <<pointers, chain, epoch, raced, unfinished, walk, manager_vars, chain_ops>>

TimeElapses ==
  /\ cached' = [cached EXCEPT !.live = FALSE]
  /\ UNCHANGED <<pointers, chain, epoch, raced, unfinished, walk, manager_vars, chain_ops>>

TargetMoves(a, p) ==
  /\ chain_ops < MaxChainOps
  /\ chain_ops' = chain_ops + 1
  /\ pointers' = [pointers EXCEPT ![a] = p]
  /\ UNCHANGED <<edit_vars, walk, manager_vars>>

-----------------------------------------------------------------------------
(* PointerChainManager: an operation is entered under the mutex and leaves it at its end *)

Enter(t, does) ==
  /\ manager_mutex_ = NoOne
  /\ Starts(t, Walk(does, chain, "in", 0, 0, 0))
  /\ manager_mutex_' = t
  /\ UNCHANGED <<pointers, edit_vars, chains_, doubled, file>>

Leave(t, new_chains, new_file) ==
  /\ chains_' = new_chains
  /\ file' = new_file
  /\ manager_mutex_' = NoOne
  /\ Rests(t)
  /\ UNCHANGED <<pointers, edit_vars, doubled, chain_ops>>

Without(name) == [n \in DOMAIN chains_ \ {name} |-> chains_[n]]

add_chain(t, name) == walk[t].does = "add" /\ Leave(t, (name :> walk[t].on) @@ chains_, file)
remove_chain(t, name) == walk[t].does = "remove" /\ Leave(t, Without(name), file)
clear_chains(t) == walk[t].does = "clear" /\ Leave(t, <<>>, file)

\* The names are written in the order of the map; a chain's cache settings are not.
save_to_file(t) == walk[t].does = "save" /\ Leave(t, chains_, chains_)

\* Every chain of the file is added under the name that is read back; where two are the
\* same the later one stays.  load_from_file locks for each of them; one at a time here.
load_from_file(t, name) ==
  /\ walk[t].does = "load"
  /\ name \in DOMAIN file
  /\ Leave(t, (SavedName[name] :> file[name]) @@ chains_, file)

LoadNothing(t) == walk[t].does = "load" /\ file = <<>> /\ Leave(t, chains_, file)

\* resolve copies the chain and unlocks by hand, under a guard that unlocks once more.
resolve_named(t, name) ==
  /\ walk[t].does = "name"
  /\ IF name \in DOMAIN chains_
     THEN /\ walk' = [walk EXCEPT ![t] = Walk("resolve copy", chains_[name], "test",
                                              chains_[name].base, 0, 0)]
          /\ manager_mutex_' = NoOne
          /\ UNCHANGED <<pointers, edit_vars, chains_, doubled, file, chain_ops>>
     ELSE Leave(t, chains_, file)

\* Unlocking a mutex that another thread holds is undefined: it may have no effect.
SecondUnlock(t) ==
  /\ walk[t].at = "leave"
  /\ \/ UNCHANGED <<manager_mutex_, doubled>>
     \/ /\ manager_mutex_' = NoOne
        /\ doubled' = IF manager_mutex_ = NoOne THEN doubled ELSE doubled + 1
  /\ Rests(t)
  /\ UNCHANGED <<pointers, edit_vars, chains_, file, chain_ops>>

\* resolve_all and validate_all copy the chains under the mutex and walk the copies, which
\* changes nothing that is shared.
Operations == {"add", "remove", "clear", "save", "load", "name"}

ChainNext ==
  \/ \E t \in Resolvers :
       \/ resolve(t) \/ ReadBase(t) \/ validate(t) \/ FollowLevel(t) \/ AddOffset(t)
       \/ CheckLevel(t) \/ FinishWalk(t) \/ update_cache(t) \/ SecondUnlock(t)
       \/ \E does \in Operations : Enter(t, does)
       \/ \E name \in Names : add_chain(t, name) \/ remove_chain(t, name)
                              \/ resolve_named(t, name) \/ load_from_file(t, name)
       \/ clear_chains(t) \/ save_to_file(t) \/ LoadNothing(t)
  \/ \E offset \in Steps : add_offset(offset)
  \/ \E base \in Bases : set_base_address(base)
  \/ clear_offsets \/ InvalidateAfter \/ invalidate_chain \/ TimeElapses
  \/ \E enable, live \in BOOLEAN : enable_chain_cache(enable, live)
  \/ \E a \in 0 .. Space - 1, p \in {0, Unreadable} : TargetMoves(a, p)

ChainSpec == ChainInit /\ [][ChainNext]_chain_vars

\* With the edits that the header defines, which are another text of the same functions.
InlineSpec == ChainInit /\ [][ChainNext \/ InlineEdit]_chain_vars

-----------------------------------------------------------------------------
\* The address in the cache was resolved along the chain as it is now, unless an edit has not
\* emptied the cache yet, or a resolution was under way when the chain was edited: then it may
\* store the address of the old chain after the edit has emptied the cache.
CacheOfThisChain ==
  cached.address # NoAddress /\ cached.epoch # epoch => unfinished > 0 \/ cached.epoch \in raced

\* As the header says of invalidate_cache, which ends every edit: the next call resolves anew.
EditForcesResolve == cached.address # NoAddress /\ unfinished = 0 => cached.epoch = epoch

\* A walk that is about to read offsets_[i] finds it there.
OffsetsInRange ==
  \A t \in Resolvers : walk[t].at = "add" => walk[t].level < Len(Walked(t).offsets)

\* As many threads are inside the manager's critical sections as the second unlocks have
\* let in besides the one that holds the mutex.
InsideManager == {t \in Resolvers : walk[t].does \in Operations}
ExclusiveBarDoubles == Cardinality(InsideManager) <= 1 + doubled

\* One thread at a time is inside the manager's critical sections.
OneInside == Cardinality(InsideManager) <= 1

\* Both: what the chain's cache holds, and who is inside the manager.
ChainsSound == CacheOfThisChain /\ ExclusiveBarDoubles
=============================================================================
