------------------------------ MODULE Offsets ------------------------------
(***************************************************************************)
(* ModuleEnumerator (module_enum.cpp) with its cached list of modules, and *)
(* OffsetFinder (offset_finder.cpp), which turns a signature into an       *)
(* offset from the base of a module.  Both run in the caller's thread,     *)
(* while the target loads, moves and patches its modules.                  *)
(*                                                                         *)
(* There is one signature; a module of the target holds it at one place,   *)
(* its site, or not at all.  Modules have the same size.                   *)
(***************************************************************************)
EXTENDS Integers, FiniteSets

CONSTANTS
  Modules,      \* module names
  LoadBases,    \* where a module may be loaded
  ModuleSize,
  Sites,        \* offsets of the signature in a module
  OffsetNames,  \* numbers, which std::map visits in their order
  MaxMoves,     \* bound on the changes of the target
  MaxLookups    \* bound on the calls that change an offset

ASSUME OffsetsAssumption ==
  /\ LoadBases \subseteq Nat \ {0} /\ ModuleSize \in Nat /\ Sites \subseteq 0 .. ModuleSize - 1
  /\ OffsetNames \subseteq Nat /\ MaxMoves \in Nat /\ MaxLookups \in Nat

VARIABLES
  target,   \* base, 0 when not loaded, and site of each module
  list,     \* modules_: the base of each module in the list, 0 when it is not in it
  offsets,  \* offsets_
  file,     \* what export_to_file wrote last, in this run or an earlier one
  answer,   \* the last answer of get_absolute_address
  fresh,    \* history: the target's modules have not moved since the list was filled
  moves, lookups

offsets_vars == <<target, list, offsets, file, answer, fresh, moves, lookups>>

NoSite == -1
NoList == [m \in Modules |-> 0]
NoOffset == [module |-> "none"]
NoAnswer == [name |-> -1, address |-> 0, sure |-> FALSE]

\* The last address, which is only shown, is left out.  sound is history: found with a
\* list that was fresh, and the module not patched since.
Offset(m, rva, signed, sound) ==
  [module |-> m, rva |-> rva, signed |-> signed, valid |-> TRUE, sound |-> sound]

\* The file may be there from an earlier run, with every name in it.
OffsetsInit ==
  /\ target \in [Modules -> [base : {0}, site : {NoSite}]]
  /\ list = NoList
  /\ offsets = [n \in OffsetNames |-> NoOffset]
  /\ \/ file = offsets
     \/ \E m \in Modules, rva \in Sites : file = [n \in OffsetNames |-> Offset(m, rva, TRUE, FALSE)]
  /\ answer = NoAnswer
  /\ fresh = FALSE
  /\ moves = 0 /\ lookups = 0

Loaded == {m \in Modules : target[m].base # 0}
Registered == {n \in OffsetNames : offsets[n] # NoOffset}

-----------------------------------------------------------------------------
(* ModuleEnumerator *)

\* Mutant of refresh_modules: the list is not emptied first, so a module that is
\* listed is found at its old place.
refresh_appending(ok) ==
  IF ok THEN [m \in Modules |-> IF list[m] # 0 THEN list[m] ELSE target[m].base] ELSE NoList

\* The list is emptied before the library is asked, which may fail.
refresh_modules(ok) == IF ok THEN [m \in Modules |-> target[m].base] ELSE NoList

\* The list a lookup works with: it is filled when it is empty, and not otherwise.
Seen(ok) == IF list = NoList THEN refresh_modules(ok) ELSE list
See(ok) ==
  /\ list' = Seen(ok)
  /\ fresh' = (fresh \/ (list = NoList /\ ok))

enumerate_modules(force, ok) ==
  /\ list' = IF force THEN refresh_modules(ok) ELSE Seen(ok)
  /\ fresh' = (fresh \/ ((force \/ list = NoList) /\ ok))
  /\ UNCHANGED <<target, offsets, file, answer, moves, lookups>>

\* find_module, find_module_by_address, get_main_module, get_module_base and the like.
find_module(ok) == See(ok) /\ UNCHANGED <<target, offsets, file, answer, moves, lookups>>

clear_module_cache ==
  /\ list' = NoList /\ fresh' = FALSE
  /\ UNCHANGED <<target, offsets, file, answer, moves, lookups>>

contains_address(base, address) == base # 0 /\ base <= address /\ address < base + ModuleSize

-----------------------------------------------------------------------------
(* OffsetFinder *)

\* Where the target's memory holds the signature, from start on, before end.
Matches(start, end) ==
  {target[m].base + target[m].site : m \in {x \in Loaded : target[x].site # NoSite}}
    \cap start .. end - 1

\* find_signature_in_module: the first match from the start asked for, or from the base
\* that the list has when that is 0.
find_signature_in_module(seen, m, search_start, size) ==
  LET start == IF search_start = 0 THEN seen[m] ELSE search_start
      found == IF seen[m] = 0 THEN {} ELSE Matches(start, start + size) IN
  IF found = {} THEN 0 ELSE CHOOSE a \in found : \A b \in found : a <= b

Lookup == lookups < MaxLookups /\ lookups' = lookups + 1

\* The match must lie in the module for calculate_rva to succeed.
find_offset(n, m, start, size, ok) ==
  LET address == find_signature_in_module(Seen(ok), m, start, size) IN
  /\ Lookup /\ See(ok)
  /\ offsets' = IF contains_address(Seen(ok)[m], address)
                THEN [offsets EXCEPT ![n] = Offset(m, address - Seen(ok)[m], TRUE, fresh')]
                ELSE offsets
  /\ UNCHANGED <<target, file, answer, moves>>

\* Any offset may be registered for a module in the list, with a signature or without.
Register(seen, n, m, rva, signed) ==
  IF seen[m] = 0 THEN offsets[n] ELSE Offset(m, rva, signed, FALSE)

register_offset(n, m, rva, signed, ok) ==
  /\ Lookup /\ See(ok)
  /\ offsets' = [offsets EXCEPT ![n] = Register(Seen(ok), n, m, rva, signed)]
  /\ UNCHANGED <<target, file, answer, moves>>

\* The base comes from the list, as it is.
get_absolute_address(n, ok) ==
  LET base == Seen(ok)[offsets[n].module] IN
  /\ n \in Registered /\ See(ok)
  /\ answer' = IF base = 0 THEN NoAnswer
               ELSE [name |-> n, address |-> base + offsets[n].rva,
                     sure |-> fresh' /\ offsets[n].sound]
  /\ UNCHANGED <<target, offsets, file, moves, lookups>>

\* One offset scanned again; a match outside the module leaves it as it is.
Updated(seen, o, sound) ==
  LET address == find_signature_in_module(seen, o.module, 0, ModuleSize) IN
  IF address = 0 THEN [o EXCEPT !.valid = FALSE]
  ELSE IF contains_address(seen[o.module], address)
  THEN Offset(o.module, address - seen[o.module], TRUE, sound)
  ELSE o

\* Names are gone through in their order.  While the list is empty each of them asks for
\* it: those in blind did so in vain.
Blinded(blind, names) ==
  /\ blind \subseteq names /\ (list # NoList => blind = {})
  /\ \A n \in blind, k \in names : k < n => k \in blind

\* Every offset with a signature.
update_all_offsets(blind) ==
  LET signed == {n \in Registered : offsets[n].signed}
      ok == blind # signed IN
  /\ Lookup /\ signed # {} /\ Blinded(blind, signed) /\ See(ok)
  /\ offsets' = [n \in OffsetNames |->
       CASE n \in blind -> [offsets[n] EXCEPT !.valid = FALSE]
         [] n \in signed \ blind -> Updated(Seen(ok), offsets[n], fresh')
         [] OTHER -> offsets[n]]
  /\ UNCHANGED <<target, file, answer, moves>>

\* validate_all_offsets makes this call for each offset.
validate_offset(n, ok, readable) ==
  /\ n \in Registered /\ See(ok)
  /\ offsets' = [offsets EXCEPT ![n].valid = Seen(ok)[offsets[n].module] # 0 /\ readable]
  /\ UNCHANGED <<target, file, answer, moves, lookups>>

remove_offset(n) ==
  /\ offsets' = [offsets EXCEPT ![n] = NoOffset]
  /\ UNCHANGED <<target, list, file, answer, fresh, moves, lookups>>

clear_offsets_found ==
  /\ offsets' = [n \in OffsetNames |-> NoOffset]
  /\ UNCHANGED <<target, list, file, answer, fresh, moves, lookups>>

export_to_file ==
  /\ file' = offsets
  /\ UNCHANGED <<target, list, offsets, answer, fresh, moves, lookups>>

\* Each offset of the file, written in the order of the names, is registered again, as
\* valid whatever the file says of it; those that come before there is a list are dropped.
import_from_file(blind) ==
  LET entries == {n \in OffsetNames : file[n] # NoOffset}
      ok == blind # entries IN
  /\ Lookup /\ entries # {} /\ Blinded(blind, entries) /\ See(ok)
  /\ offsets' = [n \in OffsetNames |->
       IF n \in entries \ blind
       THEN Register(Seen(ok), n, file[n].module, file[n].rva, file[n].signed) ELSE offsets[n]]
  /\ UNCHANGED <<target, file, answer, moves>>

-----------------------------------------------------------------------------
\* The target loads, unloads, moves or patches a module; modules do not overlap.
TargetMoves(m, base, site) ==
  /\ moves < MaxMoves /\ moves' = moves + 1
  /\ target[m] # [base |-> base, site |-> site]
  /\ \A k \in Loaded \ {m} :
       base = 0 \/ base >= target[k].base + ModuleSize \/ base + ModuleSize <= target[k].base
  /\ target' = [target EXCEPT ![m] = [base |-> base, site |-> site]]
  /\ fresh' = (fresh /\ base = target[m].base)
  /\ offsets' = [n \in OffsetNames |->
       IF n \in Registered /\ offsets[n].module = m
       THEN [offsets[n] EXCEPT !.sound = @ /\ site = target[m].site] ELSE offsets[n]]
  /\ answer' = NoAnswer
  /\ UNCHANGED <<list, file, lookups>>

OffsetsNext ==
  \/ \E ok \in BOOLEAN :
       \/ \E force \in BOOLEAN : enumerate_modules(force, ok)
       \/ find_module(ok)
       \/ \E n \in OffsetNames :
            \/ \E m \in Modules, start \in {0} \cup LoadBases, size \in {ModuleSize, 2 * ModuleSize} :
                 find_offset(n, m, start, size, ok)
            \/ \E m \in Modules, rva \in Sites, s \in BOOLEAN : register_offset(n, m, rva, s, ok)
            \/ get_absolute_address(n, ok)
            \/ \E readable \in BOOLEAN : validate_offset(n, ok, readable)
  \/ \E n \in OffsetNames : remove_offset(n)
  \/ \E blind \in SUBSET OffsetNames : update_all_offsets(blind) \/ import_from_file(blind)
  \/ clear_module_cache \/ clear_offsets_found \/ export_to_file
  \/ \E m \in Modules, base \in LoadBases \cup {0}, site \in Sites \cup {NoSite} :
       TargetMoves(m, base, site)

OffsetsSpec == OffsetsInit /\ [][OffsetsNext]_offsets_vars

-----------------------------------------------------------------------------
\* An offset found with a list that was fresh stays the place of the signature wherever
\* the module is loaded, until the module is patched, and while the list is fresh the
\* address answered for it is the address of the signature in the target.
PortableOffsets ==
  /\ \A n \in Registered :
       offsets[n].sound => offsets[n].rva = target[offsets[n].module].site
  /\ answer.sure => answer.address \in Matches(answer.address, answer.address + 1)

\* update_all_offsets is for "when game updates or module base changes": what it leaves
\* valid is right.  The list it works with is the one from before.
UpdateFindsAll ==
  [][(\E blind \in SUBSET OffsetNames : update_all_offsets(blind)) =>
       \A n \in Registered : offsets'[n].signed /\ offsets'[n].valid =>
         offsets'[n].rva = target[offsets'[n].module].site]_offsets_vars
=============================================================================
