----------------------------- MODULE RuleReload -----------------------------
(***************************************************************************)
(* src/src/pipeline/rule_loader.zig: rules.reload builds a new automaton   *)
(* on the control thread and swaps the pointer the pipeline thread copies  *)
(* under g_ac_mutex and uses after releasing it                            *)
(* (src/src/pipeline/event_processor.zig).                                 *)
(*                                                                         *)
(* An automaton is a number: 0 is the one runDaemon owns, r the one the    *)
(* r-th reload allocates.  Of its contents only the number of its rules is *)
(* kept.                                                                   *)
(***************************************************************************)
EXTENDS Integers

CONSTANTS
  MaxRules,    \* bound: rules in a file
  MaxReloads   \* bound: reloads in a behaviour

ASSUME ReloadAssumption == {MaxRules, MaxReloads} \subseteq Nat

Automata == 0 .. MaxReloads
None == -1

VARIABLES
  pc,        \* the control thread
  reloads,   \* reloads begun; the last one's automaton
  newCount,  \* reloadRules' new_count
  frees,     \* how often an automaton has been freed
  unbuilt,   \* history: the automata build failed for
  rules,     \* the rules it holds
  active,    \* g_active_ac
  retired,   \* automata that were replaced
  loaded,    \* g_rules_loaded
  held       \* the pointer the pipeline thread works with

control == <<pc, reloads, newCount>>
heap == <<frees, unbuilt>>
globals == <<active, retired, loaded>>
reloadVars == <<control, heap, rules, globals, held>>

\* Start-up leaves no automaton when the rules file cannot be read, and the one
\* it has, with its count, when build fails for it: unlinked, but not freed.
ReloadInit ==
  /\ pc = "idle"
  /\ reloads = 0
  /\ newCount = 0
  /\ frees = [a \in Automata |-> 0]
  /\ \E n \in 0 .. MaxRules : \E a \in {0, None} :
       /\ a = None => n = 0
       /\ unbuilt \in {{}, {a} \cap Automata}
       /\ loaded = n
       /\ active = a
       /\ rules = [b \in Automata |-> IF b = 0 THEN n ELSE 0]
  /\ retired = {}
  /\ held = None

Free(a) == frees' = [frees EXCEPT ![a] = @ + 1]

-----------------------------------------------------------------------------
(* The control thread: reloadRules, then the handler's own store. *)

\* Without memory for an automaton reloadRules changes nothing.
Create ==
  /\ pc = "idle"
  /\ reloads < MaxReloads
  /\ pc' = "parse"
  /\ reloads' = reloads + 1
  /\ newCount' = 0
  /\ UNCHANGED <<heap, rules, globals, held>>

\* The file cannot be opened, read or parsed: the automaton is freed here.
OpenFails ==
  /\ pc = "parse"
  /\ Free(reloads)
  /\ pc' = "publish"
  /\ UNCHANGED <<reloads, newCount, unbuilt, rules, globals, held>>

AddPatterns ==
  /\ pc = "parse"
  /\ \E n \in 0 .. MaxRules :
       /\ newCount' = n
       /\ rules' = [rules EXCEPT ![reloads] = n]
  /\ pc' = "build"
  /\ UNCHANGED <<reloads, heap, globals, held>>

\* build runs out of memory: the automaton is freed, new_count stays.
BuildFails ==
  /\ pc = "build"
  /\ Free(reloads)
  /\ unbuilt' = unbuilt \cup {reloads}
  /\ pc' = "publish"
  /\ UNCHANGED <<reloads, newCount, rules, globals, held>>

Build ==
  /\ pc = "build"
  /\ pc' = "publish"
  /\ UNCHANGED <<reloads, newCount, heap, rules, globals, held>>

\* Mutant: the replaced automaton is destroyed at the swap.
SwapAndDestroy ==
  /\ pc = "publish"
  /\ newCount > 0
  /\ active' = reloads
  /\ retired' = retired \cup ({active} \ {None})
  /\ loaded' = newCount
  /\ frees' = [a \in Automata |-> IF a = active THEN frees[a] + 1 ELSE frees[a]]
  /\ pc' = "store"
  /\ UNCHANGED <<reloads, newCount, unbuilt, rules, held>>

\* The pointer and the count change in one critical section of g_ac_mutex.
Swap ==
  /\ pc = "publish"
  /\ newCount > 0
  /\ active' = reloads
  /\ retired' = retired \cup ({active} \ {None})
  /\ loaded' = newCount
  /\ pc' = "store"
  /\ UNCHANGED <<reloads, newCount, heap, rules, held>>

\* Mutant: the automaton without rules is left to itself.
KeepOldRulesAndLeak ==
  /\ pc = "publish"
  /\ newCount = 0
  /\ pc' = "store"
  /\ UNCHANGED <<reloads, newCount, heap, rules, globals, held>>

\* "0 rules loaded, keeping old ruleset"
KeepOldRules ==
  /\ pc = "publish"
  /\ newCount = 0
  /\ Free(reloads)
  /\ pc' = "store"
  /\ UNCHANGED <<reloads, newCount, unbuilt, rules, globals, held>>

\* Mutant: the handler stores the rules the file has had in all.
StoreCountAccumulated ==
  /\ pc = "store"
  /\ loaded' = loaded + newCount
  /\ pc' = "idle"
  /\ UNCHANGED <<reloads, newCount, heap, rules, active, retired, held>>

StoreCount ==
  /\ pc = "store"
  /\ loaded' = newCount
  /\ pc' = "idle"
  /\ UNCHANGED <<reloads, newCount, heap, rules, active, retired, held>>

Control ==
  \/ Create \/ OpenFails \/ AddPatterns \/ BuildFails \/ Build
  \/ Swap \/ KeepOldRules \/ StoreCount

-----------------------------------------------------------------------------
(* The pipeline thread, for an event that carries a payload. *)

TakeActive ==
  /\ held = None
  /\ active # None
  /\ held' = active
  /\ UNCHANGED <<control, heap, rules, globals>>

Match ==
  /\ held # None
  /\ held' = None
  /\ UNCHANGED <<control, heap, rules, globals>>

Pipeline == TakeActive \/ Match

ReloadNext == Control \/ Pipeline

ReloadSpec == ReloadInit /\ [][ReloadNext]_reloadVars

-----------------------------------------------------------------------------

ReloadTypeOK ==
  /\ pc \in {"idle", "parse", "build", "publish", "store"}
  /\ reloads \in 0 .. MaxReloads
  /\ newCount \in 0 .. MaxRules
  /\ frees \in [Automata -> Nat]
  /\ unbuilt \subseteq Automata
  /\ rules \in [Automata -> 0 .. MaxRules]
  /\ {active, held} \subseteq Automata \cup {None}
  /\ retired \subseteq Automata
  /\ loaded \in 0 .. MaxRules

(* The pipeline thread never works with a freed automaton, however many
   reloads pass between its copy of the pointer and the end of match, unless
   it is one whose build failed. *)
ReaderSafe == held # None /\ frees[held] > 0 => held \in unbuilt

(* When a reload is over its automaton is in force, or was and is retired, or
   has been freed: none leaks, whichever step failed. *)
NoneLeaks ==
  pc \in {"idle", "store"} =>
    \A a \in 1 .. reloads : a = active \/ a \in retired \/ frees[a] > 0

(* The count the control plane reports, when it is not zero, is that of the
   rules in force. *)
LoadedIsInForce ==
  pc = "idle" /\ loaded > 0 => active # None /\ rules[active] = loaded

(* "this fail-safe policy prevents use-after-free": neither match nor a second
   deinit ever works on a freed automaton. *)
NoUseAfterFree ==
  /\ \A a \in Automata : frees[a] <= 1
  /\ held # None => frees[held] = 0
=============================================================================
