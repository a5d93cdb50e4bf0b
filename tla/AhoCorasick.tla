----------------------------- MODULE AhoCorasick -----------------------------
(***************************************************************************)
(* src/src/detection/signature_engine.zig: the multi-pattern matcher of    *)
(* the pipeline.  Patterns are added one by one to a trie, build computes  *)
(* the failure links breadth first, match reads a text byte by byte.       *)
(*                                                                         *)
(* A state of the automaton is named by the bytes on the path from the     *)
(* root to it, so goto is Append and depth is Len.  Rules are numbered by  *)
(* their position in the rules file.                                       *)
(***************************************************************************)
EXTENDS Integers, Sequences, SequencesExt

CONSTANTS
  Alphabet,   \* bytes
  MaxStates,  \* capacity of the states array
  RuleSets,   \* the sequences of patterns a rules file may hold
  MaxText     \* bound: length of a text

ASSUME AhoAssumption ==
  /\ RuleSets \subseteq Seq(Seq(Alphabet))
  /\ {MaxStates, MaxText} \subseteq Nat \ {0}

Root == <<>>

VARIABLES
  patterns,     \* the rules file: the pattern of each rule
  next,         \* the rule addPattern comes to next
  at,           \* how many of its bytes addPattern has walked
  states,       \* the states the trie has
  outputLists,  \* output_lists: rule ids, in the order of their addition
  output,       \* State.output: where a state's rules begin in output_lists
  outputCount,  \* State.output_count
  failure,      \* State.failure
  phase,        \* "add", "build", "link", "match" or "advance"
  queue,        \* build's queue behind u
  u, todo,      \* the state build is at, and its bytes that are still to come
  byte,         \* the byte that build or match has come to
  cur,          \* the state build's f or match's cur is
  text,         \* what match has read
  results       \* what match has reported: [rule, end], end being offset + length

trie == <<states, outputLists, output, outputCount>>
bfs  == <<queue, u, todo>>
scan == <<text, results>>
ahoVars == <<patterns, next, at, trie, failure, phase, bfs, byte, cur, scan>>

AhoInit ==
  /\ patterns \in RuleSets
  /\ next = 1 /\ at = 0
  /\ states = {Root}
  /\ outputLists = <<>>
  /\ output = [s \in states |-> 0] /\ outputCount = output
  /\ failure = [s \in states |-> Root]
  /\ phase = "add"
  /\ queue = <<>> /\ u = Root /\ todo = {}
  /\ byte = "none" /\ cur = Root
  /\ text = <<>> /\ results = {}

Goto(s, b) == IF Append(s, b) \in states THEN Append(s, b) ELSE Root

-----------------------------------------------------------------------------
(* addPattern *)

Adding == phase = "add" /\ next <= Len(patterns)
Walked == SubSeq(patterns[next], 1, at)
NextRule == next' = next + 1 /\ at' = 0

\* An array of states, with the value that a new state has.
Extended(f, new) == [s \in states' |-> IF s \in states THEN f[s] ELSE new]

Full == Cardinality(states) >= MaxStates

\* One byte of the pattern: follow its transition, or make a state for it.
AddByte ==
  LET s == SubSeq(patterns[next], 1, at + 1) IN
  /\ Adding
  /\ at < Len(patterns[next])
  /\ s \in states \/ ~Full
  /\ at' = at + 1
  /\ states' = states \cup {s}
  /\ output' = Extended(output, 0)
  /\ outputCount' = Extended(outputCount, 0)
  /\ failure' = Extended(failure, Root)
  /\ UNCHANGED <<patterns, next, outputLists, phase, bfs, byte, cur, scan>>

\* A pattern that does not fit leaves its first states behind and is skipped.
TooManyStates ==
  /\ Adding
  /\ at < Len(patterns[next])
  /\ SubSeq(patterns[next], 1, at + 1) \notin states /\ Full
  /\ NextRule
  /\ UNCHANGED <<patterns, trie, failure, phase, bfs, byte, cur, scan>>

EmptyPattern ==
  /\ Adding
  /\ patterns[next] = <<>>
  /\ NextRule
  /\ UNCHANGED <<patterns, trie, failure, phase, bfs, byte, cur, scan>>

\* The end of the pattern: its rule is one of the state's.
AddRule ==
  /\ Adding
  /\ at # 0 /\ at = Len(patterns[next])
  /\ NextRule
  /\ outputLists' = Append(outputLists, next)
  /\ output' = IF outputCount[Walked] = 0
                THEN [output EXCEPT ![Walked] = Len(outputLists)] ELSE output
  /\ outputCount' = [outputCount EXCEPT ![Walked] = @ + 1]
  /\ UNCHANGED <<patterns, states, failure, phase, bfs, byte, cur, scan>>

-----------------------------------------------------------------------------
(* build.  Its first loop, over the children of the root, does what the      *)
(* second would do for the root, whose failure is the root.                  *)

Sons(s) == {b \in Alphabet : Append(s, b) \in states}

StartBuild ==
  /\ phase = "add" /\ next > Len(patterns)
  /\ phase' = "build"
  /\ u' = Root /\ todo' = Sons(Root)
  /\ UNCHANGED <<patterns, next, at, trie, failure, queue, byte, cur, scan>>

\* A child of u, in some order (the code's is by byte).
TakeSon(b) ==
  /\ phase = "build"
  /\ b \in todo
  /\ phase' = "link"
  /\ todo' = todo \ {b}
  /\ queue' = Append(queue, Append(u, b))
  /\ byte' = b /\ cur' = failure[u]
  /\ UNCHANGED <<patterns, next, at, trie, failure, u, scan>>

\* The loops of build and of match along the failure links.
Unknown == cur # Root /\ Goto(cur, byte) = Root

Follow ==
  /\ phase \in {"link", "advance"}
  /\ Unknown
  /\ cur' = failure[cur]
  /\ UNCHANGED <<patterns, next, at, trie, failure, phase, bfs, byte, scan>>

SetLink ==
  LET v == Append(u, byte)
      f == Goto(cur, byte)
  IN
  /\ phase = "link"
  /\ ~Unknown
  /\ phase' = "build"
  /\ failure' = [failure EXCEPT ![v] = IF f = v THEN Root ELSE f]
  /\ UNCHANGED <<patterns, next, at, trie, bfs, byte, cur, scan>>

\* Mutant: the queue is a stack.
TakeNewest ==
  /\ phase = "build"
  /\ todo = {} /\ queue # <<>>
  /\ u' = Last(queue) /\ queue' = Front(queue) /\ todo' = Sons(u')
  /\ UNCHANGED <<patterns, next, at, trie, failure, phase, byte, cur, scan>>

TakeState ==
  /\ phase = "build"
  /\ todo = {} /\ queue # <<>>
  /\ u' = Head(queue) /\ queue' = Tail(queue) /\ todo' = Sons(u')
  /\ UNCHANGED <<patterns, next, at, trie, failure, phase, byte, cur, scan>>

\* The locals of build go, and match begins at the root.
EndBuild ==
  /\ phase = "build"
  /\ todo = {} /\ queue = <<>>
  /\ phase' = "match"
  /\ u' = Root /\ byte' = "none" /\ cur' = Root
  /\ UNCHANGED <<patterns, next, at, trie, failure, queue, todo, scan>>

-----------------------------------------------------------------------------
(* match *)

ReadByte(b) ==
  /\ phase = "match"
  /\ Len(text) < MaxText
  /\ phase' = "advance"
  /\ byte' = b
  /\ UNCHANGED <<patterns, next, at, trie, failure, bfs, cur, scan>>

\* Mutant: the loop over a state's rules starts at its second one.
EmittedAfterFirst(s) == {outputLists[output[s] + k + 1] : k \in 1 .. (outputCount[s] - 1)}

\* The rules a state reports: output_count entries from output on.
Emitted(s) == {outputLists[output[s] + k + 1] : k \in 0 .. (outputCount[s] - 1)}

Report ==
  /\ text' = Append(text, byte)
  /\ results' = results \cup {[rule |-> r, end |-> Len(text')] : r \in Emitted(cur')}

\* Mutant: after following a failure link the byte is not tried again.
AdvanceForgetful ==
  /\ phase = "advance"
  /\ phase' = "match"
  /\ cur' = IF Unknown THEN failure[cur] ELSE Goto(cur, byte)
  /\ Report
  /\ UNCHANGED <<patterns, next, at, trie, failure, bfs, byte>>

\* From the root an unknown byte stays there.
Advance ==
  /\ phase = "advance"
  /\ ~Unknown
  /\ phase' = "match"
  /\ cur' = Goto(cur, byte)
  /\ Report
  /\ UNCHANGED <<patterns, next, at, trie, failure, bfs, byte>>

AhoNext ==
  \/ AddByte \/ TooManyStates \/ EmptyPattern \/ AddRule
  \/ StartBuild \/ TakeState \/ Follow \/ SetLink \/ EndBuild
  \/ \E b \in Alphabet : TakeSon(b) \/ ReadByte(b)
  \/ Advance

AhoSpec == AhoInit /\ [][AhoNext]_ahoVars

-----------------------------------------------------------------------------

Longest(S) == CHOOSE s \in S : \A t \in S : Len(t) <= Len(s)

\* The rules whose pattern ends at position i of the text.
Occurring(i) ==
  {r \in 1 .. Len(patterns) :
     /\ patterns[r] \in states \ {Root}
     /\ IsSuffix(patterns[r], SubSeq(text, 1, i))}

(* Every state is a prefix of some pattern, links lead to states, and a state's
   rules lie inside the output list. *)
AhoTypeOK ==
  /\ states \subseteq (UNION {Prefixes(patterns[r]) : r \in 1 .. Len(patterns)}) \cup {Root}
  /\ Cardinality(states) <= MaxStates
  /\ failure \in [states -> states]
  /\ cur \in states
  /\ \A s \in states : output[s] + outputCount[s] <= Len(outputLists)

(* Once built, each failure link leads to the longest proper suffix of its
   state that the trie knows: what build's breadth-first order is for. *)
FailureIsLongestSuffix ==
  phase \in {"match", "advance"} =>
    \A s \in states \ {Root} :
      failure[s] = Longest({t \in states : IsStrictSuffix(t, s)})

(* match never loses its place: after each byte it is in the state for the
   longest suffix of the text that is a prefix of a pattern. *)
CurrentIsLongestSuffix ==
  phase = "match" => cur = Longest({t \in states : IsSuffix(t, text)})

(* The automaton is well formed, while it is built and while it matches. *)
LinksAreLongest == AhoTypeOK /\ FailureIsLongestSuffix /\ CurrentIsLongestSuffix

(* Nothing keeps a rules file from having one pattern twice.  The reports of
   such a file are wrong when another rule comes between the two: a state has
   one stretch of output_lists. *)
OneRuleEach == IsInjective(patterns)

(* A report is true: the reported rule's pattern ends where the report says. *)
ReportsAreOccurrences ==
  OneRuleEach => \A m \in results : m.rule \in Occurring(m.end)

(* The longest pattern ending at a position, if it fills match's state, is
   reported there. *)
LongestIsReported ==
  OneRuleEach => \A i \in 1 .. Len(text) : \A r \in Occurring(i) :
    (\A t \in states : IsSuffix(t, SubSeq(text, 1, i)) => Len(t) <= Len(patterns[r]))
      => [rule |-> r, end |-> i] \in results
=============================================================================
