---------------------------- MODULE PipelineProofs ----------------------------
(***************************************************************************)
(* Proofs about what the pipeline thread works with.                       *)
(*                                                                         *)
(* EventProcessor, for a table of any size, any hash, any events and any   *)
(* policy files: the probe chain of a flow is a bijection from offsets to  *)
(* buckets (ProbeDistinct, ProbeReaches); with it the invariant of the     *)
(* flow table is inductive as the run checks it.                           *)
(*                                                                         *)
(* RuleReload: the retired automata make hot reload safe for the pipeline  *)
(* thread, for any number of reloads, except for an automaton whose build  *)
(* has failed.                                                             *)
(*                                                                         *)
(* AhoCorasick, for any rules over any alphabet and any number of states:  *)
(* a state that has no right link yet is below the queue (Below), so the   *)
(* states build walks over, which are shallower, have theirs.              *)
(***************************************************************************)
EXTENDS EventProcessor, RuleReload, AhoCorasick, FiniteSetTheorems,
        SequenceTheorems, TLAPS

-----------------------------------------------------------------------------
(* Lemmas: probing *)

(* Below twice the table size, reducing subtracts at most once. *)
LEMMA Reduce ==
  ASSUME NEW n \in Nat, n < 2 * TableSize
  PROVE  /\ n % TableSize \in 0 .. TableSize - 1
         /\ n < TableSize => n % TableSize = n
         /\ n >= TableSize => n % TableSize = n - TableSize
<1>1. TableSize \in Nat /\ TableSize > 0
  BY TableAssumption
<1> DEFINE q == n \div TableSize
           m == n % TableSize
<1>2. q \in Int /\ m \in 0 .. TableSize - 1 /\ n = TableSize * q + m
  BY <1>1
<1> HIDE DEF q, m
<1>3. q >= 0
  BY <1>1, <1>2
<1>4. q <= 1
  BY <1>1, <1>2
<1>5. CASE q = 0
  <2>1. n = m
    BY <1>1, <1>2, <1>5
  <2>2. QED
    BY <1>1, <1>2, <2>1 DEF m
<1>6. CASE q = 1
  <2>1. n = TableSize + m
    BY <1>1, <1>2, <1>6
  <2>2. QED
    BY <1>1, <1>2, <2>1 DEF m
<1>7. QED
  BY <1>2, <1>3, <1>4, <1>5, <1>6

LEMMA ProbeLinear ==
  ASSUME hash \in [Flows -> Buckets], NEW f \in Flows, NEW i \in Offsets
  PROVE  /\ ProbeAt(f, i) \in Buckets
         /\ hash[f] + i < TableSize => ProbeAt(f, i) = hash[f] + i
         /\ hash[f] + i >= TableSize => ProbeAt(f, i) = (hash[f] + i) - TableSize
<1>1. TableSize \in Nat /\ TableSize > 0
  BY TableAssumption
<1>2. hash[f] \in 0 .. TableSize - 1 /\ i \in 0 .. TableSize - 1
  BY DEF Buckets, Offsets
<1>3. hash[f] + i \in Nat /\ hash[f] + i < 2 * TableSize
  BY <1>1, <1>2
<1>4. /\ (hash[f] + i) % TableSize \in 0 .. TableSize - 1
      /\ hash[f] + i < TableSize => (hash[f] + i) % TableSize = hash[f] + i
      /\ hash[f] + i >= TableSize => (hash[f] + i) % TableSize = (hash[f] + i) - TableSize
  BY <1>3, Reduce
<1>5. QED
  BY <1>4 DEF ProbeAt, Buckets, Offsets

(* A probe chain meets no bucket twice. *)
LEMMA ProbeDistinct ==
  ASSUME hash \in [Flows -> Buckets], NEW f \in Flows,
         NEW i \in Offsets, NEW j \in Offsets, ProbeAt(f, i) = ProbeAt(f, j)
  PROVE  i = j
<1> DEFINE h == hash[f]
           a == ProbeAt(f, i)
<1>1. TableSize \in Nat /\ TableSize > 0
  BY TableAssumption
<1>2. h \in 0 .. TableSize - 1 /\ i \in 0 .. TableSize - 1 /\ j \in 0 .. TableSize - 1
  BY DEF Buckets, Offsets
<1>3. /\ h + i < TableSize => a = h + i
      /\ h + i >= TableSize => a = (h + i) - TableSize
  BY ProbeLinear
<1>4. /\ h + j < TableSize => a = h + j
      /\ h + j >= TableSize => a = (h + j) - TableSize
  BY ProbeLinear
<1> HIDE DEF h, a
<1>5. QED
  BY <1>1, <1>2, <1>3, <1>4

(* A probe chain meets every bucket. *)
LEMMA ProbeReaches ==
  ASSUME hash \in [Flows -> Buckets], NEW f \in Flows, NEW b \in Buckets
  PROVE  \E i \in Offsets : ProbeAt(f, i) = b
<1>1. TableSize \in Nat /\ TableSize > 0
  BY TableAssumption
<1>2. hash[f] \in 0 .. TableSize - 1 /\ b \in 0 .. TableSize - 1
  BY DEF Buckets, Offsets
<1>3. CASE b >= hash[f]
  <2>1. b - hash[f] \in Offsets
    BY <1>1, <1>2, <1>3 DEF Offsets
  <2>2. ProbeAt(f, b - hash[f]) = b
    BY <1>1, <1>2, <2>1, ProbeLinear
  <2>3. QED
    BY <2>1, <2>2
<1>4. CASE b < hash[f]
  <2>1. b - hash[f] + TableSize \in Offsets
    BY <1>1, <1>2, <1>4 DEF Offsets
  <2>2. ProbeAt(f, b - hash[f] + TableSize) = b
    BY <1>1, <1>2, <2>1, ProbeLinear
  <2>3. QED
    BY <2>1, <2>2
<1>5. QED
  BY <1>2, <1>3, <1>4

-----------------------------------------------------------------------------
(* Lemmas: the end of processEvent *)

LEMMA CountedType ==
  ASSUME count \in Count, NEW e, NEW p, Counted(e, p)
  PROVE  count' \in Count
<1>1. /\ count.processed \in Nat /\ count.detections \in Nat
      /\ count.incidents \in Nat /\ count.pep \in Nat /\ count.audit \in Nat
  BY DEF Count
<1>2. \A b : One(b) \in Nat
  BY DEF One
<1>3. count' = [processed  |-> count.processed + 1,
              detections |-> count.detections + One(e.kind = SignatureMatch /\ e.rule_id # 0)
                  + One(e.hit # 0) + One(OpensIncident(e)) + One(p # 0),
              incidents  |-> count.incidents + One(OpensIncident(e)),
              pep        |-> count.pep + One(p # 0),
              audit      |-> count.audit + 1]
  BY DEF Counted
<1>4. /\ One(e.kind = SignatureMatch /\ e.rule_id # 0) \in Nat
      /\ One(e.hit # 0) \in Nat /\ One(OpensIncident(e)) \in Nat /\ One(p # 0) \in Nat
  BY DEF One
<1>5. QED
  BY <1>1, <1>3, <1>4 DEF Count

(* However an event leaves, its trace names the policy it is counted with. *)
LEMMA DecisionShape ==
  ASSUME policies \in PolicyFiles, NEW e, Undecided(e) \/ Decided(e)
  PROVE  \E p \in {0} \cup DOMAIN policies :
           /\ Evaluates(Escalated(e), p)
           /\ Counted(e, p)
           /\ last'.policy = p
           /\ last'.rule = MatchedRule(e)
           /\ IF p = 0 THEN last'.decision = "allow"
              ELSE last'.decision \in Enforce(policies[p].action)
<1>1. CASE Undecided(e)
  <2>1. last' = [rule |-> MatchedRule(e), policy |-> 0, decision |-> "allow"]
    BY <1>1 DEF Undecided
  <2>2. last'.policy = 0 /\ last'.rule = MatchedRule(e) /\ last'.decision = "allow"
    BY <2>1
  <2>3. Evaluates(Escalated(e), 0) /\ Counted(e, 0)
    BY <1>1 DEF Undecided
  <2>4. QED
    BY <2>2, <2>3
<1>2. CASE Decided(e)
  <2>1. PICK p \in DOMAIN policies :
          /\ Evaluates(Escalated(e), p)
          /\ Counted(e, p)
          /\ \E d \in Enforce(policies[p].action) :
                last' = [rule |-> MatchedRule(e), policy |-> p, decision |-> d]
    BY <1>2 DEF Decided
  <2>2. PICK d \in Enforce(policies[p].action) :
          last' = [rule |-> MatchedRule(e), policy |-> p, decision |-> d]
    BY <2>1
  <2>3. last'.policy = p /\ last'.rule = MatchedRule(e) /\ last'.decision = d
    BY <2>2
  <2>4. p # 0
    <3>1. DOMAIN policies = 1 .. Len(policies)
      BY PolicyAssumption
    <3>2. QED
      BY <3>1
  <2>5. QED
    BY <2>1, <2>2, <2>3, <2>4
<1>3. QED
  BY <1>1, <1>2

(* The rule that was matched is the rule the policies see, whatever the
   incident does to the severity. *)
LEMMA MatchReachesEvent ==
  ASSUME NEW e \in Event, MatchedRule(e) # 0
  PROVE  Escalated(e).rule_id = MatchedRule(e)
<1>1. Detected(e).rule_id = MatchedRule(e)
  <2>1. CASE e.hit = 0
    BY <2>1 DEF Detected, MatchedRule
  <2>2. CASE e.hit # 0
    <3>1. Detected(e) = [e EXCEPT !.kind = SignatureMatch, !.rule_id = e.hit]
      BY <2>2 DEF Detected
    <3>2. [e EXCEPT !.kind = SignatureMatch, !.rule_id = e.hit].rule_id = e.hit
      BY DEF Event
    <3>3. QED
      BY <2>2, <3>1, <3>2 DEF MatchedRule
  <2>3. QED
    BY <2>1, <2>2
<1>2. Escalated(e).rule_id = Detected(e).rule_id
  BY DEF Escalated, Detected, Event
<1>3. QED
  BY <1>1, <1>2

-----------------------------------------------------------------------------
(* Type correctness *)

(* Every variable keeps its type (EventProcessor, TypeOK). *)
THEOREM TypeCorrect == Spec => []TypeOK
<1>1. Init => TypeOK
  <2> SUFFICES ASSUME Init PROVE TypeOK
    OBVIOUS
  <2>1. score \in [FlowIds -> Nat] /\ incidentOf \in [FlowIds -> Nat]
    BY DEF Init
  <2>2. count \in Count /\ last.policy \in {0} \cup DOMAIN policies
    BY DEF Init, Count, Nothing
  <2>3. available \in BOOLEAN
    BY Zenon DEF Init
  <2>4. QED
    BY <2>1, <2>2, <2>3 DEF Init, TypeOK
<1>2. TypeOK /\ [Next]_vars => TypeOK'
  <2> SUFFICES ASSUME TypeOK, [Next]_vars PROVE TypeOK'
    OBVIOUS
  <2>1. ASSUME NEW e \in Event, ProcessEvent(e) PROVE TypeOK'
    <3>1. e.flow \in Flows
      BY DEF Event
    <3>2. buckets' \in [Buckets -> Flows \cup {NoFlow}]
      BY <2>1, <3>1 DEF ProcessEvent, LookupOrCreate, TypeOK
    <3>3. /\ score' \in [FlowIds -> Nat]
          /\ incidentOf' \in [FlowIds -> Nat]
          /\ incidents' \in Seq(FlowIds)
      <4>1. FlowId(e) \in FlowIds
        BY DEF FlowId, FlowIds
      <4>2. score' \in [FlowIds -> Nat]
        BY <2>1, <4>1, IncidentAssumption DEF ProcessEvent, ObserveFlowThreat, TypeOK
      <4>3. Len(incidents) + 1 \in Nat
        BY DEF TypeOK
      <4>4. incidentOf' \in [FlowIds -> Nat]
        BY <2>1, <4>1, <4>3 DEF ProcessEvent, ObserveFlowThreat, TypeOK
      <4>5. Append(incidents, FlowId(e)) \in Seq(FlowIds)
        BY <4>1 DEF TypeOK
      <4>6. incidents' \in Seq(FlowIds)
        BY <2>1, <4>5 DEF ProcessEvent, ObserveFlowThreat, TypeOK
      <4>7. QED
        BY <4>2, <4>4, <4>6
    <3>4. PICK p \in {0} \cup DOMAIN policies : Counted(e, p) /\ last'.policy = p
      BY <2>1, DecisionShape DEF ProcessEvent, TypeOK
    <3>5. count' \in Count
      BY <3>4, CountedType DEF TypeOK
    <3>6. /\ UNCHANGED <<hash, panic, policies>>
          /\ available' \in BOOLEAN
      BY <2>1 DEF ProcessEvent, config, TypeOK
    <3>7. QED
      BY <3>2, <3>3, <3>4, <3>5, <3>6 DEF TypeOK
  <2>2. ASSUME NEW e \in Event, Panic(e) PROVE TypeOK'
    <3>1. e.flow \in Flows
      BY DEF Event
    <3>2. count' \in Count
      <4>1. count = [processed |-> count.processed, detections |-> count.detections,
                     incidents |-> count.incidents, pep |-> count.pep, audit |-> count.audit]
        BY Zenon DEF TypeOK, Count
      <4>2. /\ count.processed \in Nat /\ count.detections \in Nat
            /\ count.incidents \in Nat /\ count.pep \in Nat /\ count.audit \in Nat
        BY DEF TypeOK, Count
      <4>3. count' = [count EXCEPT !.processed = count.processed + 1]
        BY <2>2 DEF Panic
      <4>4. QED
        BY <4>1, <4>2, <4>3 DEF Count
    <3>3. available' \in BOOLEAN
      BY <2>2 DEF Panic, config, TypeOK
    <3>4. QED
      BY <2>2, <3>1, <3>2, <3>3 DEF Panic, TypeOK, config, tracker
  <2>3. CASE UNCHANGED vars
    <3>1. available' \in BOOLEAN
      BY <2>3 DEF vars, TypeOK
    <3>2. QED
      BY <2>3, <3>1 DEF vars, TypeOK
  <2>4. QED
    BY <2>1, <2>2, <2>3 DEF Next
<1>3. QED
  BY <1>1, <1>2, PTL DEF Spec

-----------------------------------------------------------------------------
(* The flow table *)

LEMMA FoundAgainInit == Init => FlowsFoundAgain
<1> SUFFICES ASSUME Init PROVE FlowsFoundAgain
  OBVIOUS
<1>1. \A f \in Flows, i \in Offsets : ProbeAt(f, i) \in Buckets
  BY ProbeLinear DEF Init
<1>2. \A f \in Flows, i \in Offsets : buckets[ProbeAt(f, i)] # f
  BY <1>1, TableAssumption DEF Init
<1>3. QED
  BY <1>2 DEF FlowsFoundAgain

LEMMA LookupKeepsChains ==
  ASSUME TypeOK, FlowsFoundAgain, hash' = hash, NEW g \in Flows, LookupOrCreate(g)
  PROVE  FlowsFoundAgain'
<1>1. PICK k \in Offsets :
        /\ IsFirstStop(g, k)
        /\ buckets' = [buckets EXCEPT ![ProbeAt(g, k)] = g]
  BY DEF LookupOrCreate
<1>2. /\ hash \in [Flows -> Buckets]
      /\ buckets \in [Buckets -> Flows \cup {NoFlow}]
  BY DEF TypeOK
<1>3. g # NoFlow
  BY TableAssumption
<1>4. /\ buckets[ProbeAt(g, k)] \in {NoFlow, g}
      /\ \A j \in 0 .. k - 1 : buckets[ProbeAt(g, j)] \notin {NoFlow, g}
  BY <1>1 DEF IsFirstStop, Stops
<1>5. TableSize \in Nat /\ Offsets = 0 .. TableSize - 1
  BY TableAssumption DEF Offsets
<1> SUFFICES ASSUME NEW f \in Flows, NEW i \in Offsets, NEW j \in 0 .. i - 1,
                    buckets'[ProbeAt(f, i)] = f
             PROVE  buckets'[ProbeAt(f, j)] \notin {NoFlow, f}
  <2>1. \A f, i : ProbeAt(f, i)' = ProbeAt(f, i)
    BY DEF ProbeAt
  <2>2. QED
    BY <2>1 DEF FlowsFoundAgain
<1>6. j \in Offsets /\ j < i
  BY <1>5
<1>7. /\ ProbeAt(f, i) \in Buckets
      /\ ProbeAt(f, j) \in Buckets
      /\ ProbeAt(g, k) \in Buckets
      /\ ProbeAt(f, i) # ProbeAt(f, j)
  <2>1. ProbeAt(f, i) = ProbeAt(f, j) => i = j
    BY <1>2, <1>6, ProbeDistinct
  <2>2. QED
    BY <1>2, <1>6, <2>1, ProbeLinear
<1>8. CASE f = g
  <2>1. CASE i = k
    <3>1. buckets[ProbeAt(g, j)] \notin {NoFlow, g}
      BY <1>4, <2>1
    <3>2. QED
      BY <1>2, <1>7, <1>8, <1>1, <2>1, <3>1
  <2>2. CASE i # k
    <3>1. ProbeAt(g, i) # ProbeAt(g, k)
      BY <1>2, <2>2, ProbeDistinct
    <3>2. buckets[ProbeAt(g, i)] = g
      BY <1>1, <1>2, <1>7, <1>8, <3>1
    <3>3. \A m \in 0 .. i - 1 : buckets[ProbeAt(g, m)] \notin {NoFlow, g}
      BY <3>2 DEF FlowsFoundAgain
    <3>4. ~(i < k)
      <4>1. i < k => i \in 0 .. k - 1
        BY <1>5
      <4>2. QED
        BY <1>4, <3>2, <4>1
    <3>5. ~(k < i)
      <4>1. k < i => k \in 0 .. i - 1
        BY <1>5
      <4>2. QED
        BY <1>4, <3>3, <4>1
    <3>6. QED
      BY <1>5, <2>2, <3>4, <3>5
  <2>3. QED
    BY <2>1, <2>2
<1>9. CASE f # g
  <2>1. ProbeAt(f, i) # ProbeAt(g, k)
    BY <1>1, <1>2, <1>7, <1>9
  <2>2. buckets[ProbeAt(f, i)] = f
    BY <1>1, <1>2, <1>7, <2>1
  <2>3. buckets[ProbeAt(f, j)] \notin {NoFlow, f}
    BY <2>2 DEF FlowsFoundAgain
  <2>4. CASE ProbeAt(f, j) = ProbeAt(g, k)
    BY <1>1, <1>2, <1>3, <1>7, <1>9, <2>4
  <2>5. CASE ProbeAt(f, j) # ProbeAt(g, k)
    BY <1>1, <1>2, <1>7, <2>3, <2>5
  <2>6. QED
    BY <2>4, <2>5
<1>10. QED
  BY <1>8, <1>9

(* However the flows collide, a flow that has a bucket is found again
   (FlowsFoundAgain): no probe chain is ever broken or doubled. *)
THEOREM FlowsAlwaysFound == Spec => []FlowsFoundAgain
<1>1. Init => FlowsFoundAgain
  BY FoundAgainInit
<1>2. TypeOK /\ FlowsFoundAgain /\ [Next]_vars => FlowsFoundAgain'
  <2> SUFFICES ASSUME TypeOK, FlowsFoundAgain, [Next]_vars PROVE FlowsFoundAgain'
    OBVIOUS
  <2>1. ASSUME NEW e \in Event, ProcessEvent(e) PROVE FlowsFoundAgain'
    <3>1. e.flow \in Flows /\ LookupOrCreate(e.flow) /\ hash' = hash
      BY <2>1 DEF ProcessEvent, config, Event
    <3>2. QED
      BY <3>1, LookupKeepsChains
  <2>2. CASE UNCHANGED <<hash, buckets>>
    BY <2>2 DEF FlowsFoundAgain, ProbeAt
  <2>3. QED
    BY <2>1, <2>2 DEF Next, Panic, vars, config
<1>3. QED
  BY <1>1, <1>2, TypeCorrect, PTL DEF Spec

(* The panic of lookupOrCreate means a full table (PanicMeansFull): the probe
   has met every bucket, since a chain reaches them all. *)
THEOREM PanicOnlyWhenFull == Spec => []PanicMeansFull
<1>1. Init => PanicMeansFull
  BY DEF Init, PanicMeansFull
<1>2. TypeOK /\ PanicMeansFull /\ [Next]_vars => PanicMeansFull'
  <2> SUFFICES ASSUME TypeOK, PanicMeansFull, [Next]_vars PROVE PanicMeansFull'
    OBVIOUS
  <2>1. ASSUME NEW e \in Event, ProcessEvent(e) PROVE PanicMeansFull'
    BY <2>1 DEF ProcessEvent, Running, PanicMeansFull
  <2>2. ASSUME NEW e \in Event, Panic(e) PROVE PanicMeansFull'
    <3>1. e.flow \in Flows
      BY DEF Event
    <3>2. /\ panic' = e.flow /\ buckets' = buckets
          /\ \A i \in Offsets : buckets[ProbeAt(e.flow, i)] \notin {NoFlow, e.flow}
      BY <2>2 DEF Panic, TableFull, Stops
    <3>3. \A b \in Buckets : \E i \in Offsets : ProbeAt(e.flow, i) = b
      BY <3>1, ProbeReaches DEF TypeOK
    <3>4. QED
      BY <3>2, <3>3 DEF PanicMeansFull
  <2>3. CASE UNCHANGED <<panic, buckets>>
    BY <2>3 DEF PanicMeansFull
  <2>4. QED
    BY <2>1, <2>2, <2>3 DEF Next, vars
<1>3. QED
  BY <1>1, <1>2, TypeCorrect, PTL DEF Spec

-----------------------------------------------------------------------------
(* Incidents *)

LEMMA ObserveKeepsIncidents ==
  ASSUME TypeOK, IncidentAtThreshold, NEW e \in Event, ObserveFlowThreat(e)
  PROVE  IncidentAtThreshold'
<1> DEFINE x == FlowId(e)
           n == Len(incidents)
<1>1. x \in FlowIds
  BY DEF FlowId, FlowIds
<1>2. /\ score \in [FlowIds -> Nat] /\ incidentOf \in [FlowIds -> Nat]
      /\ incidents \in Seq(FlowIds) /\ n \in Nat
      /\ DOMAIN incidents = 1 .. n
  BY DEF TypeOK
<1>3. Weight \in Nat /\ Threshold \in Nat /\ MaxIncidents \in Nat
  BY IncidentAssumption
<1>4. /\ score' = IF MatchedRule(e) = 0 THEN score ELSE [score EXCEPT ![x] = @ + Weight]
      /\ IF OpensIncident(e)
         THEN incidents' = Append(incidents, x) /\ incidentOf' = [incidentOf EXCEPT ![x] = n + 1]
         ELSE incidents' = incidents /\ incidentOf' = incidentOf
  BY DEF ObserveFlowThreat
<1>5. OpensIncident(e) <=> /\ MatchedRule(e) # 0 /\ score[x] + Weight >= Threshold
                           /\ incidentOf[x] = 0 /\ n < MaxIncidents
  BY DEF OpensIncident, Crosses
<1>6. /\ \A id \in FlowIds :
            /\ incidentOf[id] # 0 => /\ score[id] >= Threshold
                                     /\ incidentOf[id] \in DOMAIN incidents
                                     /\ incidents[incidentOf[id]] = id
            /\ incidentOf[id] = 0 => score[id] < Threshold \/ n >= MaxIncidents
      /\ \A k \in DOMAIN incidents : incidentOf[incidents[k]] = k
  BY DEF IncidentAtThreshold
<1> HIDE DEF x, n
<1>7. \A id \in FlowIds : score'[id] >= score[id] /\ (id # x => score'[id] = score[id])
  BY <1>1, <1>2, <1>3, <1>4
<1>8. CASE OpensIncident(e)
  <2>1. /\ incidents' = Append(incidents, x)
        /\ incidentOf' = [incidentOf EXCEPT ![x] = n + 1]
        /\ score'[x] >= Threshold
    BY <1>1, <1>2, <1>4, <1>5, <1>8
  <2>2. /\ DOMAIN incidents' = 1 .. n + 1
        /\ Len(incidents') = n + 1
        /\ incidents'[n + 1] = x
        /\ \A k \in 1 .. n : incidents'[k] = incidents[k]
    BY <1>1, <1>2, <2>1 DEF n
  <2>3. /\ incidentOf'[x] = n + 1
        /\ \A id \in FlowIds : id # x => incidentOf'[id] = incidentOf[id]
    BY <1>1, <1>2, <2>1
  <2>4. \A k \in 1 .. n : incidents[k] \in FlowIds /\ incidents[k] # x
    <3>1. \A k \in 1 .. n : incidents[k] \in FlowIds
      BY <1>2
    <3>2. \A k \in 1 .. n : incidentOf[incidents[k]] = k
      BY <1>2, <1>6
    <3>3. incidentOf[x] = 0
      BY <1>5, <1>8
    <3>4. \A k \in 1 .. n : k # 0
      BY <1>2
    <3>5. QED
      BY <3>1, <3>2, <3>3, <3>4
  <2>5. ASSUME NEW id \in FlowIds
        PROVE  /\ incidentOf'[id] # 0 => /\ score'[id] >= Threshold
                                         /\ incidentOf'[id] \in DOMAIN incidents'
                                         /\ incidents'[incidentOf'[id]] = id
               /\ incidentOf'[id] = 0 => score'[id] < Threshold \/ Len(incidents') >= MaxIncidents
    <3>1. CASE id = x
      BY <1>2, <2>1, <2>2, <2>3, <3>1
    <3>2. CASE id # x
      BY <1>2, <1>3, <1>6, <1>7, <2>2, <2>3, <3>2
    <3>3. QED
      BY <3>1, <3>2
  <2>6. \A k \in DOMAIN incidents' : incidentOf'[incidents'[k]] = k
    BY <1>2, <1>6, <2>2, <2>3, <2>4
  <2>7. QED
    BY <2>5, <2>6 DEF IncidentAtThreshold
<1>9. CASE ~OpensIncident(e)
  <2>1. incidents' = incidents /\ incidentOf' = incidentOf /\ Len(incidents') = n
    BY <1>4, <1>9 DEF n
  <2>2. ASSUME NEW id \in FlowIds
        PROVE  /\ incidentOf[id] # 0 => score'[id] >= Threshold
               /\ incidentOf[id] = 0 => score'[id] < Threshold \/ n >= MaxIncidents
    <3>1. score[id] \in Nat /\ score'[id] \in Nat
      BY <1>1, <1>2, <1>3, <1>4
    <3>2. CASE id = x
      <4>1. CASE MatchedRule(e) = 0
        <5>1. score' = score
          BY <1>4, <4>1
        <5>2. QED
          BY <1>6, <5>1
      <4>2. CASE MatchedRule(e) # 0
        <5>1. score'[x] = score[x] + Weight
          BY <1>1, <1>2, <1>4, <4>2
        <5>2. QED
          BY <1>2, <1>3, <1>5, <1>6, <1>9, <3>1, <3>2, <4>2, <5>1
      <4>3. QED
        BY <4>1, <4>2
    <3>3. CASE id # x
      BY <1>6, <1>7, <3>3
    <3>4. QED
      BY <3>2, <3>3
  <2>3. QED
    BY <1>6, <2>1, <2>2 DEF IncidentAtThreshold
<1>10. QED
  BY <1>8, <1>9

(* A score has exactly one incident from the threshold on (IncidentAtThreshold). *)
THEOREM OneIncidentPerScore == Spec => []IncidentAtThreshold
<1>1. Init => IncidentAtThreshold
  <2> SUFFICES ASSUME Init PROVE IncidentAtThreshold
    OBVIOUS
  <2>1. Threshold \in Nat /\ Threshold > 0
    BY IncidentAssumption
  <2>2. \A id \in FlowIds : incidentOf[id] = 0 /\ score[id] = 0
    BY DEF Init
  <2>3. DOMAIN incidents = {}
    BY DEF Init
  <2>4. QED
    BY <2>1, <2>2, <2>3 DEF IncidentAtThreshold
<1>2. TypeOK /\ IncidentAtThreshold /\ [Next]_vars => IncidentAtThreshold'
  <2> SUFFICES ASSUME TypeOK, IncidentAtThreshold, [Next]_vars PROVE IncidentAtThreshold'
    OBVIOUS
  <2>1. ASSUME NEW e \in Event, ProcessEvent(e) PROVE IncidentAtThreshold'
    BY <2>1, ObserveKeepsIncidents DEF ProcessEvent
  <2>2. CASE UNCHANGED tracker
    BY <2>2 DEF tracker, IncidentAtThreshold
  <2>3. QED
    BY <2>1, <2>2 DEF Next, Panic, vars, tracker
<1>3. QED
  BY <1>1, <1>2, TypeCorrect, PTL DEF Spec

-----------------------------------------------------------------------------
(* Decisions *)

(* Whatever the policy file says, the daemon allows or escalates
   (NoUnauthorisedAction, PepEnforcer.enforce). *)
THEOREM NeverUnauthorised == Spec => []NoUnauthorisedAction
<1>1. Init => NoUnauthorisedAction
  BY DEF Init, Nothing, NoUnauthorisedAction
<1>2. TypeOK /\ NoUnauthorisedAction /\ [Next]_vars => NoUnauthorisedAction'
  <2> SUFFICES ASSUME TypeOK, NoUnauthorisedAction, [Next]_vars PROVE NoUnauthorisedAction'
    OBVIOUS
  <2>1. ASSUME NEW e \in Event, ProcessEvent(e) PROVE NoUnauthorisedAction'
    <3>1. policies' = policies /\ available' = available
      BY <2>1 DEF ProcessEvent, config
    <3>2. PICK p \in {0} \cup DOMAIN policies :
            /\ last'.policy = p
            /\ IF p = 0 THEN last'.decision = "allow"
               ELSE last'.decision \in Enforce(policies[p].action)
      BY <2>1, DecisionShape DEF ProcessEvent, TypeOK
    <3>3. CASE p = 0
      BY <3>2, <3>3 DEF NoUnauthorisedAction
    <3>4. CASE p # 0
      <4>1. last'.decision \in Enforce(policies[p].action)
        BY <3>2, <3>4
      <4>2. CASE policies[p].action \in Privileged \/ ~available
        <5>1. last'.decision = "escalate"
          BY <4>1, <4>2 DEF Enforce
        <5>2. QED
          BY <5>1 DEF NoUnauthorisedAction
      <4>3. CASE ~(policies[p].action \in Privileged \/ ~available)
        <5>1. last'.decision = "allow"
          BY <4>1, <4>3 DEF Enforce, Provider
        <5>2. QED
          BY <3>1, <3>2, <4>3, <5>1 DEF NoUnauthorisedAction
      <4>4. QED
        BY <4>2, <4>3
    <3>5. QED
      BY <3>3, <3>4
  <2>2. CASE UNCHANGED <<policies, available, last>>
    BY <2>2 DEF NoUnauthorisedAction
  <2>3. QED
    BY <2>1, <2>2 DEF Next, Panic, vars, config
<1>3. QED
  BY <1>1, <1>2, TypeCorrect, PTL DEF Spec

(* No detection slips past a policy for matched rules (DetectionDecided). *)
THEOREM EveryDetectionDecided == Spec => []DetectionDecided
<1>1. Init => DetectionDecided
  BY DEF Init, Nothing, DetectionDecided
<1>2. TypeOK /\ DetectionDecided /\ [Next]_vars => DetectionDecided'
  <2> SUFFICES ASSUME TypeOK, DetectionDecided, [Next]_vars PROVE DetectionDecided'
    OBVIOUS
  <2>1. ASSUME NEW e \in Event, ProcessEvent(e) PROVE DetectionDecided'
    <3>1. policies' = policies
      BY <2>1 DEF ProcessEvent, config
    <3>2. PICK p \in {0} \cup DOMAIN policies :
            /\ Evaluates(Escalated(e), p)
            /\ last'.policy = p /\ last'.rule = MatchedRule(e)
      BY <2>1, DecisionShape DEF ProcessEvent, TypeOK
    <3> SUFFICES ASSUME MatchedRule(e) # 0, p = 0,
                        NEW i \in DOMAIN policies, RulePolicy(policies[i])
                 PROVE  FALSE
      BY <3>1, <3>2 DEF DetectionDecided, RulePolicy
    <3>3. Escalated(e).rule_id = MatchedRule(e)
      BY MatchReachesEvent
    <3>4. MatchedRule(e) \in Nat /\ MatchedRule(e) > 0
      <4>1. e.hit \in Rules \cup {0} /\ e.rule_id \in Rules \cup {0}
        BY DEF Event
      <4>2. MatchedRule(e) \in Rules \cup {0}
        BY <4>1 DEF MatchedRule
      <4>3. MatchedRule(e) \in Nat \ {0}
        BY <4>2, EventAssumption, Zenon
      <4>4. \A r \in Nat \ {0} : r > 0
        OBVIOUS
      <4>5. QED
        BY <4>3, <4>4
    <3>5. Holds(policies[i], Escalated(e))
      BY <3>3, <3>4 DEF Holds, RulePolicy
    <3>6. DOMAIN policies = 1 .. Len(policies)
      BY PolicyAssumption DEF TypeOK
    <3>7. QED
      BY <3>2, <3>5, <3>6 DEF Evaluates
  <2>2. CASE UNCHANGED <<policies, last>>
    BY <2>2 DEF DetectionDecided, RulePolicy
  <2>3. QED
    BY <2>1, <2>2 DEF Next, Panic, vars, config
<1>3. QED
  BY <1>1, <1>2, TypeCorrect, PTL DEF Spec

-----------------------------------------------------------------------------
(* Hot reload *)

\* What is in force or in use is older than the automaton being built.
Older ==
  \A a \in {active, held} :
    /\ a <= reloads
    /\ pc \in {"parse", "build", "publish"} => a < reloads

\* Nothing has freed the automaton being built, nor those still to come.
FreshAlive ==
  /\ \A a \in Automata : a > reloads => frees[a] = 0
  /\ pc \in {"parse", "build"} => frees[reloads] = 0
  /\ pc = "parse" => newCount = 0
  /\ pc = "publish" /\ newCount > 0 /\ frees[reloads] > 0 => reloads \in unbuilt

\* What the next event would be matched with has been freed only if unbuilt.
ActiveAlive == active # None /\ frees[active] > 0 => active \in unbuilt

IInv == ReloadTypeOK /\ Older /\ FreshAlive /\ ActiveAlive /\ ReaderSafe

USE DEF Automata, None, heap

LEMMA InitInv == ReloadInit => IInv
  BY ReloadAssumption DEF ReloadInit, IInv, ReloadTypeOK, Older, FreshAlive, ActiveAlive, ReaderSafe

LEMMA StepType == ReloadTypeOK /\ [ReloadNext]_reloadVars => ReloadTypeOK'
<1> SUFFICES ASSUME ReloadTypeOK, [ReloadNext]_reloadVars PROVE ReloadTypeOK'
  OBVIOUS
<1> USE ReloadAssumption DEF ReloadTypeOK
<1>1. CASE Create  BY <1>1 DEF Create, globals
<1>2. CASE OpenFails  BY <1>2 DEF OpenFails, globals, Free
<1>3. CASE AddPatterns  BY <1>3 DEF AddPatterns, globals
<1>4. CASE BuildFails  BY <1>4 DEF BuildFails, globals, Free
<1>5. CASE Build  BY <1>5 DEF Build, globals
<1>6. CASE Swap  BY <1>6 DEF Swap
<1>7. CASE KeepOldRules  BY <1>7 DEF KeepOldRules, globals, Free
<1>8. CASE StoreCount  BY <1>8 DEF StoreCount
<1>9. CASE Pipeline  BY <1>9 DEF Pipeline, TakeActive, Match, control, globals
<1>10. CASE UNCHANGED reloadVars  BY <1>10 DEF reloadVars, control, globals
<1> QED  BY <1>1, <1>2, <1>3, <1>4, <1>5, <1>6, <1>7, <1>8, <1>9, <1>10 DEF ReloadNext, Control

\* The only free of a published automaton is the one after a failed build.
LEMMA StepInv == IInv /\ [ReloadNext]_reloadVars => IInv'
<1> SUFFICES ASSUME IInv, [ReloadNext]_reloadVars PROVE IInv'
  OBVIOUS
<1>t. ReloadTypeOK /\ ReloadTypeOK'
  BY StepType DEF IInv
<1> SUFFICES (Older /\ FreshAlive /\ ActiveAlive /\ ReaderSafe)'
  BY <1>t DEF IInv
<1> USE <1>t, ReloadAssumption DEF IInv, ReloadTypeOK, Older, FreshAlive, ActiveAlive, ReaderSafe
<1>1. CASE Create  BY <1>1 DEF Create, globals
<1>2. CASE OpenFails  BY <1>2 DEF OpenFails, globals, Free
<1>3. CASE AddPatterns  BY <1>3 DEF AddPatterns, globals
<1>4. CASE BuildFails  BY <1>4 DEF BuildFails, globals, Free
<1>5. CASE Build  BY <1>5 DEF Build, globals
<1>6. CASE Swap  BY <1>6 DEF Swap
<1>7. CASE KeepOldRules  BY <1>7 DEF KeepOldRules, globals, Free
<1>8. CASE StoreCount  BY <1>8 DEF StoreCount
<1>9. CASE Pipeline  BY <1>9 DEF Pipeline, TakeActive, Match, control, globals
<1>10. CASE UNCHANGED reloadVars  BY <1>10 DEF reloadVars, control, globals
<1> QED  BY <1>1, <1>2, <1>3, <1>4, <1>5, <1>6, <1>7, <1>8, <1>9, <1>10 DEF ReloadNext, Control

(* Type correctness, whatever fails. *)
THEOREM ReloadTypeCorrect == ReloadSpec => []ReloadTypeOK
<1>1. ReloadInit => ReloadTypeOK
  BY InitInv DEF IInv
<1> QED  BY <1>1, StepType, PTL DEF ReloadSpec

(* The automaton match works with is not freed under it, however many reloads
   happen meanwhile, unless its own build had failed. *)
THEOREM HotReloadIsSafe == ReloadSpec => []ReaderSafe
<1>1. IInv => ReaderSafe
  BY DEF IInv
<1> QED  BY InitInv, StepInv, <1>1, PTL DEF ReloadSpec

\* Every automaton but the one in the making is in force, retired or freed.
Kept ==
  \A a \in 1 .. reloads :
    (pc \in {"parse", "build", "publish"} => a # reloads)
      => a = active \/ a \in retired \/ frees[a] > 0

\* The count is that of the rules in force, or of the automaton in the making.
CountAgrees ==
  /\ loaded > 0 => active # None /\ rules[active] = loaded
  /\ pc \in {"build", "publish"} /\ newCount > 0 => rules[reloads] = newCount
  /\ pc = "store" /\ newCount > 0 => active # None /\ rules[active] = newCount

LEMMA InitKept == ReloadInit => Kept /\ CountAgrees
  BY ReloadAssumption DEF ReloadInit, Kept, CountAgrees

LEMMA StepKept == IInv /\ Kept /\ [ReloadNext]_reloadVars => Kept'
<1> SUFFICES ASSUME IInv, Kept, [ReloadNext]_reloadVars PROVE Kept'
  OBVIOUS
<1>t. ReloadTypeOK /\ ReloadTypeOK'
  BY StepType DEF IInv
<1> USE <1>t, ReloadAssumption DEF ReloadTypeOK, Kept
<1>1. CASE Create  BY <1>1 DEF Create, globals
<1>2. CASE OpenFails  BY <1>2 DEF OpenFails, globals, Free
<1>3. CASE AddPatterns  BY <1>3 DEF AddPatterns, globals
<1>4. CASE BuildFails  BY <1>4 DEF BuildFails, globals, Free
<1>5. CASE Build  BY <1>5 DEF Build, globals
<1>6. CASE Swap  BY <1>6 DEF Swap
<1>7. CASE KeepOldRules
  <2>1. /\ frees' = [frees EXCEPT ![reloads] = frees[reloads] + 1] /\ pc' = "store"
        /\ reloads' = reloads /\ active' = active /\ retired' = retired /\ pc = "publish"
    BY <1>7 DEF KeepOldRules, globals, Free
  <2>2. frees'[reloads] > 0
    <3>1. frees[reloads] \in Nat /\ frees'[reloads] = frees[reloads] + 1
      BY <2>1
    <3>2. QED
      BY <3>1
  <2>3. \A a \in 1 .. reloads : a # reloads => frees'[a] = frees[a]
    BY <2>1
  <2>4. QED
    BY <2>1, <2>2, <2>3
<1>8. CASE StoreCount  BY <1>8 DEF StoreCount
<1>9. CASE Pipeline  BY <1>9 DEF Pipeline, TakeActive, Match, control, globals
<1>10. CASE UNCHANGED reloadVars  BY <1>10 DEF reloadVars, control, globals
<1> QED  BY <1>1, <1>2, <1>3, <1>4, <1>5, <1>6, <1>7, <1>8, <1>9, <1>10 DEF ReloadNext, Control

LEMMA StepCounted == IInv /\ CountAgrees /\ [ReloadNext]_reloadVars => CountAgrees'
<1> SUFFICES ASSUME IInv, CountAgrees, [ReloadNext]_reloadVars PROVE CountAgrees'
  OBVIOUS
<1>t. ReloadTypeOK /\ ReloadTypeOK' /\ Older /\ FreshAlive
  BY StepType DEF IInv
<1> USE <1>t, ReloadAssumption DEF ReloadTypeOK, Older, FreshAlive, CountAgrees
<1>1. CASE Create  BY <1>1 DEF Create, globals
<1>2. CASE OpenFails  BY <1>2 DEF OpenFails, globals, Free
<1>3. CASE AddPatterns  BY <1>3 DEF AddPatterns, globals
<1>4. CASE BuildFails  BY <1>4 DEF BuildFails, globals, Free
<1>5. CASE Build  BY <1>5 DEF Build, globals
<1>6. CASE Swap  BY <1>6 DEF Swap
<1>7. CASE KeepOldRules  BY <1>7 DEF KeepOldRules, globals, Free
<1>8. CASE StoreCount  BY <1>8 DEF StoreCount
<1>9. CASE Pipeline  BY <1>9 DEF Pipeline, TakeActive, Match, control, globals
<1>10. CASE UNCHANGED reloadVars  BY <1>10 DEF reloadVars, control, globals
<1> QED  BY <1>1, <1>2, <1>3, <1>4, <1>5, <1>6, <1>7, <1>8, <1>9, <1>10 DEF ReloadNext, Control

(* No automaton leaks, whichever step of whichever reload fails. *)
THEOREM NothingLeaks == ReloadSpec => []NoneLeaks
<1>1. Kept => NoneLeaks
  BY DEF Kept, NoneLeaks
<1> QED  BY InitInv, StepInv, InitKept, StepKept, <1>1, PTL DEF ReloadSpec

(* A count that is reported, and is not zero, is that of the rules in force. *)
THEOREM CountIsInForce == ReloadSpec => []LoadedIsInForce
<1>1. CountAgrees => LoadedIsInForce
  BY DEF CountAgrees, LoadedIsInForce
<1> QED  BY InitInv, StepInv, InitKept, StepCounted, <1>1, PTL DEF ReloadSpec

-----------------------------------------------------------------------------
(* The automaton.  Lemmas: suffixes *)

\* What a pattern, a state or a text is.
Word == Seq(Alphabet)

LEMMA SuffixIs ==
  ASSUME NEW s \in Word, NEW t \in Word
  PROVE  IsSuffix(s, t) <=>
           Len(s) <= Len(t) /\ \A i \in 1 .. Len(s) : s[i] = t[Len(t) - Len(s) + i]
<1> DEFINE m == Len(s)
           n == Len(t)
           rs == Reverse(s)
           rt == Reverse(t)
<1>1. m \in Nat /\ n \in Nat
  BY DEF Word
<1>2. rs = [i \in 1 .. m |-> s[m - i + 1]] /\ rt = [i \in 1 .. n |-> t[n - i + 1]]
  BY DEF Reverse
<1>3. rs \in Word /\ Len(rs) = m
  <2>1. \A i \in 1 .. m : s[m - i + 1] \in Alphabet
    BY <1>1 DEF Word
  <2> QED  BY <1>1, <1>2, <2>1 DEF Word
<1>4. rt \in Word /\ Len(rt) = n
  <2>1. \A i \in 1 .. n : t[n - i + 1] \in Alphabet
    BY <1>1 DEF Word
  <2> QED  BY <1>1, <1>2, <2>1 DEF Word
<1> HIDE DEF rs, rt
<1>5. IsSuffix(s, t) <=> m <= n /\ SubSeq(rs, 1, m) = SubSeq(rt, 1, m)
  BY <1>3, <1>4 DEF IsSuffix, IsPrefix, rs, rt
<1>6. ASSUME m <= n
      PROVE  SubSeq(rs, 1, m) = SubSeq(rt, 1, m) <=> \A i \in 1 .. m : rs[i] = rt[i]
  <2>1. SubSeq(rs, 1, m) = [i \in 1 .. m |-> rs[i]]
    BY <1>1, <1>3 DEF Word
  <2>2. SubSeq(rt, 1, m) = [i \in 1 .. m |-> rt[i]]
    BY <1>1, <1>4, <1>6 DEF Word
  <2> QED  BY <2>1, <2>2
<1>7. ASSUME m <= n
      PROVE  (\A i \in 1 .. m : rs[i] = rt[i]) <=> \A i \in 1 .. m : s[i] = t[n - m + i]
  <2>1. \A i \in 1 .. m : rs[i] = s[m - i + 1] /\ rt[i] = t[n - i + 1]
    BY <1>1, <1>2, <1>7
  <2>2. \A i \in 1 .. m : /\ m - i + 1 \in 1 .. m
                          /\ m - (m - i + 1) + 1 = i
                          /\ n - m + (m - i + 1) = n - i + 1
                          /\ n - (m - i + 1) + 1 = n - m + i
    BY <1>1
  <2> QED  BY <2>1, <2>2
<1> QED  BY <1>5, <1>6, <1>7

LEMMA RootSuffix == ASSUME NEW t \in Word PROVE Root \in Word /\ Len(Root) = 0 /\ IsSuffix(Root, t)
<1>1. Root \in Word /\ Len(Root) = 0
  BY DEF Root, Word
<1>2. Len(t) \in Nat
  BY DEF Word
<1> QED  BY <1>1, <1>2, SuffixIs

LEMMA SuffixSelf == ASSUME NEW t \in Word PROVE IsSuffix(t, t)
<1>1. Len(t) \in Nat
  BY DEF Word
<1> QED  BY <1>1, SuffixIs

\* Suffixes of one word are suffixes of one another.
LEMMA SuffixOfSuffix ==
  ASSUME NEW r \in Word, NEW s \in Word, NEW t \in Word
  PROVE  /\ IsSuffix(r, s) /\ IsSuffix(s, t) => IsSuffix(r, t)
         /\ IsSuffix(r, t) /\ IsSuffix(s, t) /\ Len(r) <= Len(s) => IsSuffix(r, s)
         /\ IsSuffix(r, t) /\ Len(r) = Len(t) => r = t
         /\ IsStrictSuffix(r, t) => Len(r) < Len(t)
<1>1. PICK k \in Nat, m \in Nat, n \in Nat : k = Len(r) /\ m = Len(s) /\ n = Len(t)
  BY DEF Word
<1>2. ASSUME IsSuffix(r, s), IsSuffix(s, t)
      PROVE  IsSuffix(r, t)
  <2>1. k <= m /\ \A i \in 1 .. k : r[i] = s[m - k + i]
    BY <1>1, <1>2, SuffixIs
  <2>2. m <= n /\ \A i \in 1 .. m : s[i] = t[n - m + i]
    BY <1>1, <1>2, SuffixIs
  <2>3. \A i \in 1 .. k : m - k + i \in 1 .. m /\ n - m + (m - k + i) = n - k + i
    BY <2>1
  <2>4. k <= n /\ \A i \in 1 .. k : r[i] = t[n - k + i]
    BY <2>1, <2>2, <2>3
  <2> QED  BY <1>1, <2>4, SuffixIs
<1>3. ASSUME IsSuffix(r, t), IsSuffix(s, t), k <= m
      PROVE  IsSuffix(r, s)
  <2>1. k <= n /\ \A i \in 1 .. k : r[i] = t[n - k + i]
    BY <1>1, <1>3, SuffixIs
  <2>2. m <= n /\ \A i \in 1 .. m : s[i] = t[n - m + i]
    BY <1>1, <1>3, SuffixIs
  <2>3. \A i \in 1 .. k : m - k + i \in 1 .. m /\ n - m + (m - k + i) = n - k + i
    BY <1>3
  <2>4. \A i \in 1 .. k : r[i] = s[m - k + i]
    BY <2>1, <2>2, <2>3
  <2> QED  BY <1>1, <1>3, <2>4, SuffixIs
<1>4. ASSUME IsSuffix(r, t), k = n
      PROVE  r = t
  <2>1. \A i \in 1 .. k : r[i] = t[n - k + i]
    <3>1. IsSuffix(r, t) => \A i \in 1 .. k : r[i] = t[n - k + i]
      BY <1>1, SuffixIs
    <3> QED  BY <1>4, <3>1
  <2>2. \A i \in 1 .. k : n - k + i = i
    BY <1>4
  <2>3. \A i \in 1 .. k : r[i] = t[i]
    BY <2>1, <2>2
  <2> QED  BY <1>1, <1>4, <2>3, SeqEqual DEF Word
<1>5. ASSUME IsStrictSuffix(r, t)
      PROVE  k < n
  <2>1. IsSuffix(r, t) /\ r # t
    BY <1>5 DEF IsStrictSuffix
  <2>2. k <= n
    BY <1>1, <2>1, SuffixIs
  <2> QED  BY <1>4, <2>1, <2>2
<1> QED  BY <1>1, <1>2, <1>3, <1>4, <1>5

LEMMA SuffixAppend ==
  ASSUME NEW s \in Word, NEW t \in Word, NEW b \in Alphabet, NEW c \in Alphabet
  PROVE  /\ Append(s, b) \in Word /\ Len(Append(s, b)) = Len(s) + 1
         /\ IsSuffix(Append(s, b), Append(t, c)) <=> b = c /\ IsSuffix(s, t)
         /\ IsStrictSuffix(Append(s, b), Append(t, c)) <=> b = c /\ IsStrictSuffix(s, t)
<1>1. PICK m \in Nat, n \in Nat : m = Len(s) /\ n = Len(t)
  BY DEF Word
<1>2. /\ Append(s, b) \in Word /\ Len(Append(s, b)) = m + 1
      /\ (\A i \in 1 .. m : Append(s, b)[i] = s[i]) /\ Append(s, b)[m + 1] = b
  BY <1>1, AppendProperties DEF Word
<1>3. /\ Append(t, c) \in Word /\ Len(Append(t, c)) = n + 1
      /\ (\A i \in 1 .. n : Append(t, c)[i] = t[i]) /\ Append(t, c)[n + 1] = c
  BY <1>1, AppendProperties DEF Word
<1>4. IsSuffix(Append(s, b), Append(t, c)) <=>
        /\ m + 1 <= n + 1
        /\ \A i \in 1 .. m + 1 : Append(s, b)[i] = Append(t, c)[(n + 1) - (m + 1) + i]
  <2>1. PICK x \in Word, y \in Word : x = Append(s, b) /\ y = Append(t, c)
    BY <1>2, <1>3
  <2>2. IsSuffix(x, y) <=>
          Len(x) <= Len(y) /\ \A i \in 1 .. Len(x) : x[i] = y[Len(y) - Len(x) + i]
    BY SuffixIs
  <2>3. Len(x) = m + 1 /\ Len(y) = n + 1
    BY <1>2, <1>3, <2>1
  <2>4. IsSuffix(x, y) <=>
          m + 1 <= n + 1 /\ \A i \in 1 .. m + 1 : x[i] = y[(n + 1) - (m + 1) + i]
    BY <2>2, <2>3
  <2> QED  BY <2>1, <2>4
<1>5. IsSuffix(s, t) <=> m <= n /\ \A i \in 1 .. m : s[i] = t[n - m + i]
  BY <1>1, SuffixIs
<1>6. ASSUME m <= n
      PROVE  (\A i \in 1 .. m + 1 : Append(s, b)[i] = Append(t, c)[(n + 1) - (m + 1) + i])
               <=> b = c /\ \A i \in 1 .. m : s[i] = t[n - m + i]
  <2>1. \A i \in 1 .. m : /\ (n + 1) - (m + 1) + i = n - m + i
                          /\ n - m + i \in 1 .. n
    BY <1>6
  <2>2. \A i \in 1 .. m : /\ Append(s, b)[i] = s[i]
                          /\ Append(t, c)[(n + 1) - (m + 1) + i] = t[n - m + i]
    BY <1>2, <1>3, <2>1
  <2>3. (n + 1) - (m + 1) + (m + 1) = n + 1
    OBVIOUS
  <2>4. \A i : i \in 1 .. m + 1 <=> i \in 1 .. m \/ i = m + 1
    OBVIOUS
  <2> QED  BY <1>2, <1>3, <2>2, <2>3, <2>4
<1>7. IsSuffix(Append(s, b), Append(t, c)) <=> b = c /\ IsSuffix(s, t)
  <2>1. m + 1 <= n + 1 <=> m <= n
    OBVIOUS
  <2> QED  BY <1>4, <1>5, <1>6, <2>1
<1>8. Append(s, b) = Append(t, c) <=> s = t /\ b = c
  BY AppendInjective DEF Word
<1> QED  BY <1>1, <1>2, <1>7, <1>8 DEF IsStrictSuffix

\* The longest of the suffixes in a set is the only one.
LEMMA LongestIs ==
  ASSUME NEW t \in Word, NEW S, S \subseteq Word, \A s \in S : IsSuffix(s, t),
         NEW m \in S, \A s \in S : Len(s) <= Len(m)
  PROVE  m = Longest(S)
<1> DEFINE x == Longest(S)
<1>1. x \in S /\ \A s \in S : Len(s) <= Len(x)
  BY DEF Longest
<1> HIDE DEF x
<1>2. Len(x) = Len(m)
  <2>1. Len(x) \in Nat /\ Len(m) \in Nat
    BY <1>1 DEF Word
  <2> QED  BY <1>1, <2>1
<1>3. IsSuffix(x, m)
  <2>1. Len(x) <= Len(m) /\ x \in Word /\ m \in Word
    BY <1>1
  <2> QED  BY <1>1, <2>1, SuffixOfSuffix
<1> QED  BY <1>1, <1>2, <1>3, SuffixOfSuffix DEF x

-----------------------------------------------------------------------------
(* The automaton: the invariant *)

Building == phase \in {"build", "link"}
Matching == phase \in {"match", "advance"}
Walking == phase \in {"link", "advance"}

AhoTyped ==
  /\ patterns \in RuleSets /\ next \in 1 .. Len(patterns) + 1 /\ at \in Nat
  /\ phase \in {"add", "build", "link", "match", "advance"}
  /\ states \subseteq Word /\ Root \in states /\ IsFiniteSet(states)
  /\ failure \in [states -> states] /\ failure[Root] = Root
  /\ output \in [states -> Nat] /\ outputCount \in [states -> Nat]
  /\ outputLists \in Seq(Nat)
  /\ queue \in Seq(states \ {Root})
  /\ u \in states /\ todo \subseteq Sons(u)
  /\ Walking => byte \in Alphabet
  /\ phase = "link" => Append(u, byte) \in states
  /\ cur \in states /\ text \in Word

\* What the trie knows, and what addPattern has walked of the next pattern.
Grown ==
  /\ AhoTypeOK
  /\ \A s \in states : \A n \in 0 .. Len(s) : SubSeq(s, 1, n) \in states
  /\ Adding => at <= Len(patterns[next]) /\ Walked \in states
  /\ phase = "add" => queue = <<>> /\ todo = {}
  /\ ~Matching => text = <<>> /\ results = {}

\* The failure link of s is the one it should have.
Linked(s) ==
  /\ IsStrictSuffix(failure[s], s)
  /\ \A t \in states : IsStrictSuffix(t, s) => Len(t) <= Len(failure[s])

\* The queue is in the order of depth, and what has no link yet is below it.
BreadthFirst ==
  /\ \A i, j \in 1 .. Len(queue) : i < j => Len(queue[i]) <= Len(queue[j])
  /\ \A i \in 1 .. Len(queue) : Len(queue[i]) \in {Len(u), Len(u) + 1}

Below(s) ==
  \/ phase = "link" /\ s = Append(u, byte)
  \/ \E i \in 1 .. Len(queue) : IsStrictPrefix(queue[i], s)
  \/ \E b \in todo : IsPrefix(Append(u, b), s)

Links ==
  /\ Building => BreadthFirst /\ \A s \in states \ {Root} : Linked(s) \/ Below(s)
  /\ Matching => \A s \in states \ {Root} : Linked(s)

\* The states the walk along the links may come to.
Tails ==
  IF phase = "link" THEN {t \in states : IsStrictSuffix(t, u)}
                    ELSE {t \in states : IsSuffix(t, text)}

\* No state with a transition on the byte has been passed.
Walks ==
  /\ Walking => /\ cur \in Tails \cup {Root}
                /\ \A t \in Tails : Append(t, byte) \in states => Len(t) <= Len(cur)
  /\ phase = "match" => cur \in Tails /\ \A t \in Tails : Len(t) <= Len(cur)

LinkInv == AhoTyped /\ Grown /\ Links /\ Walks

\* While no two rules have one pattern, a state has the rule of its pattern.
Outputs ==
  /\ \A s \in states :
       \/ outputCount[s] = 0
       \/ /\ outputCount[s] = 1 /\ output[s] < Len(outputLists)
          /\ outputLists[output[s] + 1] \in 1 .. next - 1
          /\ patterns[outputLists[output[s] + 1]] = s /\ s # Root
  /\ \A r \in 1 .. next - 1 :
       \/ patterns[r] = Root
       \/ patterns[r] \in states /\ outputCount[patterns[r]] = 1
       \/ patterns[r] \notin states /\ Full
  /\ phase # "add" => next = Len(patterns) + 1

Reports ==
  /\ \A m \in results : m.end \in 1 .. Len(text) /\ m.rule \in Occurring(m.end)
  /\ LongestIsReported

ReportInv == OneRuleEach => Outputs /\ Reports

-----------------------------------------------------------------------------
(* The automaton.  Lemmas: prefixes *)

LEMMA PrefixIs ==
  ASSUME NEW s \in Word, NEW t \in Word
  PROVE  IsPrefix(s, t) <=> Len(s) <= Len(t) /\ \A i \in 1 .. Len(s) : s[i] = t[i]
<1>1. Len(s) \in Nat /\ Len(t) \in Nat
  BY DEF Word
<1>2. ASSUME Len(s) <= Len(t)
      PROVE  SubSeq(s, 1, Len(s)) = SubSeq(t, 1, Len(s)) <=> \A i \in 1 .. Len(s) : s[i] = t[i]
  <2>1. SubSeq(s, 1, Len(s)) = [i \in 1 .. Len(s) |-> s[i]]
    BY <1>1 DEF Word
  <2>2. SubSeq(t, 1, Len(s)) = [i \in 1 .. Len(s) |-> t[i]]
    BY <1>1, <1>2 DEF Word
  <2> QED  BY <2>1, <2>2
<1> QED  BY <1>2 DEF IsPrefix

LEMMA Beginning ==
  ASSUME NEW p \in Word, NEW n \in 0 .. Len(p)
  PROVE  /\ SubSeq(p, 1, n) \in Word /\ Len(SubSeq(p, 1, n)) = n
         /\ \A i \in 1 .. n : SubSeq(p, 1, n)[i] = p[i]
         /\ \A k \in 0 .. n : SubSeq(SubSeq(p, 1, n), 1, k) = SubSeq(p, 1, k)
         /\ n = Len(p) => SubSeq(p, 1, n) = p
<1>1. Len(p) \in Nat /\ n \in Nat
  BY DEF Word
<1>2. ASSUME NEW q \in Word, NEW k \in Nat, k <= Len(q)
      PROVE  /\ SubSeq(q, 1, k) \in Word /\ Len(SubSeq(q, 1, k)) = k
             /\ SubSeq(q, 1, k) = [i \in 1 .. k |-> q[i]]
  <2>1. SubSeq(q, 1, k) = [i \in 1 .. k |-> q[i]]
    BY <1>2 DEF Word
  <2>2. \A i \in 1 .. k : q[i] \in Alphabet
    BY <1>2 DEF Word
  <2> QED  BY <1>2, <2>1, <2>2 DEF Word
<1>3. /\ SubSeq(p, 1, n) \in Word /\ Len(SubSeq(p, 1, n)) = n
      /\ SubSeq(p, 1, n) = [i \in 1 .. n |-> p[i]]
  BY <1>1, <1>2
<1>4. \A i \in 1 .. n : SubSeq(p, 1, n)[i] = p[i]
  BY <1>3
<1>5. ASSUME NEW k \in 0 .. n
      PROVE  SubSeq(SubSeq(p, 1, n), 1, k) = SubSeq(p, 1, k)
  <2>1. SubSeq(SubSeq(p, 1, n), 1, k) = [i \in 1 .. k |-> SubSeq(p, 1, n)[i]]
    BY <1>2, <1>3
  <2>2. SubSeq(p, 1, k) = [i \in 1 .. k |-> p[i]]
    BY <1>1, <1>2
  <2>3. \A i \in 1 .. k : SubSeq(p, 1, n)[i] = p[i]
    BY <1>1, <1>4
  <2> QED  BY <2>1, <2>2, <2>3
<1>6. n = Len(p) => SubSeq(p, 1, n) = p
  BY <1>3, <1>4, SeqEqual DEF Word
<1> QED  BY <1>3, <1>4, <1>5, <1>6

\* A word that goes on behind p goes on with one byte.
LEMMA OneFurther ==
  ASSUME NEW p \in Word, NEW s \in Word
  PROVE  /\ IsStrictPrefix(p, s) =>
              /\ Len(p) < Len(s)
              /\ \E b \in Alphabet : /\ Append(p, b) = SubSeq(s, 1, Len(p) + 1)
                                     /\ IsPrefix(Append(p, b), s)
         /\ \A b \in Alphabet : IsPrefix(Append(p, b), s) => Len(p) + 1 <= Len(s)
<1>1. Len(p) \in Nat /\ Len(s) \in Nat
  BY DEF Word
<1>2. ASSUME NEW b \in Alphabet
      PROVE  /\ Append(p, b) \in Word /\ Len(Append(p, b)) = Len(p) + 1
             /\ (\A i \in 1 .. Len(p) : Append(p, b)[i] = p[i])
             /\ Append(p, b)[Len(p) + 1] = b
  BY AppendProperties DEF Word
<1>3. \A b \in Alphabet : IsPrefix(Append(p, b), s) => Len(p) + 1 <= Len(s)
  BY <1>2, PrefixIs
<1>4. ASSUME IsStrictPrefix(p, s)
      PROVE  /\ Len(p) < Len(s)
             /\ \E b \in Alphabet : /\ Append(p, b) = SubSeq(s, 1, Len(p) + 1)
                                    /\ IsPrefix(Append(p, b), s)
  <2>1. p # s /\ Len(p) <= Len(s) /\ \A i \in 1 .. Len(p) : p[i] = s[i]
    BY <1>4, PrefixIs DEF IsStrictPrefix
  <2>2. Len(p) # Len(s)
    BY <2>1, SeqEqual DEF Word
  <2>3. Len(p) < Len(s)
    BY <1>1, <2>1, <2>2
  <2> DEFINE b == s[Len(p) + 1]
  <2>4. b \in Alphabet
    BY <1>1, <2>3 DEF Word
  <2> HIDE DEF b
  <2>5. \A i \in 1 .. Len(p) + 1 : Append(p, b)[i] = s[i]
    <3>1. \A i \in 1 .. Len(p) + 1 : i \in 1 .. Len(p) \/ i = Len(p) + 1
      BY <1>1
    <3> QED  BY <1>2, <2>1, <2>4, <3>1 DEF b
  <2>6. Append(p, b) = SubSeq(s, 1, Len(p) + 1)
    <3>1. Len(p) + 1 \in 0 .. Len(s)
      BY <1>1, <2>3
    <3>2. /\ SubSeq(s, 1, Len(p) + 1) \in Word
          /\ Len(SubSeq(s, 1, Len(p) + 1)) = Len(p) + 1
          /\ \A i \in 1 .. Len(p) + 1 : SubSeq(s, 1, Len(p) + 1)[i] = s[i]
      BY <3>1, Beginning
    <3> QED  BY <1>2, <2>4, <2>5, <3>2, SeqEqual DEF Word
  <2>7. IsPrefix(Append(p, b), s)
    <3>1. Len(p) + 1 <= Len(s)
      BY <1>1, <2>3
    <3> QED  BY <1>2, <2>4, <2>5, <3>1, PrefixIs
  <2> QED  BY <2>3, <2>4, <2>6, <2>7
<1> QED  BY <1>3, <1>4

-----------------------------------------------------------------------------
(* addPattern keeps the invariant *)

LEMMA PatternTyped ==
  ASSUME AhoTyped
  PROVE  /\ Len(patterns) \in Nat /\ next \in Nat
         /\ \A r \in 1 .. Len(patterns) : patterns[r] \in Word
<1>1. patterns \in Seq(Word)
  BY AhoAssumption DEF AhoTyped, Word
<1> QED  BY <1>1 DEF AhoTyped

\* While patterns are added there is nothing to say of links and walks.
LEMMA QuietWhileAdding ==
  ASSUME phase' = "add"
  PROVE  Links' /\ Walks'
BY DEF Links, Walks, Building, Matching, Walking

LEMMA AddByteKeeps ==
  ASSUME LinkInv, AddByte
  PROVE  LinkInv'
<1>1. AhoTyped /\ Grown /\ phase = "add" /\ phase' = "add" /\ next \in 1 .. Len(patterns)
  BY PatternTyped DEF LinkInv, AddByte, Adding, AhoTyped
<1>2. PICK p \in Word : p = patterns[next] /\ at + 1 \in 0 .. Len(p) /\ Len(p) \in Nat
  <2>1. patterns[next] \in Word
    BY <1>1, PatternTyped
  <2>2. Len(patterns[next]) \in Nat
    BY <2>1 DEF Word
  <2> QED  BY <1>1, <2>1, <2>2 DEF AddByte, AhoTyped
<1>3. PICK s \in Word : s = SubSeq(p, 1, at + 1)
  BY <1>2, Beginning
<1>4. /\ Len(s) = at + 1
      /\ \A k \in 0 .. at + 1 : SubSeq(s, 1, k) = SubSeq(p, 1, k)
  BY <1>2, <1>3, Beginning
<1>5. states' = states \cup {s} /\ (s \in states \/ ~Full)
  BY <1>2, <1>3 DEF AddByte
<1>6. /\ output' = [t \in states' |-> IF t \in states THEN output[t] ELSE 0]
      /\ outputCount' = [t \in states' |-> IF t \in states THEN outputCount[t] ELSE 0]
      /\ failure' = [t \in states' |-> IF t \in states THEN failure[t] ELSE Root]
  BY DEF AddByte, Extended
<1>7. at' = at + 1 /\ at \in Nat
  BY <1>1 DEF AddByte, AhoTyped
<1>8. UNCHANGED <<patterns, next, outputLists, phase, queue, u, todo, byte, cur, text, results>>
  BY DEF AddByte, bfs, scan
<1>9. queue = <<>> /\ todo = {} /\ text = <<>> /\ results = {} /\ Walked \in states
  <2>1. Adding
    BY DEF AddByte
  <2> QED  BY <1>1, <2>1 DEF Grown, Matching
<1>10. AhoTyped'
  <2>1. states' \subseteq Word /\ Root \in states' /\ IsFiniteSet(states')
    <3>1. states \subseteq Word /\ Root \in states /\ IsFiniteSet(states)
      BY <1>1 DEF AhoTyped
    <3> QED  BY <1>5, <3>1, FS_AddElement
  <2>2. failure' \in [states' -> states'] /\ failure'[Root] = Root
    <3>1. failure \in [states -> states] /\ failure[Root] = Root /\ Root \in states
      BY <1>1 DEF AhoTyped
    <3> QED  BY <1>5, <1>6, <2>1, <3>1
  <2>3. output' \in [states' -> Nat] /\ outputCount' \in [states' -> Nat]
    <3>1. output \in [states -> Nat] /\ outputCount \in [states -> Nat]
      BY <1>1 DEF AhoTyped
    <3> QED  BY <1>6, <3>1
  <2>4. queue' \in Seq(states' \ {Root})
    BY <1>8, <1>9
  <2>5. u' \in states' /\ todo' \subseteq Sons(u)' /\ cur' \in states'
    <3>1. u \in states /\ cur \in states
      BY <1>1 DEF AhoTyped
    <3> QED  BY <1>5, <1>8, <1>9, <3>1
  <2>6. at' \in Nat /\ ~Walking' /\ phase' # "link"
    BY <1>1, <1>7 DEF Walking
  <2>7. patterns' \in RuleSets /\ next' \in 1 .. Len(patterns') + 1 /\ text' \in Word
    BY <1>1, <1>8 DEF AhoTyped
  <2>8. outputLists' \in Seq(Nat)
    BY <1>1, <1>8 DEF AhoTyped
  <2> QED  BY <1>1, <2>1, <2>2, <2>3, <2>4, <2>5, <2>6, <2>7, <2>8 DEF AhoTyped
<1>11. AhoTypeOK'
  <2>1. s \in Prefixes(p)
    BY <1>2, <1>3 DEF Prefixes
  <2>2. states' \subseteq (UNION {Prefixes(patterns'[r]) : r \in 1 .. Len(patterns')}) \cup {Root}
    <3>1. states \subseteq (UNION {Prefixes(patterns[r]) : r \in 1 .. Len(patterns)}) \cup {Root}
      BY <1>1 DEF Grown, AhoTypeOK
    <3>2. s \in UNION {Prefixes(patterns[r]) : r \in 1 .. Len(patterns)}
      BY <1>1, <1>2, <2>1
    <3> QED  BY <1>5, <1>8, <3>1, <3>2
  <2>3. Cardinality(states') <= MaxStates
    <3>1. /\ Cardinality(states) \in Nat /\ MaxStates \in Nat
          /\ Cardinality(states) <= MaxStates /\ IsFiniteSet(states)
      BY <1>1, AhoAssumption, FS_CardinalityType DEF AhoTyped, Grown, AhoTypeOK
    <3>2. CASE s \in states
      <4>1. states' = states
        BY <1>5, <3>2
      <4> QED  BY <3>1, <4>1
    <3>3. CASE s \notin states
      <4>1. Cardinality(states') = Cardinality(states) + 1
        BY <1>5, <3>1, <3>3, FS_AddElement
      <4>2. Cardinality(states) < MaxStates
        BY <1>5, <3>1, <3>3 DEF Full
      <4> QED  BY <3>1, <4>1, <4>2
    <3> QED  BY <3>2, <3>3
  <2>4. \A t \in states' : output'[t] + outputCount'[t] <= Len(outputLists')
    <3>1. Len(outputLists) \in Nat
      BY <1>1 DEF AhoTyped
    <3>2. \A t \in states : output[t] + outputCount[t] <= Len(outputLists)
      BY <1>1 DEF Grown, AhoTypeOK
    <3> QED  BY <1>6, <1>8, <3>1, <3>2
  <2> QED  BY <1>10, <2>2, <2>3, <2>4 DEF AhoTypeOK, AhoTyped
<1>12. Grown'
  <2>1. \A n \in 0 .. at : SubSeq(p, 1, n) \in states
    <3>1. at \in 0 .. Len(p) /\ Walked = SubSeq(p, 1, at)
      BY <1>2, <1>7 DEF Walked
    <3>2. Len(Walked) = at /\ \A n \in 0 .. at : SubSeq(Walked, 1, n) = SubSeq(p, 1, n)
      BY <3>1, Beginning
    <3>3. \A n \in 0 .. Len(Walked) : SubSeq(Walked, 1, n) \in states
      BY <1>1, <1>9 DEF Grown
    <3> QED  BY <3>2, <3>3
  <2>2. \A n \in 0 .. Len(s) : SubSeq(s, 1, n) \in states'
    <3>1. \A n \in 0 .. at + 1 : n \in 0 .. at \/ n = at + 1
      BY <1>7
    <3>2. SubSeq(s, 1, at + 1) = s
      BY <1>3, <1>4, <1>7
    <3> QED  BY <1>4, <1>5, <2>1, <3>1, <3>2
  <2>3. \A t \in states : \A n \in 0 .. Len(t) : SubSeq(t, 1, n) \in states
    BY <1>1 DEF Grown
  <2>4. \A t \in states' : \A n \in 0 .. Len(t) : SubSeq(t, 1, n) \in states'
    BY <1>5, <2>2, <2>3
  <2>5. at' <= Len(patterns'[next']) /\ Walked' \in states'
    <3>1. Walked' = s
      BY <1>2, <1>3, <1>7, <1>8 DEF Walked
    <3> QED  BY <1>2, <1>5, <1>7, <1>8, <3>1
  <2> QED  BY <1>8, <1>9, <1>11, <2>4, <2>5 DEF Grown, Matching
<1> QED  BY <1>1, <1>10, <1>12, QuietWhileAdding DEF LinkInv

LEMMA NextRuleKeeps ==
  ASSUME LinkInv, TooManyStates \/ EmptyPattern \/ AddRule
  PROVE  LinkInv'
<1>1. /\ AhoTyped /\ Grown /\ phase = "add" /\ phase' = "add" /\ next \in 1 .. Len(patterns)
      /\ next' = next + 1 /\ at' = 0
      /\ UNCHANGED <<patterns, states, failure, queue, u, todo, byte, cur, text, results>>
  <2>1. AhoTyped /\ Grown
    BY DEF LinkInv
  <2>2. Adding /\ NextRule
    BY DEF TooManyStates, EmptyPattern, AddRule
  <2>3. UNCHANGED <<patterns, states, failure, phase, queue, u, todo, byte, cur, text, results>>
    BY DEF TooManyStates, EmptyPattern, AddRule, trie, bfs, scan
  <2>4. next \in 1 .. Len(patterns)
    BY <2>1, <2>2, PatternTyped DEF Adding, AhoTyped
  <2> QED  BY <2>1, <2>2, <2>3, <2>4 DEF Adding, NextRule
<1>2. /\ output' \in [states -> Nat] /\ outputCount' \in [states -> Nat]
      /\ outputLists' \in Seq(Nat)
      /\ \A s \in states : output'[s] + outputCount'[s] <= Len(outputLists')
  <2>1. CASE TooManyStates \/ EmptyPattern
    BY <1>1, <2>1 DEF TooManyStates, EmptyPattern, trie, AhoTyped, Grown, AhoTypeOK
  <2>2. CASE AddRule
    <3>1. /\ Walked \in states
          /\ output \in [states -> Nat] /\ outputCount \in [states -> Nat]
          /\ outputLists \in Seq(Nat) /\ Len(outputLists) \in Nat
          /\ \A s \in states : output[s] + outputCount[s] <= Len(outputLists)
      <4>1. Walked \in states
        BY <1>1, <2>2 DEF AddRule, Grown
      <4>2. /\ output \in [states -> Nat] /\ outputCount \in [states -> Nat]
            /\ outputLists \in Seq(Nat)
        BY <1>1 DEF AhoTyped
      <4>3. \A s \in states : output[s] + outputCount[s] <= Len(outputLists)
        BY <1>1 DEF Grown, AhoTypeOK
      <4> QED  BY <4>1, <4>2, <4>3
    <3>2. outputLists' \in Seq(Nat) /\ Len(outputLists') = Len(outputLists) + 1
      BY <1>1, <2>2, <3>1, AppendProperties DEF AddRule
    <3>3. outputCount' = [outputCount EXCEPT ![Walked] = outputCount[Walked] + 1]
      BY <2>2 DEF AddRule
    <3>4. CASE outputCount[Walked] = 0
      <4>1. output' = [output EXCEPT ![Walked] = Len(outputLists)]
        BY <2>2, <3>4 DEF AddRule
      <4> QED  BY <3>1, <3>2, <3>3, <3>4, <4>1
    <3>5. CASE outputCount[Walked] # 0
      <4>1. output' = output
        BY <2>2, <3>5 DEF AddRule
      <4> QED  BY <3>1, <3>2, <3>3, <4>1
    <3> QED  BY <3>4, <3>5
  <2> QED  BY <2>1, <2>2
<1>3. AhoTyped'
  <2>1. at' \in Nat /\ next' \in 1 .. Len(patterns) + 1
    BY <1>1, PatternTyped
  <2>2. todo' \subseteq Sons(u)'
    BY <1>1 DEF AhoTyped, Sons
  <2> QED  BY <1>1, <1>2, <2>1, <2>2 DEF AhoTyped, Walking
<1>4. Grown'
  <2>1. AhoTypeOK'
    BY <1>1, <1>2 DEF Grown, AhoTypeOK
  <2>2. Adding' => at' <= Len(patterns[next])' /\ Walked' \in states'
    <3> SUFFICES ASSUME Adding' PROVE at' <= Len(patterns[next])' /\ Walked' \in states'
      OBVIOUS
    <3>1. patterns[next]' \in Word
      <4>1. next' \in 1 .. Len(patterns')
        BY <1>1, <1>3 DEF Adding, AhoTyped
      <4> QED  BY <1>1, <4>1, PatternTyped
    <3>2. Len(patterns[next]') \in Nat
      BY <3>1 DEF Word
    <3>3. Walked' = Root
      BY <1>1, <3>1 DEF Walked, Root, Word
    <3> QED  BY <1>1, <1>3, <3>2, <3>3 DEF AhoTyped
  <2> QED  BY <1>1, <2>1, <2>2 DEF Grown, Matching
<1> QED  BY <1>1, <1>3, <1>4, QuietWhileAdding DEF LinkInv

-----------------------------------------------------------------------------
(* build keeps the invariant *)

LEMMA GotoIs ==
  ASSUME AhoTyped, NEW s \in states, NEW b \in Alphabet
  PROVE  /\ Append(s, b) \in Word /\ Append(s, b) # Root /\ Len(Append(s, b)) = Len(s) + 1
         /\ Goto(s, b) \in states
         /\ Goto(s, b) = Root <=> Append(s, b) \notin states
         /\ Append(s, b) \in states => Goto(s, b) = Append(s, b)
<1>1. s \in Word /\ Root \in states
  BY DEF AhoTyped
<1>2. Append(s, b) \in Word /\ Len(Append(s, b)) = Len(s) + 1 /\ Len(s) \in Nat
  BY <1>1, SuffixAppend DEF Word
<1>3. Append(s, b) # Root
  BY <1>1, <1>2, RootSuffix
<1> QED  BY <1>1, <1>2, <1>3 DEF Goto

\* A state that is a suffix of w and b is a state that is a suffix of w, and b.
LEMMA SuffixWithout ==
  ASSUME AhoTyped, Grown, NEW t \in states, t # Root, NEW w \in Word, NEW b \in Alphabet,
         IsSuffix(t, Append(w, b))
  PROVE  \E r \in states : /\ t = Append(r, b) /\ Len(t) = Len(r) + 1
                           /\ IsSuffix(r, w)
                           /\ IsStrictSuffix(t, Append(w, b)) => IsStrictSuffix(r, w)
<1>1. t \in Word
  BY DEF AhoTyped
<1>2. PICK r \in Word, c \in Alphabet : t = Append(r, c)
  BY <1>1, SequenceEmptyOrAppend DEF Word, Root
<1>3. /\ Len(t) = Len(r) + 1 /\ b = c /\ IsSuffix(r, w)
      /\ IsStrictSuffix(t, Append(w, b)) => IsStrictSuffix(r, w)
  BY <1>2, SuffixAppend
<1>4. r \in states
  <2>1. Len(r) \in Nat
    BY DEF Word
  <2>2. Len(r) \in 0 .. Len(t)
    BY <1>3, <2>1
  <2>3. SubSeq(t, 1, Len(r)) = r
    BY <1>2, <2>1, HeadTailAppend, AppendProperties DEF Word
  <2> QED  BY <2>2, <2>3 DEF Grown
<1> QED  BY <1>2, <1>3, <1>4

\* A state that is not below anything unfinished has its link.
LEMMA LinkedSoFar ==
  ASSUME AhoTyped, Links
  PROVE  /\ \A s \in states \ {Root} : Building /\ Len(s) <= Len(u) => Linked(s)
         /\ \A s \in states \ {Root} : Matching => Linked(s)
         /\ phase = "build" /\ queue = <<>> /\ todo = {} => \A s \in states \ {Root} : Linked(s)
<1>1. \A s \in states \ {Root} : Matching => Linked(s)
  BY DEF Links
<1>2. ASSUME phase = "build", queue = <<>>, todo = {}, NEW s \in states \ {Root}
      PROVE  Linked(s)
  <2>1. ~Below(s)
    BY <1>2 DEF Below
  <2> QED  BY <1>2, <2>1 DEF Links, Building
<1>3. ASSUME NEW s \in states \ {Root}, Building, Len(s) <= Len(u)
      PROVE  Linked(s)
  <2>1. s \in Word /\ u \in Word /\ Len(s) \in Nat /\ Len(u) \in Nat
    BY DEF AhoTyped, Word
  <2>2. ~(phase = "link" /\ s = Append(u, byte))
    <3> SUFFICES ASSUME phase = "link" PROVE s # Append(u, byte)
      OBVIOUS
    <3>1. byte \in Alphabet
      BY DEF AhoTyped, Walking
    <3>2. Len(Append(u, byte)) = Len(u) + 1
      BY <2>1, <3>1, SuffixAppend
    <3> QED  BY <1>3, <2>1, <3>2
  <2>3. ASSUME NEW i \in 1 .. Len(queue), IsStrictPrefix(queue[i], s)
        PROVE  FALSE
    <3>1. queue[i] \in Word
      BY DEF AhoTyped
    <3>2. Len(queue[i]) < Len(s)
      BY <2>1, <2>3, <3>1, OneFurther
    <3>3. Len(queue[i]) \in {Len(u), Len(u) + 1}
      BY <1>3 DEF Links, BreadthFirst
    <3> QED  BY <1>3, <2>1, <3>2, <3>3
  <2>4. ASSUME NEW b \in todo, IsPrefix(Append(u, b), s)
        PROVE  FALSE
    <3>1. b \in Alphabet
      BY DEF AhoTyped, Sons
    <3>2. Len(u) + 1 <= Len(s)
      BY <2>1, <2>4, <3>1, OneFurther
    <3> QED  BY <1>3, <2>1, <3>2
  <2> QED  BY <1>3, <2>2, <2>3, <2>4 DEF Links, Below
<1> QED  BY <1>1, <1>2, <1>3

LEMMA StartBuildKeeps ==
  ASSUME LinkInv, StartBuild
  PROVE  LinkInv'
<1>1. AhoTyped /\ Grown /\ phase = "add" /\ phase' = "build" /\ u' = Root /\ todo' = Sons(Root)
  BY DEF LinkInv, StartBuild
<1>2. UNCHANGED <<patterns, next, at, states, outputLists, output, outputCount, failure, queue,
                  byte, cur, text, results>>
  BY DEF StartBuild, trie, scan
<1>3. queue = <<>> /\ todo = {} /\ text = <<>> /\ results = {}
  BY <1>1 DEF Grown, Matching
<1>4. AhoTyped'
  <2>1. todo' \subseteq Sons(u)'
    BY <1>1, <1>2 DEF Sons
  <2> QED  BY <1>1, <1>2, <2>1 DEF AhoTyped, Walking
<1>5. Grown'
  BY <1>1, <1>2, <1>3 DEF Grown, AhoTypeOK, Adding, Matching
<1>6. Links'
  <2>1. ~Matching' /\ BreadthFirst'
    BY <1>1, <1>2, <1>3 DEF BreadthFirst, Matching
  <2>2. ASSUME NEW s \in states' \ {Root}
        PROVE  Below(s)'
    <3>1. s \in Word /\ s \in states /\ Len(s) \in Nat
      BY <1>1, <1>2 DEF AhoTyped, Word
    <3>2. IsStrictPrefix(Root, s)
      BY <3>1, RootSuffix, PrefixIs DEF IsStrictPrefix
    <3>3. PICK b \in Alphabet : Append(Root, b) = SubSeq(s, 1, Len(Root) + 1)
                                /\ IsPrefix(Append(Root, b), s) /\ Len(Root) < Len(s)
      BY <3>1, <3>2, RootSuffix, OneFurther
    <3>4. Len(Root) + 1 \in 0 .. Len(s)
      BY <3>1, <3>3, RootSuffix
    <3>5. Append(Root, b) \in states
      BY <1>1, <3>1, <3>3, <3>4 DEF Grown
    <3> QED  BY <1>1, <3>3, <3>5 DEF Below, Sons
  <2> QED  BY <2>1, <2>2 DEF Links
<1>7. Walks'
  BY <1>1 DEF Walks, Walking
<1> QED  BY <1>4, <1>5, <1>6, <1>7 DEF LinkInv

LEMMA TakeSonKeeps ==
  ASSUME LinkInv, NEW b \in Alphabet, TakeSon(b)
  PROVE  LinkInv'
<1>1. /\ AhoTyped /\ Grown /\ Links /\ phase = "build" /\ b \in todo
      /\ phase' = "link" /\ todo' = todo \ {b} /\ byte' = b /\ cur' = failure[u]
  BY DEF LinkInv, TakeSon
<1>2. UNCHANGED <<patterns, next, at, states, outputLists, output, outputCount, failure, u,
                  text, results>>
  BY DEF TakeSon, trie, scan
<1>3. PICK v \in Word : v = Append(u, b) /\ v \in states /\ v # Root /\ Len(v) = Len(u) + 1
  BY <1>1, GotoIs DEF AhoTyped, Sons
<1>4. /\ u \in Word /\ Len(u) \in Nat /\ Len(queue) \in Nat
      /\ queue \in Seq(states \ {Root})
  BY <1>1 DEF AhoTyped, Word
<1>5. /\ queue' \in Seq(states \ {Root}) /\ Len(queue') = Len(queue) + 1
      /\ (\A i \in 1 .. Len(queue) : queue'[i] = queue[i])
      /\ queue'[Len(queue) + 1] = v
  <2>1. queue' = Append(queue, v)
    BY <1>3 DEF TakeSon
  <2> QED  BY <1>3, <1>4, <2>1, AppendProperties
<1>6. AhoTyped'
  <2>1. todo' \subseteq Sons(u)'
    BY <1>1, <1>2 DEF AhoTyped, Sons
  <2>2. cur' \in states' /\ byte' \in Alphabet /\ Append(u', byte') \in states'
    BY <1>1, <1>2, <1>3 DEF AhoTyped
  <2> QED  BY <1>1, <1>2, <1>5, <2>1, <2>2 DEF AhoTyped
<1>7. Grown'
  <2>1. AhoTypeOK'
    BY <1>2, <1>6, <1>1 DEF Grown, AhoTypeOK, AhoTyped
  <2> QED  BY <1>1, <1>2, <2>1 DEF Grown, Adding, Matching
<1>8. Links'
  <2>1. BreadthFirst
    BY <1>1 DEF Links, Building
  <2>2. \A i \in 1 .. Len(queue') : i \in 1 .. Len(queue) \/ i = Len(queue) + 1
    BY <1>4, <1>5
  <2>3. \A i \in 1 .. Len(queue) : Len(queue[i]) \in {Len(u), Len(u) + 1}
    BY <2>1 DEF BreadthFirst
  <2>4. \A i \in 1 .. Len(queue') : Len(queue'[i]) \in {Len(u'), Len(u') + 1}
    BY <1>2, <1>3, <1>5, <2>2, <2>3
  <2>5. ASSUME NEW i \in 1 .. Len(queue'), NEW j \in 1 .. Len(queue'), i < j
        PROVE  Len(queue'[i]) <= Len(queue'[j])
    <3>1. i \in 1 .. Len(queue)
      BY <1>4, <1>5, <2>5
    <3>2. CASE j \in 1 .. Len(queue)
      BY <1>5, <2>1, <2>5, <3>1, <3>2 DEF BreadthFirst
    <3>3. CASE j = Len(queue) + 1
      BY <1>3, <1>4, <1>5, <2>3, <3>1, <3>3
    <3> QED  BY <2>2, <3>2, <3>3
  <2>6. ASSUME NEW s \in states \ {Root}
        PROVE  Linked(s)' \/ Below(s)'
    <3>1. CASE Linked(s)
      BY <1>2, <3>1 DEF Linked
    <3>2. CASE \E i \in 1 .. Len(queue) : IsStrictPrefix(queue[i], s)
      <4>1. PICK i \in 1 .. Len(queue) : IsStrictPrefix(queue[i], s)
        BY <3>2
      <4>2. i \in 1 .. Len(queue') /\ queue'[i] = queue[i]
        BY <1>4, <1>5
      <4> QED  BY <4>1, <4>2 DEF Below
    <3>3. CASE \E c \in todo : IsPrefix(Append(u, c), s)
      <4>1. PICK c \in todo : IsPrefix(Append(u, c), s)
        BY <3>3
      <4>2. CASE c # b
        BY <1>1, <1>2, <4>1, <4>2 DEF Below
      <4>3. CASE c = b /\ s # v
        <5>1. IsStrictPrefix(v, s)
          BY <1>3, <4>1, <4>3 DEF IsStrictPrefix
        <5>2. Len(queue) + 1 \in 1 .. Len(queue')
          BY <1>4, <1>5
        <5> QED  BY <1>5, <5>1, <5>2 DEF Below
      <4>4. CASE s = v
        BY <1>1, <1>2, <1>3, <4>4 DEF Below
      <4> QED  BY <4>2, <4>3, <4>4
    <3>4. Linked(s) \/ Below(s)
      BY <1>1 DEF Links, Building
    <3> QED  BY <1>1, <3>1, <3>2, <3>3, <3>4 DEF Below
  <2>7. BreadthFirst'
    BY <2>4, <2>5 DEF BreadthFirst
  <2>8. ~Matching'
    BY <1>1 DEF Matching
  <2> QED  BY <1>2, <2>6, <2>7, <2>8 DEF Links
<1>9. Walks'
  <2>1. /\ Tails' = {t \in states : IsStrictSuffix(t, u)}
        /\ phase' # "match"
    BY <1>1, <1>2 DEF Tails
  <2>2. CASE u = Root
    <3>1. \A t \in states : ~IsStrictSuffix(t, u)
      <4> SUFFICES ASSUME NEW t \in states PROVE ~IsStrictSuffix(t, u)
        OBVIOUS
      <4>1. t \in Word /\ Len(t) \in Nat
        BY <1>1 DEF AhoTyped, Word
      <4> QED  BY <1>4, <2>2, <4>1, RootSuffix, SuffixOfSuffix
    <3>2. cur' = Root /\ Tails' = {}
      BY <1>1, <2>1, <2>2, <3>1 DEF AhoTyped
    <3> QED  BY <2>1, <3>2 DEF Walks
  <2>3. CASE u # Root
    <3>1. Linked(u)
      BY <1>1, <1>4, <2>3, LinkedSoFar DEF AhoTyped, Building
    <3>2. cur' \in Tails' /\ \A t \in Tails' : Len(t) <= Len(cur')
      BY <1>1, <2>1, <3>1 DEF Linked, AhoTyped
    <3> QED  BY <2>1, <3>2 DEF Walks
  <2> QED  BY <2>2, <2>3
<1> QED  BY <1>6, <1>7, <1>8, <1>9 DEF LinkInv

LEMMA FollowKeeps ==
  ASSUME LinkInv, Follow
  PROVE  LinkInv'
<1>1. /\ AhoTyped /\ Grown /\ Links /\ Walks /\ Walking /\ cur # Root
      /\ phase \in {"link", "advance"} /\ cur' = failure[cur]
  BY DEF LinkInv, Follow, Unknown, Walking
<1>2. UNCHANGED <<patterns, next, at, states, outputLists, output, outputCount, failure, phase,
                  queue, u, todo, byte, text, results>>
  BY DEF Follow, trie, bfs, scan
<1>3. /\ cur \in Word /\ u \in Word /\ text \in Word /\ states \subseteq Word
      /\ failure[cur] \in states /\ cur \in states /\ byte \in Alphabet
  BY <1>1 DEF AhoTyped
<1>4. Append(cur, byte) \notin states
  BY <1>1, <1>3, GotoIs DEF Follow, Unknown
<1>5. AhoTyped'
  BY <1>1, <1>2, <1>3 DEF AhoTyped, Walking, Sons
<1>6. Grown'
  <2>1. AhoTypeOK'
    BY <1>2, <1>5, <1>1 DEF Grown, AhoTypeOK, AhoTyped
  <2> QED  BY <1>1, <1>2, <2>1 DEF Grown, Adding, Walked, Matching
<1>7. Links'
  BY <1>1, <1>2 DEF Links, Building, Matching, BreadthFirst, Linked, Below
<1>8. PICK w \in Word :
        /\ \A t \in Tails : t \in states /\ IsSuffix(t, w)
        /\ \A t \in states : \A r \in Tails : IsStrictSuffix(t, r) => t \in Tails
  <2>1. CASE phase = "link"
    <3>1. Tails = {t \in states : IsStrictSuffix(t, u)}
      BY <2>1 DEF Tails
    <3>2. \A t \in Tails : t \in states /\ IsSuffix(t, u)
      BY <3>1 DEF IsStrictSuffix
    <3>3. ASSUME NEW t \in states, NEW r \in Tails, IsStrictSuffix(t, r)
          PROVE  t \in Tails
      <4>1. t \in Word /\ r \in Word /\ Len(t) \in Nat /\ Len(r) \in Nat /\ Len(u) \in Nat
        BY <1>3, <3>2 DEF Word
      <4>2. Len(t) < Len(r) /\ Len(r) < Len(u)
        BY <1>3, <3>1, <3>3, <4>1, SuffixOfSuffix
      <4>3. IsSuffix(t, u)
        BY <1>3, <3>2, <3>3, <4>1, SuffixOfSuffix DEF IsStrictSuffix
      <4>4. t # u
        BY <4>1, <4>2
      <4> QED  BY <3>1, <4>3, <4>4 DEF IsStrictSuffix
    <3> QED  BY <1>3, <3>2, <3>3
  <2>2. CASE phase = "advance"
    <3>1. Tails = {t \in states : IsSuffix(t, text)}
      BY <2>2 DEF Tails
    <3>2. ASSUME NEW t \in states, NEW r \in Tails, IsStrictSuffix(t, r)
          PROVE  t \in Tails
      <4>1. t \in Word /\ r \in Word
        BY <1>3, <3>1
      <4> QED  BY <1>3, <3>1, <3>2, <4>1, SuffixOfSuffix DEF IsStrictSuffix
    <3> QED  BY <1>3, <3>1, <3>2
  <2> QED  BY <1>1, <2>1, <2>2
<1>9. cur \in Tails /\ \A t \in Tails : Append(t, byte) \in states => Len(t) <= Len(cur)
  BY <1>1 DEF Walks
<1>10. Linked(cur)
  <2>1. CASE phase = "link"
    <3>1. IsStrictSuffix(cur, u)
      BY <1>9, <2>1 DEF Tails
    <3>2. Len(cur) < Len(u) /\ Len(cur) \in Nat /\ Len(u) \in Nat
      BY <1>3, <3>1, SuffixOfSuffix DEF Word
    <3> QED  BY <1>1, <1>3, <2>1, <3>2, LinkedSoFar DEF Building
  <2>2. CASE phase = "advance"
    BY <1>1, <1>3, <2>2, LinkedSoFar DEF Matching
  <2> QED  BY <1>1, <2>1, <2>2
<1>11. Walks'
  <2>1. Tails' = Tails /\ cur' \in Tails
    <3>1. cur' \in Tails
      BY <1>1, <1>3, <1>8, <1>9, <1>10 DEF Linked
    <3> QED  BY <1>2, <3>1 DEF Tails
  <2>2. ASSUME NEW t \in Tails, Append(t, byte) \in states
        PROVE  Len(t) <= Len(cur')
    <3>1. t # cur /\ t \in states /\ t \in Word /\ Len(t) <= Len(cur)
      BY <1>3, <1>4, <1>8, <1>9, <2>2
    <3>2. IsSuffix(t, cur)
      BY <1>3, <1>8, <1>9, <3>1, SuffixOfSuffix
    <3>3. IsStrictSuffix(t, cur)
      BY <3>1, <3>2 DEF IsStrictSuffix
    <3> QED  BY <1>1, <1>10, <3>1, <3>3 DEF Linked
  <2> QED  BY <1>1, <1>2, <2>1, <2>2 DEF Walks
<1> QED  BY <1>5, <1>6, <1>7, <1>11 DEF LinkInv

LEMMA SetLinkKeeps ==
  ASSUME LinkInv, SetLink
  PROVE  LinkInv'
<1>1. /\ AhoTyped /\ Grown /\ Links /\ Walks /\ phase = "link" /\ Walking /\ phase' = "build"
      /\ byte \in Alphabet
  BY DEF LinkInv, SetLink, Walking, AhoTyped
<1>2. UNCHANGED <<patterns, next, at, states, outputLists, output, outputCount, queue, u, todo,
                  byte, cur, text, results>>
  BY DEF SetLink, trie, bfs, scan
<1>3. /\ cur \in Word /\ u \in Word /\ states \subseteq Word
      /\ cur \in states /\ u \in states /\ Root \in states /\ byte \in Alphabet
      /\ failure \in [states -> states]
  BY <1>1 DEF AhoTyped
<1>4. PICK v \in Word : v = Append(u, byte) /\ v \in states /\ v # Root /\ Len(v) = Len(u) + 1
  BY <1>1, <1>3, GotoIs DEF AhoTyped
<1>5. PICK g \in states : g = IF Goto(cur, byte) = v THEN Root ELSE Goto(cur, byte)
  BY <1>1, <1>3, GotoIs
<1>6. failure' = [failure EXCEPT ![v] = g]
  BY <1>4, <1>5 DEF SetLink
<1>7. AhoTyped'
  <2>1. failure' \in [states -> states] /\ failure'[Root] = Root
    BY <1>1, <1>3, <1>4, <1>5, <1>6 DEF AhoTyped
  <2> QED  BY <1>1, <1>2, <2>1 DEF AhoTyped, Walking, Sons
<1>8. Grown'
  <2>1. AhoTypeOK'
    BY <1>2, <1>7, <1>1 DEF Grown, AhoTypeOK, AhoTyped
  <2> QED  BY <1>1, <1>2, <2>1 DEF Grown, Adding, Matching
<1>9. Tails = {t \in states : IsStrictSuffix(t, u)}
  BY <1>1 DEF Tails
<1>10. \A t \in Tails : Append(t, byte) \in states => Len(t) <= Len(cur)
  BY <1>1 DEF Walks
<1>11. ASSUME NEW t \in states, IsStrictSuffix(t, v), t # Root
       PROVE  \E r \in Tails : t = Append(r, byte) /\ Len(t) = Len(r) + 1 /\ Len(r) <= Len(cur)
  <2>1. IsSuffix(t, Append(u, byte)) /\ IsStrictSuffix(t, Append(u, byte))
    BY <1>4, <1>11 DEF IsStrictSuffix
  <2>2. PICK r \in states : t = Append(r, byte) /\ Len(t) = Len(r) + 1 /\ IsStrictSuffix(r, u)
    BY <1>1, <1>3, <1>11, <2>1, SuffixWithout
  <2> QED  BY <1>9, <1>10, <1>11, <2>2
<1>12. IsStrictSuffix(Root, v) /\ Len(Root) = 0
  BY <1>4, RootSuffix DEF IsStrictSuffix
<1>13. IsStrictSuffix(g, v) /\ \A t \in states : IsStrictSuffix(t, v) => Len(t) <= Len(g)
  <2>1. Len(cur) \in Nat /\ \A t \in states : Len(t) \in Nat
    BY <1>3 DEF Word
  <2>2. CASE Append(cur, byte) \in states /\ cur \in Tails
    <3>1. IsStrictSuffix(Append(cur, byte), v) /\ Len(Append(cur, byte)) = Len(cur) + 1
      BY <1>3, <1>4, <1>9, <2>2, SuffixAppend
    <3>2. g = Append(cur, byte)
      BY <1>1, <1>3, <1>5, <2>2, <3>1, GotoIs DEF IsStrictSuffix
    <3>3. ASSUME NEW t \in states, IsStrictSuffix(t, v)
          PROVE  Len(t) <= Len(g)
      <4>1. CASE t = Root
        BY <1>12, <2>1, <4>1
      <4>2. CASE t # Root
        <5>1. PICK r \in Tails : Len(t) = Len(r) + 1 /\ Len(r) <= Len(cur)
          BY <1>11, <3>3, <4>2
        <5>2. r \in states
          BY <1>9
        <5> QED  BY <2>1, <3>1, <3>2, <5>1, <5>2
      <4> QED  BY <4>1, <4>2
    <3> QED  BY <3>1, <3>2, <3>3
  <2>3. CASE cur = Root /\ (Append(cur, byte) \notin states \/ cur \notin Tails)
    <3>1. g = Root
      <4>1. CASE Append(cur, byte) \notin states
        BY <1>1, <1>3, <1>5, <4>1, GotoIs
      <4>2. CASE Append(cur, byte) \in states /\ cur \notin Tails
        <5>1. u = Root
          BY <1>3, <1>9, <2>3, <4>2, RootSuffix DEF IsStrictSuffix
        <5>2. Goto(cur, byte) = v
          BY <1>1, <1>3, <1>4, <2>3, <4>2, <5>1, GotoIs
        <5> QED  BY <1>5, <5>2
      <4> QED  BY <2>3, <4>1, <4>2
    <3>2. ASSUME NEW t \in states, IsStrictSuffix(t, v), t # Root
          PROVE  FALSE
      <4>1. PICK r \in Tails : t = Append(r, byte) /\ Len(r) <= Len(cur)
        BY <1>11, <3>2
      <4>2. r \in states /\ IsStrictSuffix(r, u) /\ r \in Word
        BY <1>3, <1>9
      <4>3. r = Root
        BY <1>3, <1>12, <2>1, <2>3, <4>1, <4>2, EmptySeq, RootSuffix, SuffixOfSuffix
      <4> QED  BY <2>3, <3>2, <4>1, <4>2, <4>3, <1>9
    <3> QED  BY <1>12, <2>1, <3>1, <3>2
  <2>4. cur = Root \/ cur \in Tails
    BY <1>1 DEF Walks
  <2>5. cur # Root => Append(cur, byte) \in states
    BY <1>1, <1>3, GotoIs DEF SetLink, Unknown
  <2> QED  BY <2>2, <2>3, <2>4, <2>5
<1>14. Links'
  <2>1. BreadthFirst' /\ ~Matching'
    BY <1>1, <1>2 DEF Links, Building, BreadthFirst, Matching
  <2>2. ASSUME NEW s \in states \ {Root}
        PROVE  Linked(s)' \/ Below(s)'
    <3>1. CASE s = v
      <4>1. failure'[s] = g
        BY <1>3, <1>4, <1>6, <3>1
      <4> QED  BY <1>2, <1>13, <3>1, <4>1 DEF Linked
    <3>2. CASE s # v
      <4>1. failure'[s] = failure[s]
        BY <1>3, <1>4, <1>6, <3>2
      <4>2. Linked(s) \/ Below(s)
        BY <1>1 DEF Links, Building
      <4>3. Linked(s) => Linked(s)'
        BY <1>2, <4>1 DEF Linked
      <4>4. Below(s) => Below(s)'
        BY <1>1, <1>2, <1>4, <3>2 DEF Below
      <4> QED  BY <4>2, <4>3, <4>4
    <3> QED  BY <3>1, <3>2
  <2> QED  BY <1>2, <2>1, <2>2 DEF Links
<1>15. Walks'
  BY <1>1 DEF Walks, Walking
<1> QED  BY <1>7, <1>8, <1>14, <1>15 DEF LinkInv

LEMMA TakeStateKeeps ==
  ASSUME LinkInv, TakeState
  PROVE  LinkInv'
<1>1. /\ AhoTyped /\ Grown /\ Links /\ phase = "build" /\ phase' = "build"
      /\ todo = {} /\ queue # <<>> /\ todo' = Sons(u')
  BY DEF LinkInv, TakeState
<1>2. UNCHANGED <<patterns, next, at, states, outputLists, output, outputCount, failure,
                  byte, cur, text, results>>
  BY DEF TakeState, trie, scan
<1>3. queue \in Seq(states \ {Root}) /\ Len(queue) \in Nat \ {0}
  <2>1. queue \in Seq(states \ {Root})
    BY <1>1 DEF AhoTyped
  <2> QED  BY <1>1, <2>1, EmptySeq
<1>4. /\ u' = queue[1] /\ u' \in states
      /\ queue' \in Seq(states \ {Root}) /\ Len(queue') = Len(queue) - 1
      /\ \A i \in 1 .. Len(queue) - 1 : queue'[i] = queue[i + 1]
  BY <1>1, <1>3 DEF TakeState
<1>5. AhoTyped'
  <2>1. todo' \subseteq Sons(u)'
    BY <1>1, <1>2 DEF Sons
  <2> QED  BY <1>1, <1>2, <1>4, <2>1 DEF AhoTyped, Walking
<1>6. Grown'
  <2>1. AhoTypeOK'
    BY <1>2, <1>5, <1>1 DEF Grown, AhoTypeOK, AhoTyped
  <2> QED  BY <1>1, <1>2, <2>1 DEF Grown, Adding, Matching
<1>7. BreadthFirst'
  <2>1. /\ \A i, j \in 1 .. Len(queue) : i < j => Len(queue[i]) <= Len(queue[j])
        /\ \A i \in 1 .. Len(queue) : Len(queue[i]) \in {Len(u), Len(u) + 1}
        /\ Len(u) \in Nat
    BY <1>1 DEF Links, Building, BreadthFirst, AhoTyped, Word
  <2>2. \A i \in 1 .. Len(queue') : /\ i \in 1 .. Len(queue) - 1
                                    /\ i + 1 \in 1 .. Len(queue) /\ 1 < i + 1
    BY <1>3, <1>4
  <2>3. 1 \in 1 .. Len(queue)
    BY <1>3
  <2>4. ASSUME NEW i \in 1 .. Len(queue'), NEW j \in 1 .. Len(queue'), i < j
        PROVE  Len(queue'[i]) <= Len(queue'[j])
    <3>1. queue'[i] = queue[i + 1] /\ queue'[j] = queue[j + 1]
      BY <1>4, <2>2
    <3>2. i + 1 \in 1 .. Len(queue) /\ j + 1 \in 1 .. Len(queue) /\ i + 1 < j + 1
      BY <2>2, <2>4
    <3> QED  BY <2>1, <3>1, <3>2
  <2>5. ASSUME NEW i \in 1 .. Len(queue')
        PROVE  Len(queue'[i]) \in {Len(u'), Len(u') + 1}
    <3>1. queue'[i] = queue[i + 1] /\ u' = queue[1]
      BY <1>4, <2>2
    <3>2. /\ Len(queue[1]) <= Len(queue[i + 1])
          /\ Len(queue[1]) \in {Len(u), Len(u) + 1}
          /\ Len(queue[i + 1]) \in {Len(u), Len(u) + 1}
      BY <2>1, <2>2, <2>3
    <3> QED  BY <2>1, <3>1, <3>2
  <2> QED  BY <2>4, <2>5 DEF BreadthFirst
<1>8. ASSUME NEW s \in states \ {Root}
      PROVE  Linked(s)' \/ Below(s)'
  <2>1. CASE Linked(s)
    BY <1>2, <2>1 DEF Linked
  <2>2. CASE Below(s)
    <3>1. PICK i \in 1 .. Len(queue) : IsStrictPrefix(queue[i], s)
      BY <1>1, <2>2 DEF Below
    <3>2. CASE i # 1
      <4>1. i - 1 \in 1 .. Len(queue') /\ i - 1 \in 1 .. Len(queue) - 1 /\ (i - 1) + 1 = i
        BY <1>3, <1>4, <3>2
      <4>2. queue'[i - 1] = queue[i]
        BY <1>4, <4>1
      <4> QED  BY <3>1, <4>1, <4>2 DEF Below
    <3>3. CASE i = 1
      <4>1. u' \in Word /\ s \in Word /\ IsStrictPrefix(u', s)
        BY <1>1, <1>4, <3>1, <3>3 DEF AhoTyped
      <4>2. PICK b \in Alphabet : /\ Append(u', b) = SubSeq(s, 1, Len(u') + 1)
                                  /\ IsPrefix(Append(u', b), s)
                                  /\ Len(u') < Len(s)
        BY <4>1, OneFurther
      <4>3. Len(u') + 1 \in 0 .. Len(s)
        BY <4>1, <4>2 DEF Word
      <4>4. b \in todo'
        BY <1>1, <4>2, <4>3 DEF Grown, Sons
      <4> QED  BY <4>2, <4>4 DEF Below
    <3> QED  BY <3>2, <3>3
  <2> QED  BY <1>1, <2>1, <2>2 DEF Links, Building
<1>9. Links' /\ Walks'
  BY <1>1, <1>2, <1>7, <1>8 DEF Links, Walks, Walking, Matching
<1> QED  BY <1>5, <1>6, <1>9 DEF LinkInv

LEMMA EndBuildKeeps ==
  ASSUME LinkInv, EndBuild
  PROVE  LinkInv'
<1>1. /\ AhoTyped /\ Grown /\ Links /\ phase = "build" /\ phase' = "match"
      /\ todo = {} /\ queue = <<>> /\ u' = Root /\ cur' = Root
  BY DEF LinkInv, EndBuild
<1>2. UNCHANGED <<patterns, next, at, states, outputLists, output, outputCount, failure,
                  queue, todo, text, results>>
  BY DEF EndBuild, trie, scan
<1>3. AhoTyped'
  <2>1. todo' \subseteq Sons(u)'
    BY <1>1, <1>2
  <2> QED  BY <1>1, <1>2, <2>1 DEF AhoTyped, Walking
<1>4. Grown'
  <2>1. AhoTypeOK'
    BY <1>2, <1>3, <1>1 DEF Grown, AhoTypeOK, AhoTyped
  <2> QED  BY <1>1, <1>2, <2>1 DEF Grown, Adding, Matching
<1>5. Links'
  <2>1. \A s \in states \ {Root} : Linked(s)
    BY <1>1, LinkedSoFar
  <2>2. \A s \in states \ {Root} : Linked(s)'
    BY <1>2, <2>1 DEF Linked
  <2> QED  BY <1>1, <1>2, <2>2 DEF Links, Building
<1>6. Walks'
  <2>1. Tails' = {t \in states : IsSuffix(t, Root)}
    BY <1>1, <1>2 DEF Tails, Grown, Matching, Root
  <2>2. cur' \in Tails'
    BY <1>1, <2>1, RootSuffix DEF AhoTyped
  <2>3. \A t \in Tails' : Len(t) <= Len(cur')
    BY <1>1, <2>1, RootSuffix, SuffixIs DEF AhoTyped
  <2> QED  BY <1>1, <2>2, <2>3 DEF Walks, Walking
<1> QED  BY <1>3, <1>4, <1>5, <1>6 DEF LinkInv

-----------------------------------------------------------------------------
(* match keeps the invariant *)

LEMMA ReadByteKeeps ==
  ASSUME LinkInv, NEW b \in Alphabet, ReadByte(b)
  PROVE  LinkInv'
<1>1. /\ AhoTyped /\ Grown /\ Links /\ Walks /\ phase = "match" /\ phase' = "advance" /\ byte' = b
  BY DEF LinkInv, ReadByte
<1>2. UNCHANGED <<patterns, next, at, states, outputLists, output, outputCount, failure,
                  queue, u, todo, cur, text, results>>
  BY DEF ReadByte, trie, bfs, scan
<1>3. AhoTyped'
  <2>1. todo' \subseteq Sons(u)'
    BY <1>1, <1>2 DEF AhoTyped, Sons
  <2> QED  BY <1>1, <1>2, <2>1 DEF AhoTyped
<1>4. Grown'
  <2>1. AhoTypeOK'
    BY <1>2, <1>3, <1>1 DEF Grown, AhoTypeOK, AhoTyped
  <2> QED  BY <1>1, <1>2, <2>1 DEF Grown, Adding, Matching
<1>5. Links'
  <2>1. \A s \in states \ {Root} : Linked(s)
    BY <1>1 DEF Links, Matching
  <2>2. \A s \in states \ {Root} : Linked(s)'
    BY <1>2, <2>1 DEF Linked
  <2> QED  BY <1>1, <1>2, <2>2 DEF Links, Building
<1>6. Walks'
  <2>1. Tails' = Tails
    BY <1>1, <1>2 DEF Tails
  <2> QED  BY <1>1, <1>2, <2>1 DEF Walks
<1> QED  BY <1>3, <1>4, <1>5, <1>6 DEF LinkInv

LEMMA AdvanceKeeps ==
  ASSUME LinkInv, Advance
  PROVE  LinkInv'
<1>1. /\ AhoTyped /\ Grown /\ Links /\ Walks /\ phase = "advance" /\ phase' = "match" /\ Walking
      /\ text' = Append(text, byte) /\ cur' = Goto(cur, byte)
  BY DEF LinkInv, Advance, Report, Walking
<1>2. UNCHANGED <<patterns, next, at, states, outputLists, output, outputCount, failure,
                  queue, u, todo, byte>>
  BY DEF Advance, trie, bfs
<1>3. /\ states \subseteq Word /\ cur \in states /\ Root \in states /\ byte \in Alphabet
      /\ text \in Word /\ cur \in Word
  BY <1>1 DEF AhoTyped
<1>4. text' \in Word /\ cur' \in states
  BY <1>1, <1>3, GotoIs, SuffixAppend
<1>5. AhoTyped'
  <2>1. todo' \subseteq Sons(u)'
    BY <1>1, <1>2 DEF AhoTyped, Sons
  <2> QED  BY <1>1, <1>2, <1>4, <2>1 DEF AhoTyped, Walking
<1>6. Grown'
  <2>1. AhoTypeOK'
    BY <1>2, <1>5, <1>1 DEF Grown, AhoTypeOK, AhoTyped
  <2> QED  BY <1>1, <1>2, <2>1 DEF Grown, Adding, Matching
<1>7. Links'
  <2>1. \A s \in states \ {Root} : Linked(s)
    BY <1>1 DEF Links, Matching
  <2>2. \A s \in states \ {Root} : Linked(s)'
    BY <1>2, <2>1 DEF Linked
  <2> QED  BY <1>1, <1>2, <2>2 DEF Links, Building
<1>8. Walks'
  <2>1. /\ Tails = {t \in states : IsSuffix(t, text)}
        /\ Tails' = {t \in states : IsSuffix(t, text')}
    BY <1>1, <1>2 DEF Tails
  <2>2. cur \in Tails /\ Root \in Tails
    BY <1>1, <1>3, <2>1, RootSuffix DEF Walks
  <2>3. \A t \in Tails : Append(t, byte) \in states => Len(t) <= Len(cur)
    BY <1>1 DEF Walks
  <2>4. ASSUME NEW t \in Tails', t # Root
        PROVE  \E r \in states : /\ t = Append(r, byte) /\ Len(t) = Len(r) + 1
                                 /\ r \in Word /\ Len(r) <= Len(cur)
    <3>1. t \in states /\ IsSuffix(t, Append(text, byte))
      BY <1>1, <2>1
    <3>2. PICK r \in states : t = Append(r, byte) /\ Len(t) = Len(r) + 1 /\ IsSuffix(r, text)
      BY <1>1, <1>3, <2>4, <3>1, SuffixWithout
    <3> QED  BY <1>3, <2>1, <2>3, <3>1, <3>2
  <2>5. Len(cur) \in Nat /\ Len(Root) = 0
    BY <1>3, RootSuffix DEF Word
  <2>6. CASE Append(cur, byte) \in states
    <3>1. cur' = Append(cur, byte) /\ Len(cur') = Len(cur) + 1
      BY <1>1, <1>3, <2>6, GotoIs
    <3>2. cur' \in Tails'
      BY <1>1, <1>3, <2>1, <2>2, <2>6, <3>1, SuffixAppend
    <3>3. ASSUME NEW t \in Tails'
          PROVE  Len(t) <= Len(cur')
      BY <2>4, <2>5, <3>1
    <3> QED  BY <1>1, <3>2, <3>3 DEF Walks, Walking
  <2>7. CASE Append(cur, byte) \notin states
    <3>1. cur = Root /\ cur' = Root
      BY <1>1, <1>3, <2>7, GotoIs DEF Advance, Unknown
    <3>2. cur' \in Tails'
      BY <1>3, <1>4, <2>1, <3>1, RootSuffix
    <3>3. ASSUME NEW t \in Tails', t # Root
          PROVE  FALSE
      <4>1. PICK r \in states : t = Append(r, byte) /\ r \in Word /\ Len(r) <= Len(cur)
        BY <2>4, <3>3
      <4>2. Len(r) = 0
        BY <2>5, <3>1, <4>1 DEF Word
      <4>3. r = Root
        BY <4>1, <4>2, EmptySeq DEF Word, Root
      <4> QED  BY <2>1, <2>7, <3>1, <4>1, <4>3
    <3>4. \A t \in Tails' : Len(t) <= Len(cur')
      BY <2>5, <3>1, <3>3
    <3> QED  BY <1>1, <3>2, <3>4 DEF Walks, Walking
  <2> QED  BY <2>6, <2>7
<1> QED  BY <1>5, <1>6, <1>7, <1>8 DEF LinkInv

-----------------------------------------------------------------------------
(* The automaton is well formed *)

LEMMA AhoStarts == AhoInit => LinkInv
<1> SUFFICES ASSUME AhoInit PROVE LinkInv
  OBVIOUS
<1>1. /\ patterns \in RuleSets /\ next = 1 /\ at = 0 /\ states = {Root} /\ outputLists = <<>>
      /\ output = [s \in {Root} |-> 0] /\ outputCount = [s \in {Root} |-> 0]
      /\ failure = [s \in {Root} |-> Root] /\ phase = "add" /\ queue = <<>> /\ u = Root
      /\ todo = {} /\ cur = Root /\ text = <<>> /\ results = {}
  BY DEF AhoInit
<1>2. patterns \in Seq(Word) /\ Len(patterns) \in Nat
  BY <1>1, AhoAssumption DEF Word
<1>3. Root \in Word /\ Len(Root) = 0 /\ SubSeq(Root, 1, 0) = Root
  <2>1. Root \in Word /\ Len(Root) = 0
    BY DEF Root, Word
  <2>2. SubSeq(Root, 1, 0) = Root
    BY DEF Root
  <2> QED  BY <2>1, <2>2
<1>4. IsFiniteSet(states) /\ Cardinality(states) = 1
  BY <1>1, FS_Singleton
<1>5. AhoTyped
  <2>1. next \in 1 .. Len(patterns) + 1 /\ text \in Word /\ queue \in Seq(states \ {Root})
    BY <1>1, <1>2 DEF Word
  <2> QED  BY <1>1, <1>3, <1>4, <2>1 DEF AhoTyped, Walking
<1>6. Grown
  <2>1. Adding => at <= Len(patterns[next]) /\ Walked \in states
    <3> SUFFICES ASSUME Adding PROVE at <= Len(patterns[next]) /\ Walked \in states
      OBVIOUS
    <3>1. PICK p \in Word : p = patterns[next] /\ Len(p) \in Nat
      BY <1>1, <1>2 DEF Adding, Word
    <3>2. SubSeq(p, 1, 0) = Root
      BY <3>1, Beginning, EmptySeq DEF Word, Root
    <3> QED  BY <1>1, <3>1, <3>2 DEF Walked
  <2>2. AhoTypeOK
    <3>1. 1 <= MaxStates
      BY AhoAssumption
    <3>2. \A s \in states : output[s] + outputCount[s] <= Len(outputLists)
      BY <1>1
    <3>3. Cardinality(states) <= MaxStates
      BY <1>4, <3>1
    <3>4. failure \in [states -> states] /\ cur \in states
      BY <1>1
    <3>5. states \subseteq (UNION {Prefixes(patterns[r]) : r \in 1 .. Len(patterns)}) \cup {Root}
      BY <1>1
    <3> QED  BY <3>2, <3>3, <3>4, <3>5 DEF AhoTypeOK
  <2>3. \A s \in states : \A n \in 0 .. Len(s) : SubSeq(s, 1, n) \in states
    BY <1>1, <1>3
  <2> QED  BY <1>1, <2>1, <2>2, <2>3 DEF Grown
<1>7. Links /\ Walks
  BY <1>1 DEF Links, Walks, Building, Matching, Walking
<1> QED  BY <1>5, <1>6, <1>7 DEF LinkInv

LEMMA AhoKeeps == LinkInv /\ [AhoNext]_ahoVars => LinkInv'
<1> SUFFICES ASSUME LinkInv, [AhoNext]_ahoVars PROVE LinkInv'
  OBVIOUS
<1>1. CASE UNCHANGED ahoVars
  BY <1>1 DEF ahoVars, trie, bfs, scan, LinkInv, AhoTyped, Grown, Links, Walks, AhoTypeOK, Building,
     Matching, Walking, Adding, Walked, Sons, BreadthFirst, Linked, Below, Tails
<1>2. CASE AhoNext
  BY <1>2, AddByteKeeps, NextRuleKeeps, StartBuildKeeps, TakeStateKeeps, FollowKeeps, SetLinkKeeps,
     EndBuildKeeps, TakeSonKeeps, ReadByteKeeps, AdvanceKeeps DEF AhoNext
<1> QED  BY <1>1, <1>2

(* The invariant holds (AhoCorasick, LinkInv). *)
THEOREM AhoInvariance == AhoSpec => []LinkInv
BY AhoStarts, AhoKeeps, PTL DEF AhoSpec

LEMMA LinkInvImplies == LinkInv => LinksAreLongest
<1> SUFFICES ASSUME LinkInv PROVE LinksAreLongest
  OBVIOUS
<1>1. AhoTyped /\ AhoTypeOK /\ Links /\ Walks /\ states \subseteq Word /\ text \in Word
  BY DEF LinkInv, Grown, AhoTyped
<1>2. FailureIsLongestSuffix
  <2> SUFFICES ASSUME Matching, NEW s \in states \ {Root}
               PROVE  failure[s] = Longest({t \in states : IsStrictSuffix(t, s)})
    BY DEF FailureIsLongestSuffix, Matching
  <2>1. Linked(s) /\ failure[s] \in states /\ s \in Word
    BY <1>1 DEF Links, AhoTyped
  <2> DEFINE S == {t \in states : IsStrictSuffix(t, s)}
  <2>2. /\ S \subseteq Word /\ (\A t \in S : IsSuffix(t, s))
        /\ failure[s] \in S /\ \A t \in S : Len(t) <= Len(failure[s])
    BY <1>1, <2>1 DEF Linked, IsStrictSuffix
  <2> HIDE DEF S
  <2>3. failure[s] = Longest(S)
    BY <2>1, <2>2, LongestIs
  <2> QED  BY <2>3 DEF S
<1>3. CurrentIsLongestSuffix
  <2> SUFFICES ASSUME phase = "match"
               PROVE  cur = Longest({t \in states : IsSuffix(t, text)})
    BY DEF CurrentIsLongestSuffix
  <2>1. /\ Tails = {t \in states : IsSuffix(t, text)}
        /\ cur \in Tails /\ \A t \in Tails : Len(t) <= Len(cur)
    BY <1>1 DEF Tails, Walks
  <2>2. Tails \subseteq Word /\ \A t \in Tails : IsSuffix(t, text)
    BY <1>1, <2>1
  <2>3. cur = Longest(Tails)
    BY <1>1, <2>1, <2>2, LongestIs
  <2> QED  BY <2>1, <2>3
<1> QED  BY <1>1, <1>2, <1>3 DEF LinksAreLongest

(* build sets each failure link to the longest suffix, for any rules and however
   many of them fit, and match is in the state for the longest suffix of what it
   has read (LinksAreLongest). *)
THEOREM LinksLongest == AhoSpec => []LinksAreLongest
BY AhoInvariance, LinkInvImplies, PTL

-----------------------------------------------------------------------------
(* While no two rules have one pattern, a state has the rule of its pattern *)

\* A state's output entries are the one rule of its pattern, or none.
LEMMA EmittedIs ==
  ASSUME AhoTyped, Outputs, NEW s \in states
  PROVE  /\ outputCount[s] = 0 => Emitted(s) = {}
         /\ outputCount[s] # 0 =>
              \E r \in 1 .. next - 1 : Emitted(s) = {r} /\ patterns[r] = s /\ s # Root
<1>1. outputCount[s] \in Nat /\ output[s] \in Nat
  BY DEF AhoTyped
<1>2. CASE outputCount[s] = 0
  <2>1. 0 .. (outputCount[s] - 1) = {}
    BY <1>2
  <2> QED  BY <1>2, <2>1 DEF Emitted
<1>3. CASE outputCount[s] # 0
  <2>1. /\ outputCount[s] = 1 /\ outputLists[output[s] + 1] \in 1 .. next - 1
        /\ patterns[outputLists[output[s] + 1]] = s /\ s # Root
    BY <1>3 DEF Outputs
  <2>2. PICK r \in 1 .. next - 1 : r = outputLists[output[s] + 1] /\ patterns[r] = s
    BY <2>1
  <2>3. 0 .. (outputCount[s] - 1) = {0} /\ output[s] + 0 + 1 = output[s] + 1
    BY <1>1, <2>1
  <2>4. Emitted(s) = {r}
    BY <2>2, <2>3 DEF Emitted
  <2> QED  BY <1>3, <2>1, <2>2, <2>4
<1> QED  BY <1>2, <1>3

LEMMA OutputsStay ==
  ASSUME AhoTyped, Outputs, phase' # "add" => next = Len(patterns) + 1,
         UNCHANGED <<patterns, next, states, outputLists, output, outputCount>>
  PROVE  Outputs'
BY DEF Outputs, Full

LEMMA AddByteKeepsOutputs ==
  ASSUME LinkInv, Outputs, AddByte
  PROVE  Outputs'
<1>1. phase' = "add" /\ UNCHANGED <<patterns, next, outputLists>>
  BY DEF AddByte, Adding
<1>2. PICK s : states' = states \cup {s} /\ (s \in states \/ ~Full)
  BY DEF AddByte
<1>3. /\ output' = [t \in states' |-> IF t \in states THEN output[t] ELSE 0]
      /\ outputCount' = [t \in states' |-> IF t \in states THEN outputCount[t] ELSE 0]
  BY DEF AddByte, Extended
<1>4. ASSUME NEW t \in states'
      PROVE  \/ outputCount'[t] = 0
             \/ /\ outputCount'[t] = 1 /\ output'[t] < Len(outputLists)
                /\ outputLists[output'[t] + 1] \in 1 .. next - 1
                /\ patterns[outputLists[output'[t] + 1]] = t /\ t # Root
  <2>1. CASE t \in states
    <3>1. output'[t] = output[t] /\ outputCount'[t] = outputCount[t]
      BY <1>2, <1>3, <2>1
    <3> QED  BY <2>1, <3>1 DEF Outputs
  <2>2. CASE t \notin states
    BY <1>2, <1>3, <2>2
  <2> QED  BY <2>1, <2>2
<1>5. ASSUME NEW r \in 1 .. next - 1
      PROVE  \/ patterns[r] = Root
             \/ patterns[r] \in states' /\ outputCount'[patterns[r]] = 1
             \/ patterns[r] \notin states' /\ Full'
  <2>1. CASE patterns[r] \in states
    BY <1>2, <1>3, <2>1 DEF Outputs
  <2>2. CASE patterns[r] \notin states /\ Full
    <3>1. states' = states
      BY <1>2, <2>2
    <3> QED  BY <2>2, <3>1 DEF Full
  <2> QED  BY <2>1, <2>2 DEF Outputs
<1> QED  BY <1>1, <1>4, <1>5 DEF Outputs

LEMMA SkipKeepsOutputs ==
  ASSUME LinkInv, Outputs, TooManyStates \/ EmptyPattern
  PROVE  Outputs'
<1>1. /\ AhoTyped /\ Grown /\ phase' = "add" /\ next \in 1 .. Len(patterns) /\ next' = next + 1
      /\ UNCHANGED <<patterns, states, outputLists, output, outputCount>>
  BY PatternTyped DEF LinkInv, TooManyStates, EmptyPattern, Adding, NextRule, AhoTyped, trie
<1>2. PICK p \in Word : p = patterns[next]
  BY <1>1, PatternTyped
<1>3. p = Root \/ (p \notin states /\ Full)
  <2>1. CASE EmptyPattern
    BY <1>2, <2>1 DEF EmptyPattern, Root
  <2>2. CASE TooManyStates
    <3>1. at < Len(p) /\ SubSeq(p, 1, at + 1) \notin states /\ Full
      BY <1>2, <2>2 DEF TooManyStates
    <3>2. at + 1 \in 0 .. Len(p)
      BY <1>1, <3>1 DEF AhoTyped, Word
    <3> QED  BY <1>1, <3>1, <3>2 DEF Grown
  <2> QED  BY <2>1, <2>2
<1>4. \A r : r \in 1 .. next' - 1 <=> r \in 1 .. next - 1 \/ r = next
  BY <1>1
<1>5. Full' = Full
  BY <1>1 DEF Full
<1>6. \A s \in states :
        \/ outputCount[s] = 0
        \/ /\ outputCount[s] = 1 /\ output[s] < Len(outputLists)
           /\ outputLists[output[s] + 1] \in 1 .. next' - 1
           /\ patterns[outputLists[output[s] + 1]] = s /\ s # Root
  BY <1>4 DEF Outputs
<1>7. \A r \in 1 .. next' - 1 :
        \/ patterns[r] = Root
        \/ patterns[r] \in states /\ outputCount[patterns[r]] = 1
        \/ patterns[r] \notin states /\ Full
  BY <1>2, <1>3, <1>4 DEF Outputs
<1> QED  BY <1>1, <1>5, <1>6, <1>7 DEF Outputs

LEMMA AddRuleKeepsOutputs ==
  ASSUME LinkInv, OneRuleEach, Outputs, AddRule
  PROVE  Outputs'
<1>1. /\ AhoTyped /\ Grown /\ Adding /\ phase' = "add" /\ next \in 1 .. Len(patterns)
      /\ next' = next + 1 /\ at # 0 /\ at = Len(patterns[next])
      /\ UNCHANGED <<patterns, states>>
  BY PatternTyped DEF LinkInv, AddRule, Adding, NextRule, AhoTyped
<1>2. PICK p \in Word : p = patterns[next] /\ p = Walked /\ p # Root /\ p \in states
  <2>1. patterns[next] \in Word
    BY <1>1, PatternTyped
  <2>2. Len(patterns[next]) \in Nat
    BY <2>1 DEF Word
  <2>3. Walked = patterns[next]
    BY <1>1, <2>1, <2>2, Beginning DEF Walked
  <2>4. Walked \in states
    BY <1>1 DEF Grown
  <2> QED  BY <1>1, <2>1, <2>3, <2>4, RootSuffix
<1>3. /\ outputLists \in Seq(Nat) /\ Len(outputLists) \in Nat
      /\ output \in [states -> Nat] /\ outputCount \in [states -> Nat]
      /\ next \in Nat
  BY <1>1, PatternTyped DEF AhoTyped
<1>4. \A r, q \in 1 .. Len(patterns) : patterns[r] = patterns[q] => r = q
  <2>1. DOMAIN patterns = 1 .. Len(patterns)
    BY <1>1, AhoAssumption DEF AhoTyped
  <2> QED  BY <2>1 DEF OneRuleEach, IsInjective
<1>5. \A r \in 1 .. next - 1 : r \in 1 .. Len(patterns) /\ patterns[r] # p
  <2>1. \A r \in 1 .. next - 1 : r \in 1 .. Len(patterns) /\ r # next
    BY <1>1, <1>3, PatternTyped
  <2> QED  BY <1>1, <1>2, <1>4, <2>1
<1>6. outputCount[p] = 0
  BY <1>2, <1>5 DEF Outputs
<1>7. /\ outputLists' = Append(outputLists, next)
      /\ output' = [output EXCEPT ![p] = Len(outputLists)]
      /\ outputCount' = [outputCount EXCEPT ![p] = outputCount[p] + 1]
  BY <1>2, <1>6 DEF AddRule
<1>8. /\ Len(outputLists') = Len(outputLists) + 1
      /\ (\A i \in 1 .. Len(outputLists) : outputLists'[i] = outputLists[i])
      /\ outputLists'[Len(outputLists) + 1] = next
  BY <1>3, <1>7, AppendProperties
<1>9. \A r : r \in 1 .. next' - 1 <=> r \in 1 .. next - 1 \/ r = next
  BY <1>1
<1>10. ASSUME NEW s \in states
       PROVE  \/ outputCount'[s] = 0
              \/ /\ outputCount'[s] = 1 /\ output'[s] < Len(outputLists')
                 /\ outputLists'[output'[s] + 1] \in 1 .. next' - 1
                 /\ patterns[outputLists'[output'[s] + 1]] = s /\ s # Root
  <2>1. CASE s = p
    <3>1. outputCount'[s] = 1 /\ output'[s] = Len(outputLists)
      BY <1>2, <1>3, <1>6, <1>7, <2>1
    <3>2. outputLists'[output'[s] + 1] = next /\ output'[s] < Len(outputLists')
      BY <1>3, <1>8, <3>1
    <3> QED  BY <1>2, <1>9, <2>1, <3>1, <3>2
  <2>2. CASE s # p /\ outputCount[s] # 0
    <3>1. /\ outputCount'[s] = outputCount[s] /\ output'[s] = output[s]
          /\ output[s] \in Nat
      BY <1>2, <1>3, <1>7, <2>2
    <3>2. /\ outputCount[s] = 1 /\ output[s] < Len(outputLists)
          /\ outputLists[output[s] + 1] \in 1 .. next - 1
          /\ patterns[outputLists[output[s] + 1]] = s /\ s # Root
      BY <2>2 DEF Outputs
    <3>3. output[s] + 1 \in 1 .. Len(outputLists)
      BY <1>3, <3>1, <3>2
    <3>4. outputLists'[output'[s] + 1] = outputLists[output[s] + 1]
      BY <1>8, <3>1, <3>3
    <3>5. output'[s] < Len(outputLists')
      BY <1>3, <1>8, <3>1, <3>2
    <3> QED  BY <1>9, <3>1, <3>2, <3>4, <3>5
  <2>3. CASE s # p /\ outputCount[s] = 0
    BY <1>2, <1>3, <1>7, <2>3
  <2> QED  BY <2>1, <2>2, <2>3
<1>11. ASSUME NEW r \in 1 .. next' - 1
       PROVE  \/ patterns[r] = Root
              \/ patterns[r] \in states /\ outputCount'[patterns[r]] = 1
              \/ patterns[r] \notin states /\ Full
  <2>1. CASE r = next
    <3>1. outputCount'[p] = 1
      BY <1>2, <1>3, <1>6, <1>7
    <3> QED  BY <1>2, <2>1, <3>1
  <2>2. CASE r \in 1 .. next - 1
    <3>1. patterns[r] \in states => outputCount'[patterns[r]] = outputCount[patterns[r]]
      BY <1>2, <1>3, <1>5, <1>7, <2>2
    <3> QED  BY <2>2, <3>1 DEF Outputs
  <2> QED  BY <1>9, <2>1, <2>2
<1>12. Full' = Full
  BY <1>1 DEF Full
<1> QED  BY <1>1, <1>10, <1>11, <1>12 DEF Outputs

-----------------------------------------------------------------------------
(* What match reports *)

LEMMA NothingReported ==
  ASSUME text' = <<>>, results' = {}
  PROVE  Reports'
BY DEF Reports, LongestIsReported

LEMMA ReportsStay ==
  ASSUME Reports, UNCHANGED <<patterns, states, text, results>>
  PROVE  Reports'
BY DEF Reports, LongestIsReported, OneRuleEach, Occurring

\* A text's beginnings are not changed by the bytes that follow.
LEMMA TextSoFar ==
  ASSUME NEW w \in Word, NEW b \in Alphabet
  PROVE  /\ Append(w, b) \in Word /\ Len(Append(w, b)) = Len(w) + 1
         /\ SubSeq(Append(w, b), 1, Len(w) + 1) = Append(w, b)
         /\ \A i \in 1 .. Len(w) : SubSeq(Append(w, b), 1, i) = SubSeq(w, 1, i)
<1>1. PICK x \in Word : /\ x = Append(w, b) /\ Len(x) = Len(w) + 1
                        /\ \A i \in 1 .. Len(w) : x[i] = w[i]
  <2>1. w \in Seq(Alphabet) /\ Word = Seq(Alphabet)
    BY DEF Word
  <2>2. /\ Append(w, b) \in Word /\ Len(Append(w, b)) = Len(w) + 1
        /\ \A i \in 1 .. Len(w) : Append(w, b)[i] = w[i]
    BY <2>1, AppendProperties
  <2> QED  BY <2>2
<1>2. Len(w) \in Nat
  BY DEF Word
<1>3. SubSeq(x, 1, Len(w) + 1) = x
  BY <1>1, <1>2, Beginning
<1>4. ASSUME NEW i \in 1 .. Len(w)
      PROVE  SubSeq(x, 1, i) = SubSeq(w, 1, i)
  <2>1. i \in 0 .. Len(w) /\ i \in 0 .. Len(x) /\ i \in Nat
    BY <1>1, <1>2
  <2>2. /\ SubSeq(x, 1, i) \in Word /\ Len(SubSeq(x, 1, i)) = i
        /\ \A k \in 1 .. i : SubSeq(x, 1, i)[k] = x[k]
    BY <2>1, Beginning
  <2>3. /\ SubSeq(w, 1, i) \in Word /\ Len(SubSeq(w, 1, i)) = i
        /\ \A k \in 1 .. i : SubSeq(w, 1, i)[k] = w[k]
    BY <2>1, Beginning
  <2>4. \A k \in 1 .. i : k \in 1 .. Len(w)
    BY <1>2
  <2> QED  BY <1>1, <2>2, <2>3, <2>4, SeqEqual DEF Word
<1> QED  BY <1>1, <1>3, <1>4

LEMMA AdvanceKeepsReports ==
  ASSUME LinkInv, LinkInv', OneRuleEach, Outputs, Reports, Advance
  PROVE  Reports'
<1>1. /\ AhoTyped /\ phase = "advance" /\ phase' = "match" /\ text' = Append(text, byte)
      /\ results' = results \cup {[rule |-> r, end |-> Len(text')] : r \in Emitted(cur')}
      /\ UNCHANGED <<patterns, next, states, outputLists, output, outputCount>>
  BY DEF LinkInv, Advance, Report, trie
<1>2. text \in Word /\ byte \in Alphabet /\ Len(text) \in Nat /\ states \subseteq Word
  BY <1>1 DEF AhoTyped, Walking, Word
<1>3. PICK w \in Word, n \in Nat :
        /\ w = text' /\ n = Len(text) + 1 /\ Len(w) = n
        /\ SubSeq(w, 1, n) = w
        /\ \A i \in 1 .. Len(text) : SubSeq(w, 1, i) = SubSeq(text, 1, i)
  <2>1. /\ text' \in Word /\ Len(text') = Len(text) + 1
        /\ SubSeq(text', 1, Len(text) + 1) = text'
        /\ \A i \in 1 .. Len(text) : SubSeq(text', 1, i) = SubSeq(text, 1, i)
    BY <1>1, <1>2, TextSoFar
  <2>2. Len(text) + 1 \in Nat
    BY <1>2
  <2> QED  BY <2>1, <2>2
<1>4. /\ cur' \in states /\ IsSuffix(cur', w)
      /\ \A t \in states : IsSuffix(t, w) => Len(t) <= Len(cur')
  <2>1. Tails' = {t \in states : IsSuffix(t, w)}
    BY <1>1, <1>3 DEF Tails
  <2> QED  BY <1>1, <2>1 DEF LinkInv, Walks
<1>5. \A i \in 1 .. Len(text) : Occurring(i)' = Occurring(i)
  BY <1>1, <1>3 DEF Occurring
<1>6. Occurring(n)' = {r \in 1 .. Len(patterns) : patterns[r] \in states \ {Root}
                                                  /\ IsSuffix(patterns[r], w)}
  BY <1>1, <1>3 DEF Occurring
<1>7. \A i : i \in 1 .. Len(text') <=> i \in 1 .. Len(text) \/ i = n
  BY <1>2, <1>3
<1>8. next - 1 = Len(patterns)
  BY <1>1, PatternTyped DEF Outputs
<1>9. ASSUME NEW m \in results'
      PROVE  m.end \in 1 .. Len(text') /\ m.rule \in Occurring(m.end)'
  <2>1. CASE m \in results
    <3>1. m.end \in 1 .. Len(text) /\ m.rule \in Occurring(m.end)
      BY <2>1 DEF Reports
    <3> QED  BY <1>5, <1>7, <3>1
  <2>2. CASE m \notin results
    <3>1. PICK r \in Emitted(cur') : m = [rule |-> r, end |-> n]
      BY <1>1, <1>3, <2>2
    <3>2. r \in 1 .. Len(patterns) /\ patterns[r] = cur' /\ cur' # Root
      <4>1. \E q \in 1 .. next - 1 : Emitted(cur') = {q} /\ patterns[q] = cur' /\ cur' # Root
        BY <1>1, <1>4, EmittedIs
      <4> QED  BY <1>8, <4>1
    <3>3. r \in Occurring(n)'
      BY <1>4, <1>6, <3>2
    <3> QED  BY <1>7, <3>1, <3>3
  <2> QED  BY <2>1, <2>2
<1>10. ASSUME NEW i \in 1 .. Len(text'), NEW r \in Occurring(i)',
              \A t \in states' : IsSuffix(t, SubSeq(text', 1, i)) => Len(t) <= Len(patterns'[r])
       PROVE  [rule |-> r, end |-> i] \in results'
  <2>1. CASE i \in 1 .. Len(text)
    <3>1. r \in Occurring(i)
      BY <1>5, <2>1
    <3>2. \A t \in states : IsSuffix(t, SubSeq(text, 1, i)) => Len(t) <= Len(patterns[r])
      BY <1>1, <1>3, <1>10, <2>1
    <3> QED  BY <1>1, <2>1, <3>1, <3>2 DEF Reports, LongestIsReported
  <2>2. CASE i = n
    <3>1. /\ r \in 1 .. Len(patterns) /\ patterns[r] \in states /\ patterns[r] # Root
          /\ IsSuffix(patterns[r], w)
      BY <1>6, <1>10, <2>2
    <3>2. patterns[r] = cur'
      <4>1. Len(cur') <= Len(patterns[r])
        BY <1>1, <1>3, <1>4, <1>10, <2>2
      <4>2. Len(patterns[r]) <= Len(cur')
        BY <1>4, <3>1
      <4>3. PICK x \in Word, y \in Word : x = patterns[r] /\ y = cur'
        BY <1>2, <1>4, <3>1
      <4>4. Len(x) = Len(y)
        BY <4>1, <4>2, <4>3 DEF Word
      <4>5. IsSuffix(x, y)
        BY <1>4, <3>1, <4>3, <4>4, SuffixOfSuffix DEF Word
      <4> QED  BY <4>3, <4>4, <4>5, SuffixOfSuffix
    <3>3. outputCount[cur'] # 0
      BY <1>8, <3>1, <3>2 DEF Outputs
    <3>4. PICK q \in 1 .. next - 1 : Emitted(cur') = {q} /\ patterns[q] = cur'
      BY <1>1, <1>4, <3>3, EmittedIs
    <3>5. q = r
      <4>1. DOMAIN patterns = 1 .. Len(patterns)
        BY <1>1, AhoAssumption DEF AhoTyped
      <4> QED  BY <1>8, <3>1, <3>2, <3>4, <4>1 DEF OneRuleEach, IsInjective
    <3>6. r \in Emitted(cur')
      BY <3>4, <3>5
    <3> QED  BY <1>1, <1>3, <2>2, <3>6
  <2> QED  BY <1>7, <2>1, <2>2
<1> QED  BY <1>9, <1>10 DEF Reports, LongestIsReported

LEMMA ReportStarts == AhoInit => ReportInv
<1> SUFFICES ASSUME AhoInit PROVE ReportInv
  OBVIOUS
<1>1. /\ next = 1 /\ states = {Root} /\ outputCount = [s \in {Root} |-> 0] /\ phase = "add"
      /\ text = <<>> /\ results = {}
  BY DEF AhoInit
<1>2. Outputs
  BY <1>1 DEF Outputs
<1>3. Reports
  BY <1>1 DEF Reports, LongestIsReported
<1> QED  BY <1>2, <1>3 DEF ReportInv

LEMMA ReportKeeps == LinkInv /\ LinkInv' /\ ReportInv /\ [AhoNext]_ahoVars => ReportInv'
<1> SUFFICES ASSUME LinkInv, LinkInv', ReportInv, [AhoNext]_ahoVars, OneRuleEach'
             PROVE  Outputs' /\ Reports'
  BY DEF ReportInv
<1>1. patterns' = patterns
  BY DEF AhoNext, AddByte, TooManyStates, EmptyPattern, AddRule, StartBuild, TakeState, Follow,
     SetLink, EndBuild, TakeSon, ReadByte, Advance, ahoVars
<1>2. OneRuleEach /\ Outputs /\ Reports /\ AhoTyped
  BY <1>1 DEF ReportInv, LinkInv, OneRuleEach
<1>3. CASE AddByte \/ TooManyStates \/ EmptyPattern \/ AddRule
  <2>1. Outputs'
    BY <1>2, <1>3, AddByteKeepsOutputs, SkipKeepsOutputs, AddRuleKeepsOutputs
  <2>2. phase = "add" /\ UNCHANGED <<text, results>>
    BY <1>3 DEF AddByte, TooManyStates, EmptyPattern, AddRule, Adding, scan
  <2>3. text' = <<>> /\ results' = {}
    BY <2>2 DEF LinkInv, Grown, Matching
  <2> QED  BY <2>1, <2>3, NothingReported
<1>4. CASE StartBuild \/ TakeState \/ Follow \/ SetLink \/ EndBuild \/ UNCHANGED ahoVars
           \/ \E b \in Alphabet : TakeSon(b) \/ ReadByte(b)
  <2>1. UNCHANGED <<patterns, next, states, outputLists, output, outputCount, text, results>>
    BY <1>4 DEF StartBuild, TakeState, Follow, SetLink, EndBuild, TakeSon, ReadByte, ahoVars,
       trie, scan
  <2>2. phase' # "add" => next = Len(patterns) + 1
    <3>1. CASE StartBuild
      <4>1. next > Len(patterns) /\ next \in 1 .. Len(patterns) + 1 /\ Len(patterns) \in Nat
        BY <1>2, <3>1, PatternTyped DEF StartBuild, AhoTyped
      <4> QED  BY <4>1
    <3>2. CASE ~StartBuild
      <4>1. phase' # "add" => phase # "add"
        BY <1>4, <3>2 DEF TakeState, Follow, SetLink, EndBuild, TakeSon, ReadByte, ahoVars
      <4> QED  BY <1>2, <4>1 DEF Outputs
    <3> QED  BY <3>1, <3>2
  <2> QED  BY <1>2, <2>1, <2>2, OutputsStay, ReportsStay
<1>5. CASE Advance
  <2>1. Outputs'
    <3>1. phase # "add" /\ UNCHANGED <<patterns, next, states, outputLists, output, outputCount>>
      BY <1>5 DEF Advance, trie
    <3>2. next = Len(patterns) + 1
      BY <1>2, <3>1 DEF Outputs
    <3> QED  BY <1>2, <3>1, <3>2, OutputsStay
  <2> QED  BY <1>2, <1>5, <2>1, AdvanceKeepsReports
<1> QED  BY <1>3, <1>4, <1>5 DEF AhoNext

LEMMA ReportInvariance == AhoSpec => [](LinkInv /\ ReportInv)
BY AhoStarts, AhoKeeps, ReportStarts, ReportKeeps, PTL DEF AhoSpec

LEMMA ReportInvImplies == LinkInv /\ ReportInv => ReportsAreOccurrences /\ LongestIsReported
BY DEF ReportInv, Reports, ReportsAreOccurrences, LongestIsReported

(* While no two rules have one pattern, what match reports is there
   (ReportsAreOccurrences). *)
THEOREM ReportsTrue == AhoSpec => []ReportsAreOccurrences
BY ReportInvariance, ReportInvImplies, PTL

(* While no two rules have one pattern, the longest match is reported
   (LongestIsReported). *)
THEOREM LongestReported == AhoSpec => []LongestIsReported
BY ReportInvariance, ReportInvImplies, PTL
=============================================================================
