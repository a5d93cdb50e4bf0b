--------------------------- MODULE EventProcessor ---------------------------
(***************************************************************************)
(* What the pipeline thread does with one event (event_processor.zig): the *)
(* flow table, the detection, the threat tracker, the policy set, the      *)
(* enforcement point and the counters.  One thread runs it and nobody else *)
(* writes this state, so an event is one step; the ring it ends in, and    *)
(* the race on the audit id, are module ForensicRing.                      *)
(*                                                                         *)
(* The automaton is the rule it reports first (0: none).  Left out: the    *)
(* anomaly detector, whose result is discarded, and the dispatcher, which  *)
(* only logs as the daemon installs no backend.  Allocations succeed.      *)
(***************************************************************************)
EXTENDS Integers, Sequences

CONSTANTS
    Flows,           \* direction-normalised 5-tuples
    NoFlow,          \* an unoccupied bucket
    TableSize,       \* FLOW_TABLE_SIZE
    Kinds,           \* event kinds the sensors produce
    Severities,      \* the severities they give them
    Rules,           \* rule ids
    PolicyFiles,     \* contents of configs/policies.json, <<>> if unreadable
    Weight,          \* what one detection adds to a score
    Threshold,       \* the score that opens an incident
    MaxIncidents,    \* MAX_INCIDENTS
    MaxEvents        \* bound: events processed

ASSUME TableAssumption    == TableSize \in Nat \ {0} /\ NoFlow \notin Flows
ASSUME EventAssumption    == /\ Kinds \subseteq Nat /\ Severities \subseteq Nat
                             /\ Rules \subseteq Nat \ {0}
ASSUME PolicyAssumption   == PolicyFiles \subseteq
    Seq([field : {"kind", "severity", "rule_id"}, op : STRING, value : Nat, action : STRING])
ASSUME IncidentAssumption == /\ Weight \in Nat \ {0}
                             /\ Threshold \in Nat \ {0}
                             /\ MaxIncidents \in Nat
ASSUME BoundAssumption    == MaxEvents \in Nat

VARIABLES
    hash,       \* FlowKey.hash, reduced to a bucket
    buckets,    \* FlowTable.buckets: the flow in each, or NoFlow
    panic,      \* the flow that met a full table, or NoFlow
    score,      \* FlowThreat.score of each flow id
    incidentOf, \* FlowThreat.incident_id
    incidents,  \* ThreatTracker.incidents
    policies,   \* PolicySet.policies
    available,  \* PepEnforcer.available
    count,      \* the g_pipeline_* counters of runtime_state.zig
    last        \* the decision trace of the latest event

vars    == <<hash, buckets, panic, score, incidentOf, incidents,
             policies, available, count, last>>
tracker == <<score, incidentOf, incidents>>
config  == <<hash, policies, available>>

Offsets == 0 .. TableSize - 1
Buckets == Offsets

\* EventKind and EventSeverity ordinals.
SignatureMatch == 40
Warning        == 4

\* An event as popped, and the rule its payload matches.
Event == [flow : Flows, kind : Kinds, severity : Severities,
          rule_id : Rules \cup {0}, hit : Rules \cup {0}]

\* IpcEvent.init zeroes flow_id, and no sensor of the daemon sets it.
FlowId(e) == 0

FlowIds == {0}

-----------------------------------------------------------------------------
(***************************************************************************)
(* FlowTable.lookupOrCreate: linear probing from the hash.                 *)
(***************************************************************************)

ProbeAt(f, i) == (hash[f] + i) % TableSize

\* Mutant: any occupied bucket sends the probe on.
StopsAtEmpty(f, i) == buckets[ProbeAt(f, i)] = NoFlow

\* Mutant: the last bucket of the chain is never tried.
StopsEarly(f, i) ==
    /\ i < TableSize - 1
    /\ buckets[ProbeAt(f, i)] \in {NoFlow, f}

Stops(f, i) == buckets[ProbeAt(f, i)] \in {NoFlow, f}

IsFirstStop(f, i) == Stops(f, i) /\ \A j \in 0 .. i - 1 : ~Stops(f, j)

TableFull(f) == \A i \in Offsets : ~Stops(f, i)

LookupOrCreate(f) ==
    \E i \in Offsets :
        /\ IsFirstStop(f, i)
        /\ buckets' = [buckets EXCEPT ![ProbeAt(f, i)] = f]

-----------------------------------------------------------------------------
(***************************************************************************)
(* Detection and threat tracking.                                          *)
(***************************************************************************)

\* matched_rule_id: an upstream match, which a match on the payload overrides.
MatchedRule(e) ==
    IF e.hit # 0 THEN e.hit
    ELSE IF e.kind = SignatureMatch THEN e.rule_id ELSE 0

\* Mutant: the detector's result stays in a local variable.
DetectedForgotten(e) == e

\* The event the later stages see.
Detected(e) ==
    IF e.hit = 0 THEN e
    ELSE [e EXCEPT !.kind = SignatureMatch, !.rule_id = e.hit]

\* Mutant: > for >= at the threshold.
CrossesOffByOne(e) ==
    /\ MatchedRule(e) # 0
    /\ score[FlowId(e)] + Weight > Threshold
    /\ incidentOf[FlowId(e)] = 0

Crosses(e) ==
    /\ MatchedRule(e) # 0
    /\ score[FlowId(e)] + Weight >= Threshold
    /\ incidentOf[FlowId(e)] = 0

OpensIncident(e) == Crosses(e) /\ Len(incidents) < MaxIncidents

\* emergency at 500 and alert at 250, for a threshold of 100.
SeverityOf(s) ==
    IF s >= 5 * Threshold THEN 8 ELSE IF 2 * s >= 5 * Threshold THEN 7 ELSE Warning

\* The incident's severity replaces the event's, whichever is the higher.
Escalated(e) ==
    IF OpensIncident(e)
    THEN [Detected(e) EXCEPT !.severity = SeverityOf(score[FlowId(e)] + Weight)]
    ELSE Detected(e)

ObserveFlowThreat(e) ==
    LET id == FlowId(e) IN
    /\ score' = IF MatchedRule(e) = 0 THEN score
                ELSE [score EXCEPT ![id] = @ + Weight]
    /\ IF OpensIncident(e)
       THEN /\ incidents' = Append(incidents, id)
            /\ incidentOf' = [incidentOf EXCEPT ![id] = Len(incidents) + 1]
       ELSE UNCHANGED <<incidents, incidentOf>>

-----------------------------------------------------------------------------
(***************************************************************************)
(* Policy evaluation and PepEnforcer.enforce.                              *)
(***************************************************************************)

\* The loader knows eq, ne, gt and lt; gte becomes gt, anything else eq.
Holds(p, e) ==
    LET actual == e[p.field] IN
    \/ p.op \in {"gt", "gte"} /\ actual > p.value
    \/ p.op = "lt" /\ actual < p.value
    \/ p.op = "ne" /\ actual # p.value
    \/ p.op \notin {"gt", "gte", "lt", "ne"} /\ actual = p.value

\* PolicySet.evaluate: the first policy that holds, 0 if none does.
Evaluates(e, i) ==
    \/ /\ i \in DOMAIN policies
       /\ Holds(policies[i], e)
       /\ \A j \in 1 .. i - 1 : ~Holds(policies[j], e)
    \/ /\ i = 0
       /\ \A j \in DOMAIN policies : ~Holds(policies[j], e)

Privileged == {"rate_limit", "block", "quarantine", "escalate"}

\* aegis_pep_enforce: a privileged request is granted or escalated.
Provider(action) ==
    IF action \in Privileged THEN {action, "escalate"} ELSE {"allow"}

\* Mutant: the provider is asked although no loader has verified the policy.
EnforceUntrusted(action) ==
    IF ~available THEN {"escalate"} ELSE Provider(action)

\* No loader sets Policy.trusted.
Enforce(action) ==
    IF action \in Privileged \/ ~available THEN {"escalate"} ELSE Provider(action)

-----------------------------------------------------------------------------
Nothing == [rule |-> 0, policy |-> 0, decision |-> "allow"]

Init ==
    /\ hash \in [Flows -> Buckets]
    /\ buckets = [b \in Buckets |-> NoFlow]
    /\ panic = NoFlow
    /\ score = [id \in FlowIds |-> 0]
    /\ incidentOf = [id \in FlowIds |-> 0]
    /\ incidents = <<>>
    /\ policies \in PolicyFiles
    /\ available \in BOOLEAN
    /\ count = [processed |-> 0, detections |-> 0, incidents |-> 0, pep |-> 0, audit |-> 0]
    /\ last = Nothing

Running == panic = NoFlow

One(b) == IF b THEN 1 ELSE 0

\* g_pipeline_events_processed, g_pipeline_detections (up to four for one
\* event), g_incidents_total, g_pep_request_id and g_pipeline_audit_id.
Counted(e, policy) ==
    count' = [processed  |-> count.processed + 1,
              detections |-> count.detections + One(e.kind = SignatureMatch /\ e.rule_id # 0)
                  + One(e.hit # 0) + One(OpensIncident(e)) + One(policy # 0),
              incidents  |-> count.incidents + One(OpensIncident(e)),
              pep        |-> count.pep + One(policy # 0),
              audit      |-> count.audit + 1]

\* No policy: the enforcement point is not asked, and the trace says allow.
Undecided(e) ==
    /\ Evaluates(Escalated(e), 0)
    /\ Counted(e, 0)
    /\ last' = [rule |-> MatchedRule(e), policy |-> 0, decision |-> "allow"]

Decided(e) ==
    \E i \in DOMAIN policies :
        /\ Evaluates(Escalated(e), i)
        /\ Counted(e, i)
        /\ \E d \in Enforce(policies[i].action) :
              last' = [rule |-> MatchedRule(e), policy |-> i, decision |-> d]

ProcessEvent(e) ==
    /\ Running
    /\ count.processed < MaxEvents
    /\ LookupOrCreate(e.flow)
    /\ ObserveFlowThreat(e)
    /\ Undecided(e) \/ Decided(e)
    /\ UNCHANGED <<config, panic>>

\* @panic("FLOW_TABLE_FULL") ends the process in the middle of the event.
Panic(e) ==
    /\ Running
    /\ count.processed < MaxEvents
    /\ TableFull(e.flow)
    /\ panic' = e.flow
    /\ count' = [count EXCEPT !.processed = @ + 1]
    /\ UNCHANGED <<config, buckets, tracker, last>>

Next == \E e \in Event : ProcessEvent(e) \/ Panic(e)

Spec == Init /\ [][Next]_vars

-----------------------------------------------------------------------------
Count == [processed : Nat, detections : Nat, incidents : Nat, pep : Nat, audit : Nat]

TypeOK ==
    /\ hash \in [Flows -> Buckets]
    /\ buckets \in [Buckets -> Flows \cup {NoFlow}]
    /\ panic \in Flows \cup {NoFlow}
    /\ score \in [FlowIds -> Nat]
    /\ incidentOf \in [FlowIds -> Nat]
    /\ incidents \in Seq(FlowIds)
    /\ policies \in PolicyFiles
    /\ available \in BOOLEAN
    /\ count \in Count
    /\ last.policy \in {0} \cup DOMAIN policies

\* However the flows collide, a flow that has a bucket is found again: no
\* bucket before it on its probe chain is empty, which would end the lookup,
\* or holds the same flow a second time (lookupOrCreate).
FlowsFoundAgain ==
    \A f \in Flows, i \in Offsets :
        buckets[ProbeAt(f, i)] = f
            => \A j \in 0 .. i - 1 : buckets[ProbeAt(f, j)] \notin {NoFlow, f}

\* The process dies for want of a bucket only when there is none: every
\* bucket is taken, by flows other than the one that was looked up.
PanicMeansFull ==
    panic # NoFlow => \A b \in Buckets : buckets[b] \notin {NoFlow, panic}

\* A score has its incident exactly from the detection that reaches the
\* threshold on, and only one, unless the incident array was full
\* (ThreatTracker.observeFlowThreat).
IncidentAtThreshold ==
    /\ \A id \in FlowIds :
          /\ incidentOf[id] # 0 => /\ score[id] >= Threshold
                                   /\ incidentOf[id] \in DOMAIN incidents
                                   /\ incidents[incidentOf[id]] = id
          /\ incidentOf[id] = 0 => \/ score[id] < Threshold
                                   \/ Len(incidents) >= MaxIncidents
    /\ \A k \in DOMAIN incidents : incidentOf[incidents[k]] = k

\* With a policy for matched rules loaded, no detection passes without a
\* policy decision, wherever the rule came from and whatever the incident
\* did to the severity (processEvent: the match must reach the event).
RulePolicy(p) == p.field = "rule_id" /\ p.op = "gt" /\ p.value = 0

DetectionDecided ==
    last.rule # 0 /\ (\E i \in DOMAIN policies : RulePolicy(policies[i]))
        => last.policy # 0

\* No policy file makes the daemon act on a flow: a decision is to allow or to
\* escalate, a privileged action is escalated, and without the provider so is
\* everything a policy decides (PepEnforcer.enforce).
NoUnauthorisedAction ==
    /\ last.decision \in {"allow", "escalate"}
    /\ last.policy # 0 =>
          /\ policies[last.policy].action \in Privileged => last.decision = "escalate"
          /\ ~available => last.decision = "escalate"
=============================================================================
