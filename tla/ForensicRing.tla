---------------------------- MODULE ForensicRing ----------------------------
(***************************************************************************)
(* The evidence ring of forensic_pipeline.zig between its two users: the   *)
(* pipeline thread, which draws an audit id for every event and appends a  *)
(* record (event_processor.zig), and the control thread, which serves      *)
(* forensics.list and forensics.verify (handler_registry.zig) and draws    *)
(* its request ids from the same counter (win32_pipe.zig).                 *)
(*                                                                         *)
(* Positions are counted in records: the daemon's ring is a whole number   *)
(* of records long, so no record straddles the end of the storage.  SHA-256*)
(* is an injective function; the CRC is the fact that it matches.          *)
(***************************************************************************)
EXTENDS Integers, Sequences

CONSTANTS
    Slots,        \* storage.len / RECORD_BYTES
    Sources,      \* what a record is searched by: its event's source
    MaxEvents,    \* bound: events processed
    MaxRequests   \* bound: control requests received

ASSUME SlotsAssumption == Slots \in Nat \ {0}
ASSUME BoundsAssumption == MaxEvents \in Nat /\ MaxRequests \in Nat

VARIABLES
    store,     \* storage: the record in each slot
    written,   \* records appended; head is written records in
    nextSeq,   \* next_seq
    lastHash,  \* last_hash
    mutex,     \* the ring's mutex: "free" or its holder
    auditId,   \* g_pipeline_audit_id
    pc,        \* where each thread is
    id,        \* the audit or request id each thread has drawn
    seen,      \* the counter as each thread's increment has read it
    requests,  \* requests received
    query,     \* the source forensics.list looks for
    index,     \* its position
    answer,    \* what it replied
    found,     \* the record_seq in that reply
    verdict,   \* what forensics.verify replied
    log        \* history: every record ever appended, in order

vars == <<store, written, nextSeq, lastHash, mutex, auditId, pc, id, seen,
          requests, query, index, answer, found, verdict, log>>

ring    == <<store, written, nextSeq, lastHash, mutex, log>>
replies == <<query, index, answer, found, verdict>>

Threads == {"pipeline", "control"}
Slot    == 0 .. Slots - 1
NoHash  == <<>>
Here    == written % Slots

Hash(r) == <<r.seq, r.src, r.audit, r.prev>>

\* A slot before its first record: whatever the allocator returned.
Blank == [seq |-> 0, src |-> CHOOSE s \in Sources : TRUE, audit |-> 0,
          prev |-> NoHash, cur |-> NoHash, crc |-> FALSE]

Init ==
    /\ store = [s \in Slot |-> Blank]
    /\ written = 0
    /\ nextSeq = 0
    /\ lastHash = NoHash
    /\ mutex = "free"
    /\ auditId = 0
    /\ pc = [t \in Threads |-> "idle"]
    /\ id = [t \in Threads |-> 0]
    /\ seen = [t \in Threads |-> 0]
    /\ requests = 0
    /\ query \in Sources
    /\ index = 0
    /\ answer = "none"
    /\ found = 0
    /\ verdict = "none"
    /\ log = <<>>

-----------------------------------------------------------------------------
(***************************************************************************)
(* The shared counter.  Both threads copy it and then increment it, with   *)
(* no atomic operation and no lock: the increment may use the copy or read *)
(* the counter again, and the store is a step of its own.                  *)
(***************************************************************************)

Load(t) ==
    /\ pc[t] = "idle"
    /\ id' = [id EXCEPT ![t] = auditId]
    /\ seen' = [seen EXCEPT ![t] = auditId]
    /\ pc' = [pc EXCEPT ![t] = "loaded"]
    /\ UNCHANGED <<auditId, ring, replies>>

\* The pipeline thread starts on the next event it has popped.
LoadAuditId ==
    /\ Len(log) < MaxEvents
    /\ Load("pipeline")
    /\ UNCHANGED requests

\* The control thread starts on the next request it has read.
LoadRequestId ==
    /\ requests < MaxRequests
    /\ Load("control")
    /\ requests' = requests + 1

Reread(t) ==
    /\ pc[t] = "loaded"
    /\ seen' = [seen EXCEPT ![t] = auditId]
    /\ pc' = [pc EXCEPT ![t] = "reread"]
    /\ UNCHANGED <<auditId, id, requests, ring, replies>>

Bump(t) ==
    /\ pc[t] \in {"loaded", "reread"}
    /\ auditId' = seen[t] + 1
    /\ pc' = [pc EXCEPT ![t] = "drawn"]
    /\ UNCHANGED <<id, seen, requests, ring, replies>>

-----------------------------------------------------------------------------
(***************************************************************************)
(* ForensicRing.append, by the pipeline thread.                            *)
(***************************************************************************)

AtPipeline(from, to) ==
    /\ pc["pipeline"] = from
    /\ pc' = [pc EXCEPT !["pipeline"] = to]

Lock ==
    /\ AtPipeline("drawn", "locked")
    /\ mutex = "free"
    /\ mutex' = "pipeline"
    /\ UNCHANGED <<store, written, nextSeq, lastHash, log,
                   auditId, id, seen, requests, replies>>

WriteSlot(src) ==
    /\ AtPipeline("locked", "slotWritten")
    /\ store' = [store EXCEPT ![Here] =
                    [seq |-> nextSeq, src |-> src, audit |-> id["pipeline"],
                     prev |-> lastHash, cur |-> NoHash, crc |-> FALSE]]
    /\ UNCHANGED <<written, nextSeq, lastHash, mutex, log,
                   auditId, id, seen, requests, replies>>

EmbedHash ==
    /\ AtPipeline("slotWritten", "hashed")
    /\ store' = [store EXCEPT ![Here] = [@ EXCEPT !.cur = Hash(store[Here])]]
    /\ UNCHANGED <<written, nextSeq, lastHash, mutex, log,
                   auditId, id, seen, requests, replies>>

\* Over the final record, with its hash in it.
WriteCrc ==
    /\ AtPipeline("hashed", "sealed")
    /\ store' = [store EXCEPT ![Here] = [@ EXCEPT !.crc = TRUE]]
    /\ UNCHANGED <<written, nextSeq, lastHash, mutex, log,
                   auditId, id, seen, requests, replies>>

\* Mutant: the next record is not linked to this one.
PublishUnlinked ==
    /\ AtPipeline("sealed", "idle")
    /\ nextSeq' = nextSeq + 1
    /\ written' = written + 1
    /\ mutex' = "free"
    /\ log' = Append(log, [src |-> store[Here].src, audit |-> store[Here].audit])
    /\ UNCHANGED <<store, lastHash, auditId, id, seen, requests, replies>>

Publish ==
    /\ AtPipeline("sealed", "idle")
    /\ lastHash' = store[Here].cur
    /\ nextSeq' = nextSeq + 1
    /\ written' = written + 1
    /\ mutex' = "free"
    /\ log' = Append(log, [src |-> store[Here].src, audit |-> store[Here].audit])
    /\ UNCHANGED <<store, auditId, id, seen, requests, replies>>

Pipeline ==
    \/ LoadAuditId
    \/ Reread("pipeline")
    \/ Bump("pipeline")
    \/ Lock
    \/ \E src \in Sources : WriteSlot(src)
    \/ EmbedHash
    \/ WriteCrc
    \/ Publish

-----------------------------------------------------------------------------
(***************************************************************************)
(* The control thread.                                                     *)
(***************************************************************************)

Oldest == IF written > Slots THEN written - Slots ELSE 0

\* verifyHashChain: CRC and hash of every retained record, and the link of
\* each one but the oldest to the one before it.
HashChainVerifies ==
    \A i \in Oldest .. written - 1 :
        LET r == store[i % Slots] IN
        /\ r.crc
        /\ r.cur = Hash(r)
        /\ i > Oldest => r.prev = store[(i - 1) % Slots].cur

AtControl(from, to) ==
    /\ pc["control"] = from
    /\ pc' = [pc EXCEPT !["control"] = to]

\* forensics.verify holds the mutex from its first record to its last.
Verify ==
    /\ AtControl("drawn", "idle")
    /\ mutex = "free"
    /\ verdict' = IF HashChainVerifies THEN "ok" ELSE "failed"
    /\ UNCHANGED <<query, index, answer, found, auditId, id, seen, requests, ring>>

\* forensics.list reads recordCount without the mutex.
StartSearch(src) ==
    /\ AtControl("drawn", "searching")
    /\ query' = src
    /\ index' = Oldest
    /\ answer' = "none"
    /\ UNCHANGED <<found, verdict, auditId, id, seen, requests, ring>>

\* Any other request: it does not touch the ring.
OtherRequest ==
    /\ AtControl("drawn", "idle")
    /\ UNCHANGED <<auditId, id, seen, requests, ring, replies>>

\* One turn of the loop: readRecord's copy, its CRC and the comparison.
Examine(r) ==
    \/ /\ r.crc /\ r.src = query
       /\ AtControl("searching", "idle")
       /\ answer' = "match"
       /\ found' = r.seq
       /\ UNCHANGED index
    \/ /\ ~(r.crc /\ r.src = query)
       /\ AtControl("searching", "searching")
       /\ index' = index + 1
       /\ UNCHANGED <<answer, found>>

\* Mutant: readRecord copies the slot without the mutex.
SearchUnlocked ==
    /\ index < written
    /\ Examine(store[index % Slots])
    /\ UNCHANGED <<query, verdict, auditId, id, seen, requests, ring>>

Search ==
    /\ mutex = "free"
    /\ index < written
    /\ Examine(store[index % Slots])
    /\ UNCHANGED <<query, verdict, auditId, id, seen, requests, ring>>

EndSearch ==
    /\ AtControl("searching", "idle")
    /\ index >= written
    /\ answer' = "noMatch"
    /\ UNCHANGED <<query, index, found, verdict, auditId, id, seen, requests, ring>>

Control ==
    \/ LoadRequestId
    \/ Reread("control")
    \/ Bump("control")
    \/ Verify
    \/ \E src \in Sources : StartSearch(src)
    \/ OtherRequest
    \/ Search
    \/ EndSearch

Next == Pipeline \/ Control

Spec == Init /\ [][Next]_vars

-----------------------------------------------------------------------------
\* A record of these fields; a hash may be any value.
IsRecord(r) ==
    /\ r = [seq |-> r.seq, src |-> r.src, audit |-> r.audit,
            prev |-> r.prev, cur |-> r.cur, crc |-> r.crc]
    /\ r.seq \in Nat
    /\ r.src \in Sources
    /\ r.audit \in Nat
    /\ r.crc \in BOOLEAN

PipelineAt == {"idle", "loaded", "reread", "drawn", "locked", "slotWritten", "hashed", "sealed"}
ControlAt  == {"idle", "loaded", "reread", "drawn", "searching"}

\* Types of the state, and the mutex is held exactly inside append.
TypeOK ==
    /\ store = [s \in Slot |-> store[s]]
    /\ \A s \in Slot : IsRecord(store[s])
    /\ written \in Nat
    /\ nextSeq \in Nat
    /\ mutex \in {"free", "pipeline"}
    /\ auditId \in Nat
    /\ pc \in [Threads -> PipelineAt \cup ControlAt]
    /\ pc["pipeline"] \in PipelineAt
    /\ pc["control"] \in ControlAt
    /\ id \in [Threads -> Nat]
    /\ seen \in [Threads -> Nat]
    /\ requests \in Nat
    /\ query \in Sources
    /\ index \in Nat
    /\ answer \in {"none", "match", "noMatch"}
    /\ found \in Nat
    /\ verdict \in {"none", "ok", "failed"}
    /\ log \in Seq([src : Sources, audit : Nat])
    /\ mutex = "pipeline" <=> pc["pipeline"] \in {"locked", "slotWritten", "hashed", "sealed"}

\* The chain of an undamaged ring always verifies, whenever the request comes
\* and however often the ring has wrapped (verifyHashChain).
ChainAlwaysVerifies == verdict # "failed"

\* The sequence numbers of the records a ring of this size retains.
Retained == {i \in 0 .. Len(log) - 1 : i >= Len(log) - Slots}

\* A search that ends without a match has missed nothing the ring holds at
\* that moment, and a match it reports is a retained record that matches,
\* although records are appended and overwritten while it runs (forensicsList).
SearchIsExact ==
    [][ /\ answer # answer' /\ answer' = "noMatch"
           => \A i \in Retained : log[i + 1].src # query
        /\ answer # answer' /\ answer' = "match"
           => found' \in Retained /\ log[found' + 1].src = query ]_vars
=============================================================================
