----------------------------- MODULE WfpDriver -----------------------------
(***************************************************************************)
(* The network driver (src/drivers/wfp_callout/) with the Windows          *)
(* filtering platform under it and the callers of aegis_wfp_user.dll above *)
(* it: DriverEntry and its rollback, the classify callbacks and their      *)
(* ring, the block, unblock and query requests, and the receipt protocol   *)
(* of the control plane, across restarts of the daemon, of the driver and  *)
(* of the machine.                                                         *)
(*                                                                         *)
(* The platform gives every filter an id it never gives again, holds at    *)
(* most one filter of a key, and forgets with a session what is dynamic    *)
(* and with a boot what is not persistent.                                 *)
(***************************************************************************)
EXTENDS Integers, Sequences, FiniteSets

CONSTANTS
  Clients,      \* threads that run commands of the control plane
  Classifiers,  \* threads in AegisWfpClassifyFn
  Flows,        \* remote address, port and protocol
  NoFlow,       \* stands for no flow in a request
  Size,         \* AEGIS_RING_BUFFER_SIZE
  Header,       \* sizeof(AEGIS_EVENT_HEADER)
  MaxFilters,   \* bound: filters added in a behaviour
  MaxLoads      \* bound: loads of the driver

ASSUME WfpAssumption ==
  /\ Size \in Nat \ {0} /\ Header \in 1 .. Size - 1
  /\ MaxFilters \in Nat /\ MaxLoads \in Nat
  /\ Clients \cap Classifiers = {} /\ NoFlow \notin Flows

Offset == 0 .. Size - 1
Ids == 1 .. MaxFilters

VARIABLES
  driver,   \* the thread in DriverEntry or AegisWfpUnload: what is next
  loads,    \* DriverEntry calls
  owned,    \* what DriverEntry has made and nobody has taken back
  inside,   \* the classifiers past the call of AegisWfpClassifyFn
  write, read,  \* g_RingWriteOffset, g_RingReadOffset
  unread,   \* history: the bytes written and not read, or Size for good once
            \* an event has filled the ring to its last byte
  proofId,  \* g_ProofFilterId, 0 for none
  named,    \* the platform: every filter ever added; its index is its id
  present,  \* the platform: the ids of the filters that are there
  open,     \* the clients whose process holds the device open
  pc,       \* what a client's command does next
  request,  \* the command, its filter id and its flow
  confirmed,  \* history: the receipts reported as enforced or verified
  withdrawn   \* history: the ids somebody has asked to remove

ring == <<write, read, unread>>
platform == <<named, present>>
entry == <<driver, loads, owned>>
client == <<open, pc, request>>
reports == <<confirmed, withdrawn>>
vars == <<entry, inside, ring, proofId, platform, client, reports>>

Asked(command, id, flow) == [command |-> command, id |-> id, flow |-> flow]
NoRequest == Asked("none", 0, NoFlow)

Init ==
  /\ driver = "unloaded" /\ loads = 0 /\ owned = {} /\ inside = {}
  /\ write = 0 /\ read = 0 /\ unread = 0 /\ proofId = 0
  /\ named = <<>> /\ present = {}
  /\ open = {}
  /\ pc = [c \in Clients |-> "idle"]
  /\ request = [c \in Clients |-> NoRequest]
  /\ confirmed = {} /\ withdrawn = {}

-----------------------------------------------------------------------------
(* The platform *)

\* The filter AegisWfpBlockFlow asks for: our key, and persistent.
ProofFilter(flow) == [ours |-> TRUE, persistent |-> TRUE, flow |-> flow]
OtherFilter(flow) == [ours |-> FALSE, persistent |-> TRUE, flow |-> flow]

ProofIds == {id \in present : named[id].ours}

Adds(filter) ==
  /\ Len(named) < MaxFilters
  /\ named' = Append(named, filter)
  /\ present' = present \cup {Len(named) + 1}

Deletes(id) == present' = present \ {id} /\ UNCHANGED named

\* Another program, or an administrator, changes filters as it likes.
OtherAdds ==
  /\ \E flow \in Flows : Adds(OtherFilter(flow))
  /\ UNCHANGED <<entry, inside, ring, proofId, client, reports>>

OtherDeletes ==
  /\ \E id \in present : Deletes(id) /\ withdrawn' = withdrawn \cup {id}
  /\ UNCHANGED <<entry, inside, ring, proofId, client, confirmed>>

-----------------------------------------------------------------------------
(* DriverEntry.  Every step may fail; what follows undoes the others.       *)

Begin ==
  /\ driver = "unloaded"
  /\ loads < MaxLoads
  /\ loads' = loads + 1
  /\ proofId' = 0 /\ write' = 0 /\ read' = 0 /\ unread' = 0
  /\ \/ driver' = "link" /\ owned' = {"device"}
     \/ UNCHANGED <<driver, owned>>
  /\ UNCHANGED <<inside, platform, client, reports>>

Entry(step, thing, next, undo) ==
  /\ driver = step
  /\ \/ driver' = next /\ owned' = owned \cup {thing}
     \/ driver' = undo /\ UNCHANGED owned
  /\ UNCHANGED <<loads, inside, ring, proofId, platform, client, reports>>

Undo(step, things, next) ==
  /\ driver = step
  /\ driver' = next
  /\ owned' = owned \ things
  /\ UNCHANGED <<loads, inside, ring, proofId, platform, client, reports>>

CreateLink == Entry("link", "link", "ring", "deleteDevice")
AllocateRing == Entry("ring", "ring", "engine", "deleteLink")
OpenEngine == Entry("engine", "engine", "recover", "freeRing")

RecoverAndRemove ==
  /\ driver = "recover"
  /\ driver' = "callout"
  /\ present' = present \ ProofIds
  /\ UNCHANGED <<loads, owned, inside, ring, proofId, named, client, reports>>

\* The proof filter of an earlier life of the driver is found by its key; not
\* to find one is normal, another error is fatal.
RecoverProof ==
  /\ driver = "recover"
  /\ \/ driver' = "callout" /\ ProofIds = {} /\ UNCHANGED proofId
     \/ driver' = "callout" /\ proofId' \in ProofIds
     \/ driver' = "closeEngine" /\ UNCHANGED proofId
  /\ UNCHANGED <<loads, owned, inside, ring, platform, client, reports>>

AddCallout == Entry("callout", "callout", "register", "closeEngine")
RegisterCallout == Entry("register", "runtime", "capture", "deleteCallout")

AddCapture == Entry("capture", "capture", "loaded", "unregister")

-----------------------------------------------------------------------------
(* AegisWfpUnload, whose steps are also DriverEntry's rollback *)

\* Windows holds the unload back while a handle is open on the device.
Unload ==
  /\ open = {}
  /\ Undo("loaded", {}, "unregister")

UnregisterForgotten ==
  Undo("unregister", {}, IF "capture" \in owned THEN "deleteCapture" ELSE "deleteCallout")

\* FwpsCalloutUnregisterById0 waits for the classifications that run.
UnregisterCallout ==
  /\ inside = {}
  /\ Undo("unregister", {"runtime"},
          IF "capture" \in owned THEN "deleteCapture" ELSE "deleteCallout")

DeleteCapture == Undo("deleteCapture", {"capture"}, "closeEngine")
DeleteCallout == Undo("deleteCallout", {"callout"}, "closeEngine")

\* What the dynamic session still holds goes with it.
CloseEngine == Undo("closeEngine", {"engine", "callout", "capture"}, "freeRing")
FreeRing == Undo("freeRing", {"ring"}, "deleteLink")
DeleteLink == Undo("deleteLink", {"link"}, "deleteDevice")
DeleteDevice == Undo("deleteDevice", {"device"}, "unloaded")

DriverStep ==
  \/ CreateLink \/ AllocateRing \/ OpenEngine \/ RecoverProof
  \/ AddCallout \/ RegisterCallout \/ AddCapture
  \/ UnregisterCallout \/ DeleteCapture \/ DeleteCallout \/ CloseEngine
  \/ FreeRing \/ DeleteLink \/ DeleteDevice

-----------------------------------------------------------------------------
(* The ring: a writer that counts the bytes used, a reader that subtracts   *)

UsedUnwrapped == IF write >= read THEN write - read ELSE read - write
Used == IF write >= read THEN write - read ELSE Size - read + write

Available == (write - read) % Size

Advance(position, bytes) == (position + bytes) % Size

\* A packet reaches the callout through the capture filter.
ClassifyBegins(t) ==
  /\ t \in Classifiers \ inside
  /\ {"capture", "runtime"} \subseteq owned
  /\ inside' = inside \cup {t}
  /\ UNCHANGED <<entry, ring, proofId, platform, client, reports>>

\* AegisWfpClassifyFn; an event that has no room is dropped.
Classify(t) ==
  /\ t \in inside
  /\ IF Header <= Size - Used
     THEN /\ write' = Advance(write, Header)
          /\ unread' = IF unread < Size THEN unread + Header ELSE Size
     ELSE UNCHANGED <<write, unread>>
  /\ inside' = inside \ {t}
  /\ UNCHANGED <<entry, read, proofId, platform, client, reports>>

\* AegisWfpReadEvents: as many bytes as there are and as the buffer takes.
ReadEvents ==
  /\ driver = "loaded" /\ open # {}
  /\ \E outSize \in 1 .. Header + 1 :
       LET toCopy == IF Available < outSize THEN Available ELSE outSize
       IN  /\ read' = Advance(read, toCopy)
           /\ unread' = IF unread < Size THEN unread - toCopy ELSE Size
  /\ UNCHANGED <<entry, inside, write, proofId, platform, client, reports>>

-----------------------------------------------------------------------------
(* Commands.  Adapter::load opens the device and nothing closes it again    *)
(* while the process lives.                                                 *)

Goes(c, from, to) == pc[c] = from /\ pc' = [pc EXCEPT ![c] = to]

Command(c, command, id, flow, first) ==
  /\ driver = "loaded"
  /\ Goes(c, "idle", first)
  /\ open' = open \cup {c}
  /\ request' = [request EXCEPT ![c] = Asked(command, id, flow)]
  /\ UNCHANGED <<entry, inside, ring, proofId, platform, confirmed>>

\* enforcement.block, enforcement.verify and enforcement.unblock.  The last two
\* take any id, and the ownership of a filter is for the driver to test.
BlockCommand(c) ==
  \E flow \in Flows : Command(c, "block", 0, flow, "add") /\ UNCHANGED withdrawn

VerifyCommand(c) ==
  \E id \in 1 .. Len(named), flow \in Flows :
    Command(c, "verify", id, flow, "query") /\ UNCHANGED withdrawn

UnblockCommand(c) ==
  \E id \in 1 .. Len(named) :
    Command(c, "unblock", id, NoFlow, "own") /\ withdrawn' = withdrawn \cup {id}

Ends(c, from) ==
  /\ Goes(c, from, "idle")
  /\ request' = [request EXCEPT ![c] = NoRequest]

\* The request failed and the command reports that.
Fails(c, from) ==
  /\ Ends(c, from)
  /\ UNCHANGED <<entry, inside, ring, proofId, platform, open, reports>>

\* AegisWfpBlockFlow up to FwpmFilterAdd0, which refuses a second filter of a key.
AddFilter(c) ==
  \/ Fails(c, "add")
  \/ /\ ProofIds = {}
     /\ Adds(ProofFilter(request[c].flow))
     /\ request' = [request EXCEPT ![c] = Asked("block", Len(named) + 1, @.flow)]
     /\ Goes(c, "add", "note")
     /\ UNCHANGED <<entry, inside, ring, proofId, open, reports>>

\* The rest of AegisWfpBlockFlow; closing its session takes what is dynamic.
NoteProof(c) ==
  /\ Goes(c, "note", "query")
  /\ proofId' = request[c].id
  /\ present' = {id \in present : id # request[c].id \/ named[id].persistent}
  /\ UNCHANGED <<entry, inside, ring, named, open, request, reports>>

MatchesProof(filter, flow) == filter.ours /\ filter.flow = flow

\* AegisWfpQueryFilter, and what the command makes of its answer: a block that
\* is not confirmed, or whose query fails, is taken back.
QueryFilter(c) ==
  LET id == request[c].id
      flow == request[c].flow
  IN  /\ \/ /\ request[c].command \in {"block", "verify"}
            /\ id \in present /\ MatchesProof(named[id], flow)
            /\ confirmed' = confirmed \cup {[id |-> id, flow |-> flow]}
            /\ Ends(c, "query")
            /\ UNCHANGED withdrawn
         \/ /\ request[c].command = "block"
            /\ Goes(c, "query", "own")
            /\ withdrawn' = withdrawn \cup {id}
            /\ UNCHANGED <<request, confirmed>>
         \/ /\ request[c].command \in {"verify", "unblock"}
            /\ Ends(c, "query")
            /\ UNCHANGED reports
      /\ UNCHANGED <<entry, inside, ring, proofId, platform, open>>

OwnedUnchecked(id) == id \in present
Owned(id) == id \in present /\ named[id].ours

\* AegisWfpUnblockFlow up to the ownership test.
TestOwner(c) ==
  \/ Fails(c, "own")
  \/ /\ Owned(request[c].id)
     /\ Goes(c, "own", "delete")
     /\ UNCHANGED <<entry, inside, ring, proofId, platform, open, request, reports>>

\* FwpmFilterDeleteById0, apart from the test: the filter may be gone by now.
DeleteFilter(c) ==
  \/ Fails(c, "delete")
  \/ /\ request[c].id \in present
     /\ Deletes(request[c].id)
     /\ Goes(c, "delete", "clear")
     /\ UNCHANGED <<entry, inside, ring, proofId, open, request, reports>>

\* The rest of AegisWfpUnblockFlow; the unblock command then asks whether the
\* filter is absent, the cleanup after a block does not.
ClearProof(c) ==
  /\ \/ request[c].command = "unblock" /\ Goes(c, "clear", "query") /\ UNCHANGED request
     \/ request[c].command = "block" /\ Ends(c, "clear")
  /\ proofId' = 0
  /\ UNCHANGED <<entry, inside, ring, platform, open, reports>>

Request(c) ==
  AddFilter(c) \/ NoteProof(c) \/ QueryFilter(c) \/ TestOwner(c)
    \/ DeleteFilter(c) \/ ClearProof(c)

\* The daemon ends, between two requests: Windows lets none be cut short.
ClientDies(c) ==
  /\ c \in open
  /\ pc[c] \in {"idle", "query", "own"}
  /\ pc' = [pc EXCEPT ![c] = "idle"]
  /\ request' = [request EXCEPT ![c] = NoRequest]
  /\ open' = open \ {c}
  /\ UNCHANGED <<entry, inside, ring, proofId, platform, reports>>

\* The machine restarts, at any moment.
Reboot ==
  /\ driver # "unloaded"
  /\ driver' = "unloaded" /\ owned' = {} /\ inside' = {}
  /\ open' = {} /\ pc' = [c \in Clients |-> "idle"]
  /\ request' = [c \in Clients |-> NoRequest]
  /\ present' = {id \in present : named[id].persistent}
  /\ UNCHANGED <<loads, ring, proofId, named, reports>>

Next ==
  \/ OtherAdds \/ OtherDeletes
  \/ Begin \/ Unload \/ DriverStep
  \/ \E t \in Classifiers : ClassifyBegins(t) \/ Classify(t)
  \/ ReadEvents
  \/ \E c \in Clients :
       BlockCommand(c) \/ VerifyCommand(c) \/ UnblockCommand(c)
         \/ Request(c) \/ ClientDies(c)
  \/ Reboot

Spec == Init /\ [][Next]_vars

-----------------------------------------------------------------------------
TypeOK ==
  /\ driver \in {"unloaded", "link", "ring", "engine", "recover", "callout",
                 "register", "capture", "loaded", "unregister", "deleteCapture",
                 "deleteCallout", "closeEngine", "freeRing", "deleteLink",
                 "deleteDevice"}
  /\ loads \in 0 .. MaxLoads
  /\ owned \subseteq {"device", "link", "ring", "engine", "callout", "runtime", "capture"}
  /\ inside \subseteq Classifiers
  /\ write \in Offset /\ read \in Offset /\ unread \in 0 .. Size
  /\ proofId \in 0 .. Len(named)
  /\ named \in Seq([ours : BOOLEAN, persistent : BOOLEAN, flow : Flows])
  /\ present \subseteq 1 .. Len(named) /\ Len(named) <= MaxFilters
  /\ open \subseteq Clients
  /\ pc \in [Clients -> {"idle", "add", "note", "query", "own", "delete", "clear"}]
  /\ request \in [Clients -> [command : {"none", "block", "verify", "unblock"},
                              id : 0 .. MaxFilters, flow : Flows \cup {NoFlow}]]
  /\ confirmed \subseteq [id : Ids, flow : Flows] /\ withdrawn \subseteq Ids

(* A packet that is being classified finds the ring it writes to, and the    *)
(* callout is gone before the ring is freed, in an unload and in a rollback. *)
RingOutlivesItsUsers == inside # {} => "ring" \in owned

(* However far DriverEntry came, a driver that is not loaded leaves nothing  *)
(* in the kernel that names it.                                              *)
NothingLeftBehind == driver = "unloaded" => owned = {}

(* The ring, and every hook into Windows, lives as long as its users.        *)
LifetimesNest == TypeOK /\ RingOutlivesItsUsers /\ NothingLeftBehind

(* Until an event fills the ring to its last byte, the callout counts and    *)
(* the reader finds exactly the bytes that have been written and not read,   *)
(* also when an event lies across the end of the ring: none is written over, *)
(* none is offered twice.  (A ring that is exactly full is taken for empty,  *)
(* by both sides.)                                                           *)
WrittenIsReadable == unread < Size => Used = unread /\ Available = unread

(* A receipt is confirmed only for a filter of ours that blocks its very     *)
(* flow, whatever other programs have added to the platform.                 *)
ConfirmedIsOurs == \A r \in confirmed : named[r.id] = ProofFilter(r.flow)

(* What was reported as enforced or verified is in force, through restarts   *)
(* of the daemon, of the driver and of the machine, until somebody asks for  *)
(* that very filter's removal.                                               *)
EnforcedUntilWithdrawn ==
  \A r \in confirmed : r.id \notin withdrawn => r.id \in present

(* A receipt is true when it is given, and stays true.                       *)
ReceiptsHold == ConfirmedIsOurs /\ EnforcedUntilWithdrawn

(* No command, no load and no restart removes a filter of another program:   *)
(* only a program's own hand does, whatever id an operator passes and        *)
(* whatever happens between the test of its owner and its removal.           *)
OthersAreKept ==
  [][\A id \in present \ present' : named[id].ours \/ OtherDeletes]_vars
=============================================================================
