--------------------------- MODULE WfpDriverProofs ---------------------------
(***************************************************************************)
(* Proofs about WfpDriver: for any clients, classifiers and flows, any     *)
(* sizes of the ring and of an event, and any number of filters and loads. *)
(***************************************************************************)
EXTENDS WfpDriver, SequenceTheorems, TLAPS

-----------------------------------------------------------------------------
(* The inductive invariant *)

(* What DriverEntry has made at each of its places, and what is left of it at
   each place of the rollback and of the unload. *)
Owns ==
  /\ "device" \in owned => driver # "unloaded"
  /\ "link" \in owned => driver \notin {"unloaded", "link", "deleteDevice"}
  /\ "ring" \in owned <=> driver \notin {"unloaded", "link", "ring", "deleteLink",
                                         "deleteDevice"}
  /\ "engine" \in owned => driver \notin {"unloaded", "link", "ring", "engine",
                                          "freeRing", "deleteLink", "deleteDevice"}
  /\ "callout" \in owned => driver \in {"register", "capture", "loaded", "unregister",
                                        "deleteCapture", "deleteCallout", "closeEngine"}
  /\ "capture" \in owned => driver \in {"loaded", "unregister", "deleteCapture"}
  /\ "runtime" \in owned => driver \in {"capture", "loaded", "unregister"}

(* Windows has waited for the classifications when the callout is gone. *)
Inside == inside # {} => "runtime" \in owned

(* Every filter outlives a session and a boot: ours asks for it. *)
Persists == \A id \in 1 .. Len(named) : named[id].persistent

(* A command that goes on to a filter names one that was added; one that goes
   on to remove it has asked to; one that removes it has found it ours, and
   what has been found ours stays ours, for ids are never given again. *)
Pending ==
  \A c \in Clients :
    /\ pc[c] = "add" => request[c].flow \in Flows
    /\ pc[c] \in {"note", "query", "own", "delete", "clear"}
         => request[c].id \in 1 .. Len(named)
    /\ pc[c] \in {"own", "delete", "clear"} => request[c].id \in withdrawn
    /\ pc[c] = "delete" => named[request[c].id].ours

(* A receipt is of a filter that was added, blocks its flow, and is there
   until its removal is asked for. *)
Receipts ==
  \A r \in confirmed :
    /\ r.id \in 1 .. Len(named)
    /\ named[r.id] = ProofFilter(r.flow)
    /\ r.id \notin withdrawn => r.id \in present

(* What the reader finds is what was written and not read. *)
Unread == unread < Size => Available = unread

IInv == TypeOK /\ Owns /\ Inside /\ Persists /\ Pending /\ Receipts /\ Unread

Filters == [ours : BOOLEAN, persistent : BOOLEAN, flow : Flows]
Requests == [command : {"none", "block", "verify", "unblock"},
             id : 0 .. MaxFilters, flow : Flows \cup {NoFlow}]

-----------------------------------------------------------------------------
(* Lemmas: positions of the ring *)

LEMMA Sizes ==
  /\ Size \in Nat /\ Size > 0 /\ Offset = 0 .. Size - 1
  /\ Header \in Nat /\ Header < Size
BY WfpAssumption DEF Offset

LEMMA Advances ==
  ASSUME NEW p \in Int, NEW n \in Int
  PROVE  Advance(p, n) \in Offset
<1>1. p + n \in Int /\ Size \in Nat /\ Size > 0 /\ Offset = 0 .. Size - 1
  BY Sizes
<1>2. QED
  BY <1>1 DEF Advance

(* The remainder of a difference of two offsets is the distance between them,
   around the end of the buffer. *)
LEMMA Distance ==
  ASSUME NEW w \in Offset, NEW r \in Offset
  PROVE  (w - r) % Size = IF w >= r THEN w - r ELSE (Size - r) + w
<1>1. /\ Size \in Nat /\ Size > 0
      /\ w \in 0 .. Size - 1 /\ r \in 0 .. Size - 1
  BY Sizes
<1> DEFINE d == w - r
           p == d \div Size
           m == d % Size
<1>2. /\ p \in Int /\ m \in 0 .. Size - 1 /\ d = Size * p + m
      /\ d \in Int /\ d = w - r
  BY <1>1
<1> HIDE DEF d, p, m
<1>3. CASE p <= -2
  BY <1>1, <1>2, <1>3
<1>4. CASE p = -1
  <2>1. d = m - Size
    BY <1>1, <1>2, <1>4
  <2>2. m = IF w >= r THEN w - r ELSE (Size - r) + w
    BY <2>1, <1>1, <1>2
  <2>3. QED
    BY <2>2 DEF m, d
<1>5. CASE p = 0
  <2>1. d = m
    BY <1>1, <1>2, <1>5
  <2>2. m = IF w >= r THEN w - r ELSE (Size - r) + w
    BY <2>1, <1>1, <1>2
  <2>3. QED
    BY <2>2 DEF m, d
<1>6. CASE p >= 1
  BY <1>1, <1>2, <1>6
<1>7. QED
  BY <1>2, <1>3, <1>4, <1>5, <1>6

LEMMA FillAtStart == (0 - 0) % Size = 0
BY Distance, Sizes

(* One lap at most is taken off a position. *)
LEMMA OneLap ==
  ASSUME NEW n \in 0 .. 2 * Size - 1
  PROVE  /\ n % Size \in Offset
         /\ n < Size => n % Size = n
         /\ n >= Size => n % Size = n - Size
<1>1. Size \in Nat /\ Size > 0 /\ Offset = 0 .. Size - 1
  BY Sizes
<1> DEFINE p == n \div Size
           m == n % Size
<1>2. p \in Int /\ m \in 0 .. Size - 1 /\ n = Size * p + m
  BY <1>1
<1> HIDE DEF p, m
<1>3. CASE p <= -1
  BY <1>1, <1>2, <1>3
<1>4. CASE p = 0
  <2>1. n = m
    BY <1>1, <1>2, <1>4
  <2>2. QED
    BY <2>1, <1>1, <1>2 DEF m
<1>5. CASE p = 1
  <2>1. n = Size + m
    BY <1>1, <1>2, <1>5
  <2>2. QED
    BY <2>1, <1>1, <1>2 DEF m
<1>6. CASE p >= 2
  BY <1>1, <1>2, <1>6
<1>7. QED
  BY <1>2, <1>3, <1>4, <1>5, <1>6

(* Writing on adds to the distance, unless it goes all the way round; reading
   on takes from it. *)
LEMMA Moves ==
  ASSUME NEW w \in Offset, NEW r \in Offset, NEW n \in Nat, NEW u \in Nat,
         u = (w - r) % Size
  PROVE  /\ u + n < Size => (Advance(w, n) - r) % Size = u + n
         /\ n <= u => (w - Advance(r, n)) % Size = u - n
<1>1. /\ Size \in Nat /\ Size > 0 /\ Offset = 0 .. Size - 1
      /\ w \in 0 .. Size - 1 /\ r \in 0 .. Size - 1
  BY Sizes
<1>2. u = IF w >= r THEN w - r ELSE (Size - r) + w
  BY Distance
<1>3. ASSUME u + n < Size PROVE (Advance(w, n) - r) % Size = u + n
  <2>1. w + n \in 0 .. 2 * Size - 1
    BY <1>1, <1>2, <1>3
  <2> DEFINE v == Advance(w, n)
  <2>2. /\ v \in Offset /\ v \in 0 .. Size - 1
        /\ w + n < Size => v = w + n
        /\ w + n >= Size => v = (w + n) - Size
    BY <2>1, <1>1, OneLap DEF Advance
  <2> HIDE DEF v
  <2>3. (v - r) % Size = IF v >= r THEN v - r ELSE (Size - r) + v
    BY <2>2, Distance
  <2>4. (IF v >= r THEN v - r ELSE (Size - r) + v) = u + n
    BY <1>1, <1>2, <1>3, <2>2
  <2>5. QED
    BY <2>3, <2>4 DEF v
<1>4. ASSUME n <= u PROVE (w - Advance(r, n)) % Size = u - n
  <2>1. r + n \in 0 .. 2 * Size - 1
    BY <1>1, <1>2, <1>4
  <2> DEFINE v == Advance(r, n)
  <2>2. /\ v \in Offset /\ v \in 0 .. Size - 1
        /\ r + n < Size => v = r + n
        /\ r + n >= Size => v = (r + n) - Size
    BY <2>1, <1>1, OneLap DEF Advance
  <2> HIDE DEF v
  <2>3. (w - v) % Size = IF w >= v THEN w - v ELSE (Size - v) + w
    BY <2>2, Distance
  <2>4. (IF w >= v THEN w - v ELSE (Size - v) + w) = u - n
    BY <1>1, <1>2, <1>4, <2>2
  <2>5. QED
    BY <2>3, <2>4 DEF v
<1>5. QED
  BY <1>3, <1>4

-----------------------------------------------------------------------------
(* The initial state *)

LEMMA InitIInv == Init => IInv
<1> SUFFICES ASSUME Init PROVE IInv
  OBVIOUS
<1>1. named \in Seq(Filters) /\ Len(named) = 0
  BY DEF Init
<1>2. 0 \in Offset /\ 0 \in 0 .. Size /\ 0 \in 0 .. MaxLoads /\ 0 \in 0 .. MaxFilters /\ 0 <= MaxFilters
  BY WfpAssumption DEF Offset
<1>3. NoRequest \in Requests
  BY <1>2 DEF NoRequest, Asked, Requests
<1>4. request \in [Clients -> Requests]
  BY <1>3 DEF Init
<1>5. 0 \in 0 .. Len(named)
  BY <1>1
<1>6. TypeOK
  BY <1>1, <1>2, <1>4, <1>5 DEF Init, TypeOK, Filters, Requests
<1>7. Owns /\ Inside /\ Receipts
  BY DEF Init, Owns, Inside, Receipts
<1>8. Persists /\ Pending
  BY <1>1 DEF Init, Persists, Pending
<1>9. Unread
  BY FillAtStart DEF Init, Unread, Available
<1>10. QED
  BY <1>6, <1>7, <1>8, <1>9 DEF IInv

-----------------------------------------------------------------------------
(* DriverEntry, its rollback and the unload *)

EntryType ==
  /\ driver \in {"unloaded", "link", "ring", "engine", "recover", "callout",
                 "register", "capture", "loaded", "unregister", "deleteCapture",
                 "deleteCallout", "closeEngine", "freeRing", "deleteLink",
                 "deleteDevice"}
  /\ loads \in 0 .. MaxLoads
  /\ owned \subseteq {"device", "link", "ring", "engine", "callout", "runtime", "capture"}
  /\ inside \subseteq Classifiers

(* No command moves the driver. *)
LEMMA RequestsLeaveEntry ==
  ASSUME NEW c \in Clients, Request(c) \/ ClientDies(c)
  PROVE  UNCHANGED <<entry, inside, ring>>
BY DEF Request, AddFilter, NoteProof, QueryFilter, TestOwner, DeleteFilter, ClearProof,
       Fails, ClientDies

LEMMA CommandsLeaveEntry ==
  ASSUME NEW c \in Clients, BlockCommand(c) \/ VerifyCommand(c) \/ UnblockCommand(c)
  PROVE  UNCHANGED <<entry, inside, ring>>
BY DEF BlockCommand, VerifyCommand, UnblockCommand, Command

LEMMA EntryStep ==
  ASSUME TypeOK, Owns, Inside, [Next]_vars
  PROVE  EntryType' /\ Owns' /\ Inside'
<1>0. EntryType
  BY DEF TypeOK, EntryType
<1>1. ASSUME UNCHANGED <<entry, inside>>
      PROVE  EntryType' /\ Owns' /\ Inside'
  BY <1>0, <1>1 DEF entry, EntryType, Owns, Inside
<1>2. CASE OtherAdds \/ OtherDeletes \/ ReadEvents
  BY <1>1, <1>2 DEF OtherAdds, OtherDeletes, ReadEvents
<1>3. CASE \E c \in Clients :
             BlockCommand(c) \/ VerifyCommand(c) \/ UnblockCommand(c)
               \/ Request(c) \/ ClientDies(c)
  BY <1>1, <1>3, RequestsLeaveEntry, CommandsLeaveEntry
<1>4. CASE Begin
  <2>1. loads' \in 0 .. MaxLoads
    BY <1>0, <1>4, WfpAssumption DEF Begin, EntryType
  <2>2. owned = {} /\ inside = {}
    BY <1>0, <1>4 DEF Begin, EntryType, Owns, Inside
  <2>3. QED
    BY <1>0, <1>4, <2>1, <2>2 DEF Begin, EntryType, Owns, Inside
<1>5. CASE CreateLink \/ AllocateRing \/ OpenEngine
  BY <1>0, <1>5 DEF CreateLink, AllocateRing, OpenEngine, Entry, EntryType, Owns, Inside
<1>6. CASE RecoverProof
  BY <1>0, <1>6 DEF RecoverProof, EntryType, Owns, Inside
<1>7. CASE AddCallout \/ RegisterCallout \/ AddCapture
  BY <1>0, <1>7 DEF AddCallout, RegisterCallout, AddCapture, Entry, EntryType, Owns, Inside
<1>8. CASE Unload
  BY <1>0, <1>8 DEF Unload, Undo, EntryType, Owns, Inside
<1>9. CASE UnregisterCallout
  BY <1>0, <1>9 DEF UnregisterCallout, Undo, EntryType, Owns, Inside
<1>10. CASE DeleteCapture \/ DeleteCallout \/ CloseEngine
  BY <1>0, <1>10 DEF DeleteCapture, DeleteCallout, CloseEngine, Undo, EntryType, Owns, Inside
<1>11. CASE FreeRing \/ DeleteLink \/ DeleteDevice
  BY <1>0, <1>11 DEF FreeRing, DeleteLink, DeleteDevice, Undo, EntryType, Owns, Inside
<1>12. CASE \E t \in Classifiers : ClassifyBegins(t) \/ Classify(t)
  BY <1>0, <1>12 DEF ClassifyBegins, Classify, entry, EntryType, Owns, Inside
<1>13. CASE Reboot
  BY <1>0, <1>13 DEF Reboot, EntryType, Owns, Inside
<1>14. CASE UNCHANGED vars
  BY <1>1, <1>14 DEF vars
<1>15. QED
  BY <1>2, <1>3, <1>4, <1>5, <1>6, <1>7, <1>8, <1>9, <1>10, <1>11, <1>12, <1>13, <1>14
  DEF Next, DriverStep

(* The offsets stay inside the buffer, and the bytes between them are those
   that were written and not read. *)
LEMMA RingStep ==
  ASSUME TypeOK, Unread, [Next]_vars
  PROVE  write' \in Offset /\ read' \in Offset /\ unread' \in 0 .. Size /\ Unread'
<1>0. /\ write \in Offset /\ read \in Offset /\ unread \in 0 .. Size
      /\ write \in 0 .. Size - 1 /\ read \in 0 .. Size - 1
  BY Sizes DEF TypeOK
<1> DEFINE Goal == write' \in Offset /\ read' \in Offset /\ unread' \in 0 .. Size /\ Unread'
<1> SUFFICES Goal
  OBVIOUS
<1>1. ASSUME UNCHANGED ring PROVE Goal
  BY <1>0, <1>1 DEF ring, Unread, Available
<1>2. 0 \in Offset /\ 0 \in 0 .. Size
  BY Sizes
<1>3. write \in Int /\ read \in Int /\ Header \in Nat /\ Size \in Nat /\ Size > 0
  BY <1>0, Sizes
<1>4. CASE Begin
  BY <1>2, <1>4, FillAtStart DEF Begin, Unread, Available
<1>5. CASE \E t \in Classifiers : Classify(t)
  <2>0. read' = read
    BY <1>5 DEF Classify
  <2>1. CASE Header <= Size - Used
    <3>1. /\ write' = Advance(write, Header)
          /\ unread' = IF unread < Size THEN unread + Header ELSE Size
      BY <1>5, <2>1 DEF Classify
    <3>2. write' \in Offset
      BY <3>1, <1>3, Advances
    <3>3. CASE unread < Size
      <4>1. unread = (write - read) % Size /\ unread \in Nat
        BY <3>3, <1>0 DEF Unread, Available
      <4>2. unread = Used
        BY <4>1, <1>0, Distance DEF Used
      <4>3. unread' = unread + Header /\ unread' \in 0 .. Size
        BY <3>1, <3>3, <4>1, <4>2, <2>1, <1>3
      <4>4. unread' < Size => (write' - read) % Size = unread'
        BY <3>1, <4>1, <4>3, <1>0, <1>3, Moves
      <4>5. QED
        BY <2>0, <3>2, <4>3, <4>4, <1>0 DEF Unread, Available
    <3>4. CASE unread = Size
      <4>1. unread' = Size
        BY <3>1, <3>4, <1>3
      <4>2. QED
        BY <2>0, <3>2, <4>1, <1>0, <1>3 DEF Unread
    <3>5. QED
      BY <3>3, <3>4, <1>0, <1>3
  <2>2. CASE ~(Header <= Size - Used)
    BY <1>1, <1>5, <2>0, <2>2 DEF Classify, ring
  <2>3. QED
    BY <2>1, <2>2
<1>6. CASE ReadEvents
  <2>0. write' = write
    BY <1>6 DEF ReadEvents
  <2> DEFINE toCopy(outSize) == IF Available < outSize THEN Available ELSE outSize
  <2>1. PICK outSize \in 1 .. Header + 1 :
          /\ read' = Advance(read, toCopy(outSize))
          /\ unread' = IF unread < Size THEN unread - toCopy(outSize) ELSE Size
    BY <1>6 DEF ReadEvents
  <2> DEFINE n == toCopy(outSize)
  <2>2. Available \in 0 .. Size - 1
    BY <1>3 DEF Available
  <2>3. n \in Nat /\ n <= Available
    BY <2>2, <1>3
  <2> HIDE DEF n
  <2>4. /\ read' = Advance(read, n)
        /\ unread' = IF unread < Size THEN unread - n ELSE Size
    BY <2>1 DEF n
  <2> HIDE DEF toCopy
  <2>5. read' \in Offset
    BY <2>4, <2>3, <1>3, Advances
  <2>6. CASE unread < Size
    <3>1. unread = (write - read) % Size /\ unread \in Nat /\ n <= unread
      BY <2>6, <2>3, <1>0 DEF Unread, Available
    <3>2. unread' = unread - n /\ unread' \in 0 .. Size
      BY <2>4, <2>6, <2>3, <3>1, <1>3
    <3>3. (write - read') % Size = unread'
      BY <2>3, <2>4, <3>1, <3>2, <1>0, Moves
    <3>4. QED
      BY <2>0, <2>5, <3>2, <3>3, <1>0 DEF Unread, Available
  <2>7. CASE unread = Size
    <3>1. unread' = Size
      BY <2>4, <2>7, <1>3
    <3>2. QED
      BY <2>0, <2>5, <3>1, <1>0, <1>3 DEF Unread
  <2>8. QED
    BY <2>6, <2>7, <1>0, <1>3
<1>7. CASE \E c \in Clients :
             BlockCommand(c) \/ VerifyCommand(c) \/ UnblockCommand(c)
               \/ Request(c) \/ ClientDies(c)
  BY <1>1, <1>7, RequestsLeaveEntry, CommandsLeaveEntry
<1>8. CASE OtherAdds \/ OtherDeletes \/ Reboot
  BY <1>1, <1>8 DEF OtherAdds, OtherDeletes, Reboot
<1>9. CASE DriverStep \/ Unload
  BY <1>1, <1>9
  DEF DriverStep, CreateLink, AllocateRing, OpenEngine, RecoverProof, AddCallout,
      RegisterCallout, AddCapture, UnregisterCallout, DeleteCapture, DeleteCallout,
      CloseEngine, FreeRing, DeleteLink, DeleteDevice, Entry, Undo, Unload
<1>10. CASE \E t \in Classifiers : ClassifyBegins(t)
  BY <1>1, <1>10 DEF ClassifyBegins
<1>11. CASE UNCHANGED vars
  BY <1>1, <1>11 DEF vars
<1>12. QED
  BY <1>4, <1>5, <1>6, <1>7, <1>8, <1>9, <1>10, <1>11 DEF Next

-----------------------------------------------------------------------------
(* The platform *)

LEMMA FiltersAre ==
  ASSUME NEW f \in Flows
  PROVE  /\ ProofFilter(f) \in Filters /\ OtherFilter(f) \in Filters
         /\ ProofFilter(f).persistent /\ OtherFilter(f).persistent
BY DEF ProofFilter, OtherFilter, Filters

(* A step adds one filter, which is there, or none. *)
Added ==
  \E f \in Filters :
    /\ f.persistent
    /\ Len(named) < MaxFilters
    /\ named' = Append(named, f)
    /\ present' = present \cup {Len(named) + 1}
    /\ withdrawn' = withdrawn

LEMMA NamedGrows ==
  ASSUME TypeOK, Pending, [Next]_vars
  PROVE  named' = named \/ Added
<1>1. CASE OtherAdds
  <2>1. PICK flow \in Flows : Adds(OtherFilter(flow))
    BY <1>1 DEF OtherAdds
  <2>2. withdrawn' = withdrawn
    BY <1>1 DEF OtherAdds, reports
  <2>3. QED
    BY <2>1, <2>2, FiltersAre DEF Adds, Added
<1>2. CASE \E c \in Clients : AddFilter(c)
  <2>1. PICK c \in Clients : AddFilter(c)
    BY <1>2
  <2>2. CASE Fails(c, "add")
    BY <2>2 DEF Fails, platform
  <2>3. CASE ~Fails(c, "add")
    <3>1. Adds(ProofFilter(request[c].flow)) /\ pc[c] = "add" /\ withdrawn' = withdrawn
      BY <2>1, <2>3 DEF AddFilter, Goes, reports
    <3>2. request[c].flow \in Flows
      BY <3>1 DEF Pending
    <3>3. QED
      BY <3>1, <3>2, FiltersAre DEF Adds, Added
  <2>4. QED
    BY <2>2, <2>3
<1>3. CASE \E c \in Clients : NoteProof(c) \/ QueryFilter(c) \/ TestOwner(c)
                                \/ DeleteFilter(c) \/ ClearProof(c) \/ ClientDies(c)
  BY <1>3 DEF NoteProof, QueryFilter, TestOwner, DeleteFilter, ClearProof, ClientDies,
              Fails, Deletes, platform
<1>4. CASE \E c \in Clients : BlockCommand(c) \/ VerifyCommand(c) \/ UnblockCommand(c)
  BY <1>4 DEF BlockCommand, VerifyCommand, UnblockCommand, Command, platform
<1>5. CASE OtherDeletes \/ Reboot \/ Begin \/ ReadEvents
  BY <1>5 DEF OtherDeletes, Deletes, Reboot, Begin, ReadEvents, platform
<1>6. CASE DriverStep \/ Unload
  BY <1>6
  DEF DriverStep, CreateLink, AllocateRing, OpenEngine, RecoverProof, AddCallout,
      RegisterCallout, AddCapture, UnregisterCallout, DeleteCapture, DeleteCallout,
      CloseEngine, FreeRing, DeleteLink, DeleteDevice, Entry, Undo, Unload, platform
<1>7. CASE \E t \in Classifiers : ClassifyBegins(t) \/ Classify(t)
  BY <1>7 DEF ClassifyBegins, Classify, platform
<1>8. CASE UNCHANGED vars
  BY <1>8 DEF vars, platform
<1>9. QED
  BY <1>1, <1>2, <1>3, <1>4, <1>5, <1>6, <1>7, <1>8 DEF Next, Request

(* An id keeps the filter it was given to. *)
LEMMA NamedStep ==
  ASSUME TypeOK, Pending, Persists, [Next]_vars
  PROVE  /\ named' \in Seq(Filters)
         /\ Len(named') \in Nat /\ Len(named) \in Nat
         /\ Len(named) <= Len(named') /\ Len(named') <= MaxFilters
         /\ \A id \in 1 .. Len(named) : named'[id] = named[id]
         /\ Persists'
<1>1. named \in Seq(Filters) /\ Len(named) \in Nat /\ Len(named) <= MaxFilters
  BY DEF TypeOK, Filters
<1>2. CASE named' = named
  BY <1>1, <1>2 DEF Persists
<1>3. CASE Added
  <2>1. PICK f \in Filters : /\ f.persistent /\ Len(named) < MaxFilters
                             /\ named' = Append(named, f)
    BY <1>3 DEF Added
  <2>2. /\ named' \in Seq(Filters)
        /\ Len(named') = Len(named) + 1
        /\ \A id \in 1 .. Len(named) : named'[id] = named[id]
        /\ named'[Len(named) + 1] = f
    BY <1>1, <2>1, AppendProperties
  <2>3. Persists'
    BY <1>1, <2>1, <2>2 DEF Persists
  <2>4. QED
    BY <1>1, <2>1, <2>2, <2>3, WfpAssumption
<1>4. QED
  BY <1>2, <1>3, NamedGrows

(* A filter goes only when its removal was asked for, and ours only by us. *)
LEMMA PresentStep ==
  ASSUME TypeOK, Pending, Persists, [Next]_vars
  PROVE  /\ present' \subseteq 1 .. Len(named')
         /\ \A id \in present \ present' :
              id \in withdrawn' /\ (named[id].ours \/ OtherDeletes)
<1>0. present \subseteq 1 .. Len(named)
  BY DEF TypeOK
<1>1. 1 .. Len(named) \subseteq 1 .. Len(named')
  BY NamedStep
<1> DEFINE Good ==
      /\ present' \subseteq 1 .. Len(named')
      /\ \A id \in present \ present' :
           id \in withdrawn' /\ (named[id].ours \/ OtherDeletes)
<1>2. ASSUME present' = present PROVE Good
  BY <1>0, <1>1, <1>2
<1>3. ASSUME Added PROVE Good
  <2>1. PICK f \in Filters : /\ named' = Append(named, f)
                             /\ present' = present \cup {Len(named) + 1}
    BY <1>3 DEF Added
  <2>2. named \in Seq(Filters)
    BY DEF TypeOK, Filters
  <2>3. Len(named') = Len(named) + 1 /\ Len(named) \in Nat
    BY <2>1, <2>2
  <2>4. present' \subseteq 1 .. Len(named')
    <3>1. Len(named) + 1 \in 1 .. Len(named')
      BY <2>3
    <3>2. present \subseteq 1 .. Len(named')
      BY <1>0, <1>1
    <3>3. QED
      BY <2>1, <3>1, <3>2
  <2>5. present \ present' = {}
    BY <2>1
  <2>6. QED
    BY <2>4, <2>5
<1>4. ASSUME present' = {id \in present : named[id].persistent} PROVE Good
  <2>1. present' = present
    BY <1>0, <1>4 DEF Persists
  <2>2. QED
    BY <2>1, <1>2
<1>5. CASE OtherDeletes
  BY <1>0, <1>1, <1>5 DEF OtherDeletes, Deletes
<1>6. CASE \E c \in Clients : DeleteFilter(c)
  <2>1. PICK c \in Clients : DeleteFilter(c)
    BY <1>6
  <2>2. CASE Fails(c, "delete")
    BY <1>2, <2>2 DEF Fails, platform
  <2>3. CASE ~Fails(c, "delete")
    <3>1. /\ present' = present \ {request[c].id}
          /\ pc[c] = "delete" /\ withdrawn' = withdrawn
      BY <2>1, <2>3 DEF DeleteFilter, Deletes, Goes, reports
    <3>2. request[c].id \in withdrawn' /\ named[request[c].id].ours
      BY <3>1 DEF Pending
    <3>3. QED
      BY <1>0, <1>1, <3>1, <3>2
  <2>4. QED
    BY <2>2, <2>3
<1>7. CASE \E c \in Clients : NoteProof(c)
  <2>1. PICK c \in Clients : NoteProof(c)
    BY <1>7
  <2>2. present' = present
    BY <1>0, <2>1 DEF NoteProof, Persists
  <2>3. QED
    BY <2>2, <1>2
<1>8. CASE Reboot
  BY <1>4, <1>8 DEF Reboot
<1>9. CASE OtherAdds
  <2>1. PICK flow \in Flows : Adds(OtherFilter(flow))
    BY <1>9 DEF OtherAdds
  <2>2. withdrawn' = withdrawn
    BY <1>9 DEF OtherAdds, reports
  <2>3. QED
    BY <1>3, <2>1, <2>2, FiltersAre DEF Adds, Added
<1>10. CASE \E c \in Clients : AddFilter(c)
  <2>1. PICK c \in Clients : AddFilter(c)
    BY <1>10
  <2>2. CASE Fails(c, "add")
    BY <1>2, <2>2 DEF Fails, platform
  <2>3. CASE ~Fails(c, "add")
    <3>1. Adds(ProofFilter(request[c].flow)) /\ pc[c] = "add" /\ withdrawn' = withdrawn
      BY <2>1, <2>3 DEF AddFilter, Goes, reports
    <3>2. request[c].flow \in Flows
      BY <3>1 DEF Pending
    <3>3. QED
      BY <1>3, <3>1, <3>2, FiltersAre DEF Adds, Added
  <2>4. QED
    BY <2>2, <2>3
<1>11. CASE \E c \in Clients : QueryFilter(c) \/ TestOwner(c) \/ ClearProof(c)
                                 \/ ClientDies(c)
  BY <1>2, <1>11 DEF QueryFilter, TestOwner, ClearProof, ClientDies, Fails, platform
<1>12. CASE \E c \in Clients : BlockCommand(c) \/ VerifyCommand(c) \/ UnblockCommand(c)
  BY <1>2, <1>12 DEF BlockCommand, VerifyCommand, UnblockCommand, Command, platform
<1>13. CASE Begin \/ ReadEvents
  BY <1>2, <1>13 DEF Begin, ReadEvents, platform
<1>14. CASE DriverStep \/ Unload
  BY <1>2, <1>14
  DEF DriverStep, CreateLink, AllocateRing, OpenEngine, RecoverProof, AddCallout,
      RegisterCallout, AddCapture, UnregisterCallout, DeleteCapture, DeleteCallout,
      CloseEngine, FreeRing, DeleteLink, DeleteDevice, Entry, Undo, Unload, platform
<1>15. CASE \E t \in Classifiers : ClassifyBegins(t) \/ Classify(t)
  BY <1>2, <1>15 DEF ClassifyBegins, Classify, platform
<1>16. CASE UNCHANGED vars
  BY <1>2, <1>16 DEF vars, platform
<1>17. QED
  BY <1>5, <1>6, <1>7, <1>8, <1>9, <1>10, <1>11, <1>12, <1>13, <1>14, <1>15, <1>16
  DEF Next, Request

(* The driver remembers the id of a filter that was added. *)
LEMMA ProofIdStep ==
  ASSUME TypeOK, Pending, Persists, [Next]_vars
  PROVE  proofId' \in 0 .. Len(named')
<1>0. /\ proofId \in 0 .. Len(named) /\ present \subseteq 1 .. Len(named)
      /\ Len(named) \in Nat /\ Len(named') \in Nat /\ Len(named) <= Len(named')
  BY NamedStep DEF TypeOK
<1>1. ASSUME proofId' = proofId \/ proofId' = 0 \/ proofId' \in 1 .. Len(named)
      PROVE  proofId' \in 0 .. Len(named')
  BY <1>0, <1>1
<1>2. CASE Begin
  BY <1>1, <1>2 DEF Begin
<1>3. CASE RecoverProof
  BY <1>0, <1>1, <1>3 DEF RecoverProof, ProofIds
<1>4. CASE \E c \in Clients : NoteProof(c)
  <2>1. PICK c \in Clients : NoteProof(c)
    BY <1>4
  <2>2. request[c].id \in 1 .. Len(named)
    BY <2>1 DEF NoteProof, Goes, Pending
  <2>3. QED
    BY <1>1, <2>1, <2>2 DEF NoteProof
<1>5. CASE \E c \in Clients : ClearProof(c)
  BY <1>1, <1>5 DEF ClearProof
<1>6. CASE \E c \in Clients : AddFilter(c) \/ QueryFilter(c) \/ TestOwner(c)
                                \/ DeleteFilter(c) \/ ClientDies(c)
  BY <1>1, <1>6 DEF AddFilter, QueryFilter, TestOwner, DeleteFilter, ClientDies, Fails
<1>7. CASE \E c \in Clients : BlockCommand(c) \/ VerifyCommand(c) \/ UnblockCommand(c)
  BY <1>1, <1>7 DEF BlockCommand, VerifyCommand, UnblockCommand, Command
<1>8. CASE OtherAdds \/ OtherDeletes \/ ReadEvents \/ Reboot
  BY <1>1, <1>8 DEF OtherAdds, OtherDeletes, ReadEvents, Reboot
<1>9. CASE Unload \/ CreateLink \/ AllocateRing \/ OpenEngine \/ AddCallout
             \/ RegisterCallout \/ AddCapture
  BY <1>1, <1>9 DEF Unload, CreateLink, AllocateRing, OpenEngine, AddCallout,
                    RegisterCallout, AddCapture, Entry, Undo
<1>10. CASE UnregisterCallout \/ DeleteCapture \/ DeleteCallout \/ CloseEngine
              \/ FreeRing \/ DeleteLink \/ DeleteDevice
  BY <1>1, <1>10 DEF UnregisterCallout, DeleteCapture, DeleteCallout, CloseEngine,
                     FreeRing, DeleteLink, DeleteDevice, Undo
<1>11. CASE \E t \in Classifiers : ClassifyBegins(t) \/ Classify(t)
  BY <1>1, <1>11 DEF ClassifyBegins, Classify
<1>12. CASE UNCHANGED vars
  BY <1>1, <1>12 DEF vars
<1>13. QED
  BY <1>2, <1>3, <1>4, <1>5, <1>6, <1>7, <1>8, <1>9, <1>10, <1>11, <1>12
  DEF Next, Request, DriverStep

-----------------------------------------------------------------------------
(* The commands *)

(* One step is of one client, or of none. *)
LEMMA OthersLeaveClients ==
  ASSUME [Next]_vars,
         ~\E c \in Clients : \/ BlockCommand(c) \/ VerifyCommand(c) \/ UnblockCommand(c)
                             \/ Request(c) \/ ClientDies(c)
  PROVE  \/ Reboot
         \/ UNCHANGED <<client, confirmed>> /\ withdrawn \subseteq withdrawn'
            /\ (withdrawn' = withdrawn
                  \/ \E id \in present : withdrawn' = withdrawn \cup {id})
<1>1. CASE OtherAdds \/ OtherDeletes \/ ReadEvents \/ Begin \/ Unload
  BY <1>1 DEF OtherAdds, OtherDeletes, ReadEvents, Begin, Unload, Undo, reports
<1>2. CASE DriverStep
  BY <1>2
  DEF DriverStep, CreateLink, AllocateRing, OpenEngine, RecoverProof, AddCallout,
      RegisterCallout, AddCapture, UnregisterCallout, DeleteCapture, DeleteCallout,
      CloseEngine, FreeRing, DeleteLink, DeleteDevice, Entry, Undo, reports
<1>3. CASE \E t \in Classifiers : ClassifyBegins(t) \/ Classify(t)
  BY <1>3 DEF ClassifyBegins, Classify, reports
<1>4. CASE UNCHANGED vars
  BY <1>4 DEF vars, reports
<1>5. CASE Reboot
  BY <1>5
<1>6. QED
  BY <1>1, <1>2, <1>3, <1>4, <1>5 DEF Next

Places == {"idle", "add", "note", "query", "own", "delete", "clear"}

(* What one client's pending command needs, for any filters and any withdrawn
   ids. *)
Needs(at, asked, filters, gone) ==
  /\ at = "add" => asked.flow \in Flows
  /\ at \in {"note", "query", "own", "delete", "clear"} => asked.id \in 1 .. Len(filters)
  /\ at \in {"own", "delete", "clear"} => asked.id \in gone
  /\ at = "delete" => filters[asked.id].ours

ClientType ==
  /\ open \subseteq Clients
  /\ pc \in [Clients -> Places]
  /\ request \in [Clients -> Requests]

LEMMA NeedsKept ==
  ASSUME TypeOK, Pending, Persists, [Next]_vars,
         NEW at, NEW asked, NEW gone \in SUBSET withdrawn',
         Needs(at, asked, named, gone)
  PROVE  Needs(at, asked, named', withdrawn')
<1>1. /\ Len(named) \in Nat /\ Len(named') \in Nat /\ Len(named) <= Len(named')
      /\ \A id \in 1 .. Len(named) : named'[id] = named[id]
  BY NamedStep
<1>2. at \in {"note", "query", "own", "delete", "clear"} => asked.id \in 1 .. Len(named')
  BY <1>1 DEF Needs
<1>3. at = "delete" => named'[asked.id].ours
  BY <1>1 DEF Needs
<1>4. QED
  BY <1>2, <1>3 DEF Needs

LEMMA PendingIs == Pending <=> \A c \in Clients : Needs(pc[c], request[c], named, withdrawn)
BY DEF Pending, Needs

LEMMA Asks ==
  ASSUME NEW command \in {"none", "block", "verify", "unblock"},
         NEW id \in 0 .. MaxFilters, NEW flow \in Flows \cup {NoFlow}
  PROVE  /\ Asked(command, id, flow) \in Requests
         /\ Asked(command, id, flow).command = command
         /\ Asked(command, id, flow).id = id
         /\ Asked(command, id, flow).flow = flow
BY DEF Asked, Requests

LEMMA NoRequestIs == NoRequest \in Requests
BY Asks, WfpAssumption DEF NoRequest

(* Ids that somebody asked to remove are asked for good, and were given. *)
LEMMA WithdrawnStep ==
  ASSUME TypeOK, Pending, Persists, [Next]_vars
  PROVE  withdrawn \subseteq withdrawn' /\ withdrawn' \subseteq Ids
<1>0. /\ withdrawn \subseteq Ids /\ present \subseteq 1 .. Len(named)
      /\ Len(named) \in Nat /\ Len(named) <= MaxFilters
      /\ 1 .. Len(named) \subseteq Ids
  <2>1. Len(named) \in Nat /\ Len(named) <= MaxFilters /\ MaxFilters \in Nat
    BY NamedStep, WfpAssumption DEF TypeOK
  <2>2. 1 .. Len(named) \subseteq Ids
    BY <2>1 DEF Ids
  <2>3. QED
    BY <2>1, <2>2 DEF TypeOK
<1>1. ASSUME \/ withdrawn' = withdrawn
             \/ \E id \in 1 .. Len(named) : withdrawn' = withdrawn \cup {id}
      PROVE  withdrawn \subseteq withdrawn' /\ withdrawn' \subseteq Ids
  BY <1>0, <1>1
<1>2. CASE \E c \in Clients : UnblockCommand(c)
  BY <1>1, <1>2 DEF UnblockCommand
<1>3. CASE \E c \in Clients : BlockCommand(c) \/ VerifyCommand(c)
  BY <1>1, <1>3 DEF BlockCommand, VerifyCommand
<1>4. CASE \E c \in Clients : QueryFilter(c)
  <2>1. PICK c \in Clients : QueryFilter(c)
    BY <1>4
  <2>2. withdrawn' = withdrawn \/ withdrawn' = withdrawn \cup {request[c].id}
    BY <2>1 DEF QueryFilter, reports
  <2>3. request[c].id \in 1 .. Len(named)
    BY <2>1 DEF QueryFilter, Ends, Goes, Pending
  <2>4. QED
    BY <1>1, <2>2, <2>3
<1>5. CASE \E c \in Clients : AddFilter(c) \/ NoteProof(c) \/ TestOwner(c)
                                \/ DeleteFilter(c) \/ ClearProof(c) \/ ClientDies(c)
  BY <1>1, <1>5 DEF AddFilter, NoteProof, TestOwner, DeleteFilter, ClearProof,
                    ClientDies, Fails, reports
<1>6. CASE ~\E c \in Clients : \/ BlockCommand(c) \/ VerifyCommand(c) \/ UnblockCommand(c)
                               \/ Request(c) \/ ClientDies(c)
  <2>1. CASE Reboot
    BY <1>1, <2>1 DEF Reboot, reports
  <2>2. CASE ~Reboot
    BY <1>0, <1>1, <1>6, <2>2, OthersLeaveClients
  <2>3. QED
    BY <2>1, <2>2
<1>7. QED
  BY <1>2, <1>3, <1>4, <1>5, <1>6 DEF Request

(* A step of the client c leaves the others what they need. *)
LEMMA OneClient ==
  ASSUME TypeOK, Pending, Persists, [Next]_vars,
         NEW c \in Clients, NEW at \in Places, NEW asked \in Requests,
         open' \subseteq Clients,
         pc' = [pc EXCEPT ![c] = at],
         request' = [request EXCEPT ![c] = asked],
         Needs(at, asked, named', withdrawn')
  PROVE  ClientType' /\ Pending'
<1>0. pc \in [Clients -> Places] /\ request \in [Clients -> Requests]
  BY DEF TypeOK, Places, Requests
<1>1. ClientType'
  BY <1>0 DEF ClientType
<1>2. ASSUME NEW d \in Clients PROVE Needs(pc'[d], request'[d], named', withdrawn')
  <2>1. CASE d = c
    <3>1. pc'[d] = at /\ request'[d] = asked
      BY <1>0, <2>1
    <3>2. QED
      BY <3>1
  <2>2. CASE d # c
    <3>1. pc'[d] = pc[d] /\ request'[d] = request[d]
      BY <1>0, <2>2
    <3>2. Needs(pc[d], request[d], named, withdrawn)
      BY PendingIs
    <3>3. withdrawn \in SUBSET withdrawn'
      BY WithdrawnStep
    <3>4. Needs(pc[d], request[d], named', withdrawn')
      BY <3>2, <3>3, NeedsKept
    <3>5. QED
      BY <3>1, <3>4
  <2>3. QED
    BY <2>1, <2>2
<1>3. Pending'
  BY <1>2 DEF Pending, Needs
<1>4. QED
  BY <1>1, <1>3

LEMMA SameRequest ==
  ASSUME TypeOK, NEW c \in Clients
  PROVE  request = [request EXCEPT ![c] = request[c]] /\ request[c] \in Requests
BY DEF TypeOK, Requests

(* A command that goes idle needs nothing. *)
LEMMA Idle == \A asked, filters, gone : Needs("idle", asked, filters, gone)
BY DEF Needs

LEMMA FailsStep ==
  ASSUME TypeOK, Pending, Persists, [Next]_vars,
         NEW c \in Clients, NEW from, Ends(c, from), open' = open
  PROVE  ClientType' /\ Pending'
<1>1. /\ pc' = [pc EXCEPT ![c] = "idle"]
      /\ request' = [request EXCEPT ![c] = NoRequest]
  BY DEF Ends, Goes
<1>2. "idle" \in Places /\ open' \subseteq Clients
  BY DEF Places, TypeOK
<1>3. QED
  BY <1>1, <1>2, NoRequestIs, Idle, OneClient

LEMMA CommandStep ==
  ASSUME TypeOK, Pending, Persists, [Next]_vars,
         NEW c \in Clients, NEW command \in {"block", "verify", "unblock"},
         NEW id \in 0 .. MaxFilters, NEW flow \in Flows \cup {NoFlow}, NEW first \in Places,
         Command(c, command, id, flow, first),
         Needs(first, Asked(command, id, flow), named', withdrawn')
  PROVE  ClientType' /\ Pending'
<1>1. /\ pc' = [pc EXCEPT ![c] = first]
      /\ request' = [request EXCEPT ![c] = Asked(command, id, flow)]
      /\ open' = open \cup {c}
  BY DEF Command, Goes
<1>2. open' \subseteq Clients
  BY <1>1 DEF TypeOK
<1>3. Asked(command, id, flow) \in Requests
  BY Asks
<1>4. QED
  BY <1>1, <1>2, <1>3, OneClient

LEMMA GoesStep ==
  ASSUME TypeOK, Pending, Persists, [Next]_vars,
         NEW c \in Clients, NEW from, NEW to \in Places,
         Goes(c, from, to), request' = request, open' = open,
         Needs(to, request[c], named', withdrawn')
  PROVE  ClientType' /\ Pending'
<1>1. pc' = [pc EXCEPT ![c] = to] /\ open' \subseteq Clients
  BY DEF Goes, TypeOK
<1>2. request' = [request EXCEPT ![c] = request[c]] /\ request[c] \in Requests
  BY SameRequest
<1>3. QED
  BY <1>1, <1>2, OneClient

LEMMA ClientStep ==
  ASSUME TypeOK, Pending, Persists, [Next]_vars
  PROVE  ClientType' /\ Pending'
<1>0. /\ \A c \in Clients : Needs(pc[c], request[c], named, withdrawn)
      /\ Len(named) \in Nat /\ Len(named) <= Len(named') /\ Len(named') <= MaxFilters
      /\ Len(named') \in Nat /\ Len(named) <= MaxFilters
      /\ \A id \in 1 .. Len(named) : named'[id] = named[id]
      /\ withdrawn \subseteq withdrawn' /\ MaxFilters \in Nat
  <2>1. Len(named) <= MaxFilters
    BY DEF TypeOK
  <2>2. QED
    BY <2>1, PendingIs, NamedStep, WithdrawnStep, WfpAssumption
<1>1. ASSUME NEW c \in Clients, BlockCommand(c) PROVE ClientType' /\ Pending'
  <2>1. PICK flow \in Flows : Command(c, "block", 0, flow, "add")
    BY <1>1 DEF BlockCommand
  <2>2. Needs("add", Asked("block", 0, flow), named', withdrawn')
    BY DEF Needs, Asked
  <2>3. 0 \in 0 .. MaxFilters /\ "add" \in Places
    BY <1>0 DEF Places
  <2>4. QED
    BY <2>1, <2>2, <2>3, CommandStep
<1>2. ASSUME NEW c \in Clients, VerifyCommand(c) PROVE ClientType' /\ Pending'
  <2>1. PICK id \in 1 .. Len(named), flow \in Flows : Command(c, "verify", id, flow, "query")
    BY <1>2 DEF VerifyCommand
  <2>2. id \in 1 .. Len(named') /\ id \in 0 .. MaxFilters
    BY <1>0
  <2>3. Needs("query", Asked("verify", id, flow), named', withdrawn')
    BY <2>2 DEF Needs, Asked
  <2>4. "query" \in Places
    BY DEF Places
  <2>5. QED
    BY <2>1, <2>2, <2>3, <2>4, CommandStep
<1>3. ASSUME NEW c \in Clients, UnblockCommand(c) PROVE ClientType' /\ Pending'
  <2>1. PICK id \in 1 .. Len(named) : /\ Command(c, "unblock", id, NoFlow, "own")
                                      /\ withdrawn' = withdrawn \cup {id}
    BY <1>3 DEF UnblockCommand
  <2>2. id \in 1 .. Len(named') /\ id \in 0 .. MaxFilters /\ id \in withdrawn'
    BY <1>0, <2>1
  <2>3. Needs("own", Asked("unblock", id, NoFlow), named', withdrawn')
    BY <2>2 DEF Needs, Asked
  <2>4. "own" \in Places
    BY DEF Places
  <2>5. QED
    BY <2>1, <2>2, <2>3, <2>4, CommandStep
<1>4. ASSUME NEW c \in Clients, NEW from, Fails(c, from) PROVE ClientType' /\ Pending'
  BY <1>4, FailsStep DEF Fails
<1>5. ASSUME NEW c \in Clients, AddFilter(c) PROVE ClientType' /\ Pending'
  <2>1. CASE Fails(c, "add")
    BY <1>4, <2>1
  <2>2. CASE ~Fails(c, "add")
    <3>1. /\ pc[c] = "add" /\ pc' = [pc EXCEPT ![c] = "note"]
          /\ request' = [request EXCEPT
                           ![c] = Asked("block", Len(named) + 1, request[c].flow)]
          /\ named' = Append(named, ProofFilter(request[c].flow))
          /\ open' = open
      BY <1>5, <2>2 DEF AddFilter, Goes, Adds
    <3>2. request[c].flow \in Flows
      BY <1>0, <3>1 DEF Needs
    <3>3. named \in Seq(Filters)
      BY DEF TypeOK, Filters
    <3>4. Len(named') = Len(named) + 1
      BY <3>1, <3>3
    <3>5. Len(named) + 1 \in 1 .. Len(named') /\ Len(named) + 1 \in 0 .. MaxFilters
      BY <1>0, <3>4
    <3>6. Asked("block", Len(named) + 1, request[c].flow) \in Requests
      BY <3>2, <3>5, Asks
    <3>7. Needs("note", Asked("block", Len(named) + 1, request[c].flow), named', withdrawn')
      BY <3>5 DEF Needs, Asked
    <3>8. "note" \in Places /\ open' \subseteq Clients
      BY <3>1 DEF Places, TypeOK
    <3>9. QED
      BY <3>1, <3>6, <3>7, <3>8, OneClient
  <2>3. QED
    BY <2>1, <2>2
<1>6. ASSUME NEW c \in Clients, NoteProof(c) PROVE ClientType' /\ Pending'
  <2>1. Goes(c, "note", "query") /\ request' = request /\ open' = open
    BY <1>6 DEF NoteProof
  <2>2. request[c].id \in 1 .. Len(named')
    BY <1>0, <2>1 DEF Goes, Needs
  <2>3. Needs("query", request[c], named', withdrawn') /\ "query" \in Places
    BY <2>2 DEF Needs, Places
  <2>4. QED
    BY <2>1, <2>3, GoesStep
<1>7. ASSUME NEW c \in Clients, QueryFilter(c) PROVE ClientType' /\ Pending'
  <2>1. open' = open
    BY <1>7 DEF QueryFilter
  <2>2. CASE Ends(c, "query")
    BY <2>1, <2>2, FailsStep
  <2>3. CASE ~Ends(c, "query")
    <3>1. /\ Goes(c, "query", "own") /\ request' = request
          /\ withdrawn' = withdrawn \cup {request[c].id}
      BY <1>7, <2>3 DEF QueryFilter
    <3>2. request[c].id \in 1 .. Len(named') /\ request[c].id \in withdrawn'
      BY <1>0, <3>1 DEF Goes, Needs
    <3>3. Needs("own", request[c], named', withdrawn') /\ "own" \in Places
      BY <3>2 DEF Needs, Places
    <3>4. QED
      BY <2>1, <3>1, <3>3, GoesStep
  <2>4. QED
    BY <2>2, <2>3
<1>8. ASSUME NEW c \in Clients, TestOwner(c) PROVE ClientType' /\ Pending'
  <2>1. CASE Fails(c, "own")
    BY <1>4, <2>1
  <2>2. CASE ~Fails(c, "own")
    <3>1. /\ Goes(c, "own", "delete") /\ request' = request /\ open' = open
          /\ named[request[c].id].ours
      BY <1>8, <2>2 DEF TestOwner, Owned
    <3>2. /\ request[c].id \in 1 .. Len(named) /\ request[c].id \in withdrawn'
      BY <1>0, <3>1 DEF Goes, Needs
    <3>3. request[c].id \in 1 .. Len(named') /\ named'[request[c].id].ours
      BY <1>0, <3>1, <3>2
    <3>4. Needs("delete", request[c], named', withdrawn') /\ "delete" \in Places
      BY <3>2, <3>3 DEF Needs, Places
    <3>5. QED
      BY <3>1, <3>4, GoesStep
  <2>3. QED
    BY <2>1, <2>2
<1>9. ASSUME NEW c \in Clients, DeleteFilter(c) PROVE ClientType' /\ Pending'
  <2>1. CASE Fails(c, "delete")
    BY <1>4, <2>1
  <2>2. CASE ~Fails(c, "delete")
    <3>1. Goes(c, "delete", "clear") /\ request' = request /\ open' = open
      BY <1>9, <2>2 DEF DeleteFilter
    <3>2. request[c].id \in 1 .. Len(named') /\ request[c].id \in withdrawn'
      BY <1>0, <3>1 DEF Goes, Needs
    <3>3. Needs("clear", request[c], named', withdrawn') /\ "clear" \in Places
      BY <3>2 DEF Needs, Places
    <3>4. QED
      BY <3>1, <3>3, GoesStep
  <2>3. QED
    BY <2>1, <2>2
<1>10. ASSUME NEW c \in Clients, ClearProof(c) PROVE ClientType' /\ Pending'
  <2>1. open' = open
    BY <1>10 DEF ClearProof
  <2>2. CASE Ends(c, "clear")
    BY <2>1, <2>2, FailsStep
  <2>3. CASE ~Ends(c, "clear")
    <3>1. Goes(c, "clear", "query") /\ request' = request
      BY <1>10, <2>3 DEF ClearProof
    <3>2. request[c].id \in 1 .. Len(named')
      BY <1>0, <3>1 DEF Goes, Needs
    <3>3. Needs("query", request[c], named', withdrawn') /\ "query" \in Places
      BY <3>2 DEF Needs, Places
    <3>4. QED
      BY <2>1, <3>1, <3>3, GoesStep
  <2>4. QED
    BY <2>2, <2>3
<1>11. ASSUME NEW c \in Clients, ClientDies(c) PROVE ClientType' /\ Pending'
  <2>1. /\ pc' = [pc EXCEPT ![c] = "idle"]
        /\ request' = [request EXCEPT ![c] = NoRequest]
        /\ open' = open \ {c}
    BY <1>11 DEF ClientDies
  <2>2. "idle" \in Places /\ open' \subseteq Clients
    BY <2>1 DEF Places, TypeOK
  <2>3. QED
    BY <2>1, <2>2, NoRequestIs, Idle, OneClient
<1>12. CASE ~\E c \in Clients : \/ BlockCommand(c) \/ VerifyCommand(c) \/ UnblockCommand(c)
                                \/ Request(c) \/ ClientDies(c)
  <2>1. CASE Reboot
    <3>1. /\ open' = {} /\ pc' = [c \in Clients |-> "idle"]
          /\ request' = [c \in Clients |-> NoRequest]
      BY <2>1 DEF Reboot
    <3>2. ClientType'
      BY <3>1, NoRequestIs DEF ClientType, Places
    <3>3. Pending'
      BY <3>1 DEF Pending
    <3>4. QED
      BY <3>2, <3>3
  <2>2. CASE ~Reboot
    <3>1. open' = open /\ pc' = pc /\ request' = request
      BY <1>12, <2>2, OthersLeaveClients DEF client
    <3>2. ClientType'
      BY <3>1 DEF TypeOK, ClientType, Places, Requests
    <3>3. ASSUME NEW c \in Clients PROVE Needs(pc[c], request[c], named', withdrawn')
      <4>1. withdrawn \in SUBSET withdrawn'
        BY <1>0
      <4>2. QED
        BY <1>0, <4>1, NeedsKept
    <3>4. Pending'
      BY <3>1, <3>3 DEF Pending, Needs
    <3>5. QED
      BY <3>2, <3>4
  <2>3. QED
    BY <2>1, <2>2
<1>13. QED
  BY <1>1, <1>2, <1>3, <1>5, <1>6, <1>7, <1>8, <1>9, <1>10, <1>11, <1>12 DEF Request

-----------------------------------------------------------------------------
(* Receipts *)

(* Only an answer of the driver confirms, and only what it has found. *)
LEMMA ConfirmedStep ==
  ASSUME TypeOK, Pending, Persists, [Next]_vars
  PROVE  \/ confirmed' = confirmed
         \/ \E id \in present, flow \in Flows :
              /\ MatchesProof(named[id], flow)
              /\ confirmed' = confirmed \cup {[id |-> id, flow |-> flow]}
              /\ present' = present /\ named' = named
<1>1. CASE \E c \in Clients : QueryFilter(c)
  <2>1. PICK c \in Clients : QueryFilter(c)
    BY <1>1
  <2>2. CASE confirmed' = confirmed
    BY <2>2
  <2>3. CASE confirmed' # confirmed
    <3>1. /\ request[c].id \in present
          /\ MatchesProof(named[request[c].id], request[c].flow)
          /\ confirmed' = confirmed \cup {[id |-> request[c].id, flow |-> request[c].flow]}
          /\ present' = present /\ named' = named
      BY <2>1, <2>3 DEF QueryFilter, reports, platform
    <3>2. named[request[c].id] \in Filters
      <4>1. named \in Seq(Filters) /\ request[c].id \in 1 .. Len(named)
        BY <3>1 DEF TypeOK, Filters
      <4>2. QED
        BY <4>1, ElementOfSeq
    <3>3. request[c].flow \in Flows
      BY <3>1, <3>2 DEF MatchesProof, Filters
    <3>4. QED
      BY <3>1, <3>3
  <2>4. QED
    BY <2>2, <2>3
<1>2. CASE \E c \in Clients : AddFilter(c) \/ NoteProof(c) \/ TestOwner(c)
                                \/ DeleteFilter(c) \/ ClearProof(c) \/ ClientDies(c)
  BY <1>2 DEF AddFilter, NoteProof, TestOwner, DeleteFilter, ClearProof, ClientDies,
              Fails, reports
<1>3. CASE \E c \in Clients : BlockCommand(c) \/ VerifyCommand(c) \/ UnblockCommand(c)
  BY <1>3 DEF BlockCommand, VerifyCommand, UnblockCommand, Command
<1>4. CASE ~\E c \in Clients : \/ BlockCommand(c) \/ VerifyCommand(c) \/ UnblockCommand(c)
                               \/ Request(c) \/ ClientDies(c)
  <2>1. CASE Reboot
    BY <2>1 DEF Reboot, reports
  <2>2. CASE ~Reboot
    BY <1>4, <2>2, OthersLeaveClients
  <2>3. QED
    BY <2>1, <2>2
<1>5. QED
  BY <1>1, <1>2, <1>3, <1>4 DEF Request

LEMMA ReceiptsStep ==
  ASSUME TypeOK, Pending, Persists, Receipts, [Next]_vars
  PROVE  Receipts' /\ confirmed' \subseteq [id : Ids, flow : Flows]
<1>0. /\ named \in Seq(Filters) /\ present \subseteq 1 .. Len(named)
      /\ Len(named) \in Nat /\ Len(named) <= MaxFilters
      /\ confirmed \subseteq [id : Ids, flow : Flows]
  <2>1. named \in Seq(Filters)
    BY DEF TypeOK, Filters
  <2>2. QED
    BY <2>1 DEF TypeOK
<1>1. /\ Len(named') \in Nat /\ Len(named) <= Len(named')
      /\ \A id \in 1 .. Len(named) : named'[id] = named[id]
  BY NamedStep
<1>2. ASSUME NEW r \in confirmed
      PROVE  /\ r.id \in 1 .. Len(named')
             /\ named'[r.id] = ProofFilter(r.flow)
             /\ r.id \notin withdrawn' => r.id \in present'
  <2>1. /\ r.id \in 1 .. Len(named) /\ named[r.id] = ProofFilter(r.flow)
        /\ r.id \notin withdrawn => r.id \in present
    BY DEF Receipts
  <2>2. r.id \in 1 .. Len(named') /\ named'[r.id] = ProofFilter(r.flow)
    BY <1>1, <2>1
  <2>3. ASSUME r.id \notin withdrawn' PROVE r.id \in present'
    <3>1. r.id \notin withdrawn
      BY <2>3, WithdrawnStep
    <3>2. r.id \in present
      BY <3>1, <2>1
    <3>3. QED
      BY <2>3, <3>2, PresentStep
  <2>4. QED
    BY <2>2, <2>3
<1>3. CASE confirmed' = confirmed
  BY <1>0, <1>2, <1>3 DEF Receipts
<1>4. ASSUME NEW id \in present, NEW flow \in Flows,
             MatchesProof(named[id], flow),
             confirmed' = confirmed \cup {[id |-> id, flow |-> flow]},
             present' = present, named' = named
      PROVE  Receipts' /\ confirmed' \subseteq [id : Ids, flow : Flows]
  <2>1. id \in 1 .. Len(named) /\ id \in Ids
    BY <1>0, WfpAssumption DEF Ids
  <2>2. named[id] \in Filters
    BY <1>0, <2>1, ElementOfSeq
  <2>3. named[id].ours /\ named[id].flow = flow /\ named[id].persistent
    BY <1>4, <2>1 DEF MatchesProof, Persists
  <2>4. named[id] = ProofFilter(flow)
    BY <2>2, <2>3 DEF ProofFilter, Filters
  <2>5. \A r \in confirmed' : r \in confirmed \/ (r.id = id /\ r.flow = flow)
    BY <1>4
  <2>6. Receipts'
    BY <1>2, <1>4, <2>1, <2>4, <2>5 DEF Receipts, ProofFilter
  <2>7. QED
    BY <1>0, <1>4, <2>1, <2>6
<1>5. QED
  BY <1>3, <1>4, ConfirmedStep

-----------------------------------------------------------------------------
(* The theorems *)

LEMMA TypeStep ==
  ASSUME IInv, [Next]_vars
  PROVE  TypeOK'
<1>0. TypeOK /\ Owns /\ Inside /\ Persists /\ Pending /\ Receipts /\ Unread
  BY DEF IInv
<1>1. EntryType'
  BY <1>0, EntryStep
<1>2. write' \in Offset /\ read' \in Offset /\ unread' \in 0 .. Size
  BY <1>0, RingStep
<1>3. named' \in Seq(Filters) /\ Len(named') <= MaxFilters
  BY <1>0, NamedStep
<1>4. present' \subseteq 1 .. Len(named')
  BY <1>0, PresentStep
<1>5. proofId' \in 0 .. Len(named')
  BY <1>0, ProofIdStep
<1>6. ClientType'
  BY <1>0, ClientStep
<1>7. confirmed' \subseteq [id : Ids, flow : Flows]
  BY <1>0, ReceiptsStep
<1>8. withdrawn' \subseteq Ids
  BY <1>0, WithdrawnStep
<1>9. QED
  BY <1>1, <1>2, <1>3, <1>4, <1>5, <1>6, <1>7, <1>8
  DEF TypeOK, EntryType, ClientType, Places, Requests, Filters

LEMMA Invariance == Spec => []IInv
<1>1. IInv /\ [Next]_vars => IInv'
  <2> SUFFICES ASSUME IInv, [Next]_vars PROVE IInv'
    OBVIOUS
  <2>0. TypeOK /\ Owns /\ Inside /\ Persists /\ Pending /\ Receipts /\ Unread
    BY DEF IInv
  <2>1. TypeOK'
    BY TypeStep
  <2>2. Owns' /\ Inside'
    BY <2>0, EntryStep
  <2>3. Persists'
    BY <2>0, NamedStep
  <2>4. Pending'
    BY <2>0, ClientStep
  <2>5. Receipts'
    BY <2>0, ReceiptsStep
  <2>6. Unread'
    BY <2>0, RingStep
  <2>7. QED
    BY <2>1, <2>2, <2>3, <2>4, <2>5, <2>6 DEF IInv
<1>2. QED
  BY <1>1, InitIInv, PTL DEF Spec

(* A packet that is being classified finds the ring it writes to, and a driver
   that is not loaded leaves nothing behind, wherever DriverEntry failed. *)
THEOREM Lifetimes == Spec => []LifetimesNest
<1>1. IInv => LifetimesNest
  <2> SUFFICES ASSUME IInv PROVE LifetimesNest
    OBVIOUS
  <2>1. TypeOK /\ Owns /\ Inside
    BY DEF IInv
  <2>2. RingOutlivesItsUsers
    BY <2>1 DEF RingOutlivesItsUsers, Inside, Owns
  <2>3. owned \subseteq {"device", "link", "ring", "engine", "callout", "runtime", "capture"}
    BY <2>1 DEF TypeOK
  <2>4. NothingLeftBehind
    BY <2>1, <2>3 DEF NothingLeftBehind, Owns
  <2>5. QED
    BY <2>1, <2>2, <2>4 DEF LifetimesNest
<1>2. QED
  BY <1>1, Invariance, PTL

(* Until an event fills the ring to its last byte the reader finds what was
   written and not read, and the callout counts the same: the remainder that
   the one takes is the fill that the other computes by comparison. *)
THEOREM WrittenIsRead == Spec => []WrittenIsReadable
<1>1. IInv => WrittenIsReadable
  <2> SUFFICES ASSUME IInv PROVE WrittenIsReadable
    OBVIOUS
  <2>1. write \in Offset /\ read \in Offset /\ Unread
    BY DEF IInv, TypeOK
  <2>2. Available = IF write >= read THEN write - read ELSE (Size - read) + write
    BY <2>1, Distance DEF Available
  <2>3. Available = Used
    BY <2>2 DEF Used
  <2>4. QED
    BY <2>1, <2>3 DEF WrittenIsReadable, Unread
<1>2. QED
  BY <1>1, Invariance, PTL

(* A receipt that was reported is true, and stays true until the removal of
   its filter is asked for: whatever other programs, clients and restarts do. *)
THEOREM ReceiptsAreTrue == Spec => []ReceiptsHold
<1>1. IInv => ReceiptsHold
  BY DEF IInv, Receipts, ReceiptsHold, ConfirmedIsOurs, EnforcedUntilWithdrawn
<1>2. QED
  BY <1>1, Invariance, PTL

(* The driver removes no filter but its own, between whatever two calls of the
   platform another program comes. *)
THEOREM NoOtherRemoved == Spec => OthersAreKept
<1>1. IInv /\ [Next]_vars
        => [\A id \in present \ present' : named[id].ours \/ OtherDeletes]_vars
  BY PresentStep DEF IInv
<1>2. QED
  BY <1>1, Invariance, PTL DEF Spec, OthersAreKept
=============================================================================
