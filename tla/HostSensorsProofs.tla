-------------------------- MODULE HostSensorsProofs --------------------------
(***************************************************************************)
(* Proofs about HostSensors: for any number of watched directories and of  *)
(* changes of each, what the sensor threads work on outlives them but for  *)
(* one named case, no change is overwritten or handed out twice, and the   *)
(* ETW session is there while it is vouched for and gone with its thread.  *)
(***************************************************************************)
EXTENDS HostSensors, FiniteSetTheorems, TLAPS

-----------------------------------------------------------------------------
(* The inductive invariant of the file sensor *)

(* Where the thread of a session is, and its read. *)
Reading ==
  \A w \in Watch :
    /\ session[w] = "none" <=> thread[w] = "none"
    /\ session[w] = "none" => made[w] = 0 /\ io[w] = "idle" /\ ~dataReady[w]
    /\ io[w] \in {"pending", "empty", "cancelled"} => thread[w] = "io"
    /\ io[w] = "completed" => thread[w] \in {"io", "publish"}
    /\ thread[w] = "publish" => io[w] = "completed"

(* The session the daemon is stopping lives and is told to end; once a read of
   its thread was cancelled the thread issues no other. *)
Stopping ==
  /\ poller = "start" => \A w \in turn .. Watches : session[w] = "none"
  /\ poller \in {"cancel", "join"} => session[turn] = "live" /\ ~running[turn]
  /\ poller = "join" /\ ~missed[turn] =>
       \/ thread[turn] \in {"top", "done"}
       \/ thread[turn] = "io" /\ io[turn] = "cancelled"

(* The buffer is the reader's, between its two loop tests, or the poller's. *)
HandedOver ==
  \A w \in Watch :
    session[w] = "live" /\ running[w] /\ thread[w] \in {"read", "io", "publish"}
      => ~dataReady[w]

(* Where the changes of a running session are: in one place each. *)
Apart(A, B, C, D) ==
  /\ A \cap B = {} /\ A \cap C = {} /\ A \cap D = {}
  /\ B \cap C = {} /\ B \cap D = {} /\ C \cap D = {}

Accounted ==
  \A w \in Watch : session[w] = "live" /\ running[w] =>
    /\ 1 .. made[w] = kernel[w] \cup Held(w) \cup delivered[w] \cup lost[w]
    /\ Apart(kernel[w], Held(w), delivered[w], lost[w])

FimInv == FimTypeOK /\ Reading /\ Stopping /\ FreedUnderThread /\ HandedOver /\ Accounted

(* The inductive invariant of the process sensor: what the ETW thread has at
   each of its places. *)
EtwPlaces ==
  /\ etwThread = "start" =>
       /\ ~handle /\ properties = "null" /\ frees = 0
       /\ consumer = "none" /\ trace # "ours" /\ ~sourceRuns
  /\ etwThread \in {"callback", "loop", "stop"} =>
       handle /\ sourceRuns /\ properties = "allocated"
  /\ etwThread = "loop" => callback
  /\ etwThread = "join" => properties = "allocated"
  /\ etwThread \in {"join", "ended"} => trace # "ours"
  /\ etwThread = "ended" => consumer \in {"none", "done"}
  /\ etwReady => etwThread = "loop"

EtwInv == EtwTypeOK /\ FreedOnce /\ EtwPlaces

DaemonInv ==
  /\ stopRequested \in BOOLEAN
  /\ daemon \in {"running", "joinFim", "joinEtw", "returned"}
  /\ daemon = "returned" => etwThread = "ended"

IInv == FimInv /\ EtwInv /\ DaemonInv

-----------------------------------------------------------------------------
(* The process sensor *)

LEMMA EtwStep ==
  ASSUME EtwInv, EtwNext
  PROVE  EtwInv' /\ (etwThread = "ended" => etwThread' = "ended")
<1>0. EtwTypeOK /\ FreedOnce /\ EtwPlaces
  BY DEF EtwInv
<1>1. CASE EtwStart /\ ~StartFails
  <2>1. etwThread = "start" /\ ~handle /\ frees = 0 /\ trace # "ours" /\ ~etwReady
    BY <1>0, <1>1 DEF EtwStart, EtwPlaces
  <2>2. EtwTypeOK'
    BY <1>0, <1>1, <2>1 DEF EtwStart, Started, EtwTypeOK
  <2>3. FreedOnce'
    BY <1>1, <2>1 DEF EtwStart, Started, FreedOnce
  <2>4. EtwPlaces'
    <3>1. etwReady' = etwReady /\ handle' /\ sourceRuns'
      BY <1>1 DEF EtwStart, Started
    <3>2. ~etwReady'
      BY <2>1, <3>1
    <3>3. etwThread' = "callback" /\ properties' = "allocated"
      BY <1>1 DEF EtwStart, Started
    <3>4. QED
      BY <3>1, <3>2, <3>3 DEF EtwPlaces
  <2>5. QED
    BY <2>1, <2>2, <2>3, <2>4 DEF EtwInv
<1>2. CASE EtwStart /\ StartFails
  <2>1. /\ etwThread = "start" /\ ~handle /\ frees = 0 /\ trace # "ours"
        /\ properties = "null" /\ consumer = "none" /\ ~sourceRuns
    BY <1>0, <1>2 DEF EtwStart, EtwPlaces
  <2>2. etwThread' = "ended" /\ sourceRuns' = sourceRuns /\ etwReady' = etwReady
    <3>1. ~Started
      BY <1>2, <2>1 DEF StartFails, Refused, NoProperties, TraceFails, NoProviders,
                        NoConsumer, Started, etwSession
    <3>2. QED
      BY <1>2, <3>1 DEF EtwStart
  <2>3. /\ consumer' = "none" /\ trace' # "ours" /\ trace' \in {"none", "stale", "ours"}
        /\ frees' \in 0 .. 1 /\ properties' \in {"null", "dangling"}
        /\ handle' \in BOOLEAN /\ lockReady' \in BOOLEAN /\ callback' \in BOOLEAN
    <3>1. CASE NoProperties
      BY <1>0, <2>1, <3>1 DEF NoProperties, EtwTypeOK
    <3>2. CASE TraceFails
      BY <1>0, <2>1, <3>2 DEF TraceFails, EtwTypeOK
    <3>3. CASE NoProviders
      BY <1>0, <2>1, <3>3 DEF NoProviders, EtwTypeOK
    <3>4. CASE NoConsumer
      BY <1>0, <2>1, <3>4 DEF NoConsumer, EtwTypeOK
    <3>5. QED
      BY <1>2, <2>1, <3>1, <3>2, <3>3, <3>4 DEF StartFails, Refused
  <2>4. EtwTypeOK'
    BY <1>0, <2>2, <2>3 DEF EtwTypeOK
  <2>5. FreedOnce'
    BY <2>3 DEF FreedOnce
  <2>6. EtwPlaces'
    BY <1>0, <2>1, <2>2, <2>3 DEF EtwPlaces
  <2>7. QED
    BY <2>1, <2>4, <2>5, <2>6 DEF EtwInv
<1>3. CASE SetCallback
  BY <1>0, <1>3 DEF SetCallback, EtwInv, EtwTypeOK, FreedOnce, EtwPlaces
<1>4. CASE EtwTestStop
  BY <1>0, <1>4 DEF EtwTestStop, etwSession, EtwInv, EtwTypeOK, FreedOnce, EtwPlaces
<1>5. CASE StopTrace
  BY <1>0, <1>5 DEF StopTrace, EtwInv, EtwTypeOK, FreedOnce, EtwPlaces
<1>6. CASE StopReturns
  <2>1. /\ etwThread = "join" /\ frees = 0 /\ properties = "allocated"
        /\ trace # "ours" /\ ~etwReady
    BY <1>0, <1>6 DEF StopReturns, EtwPlaces, FreedOnce
  <2>2. frees' = 1 /\ properties' = "null" /\ etwThread' = "ended"
    BY <1>6, <2>1 DEF StopReturns
  <2>3. EtwTypeOK'
    <3>1. /\ trace' = trace /\ handle' = handle /\ lockReady' = lockReady
          /\ callback' = callback /\ consumer' = consumer /\ etwReady' = etwReady
          /\ sourceRuns' = FALSE
      BY <1>6 DEF StopReturns
    <3>2. /\ handle' \in BOOLEAN /\ lockReady' \in BOOLEAN /\ callback' \in BOOLEAN
          /\ etwReady' \in BOOLEAN /\ sourceRuns' \in BOOLEAN
      BY <1>0, <3>1 DEF EtwTypeOK
    <3>3. /\ trace' \in {"none", "stale", "ours"} /\ frees' \in 0 .. 2
          /\ consumer' \in {"none", "opening", "processing", "calling", "done"}
      BY <1>0, <2>2, <3>1 DEF EtwTypeOK
    <3>4. QED
      BY <2>2, <3>2, <3>3 DEF EtwTypeOK
  <2>4. FreedOnce'
    BY <2>2 DEF FreedOnce
  <2>5. EtwPlaces'
    BY <1>6, <2>1, <2>2 DEF StopReturns, ConsumerJoined, EtwPlaces
  <2>6. QED
    BY <2>1, <2>3, <2>4, <2>5 DEF EtwInv
<1>7. CASE Consumer \/ EventRecord
  BY <1>0, <1>7 DEF Consumer, OpenFails, OpenTrace, TraceEnds, CallbackReturns, EventRecord,
                    etwSession, EtwInv, EtwTypeOK, FreedOnce, EtwPlaces
<1>8. CASE StoppedByAnother
  BY <1>0, <1>8 DEF StoppedByAnother, EtwInv, EtwTypeOK, FreedOnce, EtwPlaces
<1>9. QED
  BY <1>1, <1>2, <1>3, <1>4, <1>5, <1>6, <1>7, <1>8 DEF EtwNext, EtwThread

-----------------------------------------------------------------------------
(* The file sensor: types *)

LEMMA Directories ==
  /\ Watches \in Nat /\ Watches > 0 /\ Watch = 1 .. Watches
  /\ \A w \in Watch : MaxChanges[w] \in Nat
BY FimAssumption DEF Watch

LEMMA TurnStep ==
  ASSUME FimTypeOK, FimNext
  PROVE  /\ turn' \in Watch
         /\ poller' \in {"start", "test", "poll", "flag", "cancel", "join", "ended"}
<1>1. turn \in Watch
      /\ poller \in {"start", "test", "poll", "flag", "cancel", "join", "ended"}
  BY DEF FimTypeOK
<1>2. CASE Start
  BY <1>1, <1>2, Directories DEF Start, AfterStart
<1>3. CASE TestStop
  BY <1>1, <1>3, Directories DEF TestStop
<1>4. CASE Poll
  BY <1>1, <1>4, Directories DEF Poll, AfterPoll
<1>5. CASE ClearRunning \/ CancelIo
  BY <1>1, <1>5 DEF ClearRunning, CancelIo
<1>6. CASE NoSession \/ Free
  BY <1>1, <1>6, Directories DEF NoSession, Free, NextStop
<1>7. CASE \E w \in Watch : FimThread(w) \/ ReadFails(w)
                              \/ DirectoryChanges(w) \/ ReadCompletes(w) \/ ReadOverflows(w)
  BY <1>1, <1>7 DEF FimThread, LoopTest, WaitForPoll, Read, ReadReturns, Publish, ReadFails,
                    DirectoryChanges, ReadCompletes, ReadOverflows
<1>8. QED
  BY <1>2, <1>3, <1>4, <1>5, <1>6, <1>7 DEF FimNext, Poller

States ==
  /\ session \in [Watch -> {"none", "live", "freed"}]
  /\ running \in [Watch -> BOOLEAN]
  /\ thread \in [Watch -> {"none", "top", "wait", "read", "io", "publish", "done"}]
  /\ io \in [Watch -> {"idle", "pending", "completed", "empty", "cancelled"}]
  /\ big \in [Watch -> BOOLEAN]
  /\ dataReady \in [Watch -> BOOLEAN]
  /\ missed \in [Watch -> BOOLEAN]

LEMMA StatesStep ==
  ASSUME FimTypeOK, FimNext
  PROVE  States'
<1>1. States /\ turn \in Watch
  BY DEF FimTypeOK, States
<1>2. CASE Start
  BY <1>1, <1>2 DEF Start, GoTo, States
<1>3. CASE TestStop \/ NoSession
  BY <1>1, <1>3 DEF TestStop, NoSession, native, States
<1>4. CASE Poll
  BY <1>1, <1>4 DEF Poll, States
<1>5. CASE ClearRunning
  BY <1>1, <1>5 DEF ClearRunning, States
<1>6. CASE CancelIo
  BY <1>1, <1>6 DEF CancelIo, States
<1>7. CASE Free
  BY <1>1, <1>7 DEF Free, States
<1>8. ASSUME NEW w \in Watch, LoopTest(w) \/ WaitForPoll(w) \/ Read(w) PROVE States'
  BY <1>1, <1>8 DEF LoopTest, WaitForPoll, Read, GoTo, States
<1>9. ASSUME NEW w \in Watch, ReadReturns(w) PROVE States'
  BY <1>1, <1>9 DEF ReadReturns, GoTo, States
<1>10. ASSUME NEW w \in Watch, Publish(w) \/ ReadFails(w) PROVE States'
  BY <1>1, <1>10 DEF Publish, ReadFails, GoTo, States
<1>11. ASSUME NEW w \in Watch, DirectoryChanges(w) PROVE States'
  BY <1>1, <1>11 DEF DirectoryChanges, native, States
<1>12. ASSUME NEW w \in Watch, ReadCompletes(w) PROVE States'
  BY <1>1, <1>12 DEF ReadCompletes, States
<1>13. ASSUME NEW w \in Watch, ReadOverflows(w) PROVE States'
  BY <1>1, <1>13 DEF ReadOverflows, States
<1>14. QED
  BY <1>2, <1>3, <1>4, <1>5, <1>6, <1>7, <1>8, <1>9, <1>10, <1>11, <1>12, <1>13
  DEF FimNext, Poller, FimThread

(* Where a directory's changes may be. *)
Batches ==
  /\ made \in [Watch -> Nat]
  /\ buffer \in [Watch -> SUBSET Nat] /\ kernel \in [Watch -> SUBSET Nat]
  /\ delivered \in [Watch -> SUBSET Nat] /\ lost \in [Watch -> SUBSET Nat]
  /\ \A w \in Watch :
       /\ made[w] <= MaxChanges[w]
       /\ buffer[w] \subseteq 1 .. made[w] /\ kernel[w] \subseteq 1 .. made[w]
       /\ delivered[w] \subseteq 1 .. made[w] /\ lost[w] \subseteq 1 .. made[w]

LEMMA FimTypeIs ==
  FimTypeOK <=>
    /\ States /\ Batches /\ turn \in Watch
    /\ poller \in {"start", "test", "poll", "flag", "cancel", "join", "ended"}
BY DEF FimTypeOK, States, Batches

LEMMA BatchesStep ==
  ASSUME FimTypeOK, FimNext
  PROVE  Batches'
<1>1. Batches /\ turn \in Watch
  BY FimTypeIs
<1>2. ASSUME UNCHANGED <<made, buffer, kernel, delivered, lost>> PROVE Batches'
  BY <1>1, <1>2 DEF Batches
<1>3. CASE Start \/ TestStop \/ NoSession \/ ClearRunning \/ CancelIo \/ Free
  BY <1>2, <1>3 DEF Start, TestStop, NoSession, ClearRunning, CancelIo, Free, native,
                    directory, outcome
<1>4. CASE Poll
  <2>1. CASE session[turn] = "live" /\ dataReady[turn] /\ big[turn]
    BY <1>1, <1>4, <2>1 DEF Poll, Batches, directory
  <2>2. CASE session[turn] = "live" /\ dataReady[turn] /\ ~big[turn]
    BY <1>1, <1>4, <2>2 DEF Poll, Batches, directory
  <2>3. CASE ~(session[turn] = "live" /\ dataReady[turn])
    BY <1>2, <1>4, <2>3 DEF Poll, directory, outcome
  <2>4. QED
    BY <2>1, <2>2, <2>3
<1>5. ASSUME NEW w \in Watch, FimThread(w) \/ ReadFails(w) PROVE Batches'
  BY <1>2, <1>5 DEF FimThread, LoopTest, WaitForPoll, Read, ReadReturns, Publish, ReadFails,
                    directory, outcome
<1>6. ASSUME NEW w \in Watch, DirectoryChanges(w) PROVE Batches'
  <2>1. /\ made' = [made EXCEPT ![w] = made[w] + 1]
        /\ kernel' = [kernel EXCEPT ![w] = kernel[w] \cup {made[w] + 1}]
        /\ buffer' = buffer /\ delivered' = delivered /\ lost' = lost
        /\ made[w] + 1 <= MaxChanges[w] /\ made[w] \in Nat
    BY <1>1, <1>6, Directories DEF DirectoryChanges, native, outcome, Batches
  <2>2. 1 .. made[w] \subseteq 1 .. made[w] + 1 /\ made[w] + 1 \in 1 .. made[w] + 1
    BY <2>1
  <2>3. QED
    BY <1>1, <2>1, <2>2 DEF Batches
<1>7. ASSUME NEW w \in Watch, ReadCompletes(w) PROVE Batches'
  <2>1. /\ made' = made /\ delivered' = delivered /\ lost' = lost
        /\ buffer' = [buffer EXCEPT ![w] = kernel[w]]
        /\ kernel' = [kernel EXCEPT ![w] = {}]
    BY <1>7 DEF ReadCompletes, outcome
  <2>2. QED
    BY <1>1, <2>1 DEF Batches
<1>8. ASSUME NEW w \in Watch, ReadOverflows(w) PROVE Batches'
  BY <1>1, <1>8 DEF ReadOverflows, Batches
<1>9. QED
  BY <1>3, <1>4, <1>5, <1>6, <1>7, <1>8 DEF FimNext, Poller

LEMMA FimTypeStep ==
  ASSUME FimTypeOK, FimNext
  PROVE  FimTypeOK'
<1>1. (FimTypeOK <=>
         /\ States /\ Batches /\ turn \in Watch
         /\ poller \in {"start", "test", "poll", "flag", "cancel", "join", "ended"})'
  BY FimTypeIs, PTL
<1>2. QED
  BY <1>1, TurnStep, StatesStep, BatchesStep

-----------------------------------------------------------------------------
(* The file sensor: a session, its thread and its stop *)

LEMMA ReadingStep ==
  ASSUME FimTypeOK, Reading, Stopping, FimNext
  PROVE  Reading'
<1>1. States /\ Batches /\ turn \in Watch
  BY FimTypeIs
<1>2. ASSUME UNCHANGED <<session, thread, made, io, dataReady>> PROVE Reading'
  BY <1>2 DEF Reading
<1>3. CASE Start
  <2>1. session[turn] = "none" /\ turn \in Watch
    BY <1>1, <1>3, Directories DEF Start, Stopping
  <2>2. QED
    BY <1>1, <1>3, <2>1 DEF Start, GoTo, Reading, States, directory
<1>4. CASE TestStop \/ NoSession \/ ClearRunning
  BY <1>2, <1>4 DEF TestStop, NoSession, ClearRunning, native, directory
<1>5. CASE Poll
  BY <1>1, <1>5 DEF Poll, Reading, States, directory
<1>6. CASE CancelIo
  <2>1. session[turn] = "live"
    BY <1>6 DEF CancelIo, Stopping
  <2>2. QED
    BY <1>1, <1>6, <2>1 DEF CancelIo, Reading, States, directory
<1>7. CASE Free
  <2>1. session[turn] = "live"
    BY <1>7 DEF Free, Stopping
  <2>2. QED
    BY <1>1, <1>7, <2>1 DEF Free, Reading, States, directory
<1>8. ASSUME NEW w \in Watch, LoopTest(w) \/ WaitForPoll(w) \/ Read(w) \/ ReadFails(w)
      PROVE  Reading'
  BY <1>1, <1>8 DEF LoopTest, WaitForPoll, Read, ReadFails, GoTo, Reading, States, directory
<1>9. ASSUME NEW w \in Watch, ReadReturns(w) PROVE Reading'
  BY <1>1, <1>9 DEF ReadReturns, GoTo, Reading, States, directory
<1>10. ASSUME NEW w \in Watch, Publish(w) PROVE Reading'
  BY <1>1, <1>10 DEF Publish, GoTo, Reading, States, directory
<1>11. ASSUME NEW w \in Watch, DirectoryChanges(w) PROVE Reading'
  BY <1>1, <1>11 DEF DirectoryChanges, native, Reading, States, Batches
<1>12. ASSUME NEW w \in Watch, ReadCompletes(w) \/ ReadOverflows(w) PROVE Reading'
  BY <1>1, <1>12 DEF ReadCompletes, ReadOverflows, Reading, States
<1>13. QED
  BY <1>3, <1>4, <1>5, <1>6, <1>7, <1>8, <1>9, <1>10, <1>11, <1>12
  DEF FimNext, Poller, FimThread

LEMMA StoppingStep ==
  ASSUME FimTypeOK, Reading, Stopping, FimNext
  PROVE  Stopping'
<1>1. States /\ turn \in Watch /\ Watch = 1 .. Watches /\ Watches \in Nat
  BY FimTypeIs, Directories
<1>2. CASE Start
  BY <1>1, <1>2 DEF Start, AfterStart, Stopping, States
<1>3. CASE TestStop \/ Poll
  BY <1>3 DEF TestStop, Poll, AfterPoll, Stopping
<1>4. CASE ClearRunning
  BY <1>1, <1>4 DEF ClearRunning, Stopping, States
<1>5. CASE NoSession \/ Free
  BY <1>5 DEF NoSession, Free, NextStop, Stopping
<1>6. CASE CancelIo
  <2>1. session[turn] = "live" /\ ~running[turn]
    BY <1>6 DEF CancelIo, Stopping
  <2>2. /\ turn' = turn /\ poller' = "join"
        /\ session' = session /\ running' = running /\ thread' = thread
    BY <1>6 DEF CancelIo
  <2>3. ASSUME ~missed'[turn] PROVE thread[turn] = "io" /\ io'[turn] = "cancelled"
    <3>1. io[turn] = "pending"
      BY <1>1, <1>6, <2>3 DEF CancelIo, States
    <3>2. QED
      BY <1>1, <1>6, <3>1 DEF CancelIo, Reading, States
  <2>4. QED
    BY <2>1, <2>2, <2>3 DEF Stopping
<1>7. ASSUME NEW w \in Watch, LoopTest(w) \/ WaitForPoll(w) \/ Read(w) \/ ReadFails(w)
      PROVE  Stopping'
  <2>1. poller' = poller /\ turn' = turn /\ session' = session /\ running' = running
        /\ missed' = missed
    BY <1>7 DEF LoopTest, WaitForPoll, Read, ReadFails
  <2>2. CASE w # turn
    <3>1. thread'[turn] = thread[turn] /\ io'[turn] = io[turn]
      BY <1>1, <1>7, <2>2 DEF LoopTest, WaitForPoll, Read, ReadFails, GoTo, States
    <3>2. QED
      BY <2>1, <3>1 DEF Stopping
  <2>3. CASE w = turn
    BY <1>1, <1>7, <2>1, <2>3
    DEF LoopTest, WaitForPoll, Read, ReadFails, GoTo, Stopping, States
  <2>4. QED
    BY <2>2, <2>3
<1>8. ASSUME NEW w \in Watch, ReadReturns(w) \/ Publish(w) PROVE Stopping'
  <2>1. poller' = poller /\ turn' = turn /\ session' = session /\ running' = running
        /\ missed' = missed
    BY <1>8 DEF ReadReturns, Publish
  <2>2. CASE w # turn
    <3>1. thread'[turn] = thread[turn] /\ io'[turn] = io[turn]
      BY <1>1, <1>8, <2>2 DEF ReadReturns, Publish, GoTo, States
    <3>2. QED
      BY <2>1, <3>1 DEF Stopping
  <2>3. CASE w = turn
    BY <1>1, <1>8, <2>1, <2>3 DEF ReadReturns, Publish, GoTo, Stopping, States
  <2>4. QED
    BY <2>2, <2>3
<1>9. ASSUME NEW w \in Watch, DirectoryChanges(w) PROVE Stopping'
  BY <1>9 DEF DirectoryChanges, native, Stopping
<1>10. ASSUME NEW w \in Watch, ReadCompletes(w) \/ ReadOverflows(w) PROVE Stopping'
  <2>1. /\ poller' = poller /\ turn' = turn /\ session' = session /\ running' = running
        /\ missed' = missed /\ thread' = thread /\ io[w] = "pending"
        /\ w # turn => io'[turn] = io[turn]
    BY <1>1, <1>10 DEF ReadCompletes, ReadOverflows, States
  <2>2. thread[w] = "io"
    BY <2>1 DEF Reading
  <2>3. QED
    BY <2>1, <2>2 DEF Stopping
<1>11. QED
  BY <1>2, <1>3, <1>4, <1>5, <1>6, <1>7, <1>8, <1>9, <1>10 DEF FimNext, Poller, FimThread

(* A thread whose session is gone stands where it was: nothing moves it. *)
LEMMA FreedStep ==
  ASSUME FimTypeOK, Reading, Stopping, FreedUnderThread, FimNext
  PROVE  FreedUnderThread'
<1>1. States /\ turn \in Watch
  BY FimTypeIs
<1>2. ASSUME UNCHANGED <<session, thread, missed>> PROVE FreedUnderThread'
  BY <1>2 DEF FreedUnderThread
<1>3. CASE Start
  BY <1>1, <1>3 DEF Start, GoTo, FreedUnderThread, States
<1>4. CASE TestStop \/ Poll \/ NoSession \/ ClearRunning
  BY <1>2, <1>4 DEF TestStop, Poll, NoSession, ClearRunning, native
<1>5. CASE CancelIo
  <2>1. session[turn] = "live"
    BY <1>5 DEF CancelIo, Stopping
  <2>2. QED
    BY <1>1, <1>5, <2>1 DEF CancelIo, FreedUnderThread, States
<1>6. CASE Free
  <2>1. thread[turn] # "done" => missed[turn] /\ thread[turn] = "io"
    BY <1>6 DEF Free, Joined, Stopping
  <2>2. thread' = thread /\ missed' = missed /\ session' = [session EXCEPT ![turn] = "freed"]
    BY <1>6 DEF Free
  <2>3. QED
    BY <1>1, <2>1, <2>2 DEF FreedUnderThread, States
<1>7. ASSUME NEW w \in Watch, FimThread(w) \/ ReadFails(w) PROVE FreedUnderThread'
  <2>1. /\ session[w] = "live" /\ session' = session /\ missed' = missed
        /\ \E place : thread' = [thread EXCEPT ![w] = place]
    BY <1>7 DEF FimThread, LoopTest, WaitForPoll, Read, ReadReturns, Publish, ReadFails, GoTo
  <2>2. QED
    BY <1>1, <2>1 DEF FreedUnderThread, States
<1>8. ASSUME NEW w \in Watch, DirectoryChanges(w) \/ ReadCompletes(w) \/ ReadOverflows(w)
      PROVE  FreedUnderThread'
  BY <1>2, <1>8 DEF DirectoryChanges, ReadCompletes, ReadOverflows, native
<1>9. QED
  BY <1>3, <1>4, <1>5, <1>6, <1>7, <1>8 DEF FimNext, Poller

LEMMA HandedOverStep ==
  ASSUME FimTypeOK, Reading, Stopping, HandedOver, FimNext
  PROVE  HandedOver'
<1>1. States /\ turn \in Watch
  BY FimTypeIs
<1>2. ASSUME UNCHANGED <<session, running, thread, dataReady>> PROVE HandedOver'
  BY <1>2 DEF HandedOver
<1>3. CASE Start
  BY <1>1, <1>3 DEF Start, GoTo, HandedOver, States
<1>4. CASE TestStop \/ NoSession \/ CancelIo
  BY <1>2, <1>4 DEF TestStop, NoSession, CancelIo, native
<1>5. CASE Poll
  BY <1>1, <1>5 DEF Poll, HandedOver, States
<1>6. CASE ClearRunning
  BY <1>1, <1>6 DEF ClearRunning, HandedOver, States
<1>7. CASE Free
  BY <1>1, <1>7 DEF Free, HandedOver, States
<1>8. ASSUME NEW w \in Watch, LoopTest(w) \/ WaitForPoll(w) \/ Read(w) \/ ReadFails(w)
      PROVE  HandedOver'
  BY <1>1, <1>8
  DEF LoopTest, WaitForPoll, MayRead, Read, ReadFails, GoTo, HandedOver, States
<1>9. ASSUME NEW w \in Watch, ReadReturns(w) PROVE HandedOver'
  BY <1>1, <1>9 DEF ReadReturns, GoTo, HandedOver, States
<1>10. ASSUME NEW w \in Watch, Publish(w) PROVE HandedOver'
  BY <1>1, <1>10 DEF Publish, GoTo, HandedOver, States
<1>11. ASSUME NEW w \in Watch, DirectoryChanges(w) \/ ReadCompletes(w) \/ ReadOverflows(w)
       PROVE  HandedOver'
  BY <1>2, <1>11 DEF DirectoryChanges, ReadCompletes, ReadOverflows, native
<1>12. QED
  BY <1>3, <1>4, <1>5, <1>6, <1>7, <1>8, <1>9, <1>10, <1>11
  DEF FimNext, Poller, FimThread

-----------------------------------------------------------------------------
(* The file sensor: every change in one place *)

(* The account of one session. *)
Account(w) ==
  session[w] = "live" /\ running[w] =>
    /\ 1 .. made[w] = kernel[w] \cup Held(w) \cup delivered[w] \cup lost[w]
    /\ Apart(kernel[w], Held(w), delivered[w], lost[w])

LEMMA AccountUnchanged ==
  ASSUME NEW w \in Watch, Account(w),
         session'[w] = "live" /\ running'[w] => session[w] = "live" /\ running[w],
         made'[w] = made[w], kernel'[w] = kernel[w], Held(w)' = Held(w),
         delivered'[w] = delivered[w], lost'[w] = lost[w]
  PROVE  Account(w)'
BY DEF Account

(* What Windows holds at the start of a session is nothing. *)
LEMMA NothingYet ==
  ASSUME FimTypeOK, Reading, NEW w \in Watch, session[w] = "none"
  PROVE  /\ made[w] = 0 /\ kernel[w] = {} /\ delivered[w] = {} /\ lost[w] = {}
         /\ Held(w) = {}
<1>1. made[w] = 0 /\ io[w] = "idle" /\ ~dataReady[w]
  BY DEF Reading
<1>2. kernel[w] \subseteq 1 .. 0 /\ delivered[w] \subseteq 1 .. 0 /\ lost[w] \subseteq 1 .. 0
  BY <1>1, FimTypeIs DEF Batches
<1>3. 1 .. 0 = {}
  OBVIOUS
<1>4. Held(w) = {}
  BY <1>1 DEF Held
<1>5. QED
  BY <1>1, <1>2, <1>3, <1>4

LEMMA HeldUnchanged ==
  ASSUME NEW w \in Watch, io'[w] = io[w], dataReady'[w] = dataReady[w],
         buffer'[w] = buffer[w]
  PROVE  Held(w)' = Held(w)
BY DEF Held

LEMMA AccountPoll ==
  ASSUME FimTypeOK, Reading, HandedOver, Poll, NEW w \in Watch, Account(w)
  PROVE  Account(w)'
<1>1. States /\ Batches /\ turn \in Watch
  BY FimTypeIs
<1>2. /\ session' = session /\ running' = running /\ thread' = thread /\ io' = io
      /\ made' = made /\ kernel' = kernel
  BY DEF Poll, directory
<1>3. CASE w = turn /\ session[w] = "live" /\ dataReady[w] /\ running[w]
  <2>1. io[w] # "completed"
    BY <1>3 DEF HandedOver, Reading
  <2>2. Held(w) = buffer[w]
    BY <1>3 DEF Held
  <2>3. ~dataReady'[w]
    BY <1>1, <1>3 DEF Poll, States
  <2>4. Held(w)' = {}
    BY <1>2, <2>1, <2>3 DEF Held
  <2>5. \/ lost'[w] = lost[w] \cup buffer[w] /\ delivered'[w] = delivered[w]
        \/ delivered'[w] = delivered[w] \cup buffer[w] /\ lost'[w] = lost[w]
    BY <1>1, <1>3 DEF Poll, Batches
  <2>6. /\ 1 .. made[w] = kernel[w] \cup buffer[w] \cup delivered[w] \cup lost[w]
        /\ Apart(kernel[w], buffer[w], delivered[w], lost[w])
    BY <1>3, <2>2 DEF Account
  <2>7. /\ 1 .. made'[w] = kernel'[w] \cup {} \cup delivered'[w] \cup lost'[w]
        /\ Apart(kernel'[w], {}, delivered'[w], lost'[w])
    BY <1>2, <2>5, <2>6 DEF Apart
  <2>8. QED
    BY <2>4, <2>7 DEF Account
<1>4. CASE w = turn /\ ~(session[w] = "live" /\ dataReady[w])
  <2>1. /\ buffer' = buffer /\ dataReady' = dataReady
        /\ delivered' = delivered /\ lost' = lost
    BY <1>4 DEF Poll, outcome
  <2>2. Held(w)' = Held(w)
    BY <1>2, <2>1, HeldUnchanged
  <2>3. QED
    BY <1>2, <2>1, <2>2, AccountUnchanged
<1>5. CASE ~running[w]
  BY <1>2, <1>5 DEF Account
<1>6. CASE w # turn
  <2>1. /\ buffer'[w] = buffer[w] /\ dataReady'[w] = dataReady[w]
        /\ delivered'[w] = delivered[w] /\ lost'[w] = lost[w]
    BY <1>1, <1>6 DEF Poll, outcome, States, Batches
  <2>2. Held(w)' = Held(w)
    BY <1>2, <2>1, HeldUnchanged
  <2>3. QED
    BY <1>2, <2>1, <2>2, AccountUnchanged
<1>7. QED
  BY <1>3, <1>4, <1>5, <1>6

LEMMA AccountChange ==
  ASSUME FimTypeOK, NEW v \in Watch, DirectoryChanges(v), NEW w \in Watch, Account(w)
  PROVE  Account(w)'
<1>1. Batches
  BY FimTypeIs
<1>2. /\ session' = session /\ running' = running /\ io' = io /\ dataReady' = dataReady
      /\ buffer' = buffer /\ delivered' = delivered /\ lost' = lost
      /\ made' = [made EXCEPT ![v] = made[v] + 1]
      /\ kernel' = [kernel EXCEPT ![v] = kernel[v] \cup {made[v] + 1}]
  BY DEF DirectoryChanges, native, outcome
<1>3. Held(w)' = Held(w)
  BY <1>2, HeldUnchanged
<1>4. CASE w # v
  <2>1. made'[w] = made[w] /\ kernel'[w] = kernel[w]
    BY <1>1, <1>2, <1>4 DEF Batches
  <2>2. QED
    BY <1>2, <1>3, <2>1, AccountUnchanged
<1>5. CASE w = v
  <2>1. made[w] \in Nat /\ made'[w] = made[w] + 1
    BY <1>1, <1>2, <1>5 DEF Batches
  <2>2. kernel'[w] = kernel[w] \cup {made[w] + 1}
    BY <1>1, <1>2, <1>5 DEF Batches
  <2>3. 1 .. made'[w] = (1 .. made[w]) \cup {made[w] + 1} /\ made[w] + 1 \notin 1 .. made[w]
    BY <2>1
  <2>4. SUFFICES ASSUME session[w] = "live", running[w]
                 PROVE  /\ 1 .. made'[w]
                             = kernel'[w] \cup Held(w)' \cup delivered'[w] \cup lost'[w]
                        /\ Apart(kernel'[w], Held(w)', delivered'[w], lost'[w])
    BY <1>2 DEF Account
  <2>5. /\ 1 .. made[w] = kernel[w] \cup Held(w) \cup delivered[w] \cup lost[w]
        /\ Apart(kernel[w], Held(w), delivered[w], lost[w])
    BY <2>4 DEF Account
  <2>6. made[w] + 1 \notin Held(w) \cup delivered[w] \cup lost[w]
    BY <2>3, <2>5
  <2>7. 1 .. made'[w] = kernel'[w] \cup Held(w)' \cup delivered'[w] \cup lost'[w]
    BY <1>2, <1>3, <2>2, <2>3, <2>5
  <2>8. Apart(kernel'[w], Held(w)', delivered'[w], lost'[w])
    BY <1>2, <1>3, <2>2, <2>5, <2>6 DEF Apart
  <2>9. QED
    BY <2>7, <2>8
<1>6. QED
  BY <1>4, <1>5

(* A read takes all Windows holds into the buffer, which is empty by then, or
   loses it. *)
LEMMA AccountRead ==
  ASSUME FimTypeOK, Reading, HandedOver, NEW v \in Watch,
         ReadCompletes(v) \/ ReadOverflows(v), NEW w \in Watch, Account(w)
  PROVE  Account(w)'
<1>1. States /\ Batches
  BY FimTypeIs
<1>2. /\ session' = session /\ running' = running /\ dataReady' = dataReady
      /\ made' = made /\ delivered' = delivered /\ io[v] = "pending"
      /\ kernel' = [kernel EXCEPT ![v] = {}]
  BY DEF ReadCompletes, ReadOverflows, outcome
<1>3. CASE w # v
  <2>1. /\ kernel'[w] = kernel[w] /\ lost'[w] = lost[w] /\ io'[w] = io[w]
        /\ buffer'[w] = buffer[w]
    <3>1. CASE ReadCompletes(v)
      BY <1>1, <1>3, <3>1 DEF ReadCompletes, outcome, States, Batches
    <3>2. CASE ReadOverflows(v)
      BY <1>1, <1>3, <3>2 DEF ReadOverflows, States, Batches
    <3>3. QED
      BY <3>1, <3>2
  <2>2. Held(w)' = Held(w)
    BY <1>2, <2>1, HeldUnchanged
  <2>3. QED
    BY <1>2, <2>1, <2>2, AccountUnchanged
<1>4. CASE w = v
  <2>1. SUFFICES ASSUME session[w] = "live", running[w]
                 PROVE  /\ 1 .. made'[w]
                             = kernel'[w] \cup Held(w)' \cup delivered'[w] \cup lost'[w]
                        /\ Apart(kernel'[w], Held(w)', delivered'[w], lost'[w])
    BY <1>2 DEF Account
  <2>2. ~dataReady[w] /\ io[w] # "completed"
    BY <1>2, <1>4, <2>1 DEF Reading, HandedOver
  <2>3. Held(w) = {}
    BY <2>2 DEF Held
  <2>4. kernel'[w] = {}
    BY <1>1, <1>2, <1>4 DEF Batches
  <2>5. /\ 1 .. made[w] = kernel[w] \cup delivered[w] \cup lost[w]
        /\ kernel[w] \cap delivered[w] = {} /\ kernel[w] \cap lost[w] = {}
        /\ delivered[w] \cap lost[w] = {}
    BY <2>1, <2>3 DEF Account, Apart
  <2>6. CASE ReadCompletes(v)
    <3>1. io'[w] = "completed" /\ buffer'[w] = kernel[w] /\ lost'[w] = lost[w]
      BY <1>1, <1>4, <2>6 DEF ReadCompletes, outcome, States, Batches
    <3>2. Held(w)' = kernel[w]
      BY <3>1 DEF Held
    <3>3. QED
      BY <1>2, <2>4, <2>5, <3>1, <3>2 DEF Apart
  <2>7. CASE ReadOverflows(v)
    <3>1. io'[w] = "empty" /\ lost'[w] = lost[w] \cup kernel[w]
      BY <1>1, <1>4, <2>7 DEF ReadOverflows, States, Batches
    <3>2. Held(w)' = {}
      BY <1>2, <2>2, <3>1 DEF Held
    <3>3. QED
      BY <1>2, <2>4, <2>5, <3>1, <3>2 DEF Apart
  <2>8. QED
    BY <2>6, <2>7
<1>5. QED
  BY <1>3, <1>4

LEMMA AccountStart ==
  ASSUME FimTypeOK, Reading, Stopping, Start, NEW w \in Watch, Account(w)
  PROVE  Account(w)'
<1>1. States /\ turn \in Watch
  BY FimTypeIs
<1>2. /\ io' = io /\ dataReady' = dataReady /\ buffer' = buffer
      /\ made' = made /\ kernel' = kernel /\ delivered' = delivered /\ lost' = lost
  BY DEF Start, directory, outcome
<1>3. Held(w)' = Held(w)
  BY <1>2, HeldUnchanged
<1>4. CASE w = turn
  <2>1. session[w] = "none"
    BY <1>1, <1>4, Directories DEF Start, Stopping
  <2>2. /\ made[w] = 0 /\ kernel[w] = {} /\ delivered[w] = {} /\ lost[w] = {}
        /\ Held(w) = {}
    BY <2>1, NothingYet
  <2>3. 1 .. made[w] = {}
    BY <2>2
  <2>4. QED
    BY <1>2, <1>3, <2>2, <2>3 DEF Account, Apart
<1>5. CASE w # turn
  <2>1. session'[w] = session[w] /\ running'[w] = running[w]
    BY <1>1, <1>5 DEF Start, States
  <2>2. QED
    BY <1>2, <1>3, <2>1, AccountUnchanged
<1>6. QED
  BY <1>4, <1>5

LEMMA AccountedStep ==
  ASSUME FimTypeOK, Reading, Stopping, HandedOver, Accounted, FimNext
  PROVE  Accounted'
<1> SUFFICES ASSUME NEW w \in Watch PROVE Account(w)'
  BY DEF Accounted, Account
<1>0. Account(w)
  BY DEF Accounted, Account
<1>1. States /\ turn \in Watch
  BY FimTypeIs
<1>2. ASSUME made' = made, kernel' = kernel, delivered' = delivered, lost' = lost,
             Held(w)' = Held(w),
             session'[w] = "live" /\ running'[w] => session[w] = "live" /\ running[w]
      PROVE  Account(w)'
  BY <1>0, <1>2, AccountUnchanged
<1>3. CASE Start
  BY <1>0, <1>3, AccountStart
<1>4. CASE TestStop \/ NoSession
  BY <1>2, <1>4, HeldUnchanged DEF TestStop, NoSession, native, directory, outcome
<1>5. CASE Poll
  BY <1>0, <1>5, AccountPoll
<1>6. CASE ClearRunning \/ Free
  <2>1. session'[w] = "live" /\ running'[w] => session[w] = "live" /\ running[w]
    BY <1>1, <1>6 DEF ClearRunning, Free, States
  <2>2. Held(w)' = Held(w)
    BY <1>6, HeldUnchanged DEF ClearRunning, Free
  <2>3. made' = made /\ kernel' = kernel /\ delivered' = delivered /\ lost' = lost
    BY <1>6 DEF ClearRunning, Free, directory, outcome
  <2>4. QED
    BY <1>2, <2>1, <2>2, <2>3
<1>7. CASE CancelIo
  <2>1. io'[w] = "completed" <=> io[w] = "completed"
    BY <1>1, <1>7 DEF CancelIo, States
  <2>2. dataReady' = dataReady /\ buffer' = buffer
    BY <1>7 DEF CancelIo
  <2>3. Held(w)' = Held(w)
    BY <2>1, <2>2 DEF Held
  <2>4. QED
    BY <1>2, <1>7, <2>3 DEF CancelIo, directory, outcome
<1>8. ASSUME NEW v \in Watch, LoopTest(v) \/ WaitForPoll(v) \/ ReadFails(v)
      PROVE  Account(w)'
  BY <1>2, <1>8, HeldUnchanged DEF LoopTest, WaitForPoll, ReadFails, directory, outcome
<1>9. ASSUME NEW v \in Watch, Read(v) PROVE Account(w)'
  <2>1. io[v] # "completed"
    BY <1>9 DEF Read, Reading
  <2>2. io'[w] = "completed" <=> io[w] = "completed"
    BY <1>1, <1>9, <2>1 DEF Read, States
  <2>3. dataReady' = dataReady /\ buffer' = buffer
    BY <1>9 DEF Read
  <2>4. Held(w)' = Held(w)
    BY <2>2, <2>3 DEF Held
  <2>5. QED
    BY <1>2, <1>9, <2>4 DEF Read, directory, outcome
<1>10. ASSUME NEW v \in Watch, ReadReturns(v) PROVE Account(w)'
  <2>1. io'[w] = "completed" <=> io[w] = "completed"
    BY <1>1, <1>10 DEF ReadReturns, States
  <2>2. dataReady' = dataReady /\ buffer' = buffer
    BY <1>10 DEF ReadReturns
  <2>3. Held(w)' = Held(w)
    BY <2>1, <2>2 DEF Held
  <2>4. QED
    BY <1>2, <1>10, <2>3 DEF ReadReturns, directory, outcome
<1>11. ASSUME NEW v \in Watch, Publish(v) PROVE Account(w)'
  <2>1. io[v] = "completed" /\ dataReady'[v] /\ buffer' = buffer
    BY <1>1, <1>11 DEF Publish, Reading, States
  <2>2. w # v => io'[w] = io[w] /\ dataReady'[w] = dataReady[w]
    BY <1>1, <1>11 DEF Publish, States
  <2>3. Held(w)' = Held(w)
    BY <2>1, <2>2 DEF Held
  <2>4. QED
    BY <1>2, <1>11, <2>3 DEF Publish, directory, outcome
<1>12. ASSUME NEW v \in Watch, DirectoryChanges(v) PROVE Account(w)'
  BY <1>0, <1>12, AccountChange
<1>13. ASSUME NEW v \in Watch, ReadCompletes(v) \/ ReadOverflows(v) PROVE Account(w)'
  BY <1>0, <1>13, AccountRead
<1>14. QED
  BY <1>3, <1>4, <1>5, <1>6, <1>7, <1>8, <1>9, <1>10, <1>11, <1>12, <1>13
  DEF FimNext, Poller, FimThread

LEMMA FimStep ==
  ASSUME FimInv, FimNext
  PROVE  FimInv'
<1>1. FimTypeOK /\ Reading /\ Stopping /\ FreedUnderThread /\ HandedOver /\ Accounted
  BY DEF FimInv
<1>2. FimTypeOK'
  BY <1>1, FimTypeStep
<1>3. Reading' /\ Stopping'
  BY <1>1, ReadingStep, StoppingStep
<1>4. FreedUnderThread' /\ HandedOver'
  BY <1>1, FreedStep, HandedOverStep
<1>5. Accounted'
  BY <1>1, AccountedStep
<1>6. QED
  BY <1>2, <1>3, <1>4, <1>5 DEF FimInv

LEMMA FimUnchanged ==
  ASSUME FimInv, UNCHANGED fimVars
  PROVE  FimInv'
<1>1. /\ UNCHANGED <<session, running, thread, io, buffer, big, dataReady>>
      /\ UNCHANGED <<made, kernel, delivered, lost, missed, poller, turn>>
  BY DEF fimVars, native, directory, outcome
<1>2. FimTypeOK /\ Reading /\ Stopping /\ FreedUnderThread /\ HandedOver /\ Accounted
  BY DEF FimInv
<1>3. FimTypeOK'
  BY <1>1, <1>2 DEF FimTypeOK
<1>4. Reading'
  BY <1>1, <1>2 DEF Reading
<1>5. Stopping'
  BY <1>1, <1>2 DEF Stopping
<1>6. FreedUnderThread' /\ HandedOver'
  BY <1>1, <1>2 DEF FreedUnderThread, HandedOver
<1>7. Accounted'
  BY <1>1, <1>2 DEF Accounted, Held
<1>8. QED
  BY <1>3, <1>4, <1>5, <1>6, <1>7 DEF FimInv

LEMMA EtwUnchanged ==
  ASSUME EtwInv, UNCHANGED etwVars
  PROVE  EtwInv' /\ etwThread' = etwThread
<1>1. /\ trace' = trace /\ handle' = handle /\ properties' = properties /\ frees' = frees
      /\ lockReady' = lockReady /\ callback' = callback /\ consumer' = consumer
      /\ etwThread' = etwThread /\ sourceRuns' = sourceRuns /\ etwReady' = etwReady
  BY DEF etwVars, etwSession
<1>2. EtwTypeOK' /\ FreedOnce'
  BY <1>1 DEF EtwInv, EtwTypeOK, FreedOnce
<1>3. EtwPlaces'
  BY <1>1 DEF EtwInv, EtwPlaces
<1>4. QED
  BY <1>1, <1>2, <1>3 DEF EtwInv

-----------------------------------------------------------------------------
(* The theorems *)

LEMMA InitIInv == Init => IInv
<1> SUFFICES ASSUME Init PROVE IInv
  OBVIOUS
<1>1. FimTypeOK
  BY Directories DEF Init, FimInit, FimTypeOK
<1>2. Reading /\ Stopping /\ FreedUnderThread /\ HandedOver /\ Accounted
  BY Directories DEF Init, FimInit, Reading, Stopping, FreedUnderThread, HandedOver, Accounted,
                     Watch
<1>3. EtwTypeOK /\ FreedOnce
  <2>1. frees = 0 /\ 0 \in 0 .. 2
    BY DEF Init, EtwInit
  <2>2. EtwTypeOK
    BY <2>1 DEF Init, EtwInit, EtwTypeOK
  <2>3. QED
    BY <2>1, <2>2 DEF FreedOnce
<1>4. EtwPlaces
  BY DEF Init, EtwInit, EtwPlaces
<1>5. DaemonInv
  BY DEF Init, DaemonInv
<1>6. QED
  BY <1>1, <1>2, <1>3, <1>4, <1>5 DEF IInv, FimInv, EtwInv

LEMMA Invariance == Spec => []IInv
<1>1. IInv /\ [Next]_vars => IInv'
  <2> SUFFICES ASSUME IInv, [Next]_vars PROVE IInv'
    OBVIOUS
  <2>0. FimInv /\ EtwInv /\ DaemonInv
    BY DEF IInv
  <2>1. CASE FimNext /\ UNCHANGED <<etwVars, daemon>>
    <3>1. FimInv' /\ EtwInv' /\ etwThread' = etwThread
      BY <2>0, <2>1, FimStep, EtwUnchanged
    <3>2. DaemonInv'
      BY <2>0, <2>1, <3>1 DEF FimNext, DaemonInv
    <3>3. QED
      BY <3>1, <3>2 DEF IInv
  <2>2. CASE EtwNext /\ UNCHANGED <<fimVars, daemon>>
    <3>1. FimInv' /\ EtwInv' /\ (etwThread = "ended" => etwThread' = "ended")
      BY <2>0, <2>2, EtwStep, FimUnchanged
    <3>2. DaemonInv'
      BY <2>0, <2>2, <3>1 DEF EtwNext, DaemonInv
    <3>3. QED
      BY <3>1, <3>2 DEF IInv
  <2>3. CASE Shutdown \/ JoinFim \/ JoinEtw
    <3>1. UNCHANGED fimVars /\ UNCHANGED etwVars
      BY <2>3 DEF Shutdown, JoinFim, JoinEtw
    <3>2. FimInv' /\ EtwInv' /\ etwThread' = etwThread
      BY <2>0, <3>1, FimUnchanged, EtwUnchanged
    <3>3. DaemonInv'
      BY <2>0, <2>3, <3>2 DEF Shutdown, JoinFim, JoinEtw, RequestStop, DaemonInv
    <3>4. QED
      BY <3>2, <3>3 DEF IInv
  <2>4. CASE UNCHANGED vars
    <3>1. UNCHANGED fimVars /\ UNCHANGED etwVars /\ UNCHANGED stopRequested
            /\ UNCHANGED daemon
      BY <2>4 DEF vars
    <3>2. FimInv' /\ EtwInv' /\ etwThread' = etwThread
      BY <2>0, <3>1, FimUnchanged, EtwUnchanged
    <3>3. DaemonInv'
      BY <2>0, <3>1, <3>2 DEF DaemonInv
    <3>4. QED
      BY <3>2, <3>3 DEF IInv
  <2>5. QED
    BY <2>1, <2>2, <2>3, <2>4 DEF Next
<1>2. QED
  BY <1>1, InitIInv, PTL DEF Spec

(* A session is freed under its thread in the one named case only; the native
   consumer calls back only into what still is; the properties are freed once. *)
THEOREM Lifetimes == Spec => []LifetimesNest
<1>1. IInv => LifetimesNest
  <2> SUFFICES ASSUME IInv PROVE LifetimesNest
    OBVIOUS
  <2>1. TypeOK
    BY DEF IInv, FimInv, EtwInv, DaemonInv, TypeOK
  <2>2. FreedUnderThread /\ FreedOnce
    BY DEF IInv, FimInv, EtwInv
  <2>3. CallbackContextAlive
    BY DEF IInv, EtwInv, EtwPlaces, DaemonInv, CallbackContextAlive
  <2>4. QED
    BY <2>1, <2>2, <2>3 DEF LifetimesNest
<1>2. QED
  BY <1>1, Invariance, PTL

LEMMA Disjoint ==
  ASSUME NEW S, NEW T, IsFiniteSet(S), IsFiniteSet(T), S \cap T = {}
  PROVE  /\ IsFiniteSet(S \cup T)
         /\ Cardinality(S \cup T) = Cardinality(S) + Cardinality(T)
         /\ Cardinality(S) \in Nat /\ Cardinality(T) \in Nat
<1>1. Cardinality(S) \in Nat /\ Cardinality(T) \in Nat
  BY FS_CardinalityType
<1>2. Cardinality(S \cap T) = 0
  BY FS_EmptySet
<1>3. /\ IsFiniteSet(S \cup T)
      /\ Cardinality(S \cup T) = Cardinality(S) + Cardinality(T) - Cardinality(S \cap T)
  BY FS_Union
<1>4. QED
  BY <1>1, <1>2, <1>3

(* Four sets apart that make up 1 .. n have n elements. *)
LEMMA Shares ==
  ASSUME NEW n \in Nat, NEW A, NEW B, NEW C, NEW D,
         1 .. n = A \cup B \cup C \cup D, Apart(A, B, C, D)
  PROVE  n = Cardinality(A) + Cardinality(B) + Cardinality(C) + Cardinality(D)
<1>1. IsFiniteSet(1 .. n) /\ Cardinality(1 .. n) = n
  BY FS_Interval
<1>2. IsFiniteSet(A) /\ IsFiniteSet(B) /\ IsFiniteSet(C) /\ IsFiniteSet(D)
  BY <1>1, FS_Subset
<1>3. /\ Cardinality(A) \in Nat /\ Cardinality(B) \in Nat
      /\ Cardinality(C) \in Nat /\ Cardinality(D) \in Nat
  BY <1>2, FS_CardinalityType
<1> DEFINE AB == A \cup B
           ABC == AB \cup C
<1>4. IsFiniteSet(AB) /\ Cardinality(AB) = Cardinality(A) + Cardinality(B)
  <2>1. A \cap B = {}
    BY DEF Apart
  <2>2. QED
    BY <1>2, <2>1, Disjoint
<1>5. IsFiniteSet(ABC) /\ Cardinality(ABC) = Cardinality(AB) + Cardinality(C)
  <2>1. AB \cap C = {}
    BY DEF Apart
  <2> HIDE DEF AB
  <2>2. QED
    BY <1>2, <1>4, <2>1, Disjoint
<1>6. Cardinality(ABC \cup D) = Cardinality(ABC) + Cardinality(D)
  <2>1. ABC \cap D = {}
    BY DEF Apart
  <2> HIDE DEF ABC
  <2>2. QED
    BY <1>2, <1>5, <2>1, Disjoint
<1>7. 1 .. n = ABC \cup D
  OBVIOUS
<1> HIDE DEF AB, ABC
<1>8. QED
  BY <1>1, <1>3, <1>4, <1>5, <1>6, <1>7

(* While a session runs, each change of its directory is in one place. *)
THEOREM NoChangeUnaccounted == Spec => []EveryChangeAccounted
<1>1. IInv => EveryChangeAccounted
  <2> SUFFICES ASSUME IInv, NEW w \in Watch, session[w] = "live", running[w]
               PROVE  /\ 1 .. made[w] = kernel[w] \cup Held(w) \cup delivered[w] \cup lost[w]
                      /\ made[w] = Cardinality(kernel[w]) + Cardinality(Held(w))
                                     + Cardinality(delivered[w]) + Cardinality(lost[w])
    BY DEF EveryChangeAccounted
  <2>1. /\ 1 .. made[w] = kernel[w] \cup Held(w) \cup delivered[w] \cup lost[w]
        /\ Apart(kernel[w], Held(w), delivered[w], lost[w])
    BY DEF IInv, FimInv, Accounted
  <2>2. made[w] \in Nat
    BY DEF IInv, FimInv, FimTypeOK
  <2>3. QED
    BY <2>1, <2>2, Shares
<1>2. QED
  BY <1>1, Invariance, PTL

(* Readiness vouches for a connected session, and the thread leaves none. *)
THEOREM SessionIsTracked == Spec => []SessionTracked
<1>1. IInv => SessionTracked
  BY DEF IInv, EtwInv, EtwPlaces, SessionTracked, NoTraceLeft, ReadyIsConnected
<1>2. QED
  BY <1>1, Invariance, PTL
=============================================================================
