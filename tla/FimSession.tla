----------------------------- MODULE FimSession -----------------------------
(***************************************************************************)
(* The file sensor.  Each watched directory has a native session           *)
(* (src/src/windows/fim_native.c) whose thread reads change notifications  *)
(* into the session's one buffer; the daemon's FIM thread polls the        *)
(* sessions in turn and stops them (src/src/windows/fim.zig and            *)
(* pipeline/telemetry_threads.zig).                                        *)
(*                                                                         *)
(* The changes of a directory are numbered.  Windows keeps those nobody    *)
(* has read yet; a read takes them all.                                    *)
(***************************************************************************)
EXTENDS Naturals, FiniteSets, SensorStop

CONSTANTS
  Watches,    \* the number of directories
  MaxChanges  \* bound: changes of a directory in a behaviour

ASSUME FimAssumption ==
  Watches \in Nat \ {0} /\ MaxChanges \in [1 .. Watches -> Nat]

Watch == 1 .. Watches
Change(w) == 1 .. MaxChanges[w]

VARIABLES
  session,    \* the native session: "none", "live" or "freed"
  running,    \* s->running
  thread,     \* where fim_thread is
  io,         \* its read: "idle", "pending", "completed", "empty", "cancelled"
  buffer,     \* s->buffer: the changes in it
  big,        \* the batch exceeds FimWatcher.poll_buf (16 KiB of 64)
  dataReady,  \* s->data_ready
  made,       \* how often the directory changed since the first read
  kernel,     \* changes Windows holds
  delivered,  \* changes poll has handed out
  lost,       \* changes dropped by Windows, or by poll
  missed,     \* CancelIoEx found no read to cancel
  poller,     \* the daemon's FIM thread: where it is
  turn        \* and at which directory

native == <<session, running, thread, io, buffer, big, dataReady>>
directory == <<made, kernel>>
outcome == <<delivered, lost>>
fimVars == <<native, directory, outcome, missed, poller, turn>>

FimInit ==
  /\ session = [w \in Watch |-> "none"]
  /\ running = [w \in Watch |-> FALSE]
  /\ thread = [w \in Watch |-> "none"]
  /\ io = [w \in Watch |-> "idle"]
  /\ buffer = [w \in Watch |-> {}]
  /\ big = [w \in Watch |-> FALSE]
  /\ dataReady = [w \in Watch |-> FALSE]
  /\ made = [w \in Watch |-> 0]
  /\ kernel = [w \in Watch |-> {}]
  /\ delivered = [w \in Watch |-> {}]
  /\ lost = [w \in Watch |-> {}]
  /\ missed = [w \in Watch |-> FALSE]
  /\ poller = "start"
  /\ turn = 1

GoTo(w, place) == thread' = [thread EXCEPT ![w] = place]

-----------------------------------------------------------------------------
(* fim_thread: a read, its completion, the hand-over. *)

\* The loop is left between two reads only.
LoopTest(w) ==
  /\ thread[w] = "top"
  /\ session[w] = "live"
  /\ GoTo(w, IF running[w] THEN "wait" ELSE "done")
  /\ UNCHANGED <<session, running, io, buffer, big, dataReady, directory,
                 outcome, missed, poller, turn>>

MayReadAlways(w) == w \in Watch

\* Not before the last batch has been polled, unless the session stops.
MayRead(w) == ~dataReady[w] \/ ~running[w]

\* The flag is not tested again between this wait and the read.
WaitForPoll(w) ==
  /\ thread[w] = "wait"
  /\ session[w] = "live"
  /\ MayRead(w)
  /\ GoTo(w, "read")
  /\ UNCHANGED <<session, running, io, buffer, big, dataReady, directory,
                 outcome, missed, poller, turn>>

ReadFails(w) ==
  /\ thread[w] = "read"
  /\ session[w] = "live"
  /\ GoTo(w, "done")
  /\ UNCHANGED <<session, running, io, buffer, big, dataReady, directory,
                 outcome, missed, poller, turn>>

Read(w) ==
  /\ thread[w] = "read"
  /\ session[w] = "live"
  /\ io' = [io EXCEPT ![w] = "pending"]
  /\ GoTo(w, "io")
  /\ UNCHANGED <<session, running, buffer, big, dataReady, directory, outcome,
                 missed, poller, turn>>

\* WaitForSingleObject and GetOverlappedResult: a cancelled read and one of
\* no bytes go back to the loop test.
ReadReturns(w) ==
  /\ thread[w] = "io"
  /\ session[w] = "live"
  /\ io[w] # "pending"
  /\ GoTo(w, IF io[w] = "completed" THEN "publish" ELSE "top")
  /\ io' = [io EXCEPT ![w] = IF @ = "completed" THEN @ ELSE "idle"]
  /\ UNCHANGED <<session, running, buffer, big, dataReady, directory, outcome,
                 missed, poller, turn>>

PublishNothing(w) ==
  /\ thread[w] = "publish"
  /\ session[w] = "live"
  /\ io' = [io EXCEPT ![w] = "idle"]
  /\ GoTo(w, "top")
  /\ UNCHANGED <<session, running, buffer, big, dataReady, directory, outcome,
                 missed, poller, turn>>

\* Under the session's lock.
Publish(w) ==
  /\ thread[w] = "publish"
  /\ session[w] = "live"
  /\ dataReady' = [dataReady EXCEPT ![w] = TRUE]
  /\ io' = [io EXCEPT ![w] = "idle"]
  /\ GoTo(w, "top")
  /\ UNCHANGED <<session, running, buffer, big, directory, outcome, missed,
                 poller, turn>>

FimThread(w) ==
  \/ LoopTest(w) \/ WaitForPoll(w) \/ Read(w) \/ ReadReturns(w) \/ Publish(w)

-----------------------------------------------------------------------------
(* Windows *)

\* Recorded from the first read of the directory on.
DirectoryChanges(w) ==
  /\ io[w] # "idle" \/ made[w] > 0
  /\ session[w] = "live"
  /\ made[w] < MaxChanges[w]
  /\ made' = [made EXCEPT ![w] = @ + 1]
  /\ kernel' = [kernel EXCEPT ![w] = @ \cup {made[w] + 1}]
  /\ UNCHANGED <<native, outcome, missed, poller, turn>>

\* A read takes everything; several changes may exceed the poller's buffer.
ReadCompletes(w) ==
  /\ io[w] = "pending"
  /\ session[w] = "live"
  /\ kernel[w] # {}
  /\ io' = [io EXCEPT ![w] = "completed"]
  /\ buffer' = [buffer EXCEPT ![w] = kernel[w]]
  /\ \E b \in IF Cardinality(kernel[w]) > 1 THEN BOOLEAN ELSE {FALSE} :
       big' = [big EXCEPT ![w] = b]
  /\ kernel' = [kernel EXCEPT ![w] = {}]
  /\ UNCHANGED <<session, running, thread, dataReady, made, outcome, missed,
                 poller, turn>>

\* Or they exceed Windows' own buffer: the read returns no bytes.
ReadOverflows(w) ==
  /\ io[w] = "pending"
  /\ session[w] = "live"
  /\ Cardinality(kernel[w]) > 1
  /\ io' = [io EXCEPT ![w] = "empty"]
  /\ lost' = [lost EXCEPT ![w] = @ \cup kernel[w]]
  /\ kernel' = [kernel EXCEPT ![w] = {}]
  /\ UNCHANGED <<session, running, thread, buffer, big, dataReady, made,
                 delivered, missed, poller, turn>>

-----------------------------------------------------------------------------
(* The daemon's FIM thread *)

AfterStart(sessions) ==
  IF turn < Watches THEN poller' = "start" /\ turn' = turn + 1
  ELSE /\ poller' = IF \E w \in Watch : sessions[w] = "live" THEN "test" ELSE "ended"
       /\ turn' = 1

\* aegis_fim_start: CreateFileW, calloc, CreateEvent or CreateThread fails
\* and what was there is released, or the session lives.
Start ==
  /\ poller = "start"
  /\ \/ /\ session' = [session EXCEPT ![turn] = "live"]
        /\ running' = [running EXCEPT ![turn] = TRUE]
        /\ GoTo(turn, "top")
     \/ UNCHANGED <<session, running, thread>>
  /\ AfterStart(session')
  /\ UNCHANGED <<io, buffer, big, dataReady, directory, outcome, missed>>

TestStop ==
  /\ poller = "test"
  /\ poller' = IF stopRequested THEN "flag" ELSE "poll"
  /\ turn' = 1
  /\ UNCHANGED <<native, directory, outcome, missed>>

\* FimWatcher.poll returns at the first directory that has data.
AfterPoll(found) ==
  IF ~found /\ turn < Watches THEN poller' = "poll" /\ turn' = turn + 1
  ELSE poller' = "test" /\ turn' = 1

\* aegis_fim_poll, under the lock: a batch beyond out_len is dropped, and the
\* caller told there was none.  What stays in s->buffer is never read again.
Poll ==
  /\ poller = "poll"
  /\ IF session[turn] = "live" /\ dataReady[turn]
     THEN /\ dataReady' = [dataReady EXCEPT ![turn] = FALSE]
          /\ buffer' = [buffer EXCEPT ![turn] = {}]
          /\ big' = [big EXCEPT ![turn] = FALSE]
          /\ IF big[turn]
             THEN /\ lost' = [lost EXCEPT ![turn] = @ \cup buffer[turn]]
                  /\ UNCHANGED delivered
             ELSE /\ delivered' = [delivered EXCEPT ![turn] = @ \cup buffer[turn]]
                  /\ UNCHANGED lost
          /\ AfterPoll(~big[turn])
     ELSE AfterPoll(FALSE) /\ UNCHANGED <<buffer, big, dataReady, outcome>>
  /\ UNCHANGED <<session, running, thread, io, directory, missed>>

(* aegis_fim_stop, for every session in turn *)

NextStop ==
  IF turn < Watches THEN poller' = "flag" /\ turn' = turn + 1
  ELSE poller' = "ended" /\ turn' = 1

ClearRunning ==
  /\ poller = "flag"
  /\ session[turn] = "live"
  /\ running' = [running EXCEPT ![turn] = FALSE]
  /\ poller' = "cancel"
  /\ UNCHANGED <<session, thread, io, buffer, big, dataReady, directory,
                 outcome, missed, turn>>

NoSession ==
  /\ poller = "flag"
  /\ session[turn] # "live"
  /\ NextStop
  /\ UNCHANGED <<native, directory, outcome, missed>>

\* A read that is pending now returns; one that is issued later does not.
CancelIo ==
  /\ poller = "cancel"
  /\ io' = [io EXCEPT ![turn] = IF @ = "pending" THEN "cancelled" ELSE @]
  /\ missed' = [missed EXCEPT ![turn] = io[turn] # "pending"]
  /\ poller' = "join"
  /\ UNCHANGED <<session, running, thread, buffer, big, dataReady, directory,
                 outcome, turn>>

JoinedOrNever(w) == thread[w] = "done"

\* WaitForSingleObject(s->thread, 5000).  The time-out is longer than any
\* step of the thread: it strikes when the thread is blocked in its read.
Joined(w) ==
  \/ thread[w] = "done"
  \/ thread[w] = "io" /\ io[w] = "pending" /\ kernel[w] = {}

\* The handles are closed and the session freed, whoever still uses it.
Free ==
  /\ poller = "join"
  /\ Joined(turn)
  /\ session' = [session EXCEPT ![turn] = "freed"]
  /\ NextStop
  /\ UNCHANGED <<running, thread, io, buffer, big, dataReady, directory,
                 outcome, missed>>

Poller ==
  \/ Start \/ TestStop \/ Poll
  \/ ClearRunning \/ NoSession \/ CancelIo \/ Free

FimNext ==
  /\ \/ Poller
     \/ \E w \in Watch :
          \/ FimThread(w) \/ ReadFails(w)
          \/ DirectoryChanges(w) \/ ReadCompletes(w) \/ ReadOverflows(w)
  /\ UNCHANGED stopRequested

FimFairness ==
  /\ WF_fimVars(Poller /\ UNCHANGED stopRequested)
  /\ \A w \in Watch :
       /\ WF_fimVars(FimThread(w) /\ UNCHANGED stopRequested)
       /\ WF_fimVars(ReadCompletes(w) /\ UNCHANGED stopRequested)

-----------------------------------------------------------------------------
FimTypeOK ==
  /\ session \in [Watch -> {"none", "live", "freed"}]
  /\ running \in [Watch -> BOOLEAN]
  /\ thread \in [Watch -> {"none", "top", "wait", "read", "io", "publish", "done"}]
  /\ io \in [Watch -> {"idle", "pending", "completed", "empty", "cancelled"}]
  /\ big \in [Watch -> BOOLEAN]
  /\ dataReady \in [Watch -> BOOLEAN]
  /\ made \in [Watch -> Nat]
  /\ {buffer, kernel, delivered, lost} \subseteq [Watch -> SUBSET Nat]
  /\ \A w \in Watch :
       /\ made[w] <= MaxChanges[w]
       /\ buffer[w] \cup kernel[w] \cup delivered[w] \cup lost[w] \subseteq 1 .. made[w]
  /\ missed \in [Watch -> BOOLEAN]
  /\ poller \in {"start", "test", "poll", "flag", "cancel", "join", "ended"}
  /\ turn \in Watch
=============================================================================
