-------------------------------- MODULE Daemon --------------------------------
(***************************************************************************)
(* The daemon as a Windows service: runDaemon and its RuntimeSupervisor    *)
(* (src/src/daemon.zig), the worker threads, the control pipe server that  *)
(* runs on the daemon's own thread (src/src/platform/win32_pipe.zig), and  *)
(* the service control handler (src/src/platform/win32_service.zig), which *)
(* Windows calls on another thread.                                        *)
(*                                                                         *)
(* A worker is modelled by its life: spawned, ready, ended.  What it does  *)
(* meanwhile belongs to other modules, but for the calls that only another *)
(* process ends: in one of those it cannot see the stop flag.  A worker    *)
(* ends because it saw that flag, because its initialisation failed, or,   *)
(* for those in Mortal, because its source dried up.  The pipe is one      *)
(* instance with one client at a time, as CONTROL_PIPE_MAX_INSTANCES makes *)
(* it; its states are those of the Win32 named-pipe documentation.         *)
(***************************************************************************)
EXTENDS Integers, Sequences

CONSTANTS
  Workers,     \* the threads RuntimeSupervisor has a handle for
  Pipeline,    \* the worker running pipelineLoop
  Adapters,    \* workers whose readiness makes the "cpp" subsystem RUNNING
  Marking,     \* workers that call markWorkerFailure when they cannot start
  OnBridgeFlag, \* workers that poll bridge_init.g_shutdown, not g_stop_requested
  Mortal,      \* workers that may end without being asked and without a mark
  Blocking,    \* workers that make calls which only another process ends
  SpawnOrder,  \* the order runDaemon spawns them in
  JoinOrder    \* the order RuntimeSupervisor.shutdown joins them in

ASSUME DaemonAssumption ==
  /\ Pipeline \in Workers
  /\ Adapters \subseteq Workers
  /\ Marking \subseteq Workers
  /\ Mortal \subseteq Workers \ {Pipeline}
  /\ OnBridgeFlag \subseteq Workers \ {Pipeline}
  /\ Blocking \subseteq Workers \ ({Pipeline} \cup Adapters)
  /\ SpawnOrder \in Seq(Workers)
  /\ JoinOrder \in Seq(Workers)
  /\ \A w \in Workers : \E i \in 1 .. Len(JoinOrder) : JoinOrder[i] = w

VARIABLES
  main,      \* where runDaemon's thread is
  at,        \* its position in SpawnOrder, later in JoinOrder
  worker,    \* the life of each worker
  failed,    \* g_worker_failure_mask; not empty when g_worker_failed is set
  stop,      \* g_stop_requested
  shutdown,  \* bridge_init.g_shutdown, which sensor and pipe monitor read
  sys,       \* RuntimeState.system_state
  cpp,       \* the state published for the telemetry subsystem
  scm,       \* the status last reported to the service control manager
  handler,   \* where serviceControlHandler is
  pipe,      \* the control pipe instance
  request,   \* what the connected client has sent
  answer,    \* a response is in the pipe that its client has not read
  bridges,   \* initAll has run and shutdownAll has not
  data       \* the rings, tables and monitors runDaemon owns are allocated

flags  == <<stop, shutdown>>
report == <<sys, cpp, scm>>
conn   == <<pipe, request, answer>>
owned  == <<bridges, data>>
vars   == <<main, at, worker, failed, flags, report, handler, conn, owned>>

Live == {w \in Workers : worker[w] \in {"starting", "up", "waiting"}}
Goto(from, to) == main = from /\ main' = to

Init ==
  /\ main = "boot"
  /\ at = 1
  /\ worker = [w \in Workers |-> "none"]
  /\ failed = {}
  /\ stop = FALSE
  /\ shutdown = FALSE
  /\ sys = "stopped"
  /\ cpp = "stopped"
  /\ scm = "START_PENDING"
  /\ handler = "idle"
  /\ pipe = "none"
  /\ request = "none"
  /\ answer = FALSE
  /\ bridges = FALSE
  /\ data = FALSE

-----------------------------------------------------------------------------
(* runDaemon: start-up *)

Boot ==
  /\ Goto("boot", "selfCheck")
  /\ sys' = "starting"
  /\ data' = TRUE
  /\ UNCHANGED <<at, worker, failed, flags, cpp, scm, handler, conn, bridges>>

\* The security self-check fails, or an allocation or a load before the
\* supervisor exists: the error goes straight up to serviceMain.
StartupFails ==
  /\ Goto("selfCheck", "returned")
  /\ data' = FALSE
  /\ UNCHANGED <<at, worker, failed, flags, report, handler, conn, bridges>>

InitBridges ==
  /\ Goto("selfCheck", "spawn")
  /\ bridges' = TRUE
  /\ UNCHANGED <<at, worker, failed, flags, report, handler, conn, data>>

Spawn ==
  /\ main = "spawn"
  /\ at <= Len(SpawnOrder)
  /\ worker' = [worker EXCEPT ![SpawnOrder[at]] = "starting"]
  /\ at' = at + 1
  /\ UNCHANGED <<main, failed, flags, report, handler, conn, owned>>

\* A thread that cannot be created leaves a null handle; without the pipeline
\* thread runDaemon returns, and its defers shut the daemon down again.
SpawnFails ==
  /\ main = "spawn"
  /\ at <= Len(SpawnOrder)
  /\ failed' = failed \cup ({SpawnOrder[at]} \cap Marking)
  /\ at' = at + 1
  /\ main' = IF SpawnOrder[at] = Pipeline THEN "requestStop" ELSE "spawn"
  /\ UNCHANGED <<worker, flags, report, handler, conn, owned>>

AllReady == \A w \in Adapters \cup {Pipeline} : worker[w] = "up"

\* The bounded readiness barrier.  Time is not modelled: its 5000 ms may be over.
Barrier ==
  /\ Goto("spawn", "publish")
  /\ at > Len(SpawnOrder)
  /\ \E timedOut \in BOOLEAN : AllReady \/ failed # {} \/ timedOut
  /\ UNCHANGED <<at, worker, failed, flags, report, handler, conn, owned>>

PublishSubsystems ==
  /\ Goto("publish", "publishSystem")
  /\ cpp' = IF \A w \in Adapters : worker[w] = "up" THEN "running" ELSE "degraded"
  /\ UNCHANGED <<at, worker, failed, flags, sys, scm, handler, conn, owned>>

\* Mutant: RUNNING published from thread creation, not from readiness.
PublishSystemUnready ==
  /\ Goto("publishSystem", "reportRunning")
  /\ sys' = IF Pipeline \notin failed THEN "running" ELSE "degraded"
  /\ UNCHANGED <<at, worker, failed, flags, cpp, scm, handler, conn, owned>>

PublishSystem ==
  /\ Goto("publishSystem", "reportRunning")
  /\ sys' = IF worker[Pipeline] = "up" /\ Pipeline \notin failed
            THEN "running" ELSE "degraded"
  /\ UNCHANGED <<at, worker, failed, flags, cpp, scm, handler, conn, owned>>

ReportRunning ==
  /\ Goto("reportRunning", "createPipe")
  /\ scm' = "RUNNING"
  /\ UNCHANGED <<at, worker, failed, flags, sys, cpp, handler, conn, owned>>

-----------------------------------------------------------------------------
(* serveWindowsPipe *)

CreatePipe ==
  /\ main = "createPipe"
  /\ \/ /\ main' = "loopTest"
        /\ pipe' = "listening"
     \/ /\ main' = "requestStop"
        /\ UNCHANGED pipe
  /\ UNCHANGED <<at, worker, failed, flags, report, handler, request, answer, owned>>

\* The defer that closes the instance.
ClosePipe == pipe' = "none" /\ request' = "none" /\ answer' = FALSE

\* Mutant: the server loops for ever.
LoopTestUnconditional ==
  /\ Goto("loopTest", "connect")
  /\ UNCHANGED <<at, worker, failed, flags, report, handler, conn, owned>>

LoopTest ==
  /\ \/ ~stop /\ Goto("loopTest", "connect") /\ UNCHANGED conn
     \/ stop /\ Goto("loopTest", "requestStop") /\ ClosePipe
  /\ UNCHANGED <<at, worker, failed, flags, report, handler, owned>>

\* ConnectNamedPipe: it makes a disconnected instance connectable, succeeds
\* on a connected one, fails with ERROR_NO_DATA on one whose client has gone
\* (the loop sleeps and tests the flag again), and otherwise blocks.
Connect ==
  /\ \/ pipe = "connected" /\ Goto("connect", "read") /\ UNCHANGED pipe
     \/ pipe = "closing" /\ Goto("connect", "loopTest") /\ UNCHANGED pipe
     \/ /\ pipe \in {"listening", "disconnected"}
        /\ Goto("connect", "connecting")
        /\ pipe' = "listening"
  /\ UNCHANGED <<at, worker, failed, flags, report, handler, request, answer, owned>>

ConnectReturns ==
  /\ Goto("connecting", "read")
  /\ pipe \in {"connected", "closing"}
  /\ UNCHANGED <<at, worker, failed, flags, report, handler, conn, owned>>

\* DisconnectNamedPipe: what is left in the pipe is gone with the client.
DropClient == pipe' = "disconnected" /\ request' = "none" /\ answer' = FALSE

\* ReadFile blocks until the client has sent something or is gone.  A failed
\* read disconnects and goes straight back to the loop test.
ReadRequest ==
  /\ main = "read"
  /\ \/ request # "none" /\ main' = "handle" /\ UNCHANGED conn
     \/ request = "none" /\ pipe = "closing" /\ main' = "disconnect" /\ UNCHANGED conn
     \/ pipe = "closing" /\ main' = "loopTest" /\ DropClient
  /\ UNCHANGED <<at, worker, failed, flags, report, handler, owned>>

\* Every command but an authorised daemon.shutdown leaves the daemon's life
\* alone.  Every one is answered, if its client is still there.
HandleRequest ==
  /\ Goto("handle", "flush")
  /\ \/ request = "query" /\ UNCHANGED <<flags, sys>>
     \/ request = "shutdown" /\ sys' = "stopping" /\ stop' = TRUE /\ shutdown' = TRUE
  /\ answer' = (pipe = "connected")
  /\ UNCHANGED <<at, worker, failed, cpp, scm, handler, pipe, request, owned>>

\* FlushFileBuffers blocks until the client has read the answer or is gone.
FlushAnswer ==
  /\ Goto("flush", "disconnect")
  /\ ~answer
  /\ UNCHANGED <<at, worker, failed, flags, report, handler, conn, owned>>

Disconnect ==
  /\ Goto("disconnect", "loopTail")
  /\ DropClient
  /\ UNCHANGED <<at, worker, failed, flags, report, handler, owned>>

\* A shutdown command breaks the loop by itself, whatever became of the flag.
Break == stop \/ sys = "stopping"

LoopTail ==
  /\ \/ ~Break /\ Goto("loopTail", "loopTest") /\ UNCHANGED conn
     \/ Break /\ Goto("loopTail", "requestStop") /\ ClosePipe
  /\ UNCHANGED <<at, worker, failed, flags, report, handler, owned>>

-----------------------------------------------------------------------------
(* RuntimeSupervisor.shutdown and the defers behind it *)

RequestStop ==
  /\ Goto("requestStop", "join")
  /\ stop' = TRUE
  /\ shutdown' = TRUE
  /\ at' = 1
  /\ UNCHANGED <<worker, failed, report, handler, conn, owned>>

\* Mutant: the handle is dropped without a join.
JoinDetached ==
  /\ main = "join"
  /\ at <= Len(JoinOrder)
  /\ at' = at + 1
  /\ UNCHANGED <<main, worker, failed, flags, report, handler, conn, owned>>

\* Mutant: a join of every handle, also of a thread that was never created.
JoinUnspawned ==
  /\ main = "join"
  /\ at <= Len(JoinOrder)
  /\ worker[JoinOrder[at]] = "ended"
  /\ at' = at + 1
  /\ UNCHANGED <<main, worker, failed, flags, report, handler, conn, owned>>

Join ==
  /\ main = "join"
  /\ at <= Len(JoinOrder)
  /\ JoinOrder[at] \notin Live
  /\ at' = at + 1
  /\ UNCHANGED <<main, worker, failed, flags, report, handler, conn, owned>>

\* Mutant: STOPPED published before the last handle is joined.
TransitionStoppedEarly ==
  /\ Goto("join", "shutdownBridges")
  /\ at >= Len(JoinOrder)
  /\ sys' = "stopped"
  /\ UNCHANGED <<at, worker, failed, flags, cpp, scm, handler, conn, owned>>

TransitionStopped ==
  /\ Goto("join", "shutdownBridges")
  /\ at > Len(JoinOrder)
  /\ sys' = "stopped"
  /\ UNCHANGED <<at, worker, failed, flags, cpp, scm, handler, conn, owned>>

ShutdownBridges ==
  /\ Goto("shutdownBridges", "release")
  /\ bridges' = FALSE
  /\ UNCHANGED <<at, worker, failed, flags, report, handler, conn, data>>

Release ==
  /\ Goto("release", "returned")
  /\ data' = FALSE
  /\ UNCHANGED <<at, worker, failed, flags, report, handler, conn, bridges>>

\* serviceMain's defer.
ReportStopped ==
  /\ Goto("returned", "done")
  /\ scm' = "STOPPED"
  /\ UNCHANGED <<at, worker, failed, flags, sys, cpp, handler, conn, owned>>

-----------------------------------------------------------------------------
(* The workers *)

\* A worker sets its ready flag, or marks its failure and returns.
WorkerStarts(w) ==
  /\ worker[w] = "starting"
  /\ \/ worker' = [worker EXCEPT ![w] = "up"] /\ UNCHANGED failed
     \/ /\ w \in Marking \ {Pipeline}
        /\ worker' = [worker EXCEPT ![w] = "ended"]
        /\ failed' = failed \cup {w}
  /\ UNCHANGED <<main, at, flags, report, handler, conn, owned>>

\* After its first client the Nose reader is in blocking mode: ConnectNamedPipe
\* and ReadFile return when a capture process comes, sends or leaves.  A frame
\* is read to its end without a test of the flag, so it may wait after a stop.
WorkerWaits(w) ==
  /\ w \in Blocking
  /\ worker[w] = "up"
  /\ worker' = [worker EXCEPT ![w] = "waiting"]
  /\ UNCHANGED <<main, at, failed, flags, report, handler, conn, owned>>

WorkerWoken(w) ==
  /\ worker[w] = "waiting"
  /\ worker' = [worker EXCEPT ![w] = "up"]
  /\ UNCHANGED <<main, at, failed, flags, report, handler, conn, owned>>

WorkerStops(w) ==
  /\ worker[w] = "up"
  /\ IF w \in OnBridgeFlag THEN shutdown ELSE stop
  /\ worker' = [worker EXCEPT ![w] = "ended"]
  /\ UNCHANGED <<main, at, failed, flags, report, handler, conn, owned>>

\* etwThread leaves its loop when the session is no longer running.
SourceEnds(w) ==
  /\ w \in Mortal
  /\ worker[w] = "up"
  /\ worker' = [worker EXCEPT ![w] = "ended"]
  /\ UNCHANGED <<main, at, failed, flags, report, handler, conn, owned>>

-----------------------------------------------------------------------------
(* serviceControlHandler, SERVICE_CONTROL_STOP; Windows delivers a control  *)
(* only while the last reported status is RUNNING                           *)

ScmStop ==
  /\ handler = "idle"
  /\ scm = "RUNNING"
  /\ handler' = "requestShutdown"
  /\ stop' = TRUE
  /\ UNCHANGED <<main, at, worker, failed, shutdown, report, conn, owned>>

ScmRequestShutdown ==
  /\ handler = "requestShutdown"
  /\ handler' = "report"
  /\ shutdown' = TRUE
  /\ UNCHANGED <<main, at, worker, failed, stop, report, conn, owned>>

ScmReport ==
  /\ handler = "report"
  /\ handler' = "wake"
  /\ scm' = "STOP_PENDING"
  /\ UNCHANGED <<main, at, worker, failed, flags, sys, cpp, conn, owned>>

\* wakeControlPipe connects and closes at once, if the instance listens.
ScmWake ==
  /\ handler = "wake"
  /\ handler' = "done"
  /\ pipe' = IF pipe = "listening" THEN "closing" ELSE pipe
  /\ UNCHANGED <<main, at, worker, failed, flags, report, request, answer, owned>>

-----------------------------------------------------------------------------
(* The control client: nothing obliges it to send, to read, or to close *)

ClientConnects ==
  /\ pipe = "listening"
  /\ pipe' = "connected"
  /\ UNCHANGED <<main, at, worker, failed, flags, report, handler, request, answer, owned>>

ClientSends ==
  /\ pipe = "connected"
  /\ request = "none"
  /\ request' \in {"query", "shutdown"}
  /\ UNCHANGED <<main, at, worker, failed, flags, report, handler, pipe, answer, owned>>

ClientReads ==
  /\ pipe = "connected"
  /\ answer
  /\ answer' = FALSE
  /\ UNCHANGED <<main, at, worker, failed, flags, report, handler, pipe, request, owned>>

ClientCloses ==
  /\ pipe = "connected"
  /\ pipe' = "closing"
  /\ answer' = FALSE
  /\ UNCHANGED <<main, at, worker, failed, flags, report, handler, request, owned>>

-----------------------------------------------------------------------------

StartUp ==
  \/ Boot \/ StartupFails \/ InitBridges \/ Spawn \/ SpawnFails \/ Barrier
  \/ PublishSubsystems \/ PublishSystem \/ ReportRunning

Serve ==
  \/ CreatePipe \/ LoopTest \/ Connect \/ ConnectReturns \/ ReadRequest
  \/ HandleRequest \/ FlushAnswer \/ Disconnect \/ LoopTail

ShutDown ==
  RequestStop \/ Join \/ TransitionStopped \/ ShutdownBridges \/ Release \/ ReportStopped

Handler == ScmStop \/ ScmRequestShutdown \/ ScmReport \/ ScmWake
Client  == ClientConnects \/ ClientSends \/ ClientReads \/ ClientCloses
Worker(w) ==
  \/ WorkerStarts(w) \/ WorkerWaits(w) \/ WorkerWoken(w)
  \/ WorkerStops(w) \/ SourceEnds(w)

Next ==
  \/ StartUp \/ Serve \/ ShutDown \/ Handler \/ Client
  \/ \E w \in Workers : Worker(w)

Spec == Init /\ [][Next]_vars

\* Threads that can run do run; a call that blocks is a disabled action.
\* Windows owes nobody a stop, no client owes the server a byte or a read, and
\* nobody owes a waiting worker its wake-up.  A worker that is woken again and
\* again stops: what it waits for without a test of the flag is finite.
FairSpec ==
  /\ Spec
  /\ WF_vars(StartUp \/ Serve \/ ShutDown)
  /\ WF_vars(ScmRequestShutdown \/ ScmReport \/ ScmWake)
  /\ \A w \in Workers : WF_vars(WorkerStarts(w)) /\ WF_vars(WorkerStops(w))
  /\ \A w \in Blocking : SF_vars(WorkerStops(w))

-----------------------------------------------------------------------------

MainPcs == {"boot", "selfCheck", "spawn", "publish", "publishSystem", "reportRunning",
            "createPipe", "loopTest", "connect", "connecting", "read", "handle",
            "flush", "disconnect", "loopTail", "requestStop", "join", "shutdownBridges",
            "release", "returned", "done"}

TypeOK ==
  /\ main \in MainPcs
  /\ at \in Nat \ {0}
  /\ worker \in [Workers -> {"none", "starting", "up", "waiting", "ended"}]
  /\ failed \subseteq Marking
  /\ stop \in BOOLEAN
  /\ shutdown \in BOOLEAN
  /\ sys \in {"stopped", "starting", "running", "degraded", "stopping"}
  /\ cpp \in {"stopped", "running", "degraded"}
  /\ scm \in {"START_PENDING", "RUNNING", "STOP_PENDING", "STOPPED"}
  /\ handler \in {"idle", "requestShutdown", "report", "wake", "done"}
  /\ pipe \in {"none", "listening", "connected", "closing", "disconnected"}
  /\ request \in {"none", "query", "shutdown"}
  /\ answer \in BOOLEAN
  /\ bridges \in BOOLEAN
  /\ data \in BOOLEAN

(* A worker never runs without what it works on: the bridges it sends through
   and the tables and rings on runDaemon's stack outlive every worker, on every
   path out of runDaemon, the failed start-ups included. *)
WorkersHaveTheirData == Live # {} => bridges /\ data

(* STOPPED is what daemon.zig says it is, "a postcondition of the owner
   completing every join": published to the control plane or to the service
   control manager, it means that no worker is left. *)
StoppedMeansJoined == sys = "stopped" \/ scm = "STOPPED" => Live = {}

(* While the daemon says RUNNING and nobody has asked it to stop, its pipeline
   thread is consuming events: readiness was observed, not assumed. *)
RunningMeansProcessing == sys = "running" /\ ~stop => worker[Pipeline] = "up"

\* What can hold the owner up, in another process: a control client that does
\* not come or does not send, one that does not read its answer, and whatever
\* the worker waits for whose turn it is to be joined.
OnClient ==
  \/ main = "connecting" /\ pipe = "listening"
  \/ main = "read" /\ pipe = "connected" /\ request = "none"
OnReader == main = "flush" /\ answer
OnWorker ==
  main = "join" /\ at <= Len(JoinOrder) /\ worker[JoinOrder[at]] = "waiting"

(* A shutdown command that was accepted ends in a stopped service, whatever
   the service control handler does at the same time, unless its own client
   never reads the answer nor leaves, or a worker is never woken. *)
ShutdownCommandCompletes ==
  sys = "stopping" ~> main = "done" \/ []OnReader \/ []OnWorker

(* A stop, whether it comes from Windows or from the pipe and wherever it finds
   the server, ends in a stopped service, or the owner is for ever in a call
   that another process would have to end: it neither loops nor waits on a
   thread of its own. *)
StopCompletes ==
  stop ~> main = "done" \/ []OnClient \/ []OnReader \/ []OnWorker
=============================================================================
