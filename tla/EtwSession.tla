----------------------------- MODULE EtwSession -----------------------------
(***************************************************************************)
(* The process sensor: one ETW trace session, the thread that consumes it  *)
(* (src/src/windows/etw_native.c) and the daemon's ETW thread, which       *)
(* starts it, sets the callback and stops it (EtwSource in                 *)
(* src/src/windows/etw_realtime.zig, etwThread in                          *)
(* src/src/pipeline/telemetry_threads.zig).                                *)
(*                                                                         *)
(* A trace session belongs to Windows and outlives the process that        *)
(* started it: Init may find a stale one under the daemon's name, and      *)
(* another process may stop the daemon's.                                  *)
(***************************************************************************)
EXTENDS Naturals, SensorStop

VARIABLES
  trace,       \* the trace session of this name: "none", "stale" or "ours"
  handle,      \* g_session.session_handle is set
  properties,  \* g_session.properties: "null", "allocated" or "dangling"
  frees,       \* how often the allocation has been freed
  lockReady,   \* g_lock has been initialised
  callback,    \* g_session.callback is set
  consumer,    \* where consumer_thread is
  etwThread,   \* where the daemon's ETW thread is
  sourceRuns,  \* EtwSource.running
  etwReady     \* g_etw_ready

etwSession == <<trace, handle, properties, frees, lockReady, callback>>
etwVars == <<etwSession, consumer, etwThread, sourceRuns, etwReady>>

EtwInit ==
  /\ trace \in {"none", "stale"}
  /\ handle = FALSE
  /\ properties = "null"
  /\ frees = 0
  /\ lockReady = FALSE
  /\ callback = FALSE
  /\ consumer = "none"
  /\ etwThread = "start"
  /\ sourceRuns = FALSE
  /\ etwReady = FALSE

-----------------------------------------------------------------------------
(* aegis_etw_start.  Nobody else runs until it has created the consumer, so *)
(* it is one step; each disjunct is one of its returns.                     *)

Refused ==
  /\ handle
  /\ UNCHANGED <<etwSession, consumer>>

NoProperties ==
  /\ ~handle
  /\ lockReady' = TRUE
  /\ UNCHANGED <<trace, handle, properties, frees, callback, consumer>>

\* StartTraceW fails, on a stale session after an attempt to stop that.
TraceFails ==
  /\ ~handle
  /\ lockReady' = TRUE
  /\ trace' \in {trace, "none"}
  /\ frees' = frees + 1
  /\ UNCHANGED <<handle, properties, callback, consumer>>

\* No provider can be enabled: the session is stopped and forgotten.
NoProviders ==
  /\ ~handle
  /\ lockReady' = TRUE
  /\ trace' = "none"
  /\ frees' = frees + 1
  /\ UNCHANGED <<handle, properties, callback, consumer>>

\* CreateThread fails: the session is stopped and the properties are freed,
\* but the handle and the pointer stay.
NoConsumer ==
  /\ ~handle
  /\ lockReady' = TRUE
  /\ trace' = "none"
  /\ handle' = TRUE
  /\ properties' = "dangling"
  /\ frees' = frees + 1
  /\ UNCHANGED <<callback, consumer>>

Started ==
  /\ ~handle
  /\ lockReady' = TRUE
  /\ trace' = "ours"
  /\ handle' = TRUE
  /\ properties' = "allocated"
  /\ consumer' = "opening"
  /\ UNCHANGED <<frees, callback>>

StartFails == Refused \/ NoProperties \/ TraceFails \/ NoProviders \/ NoConsumer

-----------------------------------------------------------------------------
(* consumer_thread and event_record_callback *)

\* OpenTraceW fails and the thread ends; nobody is told.
OpenFails ==
  /\ consumer = "opening"
  /\ consumer' = "done"
  /\ UNCHANGED <<etwSession, etwThread, sourceRuns, etwReady>>

\* ProcessTrace returns when the session is gone and its buffers are empty.
TraceEnds ==
  /\ consumer = "processing"
  /\ trace # "ours"
  /\ consumer' = "done"
  /\ UNCHANGED <<etwSession, etwThread, sourceRuns, etwReady>>

OpenTrace ==
  /\ consumer = "opening"
  /\ trace = "ours"
  /\ consumer' = "processing"
  /\ UNCHANGED <<etwSession, etwThread, sourceRuns, etwReady>>

\* An event is decoded, and dropped while nobody has set a callback.  Events
\* in Windows' buffers are still delivered after the session was stopped.
EventRecord ==
  /\ consumer = "processing"
  /\ callback
  /\ consumer' = "calling"
  /\ UNCHANGED <<etwSession, etwThread, sourceRuns, etwReady>>

CallbackReturns ==
  /\ consumer = "calling"
  /\ consumer' = "processing"
  /\ UNCHANGED <<etwSession, etwThread, sourceRuns, etwReady>>

Consumer == OpenFails \/ OpenTrace \/ TraceEnds \/ CallbackReturns

\* Another daemon of this name takes the session for a stale one.
StoppedByAnother ==
  /\ trace # "none"
  /\ trace' = "none"
  /\ UNCHANGED <<handle, properties, frees, lockReady, callback, consumer,
                 etwThread, sourceRuns, etwReady>>

-----------------------------------------------------------------------------
(* The daemon's ETW thread *)

EtwStart ==
  /\ etwThread = "start"
  /\ \/ Started /\ sourceRuns' = TRUE /\ etwThread' = "callback"
     \/ StartFails /\ etwThread' = "ended" /\ UNCHANGED sourceRuns
  /\ UNCHANGED etwReady

\* Waits for the lock while the consumer is inside the callback.
SetCallback ==
  /\ etwThread = "callback"
  /\ consumer # "calling"
  /\ callback' = TRUE
  /\ etwReady' = TRUE
  /\ etwThread' = "loop"
  /\ UNCHANGED <<trace, handle, properties, frees, lockReady, consumer, sourceRuns>>

EtwTestStopStillReady ==
  /\ etwThread = "loop"
  /\ stopRequested \/ ~sourceRuns
  /\ etwThread' = "stop"
  /\ UNCHANGED <<etwSession, consumer, sourceRuns, etwReady>>

EtwTestStop ==
  /\ etwThread = "loop"
  /\ stopRequested \/ ~sourceRuns
  /\ etwThread' = "stop"
  /\ etwReady' = FALSE
  /\ UNCHANGED <<etwSession, consumer, sourceRuns>>

\* EtwSource.stop and aegis_etw_stop up to the wait.
StopTrace ==
  /\ etwThread = "stop"
  /\ IF sourceRuns /\ handle
     THEN /\ trace' = "none"
          /\ handle' = FALSE
          /\ etwThread' = "join"
     ELSE etwThread' = "ended" /\ UNCHANGED <<trace, handle>>
  /\ UNCHANGED <<properties, frees, lockReady, callback, consumer, sourceRuns,
                 etwReady>>

ConsumerAbandoned == etwThread = "join"

\* The wait of 5 s is longer than the consumer takes to drain a session that
\* has been stopped.
ConsumerJoined == consumer \in {"none", "done"}

StopReturns ==
  /\ etwThread = "join"
  /\ ConsumerJoined
  /\ frees' = IF properties = "null" THEN frees ELSE frees + 1
  /\ properties' = "null"
  /\ sourceRuns' = FALSE
  /\ etwThread' = "ended"
  /\ UNCHANGED <<trace, handle, lockReady, callback, consumer, etwReady>>

EtwThread == EtwStart \/ SetCallback \/ EtwTestStop \/ StopTrace \/ StopReturns

EtwNext ==
  /\ Consumer \/ EventRecord \/ StoppedByAnother \/ EtwThread
  /\ UNCHANGED stopRequested

EtwFairness ==
  /\ WF_etwVars(Consumer /\ UNCHANGED stopRequested)
  /\ SF_etwVars(TraceEnds /\ UNCHANGED stopRequested)
  /\ WF_etwVars(EtwThread /\ UNCHANGED stopRequested)

-----------------------------------------------------------------------------
EtwTypeOK ==
  /\ trace \in {"none", "stale", "ours"}
  /\ handle \in BOOLEAN
  /\ properties \in {"null", "allocated", "dangling"}
  /\ frees \in 0 .. 2
  /\ lockReady \in BOOLEAN
  /\ callback \in BOOLEAN
  /\ consumer \in {"none", "opening", "processing", "calling", "done"}
  /\ etwThread \in {"start", "callback", "loop", "stop", "join", "ended"}
  /\ sourceRuns \in BOOLEAN
  /\ etwReady \in BOOLEAN
=============================================================================
