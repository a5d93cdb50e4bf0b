---------------------------- MODULE HostSensors ----------------------------
(***************************************************************************)
(* The file and the process sensor in the daemon: both follow one stop     *)
(* flag, the supervisor joins their threads in the reverse order of their  *)
(* start (src/src/daemon.zig, RuntimeSupervisor), and when runDaemon       *)
(* returns the watcher and the source that the native code points into are *)
(* gone.                                                                   *)
(***************************************************************************)
EXTENDS FimSession, EtwSession

VARIABLE daemon  \* "running", "joinFim", "joinEtw" or "returned"

vars == <<stopRequested, fimVars, etwVars, daemon>>

Init ==
  /\ stopRequested = FALSE
  /\ FimInit
  /\ EtwInit
  /\ daemon = "running"

Shutdown ==
  /\ daemon = "running"
  /\ RequestStop
  /\ daemon' = "joinFim"
  /\ UNCHANGED <<fimVars, etwVars>>

JoinFim ==
  /\ daemon = "joinFim"
  /\ poller = "ended"
  /\ daemon' = "joinEtw"
  /\ UNCHANGED <<stopRequested, fimVars, etwVars>>

JoinEtw ==
  /\ daemon = "joinEtw"
  /\ etwThread = "ended"
  /\ daemon' = "returned"
  /\ UNCHANGED <<stopRequested, fimVars, etwVars>>

Next ==
  \/ FimNext /\ UNCHANGED <<etwVars, daemon>>
  \/ EtwNext /\ UNCHANGED <<fimVars, daemon>>
  \/ Shutdown \/ JoinFim \/ JoinEtw

Spec ==
  /\ Init
  /\ [][Next]_vars
  /\ FimFairness
  /\ EtwFairness
  /\ WF_vars(JoinFim)
  /\ WF_vars(JoinEtw)

-----------------------------------------------------------------------------
TypeOK ==
  /\ FimTypeOK
  /\ EtwTypeOK
  /\ stopRequested \in BOOLEAN
  /\ daemon \in {"running", "joinFim", "joinEtw", "returned"}

\* The changes in a session's buffer that nobody has polled.
Held(w) == IF io[w] = "completed" \/ dataReady[w] THEN buffer[w] ELSE {}

(* While a session runs, no change is overwritten in the buffer before it is *)
(* polled and none is handed out twice: each is with Windows, in the buffer, *)
(* delivered, or was dropped by a named loss.                                *)
EveryChangeAccounted ==
  \A w \in Watch : session[w] = "live" /\ running[w] =>
    /\ 1 .. made[w] = kernel[w] \cup Held(w) \cup delivered[w] \cup lost[w]
    /\ made[w] = Cardinality(kernel[w]) + Cardinality(Held(w))
                   + Cardinality(delivered[w]) + Cardinality(lost[w])

(* aegis_fim_stop frees a session under its thread in one case only: its     *)
(* CancelIoEx came while no read was pending, so that the read after it was  *)
(* never cancelled.                                                          *)
FreedUnderThread ==
  \A w \in Watch :
    session[w] = "freed" /\ thread[w] # "done" => missed[w] /\ thread[w] = "io"

(* The native ETW consumer calls into the daemon's EtwSource only while      *)
(* runDaemon, whose variable that is, has not returned.                      *)
CallbackContextAlive == consumer = "calling" => daemon # "returned"

(* The properties of the trace session are freed once, whichever call of the *)
(* start fails.                                                              *)
FreedOnce == frees <= 1 /\ (properties = "allocated" => frees = 0)

(* What a thread works on outlives it, but for the one case named above, and *)
(* is freed once.                                                            *)
LifetimesNest == TypeOK /\ FreedUnderThread /\ CallbackContextAlive /\ FreedOnce

(* However it ends, the ETW thread leaves no trace session of its own behind *)
(* in Windows.                                                               *)
NoTraceLeft == etwThread = "ended" => trace # "ours"

(* What readiness vouches for: the handle, the callback and the properties   *)
(* of a session the start has recorded.  (Not that the session still runs,   *)
(* which another program may stop, nor that a consumer is alive.)            *)
ReadyIsConnected == etwReady => handle /\ callback /\ properties = "allocated"

(* No trace session of the daemon's is left behind its thread, and readiness *)
(* is never said of one that was not recorded whole.                         *)
SessionTracked == NoTraceLeft /\ ReadyIsConnected

(* A change of the first directory the poller asks is delivered or counted   *)
(* lost, unless its read fails or the daemon stops.  Nothing is said of the  *)
(* directories behind it.                                                    *)
FirstWatchHeard ==
  \A c \in Change(1) :
    made[1] >= c ~> \/ c \in delivered[1] \cup lost[1]
                    \/ thread[1] = "done"
                    \/ stopRequested

(* A stop always completes: neither native stop hangs in its wait.           *)
StopCompletes == stopRequested ~> daemon = "returned"
=============================================================================
