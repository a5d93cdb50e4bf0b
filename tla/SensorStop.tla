----------------------------- MODULE SensorStop -----------------------------
(***************************************************************************)
(* state.g_stop_requested, the one flag the sensor threads of the daemon   *)
(* share (src/src/daemon.zig, src/src/pipeline/telemetry_threads.zig).     *)
(***************************************************************************)
VARIABLE stopRequested

\* RuntimeSupervisor.requestStop
RequestStop ==
  /\ ~stopRequested
  /\ stopRequested' = TRUE
=============================================================================
