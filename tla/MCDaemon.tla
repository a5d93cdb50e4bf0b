------------------------------- MODULE MCDaemon -------------------------------
(***************************************************************************)
(* Instance of Daemon with the sensor (spawned first, marks its failures,  *)
(* not waited for, polls the other stop flag), the pipeline, the Nose      *)
(* reader (not waited for, may block) and the ETW adapter (waited for, may *)
(* dry up).                                                                *)
(***************************************************************************)
EXTENDS Daemon

CONSTANTS sensor, pipeline, nose, etw

MCWorkers    == {sensor, pipeline, nose, etw}
MCAdapters   == {etw}
MCMarking    == {sensor, pipeline, nose, etw}
MCOnBridgeFlag == {sensor}
MCMortal     == {etw}
MCBlocking   == {nose}
MCSpawnOrder == <<sensor, pipeline, nose, etw>>
MCJoinOrder  == <<etw, nose, sensor, pipeline>>
=============================================================================
