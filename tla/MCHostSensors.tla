--------------------------- MODULE MCHostSensors ---------------------------
(* Two watched directories; the first changes twice, the second stays as it is. *)
EXTENDS HostSensors

MCMaxChanges == [w \in 1 .. Watches |-> IF w = 1 THEN 2 ELSE 0]
=============================================================================
