----------------------------- MODULE MCNosePipe -----------------------------
(***************************************************************************)
(* Frames of three units, and of four for a length the reader refuses.     *)
(***************************************************************************)
EXTENDS NosePipe, TLC

MCFrameSize == "canonical" :> 3 @@ "other" :> 4
=============================================================================
