----------------------------- MODULE MCSchedule -----------------------------
(***************************************************************************)
(* Small instances of Schedule for TLC.                                    *)
(***************************************************************************)
EXTENDS Schedule, TLC

CONSTANTS x, y, z, image, video

MCKindOf == x :> image @@ y :> image @@ z :> video
MCPriorityOf == x :> 1 @@ y :> 1 @@ z :> 0
=============================================================================
