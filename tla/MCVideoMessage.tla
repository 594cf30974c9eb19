--------------------------- MODULE MCVideoMessage ---------------------------
(***************************************************************************)
(* Small instances of VideoMessage for TLC.                                *)
(***************************************************************************)
EXTENDS VideoMessage, TLC

CONSTANTS s1, s2, b1, b2

MCOneBoard == (s1 :> b1) @@ (s2 :> b1)
MCTwoBoards == (s1 :> b1) @@ (s2 :> b2)
MCWorkers == Permutations({s1, s2})
=============================================================================
