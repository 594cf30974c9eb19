--------------------------- MODULE MCBoardFiles ---------------------------
(***************************************************************************)
(* A small instance of BoardFiles for TLC: two cards, two attempts on one  *)
(* of them, two request threads.                                           *)
(***************************************************************************)
EXTENDS BoardFiles, TLC

CONSTANTS card, other, a1, a2, h1, h2

MCAssetOf == [a \in Attempts |-> card]
(* Request threads are alike, and so are attempts on one card.             *)
ThreadSymmetry == Permutations(Handlers) \cup Permutations(Attempts)
=============================================================================
