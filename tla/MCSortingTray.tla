--------------------------- MODULE MCSortingTray ---------------------------
(***************************************************************************)
(* A small instance of SortingTray for TLC: two cards and an attempt at    *)
(* both.                                                                   *)
(***************************************************************************)
EXTENDS SortingTray

CONSTANTS a, b
MCLots == {<<a, b>>}
=============================================================================
