----------------------------- MODULE MCIntents -----------------------------
(***************************************************************************)
(* Small instances of Intents for TLC: the scanner's lot of two assets and *)
(* a click on one of them with two payloads (with and without a forced     *)
(* account).                                                               *)
(***************************************************************************)
EXTENDS Intents, TLC

CONSTANTS scan, click, clickForced, auto, manual, shot1, shot2, k1, k2

MCScopeOf == [r \in Requests |-> IF r = scan THEN auto ELSE manual]
MCPayloadOf == [r \in Requests |-> IF r = clickForced THEN "forced" ELSE "plain"]
MCTwoAssets == [s \in Scopes |-> IF s = auto THEN {shot1, shot2} ELSE {shot1}]
(* Clients differ in nothing but their keys.                               *)
ClientKeySymmetry == Permutations(ClientKeys)
=============================================================================
