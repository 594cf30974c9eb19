--------------------------- MODULE MCAutoScanner ---------------------------
(***************************************************************************)
(* A small instance of AutoScanner for TLC: a scene of two image cards,    *)
(* one the reference of the other and the frame of the one shot; a click   *)
(* on the reference has a scope of its own.                                *)
(***************************************************************************)
EXTENDS AutoScanner

CONSTANTS master, frame, shot, scanMaster, scanFrame, scanShot, click,
          masterLot, frameLot, shotLot, byHand, k1

MCScopeOf ==
  [r \in Requests |-> CASE r = scanMaster -> masterLot
                        [] r = scanFrame -> frameLot
                        [] r = scanShot -> shotLot
                        [] r = click -> byHand]
MCPayloadOf == [r \in Requests |-> "plain"]
MCAssetsOf ==
  [s \in Scopes |-> CASE s \in {masterLot, byHand} -> {master}
                      [] s = frameLot -> {frame}
                      [] s = shotLot -> {shot}]
MCRefs == [i \in InScene |-> IF i = frame THEN {master} ELSE {}]
MCFrameOf == [x \in Videos |-> master]
=============================================================================
