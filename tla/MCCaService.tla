---------------------------- MODULE MCCaService ----------------------------
(***************************************************************************)
(* CaService on a straight road from west to east with a fix every three   *)
(* metres.  The vehicle stands still, drives on or backs up by at most two *)
(* points between two fixes.                                               *)
(***************************************************************************)
EXTENDS CaService

CONSTANT RoadLength

Road == 0..RoadLength
RoadSpeeds == {0, 1, 2}
RoadDistance(p, q) == 3 * Abs(p - q)
RoadBearing(p, q) == IF q >= p THEN 90 ELSE 270
AlongRoad(p) == {q \in Road : Abs(p - q) <= 2}

\* The same vehicle when it never backs up: every heading it has is 90 degrees.
DriveOn(p) == {q \in Road : q - p \in 0..2}

=============================================================================
