--------------------------- MODULE MCDispatchLane ---------------------------
(***************************************************************************)
(* Instances of DispatchLane for TLC.                                      *)
(***************************************************************************)
EXTENDS DispatchLane, TLC

CONSTANTS c1, c2, c3, c4

\* Four campaigns, in the order of their keys.
Sorted == c1 :> 1 @@ c2 :> 2 @@ c3 :> 3 @@ c4 :> 4
=============================================================================
