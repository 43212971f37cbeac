------------------------------ MODULE MCIntake ------------------------------
(* Intake on small instances.                                              *)
EXTENDS Intake, TLC

CONSTANTS l1, l2, x1, x2, x3, s1, s2, r1

\* Two submissions of one lead around one of another.
WhoReturns == (x1 :> l1) @@ (x2 :> l2) @@ (x3 :> l1)
TimeRising == (x1 :> 1) @@ (x2 :> 2) @@ (x3 :> 3)
\* A lead server that lists everything, an endpoint without a cursor that
\* repeats one of its rows.
TwoLists == (s1 :> {x1, x2, x3}) @@ (s2 :> {x1})
=============================================================================
