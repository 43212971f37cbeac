------------------------------- MODULE MCDesk -------------------------------
(***************************************************************************)
(* An instance of Desk for TLC.                                            *)
(***************************************************************************)
EXTENDS Desk, TLC

CONSTANTS m1, m2, p1

\* One lead, two messages.
OwnerOne == m1 :> p1 @@ m2 :> p1
=============================================================================
