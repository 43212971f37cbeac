----------------------------- MODULE MCSendPath -----------------------------
(***************************************************************************)
(* Instances of SendPath for TLC.                                          *)
(***************************************************************************)
EXTENDS SendPath, TLC

CONSTANTS m1, m2, p1

\* One lead, two messages.
OwnerOne == m1 :> p1 @@ m2 :> p1

Sym == Permutations(Runs)
=============================================================================
