----------------------------- MODULE MCVerdict -----------------------------
(* Verdict on small instances.                                             *)
EXTENDS Verdict, TLC

CONSTANTS m1, m2, r1

\* A probe of the product, an event on the site, a verdict of a person.
OneOfEach == <<"mcp", "event", "human">>
=============================================================================
