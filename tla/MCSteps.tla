------------------------------ MODULE MCSteps ------------------------------
(* Steps on small instances.                                               *)
EXTENDS Steps, TLC

CONSTANTS r1, s1

Standard == [rolling |-> FALSE, fallbacks |-> TRUE, composeAll |-> FALSE, reviewed |-> FALSE]
Rolling  == [rolling |-> TRUE, fallbacks |-> TRUE, composeAll |-> TRUE, reviewed |-> FALSE]
\* With a gate before every send and nothing to fall back on.
Bare     == [rolling |-> TRUE, fallbacks |-> FALSE, composeAll |-> TRUE, reviewed |-> TRUE]

Starting == {<<Standard, "arrived">>, <<Rolling, "read">>, <<Rolling, "planned">>, <<Bare, "planned">>}
=============================================================================
