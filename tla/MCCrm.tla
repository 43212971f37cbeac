------------------------------- MODULE MCCrm -------------------------------
EXTENDS Crm, TLC

CONSTANTS r1, r2

\* One lead the sales team works, gives up on and takes up again; one that
\* only writes.
KindsPair == (r1 :> {"ours", "lost", "reopened", "moved"} @@ r2 :> {"note"})
=============================================================================
