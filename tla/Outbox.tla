------------------------------- MODULE Outbox -------------------------------
(***************************************************************************)
(* What the send path promises about a message, and nothing of how: no     *)
(* runs, snapshots, leases, clocks, limits or statuses.  A message lies in *)
(* the box, is in one run's hand, was found open and then clear to go, is  *)
(* launched towards the provider, was given to it, or is known to have     *)
(* been given.  What closes after the look that found it open, or bars the *)
(* lead after the message was found clear, comes too late for it.          *)
(* SendPath implements this (its definition ImplementsOutbox).             *)
(***************************************************************************)
EXTENDS Naturals

CONSTANTS
    Msgs,   \* messages
    Gated   \* messages that need approval

VARIABLES
    stage,     \* where each message is
    reviewed,  \* messages somebody decided on
    closed,    \* messages whose campaign is over, or was answered
    barred,    \* messages whose lead opted out or was suppressed
    delivered, \* how often the provider took each message
    missed     \* how often a delivery was not, or not rightly, put on record

vars == <<stage, reviewed, closed, barred, delivered, missed>>

Init ==
    /\ stage = [m \in Msgs |-> "box"]
    /\ reviewed = {} /\ closed = {} /\ barred = {}
    /\ delivered = [m \in Msgs |-> 0]
    /\ missed = [m \in Msgs |-> 0]

Move(m, from, to) ==
    /\ stage[m] \in from
    /\ stage' = [stage EXCEPT ![m] = to]

Count(f, m) == [f EXCEPT ![m] = @ + 1]

\* Only a message in the box is taken: not one in another's hand, and never
\* one that is known to be delivered.
Take(m) ==
    /\ Move(m, {"box"}, "hand")
    /\ UNCHANGED <<reviewed, closed, barred, delivered, missed>>

PutBack(m) ==
    /\ Move(m, {"hand", "open", "clear", "launched"}, "box")
    /\ UNCHANGED <<reviewed, closed, barred, delivered, missed>>

\* The way out: the campaign is still open to it, the lead is not barred,
\* and it is approved if it needs to be.
Look(m) ==
    /\ m \notin closed
    /\ Move(m, {"hand"}, "open")
    /\ UNCHANGED <<reviewed, closed, barred, delivered, missed>>

Pass(m) ==
    /\ m \notin barred
    /\ Move(m, {"open"}, "clear")
    /\ UNCHANGED <<reviewed, closed, barred, delivered, missed>>

Launch(m) ==
    /\ m \in Gated => m \in reviewed
    /\ Move(m, {"clear"}, "launched")
    /\ UNCHANGED <<reviewed, closed, barred, delivered, missed>>

Deliver(m) ==
    /\ Move(m, {"launched"}, "given")
    /\ delivered' = Count(delivered, m)
    /\ UNCHANGED <<reviewed, closed, barred, missed>>

Know(m) ==
    /\ Move(m, {"given"}, "known")
    /\ UNCHANGED <<reviewed, closed, barred, delivered, missed>>

\* The provider took it and its answer never came.
DeliverUnheard(m) ==
    /\ Move(m, {"launched"}, "box")
    /\ delivered' = Count(delivered, m)
    /\ missed' = Count(missed, m)
    /\ UNCHANGED <<reviewed, closed, barred>>

\* A delivery that is not, or no longer, on record.
Misread(m) ==
    /\ Move(m, {"given", "known"}, "box")
    /\ missed' = Count(missed, m)
    /\ UNCHANGED <<reviewed, closed, barred, delivered>>

\* The hand that held the messages M is gone.
Die(M) ==
    /\ \A m \in M : stage[m] \in {"hand", "open", "clear", "launched", "given"}
    /\ stage' = [m \in Msgs |-> IF m \in M THEN "box" ELSE stage[m]]
    /\ missed' = [m \in Msgs |-> IF m \in M /\ stage[m] = "given"
                                 THEN missed[m] + 1 ELSE missed[m]]
    /\ UNCHANGED <<reviewed, closed, barred, delivered>>

\* Somebody decides on a message nobody is working on.
Review(m) ==
    /\ stage[m] = "box"
    /\ reviewed' = reviewed \union {m}
    /\ UNCHANGED <<stage, closed, barred, delivered, missed>>

\* Leads reply, opt out or are won, for good.
Close(M, N) ==
    /\ closed' = closed \union M
    /\ barred' = barred \union N
    /\ UNCHANGED <<stage, reviewed, delivered, missed>>

Next ==
    \/ \E m \in Msgs : \/ Take(m) \/ PutBack(m) \/ Look(m) \/ Pass(m) \/ Launch(m)
                       \/ Deliver(m) \/ Know(m) \/ DeliverUnheard(m) \/ Misread(m) \/ Review(m)
    \/ \E M \in SUBSET Msgs : Die(M) \/ \E N \in SUBSET Msgs : Close(M, N)

Spec == Init /\ [][Next]_vars
=============================================================================
