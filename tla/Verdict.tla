------------------------------ MODULE Verdict ------------------------------
(***************************************************************************)
(* How one campaign ends: verifyCampaign asks its checks one by one and    *)
(* writes what it concluded (src/engine/verify.ts), a session settles a    *)
(* check or the whole campaign (resolve_check and mark_state in            *)
(* src/mcp/server/tools.ts), a lead opts out (unsubscribe.ts), and the     *)
(* result is credited to the messages that were sent (outcomes.ts).        *)
(*                                                                         *)
(* A call reads the campaign once and writes at its end, with long calls   *)
(* in between; every read and write of the database is a step of its own.  *)
(* Probe payloads, intervals and events are left out, and so is the order  *)
(* of the rows a write touches.  A probe passes only for what the lead     *)
(* did: a tool that answers about somebody else is not modelled.           *)
(***************************************************************************)
EXTENDS Integers, FiniteSets, Sequences

CONSTANTS
    KindOf,      \* the campaign's checks in order, each by its kind
    Latched,     \* checks that are not asked again once they passed
    Msgs,        \* messages of the campaign
    Budget,      \* touches the campaign may spend
    Runs,        \* calls that may overlap: tick, site event, session
    Events,      \* which outside events and faults the instance lets happen
    MaxFaults,   \* bound on calls that die and probes that fail
    MaxVerdicts  \* bound on verdicts of a session on single checks

Checks == 1 .. Len(KindOf)

ASSUME VerdictAssumption ==
    /\ KindOf \in Seq({"mcp", "event", "human"})
    /\ Len(KindOf) > 0
    /\ Latched \subseteq Checks
    /\ IsFiniteSet(Msgs)
    /\ Budget \in Nat /\ MaxFaults \in Nat /\ MaxVerdicts \in Nat

VARIABLES
    status,     \* the goal instance's status
    results,    \* its checkResults
    lifecycle,  \* the person's lifecycle
    msg,        \* status of each message
    credit,     \* goalOutcome of each message
    won,        \* won[m]: times message m was counted as a win
    converted,  \* times the campaign's templates were credited with it
    run,        \* run[r]: what a call carries
    leaving,    \* how far the opt-out has come
    done,       \* what the lead really did
    \* History, read by no action of the code.
    vouched,    \* checks a session ever settled as passed
    crossed,    \* crossed[r]: checks whose record changed since call r read
    faults, verdicts

db    == <<status, results, lifecycle, msg>>
count == <<credit, won, converted>>
world == <<leaving, done>>
hist  == <<vouched, crossed, faults, verdicts>>
vars  == <<db, count, run, world, hist>>

Readings == {"unset", "yes", "no"}
Phases   == {"idle", "ask", "end", "drop", "sent", "stamp", "count", "template", "cool"}

\* by: who decides; seen: its copy of checkResults; next: the check to ask;
\* spent: touches when it read; wins: what it concluded; mine: messages found
\* and not yet counted.
Idle == [phase |-> "idle", by |-> "engine", seen |-> [c \in Checks |-> "unset"],
         next |-> 1, spent |-> 0, wins |-> FALSE, mine |-> {}]

Sent == {m \in Msgs : msg[m] = "sent"}

Init ==
    /\ status = "active" /\ results = [c \in Checks |-> "unset"]
    /\ lifecycle = "active"
    /\ msg = [m \in Msgs |-> "queued"]
    /\ credit = [m \in Msgs |-> "none"] /\ won = [m \in Msgs |-> 0] /\ converted = 0
    /\ run = [r \in Runs |-> Idle]
    /\ leaving = "no" /\ done = {}
    /\ vouched = {} /\ crossed = [r \in Runs |-> {}]
    /\ faults = 0 /\ verdicts = 0

Fault(name) == name \in Events /\ faults < MaxFaults /\ faults' = faults + 1

\* checkResults as a write leaves it; the calls still asking hold older copies.
Record(readings) ==
    /\ results' = readings
    /\ crossed' = [r \in Runs |->
                      IF run'[r].phase = "ask"
                      THEN crossed[r] \cup {c \in Checks : readings[c] # results[c]}
                      ELSE {}]

-----------------------------------------------------------------------------
(* verifyCampaign.                                                         *)

\* Variant: an ended campaign is verified like a running one.
RunningAlways == TRUE
Running == status = "active"

\* The tick's call, a site event's, or the one resolve_check makes at its end.
Begin(r) ==
    /\ run[r].phase = "idle" /\ Running
    /\ run' = [run EXCEPT ![r] = [Idle EXCEPT !.phase = "ask", !.seen = results,
                                              !.spent = Cardinality(Sent)]]
    /\ crossed' = [crossed EXCEPT ![r] = {}]
    /\ UNCHANGED <<db, count, world, vouched, faults, verdicts>>

\* Variant: the human checks are read like the others.
PassedOverAsksHuman(r, c) == run[r].seen[c] = "yes" /\ c \in Latched
\* Variant: any recorded reading is final.
PassedOverRecorded(r, c) == run[r].seen[c] # "unset" \/ KindOf[c] = "human"

\* A settled fact is not asked again, and nobody asks a human check.
PassedOver(r, c) == \/ run[r].seen[c] = "yes" /\ c \in Latched
                    \/ KindOf[c] = "human"

Asking(r) == run[r].phase = "ask" /\ run[r].next \in Checks
Note(r, reading) == run' = [run EXCEPT ![r].next = @ + 1, ![r].seen[run[r].next] = reading]

PassOver(r) ==
    /\ Asking(r) /\ PassedOver(r, run[r].next)
    /\ run' = [run EXCEPT ![r].next = @ + 1]
    /\ UNCHANGED <<db, count, world, hist>>

Ask(r) ==
    /\ Asking(r) /\ ~PassedOver(r, run[r].next)
    /\ Note(r, IF run[r].next \in done THEN "yes" ELSE "no")
    /\ UNCHANGED <<db, count, world, hist>>

\* An assertion that says neither, or a verifier that cannot be reached or lags.
AskInVain(r) ==
    /\ Asking(r) /\ ~PassedOver(r, run[r].next) /\ KindOf[run[r].next] = "mcp"
    /\ Fault("probe")
    /\ \E reading \in {"no", run[r].seen[run[r].next]} : Note(r, reading)
    /\ UNCHANGED <<db, count, world, vouched, crossed, verdicts>>

Asked(r)     == run[r].phase = "ask" /\ run[r].next \notin Checks
AllPassed(r) == \A c \in Checks : run[r].seen[c] = "yes"

Conclude(r) ==
    /\ Asked(r)
    /\ AllPassed(r) \/ run[r].spent >= Budget
    /\ status' = IF AllPassed(r) THEN "succeeded" ELSE "failed"
    /\ run' = [run EXCEPT ![r].phase = "drop", ![r].wins = AllPassed(r)]
    /\ Record(run[r].seen)
    /\ UNCHANGED <<lifecycle, msg, count, world, vouched, faults, verdicts>>

Save(r) ==
    /\ Asked(r) /\ ~AllPassed(r) /\ run[r].spent < Budget
    /\ run' = [run EXCEPT ![r] = Idle]
    /\ Record(run[r].seen)
    /\ UNCHANGED <<status, lifecycle, msg, count, world, vouched, faults, verdicts>>

-----------------------------------------------------------------------------
(* A session's verdicts.                                                   *)

\* resolve_check: the one field is written at once, whatever the campaign's
\* status and whoever is in the middle of verifying it.
Resolve(c, passed) ==
    /\ "session" \in Events /\ verdicts < MaxVerdicts
    /\ UNCHANGED run
    /\ Record([results EXCEPT ![c] = IF passed THEN "yes" ELSE "no"])
    /\ vouched' = IF passed THEN vouched \cup {c} ELSE vouched
    /\ verdicts' = verdicts + 1
    /\ UNCHANGED <<status, lifecycle, msg, count, world, faults>>

\* Variant: success is taken on trust.
RefusedNever == FALSE
\* refuseUnverifiedSuccess
Refused == \E c \in Checks : results[c] # "yes"

\* mark_state: gated when it reads, written later.
Mark(r, wins) ==
    /\ "session" \in Events
    /\ run[r].phase = "idle" /\ status = "active"
    /\ wins => ~Refused
    /\ run' = [run EXCEPT ![r] = [Idle EXCEPT !.phase = "end", !.by = "session", !.wins = wins]]
    /\ UNCHANGED <<db, count, world, hist>>

End(r) ==
    /\ run[r].phase = "end"
    /\ status' = IF run[r].wins THEN "succeeded" ELSE "failed"
    /\ run' = [run EXCEPT ![r].phase = "drop"]
    /\ UNCHANGED <<results, lifecycle, msg, count, world, hist>>

-----------------------------------------------------------------------------
(* What follows an ending, whoever decided it.                             *)

Step(r, from, to) == run[r].phase = from /\ run' = [run EXCEPT ![r].phase = to]

Drop(r) ==
    /\ Step(r, "drop", "sent")
    /\ msg' = [m \in Msgs |-> IF msg[m] = "queued" THEN "skipped" ELSE msg[m]]
    /\ UNCHANGED <<status, results, lifecycle, count, world, hist>>

Unstamped == {m \in Sent : credit[m] = "none"}

\* stampGoalOutcome reads the messages it will count, then marks all that
\* match at the time of the write, and counts those it read.
FindSent(r) ==
    /\ run[r].phase = "sent"
    /\ run' = [run EXCEPT ![r].phase = "stamp", ![r].mine = Unstamped]
    /\ UNCHANGED <<db, count, world, hist>>

Outcome(wins) == IF wins THEN "won" ELSE "lost"

Stamp(r) ==
    /\ Step(r, "stamp", "count")
    /\ credit' = [m \in Msgs |-> IF run[r].mine # {} /\ m \in Unstamped
                                 THEN Outcome(run[r].wins) ELSE credit[m]]
    /\ UNCHANGED <<db, won, converted, world, hist>>

\* bumpPrior, one message after the other.
CountWin(r, m) ==
    /\ run[r].phase = "count" /\ run[r].wins /\ m \in run[r].mine
    /\ won' = [won EXCEPT ![m] = @ + 1]
    /\ run' = [run EXCEPT ![r].mine = @ \ {m}]
    /\ UNCHANGED <<db, credit, converted, world, hist>>

\* Only the engine credits templates, and only with a win.
Counted(r) ==
    /\ run[r].wins => run[r].mine = {}
    /\ Step(r, "count", IF run[r].wins /\ run[r].by = "engine" THEN "template" ELSE "cool")
    /\ UNCHANGED <<db, count, world, hist>>

CreditTemplates(r) ==
    /\ Step(r, "template", "cool")
    /\ converted' = converted + 1
    /\ UNCHANGED <<db, credit, won, world, hist>>

\* The person's lifecycle, whatever it has become in between.
Cool(r) ==
    /\ run[r].phase = "cool"
    /\ lifecycle' = "cooling"
    /\ run' = [run EXCEPT ![r] = Idle]
    /\ UNCHANGED <<status, results, msg, count, world, hist>>

Die(r) ==
    /\ run[r].phase # "idle"
    /\ Fault("crash")
    /\ run' = [run EXCEPT ![r] = Idle]
    /\ UNCHANGED <<db, count, world, vouched, crossed, verdicts>>

-----------------------------------------------------------------------------
(* The lead and the send path.                                             *)

Happen(c) ==
    /\ KindOf[c] # "human" /\ c \notin done
    /\ done' = done \cup {c}
    /\ UNCHANGED <<db, count, run, leaving, hist>>

\* Variant: every campaign of the person ends, a won one too.
AfterLeavingAny == "failed"
AfterLeaving == IF status = "active" THEN "failed" ELSE status

\* unsubscribePerson: the person, then the running campaign, then its queue.
Leave ==
    /\ "leave" \in Events
    /\ \/ /\ leaving = "no" /\ leaving' = "person"
          /\ lifecycle' = "suppressed" /\ UNCHANGED <<status, msg>>
       \/ /\ leaving = "person" /\ leaving' = "campaign"
          /\ status' = AfterLeaving
          /\ UNCHANGED <<lifecycle, msg>>
       \/ /\ leaving = "campaign" /\ leaving' = "gone"
          /\ msg' = [m \in Msgs |-> IF msg[m] = "queued" THEN "skipped" ELSE msg[m]]
          /\ UNCHANGED <<status, lifecycle>>
    /\ UNCHANGED <<results, count, run, done, hist>>

\* fireDue, which asks for an active campaign within its budget.
Send(m) ==
    /\ msg[m] = "queued" /\ status = "active" /\ lifecycle # "suppressed"
    /\ Cardinality(Sent) < Budget
    /\ msg' = [msg EXCEPT ![m] = "sent"]
    /\ UNCHANGED <<status, results, lifecycle, count, run, world, hist>>

Verify(r) == \/ Begin(r) \/ PassOver(r) \/ Ask(r) \/ AskInVain(r)
             \/ Conclude(r) \/ Save(r)
Settle(r) == \/ End(r) \/ Drop(r) \/ FindSent(r) \/ Stamp(r)
             \/ (\E m \in Msgs : CountWin(r, m)) \/ Counted(r)
             \/ CreditTemplates(r) \/ Cool(r)

Next ==
    \/ \E r \in Runs :
         \/ Verify(r) \/ Settle(r) \/ Die(r)
         \/ \E wins \in BOOLEAN : Mark(r, wins)
    \/ \E c \in Checks, passed \in BOOLEAN : Resolve(c, passed)
    \/ \E c \in Checks : Happen(c)
    \/ Leave
    \/ \E m \in Msgs : Send(m)

Spec == Init /\ [][Next]_vars

\* The cron verifies the campaign again and again, and a call goes on.
Fairness == \A r \in Runs : WF_vars(Verify(r) \/ Settle(r))

FairSpec == Spec /\ Fairness

Places == 1 .. Len(KindOf) + 1

Call == [phase : Phases, by : {"engine", "session"}, seen : [Checks -> Readings],
         next : Places, spent : Nat, wins : BOOLEAN, mine : SUBSET Msgs]

TypeOK ==
    /\ status \in {"active", "succeeded", "failed"}
    /\ results \in [Checks -> Readings]
    /\ lifecycle \in {"active", "cooling", "suppressed"}
    /\ msg \in [Msgs -> {"queued", "sent", "skipped"}]
    /\ credit \in [Msgs -> {"none", "won", "lost"}]
    /\ won \in [Msgs -> Nat] /\ converted \in Nat
    /\ run \in [Runs -> Call]
    /\ leaving \in {"no", "person", "campaign", "gone"}
    /\ done \subseteq Checks /\ vouched \subseteq Checks
    /\ crossed \in [Runs -> SUBSET Checks]
    /\ faults \in Nat /\ verdicts \in Nat

-----------------------------------------------------------------------------
(* What an ending promises.                                                *)

Shown(c) == c \in done \/ c \in vouched

\* mark_state refuses a success "unless every check the campaign defines has
\* actually passed" and the engine asks for all (verify.ts).  A verdict may land
\* between what a call read and what it writes, so what holds is that every
\* check of a success was shown once: by what the lead did, or by a session,
\* even one that took it back since.
ProvedWin == status = "succeeded" => \A c \in Checks : Shown(c)

\* "a campaign marked twice does not count twice" (outcomes.ts): one call at a
\* time, dying between any two writes, no message and no template gets one win
\* twice.
CountedOnce == converted <= 1 /\ \A m \in Msgs : won[m] <= 1

\* With one call at a time the messages' outcome is the campaign's own, also
\* when a call died in between or the lead opted out on the way.
OutcomeAgrees ==
    \A m \in Msgs : credit[m] # "none" => credit[m] = Outcome(status = "succeeded")

\* "Account created once is created forever", and a session's verdict sticks
\* (verify.ts:277): what is settled changes by a verdict only, or by a call that
\* writes back the copy it read before that very record changed (verify.ts:268,
\* 462).  The second contradicts the comment; no other call may.
Settled(c) == \/ KindOf[c] = "human"
              \/ c \in Latched /\ results[c] = "yes"

StaleCopy(c) == \E r \in Runs : c \in crossed[r] /\ (Conclude(r) \/ Save(r))

SettledStays ==
    [][\A c \in Checks : Settled(c) /\ results'[c] # results[c] =>
          StaleCopy(c) \/ \E passed \in BOOLEAN : Resolve(c, passed)]_vars

\* A lead who did everything, and for whom a session vouched where nobody asks,
\* is noticed: the campaign does not go on for ever (the next tick reads it).
\* It is about a verdict that stays recorded: one a stale copy overwrote is lost.
WinSeen ==
    <>[](\A c \in Checks : IF KindOf[c] = "human" THEN results[c] = "yes" ELSE c \in done)
        => <>(status # "active")
=============================================================================
