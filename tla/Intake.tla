------------------------------- MODULE Intake -------------------------------
(***************************************************************************)
(* How leads become people and campaigns: runSource polls a source, ingest *)
(* turns the rows into people and opens a campaign for each, and only then *)
(* does the source's cursor move (src/engine/runSource.ts, ingest.ts and   *)
(* the adapters under src/adapters/source).                                *)
(*                                                                         *)
(* ingest works in phases over a whole batch, each phase one bulk read or  *)
(* write; a phase is one step here, and a run may die between any two.     *)
(* All sources feed the same goal.  A row is one form submission; a lead   *)
(* is the value of the dedupe key the row maps to.  What ingest fills in   *)
(* on a person and writes with the campaign (consent, phone, mailbox,      *)
(* attempts, lifecycle, coolingUntil, the playbook's plan) is read by no   *)
(* step here and left out.                                                 *)
(***************************************************************************)
EXTENDS Integers, FiniteSets, Sequences

CONSTANTS
    Leads,      \* values of the dedupe key
    Rows,       \* submissions, each with a fingerprint of its own
    Who,        \* Who[x]: the lead row x names
    Time,       \* Time[x]: the row's own timestamp, from 1
    Twice,      \* rows that a response lists twice
    Sources,    \* the polled sources of the campaign
    Lists,      \* Lists[s]: the rows source s ever lists
    Whole,      \* sources without a cursor: a poll returns everything
    Runs,       \* runs of runSource that may overlap
    PageSize,   \* rows on a page of the lead server
    MaxPages,   \* MAX_PAGES
    Events,     \* which outside events and faults the instance lets happen
    MaxFaults,  \* bound on runs that die or find no channel
    MaxPolls    \* bound on polls of sources without a cursor

ASSUME IntakeAssumption ==
    /\ IsFiniteSet(Rows)
    /\ Who \in [Rows -> Leads]
    /\ Sources # {}
    /\ Time \in [Rows -> Nat \ {0}] /\ Twice \subseteq Rows
    /\ Lists \in [Sources -> SUBSET Rows]
    /\ Whole \subseteq Sources
    /\ {PageSize, MaxPages} \subseteq Nat \ {0}
    /\ {MaxFaults, MaxPolls} \subseteq Nat

VARIABLES
    feed,       \* rows submitted so far
    mark,       \* mark[s]: the source's stored cursor, 0 for none
    people,     \* person documents
    arrivals,   \* arrivals[p][x]: how often person p's record lists row x
    camps,      \* camps[p]: the goal instances of p, oldest first
    suppressed, \* leads on the suppression list
    run,        \* run[r]: what a run carries from phase to phase
    \* History, read by no action of the code.
    beyond,     \* rows below a stored cursor that no page reached
    faults, polls

db   == <<mark, people, arrivals, camps, suppressed>>
hist == <<beyond, faults, polls>>
vars == <<feed, db, run, hist>>

\* A document is named after the lead and the run that inserts it.
Person == Leads \X Runs
Nobody == <<>>
LeadOf(p) == p[1]

CampStatuses == {"active", "succeeded", "failed", "already_met"}
Camp(status) == [status |-> status, welcome |-> FALSE]
HasCamp(p, status) == \E k \in 1 .. Len(camps[p]) : camps[p][k].status = status

Phases == {"idle", "insert", "attach", "lookup", "met", "enrol", "welcome", "finish"}

\* source: polled; batch: rows at work; known: the person found for a lead, had:
\* rows found recorded; settled, entering: people who met the goal, people to
\* open a campaign for, opened: which of their campaigns; top: cursor to store.
Idle == [phase |-> "idle", source |-> CHOOSE s \in Sources : TRUE,
         batch |-> {}, known |-> [l \in Leads |-> Nobody], had |-> {},
         settled |-> {}, entering |-> {}, opened |-> [p \in Person |-> 0], top |-> 0]

Init ==
    /\ feed = {} /\ mark = [s \in Sources |-> 0]
    /\ people = {}
    /\ arrivals = [p \in Person |-> [x \in Rows |-> 0]]
    /\ camps = [p \in Person |-> <<>>]
    /\ suppressed = {}
    /\ run = [r \in Runs |-> Idle]
    /\ beyond = {} /\ faults = 0 /\ polls = 0

-----------------------------------------------------------------------------
(* What a poll brings.                                                     *)

Listed(s) == Lists[s] \cap feed

\* Newest first; a first poll takes one page, a later one pages backwards.
Reach(s) == IF mark[s] = 0 THEN PageSize ELSE PageSize * MaxPages
Visited(s) ==
    IF s \in Whole THEN Listed(s)
    ELSE {x \in Listed(s) :
            Cardinality({y \in Listed(s) : Time[y] > Time[x]}) < Reach(s)}
\* Variant: the server's own paging position kept as the resume point.
FetchedBackwards(s) ==
    IF s \in Whole \/ mark[s] = 0 THEN Visited(s)
    ELSE {x \in Listed(s) : Time[x] < mark[s]}

Fetched(s) ==
    IF s \in Whole THEN Listed(s) ELSE {x \in Visited(s) : Time[x] > mark[s]}

\* The newest timestamp seen, never below the old mark; no mark without cursor.
NextMark(s) ==
    LET seen == {mark[s]} \cup {Time[x] : x \in Visited(s)}
    IN  IF s \in Whole THEN mark[s]
        ELSE CHOOSE t \in seen : \A u \in seen : u <= t

(***************************************************************************)
(* A run reads: the page or pages, the suppression list, the people it     *)
(* already knows.  An empty batch goes straight to storing the cursor.     *)
(***************************************************************************)
Documents(l) == {p \in people : LeadOf(p) = l}

Read(r, s) ==
    /\ run[r].phase = "idle"
    /\ LET rows == {x \in Fetched(s) : Who[x] \notin suppressed}
       IN  /\ s \in Whole => polls < MaxPolls
           /\ polls' = IF s \in Whole THEN polls + 1 ELSE polls
           /\ \E found \in [Leads -> people \cup {Nobody}] :
                /\ \A l \in Leads : IF Documents(l) = {} THEN found[l] = Nobody
                                    ELSE found[l] \in Documents(l)
                /\ run' = [run EXCEPT ![r] = [Idle EXCEPT
                     !.phase = IF rows = {} THEN "finish" ELSE "insert",
                     !.source = s, !.batch = rows, !.known = found, !.top = NextMark(s),
                     !.had = {x \in rows : /\ found[Who[x]] # Nobody
                                           /\ arrivals[found[Who[x]]][x] > 0}]]
    /\ beyond' = beyond \cup {x \in Listed(s) \ Visited(s) : Time[x] > mark[s]}
    /\ UNCHANGED <<feed, db, faults>>

Phase(r, from, to) == /\ run[r].phase = from
                      /\ run' = [run EXCEPT ![r].phase = to]

\* Rows of one lead are one person with as many arrivals.
Named(r)    == {Who[x] : x \in run[r].batch}
New(r)      == {<<l, r>> : l \in {k \in Named(r) : run[r].known[k] = Nobody}}
Entries(r)  == New(r) \cup ({run[r].known[l] : l \in Named(r)} \ {Nobody})
\* Variant: rows already recorded are not recognised.
FreshAll(r, p) == {x \in run[r].batch : Who[x] = LeadOf(p)}
Fresh(r, p) == {x \in run[r].batch \ run[r].had : Who[x] = LeadOf(p)}

\* Inside a batch a row is recognised too, but only for a person found: who is
\* created gets every row as it was listed.
Copies(x) == IF x \in Twice THEN 2 ELSE 1
Added(r, p, x) ==
    IF x \notin Fresh(r, p) THEN 0 ELSE IF p \in New(r) THEN Copies(x) ELSE 1

Arrive(r, who) ==
    arrivals' = [p \in Person |-> [x \in Rows |->
        arrivals[p][x] + IF p \in who THEN Added(r, p, x) ELSE 0]]

Insert(r) ==
    /\ Phase(r, "insert", "attach")
    /\ people' = people \cup New(r)
    /\ Arrive(r, New(r))
    /\ UNCHANGED <<feed, mark, camps, suppressed, hist>>

Attach(r) ==
    /\ Phase(r, "attach", "lookup")
    /\ Arrive(r, Entries(r) \ New(r))
    /\ UNCHANGED <<feed, mark, people, camps, suppressed, hist>>

(***************************************************************************)
(* Who is in the campaign already, and who reached its goal before: the    *)
(* first are left alone, the second get a campaign that is closed at once. *)
(***************************************************************************)
\* Variant: people already in the campaign are candidates too.
CandidatesAll(r) == Entries(r)
Candidates(r) == {p \in Entries(r) : ~HasCamp(p, "active")}

\* Variant: earlier successes are not looked up.
LookupOpenOnly(r) ==
    /\ run[r].phase = "lookup"
    /\ run' = [run EXCEPT ![r].phase = "met", ![r].entering = Candidates(r)]
    /\ UNCHANGED <<feed, db, hist>>

Lookup(r) ==
    /\ run[r].phase = "lookup"
    /\ LET met == {p \in Candidates(r) : HasCamp(p, "succeeded")}
       IN  run' = [run EXCEPT ![r].phase = "met", ![r].settled = met,
                              ![r].entering = Candidates(r) \ met]
    /\ UNCHANGED <<feed, db, hist>>

Open(who, status) ==
    camps' = [p \in Person |->
        IF p \in who THEN Append(camps[p], Camp(status)) ELSE camps[p]]

RecordMet(r) ==
    /\ Phase(r, "met", IF run[r].entering = {} THEN "finish" ELSE "enrol")
    /\ Open(run[r].settled, "already_met")
    /\ UNCHANGED <<feed, mark, people, arrivals, suppressed, hist>>

Enrol(r) ==
    /\ run[r].phase = "enrol"
    /\ Open(run[r].entering, "active")
    /\ run' = [run EXCEPT ![r].phase = "welcome", ![r].opened =
           [p \in Person |-> IF p \in run[r].entering THEN Len(camps[p]) + 1 ELSE 0]]
    /\ UNCHANGED <<feed, mark, people, arrivals, suppressed, hist>>

\* queueFirstTouches: the first touch of every campaign this run opened.
Welcome(r) ==
    /\ Phase(r, "welcome", "finish")
    /\ camps' = [p \in Person |-> [k \in 1 .. Len(camps[p]) |->
           IF run[r].opened[p] = k THEN [camps[p][k] EXCEPT !.welcome = TRUE]
           ELSE camps[p][k]]]
    /\ UNCHANGED <<feed, mark, people, arrivals, suppressed, hist>>

Fault(name) == /\ name \in Events /\ faults < MaxFaults
               /\ faults' = faults + 1
               /\ UNCHANGED <<beyond, polls>>

\* No healthy channel or no template fits: queueFirstTouches skips the lead.
NoChannel(r) ==
    /\ Fault("noChannel")
    /\ Phase(r, "welcome", "finish")
    /\ UNCHANGED <<feed, db>>

\* runSource: the cursor moves after every record has been committed.
Finish(r) ==
    /\ run[r].phase = "finish"
    /\ mark' = [mark EXCEPT ![run[r].source] = run[r].top]
    /\ run' = [run EXCEPT ![r] = Idle]
    /\ UNCHANGED <<feed, people, arrivals, camps, suppressed, hist>>

\* Variant: the cursor is stored in a finally.
DieStoring(r) ==
    /\ run[r].phase # "idle"
    /\ Fault("crash")
    /\ mark' = [mark EXCEPT ![run[r].source] = run[r].top]
    /\ run' = [run EXCEPT ![r] = Idle]
    /\ UNCHANGED <<feed, people, arrivals, camps, suppressed>>

\* The tick catches a throw, or dies: either way nothing more is written.
Die(r) ==
    /\ run[r].phase # "idle"
    /\ Fault("crash")
    /\ run' = [run EXCEPT ![r] = Idle]
    /\ UNCHANGED <<feed, db>>

-----------------------------------------------------------------------------
(* The world around: submissions, endings, opt-outs.                       *)

\* The server lists submissions in the order of their timestamps.
Submit(x) ==
    /\ x \notin feed
    /\ \A y \in feed : Time[y] <= Time[x]
    /\ feed' = feed \cup {x}
    /\ UNCHANGED <<db, run, hist>>

Close(p, k, status) ==
    camps' = [camps EXCEPT ![p][k].status = status]

\* verifyCampaign: every check passed, or the message budget is spent.
Verified(p, k) ==
    /\ "verify" \in Events
    /\ camps[p][k].status = "active"
    /\ \E status \in {"succeeded", "failed"} : Close(p, k, status)
    /\ UNCHANGED <<feed, mark, people, arrivals, suppressed, run, hist>>

\* unsubscribe: the address goes on the list and every open campaign ends.
OptOut(l) ==
    /\ "optOut" \in Events
    /\ l \notin suppressed /\ Documents(l) # {}
    /\ suppressed' = suppressed \cup {l}
    /\ camps' = [p \in Person |-> [k \in 1 .. Len(camps[p]) |->
           IF LeadOf(p) = l /\ camps[p][k].status = "active"
           THEN [camps[p][k] EXCEPT !.status = "failed"] ELSE camps[p][k]]]
    /\ UNCHANGED <<feed, mark, people, arrivals, run, hist>>

Ingest(r) == \/ Insert(r) \/ Attach(r) \/ Lookup(r) \/ RecordMet(r)
             \/ Enrol(r) \/ Welcome(r) \/ NoChannel(r) \/ Finish(r)

Next ==
    \/ \E r \in Runs : (\E s \in Sources : Read(r, s)) \/ Ingest(r) \/ Die(r)
    \/ \E x \in Rows : Submit(x)
    \/ \E p \in Person : \E k \in 1 .. Len(camps[p]) : Verified(p, k)
    \/ \E l \in Leads : OptOut(l)

Spec == Init /\ [][Next]_vars

\* The cron polls every source that is due, each in its turn, and a run that
\* is not killed goes on.  Leads, verdicts and faults owe nothing.
Fairness ==
    /\ \A r \in Runs : WF_vars(Ingest(r))
    /\ \A s \in Sources : SF_vars(\E r \in Runs : Read(r, s))

FairSpec == Spec /\ Fairness

CampDoc == [status : CampStatuses, welcome : BOOLEAN]
RunDoc  == [phase : Phases, source : Sources, batch : SUBSET Rows,
            known : [Leads -> Person \cup {Nobody}], had : SUBSET Rows,
            settled : SUBSET Person, entering : SUBSET Person,
            opened : [Person -> Nat], top : Nat]

TypeOK ==
    /\ feed \subseteq Rows /\ mark \in [Sources -> Nat]
    /\ people \subseteq Person /\ suppressed \subseteq Leads
    /\ arrivals \in [Person -> [Rows -> Nat]]
    /\ camps \in [Person -> Seq(CampDoc)]
    /\ run \in [Runs -> RunDoc]
    /\ beyond \subseteq Rows /\ {faults, polls} \subseteq Nat

-----------------------------------------------------------------------------
(* What intake promises, for one run at a time.                            *)

Entered(l) == \E p \in people : LeadOf(p) = l /\ camps[p] # <<>>

\* "Advancing it first means a crash mid-batch loses those leads permanently"
\* (ingest.ts, runSource.ts): a row behind a stored cursor belongs to a lead
\* with a campaign, unless the lead opted out or no page reached the row.
NoLeadLost ==
    \A s \in Sources \ Whole : \A x \in Listed(s) :
        Time[x] <= mark[s] =>
            Entered(Who[x]) \/ Who[x] \in suppressed \/ x \in beyond

\* "One active instance per person per campaign" (ingest.ts): whatever dies
\* and whatever is polled again, a lead is in the campaign once.
OneOpen ==
    \A p, q \in people : \A j \in 1 .. Len(camps[p]), k \in 1 .. Len(camps[q]) :
        /\ LeadOf(p) = LeadOf(q)
        /\ camps[p][j].status = "active" /\ camps[q][k].status = "active"
        => p = q /\ j = k

\* Who reached the goal is not run again (ingest.ts): after a success every
\* later campaign of that person is one closed at birth.
WonNotRerun ==
    \A p \in people : \A j, k \in 1 .. Len(camps[p]) :
        j < k /\ camps[p][j].status = "succeeded" => camps[p][k].status = "already_met"

\* "The form was still filled in once" (ingest.ts): however often polls, crashes
\* and a second source bring a row again, it is recorded with one person and no
\* more often than one response lists it.  A row that a response lists twice is
\* recorded twice by the batch that creates the person, and by no other.
ArrivedOnce ==
    \A p, q \in people, x \in Rows :
        /\ arrivals[p][x] <= Copies(x)
        /\ arrivals[p][x] > 0 /\ arrivals[q][x] > 0 => p = q

\* Every lead a source with a cursor lists gets a campaign, opts out, or was on
\* no page, whatever dies on the way (runSource.ts: the cursor waits).
EveryoneEnters ==
    \A s \in Sources \ Whole : \A x \in Lists[s] : x \in feed ~>
        Entered(Who[x]) \/ Who[x] \in suppressed \/ x \in beyond
=============================================================================
