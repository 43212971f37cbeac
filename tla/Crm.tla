-------------------------------- MODULE Crm --------------------------------
(***************************************************************************)
(* The reading of the sales team's CRM and the notes written into it       *)
(* (src/engine/crm/sync.ts, writeBack.ts, crmLost.ts).  A run of           *)
(* /api/cron/crm locks the connection, reads the change feed from its      *)
(* cursor, keeps the events of records tied to one of our people, queues   *)
(* what they left stale and works the queue off, a record at a time, for   *)
(* as long as it has; then it looks up people nobody has checked and       *)
(* the lock is given back, and our own notes are written.  Meanwhile the   *)
(* CRM changes, people arrive, somebody has one person read by hand, and a *)
(* session reads why leads were lost and puts their campaigns to sleep.    *)
(*                                                                         *)
(* What a record says is its events in the order the feed has them, each   *)
(* with a time of its own, young enough to be news.  A record belongs to   *)
(* one person.  Reading one and storing its rows is a step, and so is each *)
(* thing the rows wake and the link after them; a session's verdict is     *)
(* one.  One run at a time: it has sixty seconds and the lock ninety.      *)
(***************************************************************************)
EXTENDS Integers, Sequences, FiniteSets, FiniteSetsExt

CONSTANTS
    Records,   \* CRM records, each of one person
    Known,     \* those whose person was here and linked when the story begins
    KindsOf,   \* KindsOf[r]: what may happen on r at the CRM
    Events,    \* which faults the instance lets happen, each once
    Reach,     \* how many events ten pages of the feed hold
    Room,      \* how many entries the saved queue holds
    MaxEvents, \* how much happens at the CRM
    MaxFaults

Kinds == {"note", "ours", "lost", "reopened", "moved"}

ASSUME CrmAssumption ==
    /\ Known \subseteq Records
    /\ KindsOf \in [Records -> SUBSET Kinds]
    /\ Reach \in Nat \ {0} /\ Room \in Nat /\ MaxEvents \in Nat /\ MaxFaults \in Nat

VARIABLES
    feed,     \* the CRM's own history: what happened, to which record
    here,     \* records whose person we have
    sync,     \* the connection: cursor, pending, locked, limited, polled
    link,     \* link[r]: status, and whether its snapshot says lost
    checked,  \* records whose person was looked up
    stored,   \* the events kept as rows
    bucket,   \* records whose lost reason a session has read
    asleep,   \* records whose person's campaigns sleep as lost
    learned,  \* whether the connection's map names the actor of our notes
    run,      \* the run of crmTick
    job,      \* the record in its hands
    asked,    \* records whose lost reason a session is reading
    notes,    \* notes of ours written, whose actor has still to be learned
    \* History, read by no action of the code.
    heard,    \* events stamped on their person as news
    spoilt,   \* spoilt[r]: what went wrong with r
    unnamed,  \* notes of ours there were while a run knew no actor of ours
    faults    \* which have happened

crm   == <<feed, here>>
docs  == <<sync, link, checked, stored, bucket, asleep, learned>>
work  == <<run, job, asked, notes>>
hist  == <<heard, spoilt, unnamed, faults>>
vars  == <<crm, docs, work, hist>>

Parts == {"full", "record", "notes"}
NoRun == [phase |-> "off", due |-> FALSE, ours |-> FALSE, newest |-> 0, rows |-> {}, pend |-> {}, left |-> {},
          cut |-> {}]
NoJob == [rec |-> "none", fresh |-> {}, step |-> "none", status |-> "none", lost |-> FALSE]

Init ==
    /\ feed = <<>> /\ here = Known /\ checked = Known
    /\ sync = [cursor |-> 0, pending |-> {}, locked |-> FALSE, limited |-> FALSE, polled |-> FALSE]
    /\ link = [r \in Records |-> [status |-> IF r \in Known THEN "linked" ELSE "none", lost |-> FALSE]]
    /\ stored = {} /\ bucket = {} /\ asleep = {} /\ learned = FALSE
    /\ run = NoRun /\ job = NoJob /\ asked = {} /\ notes = {}
    /\ heard = {} /\ spoilt = [r \in Records |-> {}] /\ unnamed = {} /\ faults = {}

Fault(name) ==
    /\ name \in Events \ faults /\ Cardinality(faults) < MaxFaults
    /\ faults' = faults \cup {name}

Spoil(r, how) == spoilt' = [spoilt EXCEPT ![r] = @ \cup {how}]

-----------------------------------------------------------------------------
(* The CRM.                                                                *)

Rec(n)  == feed[n].rec
Kind(n) == feed[n].kind
Of(r)   == {n \in DOMAIN feed : Rec(n) = r}

\* What the record says when it is read: lost, unless reopened since; in one
\* of the projects the map names, unless moved away.
LostNow(r) ==
    LET told == {n \in Of(r) : Kind(n) \in {"lost", "reopened"}}
    IN  told # {} /\ Kind(Max(told)) = "lost"
Away(r) == Cardinality({n \in Of(r) : Kind(n) = "moved"}) % 2 = 1

Happens(r, k) ==
    /\ Len(feed) < MaxEvents /\ k \in KindsOf[r] \ {"ours"}
    /\ k = "lost" => ~LostNow(r)
    /\ k = "reopened" => LostNow(r)
    /\ feed' = Append(feed, [rec |-> r, kind |-> k])
    /\ IF k = "moved" THEN Spoil(r, "moved") ELSE UNCHANGED spoilt
    /\ UNCHANGED <<here, docs, work, heard, unnamed, faults>>

\* A person arrives by the form the CRM also listens to.
Arrives(r) ==
    /\ r \notin here
    /\ here' = here \cup {r}
    /\ UNCHANGED <<feed, docs, work, hist>>

-----------------------------------------------------------------------------
(* crmTick: the lock, the cursor and the queue of the last run.            *)

Ours == {n \in DOMAIN feed : Kind(n) = "ours"}

\* The lock, and the map as the connection has it then.
Opens ==
    /\ run.phase = "off" /\ ~sync.locked
    /\ sync' = [sync EXCEPT !.locked = TRUE]
    /\ unnamed' = IF learned THEN unnamed ELSE unnamed \cup Ours
    /\ UNCHANGED <<crm, link, checked, stored, bucket, asleep, learned, job, asked, notes, heard, spoilt>>

\* Every thirty minutes: the feed is read when the last poll is ten minutes
\* old.  One with nothing to do does nothing.
Begin ==
    /\ Opens /\ ~sync.limited
    /\ ~sync.polled \/ sync.pending # {} \/ here \ checked # {}
    /\ LET due == ~sync.polled
       IN  run' = [NoRun EXCEPT !.due = due, !.ours = learned, !.newest = sync.cursor, !.pend = sync.pending,
                                !.phase = IF due THEN "feed" ELSE IF sync.pending # {} THEN "work" ELSE "people",
                                !.left = IF due THEN {} ELSE {e[1] : e \in sync.pending}]
    /\ UNCHANGED faults

\* syncPersonFromCrm: somebody has one person read now.
BeginByHand(r) ==
    /\ Opens /\ r \in here /\ Fault("hand")
    /\ run' = [NoRun EXCEPT !.phase = "hand", !.ours = learned, !.left = {r}]

\* Written by the actor of our notes, as far as this run knows.
WrittenByUs(n) == run.ours /\ Kind(n) = "ours"
Passed(n)      == WrittenByUs(n)

\* A row of its own, unless the event only announces a note read whole.
RowOf(n)    == Kind(n) \notin {"note", "ours"}
PartsFor(n) == IF RowOf(n) THEN {"record"} ELSE {"notes"}

Least(a, b) == IF a < b THEN a ELSE b

\* What lies behind `from', as far as ten pages reach; the newest of them is
\* where the next poll begins, and what was passed over before is cut.
ReadFrom(from) ==
    LET got  == {n \in DOMAIN feed : from < n /\ n <= from + Reach}
        new  == {n \in got : link[Rec(n)].status # "elsewhere" /\ ~Passed(n)}
        tied == {n \in new : link[Rec(n)].status = "linked"}
        pend == run.pend \cup {<<Rec(n), "full">> : n \in new \ tied}
                         \cup UNION {{Rec(n)} \X PartsFor(n) : n \in tied}
    IN  run' = [run EXCEPT !.phase = "rows", !.newest = Least(from + Reach, Len(feed)), !.pend = pend,
                           !.rows = {n \in tied : RowOf(n)},
                           !.cut = {Rec(n) : n \in {k \in DOMAIN feed : sync.cursor < k /\ k <= from}}]

\* The CRM's pages begin with the oldest change, or with the latest.
ReadFeed ==
    /\ run.phase = "feed"
    /\ \E from \in {sync.cursor, Len(feed) - Reach} : from >= sync.cursor /\ ReadFrom(from)
    /\ UNCHANGED <<crm, docs, job, asked, notes, hist>>

\* Variant: ours are passed over in the feed only.
StoreEverything(r, rows, status, lost) ==
    /\ stored' = stored \cup rows
    /\ job' = [rec |-> r, fresh |-> rows \ stored, step |-> "wake", status |-> status, lost |-> lost]

\* storeActivity: our own writes dropped, the rest upserted by fingerprint;
\* the rows seen for the first time are what the next steps act on.
Store(r, rows, status, lost) ==
    LET kept == {n \in rows : ~WrittenByUs(n)}
    IN  /\ stored' = stored \cup kept
        /\ job' = [rec |-> r, fresh |-> kept \ stored, step |-> "wake", status |-> status, lost |-> lost]

KeepRows(r) ==
    /\ run.phase = "rows" /\ job = NoJob
    /\ \E rows \in {run.rows \cap Of(r)} :
        /\ rows # {}
        /\ Store(r, rows, link[r].status, link[r].lost)
        /\ run' = [run EXCEPT !.rows = @ \ rows]
    /\ UNCHANGED <<crm, sync, link, checked, bucket, asleep, learned, asked, notes, hist>>

FeedKept ==
    /\ run.phase = "rows" /\ job = NoJob /\ run.rows = {}
    /\ run' = [run EXCEPT !.phase = "work", !.left = {e[1] : e \in run.pend}]
    /\ UNCHANGED <<crm, docs, job, asked, notes, hist>>

-----------------------------------------------------------------------------
(* Working the queue off.                                                  *)

PartsOf(r)  == {p \in Parts : <<r, p>> \in run.pend}
Unqueued(r) == {e \in run.pend : e[1] # r}

\* A record of somebody else, or one just looked at that is nobody's.
NotOurs(r) == link[r].status \in {"elsewhere", "unmatched"}

SkipRecord(r) ==
    /\ run.phase = "work" /\ job = NoJob /\ r \in run.left /\ NotOurs(r)
    /\ run' = [run EXCEPT !.left = @ \ {r}, !.pend = Unqueued(r)]
    /\ UNCHANGED <<crm, docs, job, asked, notes, hist>>

\* The record says it is of another project, or nobody of ours: the link says
\* so and nothing is stored.
Leave(r, status) ==
    /\ link' = [link EXCEPT ![r] = [status |-> status, lost |-> LostNow(r)]]
    /\ UNCHANGED <<stored, job>>

\* syncRecord: the record, its events, its notes, its meetings.
ReadWhole(r) ==
    \/ Away(r) /\ Leave(r, "elsewhere")
    \/ ~Away(r) /\ r \notin here /\ Leave(r, "unmatched")
    \/ ~Away(r) /\ r \in here /\ Store(r, Of(r), "linked", LostNow(r)) /\ UNCHANGED link

\* refreshParts: only what an event left stale.
Refresh(r, parts) ==
    \/ "record" \in parts /\ Away(r) /\ Leave(r, "elsewhere")
    \/ /\ ~("record" \in parts /\ Away(r))
       /\ Store(r, IF "notes" \in parts THEN {n \in Of(r) : ~RowOf(n)} ELSE {}, link[r].status,
                IF "record" \in parts THEN LostNow(r) ELSE link[r].lost)
       /\ UNCHANGED link

WorkRecord(r) ==
    /\ run.phase = "work" /\ job = NoJob /\ r \in run.left /\ ~NotOurs(r)
    /\ run' = [run EXCEPT !.left = @ \ {r}, !.pend = Unqueued(r)]
    /\ IF "full" \in PartsOf(r) \/ link[r].status # "linked" THEN ReadWhole(r) ELSE Refresh(r, PartsOf(r))
    /\ UNCHANGED <<crm, sync, checked, bucket, asleep, learned, asked, notes, hist>>

\* Variant: judged by the row the news is judged by.
ReopenedLast(fresh) == fresh # {} /\ Kind(Max(fresh)) = "reopened"
\* liftLost: any of the rows seen for the first time.
Reopened(fresh) == \E n \in fresh : Kind(n) = "reopened"

\* recordNews: the latest of those rows is stamped as news.
Wake ==
    /\ job.step = "wake"
    /\ heard' = heard \cup (IF job.fresh = {} THEN {} ELSE {Max(job.fresh)})
    /\ job' = [job EXCEPT !.step = IF Reopened(job.fresh) THEN "lift" ELSE "settle"]
    /\ UNCHANGED <<crm, docs, run, asked, notes, spoilt, unnamed, faults>>

\* A reopened lead's sleep is lifted, and then its lost reason forgotten.
Lift ==
    /\ job.step = "lift"
    /\ asleep' = asleep \ {job.rec}
    /\ job' = [job EXCEPT !.step = "forget"]
    /\ UNCHANGED <<crm, sync, link, checked, stored, bucket, learned, run, asked, notes, hist>>

Forget ==
    /\ job.step = "forget"
    /\ bucket' = bucket \ {job.rec}
    /\ job' = [job EXCEPT !.step = "settle"]
    /\ UNCHANGED <<crm, sync, link, checked, stored, asleep, learned, run, asked, notes, hist>>

\* The link and its snapshot, after the rows; a person looked up is marked.
Settle ==
    /\ job.step = "settle"
    /\ link' = [link EXCEPT ![job.rec] = [status |-> job.status, lost |-> job.lost]]
    /\ checked' = IF run.phase \in {"people", "hand"} THEN checked \cup {job.rec} ELSE checked
    /\ job' = NoJob
    /\ UNCHANGED <<crm, sync, stored, bucket, asleep, learned, run, asked, notes, hist>>

\* One record the CRM cannot answer for does not hold up those behind it.
Marked(r) == [link[r] EXCEPT !.status = IF @ = "none" THEN "unmatched" ELSE @]

RecordFails(r) ==
    /\ run.phase = "work" /\ job = NoJob /\ r \in run.left /\ ~NotOurs(r)
    /\ Fault("error") /\ Spoil(r, "error")
    /\ run' = [run EXCEPT !.left = @ \ {r}, !.pend = Unqueued(r)]
    /\ link' = [link EXCEPT ![r] = Marked(r)]
    /\ UNCHANGED <<crm, sync, checked, stored, bucket, asleep, learned, job, asked, notes, heard, unnamed>>

\* What is left is left for the next run, there being no room for it in this.
OutOfTime(rest) == IF rest = {} THEN UNCHANGED faults ELSE Fault("time")

\* Variant: the queue is the run's own.
SavedCursor(pend) == [sync EXCEPT !.cursor = IF run.due THEN run.newest ELSE @]
\* Cursor and queue are saved at the end, together.
Saved(pend) == [sync EXCEPT !.cursor = IF run.due THEN run.newest ELSE @, !.pending = pend]

\* As many entries as the queue has room for.
Fitting == {q \in SUBSET run.pend : Cardinality(q) = Least(Cardinality(run.pend), Room)}

\* What was cut from the feed, or from the queue, the cursor leaves behind.
CutOff(pend) == run.cut \cup {e[1] : e \in run.pend \ pend}

Save ==
    /\ run.phase = "work" /\ job = NoJob
    /\ OutOfTime(run.left)
    /\ \E pend \in Fitting :
         /\ sync' = Saved(pend)
         /\ spoilt' = [r \in Records |-> spoilt[r] \cup (IF r \in CutOff(pend) THEN {"cut"} ELSE {})]
    /\ run' = [NoRun EXCEPT !.phase = "people", !.due = run.due, !.ours = run.ours]
    /\ UNCHANGED <<crm, link, checked, stored, bucket, asleep, learned, job, asked, notes, heard, unnamed>>

-----------------------------------------------------------------------------
(* checkUnchecked, and the end of a run.                                   *)

\* syncPerson: the record found by the person's address is read whole.
CheckPerson(r) ==
    /\ run.phase = "people" /\ job = NoJob /\ r \in here \ checked
    /\ ReadWhole(r)
    /\ checked' = IF Away(r) THEN checked \cup {r} ELSE checked
    /\ UNCHANGED <<crm, sync, bucket, asleep, learned, run, asked, notes, hist>>

ReadByHand(r) ==
    /\ run.phase = "hand" /\ job = NoJob /\ r \in run.left
    /\ run' = [run EXCEPT !.left = {}]
    /\ ReadWhole(r)
    /\ checked' = IF Away(r) THEN checked \cup {r} ELSE checked
    /\ UNCHANGED <<crm, sync, bucket, asleep, learned, asked, notes, hist>>

\* Marked checked with the reason, and not asked again.
CheckFails(r) ==
    /\ run.phase = "people" /\ job = NoJob /\ r \in here \ checked
    /\ Fault("error") /\ Spoil(r, "error")
    /\ checked' = checked \cup {r}
    /\ UNCHANGED <<crm, sync, link, stored, bucket, asleep, learned, work, heard, unnamed>>

\* The poll counts once its events are saved, and is written down with the
\* unlocking.
Unlocked == [sync EXCEPT !.locked = FALSE]
Closed   == [Unlocked EXCEPT !.polled = @ \/ (run.due /\ run.phase = "people")]

End ==
    /\ run.phase = "people" /\ job = NoJob
    /\ OutOfTime(here \ checked)
    /\ run' = NoRun /\ sync' = Closed
    /\ UNCHANGED <<crm, link, checked, stored, bucket, asleep, learned, job, asked, notes, heard, spoilt, unnamed>>

\* Whether the CRM answered or not.
EndByHand ==
    /\ run.phase = "hand" /\ job = NoJob
    /\ run' = NoRun /\ sync' = Unlocked
    /\ UNCHANGED <<crm, link, checked, stored, bucket, asleep, learned, job, asked, notes, hist>>

\* RateLimited at any call: thrown past the save, left alone for five minutes.
RateLimited ==
    /\ run.phase \in {"feed", "work", "people"} /\ job = NoJob
    /\ Fault("limit")
    /\ run' = NoRun /\ sync' = [Closed EXCEPT !.limited = TRUE]
    /\ UNCHANGED <<crm, link, checked, stored, bucket, asleep, learned, job, asked, notes, heard, spoilt, unnamed>>

\* The platform stops the run: its lock is left to lapse.
RunDies ==
    /\ run.phase # "off" /\ Fault("die")
    /\ run' = NoRun /\ job' = NoJob
    /\ IF job.step \in {"wake", "lift"} /\ Reopened(job.fresh) THEN Spoil(job.rec, "torn") ELSE UNCHANGED spoilt
    /\ UNCHANGED <<crm, docs, asked, notes, heard, unnamed>>

Timers(s) == UNCHANGED <<crm, link, checked, stored, bucket, asleep, learned, work, hist>> /\ sync' = s
LockLapses == sync.locked /\ run.phase = "off" /\ Timers(Unlocked)
LimitEnds  == sync.limited /\ Timers([sync EXCEPT !.limited = FALSE])
PollAges   == sync.polled /\ run.phase = "off" /\ Timers([sync EXCEPT !.polled = FALSE])

\* An unmatched record is worth another look after a day.
DayPasses(r) ==
    /\ link[r].status = "unmatched" /\ run.phase = "off"
    /\ link' = [link EXCEPT ![r].status = "none"]
    /\ UNCHANGED <<crm, sync, checked, stored, bucket, asleep, learned, work, hist>>

-----------------------------------------------------------------------------
(* crmLost: the leads whose reason nobody has read, and what is decided.   *)

\* lostNeedingBucket, handed to a session with its work.
Ask(r) ==
    /\ link[r].status = "linked" /\ link[r].lost /\ r \notin bucket \cup asked
    /\ asked' = asked \cup {r}
    /\ UNCHANGED <<crm, docs, run, job, notes, hist>>

\* applyLostBucket: bought elsewhere, or said no, and the campaigns sleep;
\* nobody ever got through, and an older sleep is lifted.
ApplyBucket(r, sleeps) ==
    /\ r \in asked
    /\ asked' = asked \ {r}
    /\ bucket' = bucket \cup {r}
    /\ asleep' = IF sleeps THEN asleep \cup {r} ELSE asleep \ {r}
    /\ IF sleeps /\ ~LostNow(r) THEN Spoil(r, "late") ELSE UNCHANGED spoilt
    /\ UNCHANGED <<crm, sync, link, checked, stored, learned, run, job, notes, heard, unnamed, faults>>

-----------------------------------------------------------------------------
(* drainNotes: with what the reading left, our notes, past the lock.       *)

WriteNote(r) ==
    /\ Len(feed) < MaxEvents
    /\ "ours" \in KindsOf[r] /\ link[r].status = "linked"
    /\ feed' = Append(feed, [rec |-> r, kind |-> "ours"])
    /\ notes' = notes \cup {Len(feed')}
    /\ unnamed' = IF run.phase # "off" /\ ~run.ours THEN unnamed \cup {Len(feed')} ELSE unnamed
    /\ UNCHANGED <<here, docs, run, job, asked, heard, spoilt, faults>>

\* The CRM's answer names the actor it logged the note under.
LearnActor(n) ==
    /\ n \in notes
    /\ notes' = notes \ {n} /\ learned' = TRUE
    /\ UNCHANGED <<crm, sync, link, checked, stored, bucket, asleep, run, job, asked, hist>>

DrainDies(n) ==
    /\ n \in notes /\ Fault("die")
    /\ notes' = notes \ {n}
    /\ UNCHANGED <<crm, docs, run, job, asked, heard, spoilt, unnamed>>

Moves  == (\E r \in Records, k \in Kinds : Happens(r, k)) \/ (\E r \in Records : Arrives(r))
Reads  == Begin \/ ReadFeed \/ FeedKept \/ Wake \/ Lift \/ Forget \/ Settle \/ Save \/ End \/ EndByHand
          \/ \E r \in Records : KeepRows(r) \/ SkipRecord(r) \/ WorkRecord(r) \/ CheckPerson(r) \/ ReadByHand(r)
Breaks == RateLimited \/ RunDies \/ (\E n \in DOMAIN feed : DrainDies(n))
          \/ \E r \in Records : BeginByHand(r) \/ RecordFails(r) \/ CheckFails(r)
Ages   == LockLapses \/ LimitEnds \/ PollAges \/ \E r \in Records : DayPasses(r)
Sorts  == \E r \in Records : Ask(r) \/ \E sleeps \in BOOLEAN : ApplyBucket(r, sleeps)
Learns == \E n \in DOMAIN feed : LearnActor(n)
Writes == Learns \/ \E r \in Records : WriteNote(r)

Next == Moves \/ Reads \/ Breaks \/ Ages \/ Sorts \/ Writes
Spec == Init /\ [][Next]_vars

\* The cron begins a run every half hour; a run ends by itself or is stopped;
\* a lock, a limit and a poll only have to grow old.
Fairness == WF_vars(Reads) /\ WF_vars(LockLapses) /\ WF_vars(LimitEnds) /\ WF_vars(PollAges) /\ WF_vars(Learns)
FairSpec == Spec /\ Fairness

Queue == SUBSET (Records \X Parts)
Links == [status : {"none", "linked", "unmatched", "elsewhere"}, lost : BOOLEAN]

Sync  == [cursor : Nat, pending : Queue, locked : BOOLEAN, limited : BOOLEAN, polled : BOOLEAN]
Run   == [phase : {"off", "feed", "rows", "work", "people", "hand"}, due : BOOLEAN, ours : BOOLEAN, newest : Nat,
          rows : SUBSET DOMAIN feed, pend : Queue, left : SUBSET Records, cut : SUBSET Records]
Job   == [rec : Records, fresh : SUBSET DOMAIN feed, step : {"wake", "lift", "forget", "settle"},
          status : {"none", "linked", "unmatched", "elsewhere"}, lost : BOOLEAN]

TypeOK ==
    /\ feed \in Seq([rec : Records, kind : Kinds])
    /\ here \subseteq Records /\ checked \subseteq Records
    /\ bucket \subseteq Records /\ asleep \subseteq Records /\ asked \subseteq Records
    /\ sync \in Sync
    /\ link \in [Records -> Links]
    /\ learned \in BOOLEAN
    /\ run \in Run
    /\ job = NoJob \/ job \in Job
    /\ stored \subseteq DOMAIN feed /\ heard \subseteq DOMAIN feed /\ unnamed \subseteq DOMAIN feed
    /\ notes \subseteq DOMAIN feed
    /\ spoilt \in [Records -> SUBSET {"moved", "error", "late", "torn", "cut"}]
    /\ faults \subseteq Events

-----------------------------------------------------------------------------
(* Properties.                                                             *)

\* Something that happened to one of our people's records and is not kept,
\* though the CRM answered for the record, it was never moved, and neither a
\* change of it nor its place in the queue was cut off.
Awaited(n) ==
    /\ n \in DOMAIN feed \ stored
    /\ Rec(n) \in here /\ Kind(n) # "ours"
    /\ spoilt[Rec(n)] \cap {"error", "moved", "cut"} = {}

\* "What the feed names is queued and worked off over as many runs as it takes"
\* (sync.ts): the cursor and the queue move together and only at a run's end,
\* so that whatever a limit, the clock or a death cuts short is read again.  All
\* that happens to one of our people's records is kept in the end, unless the
\* CRM failed to answer for the record, it was moved to another project, or the
\* cursor went past a change that ten pages did not reach or an entry the saved
\* queue had no room for.
ChangesArrive == \A n \in 1..MaxEvents : []<>(~Awaited(n))

\* "A lead the CRM reopens is not lost any more, and a campaign sleeping out
\* the rest of ninety days would be this system watching for exactly this and
\* then ignoring it" (sync.ts): once the reopening is kept and acted on, the
\* person's campaigns sleep only if a session's verdict came after it, or the
\* run died between the row and the lift.
ReopenedWakes ==
    \A r \in asleep :
        job.rec # r /\ spoilt[r] \cap {"late", "torn"} = {}
            => \A n \in stored \cap Of(r) :
                   Kind(n) = "reopened" => \E m \in Of(r) : m > n /\ Kind(m) = "lost"

\* "A note saying we sent an email is not news about the lead, and treating it
\* as news re-plans the very message that wrote it" (sync.ts): a note of ours
\* is news only if it was there while a run was under way that had opened its
\* map before the CRM had named us, however runs and drains overlap and die.
OwnNotesAreNotNews == heard \cap Ours \subseteq unnamed
=============================================================================
