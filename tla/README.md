# Verification of the onboarding engine

TLA+ models of the user-onboarding engine, the TLC configurations that check
them on small instances, and proofs for every instance. Paths are relative to
the repository; `engine/` is `src/src/engine/`.

    tlc -config SendLive.cfg MCSendPath      # model-check one configuration
    tlapm SendPathProofs.tla                 # check the proofs of one module

The product enrols leads into campaigns, writes them messages step by step,
sends the messages through mail, WhatsApp, LinkedIn and other adapters, and
stops when the lead has done what the campaign is for. It runs on a serverless
platform: a cron calls `/api/cron/tick` every minute, a request lives at most
60 seconds, sessions of an agent call the MCP server at any time, people use a
console. Nothing but MongoDB is shared, there are no transactions, and every
process may be killed between any two of its calls.

## 1. Inventory

| component | state | operations | what is hard | correct when |
|---|---|---|---|---|
| **Send path** `engine/fireDue.ts`, `governor.ts` | actions (status, dueAt, claimedAt, reviewedAt, sentAt), spent touches, last contact; per run: headroom, contactedThisRun, the wave | pick up due rows, claim, check, defer / skip / park, send, record | ticks overlap; sends of one run are in flight together; a killed run; replies, opt-outs, reviews meanwhile | one holder per message; no send without a reason; review, gap, cap and budget hold; a stopped lead gets nothing; the queue drains |
| **Work queue** `engine/queue.ts` | work_queue (status, attempts, leaseUntil, dueAt) | enqueue, enqueueMany, claim, claimBatch, complete, fail, releaseAll, reapLeases | writes from an earlier read, by id only; attempts counted in several places | one worker per lease; one pending item per subject; no sixth worker; all work ends |
| **Dispatcher** `engine/dispatch.ts` | the lane document (deficits, cursor) | urgent first, favoured campaigns, deficit round robin | rotation over a list that changes; count, choose and grant are apart | the ceiling; no idle slot; tiers in order; nobody starves |
| **Ingestion** `engine/ingest.ts`, `runSource.ts`, `adapters/source/` | people, arrivals, goal instances, source cursors | read a source, insert, attach, look up, enrol, queue the first touch, store the cursor | death between phases; a batch that returns; returning leads | no lead lost behind the cursor, none enrolled or counted twice |
| **Goal verification** `engine/verify.ts`, `outcomes.ts` | checkResults, status, lifecycle, outcome of messages, template counters | verifyCampaign, resolve_check, mark_state, stampGoalOutcome, creditTemplatesOf | a copy written back after slow probes; several doors to an ending | a success rests on evidence; counted once; settled facts stay; wins are noticed |
| **Suppression** `engine/suppression.ts`, `unsubscribe.ts` | suppression list, lifecycle, campaigns, queue | opt-out, bounce, suppress by hand | four writes against running sends and verifications | nothing is sent afterwards, the mark stays |
| **Replies** `engine/inbound.ts`, `campaignRules.ts`, `replyIntents.ts` | inbound messages, lastReplyAt, rules fired | poll a mailbox, store once, classify, pause | one reply seen by two polls; rules that answer | a reply pauses once and is answered once |
| **Console** `app/actions.ts` | reviewedAt and the rows above | decide, edit, reschedule, put back, pause, suppress | a person and a run change one row | a decision is never undone by the engine |
| **MCP server** `src/src/mcp/server/` | none of its own | next_work, finish_work, resolve_check, mark_state, planning tools | long-lived sessions against ticks | sessions cannot undo each other |
| **Step engine** `engine/advance.ts`, `detect.ts`, `rolling.ts` | checkpoint of the campaign, planned steps | advance, plan, promote | stale plan versions; a step asked for twice | one next step per campaign |
| **Delivery reports** `engine/reconcile.ts`, `sesEvents.ts` | dispatched rows | confirm, fail late, refund | overlapping ticks; a limit without an order | one refund per failed send; all are resolved |
| **Channel health** `engine/channelHealth.ts`, `channels.ts` | channel status, held rows | take down, hold, release, assign | health read against a manual pause | a held row returns once |
| **CRM** `engine/crm/` | sync lock and cursor, lost buckets, notes | pull, map, write back | a lock of a dead run; a note written twice | no update lost, no note twice |
| **Booking** `engine/booking.ts` | bookings, calendar | free/busy, book | two visitors, one slot | one booking per slot |
| **Access** `src/src/auth/`, `mcp/oauth.ts` | tokens | issue, rotate, revoke | two refreshes at once | one successor per refresh token |
| **Tick** `app/api/cron/tick/route.ts` | rotation over products | calls all of the above in order | one failing step, the time limit | every step gets its turn |
| Temperature, engagement, tracking | counters | record, score | — | arithmetic |
| Rendering, brand, assets, notifications, run log, pages, scripts | — | formatting, logging | — | not state the engine decides by |

The components meet in the database. Ingestion writes campaigns and first
touches; the step engine and the sessions write further messages; the send path
reads them and writes what was spent and when the person was last contacted;
verification and suppression end a campaign and skip what is queued; the queue
carries everything that needs thinking to sessions and back; the dispatcher
decides what of it may be claimed. Reply handling pauses what the step engine
wrote and the send path has in hand; channel health and the delivery reports
correct what the send path wrote; the CRM's news makes plans stale and puts
campaigns to sleep. `PROJECT.json` lists every component with
what is modelled of it and every hazard at its line.

## 2. Modules

Every Mongo call that changes or decides something is one atomic step; between
two calls of a process anything else may happen. Time is reduced to what the
code compares (due or not, stale or not, inside a window or not), with actions
for its passing. Variables marked *history* record what happened for the
properties and are read by no action of the code. Definitions headed *Variant*
are slips of the code, unused by the specifications; the mutants put them in the
place of the definitions they vary, to show that a property notices.

| module | models | bounds of the model (not of the code) |
|---|---|---|
| `SendPath` | `fireDue` and everybody who writes the same rows | `MaxFaults` crashes, failed writes, lost answers and busy providers |
| `Desk` | `SendPath` with what a message says: a person edits, redates or has rewritten what a run may have in hand | `MaxEdits` calls of the desk, `MaxFaults` |
| `Outbox` | what the send path promises about a message, abstractly | none |
| `Steps` | one campaign's next message: `advance`, the rolling checkpoint, plans, `compose_batch`, news | `MaxPlans`, `MaxFaults` |
| `Replies` | mailbox polls and chat webhooks, and what is done about what they bring | `MaxFaults`; `Calls` at once |
| `Delivery` | a channel taken down and reconnected, campaigns paused and resumed, late delivery reports | `MaxFaults`, each fault once |
| `Crm` | `crmTick`: lock, feed, queue, people; lost verdicts; our own notes | `MaxEvents` at the CRM; `MaxFaults`, each once |
| `WorkQueue` | `queue.ts` with its callers, and the two steps of the dispatcher | `MaxFaults`; `MaxClaims` claims of one job |
| `DispatchLane` | one lane's tick of `dispatch.ts`, its arithmetic in full | `MaxTicks`, `MaxWaiting` |
| `Intake` | `runSource` and `ingest` for sources under one goal | `MaxFaults`; `MaxPolls` of sources without a cursor |
| `Verdict` | `verifyCampaign`, the sessions' verdicts, the credit of an ending | `MaxFaults`, `MaxVerdicts` |
| `MC...` | the instances | |
| `...Proofs` | theorems; `SendPathProofs` has those of `Outbox` and `Desk` too, `WorkQueueProofs` those of `DispatchLane` | none |

**SendPath.** A message is a row with a `status`; `due`, `reviewed`, `stale`
stand for dueAt, reviewedAt and an old claimedAt. A run carries `at` (its
position with each row of its batch), `seen` (which rows its snapshot had
reviewed), `room` (headroom, read once), `contacted` and `wave`. `Start` is the
two finds behind `dueFilter`; `Claim` the conditional update; `Look`
reads person, goal instance and channel (`Turned`: what it read is a reason to
skip), `Pass` is the last check, of suppression list, window and gap; `Skip`,
`Defer`, `Broken`, `Invalid`, `Park`, `WindowFull`, `NoAdapter`, `Unsendable` are
the exits of the loop body in its order. `Launch`, several awaits after `Pass`,
starts `dispatch`, whose provider call and writes are `Accept`, `Retry`, `Refuse`,
`AcceptUnheard`, `Record`, `Spend`, `Contact`, with `WriteThrows` for a write of
those that fails. A reply, an opt-out or a win may land between any two of these;
the history notes what was past the check of just that (`flying`). Up to
`Concurrency` sends are in flight until `Flush`. `Crash` forgets the run.
Reviewers (`Approve`, `Reject`, `ReturnToReview`), the lead (`Reply`,
`Unsubscribe`), the operator (`SuppressPerson`, `Pause`, `Resume`) and
verification (`Verified`) act between any two steps. A person stands for a lead
in one campaign, all messages share one channel. Reasons to wait or refuse that
rest on other data (quiet hours, spacing, missing address) are the events
`clock` and `verdict`: the exit may be taken, its data is left out. A provider that
asks to try again (`Busy`) is a fault, so that it does not ask for ever.

**Outbox.** The promise of the send path without its means: a message lies in
the box, in one hand, was found open, then clear to go, is launched, given to the
provider, or known to be given. What is `closed` is not found open, who is
`barred` is not found clear, and what is launched is reviewed if it must be.
`SendPath.ImplementsOutbox` is the refinement: `StageOf` computes the stage from
the place of the runs and the row's status, `closed` is a campaign that is over or
answered, `barred` a lead on the suppression list, `accepted` counts deliveries
and `blind` those the database missed.

**Desk.** Extends `SendPath` by the content of a message: `words` (slotText), `body`
(bodyMd, the rendered half) and `held`, the content in a run's snapshot. `Open` is
the read of `editableAction`; `EditMessage`, `RescheduleMessage`,
`RegenerateMessage` the write by id alone, whatever happened in between; a rewrite
withdraws the review, and words of one's own are one. A run's
steps are those of `SendPath`; `DeskStart` takes the snapshot, `DeskPark`,
`DeskRetry` and `DeskRecord` write it back (`WriteBack`), `DeskAccept` sends what
`Said` says: the stored rendering of what was reviewed, a fresh one of the rest.
*History*: the writing saved last, the writing that went, which changes landed
while a run had the message (`overtaken`) or after it was sent (`crossed`), and what went
that nobody had decided on (`unsigned`).

**Steps.** The rows of one campaign, its plans in the order written, the age of
the last ask and the open work items. A pass reads (`Begin`), decides (`Look`,
with `Choice` and `Checkpoint` the branches of `advance.ts` and `rolling.ts`) and
writes in the order of `Phases`: take back what news made stale, insert, hand to a
session, ask for a plan, stamp the ask. `Classify`, `StampPlaybook`, `Number`,
`PlanGoal` are the writers of plans: each inserts, then points the campaign at the
plan, then releases the replaced rows (`ReleaseStamped` the queued ones,
`ReleaseReplaced` those in review too). `Park`, `Approve`, `Refuse` are the review
gate and a provider that rejects a template; `CheckStep` and `Compose`
the writer of words, `Take`, `FinishWork`, `GiveUp` a session's handling of its
item. Moments are counted in plans, because plan times are all the code compares.

**Replies.** `List`, `Fetch`, `Stamp` are `pollReplies`, with a window that reaches
back `Overlap` ticks; `Post` a provider's webhook call, repeated until recorded.
What is done about a message is the `Script` of its kind, one write a step: an
opt-out (`ListAddress`, `MarkPerson`, `EndCampaign`, `DropQueued`), an away
message (`Hold`, `DeferQueued`), an answer (`Pause`, `Sweep`, then `AskSession`,
or for one word `Answer` and `Settle`). `WriteRow`, `Claim`, `Skip`, `Defer`,
`Clear`, `Send` are the send path as far as it asks about replies: what lands
between the last check and the send comes too late.

**Delivery.** A send claims, reads its channel and calls; a dead account refuses,
and the channel is taken down in the four writes of `takeChannelDown`
(`degrade`, `explain`, `sweep`, its own row). The health refresh and the poll judge
the account beside it, a person reconnects (`Connects`) and pauses or resumes
campaigns (`Switches`), each write a step. `List` and `Reconciles` ask a provider
that queues what became of its messages, and refund a lost one; the `Checks` are the
ticks that may do so at once.

**Crm.** A record is its events in the order of the feed. `Begin` takes the lock for
the tick and `BeginByHand` for one person (`ReadByHand`, `EndByHand`); `ReadFeed`
reads from the cursor as far as ten pages go (`Reach`), `KeepRows` stores, `WorkRecord` (with `ReadWhole`,
`Refresh`) works the queue off, `Wake`, `Lift`, `Forget` and `Settle` are what
follows the stored rows, `Save` moves cursor and queue together and keeps as much of
the queue as has `Room`, `CheckPerson` looks up new people,
`End` unlocks. `Ask` and `ApplyBucket` are a session's reading of lost leads,
`WriteNote` and `LearnActor` our own notes, written while a run is under way or not.

**WorkQueue.** A job's lease is live or over. `Ask`/`Insert` are the find and
the insert of `enqueue`; `Claim`, `Retire`, `HandOut`, `Complete`, `Close`,
`Throw`, `Fail` a worker of engine jobs; `BatchRead`, `BatchTake`, `Hand`,
`GiveBack`, `Finish`, `Groomed` a session; `ReapRead`/`ReapWrite` the reaper;
`Count`, `Choose`, `Leave`, `Grant` the dispatcher. A CRM note that the reaper calls
ready is `Stranded`. `Write` is an update that matches the
id alone: where it ends somebody else's lease or revives a finished job, the
history says so (`meddled`, `revived`), because the code lets it happen and the
guarantees are stated up to it. Which due job is claimed first is left open;
so is which jobs a tick grants, which is `DispatchLane`'s subject.

**DispatchLane.** A campaign is a count of waiting items. A tick goes through its
phases: `CountAndServeUrgent`, `ServeFavoured` item by item (in any way oldest-first
could), `BeginRounds` or `ReturnEarly`, then a step for each campaign's turn in each
round (`Help`, `DropCredit`, or `Bank` when the budget is gone), `Again` or the end,
`WriteState`, where `Advance` moves the cursor. `Turn` is a campaign's place in the
list, sorted by key and rotated. `Arrive`, `Promote`, `FinishReady` are everybody
else, and come between two ticks only: what comes in during one is in `WorkQueue`.

**Intake.** A row is one submission, a lead the dedupe key it maps to. One run
goes through `Read` (pages newest first, suppression list, known people),
`Insert`, `Attach`, `Lookup`, `RecordMet`, `Enrol`, `Welcome` (or `NoChannel`),
`Finish`; each is one bulk read or write of `ingest`, and `Die` strikes between
any two. `Fetched` and `NextMark` are the high-water mark of
`adapters/source/mcp.ts`. An endpoint may list a row twice in one response (`Twice`,
`Copies`): a new person gets both, one who is there already none twice. Parsing, mailbox assignment, consent and the stamped
plan are left out: no step reads them.

**Verdict.** A call copies the campaign (`Begin`), walks its checks (`PassOver`,
`Ask`, `AskInVain`), and writes (`Conclude`, `Save`). `Resolve`, `Mark` and `End`
are a session's tools, and a verdict may land at any point of a call, also to be
overwritten by the copy it read (`crossed`); `Drop`, `FindSent`, `Stamp`, `CountWin`, `Counted`,
`CreditTemplates`, `Cool`
follow an ending whoever decided it; `Leave` is the opt-out in its three writes.
A probe passes only for what the lead did.

The modules are separate because their documents are: they share the few fields
in which one component reads another's result, and each models the other side of
such a field as the actions that can change it (`SendPath.Verified` is
`Verdict.Conclude` followed by `Drop`; `Verdict.Send`, `Steps.Claim` and
`Steps.Deliver`, and `Replies.Claim` to `Send` are the parts of a run of
`SendPath` that touch the other component; `WorkQueue.Choose` allows every choice
a tick of `DispatchLane` makes; `Steps.Reply` is `Replies.Pause` with `Sweep`,
`Steps.News` is what `Crm.Wake` records).

## 3. Runs

Deadlock is not checked: every system here may rest when there is nothing to do
(no row due, no job pending, no lead new), or when a bound is used up.

| run | instance | shows |
|---|---|---|
| `send_overlap` | 2 messages of 1 lead, one of them a gated answer, 2 runs, reviewers, opt-outs, 1 fault | **OneHolder**, **AtMostOnce** with overlapping runs; **ImplementsOutbox** |
| `send_live` | 1 lead, a gated message and an answer, 2 in flight, cap 1, every ending, pauses, 1 fault, fair | **StoppedStaysStopped**, **CapHolds**, **QueueDrains** |
| `desk` | 2 messages of 1 lead, one of them gated and open at the desk, 2 desk calls, 1 run, 2 in flight, budget 1, 1 fault | **NothingUnread**, **OnePerGap**, **BudgetHolds**, **ChangesGoOut**, **RecordTrue** |
| `steps` | a standard, a rolling or a gated campaign without fallbacks, 2 touches, 2 plans, 1 pass, 1 session, 1 fault, fair | **FallbackPerAsk**, **NeverSilent**, **ApprovedStands** |
| `replies` | a mail and a chat message of 4 kinds, 1 campaign message, 2 calls, 1 fault, fair | **OptOutHolds**, **NotOverTheirWords**, **EveryWordHeard** |
| `delivery` | 2 campaigns, 2 messages on an account and one that queues, 2 reconciliations, 2 faults, fair | **HeldMeansDown**, **PauseHolds**, **TouchesMatch**, **GoesOrIsHeld** |
| `crm` | a linked lead and one who arrives, 3 events, 1 fault, runs by hand, fair | **OwnNotesAreNotNews**, **ReopenedWakes**, **ChangesArrive** |
| `queue_shared` | 3 decisions about one subject, 2 askers, 2 sessions, reaper, dispatcher | **OneWorker**, **PendingBounded**, **CeilingHolds** |
| `queue_live` | an import chunk, a decision and a CRM note, crashes, errors, work given back, fair | **WorkEnds** |
| `lane` | 4 campaigns, one favoured, 3 slots, 4 ticks | **WorkConserving**, **RotationServes** |
| `intake` | 3 submissions of 2 leads, a paged server and an endpoint that repeats a row, fair | **NoLeadLost**, **OneOpen**, **WonNotRerun**, **ArrivedOnce**, **EveryoneEnters** |
| `verdict` | a probe, an event and a human check, 2 messages, verdicts at any point of a call, fair | **ProvedWin**, **CountedOnce**, **OutcomeAgrees**, **SettledStays**, **WinSeen** |

Why the bounds are enough to be interesting:

- *Send path.* Two runs are what a lease needs to go wrong, one fault loses,
  reclaims or misreads a message. Gap, cap and budget need two messages of one
  lead, and two sends in flight for a value read before and used after the
  other's write. `send_live` has cap 1, so that the second send is one too many
  for the window; `desk` has cap 2, so that the gap can be broken inside one wave
  (with cap 1 the window would hide it), and budget 1, so that the second send is
  one too many for the campaign. The refinement and the safety of these runs are
  proved for every bound.
- *Desk.* Two calls are an edit and a new date, a rewrite asked for and words of
  one's own, or twice the same; each may straddle the claim, the gate or the send
  of one run, its crash and the reclaim. One message at the desk is enough: the
  calls name one row.
- *Steps.* Two plans are one replaced and one replacing, two touches one written
  before and one after it; one fault may be a crash, a session that gives up, news,
  a message passed over, a refused template or a reply, each at any moment, for each
  of the campaigns.
- *Replies.* Two calls are two polls that overlap, a webhook called twice, or one of
  each; an overlap of one tick and mail that ages past it make the window bind;
  two messages can be read in the wrong order, and two calls can hear one opt-out.
- *Delivery.* Two messages on one account make a take-down cross another send, two
  campaigns tell a resumed one from a paused one; two faults are a session that
  ends and whatever happens while it is down. Two reconciliations are two ticks that
  overlap.
- *CRM.* Three events are lost, reopened and one more in between, or moved away
  and back; a record that is known and one whose person arrives later are the two
  ways into the queue. Reach and room for two changes each let a third be cut off.
- *Queue.* Two sessions and a reaper meet on one lease; three jobs of one subject
  under two askers let two asks cross and a third come late, and make the ceiling bind.
- *Lane.* With three unfavoured campaigns and three slots the cursor wraps and
  the list shrinks and grows. Twenty rounds exceed what these counts need; that they
  are enough for every ceiling of at most twenty quanta, which each of the code's is
  (dispatch.ts:29-72), is proved.
- *Intake.* A page of one row and two pages make the reach of a poll bind; a
  lead who returns makes the dedupe key and the earlier win matter.
- *Verdict.* One check of each kind; one fault lets a call die and be repeated; two
  verdicts are one and another that takes it back.

Overlap is checked where the code promises something under overlap. `OnePerGap`,
`CapHolds`, `BudgetHolds` and the properties of `Desk` are stated for one run of the send path at a time,
`CeilingHolds` for one dispatcher, `FallbackPerAsk` for one pass, the properties of
`Intake` but `NoLeadLost` for one run, those of `Delivery` for one run of the send
path, and `CountedOnce` and `OutcomeAgrees` for one call: the state behind them is
kept in one process's memory or checked by a find before an insert. Section 6 names
what overlap does there.

Symmetry is used for the identities of runs, workers and sessions, in runs
without liveness properties.

## 4. Fairness

The cron comes every minute and a live request gets to run, so steps of a run, a
call or a job are weakly fair. Strong fairness is assumed only where a step is
enabled again and again and something that goes on for ever could cross it:

- `WindowSlides` and `GapPasses` (send path): time passes although sends keep
  the step disabled for moments.
- `Claim`, `BatchRead`, `Hand`, `Finish`, `Count` (queue): workers and sessions
  come back, and a session does not return one job for ever. `LeaseEnds` assumes
  a killed request is gone (60 s) before its lease is (90 s).
- `Read` per source (intake): every due source is polled in its turn. The tick
  reads twenty due sources in no order, so this holds up to twenty of them; a
  hazard names the rest.

Of the other modules: passes, sends and the clocks of `Steps` are weakly fair and
nothing is asked of sessions or reviewers, so `NeverSilent` holds with all of them
away, up to the waits the code itself chooses, which `AwaitsPeople` lists: a message in
review or none deliverable (advance.ts:406-409), words that have no generic form
(563-567, 622-628), a plan that never came where the campaign has no fallback
(506-508). In
`Replies` the polls, the provider's repeated posts and the steps of a live call
are weakly fair; a lead need not write and nobody need answer. In `Delivery` the
ticks come and what was begun goes on; nobody has to reconnect an account or
resume a campaign. In `Crm` a run begins every half hour and goes on, a lock, a
limit and a poll grow old, and a note's answer is read.

No fairness is assumed of leads, reviewers, verdicts, faults, opt-outs or pauses.
`QueueDrains`, `NeverSilent` and `EveryWordHeard` therefore hold however people
behave.

## 5. Proofs

TLAPS proves the following for all values of the constants that satisfy the
module's assumption (finite sets of messages, jobs or checks; positive limits).
An invariant is seldom inductive by itself; each proof names what else is needed.

**SendPathProofs** — `TypeCorrect`, `LeaseExclusive` (OneHolder), `SentAtMostOnce`
(AtMostOnce), for any number of overlapping runs.
`IInv` adds: *LeaseKept* (while a run works on a message the row says sending,
not stale, or sent), without which a second claim could not be excluded;
*OneCheck* (a run decides one message at a time, with a slot left in its wave);
*SnapshotReviewed* (a snapshot never knows of a review that did not happen, and
what is launched and gated is reviewed); *Explained* (an acceptance is covered by
the row's status, by the run that has just heard it, or by a fault). One lemma
per action. `StoppedLeadsRest` (StoppedStaysStopped) adds *StopInv*: a message of a
stopped lead that is past the check of just that was past it at the stop. The lease's
age rests on the action `LeaseAges`, by which no live run is older than a stale
claim: 15 minutes against 60 seconds.

`GapKept` (OnePerGap), `CapKept` (CapHolds) and `BudgetKept` (BudgetHolds) assume
`OneRun`, and follow what the one run keeps in memory. *GapInv*: whom a launched
message is for is in `contacted`, and what was accepted lately was, or is about
to be, written down. *CapInv*: the window, the sends on their way and the headroom
left are together at most the cap. *BudgetInv*: what was paid for is at most what
the campaign says it spent, and what was said is at most the budget.

`SendPathImplementsOutbox`: Spec implements `Box!Spec`, with the
mapping of `SendPath`. `StageOfHolder` says that, because `IInv` lets no two runs
hold a message, its stage is read off the place of one run; then every action is
shown to be one step of the box or to leave it alone: a claim takes, the exits of
the loop put back, `Look` finds the campaign open, `Pass` the address not barred, a
launch the message reviewed (the guards of the abstract steps), an acceptance
delivers, a record is known, and a crash is the death of the one hand that held what
the run held.

Of `Desk`: `DeskTypeCorrect`, and for one run `ChangesReachTheLead` (ChangesGoOut),
`RecordKept` (RecordTrue), `GapKeptBesideDesk` (OnePerGap) and `BudgetKeptBesideDesk`
(BudgetHolds). A desk call writes by id alone, so the leases of `IInv` do not survive
it: a message that a run holds may be queued again under it. What does is *Base* (types
and *OneCheck*), and *LimitInv*, the three invariants of gap, cap and budget, because
they count what went out and not what the row says. *WordsKept*: a message that was
not changed under a run's hands says what was saved last, in the database and in every
snapshot, so the gate, a put-back and the record write back nothing old. *DateKept*: a
message that is not due is in no batch and under no claim. *RecordInv*: what the
provider took is what its run is about to record, and what is being sent is not
marked sent meanwhile. The steps are sorted by what they can disturb: *Quiet* ones
take nothing up, *Unsaid* ones record nothing.

**WorkQueueProofs** — `TypeCorrect` and `LeaseHolds` (OneWorker) from *Roles*
(who works on which kind), *Known* (what a process holds was inserted),
*LeaseLive* (a lease nobody else ended is live while its holder believes in it)
and *CalledReady*. `PendingItemsBounded` (PendingBounded) rests on *SeatsHold*: for each subject
the pending items and the askers about to insert one are together at most the askers,
because an asker goes on to insert only when he found none. `ReadyBounded`
(CeilingHolds) assumes one dispatcher, and bounds the busy work by what the dispatcher has
counted; `AttemptsBound` (NoSixthWorker, which no run checks) counts every hand-out and every claim not
yet handed out against `attempts`.

Of `DispatchLane`: `LaneTypeCorrect`, `RotationServed` (RotationServes) and `LaneFills`
(WorkConserving, an action property), from *LaneInv*. *InHand*: the budget is what the
ceiling leaves, and none of it is there while urgent work waits. *Fair*, inside the
rounds: whoever had a turn while there was budget got something, and whoever still
waits got a quantum in every round he had a turn in, all of it counted in what is
ready. So work left with budget after twenty rounds would be twenty quanta of one
campaign and at least a ceiling, and a round that gave nothing found nothing. *Rotates*:
who was left out k ticks in a row is k places nearer to the cursor than the list is
long; it holds because who is left out saw no second round (`LeftOut`), so the cursor
moved by exactly one place, towards him. That places in the sorted list are distinct
and below its length rests on distinct keys (`IndexSmaller`, `AheadOnce`).

**StepsProofs** — `TypeCorrect` and `ApprovalsStand` (ApprovedStands, an action
property) for any number of overlapping passes and sessions: the last write of a pass
looks at the approval again, so types are all it needs. `OneFallbackPerAsk`
(FallbackPerAsk) assumes `OneRun`. *FallbackInv* counts: the generic messages there
are, and the one a late ask still entitles to (*Owed*), are at most the excuses; a pass
that falls back read the ask as late, it is late still, and the pass goes on to stamp
it. A pass that dies in between is an excuse of its own. `Onward` says which write of
a pass follows which.

**VerdictProofs** — `TypeCorrect` and `SuccessIsProved` (ProvedWin) for any number
of overlapping calls: *Grounded* says that what the campaign or a call's copy
records as passed was shown once, so a stale copy can lose a fact but not invent
one. `SettledForGood` (SettledStays, an action property) holds for any number of
calls too: *CopyAgrees*, the copy a call works on agrees with the campaign on
everything settled that did not change since it was read. `WinCountedOnce` and
`OutcomeIsTheCampaigns` assume `OneCall`, that calls do not overlap, and rest on
*Tally*, which follows the win from the ending through the rows found, the mark and
the template counters.

**RepliesProofs** — `TypeCorrect`, `RepliesComeFirst` (NotOverTheirWords), `OptOutStands`
(OptOutHolds), for any number of overlapping polls and webhook calls. `IInv`
adds *Acting* (a call is in the script of the message it holds), *Listened* (what it
holds was written), *StampIsNewest* (the campaign's repliedAt is never older than
the newest reply that has paused it, whatever the order of reading) and
*OverIsStale* (a claimed message that is overtaken is one the last check refuses). *Heeded*: an
opt-out that was heard, and a person who is marked, is on the list, whichever call
wrote it and wherever another died; a call that takes a message for an opt-out has the
list before the mark.

**DeliveryProofs** — `TypeCorrect`, `ReconnectReleases` (HeldMeansDown),
`PauseStands` (PauseHolds), `TouchesAreMatched` (TouchesMatch). `IInv` says where
everybody is: *InHand* and *AtRest* tie a row's status to who works on it,
*Stationed* and *Alone* who may take the channel down and when, *LeftDown* that
whoever left it degraded has the sweep still to do, *OnAccountOnly* which rows
can be held for it. *Books* is the account, for any number of reconciliations.
*Orders* says who has what: *Booked*, *Asking* (what is listed is on the books or was
settled by another meanwhile), *OneOwed* (a reconciliation owes for one message at a
time), *Settling*, *Apart* (a message in two lists is in `twice`), *Lost*. *Balance*
is an equation between touches counted, messages that landed, and what is still to be
counted or given back, for every campaign none of whose lost messages is in `twice`.

**IntakeProofs** — `TypeCorrect` and `NobodyIsLost` (NoLeadLost) for any number of
overlapping runs, when no two submissions have one timestamp (`DistinctTimes`).
*CInv* follows a run phase by phase: the cursor it will store covers only rows
that it has placed (*Fed*, *Located*, *Inserted*, *Placed*, *Covered*). `EnteredOnce`
(OneOpen), `WinnersRest` (WonNotRerun), `RecordedOnce` (ArrivedOnce) assume
`OneRun`: *OnceIn* says that the campaigns behind a live or won one were closed at
birth and that whom a run is about to enrol has none; *OnceThere* that whom it is
about to insert is not there and what it is about to record is not recorded; a row
is recorded as often as one response lists it, which for an endpoint that repeats
rows may be twice.

**CrmProofs** — `TypeCorrect`, `OwnNotesStayOurs` (OwnNotesAreNotNews),
`ReopeningWakes` (ReopenedWakes), for any records and any history of the CRM.
*NewsInv* is *Hands*
(an idle connection has no work in hand), *Accounted* (while a run is under way that
opened its map before our name was known, all our notes are in `unnamed`) and
*FreshIsTheirs*, which carries that to the rows a run acts on. *WakeInv* is
*FreshOfRecord* and *Lifted*: a kept reopening that is not just now being acted on
has been followed by the lift or by another loss. The events of a
record are ordered by the feed, and that a finite set of them has a latest one is
the lemma `Latest`, by well-founded descent on finite sets.

The assumptions of theorems (one run or pass, one dispatcher, one call where
wins are counted, distinct times) are hypotheses in their statements. They are what the runs of section 3
instantiate.

Every safety property of section 3 but one is proved, the invariants, the action
properties and the refinement. Only model-checked is `NothingUnread`, whose run sets
a withdrawn review against a run that puts its snapshot's words back, and liveness (`QueueDrains`, `WorkEnds`,
`EveryoneEnters`, `WinSeen`, `NeverSilent`, `EveryWordHeard`, `GoesOrIsHeld`,
`ChangesArrive`): it rests on fairness, and so on ENABLED, which the prover does not
reach.

## 6. Where the code and its comments differ

Seen while modelling. The models contain these behaviours; the properties are
stated up to them, by a history variable or an assumption named in the property.

*Send path.* Only claims that never reached the provider are said to be reclaimed
(fireDue.ts:114-116), but the provider's id is written with the status, so a run
killed in between leaves a claim that looks unsent and is sent again. Two
overlapping runs contact one person inside the gap and overshoot the cap (memory
of one run). A write that fails after the provider accepted releases a delivered
message as failed. A message put back after a pause is queued in a paused campaign. What ends,
answers or bars a campaign after the check of just that (fireDue.ts:195-197 for the
goal instance, 959 for the list) and before `adapter.send` (678) is sent over: several
awaits lie between, and nothing looks again.

*Desk.* An edit or a new date saved after a run read its batch is not seen: the old
words go (fireDue.ts:121-141, against the comment at actions.ts:1940-1941) or the
message goes before its new date (actions.ts:1955), and the gate, a put-back or the
record write the old content over the edit (fireDue.ts:541-544, 683-692, 723-728). A
call that read the message before it went changes the record of what somebody
received (actions.ts:1877-1895), and a rewrite asked for in that moment puts a sent
message back in review. A rewrite is not answered: `compose_batch` inserts under the
key of goal and step, which the message holds, and drops the duplicate
(tools.ts:2829-2837), so an approval sends the template without words of its own.
A new date revives what a person rejected, as approved, and what a replaced plan
left behind (actions.ts:1969), which `returnToReview` refuses (1837-1838, 1852-1853).

*Channel and reports.* A send that reads the channel between `degraded` and its
reason, or after a take-down that died there, is skipped for good
(channelHealth.ts:150-152, 180-183; fireDue.ts:993-996). A take-down that crosses a
reconnect strands the rows it holds. A reconnect releases the channel-held rows of
a paused campaign, and resuming one campaign releases every held row of the
product (actions.ts:3071). A refund may precede its count; overlapping ticks refund
a lost message twice (reconcile.ts:46-58, 114-118), against "the goal's budget should
only be spent on messages that landed"; the list has a limit and no order (reconcile.ts:57).

*Queue.* `reapLeases` puts a CRM note whose worker died into `ready`, from which no
worker claims notes (queue.ts:399, 239-241), against "so a killed worker loses nothing"
(20-27). Two asks that cross leave two items for one subject (queue.ts:95-105). An error after `complete` sends a
written note back to the queue.

*Steps.* Overlapping passes write two fallbacks, and a pass that dies between the
fallback and its stamp writes another. A leftover compose item leads to a second
waiting message; a row of an old plan may be inserted after the new plan released
its own; an old plan item makes a later ask look unanswered. A playbook's stamp can
replace a session's plan (playbooks.ts:118-180). Campaigns wait for ever, against
"a routine that is down costs a lead one generic message rather than silence"
(advance.ts:503-505), where no channel takes the step (406-409), the campaign has no
fallback for a plan that never comes (506-508), the template has no form without
words (563-567), or a frame step is of tier 2 (622-628).

*Replies.* An opt-out or a reply that is recorded by a call that dies is not acted
on (inbound.ts:494-525). A mailbox is not read back far enough after an outage of
an hour, beyond forty mails, or when the list fails as an empty one
(inbound.ts:208-215, 384-424). Overlapping polls record a mail twice. An absence
replaces the kind of a running hold, and overlapping holds may shorten it
(campaignRules.ts:78-100). An opt-out that died after its mark is not finished by
the next. A word matched to no message is answered in the campaign of the last
send (replyIntents.ts:102-105), which is part of the answer's key (186): read again
after another send it may be answered twice, and an answer refused as a duplicate is
asked of a session as well. A lead without an address is on no list.

*CRM.* A death between storing rows and acting on them leaves them unacted on
(sync.ts:179-205). `liftLost` runs before the link's snapshot is refreshed, so a
reopened lead is listed again and a late verdict puts it to sleep for ninety days.
A limit at the same place in each run never gets past it, being thrown past the
save. A record moved to another project and back is not looked at again. A record
the CRM failed to answer for is dropped from the queue. A run longer than its lock
frees the next one's. Of a long queue 500 entries are saved and of a long feed ten
pages are read, while the cursor moves past all of it (sync.ts:494, 567), against "over
as many runs as it takes" (525-526). The lock is free while the tick writes notes
(sync.ts:718-722), so a run by hand (crm-actions.ts:141-158) may read them with a map
that does not know our name. `learnActor` runs after `complete` in the same try.

*Ingestion.* A run that dies between opening a campaign and queueing its first
touch leaves a lead the retry takes for done (ingest.ts:412-435, 485, 639).
Overlapping ingests can insert one person twice. "The same row twice in
one response is still one arrival" (ingest.ts:276), but of a new person all rows are
recorded (385). Rows with equal timestamps that
straddle a poll, or beyond MAX_PAGES, are behind the cursor unread.

*Verification.* `verifyCampaign` writes back the whole copy of checkResults it made
at its start, over what a session settled meanwhile (verify.ts:268, 462), though "that verdict" is
to "stick" (277-279). Two
overlapping endings count a win twice, and a call that dies between ending and
stamping leaves it uncounted. The last write of an ending turns a suppressed
lifecycle into cooling (verify.ts:417).

## 7. What would come next

1. `Booking`: the free/busy check and the insert of two visitors; `Tokens`: the
   rotation of a refresh token by two clients. Both are a find and a write, and
   both may be won twice in the code as it is.
2. The session's side of a reply (`record_reply`, whose key is the reply's time,
   beside the engine's, whose key is the provider's id), and `record_call`.
3. `set_checks` and `verify_person` against a verification that is going on.
4. The rotation of the tick over products and sources, under its time limit.

## 8. Not modelled

Adapters are their answers (accepted, refused, try again, no answer). Rendering,
templates, brand, tracking and temperature compute values no modelled step
compares. Accounts, sessions and encryption rest on libraries. Prompts for
sessions, the run log and notifications are writes nobody decides by. Maintenance
scripts are run by hand. The order of due rows and jobs is left open everywhere
except in `DispatchLane`, so what is shown holds for every order.

Most of the repository's lines are such code: pages that read and render, prompts
and rules of wording, reading tools, HTML. What the modules map is the part that
decides and writes; `PROJECT.json` says of each component what was left out.
