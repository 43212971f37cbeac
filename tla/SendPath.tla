------------------------------ MODULE SendPath ------------------------------
(***************************************************************************)
(* The send path of src/engine/fireDue.ts: overlapping runs (cron ticks    *)
(* and session calls) claim the messages that are due, check them, hand    *)
(* them to the provider and record what happened, while reviewers and      *)
(* leads change the same documents.                                        *)
(*                                                                         *)
(* One message document is one row of the actions collection; every Mongo  *)
(* update of it is one atomic step here.  A person stands for the lead     *)
(* together with the one goal instance (campaign) the lead is in; all      *)
(* messages use one channel with one rate window.                          *)
(*                                                                         *)
(* Time is abstracted to what the code compares: a message is due or not   *)
(* (dueAt <= now), a claim is stale or not (claimedAt older than           *)
(* STALE_CLAIM_MS), a send is inside the rate window or not, a person is   *)
(* inside the gap since their last message or not.  Actions named for the  *)
(* passing of time move these.                                             *)
(***************************************************************************)
EXTENDS Integers, FiniteSets

CONSTANTS
    Msgs,         \* messages (actions documents)
    Runs,         \* runs of fireDue that may overlap
    People,       \* leads, each in one campaign
    Owner,        \* Owner[m]: the lead message m is for
    Replies,      \* messages whose angle is "reply"
    Gated,        \* messages that need approval (campaign mode or an asset)
    Limit,        \* opts.limit: messages one run picks up
    Concurrency,  \* SEND_CONCURRENCY: sends started before a run waits for them
    Cap,          \* the channel's rate limit per window
    Budget,       \* the campaign's touch budget
    Events,       \* which outside events and faults the instance lets happen
    MaxFaults     \* bound on crashes, failed writes, lost answers and busy providers

ASSUME SendPathAssumption ==
    /\ IsFiniteSet(Msgs)
    /\ Owner \in [Msgs -> People]
    /\ Replies \subseteq Msgs
    /\ Gated \subseteq Msgs
    /\ {Limit, Concurrency, Cap, Budget} \subseteq Nat \ {0}
    /\ MaxFaults \in Nat

VARIABLES
    status,     \* the message's status field
    due,        \* messages with dueAt <= now
    reviewed,   \* messages with a reviewedAt
    stale,      \* sending messages whose claimedAt is STALE_CLAIM_MS old
    at,         \* at[r][m]: where run r is with message m
    seen,       \* seen[r]: messages of r's batch whose snapshot had a reviewedAt
    room,       \* room[r]: the in-memory headroom of run r, or Unread
    contacted,  \* contacted[r]: contactedThisRun
    wave,       \* wave[r]: sends started since run r last waited for all of them
    window,     \* messages with a sentAt inside the rate window
    spent,      \* goalInstance.spent.touches
    recent,     \* people with a lastContactedAt inside the gap
    replied,    \* people who wrote back: lastReplyAt is after writtenAt
    ended,      \* people whose goal instance is no longer active
    suppressed, \* people whose address is on the suppression list
    paused,     \* people whose campaign is paused (goals.enabled is false)
    \* History, read by no action of the code.
    accepted,   \* how often the provider accepted the message
    blind,      \* how often the database missed or misread an acceptance
    burst,      \* messages the provider accepted inside the rate window
    fresh,      \* campaign messages accepted inside their person's gap
    leaky,      \* people for whom some send was not fully recorded
    flying,     \* messages already past the check when their lead was stopped
    late,       \* messages accepted for a stopped lead that were not flying
    faults      \* faults so far

doc  == <<status, due, reviewed, stale>>
run  == <<at, seen, room, contacted, wave>>
db   == <<window, spent, recent>>
who  == <<replied, ended, suppressed, paused>>
hist == <<accepted, blind, burst, fresh, leaky, flying, late, faults>>
vars == <<doc, run, db, who, hist>>

\* "rejected" is the status "skipped" without a skipReason: a person's own
\* decision, which returnToReview leaves alone.  "sent" stands for "sent" and
\* "dispatched", which only reconciliation tells apart.
Statuses == {"queued", "sending", "awaiting_approval", "held", "sent",
             "skipped", "rejected", "failed"}

\* todo: in the snapshot; check: claimed; read: the person and the campaign were
\* read and allow it; early: they were, and the person is inside the gap; clear:
\* every check passed and the gap is taken; send: launched; told: the provider
\* accepted; recorded: the message says sent; spent: the campaign counted it.
Places   == {"none", "todo", "check", "read", "early", "clear",
             "send", "told", "recorded", "spent"}
Deciding == {"check", "read", "early", "clear"}
InFlight == {"send", "told", "recorded", "spent"}
Claimed  == Deciding \union InFlight

Unread == -1

Holds(r, m) == at[r][m] \in Claimed
Idle(r)     == \A m \in Msgs : at[r][m] = "none"
Mine(p)     == {m \in Msgs : Owner[m] = p}
Headroom(n) == IF n < Cap THEN Cap - n ELSE 0

TypeOK ==
    /\ status \in [Msgs -> Statuses]
    /\ due \subseteq Msgs /\ reviewed \subseteq Msgs /\ stale \subseteq Msgs
    /\ at \in [Runs -> [Msgs -> Places]]
    /\ seen \in [Runs -> SUBSET Msgs]
    /\ room \in [Runs -> Int]
    /\ contacted \in [Runs -> SUBSET People]
    /\ wave \in [Runs -> 0 .. Concurrency]
    /\ window \subseteq Msgs /\ recent \subseteq People
    /\ spent \in [People -> Nat]
    /\ replied \subseteq People /\ ended \subseteq People
    /\ suppressed \subseteq People /\ paused \subseteq People
    /\ accepted \in [Msgs -> Nat] /\ blind \in [Msgs -> Nat]
    /\ burst \subseteq Msgs /\ fresh \subseteq Msgs /\ leaky \subseteq People
    /\ flying \subseteq Msgs /\ late \subseteq Msgs
    /\ faults \in Nat

\* A message is written "queued" and dated (ingest, the planner, compose) or
\* "awaiting_approval"; some are due already.
Init ==
    /\ status \in [Msgs -> {"queued", "awaiting_approval"}]
    /\ \A m \in Msgs : status[m] = "awaiting_approval" => m \in Gated
    /\ due \in SUBSET Msgs
    /\ reviewed = {} /\ stale = {}
    /\ at = [r \in Runs |-> [m \in Msgs |-> "none"]]
    /\ seen = [r \in Runs |-> {}]
    /\ room = [r \in Runs |-> Unread]
    /\ contacted = [r \in Runs |-> {}]
    /\ wave = [r \in Runs |-> 0]
    /\ window = {} /\ recent = {}
    /\ spent = [p \in People |-> 0]
    /\ replied = {} /\ ended = {} /\ suppressed = {} /\ paused = {}
    /\ accepted = [m \in Msgs |-> 0]
    /\ blind = [m \in Msgs |-> 0]
    /\ burst = {} /\ fresh = {} /\ leaky = {} /\ flying = {} /\ late = {}
    /\ faults = 0

Place(r, m, p) == at' = [at EXCEPT ![r][m] = p]
\* The outcomes that leave the loop body: a new status, and the run drops it.
Release(r, m, s) ==
    /\ status' = [status EXCEPT ![m] = s]
    /\ Place(r, m, "none")
    /\ flying' = flying \ {m}

-----------------------------------------------------------------------------
(* The run: pick up a batch, claim it message by message. *)

\* dueFilter: queued and due, or a claim that went stale.
Due == {m \in Msgs : \/ (status[m] = "queued" /\ m \in due)
                      \/ (status[m] = "sending" /\ m \in stale)}

\* Variant: only the first find.
BatchesApprovedOnly ==
    {S \in SUBSET (Due \intersect reviewed) :
        Cardinality(S) <= Limit /\ (S = {} => Due \intersect reviewed = {})}

\* The two finds: approved messages first, unreviewed ones in the slots left.
Batches ==
    {S \in SUBSET Due :
        /\ Cardinality(S) = IF Cardinality(Due) < Limit
                            THEN Cardinality(Due) ELSE Limit
        /\ S \subseteq reviewed \/ Due \cap reviewed \subseteq S}

Start(r) ==
    /\ Idle(r) /\ Due # {}
    /\ \E S \in Batches :
        /\ at' = [at EXCEPT ![r] = [m \in Msgs |->
                                      IF m \in S THEN "todo" ELSE "none"]]
        /\ seen' = [seen EXCEPT ![r] = S \cap reviewed]
    /\ room' = [room EXCEPT ![r] = Unread]
    /\ contacted' = [contacted EXCEPT ![r] = {}]
    /\ wave' = [wave EXCEPT ![r] = 0]
    /\ UNCHANGED <<doc, db, who, hist>>

\* The loop takes the next message once the last one is decided, and only
\* while fewer than SEND_CONCURRENCY sends were started since the last flush.
Turn(r, m) ==
    /\ at[r][m] = "todo"
    /\ \A n \in Msgs : at[r][n] \notin Deciding
    /\ wave[r] < Concurrency
    /\ m \in seen[r] \/ \A n \in seen[r] : at[r][n] # "todo"

\* Variant: a reclaim that does not match the claim time it saw.
ClaimableAnySending(m) == status[m] \in {"queued", "sending"}

\* The lease: still queued, or still the same stale claim.
Claimable(m) == \/ status[m] = "queued"
                \/ (status[m] = "sending" /\ m \in stale)

Claim(r, m) ==
    /\ Turn(r, m) /\ Claimable(m)
    /\ status' = [status EXCEPT ![m] = "sending"]
    /\ stale' = stale \ {m}
    /\ Place(r, m, "check")
    /\ UNCHANGED <<due, reviewed, seen, room, contacted, wave, db, who, hist>>

LoseClaim(r, m) ==
    /\ Turn(r, m) /\ ~Claimable(m)
    /\ Place(r, m, "none")
    /\ UNCHANGED <<doc, seen, room, contacted, wave, db, who, hist>>

\* flush: at SEND_CONCURRENCY the run waits for every send it started.
Flush(r) ==
    /\ wave[r] >= Concurrency
    /\ \A m \in Msgs : at[r][m] \notin InFlight
    /\ wave' = [wave EXCEPT ![r] = 0]
    /\ UNCHANGED <<doc, at, seen, room, contacted, db, who, hist>>

-----------------------------------------------------------------------------
(* Deciding on the claimed message, in the order of the loop body.  What a    *)
(* check reads may change before the provider is called: the person and the  *)
(* campaign are read first, the suppression list and the rate window after   *)
(* them, and rendering, the rate slot and the adapter still lie between.     *)

\* reviewFirst: gated, and not reviewed in the snapshot the run works from.
ReviewFirst(r, m) == m \in Gated /\ m \notin seen[r]

\* The goal instance is not active, or this was written before their reply.
Closed(m) == \/ Owner[m] \in ended
             \/ (Owner[m] \in replied /\ m \notin Replies)

Barred(m)  == Owner[m] \in suppressed
Stopped(m) == Barred(m) \/ Closed(m)

\* Variants: no check of the reply, no check of the budget.
VerdictNoReply(m)  == Owner[m] \in ended \/ spent[Owner[m]] >= Budget
VerdictNoBudget(m) == Closed(m)
\* Variant: the ending is left to the sweeps.
VerdictSwept(m)    == \/ spent[Owner[m]] >= Budget
                      \/ (Owner[m] \in replied /\ m \notin Replies)

\* What the goal instance as it was read says for good.
Verdict(m) == Closed(m) \/ spent[Owner[m]] >= Budget

\* Variant: the gap is read from the database alone.
InGapDatabase(r, m) == at[r][m] = "early"

\* The gap: from the person as they were read, and from this run's own sends.
InGap(r, m) ==
    \/ at[r][m] = "early"
    \/ m \notin Replies /\ Owner[m] \in contacted[r]

RateFull == Cardinality(window) >= Cap

\* The person, the goal instance and the channel are read.
Look(r, m) ==
    /\ at[r][m] = "check" /\ ~Verdict(m)
    /\ Place(r, m, IF m \notin Replies /\ Owner[m] \in recent /\ ~ReviewFirst(r, m)
                   THEN "early" ELSE "read")
    /\ UNCHANGED <<doc, seen, room, contacted, wave, db, who, hist>>

\* The goal instance as read is a verdict; nothing takes one back, so the
\* read and the release it leads to are one step.
Turned(r, m) ==
    /\ at[r][m] = "check" /\ Verdict(m)
    /\ Release(r, m, "skipped")
    /\ UNCHANGED <<due, reviewed, stale, seen, room, contacted, wave, db, who, accepted,
                   blind, burst, fresh, leaky, late, faults>>

\* A missing document or template, before the guards run.
Broken(r, m) ==
    /\ at[r][m] = "check" /\ "broken" \in Events
    /\ Release(r, m, "failed")
    /\ UNCHANGED <<due, reviewed, stale, seen, room, contacted, wave, db, who, accepted,
                   blind, burst, fresh, leaky, late, faults>>

Checking(r, m) == at[r][m] \in {"read", "early"}

\* Suppressed; "verdict" stands for the verdicts about data the model leaves
\* out (no address, no LinkedIn profile, unhealthy channel, closed WhatsApp
\* window).
Skip(r, m) ==
    /\ Checking(r, m)
    /\ Barred(m) \/ "verdict" \in Events
    /\ Release(r, m, "skipped")
    /\ UNCHANGED <<due, reviewed, stale, seen, room, contacted, wave, db, who, accepted,
                   blind, burst, fresh, leaky, late, faults>>

\* A clock: back to the queue with a later dueAt.  "clock" stands for the
\* clocks left out (quiet hours, spacing, per-operation limits, holds).
Defer(r, m) ==
    /\ Checking(r, m) /\ ~Barred(m)
    /\ \/ ~ReviewFirst(r, m) /\ (RateFull \/ InGap(r, m))
       \/ "clock" \in Events
    /\ Release(r, m, "queued")
    /\ due' = due \ {m}
    /\ UNCHANGED <<reviewed, stale, seen, room, contacted, wave, db, who, accepted, blind,
                   burst, fresh, leaky, late, faults>>

\* contactedThisRun is set as soon as the gap check passes, sent or not.
MarkContacted(r, m) ==
    contacted' = IF m \in Replies \/ ReviewFirst(r, m) THEN contacted
                 ELSE [contacted EXCEPT ![r] = @ \union {Owner[m]}]

\* Not suppressed, room in the window, outside the gap: the last check.
Pass(r, m) ==
    /\ Checking(r, m) /\ ~Barred(m)
    /\ ReviewFirst(r, m) \/ (~RateFull /\ ~InGap(r, m))
    /\ Place(r, m, "clear")
    /\ MarkContacted(r, m)
    /\ UNCHANGED <<doc, seen, room, wave, db, who, hist>>

Cleared(r, m) == at[r][m] = "clear"

\* The rendered message does not validate, after the gap was taken.
Invalid(r, m) ==
    /\ Cleared(r, m) /\ "broken" \in Events
    /\ Release(r, m, "failed")
    /\ UNCHANGED <<due, reviewed, stale, seen, room, contacted, wave, db, who, accepted,
                   blind, burst, fresh, leaky, late, faults>>

\* Nobody has read it: it waits at the review gate.
Park(r, m) ==
    /\ Cleared(r, m) /\ ReviewFirst(r, m)
    /\ Release(r, m, "awaiting_approval")
    /\ UNCHANGED <<due, reviewed, stale, seen, room, contacted, wave, db, who, accepted,
                   blind, burst, fresh, leaky, late, faults>>

\* Variant: headroom is read again for every message.
LeftReread(r) == Headroom(Cardinality(window))

Left(r) == IF room[r] = Unread THEN Headroom(Cardinality(window)) ELSE room[r]

\* reserve found no headroom: "channel window full", due in a minute.
WindowFull(r, m) ==
    /\ Cleared(r, m) /\ ~ReviewFirst(r, m) /\ Left(r) <= 0
    /\ Release(r, m, "queued")
    /\ due' = due \ {m}
    /\ room' = [room EXCEPT ![r] = Left(r)]
    /\ UNCHANGED <<reviewed, stale, seen, contacted, wave, db, who, accepted, blind, burst,
                   fresh, leaky, late, faults>>

Reserved(r, m) == Cleared(r, m) /\ ~ReviewFirst(r, m) /\ Left(r) > 0

Fault == faults < MaxFaults /\ faults' = faults + 1

\* A bad minute of the provider's or of a credential: RetryableSendError.
Busy == "busy" \in Events /\ Fault

\* The adapter cannot be built for now: the slot goes back.
NoAdapter(r, m) ==
    /\ Reserved(r, m) /\ Busy
    /\ Release(r, m, "queued")
    /\ due' = due \ {m}
    /\ room' = [room EXCEPT ![r] = Left(r)]
    /\ UNCHANGED <<reviewed, stale, seen, contacted, wave, db, who, accepted, blind, burst,
                   fresh, leaky, late>>

\* The adapter is refused for good, or a provider parameter is missing: the
\* slot stays taken.
Unsendable(r, m) ==
    /\ Reserved(r, m) /\ "broken" \in Events
    /\ \E s \in {"failed", "skipped"} : Release(r, m, s)
    /\ room' = [room EXCEPT ![r] = Left(r) - 1]
    /\ UNCHANGED <<due, reviewed, stale, seen, contacted, wave, db, who, accepted, blind,
                   burst, fresh, leaky, late, faults>>

Launch(r, m) ==
    /\ Reserved(r, m)
    /\ Place(r, m, "send")
    /\ room' = [room EXCEPT ![r] = Left(r) - 1]
    /\ wave' = [wave EXCEPT ![r] = @ + 1]
    /\ UNCHANGED <<doc, seen, contacted, db, who, hist>>

-----------------------------------------------------------------------------
(* dispatch: one provider call and the writes that record it. *)

\* What the provider's acceptance means for the history.
Accepted(m) ==
    /\ accepted' = [accepted EXCEPT ![m] = @ + 1]
    /\ burst' = burst \union {m}
    /\ fresh' = IF m \in Replies THEN fresh ELSE fresh \union {m}
    /\ late' = IF Stopped(m) /\ m \notin flying THEN late \union {m} ELSE late

\* The record of an acceptance is lost or wrong.
Miss(M) ==
    /\ blind' = [m \in Msgs |-> IF m \in M THEN blind[m] + 1 ELSE blind[m]]
    /\ leaky' = leaky \union {Owner[m] : m \in M}

Accept(r, m) ==
    /\ at[r][m] = "send"
    /\ Place(r, m, "told")
    /\ Accepted(m)
    /\ flying' = flying \ {m}
    /\ UNCHANGED <<doc, seen, room, contacted, wave, db, who, blind, leaky, faults>>

\* Back to the queue, and the rate slot goes back too.
Retry(r, m) ==
    /\ at[r][m] = "send" /\ Busy
    /\ Release(r, m, "queued")
    /\ due' = due \ {m}
    /\ room' = [room EXCEPT ![r] = @ + 1]
    /\ UNCHANGED <<reviewed, stale, seen, contacted, wave, db, who, accepted, blind,
                   burst, fresh, leaky, late>>

\* Any other error of the provider.
Refuse(r, m) ==
    /\ at[r][m] = "send" /\ "broken" \in Events
    /\ Release(r, m, "failed")
    /\ UNCHANGED <<due, reviewed, stale, seen, room, contacted, wave, db, who, accepted,
                   blind, burst, fresh, leaky, late, faults>>

\* The provider took the message and its answer was lost: the adapter raises
\* a retryable error (LinkedIn unreachable, a 5xx) or another one.
AcceptUnheard(r, m) ==
    /\ at[r][m] = "send" /\ "lostAnswer" \in Events /\ Fault
    /\ Accepted(m) /\ Miss({m})
    /\ \/ /\ Release(r, m, "queued")
          /\ due' = due \ {m}
          /\ room' = [room EXCEPT ![r] = @ + 1]
       \/ /\ Release(r, m, "failed")
          /\ UNCHANGED <<due, room>>
    /\ UNCHANGED <<reviewed, stale, seen, contacted, wave, db, who>>

\* One update writes the status, sentAt and the provider's id.
Record(r, m) ==
    /\ at[r][m] = "told"
    /\ status' = [status EXCEPT ![m] = "sent"]
    /\ window' = window \union {m}
    /\ Place(r, m, "recorded")
    /\ UNCHANGED <<due, reviewed, stale, seen, room, contacted, wave, spent, recent,
                   who, hist>>

Spend(r, m) ==
    /\ at[r][m] = "recorded"
    /\ spent' = [spent EXCEPT ![Owner[m]] = @ + 1]
    /\ Place(r, m, "spent")
    /\ UNCHANGED <<doc, seen, room, contacted, wave, window, recent, who, hist>>

\* person.lastContactedAt, and the send is over.
Contact(r, m) ==
    /\ at[r][m] = "spent"
    /\ recent' = recent \union {Owner[m]}
    /\ Place(r, m, "none")
    /\ UNCHANGED <<doc, seen, room, contacted, wave, window, spent, who, hist>>

\* A database write throws after the acceptance: the catch of dispatch
\* releases the message as failed.
WriteThrows(r, m) ==
    /\ at[r][m] \in {"told", "recorded", "spent"} /\ "throw" \in Events /\ Fault
    /\ Release(r, m, "failed")
    /\ Miss({m})
    /\ UNCHANGED <<due, reviewed, stale, seen, room, contacted, wave, db, who, accepted,
                   burst, fresh, late>>

\* The process is killed (maxDuration): the run's memory is gone.
Crash(r) ==
    /\ ~Idle(r) /\ "crash" \in Events /\ Fault
    /\ LET open == {m \in Msgs : at[r][m] \in {"told", "recorded", "spent"}} IN
         /\ blind' = [m \in Msgs |-> IF at[r][m] = "told" THEN blind[m] + 1
                                     ELSE blind[m]]
         /\ leaky' = leaky \union {Owner[m] : m \in open}
    /\ at' = [at EXCEPT ![r] = [m \in Msgs |-> "none"]]
    /\ flying' = {m \in flying : at[r][m] \notin Claimed}
    /\ UNCHANGED <<doc, seen, room, contacted, wave, db, who, accepted, burst,
                   fresh, late>>

-----------------------------------------------------------------------------
(* Reviewers, the operator and the lead: each sweep is one updateMany whose
   filter names the statuses it may change. *)

\* decide: what has reached the gate, or is dated and not decided on yet.
\* Variant: any message nobody decided on yet.
DecidableUnread(m) == status[m] = "awaiting_approval" \/ m \notin reviewed

Decidable(m) == \/ status[m] = "awaiting_approval"
                \/ (status[m] = "queued" /\ m \notin reviewed)

Decide(m, s) ==
    /\ Decidable(m)
    /\ status' = [status EXCEPT ![m] = s]
    /\ reviewed' = reviewed \union {m}
    /\ UNCHANGED <<due, stale, run, db, who, hist>>

Approve(m) == "approve" \in Events /\ Decide(m, "queued")
Reject(m)  == "reject" \in Events /\ Decide(m, "rejected")

\* returnToReview: only what the machine stopped; the approval is kept.
ReturnToReview(m) ==
    /\ "return" \in Events /\ status[m] \in {"skipped", "failed"}
    /\ status' = [status EXCEPT ![m] = "awaiting_approval"]
    /\ UNCHANGED <<due, reviewed, stale, run, db, who, hist>>

\* The sweep over one lead's messages that are in the statuses S.
Sweep(p, S, s) ==
    status' = [m \in Msgs |-> IF Owner[m] = p /\ status[m] \in S THEN s ELSE status[m]]

\* The lead's messages that are past the check of what stops the lead now, and
\* not with the provider yet: an opt-out is looked up after the goal instance.
PastLook(p) == {m \in Mine(p) : \E r \in Runs : at[r][m] \in {"read", "early", "clear", "send"}}
PastPass(p) == {m \in Mine(p) : \E r \in Runs : at[r][m] \in {"clear", "send"}}

\* pauseForReply: the campaign's waiting messages are dropped, answers kept.
Reply(p) ==
    /\ "reply" \in Events /\ p \notin replied
    /\ \E m \in Mine(p) : accepted[m] > 0
    /\ replied' = replied \union {p}
    /\ status' = [m \in Msgs |->
                    IF /\ Owner[m] = p /\ m \notin Replies
                       /\ status[m] \in {"queued", "awaiting_approval", "held"}
                    THEN "skipped" ELSE status[m]]
    /\ flying' = flying \union PastLook(p)
    /\ UNCHANGED <<due, reviewed, stale, run, db, ended, suppressed, paused, accepted,
                   blind, burst, fresh, leaky, late, faults>>

End(p, S, s, past) ==
    /\ ended' = ended \union {p}
    /\ Sweep(p, S, s)
    /\ flying' = flying \union past
    /\ UNCHANGED <<due, reviewed, stale, run, db, replied, paused, accepted, blind,
                   burst, fresh, leaky, late, faults>>

\* The opt-out link, and suppressPerson by hand.
Unsubscribe(p) ==
    /\ "unsubscribe" \in Events /\ p \notin suppressed
    /\ suppressed' = suppressed \union {p}
    /\ End(p, {"queued", "held", "awaiting_approval"}, "skipped", PastPass(p))

SuppressPerson(p) ==
    /\ "suppress" \in Events /\ p \notin suppressed
    /\ suppressed' = suppressed \union {p}
    /\ End(p, {"queued", "awaiting_approval"}, "rejected", PastPass(p))

\* verify: every check passed, or the touch budget is spent.
Verified(p) ==
    /\ "verify" \in Events /\ p \notin ended
    /\ UNCHANGED suppressed
    /\ End(p, {"queued", "awaiting_approval"}, "skipped", PastLook(p))

\* toggleGoal: pausing holds this campaign's queue, resuming one campaign
\* releases every held message of the product.
Pause(p) ==
    /\ "pause" \in Events /\ p \notin paused
    /\ paused' = paused \union {p}
    /\ IF p \in ended THEN UNCHANGED status ELSE Sweep(p, {"queued"}, "held")
    /\ UNCHANGED <<due, reviewed, stale, run, db, replied, ended, suppressed, hist>>

Resume(p) ==
    /\ "pause" \in Events /\ p \in paused
    /\ paused' = paused \ {p}
    /\ status' = [m \in Msgs |-> IF status[m] = "held" THEN "queued" ELSE status[m]]
    /\ UNCHANGED <<due, reviewed, stale, run, db, replied, ended, suppressed, hist>>

-----------------------------------------------------------------------------
(* Time. *)

ComesDue(m) ==
    /\ status[m] = "queued" /\ m \notin due
    /\ due' = due \union {m}
    /\ UNCHANGED <<status, reviewed, stale, run, db, who, hist>>

\* STALE_CLAIM_MS is fifteen times the longest a run lives, so no live run
\* still holds the claim or a snapshot from before it.
LeaseAges(m) ==
    /\ status[m] = "sending" /\ m \notin stale
    /\ \A r \in Runs : at[r][m] = "none"
    /\ stale' = stale \union {m}
    /\ UNCHANGED <<status, due, reviewed, run, db, who, hist>>

WindowSlides(m) ==
    /\ m \in window \union burst
    /\ \A r \in Runs : at[r][m] # "told"
    /\ window' = window \ {m} /\ burst' = burst \ {m}
    /\ UNCHANGED <<doc, run, spent, recent, who, accepted, blind, fresh, leaky,
                   flying, late, faults>>

\* The gap is counted in hours and days, so no send in flight outlives it.
GapPasses(p) ==
    /\ p \in recent \/ fresh \intersect Mine(p) # {}
    /\ \A r \in Runs : \A m \in Mine(p) : at[r][m] \notin InFlight
    /\ recent' = recent \ {p} /\ fresh' = fresh \ Mine(p)
    /\ UNCHANGED <<doc, run, window, spent, who, accepted, blind, burst, leaky,
                   flying, late, faults>>

-----------------------------------------------------------------------------
Prepare(r, m) ==
    \/ Claim(r, m) \/ LoseClaim(r, m)
    \/ Look(r, m) \/ Turned(r, m) \/ Broken(r, m)
    \/ Skip(r, m) \/ Defer(r, m) \/ Pass(r, m) \/ Invalid(r, m) \/ Park(r, m)
    \/ WindowFull(r, m) \/ NoAdapter(r, m) \/ Unsendable(r, m) \/ Launch(r, m)

Dispatch(r, m) ==
    \/ Accept(r, m) \/ Retry(r, m) \/ Refuse(r, m) \/ AcceptUnheard(r, m)
    \/ Record(r, m) \/ Spend(r, m) \/ Contact(r, m) \/ WriteThrows(r, m)

Lead(p) == \/ Reply(p) \/ Unsubscribe(p) \/ SuppressPerson(p) \/ Verified(p)
           \/ Pause(p) \/ Resume(p) \/ GapPasses(p)

Clock(m) == ComesDue(m) \/ LeaseAges(m) \/ WindowSlides(m)

Desk(m) == Approve(m) \/ Reject(m) \/ ReturnToReview(m) \/ Clock(m)

Next ==
    \/ \E r \in Runs : Start(r) \/ Flush(r) \/ Crash(r)
    \/ \E r \in Runs, m \in Msgs : Prepare(r, m) \/ Dispatch(r, m)
    \/ \E p \in People : Lead(p)
    \/ \E m \in Msgs : Desk(m)

Spec == Init /\ [][Next]_vars

\* A live run gets its steps, a tick comes when something is due, and time
\* passes.  People and faults owe nothing.
Fairness ==
    /\ \A r \in Runs : WF_vars(Start(r)) /\ WF_vars(Flush(r))
    /\ \A r \in Runs, m \in Msgs : WF_vars(Prepare(r, m)) /\ WF_vars(Dispatch(r, m))
    /\ \A m \in Msgs : WF_vars(ComesDue(m)) /\ WF_vars(LeaseAges(m))
                      /\ SF_vars(WindowSlides(m))
    /\ \A p \in People : SF_vars(GapPasses(p))

FairSpec == Spec /\ Fairness

-----------------------------------------------------------------------------
(* What the send path promises. *)

\* The claim is a lease (fireDue.ts 175-191): two runs never work on the same
\* message, however their snapshots, reclaims and releases interleave.
OneHolder ==
    \A m \in Msgs : \A r1, r2 \in Runs : Holds(r1, m) /\ Holds(r2, m) => r1 = r2

\* A message reaches the provider again only after the database missed or
\* misread an acceptance: claims, reclaims, deferrals, the review gate, sweeps
\* and put-backs never add a second send of their own (fireDue.ts 174-191).
AtMostOnce == \A m \in Msgs : accepted[m] <= 1 + blind[m]

\* Once a lead replied, opted out or was won, no message reaches them but one
\* that was past the check of just that: the goal instance as read for a reply
\* or a win (fireDue.ts 195, 962-967), the suppression list for an opt-out (959),
\* so an opt-out that lands while the campaign was already read still stops it.
\* A message the sweep missed because it was claimed is stopped at its next
\* claim.  What was past its check is still sent: the code checks no later.
StoppedStaysStopped == late = {}

\* One run keeps the gap: no person gets two campaign messages inside it while
\* every send was recorded (fireDue.ts 374-416).
OnePerGap == \A p \in People \ leaky : Cardinality(fresh \intersect Mine(p)) <= 1

\* One run keeps the channel's limit at any fan-out (fireDue.ts 549-563).
CapHolds == Cardinality({m \in burst : blind[m] = 0}) <= Cap

\* One run keeps the touch budget, although the budget is read before the
\* sends in flight are counted against it (fireDue.ts 961-963, 791-799).
BudgetHolds ==
    \A p \in People \ leaky :
        Cardinality({m \in Mine(p) \ Replies : accepted[m] > 0}) <= Budget

\* Every clock ends: a queued message is sent, parked, skipped or failed.
QueueDrains == \A m \in Msgs : (status[m] = "queued") ~>
                                (status[m] \notin {"queued", "sending"})

-----------------------------------------------------------------------------
(* The outbox the send path implements. *)

Some(m, place) == \E r \in Runs : at[r][m] = place

StageOf(m) == CASE Some(m, "check")    -> "hand"
                [] Some(m, "read")     -> "open"
                [] Some(m, "early")    -> "open"
                [] Some(m, "clear")    -> "clear"
                [] Some(m, "send")     -> "launched"
                [] Some(m, "told")     -> "given"
                [] status[m] = "sent"  -> "known"
                [] OTHER               -> "box"

Box == INSTANCE Outbox WITH
    stage <- [m \in Msgs |-> StageOf(m)],
    closed <- {m \in Msgs : Closed(m)},
    barred <- {m \in Msgs : Barred(m)},
    delivered <- accepted,
    missed <- blind

\* Overlapping runs with their snapshots, reclaims, deferrals, crashes and
\* failed writes, and the sweeps and decisions beside them, do to a message
\* only what one careful hand would: take it from the box, look that the
\* campaign is open and then that the address is not barred, launch it
\* reviewed, deliver it once, put it on record (fireDue.ts 174-191, 195-197,
\* 318-330, 656-857, 959-979).  No review is withdrawn here; Desk does that.
ImplementsOutbox == Box!Spec
=============================================================================
