------------------------------ MODULE Delivery ------------------------------
(***************************************************************************)
(* What becomes of a message at the provider.  A run of fireDue claims it, *)
(* looks at its channel and calls.  An account whose session has ended     *)
(* refuses the call: the channel is taken down and its queue held          *)
(* (channelHealth.ts) until a person connects the account again, which     *)
(* releases it (app/actions.ts).  A provider that queues says later what   *)
(* became of the message, and is asked for it (reconcile.ts).  Meanwhile a *)
(* person pauses and resumes campaigns (app/actions.ts).                   *)
(*                                                                         *)
(* A channel is taken down, released, swept and a campaign paused by       *)
(* several writes; each is a step of its own.  One account, one run of     *)
(* fireDue at a time, reconciliations as they overlap, one lead per        *)
(* campaign.  Claims, clocks and the rest of the checks before a send are  *)
(* SendPath's.                                                             *)
(***************************************************************************)
EXTENDS Integers, FiniteSets

CONSTANTS
    Msgs,       \* messages, written and due
    Campaigns,
    CampaignOf, \* CampaignOf[m]: the campaign m is of
    Queueing,   \* messages whose provider queues them and is asked later
    Checks,     \* reconciliations: each tick runs one
    Budget,     \* the campaigns' touch budget
    Events,     \* which faults and decisions the instance lets happen, each once
    MaxFaults   \* how many of them one behaviour has

ASSUME DeliveryAssumption ==
    /\ IsFiniteSet(Msgs) /\ Msgs \cap {"poll", "console", "switch"} = {}
    /\ CampaignOf \in [Msgs -> Campaigns]
    /\ Queueing \subseteq Msgs
    /\ Budget \in Nat \ {0} /\ MaxFaults \in Nat

VARIABLES
    row,     \* row[m]: status, and why it is held or skipped
    account, \* whether LinkedIn takes the session
    chan,    \* conn, the connection with its credential; healthy; down, a downReason
    run,     \* fireDue: todo, its batch; room, its headroom on the account
    at,      \* at[h]: what the one who holds a message, polls or clicks is doing
    found,   \* found[h]: whether a reading of the channel's health was good
    on,      \* campaigns that are enabled
    spent,   \* spent[g]: goalInstance.spent.touches
    fate,    \* fate[m]: what a queueing provider says of it: "landed", "lost", nothing
    check,   \* check[c]: a reconciliation's list, and whom it owes a refund
    \* History, read by no action of the code.
    torn,    \* the channel was left without its reason, or was looked at before it had one
    stopped, \* messages a pause held, until a campaign is resumed
    missed,  \* messages that landed and were not counted, the run having died
    twice,   \* messages two reconciliations had listed at once
    kept,    \* messages not given back, the reconciliation having died
    faults   \* which have happened

docs  == <<row, chan, on, spent>>
world == <<account, fate>>
work  == <<run, at, found, check>>
books == <<missed, twice, kept>>
hist  == <<torn, stopped, books, faults>>
vars  == <<docs, world, work, hist>>

OnAccount == Msgs \ Queueing
\* Who works on the channel: the send of a message, the poll, the person who
\* connects the account; and the person who pauses and resumes campaigns.
Hands == Msgs \cup {"poll", "console", "switch"}

Is(s, w) == [status |-> s, why |-> w]
NoCheck  == [todo |-> {}, owes |-> {}]

Row == [status : {"queued", "sending", "dispatched", "sent", "failed", "held", "skipped"},
        why : {"none", "channel", "budget", "campaign"}]
Taking == {"degrade", "judge", "mark", "explain", "sweep", "mine"}
Place == {"rest", "claimed", "go", "hold", "skip", "over", "calling", "count", "repair", "clear",
          "free", "pausing", "resuming"} \cup Taking

TypeOK ==
    /\ row \in [Msgs -> Row]
    /\ account \in BOOLEAN /\ torn \in BOOLEAN
    /\ chan \in [conn : BOOLEAN, healthy : BOOLEAN, down : BOOLEAN]
    /\ run \in [todo : SUBSET Msgs, room : Int]
    /\ at \in [Hands -> Place]
    /\ found \in [Hands -> BOOLEAN]
    /\ on \subseteq Campaigns
    /\ spent \in [Campaigns -> Int]
    /\ fate \in [Msgs -> {"none", "landed", "lost", "silent"}]
    /\ check \in [Checks -> [todo : SUBSET Msgs, owes : SUBSET Msgs]]
    /\ stopped \subseteq Msgs /\ missed \subseteq Msgs /\ twice \subseteq Msgs /\ kept \subseteq Msgs
    /\ faults \subseteq Events

Init ==
    /\ row = [m \in Msgs |-> Is("queued", "none")]
    /\ account = TRUE
    /\ chan = [conn |-> TRUE, healthy |-> TRUE, down |-> FALSE]
    /\ run = [todo |-> {}, room |-> 0]
    /\ at = [h \in Hands |-> "rest"]
    /\ found = [h \in Hands |-> TRUE]
    /\ on = Campaigns
    /\ spent = [g \in Campaigns |-> 0]
    /\ fate = [m \in Msgs |-> "none"]
    /\ check = [c \in Checks |-> NoCheck]
    /\ torn = FALSE /\ stopped = {}
    /\ missed = {} /\ twice = {} /\ kept = {} /\ faults = {}

Fault(name) ==
    /\ name \in Events \ faults /\ Cardinality(faults) < MaxFaults
    /\ faults' = faults \cup {name}

Step(h, place) == at' = [at EXCEPT ![h] = place]
Put(m, s, w)   == row' = [row EXCEPT ![m] = Is(s, w)]

Reconnecting == at["console"] # "rest"

\* The provider ends the session, or restricts the account.
SessionEnds ==
    /\ account /\ ~Reconnecting /\ Fault("session")
    /\ account' = FALSE
    /\ UNCHANGED <<docs, fate, work, torn, stopped, books>>

-----------------------------------------------------------------------------
(* fireDue: the batch, one message decided after the other, the call.      *)

Resting == \A m \in Msgs : at[m] = "rest"

\* A tick runs, reconciles and polls in that order; one that is not over when
\* the next begins is rare enough to be counted as a fault.
Turn ==
    IF Resting /\ run.todo = {} /\ at["poll"] = "rest" /\ \A c \in Checks : check[c] = NoCheck
    THEN UNCHANGED faults ELSE Fault("overlap")

\* Queued, or claimed by a run that died (STALE_CLAIM_MS).
Due == {m \in Msgs : row[m].status \in {"queued", "sending"}}

\* A channel that waits a random time between sends sends one per run.
Start ==
    /\ Resting /\ run.todo = {} /\ Due # {}
    /\ Turn
    /\ run' = [todo |-> Due, room |-> 1]
    /\ UNCHANGED <<docs, world, at, found, check, torn, stopped, books>>

Claim(m) ==
    /\ m \in run.todo /\ \A o \in Msgs : at[o] \notin {"claimed", "go", "hold", "skip", "over"}
    /\ run' = [run EXCEPT !.todo = @ \ {m}]
    /\ IF m \in Due /\ at[m] = "rest"
       THEN Put(m, "sending", "none") /\ Step(m, "claimed")
       ELSE UNCHANGED <<row, at>>
    /\ UNCHANGED <<chan, on, spent, world, found, check, hist>>

\* Variant: a channel that is down is not healthy, and that is all.
BlockedNoHold(m) ==
    IF spent[CampaignOf[m]] >= Budget THEN "over"
    ELSE IF m \in OnAccount /\ ~chan.healthy THEN "skip"
    ELSE "go"

\* blockedReason: a spent budget; the channel down by a send; not healthy.
Blocked(m) ==
    CASE spent[CampaignOf[m]] >= Budget -> "over"
      [] m \in OnAccount /\ ~chan.healthy /\ chan.down -> "hold"
      [] m \in OnAccount /\ ~chan.healthy /\ ~chan.down -> "skip"
      [] OTHER -> "go"

\* Between the two writes of somebody who takes the channel down.
Unexplained == \E h \in Hands : at[h] = "explain"

\* Looking at a channel, or taking it down, while somebody connects it again is
\* counted as a fault as well.
Crosses(meets) == IF meets THEN Fault("crossing") ELSE UNCHANGED faults

Look(m) ==
    /\ at[m] = "claimed"
    /\ Step(m, Blocked(m))
    /\ torn' = (torn \/ Unexplained)
    /\ Crosses(Reconnecting)
    /\ UNCHANGED <<docs, world, run, found, check, stopped, books>>

Outcome == [hold |-> Is("held", "channel"), skip |-> Is("skipped", "channel"),
            over |-> Is("skipped", "budget")]

Held(those, w) ==
    [m \in Msgs |-> IF m \in those THEN Is("held", w) ELSE row[m]]

Decide(m) ==
    /\ at[m] \in {"hold", "skip", "over"} /\ Step(m, "rest")
    /\ row' = [row EXCEPT ![m] = Outcome[at[m]]]
    /\ UNCHANGED <<chan, on, spent, world, run, found, check, hist>>

\* reserve: "channel window full", due again in a minute.
WindowFull(m) ==
    /\ at[m] = "go" /\ m \in OnAccount /\ run.room = 0
    /\ Put(m, "queued", "none") /\ Step(m, "rest")
    /\ UNCHANGED <<chan, on, spent, world, run, found, check, hist>>

Launch(m) ==
    /\ at[m] = "go" /\ (m \in OnAccount => run.room > 0)
    /\ Step(m, "calling")
    /\ run' = IF m \in OnAccount THEN [run EXCEPT !.room = @ - 1] ELSE run
    /\ UNCHANGED <<docs, world, found, check, hist>>

\* "A queued message is not a sent message."
Taken(m) ==
    /\ at[m] = "calling" /\ (m \in OnAccount => account)
    /\ Step(m, "count")
    /\ Put(m, IF m \in Queueing THEN "dispatched" ELSE "sent", "none")
    /\ \E f \in {"landed", "lost", "silent"} :
         fate' = IF m \in Queueing THEN [fate EXCEPT ![m] = f] ELSE fate
    /\ UNCHANGED <<chan, on, spent, account, run, found, check, hist>>

Count(m) ==
    /\ at[m] = "count" /\ Step(m, "rest")
    /\ spent' = [spent EXCEPT ![CampaignOf[m]] = @ + 1]
    /\ UNCHANGED <<row, chan, on, world, run, found, check, hist>>

\* Back-pressure: queued again, and the slot handed back.
Throttled(m) ==
    /\ at[m] = "calling" /\ m \in OnAccount /\ Fault("throttle")
    /\ Put(m, "queued", "none") /\ Step(m, "rest")
    /\ run' = [run EXCEPT !.room = @ + 1]
    /\ UNCHANGED <<chan, on, spent, world, found, check, torn, stopped, books>>

\* ChannelDownError: queued again first.
Bounced(m) ==
    /\ at[m] = "calling" /\ m \in OnAccount /\ ~account
    /\ Put(m, "queued", "none") /\ Step(m, "degrade")
    /\ run' = [run EXCEPT !.room = @ + 1]
    /\ UNCHANGED <<chan, on, spent, world, found, check, hist>>

\* A read of the inbox meets the same fault; the poll reads healthy channels.
PollBounced ==
    /\ at["poll"] = "rest" /\ chan.healthy /\ ~account
    /\ Turn
    /\ Step("poll", "degrade")
    /\ UNCHANGED <<docs, world, run, found, check, torn, stopped, books>>

-----------------------------------------------------------------------------
(* takeChannelDown, write by write, by a send or by the poll.              *)

\* Variants: whatever is held on the channel; of running campaigns only.
HeldHereRunning == {m \in OnAccount : row[m] = Is("held", "channel") /\ CampaignOf[m] \in on}
HeldHereAll == {m \in OnAccount : row[m].status = "held"}
\* What releaseChannelHolds puts back.
HeldHere == {m \in OnAccount : row[m] = Is("held", "channel")}

\* The credential and the connection, two writes that evaluateChannel reads as
\* one.
Degrade(h) ==
    /\ at[h] = "degrade" /\ Step(h, "judge")
    /\ chan' = [chan EXCEPT !.conn = FALSE]
    /\ UNCHANGED <<row, on, spent, world, run, found, check, hist>>

\* refreshChannelHealth: evaluateChannel reads, then the verdict is written.
Judge(h) ==
    /\ at[h] = "judge" /\ Step(h, "mark")
    /\ found' = [found EXCEPT ![h] = chan.conn]
    /\ UNCHANGED <<docs, world, run, check, hist>>

\* The person at the console goes on only where the verdict is good.
Mark(h) ==
    /\ at[h] = "mark"
    /\ Step(h, CASE h # "console" -> "explain" [] found[h] -> "clear" [] OTHER -> "rest")
    /\ chan' = [chan EXCEPT !.healthy = found[h]]
    /\ found' = [found EXCEPT ![h] = TRUE]
    /\ UNCHANGED <<row, on, spent, world, run, check, hist>>

Explain(h) ==
    /\ at[h] = "explain" /\ Step(h, "sweep")
    /\ chan' = [chan EXCEPT !.down = TRUE]
    /\ UNCHANGED <<row, on, spent, world, run, found, check, hist>>

QueuedHere == {m \in OnAccount : row[m].status = "queued"}

Sweep(h) ==
    /\ at[h] = "sweep"
    /\ Step(h, IF h \in Msgs THEN "mine" ELSE "rest")
    /\ row' = Held(QueuedHere, "channel")
    /\ UNCHANGED <<chan, on, spent, world, run, found, check, hist>>

\* "This message is held by name", and the run sends no more here.
HoldMine(m) ==
    /\ at[m] = "mine" /\ Step(m, "rest")
    /\ Put(m, "held", "channel")
    /\ run' = [run EXCEPT !.room = 0]
    /\ UNCHANGED <<chan, on, spent, world, found, check, hist>>

-----------------------------------------------------------------------------
(* createLinkedInChannel for an account that is connected already.         *)

AtWork == {h \in Hands : at[h] \in Taking \cup {"hold"}}

Reconnect ==
    /\ ~Reconnecting /\ ~chan.healthy
    /\ account' = TRUE
    /\ Step("console", "repair")
    /\ Crosses(AtWork # {})
    /\ UNCHANGED <<docs, fate, run, found, check, torn, stopped, books>>

Repair ==
    /\ at["console"] = "repair" /\ Step("console", "judge")
    /\ chan' = [chan EXCEPT !.conn = TRUE]
    /\ UNCHANGED <<row, on, spent, world, run, found, check, hist>>

\* releaseChannelHolds
Clear ==
    /\ at["console"] = "clear" /\ Step("console", "free")
    /\ chan' = [chan EXCEPT !.down = FALSE]
    /\ UNCHANGED <<row, on, spent, world, run, found, check, hist>>

Queued(those) == [m \in Msgs |-> IF m \in those THEN Is("queued", "none") ELSE row[m]]

Free ==
    /\ at["console"] = "free" /\ Step("console", "rest")
    /\ row' = Queued(HeldHere)
    /\ UNCHANGED <<chan, on, spent, world, run, found, check, hist>>

-----------------------------------------------------------------------------
(* toggleGoal.                                                             *)

Pause(g) ==
    /\ at["switch"] = "rest" /\ g \in on /\ Fault("pause")
    /\ on' = on \ {g}
    /\ Step("switch", "pausing")
    /\ UNCHANGED <<row, chan, spent, world, run, found, check, torn, stopped, books>>

QueuedOff == {m \in Msgs : row[m].status = "queued" /\ CampaignOf[m] \notin on}

\* The queue of the campaign just paused; one paused before has none left.
Paused ==
    /\ at["switch"] = "pausing" /\ Step("switch", "rest")
    /\ \E g \in Campaigns \ on :
         LET those == {m \in QueuedOff : CampaignOf[m] = g}
         IN  /\ row' = Held(those, "campaign")
             /\ stopped' = stopped \cup {m \in those : at[m] = "rest"}
    /\ UNCHANGED <<chan, on, spent, world, run, found, check, torn, books, faults>>

Resume(g) ==
    /\ at["switch"] = "rest" /\ g \notin on
    /\ on' = on \cup {g}
    /\ Step("switch", "resuming")
    /\ UNCHANGED <<row, chan, spent, world, run, found, check, hist>>

\* Every held message of the product, whatever holds it and in any campaign.
Resumed ==
    /\ at["switch"] = "resuming" /\ Step("switch", "rest")
    /\ row' = Queued({m \in Msgs : row[m].status = "held"})
    /\ stopped' = {}
    /\ UNCHANGED <<chan, on, spent, world, run, found, check, torn, books, faults>>

-----------------------------------------------------------------------------
(* reconcileDispatched.                                                    *)

\* Variant: whatever a provider was given.
PendingAll == {m \in Queueing : row[m].status \in {"dispatched", "sent", "failed"}}
Pending == {m \in Msgs : row[m].status = "dispatched"}

\* One that learns nothing of a message leaves it.
Answered == {m \in Pending : fate[m] # "silent"}

Listed(c) == check[c].todo \cup check[c].owes

\* Nothing keeps two ticks' reconciliations apart.
List(c) ==
    /\ check[c] = NoCheck /\ Answered # {}
    /\ Turn
    /\ check' = [check EXCEPT ![c].todo = Answered]
    /\ twice' = twice \cup {m \in Answered : \E o \in Checks : m \in Listed(o)}
    /\ UNCHANGED <<docs, world, run, at, found, torn, stopped, missed, kept>>

\* What became of it is written whatever the row says by now.
Confirm(c, m) ==
    /\ m \in check[c].todo /\ check[c].owes = {} /\ fate[m] = "landed"
    /\ Put(m, "sent", "none")
    /\ check' = [check EXCEPT ![c].todo = @ \ {m}]
    /\ UNCHANGED <<chan, on, spent, world, run, at, found, hist>>

Fail(c, m) ==
    /\ m \in check[c].todo /\ check[c].owes = {} /\ fate[m] = "lost"
    /\ Put(m, "failed", "none")
    /\ check' = [check EXCEPT ![c] = [todo |-> @.todo \ {m}, owes |-> {m}]]
    /\ UNCHANGED <<chan, on, spent, world, run, at, found, hist>>

\* "The goal's budget should only be spent on messages that landed."
Refund(c) ==
    /\ \E m \in check[c].owes : spent' = [spent EXCEPT ![CampaignOf[m]] = @ - 1]
    /\ check' = [check EXCEPT ![c].owes = {}]
    /\ UNCHANGED <<row, chan, on, world, run, at, found, hist>>

\* A run dies with all its sends; a reconciliation or a poll alone.
RunDies ==
    /\ ~Resting \/ run.todo # {}
    /\ Fault("crash")
    /\ run' = [todo |-> {}, room |-> 0]
    /\ at' = [h \in Hands |-> IF h \in Msgs THEN "rest" ELSE at[h]]
    /\ missed' = missed \cup {m \in Msgs : at[m] = "count"}
    /\ UNCHANGED <<twice, kept>>
    /\ torn' = (torn \/ \E m \in Msgs : at[m] = "explain")
    /\ found' = [h \in Hands |-> IF h \in Msgs THEN TRUE ELSE found[h]]
    /\ UNCHANGED <<docs, world, check, stopped>>

PollDies ==
    /\ at["poll"] # "rest" /\ Fault("crash")
    /\ Step("poll", "rest") /\ found' = [found EXCEPT !["poll"] = TRUE]
    /\ torn' = (torn \/ at["poll"] = "explain")
    /\ UNCHANGED <<docs, world, run, check, stopped, books>>

CheckDies(c) ==
    /\ check[c] # NoCheck /\ Fault("crash")
    /\ check' = [check EXCEPT ![c] = NoCheck]
    /\ kept' = kept \cup check[c].owes
    /\ UNCHANGED <<docs, world, run, at, found, torn, stopped, missed, twice>>

-----------------------------------------------------------------------------

Sends(m) ==
    \/ Claim(m) \/ Look(m) \/ Decide(m) \/ WindowFull(m) \/ Launch(m)
    \/ Taken(m) \/ Count(m) \/ Bounced(m) \/ HoldMine(m)
TakesDown(h) == Degrade(h) \/ Judge(h) \/ Mark(h) \/ Explain(h) \/ Sweep(h)
Connects == Repair \/ Clear \/ Free
Switches == Paused \/ Resumed
Reconciles(c) == Refund(c) \/ \E m \in Msgs : Confirm(c, m) \/ Fail(c, m)

Next ==
    \/ SessionEnds \/ Start \/ PollBounced \/ Reconnect \/ Connects \/ Switches
    \/ \E m \in Msgs : Sends(m) \/ Throttled(m)
    \/ \E h \in Hands : TakesDown(h)
    \/ \E g \in Campaigns : Pause(g) \/ Resume(g)
    \/ \E c \in Checks : List(c) \/ Reconciles(c) \/ CheckDies(c)
    \/ RunDies \/ PollDies

Spec == Init /\ [][Next]_vars

\* Ticks come again and again and what lives goes on; nobody has to connect
\* an account, to resume a campaign, or to answer.
Fairness ==
    /\ WF_vars(Start) /\ WF_vars(Connects) /\ WF_vars(Switches)
    /\ \A m \in Msgs : WF_vars(Sends(m))
    /\ \A h \in Hands : WF_vars(TakesDown(h))
    /\ \A c \in Checks : WF_vars(List(c)) /\ WF_vars(Reconciles(c))

FairSpec == Spec /\ Fairness

-----------------------------------------------------------------------------
(* What the console promises.                                              *)

\* "Reconnecting releases them" (channelHealth.ts): no message stays held
\* behind a channel that is healthy, unless somebody was taking it down
\* or holding a message while the account was reconnected.
HeldMeansDown ==
    \A m \in Msgs :
        row[m] = Is("held", "channel") /\ "crossing" \notin faults =>
            ~chan.healthy \/ Reconnecting

\* "A paused campaign's queue on the same channel stays paused"
\* (channelHealth.ts): what a pause held and no run had in hand is not sent,
\* whatever happens to the channel, until a campaign is resumed.
PauseHolds == \A m \in stopped : row[m] = Is("held", "campaign")

Landed(g)   == {m \in Msgs : CampaignOf[m] = g /\ row[m].status \in {"dispatched", "sent"}}
\* Recorded by a run that has still to count them, or that died before it did;
\* the answer may come sooner.
Uncounted(g) == {m \in Msgs : CampaignOf[m] = g /\ (at[m] = "count" \/ m \in missed)}

\* Failed, and the touch still to be given back, or never.
Unreturned(g) ==
    {m \in Msgs : CampaignOf[m] = g /\ (m \in kept \/ \E c \in Checks : m \in check[c].owes)}

\* No two reconciliations had one of its lost messages listed at once.
Once(g) == \A m \in twice : CampaignOf[m] = g => fate[m] # "lost"

\* "The goal's budget should only be spent on messages that landed"
\* (reconcile.ts): a campaign's touches are those messages and no others, in
\* whatever order a touch is counted and given back, but for what a run or a
\* reconciliation is still to write or died before writing; a lost message that
\* two reconciliations had listed at once is given back by both.
TouchesMatch ==
    \A g \in Campaigns :
        Once(g) => spent[g] + Cardinality(Uncounted(g))
                     = Cardinality(Landed(g)) + Cardinality(Unreturned(g))

\* The message waits for a person.
HeldByPerson(m) ==
    \/ row[m].why = "campaign"
    \/ row[m] = Is("held", "channel") /\ ~chan.healthy
Over(m) ==
    \/ row[m].status \in {"sent", "failed"} \/ row[m] = Is("skipped", "budget")
    \/ row[m].status = "dispatched" /\ fate[m] = "silent"

\* "Held rather than skipped, because every one of those messages is still
\* worth sending once the account is back" (channelHealth.ts): every message
\* goes out, or waits for a person, unless a message came to the channel before
\* it had its reason, whoever took it down died before that, or it was
\* reconnected meanwhile.
GoesOrIsHeld == \A m \in Msgs : <>[](Over(m) \/ HeldByPerson(m) \/ torn \/ "crossing" \in faults)
=============================================================================
