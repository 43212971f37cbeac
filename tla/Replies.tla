------------------------------ MODULE Replies ------------------------------
(***************************************************************************)
(* How a lead's words are heard.  They come in as mail, which the engine   *)
(* polls (inbound.ts), or as chat messages a provider posts to a webhook   *)
(* (whatsappInbound.ts); both are recorded as events and then acted on:    *)
(* an opt-out ends everything, an away message holds the campaign, any     *)
(* other answer pauses it (campaignRules.ts) and is answered by the engine *)
(* where one word asks for one thing (replyIntents.ts), else by a session. *)
(* Meanwhile the send path goes on with the campaign's messages.           *)
(*                                                                         *)
(* One lead, one campaign, one mailbox.  There is no clock.  A mail not    *)
(* yet read has an age, in ticks no poll outlives, and is passed once a    *)
(* poll's stamp has moved the window beyond it.  Whether words were        *)
(* written before a reply came is a question of order, so a moment is the  *)
(* number of messages the lead had written by then.  LinkedIn's door has   *)
(* the shape of the mailbox's; bounces, the sales team's holds, lengths of *)
(* absences and wording are left out.                                      *)
(***************************************************************************)
EXTENDS Integers, FiniteSets, Sequences

CONSTANTS
    Mails,     \* what the lead may write
    KindsOf,   \* KindsOf[m]: what it may be: "reply", "call" (one word), "stop", "away"
    DoorOf,    \* DoorOf[m]: "mail" or "chat"
    Msgs,      \* messages the campaign may write
    Calls,     \* how many polls and webhook calls may be going on at once
    Overlap,   \* ticks before the last poll's end that the next one looks back
    Events,    \* which faults the instance lets happen
    MaxFaults  \* bound on faults

ASSUME RepliesAssumption ==
    /\ IsFiniteSet(Mails)
    /\ KindsOf \in [Mails -> SUBSET {"reply", "call", "stop", "away"}]
    /\ DoorOf \in [Mails -> {"mail", "chat"}]
    /\ Calls \in Nat /\ Overlap \in Nat \ {0} /\ MaxFaults \in Nat

VARIABLES
    written,   \* written[m]: as which of theirs, of what kind, how old
    passed,    \* mails older than what the next poll reads (lastInboundPollAt)
    events,    \* events[m]: how often it is recorded, how many are handled
    answered,  \* mails the engine has queued its answer to
    asked,     \* mails a session has been asked to deal with
    camp,      \* the campaign: open, repliedAt, held, handed
    left,      \* what the opt-out has written: "listed", "marked"
    rows,      \* the campaign's messages
    run,       \* run[r]: what a poll or a webhook call is doing
    \* History, read by no action of the code.
    heard,     \* mails acted on to the end
    pausedAt,  \* the newest reply that has paused the campaign
    orphans,   \* mails recorded by a call that died before it was through
    faults

told == <<events, answered, asked, camp, left, rows>>
hist == <<heard, pausedAt, orphans, faults>>
vars == <<written, passed, told, run, hist>>

Runs == 1 .. Calls
Unwritten == [nth |-> 0, kind |-> "none", age |-> 0]
NoRow == [status |-> "none", after |-> 0, later |-> FALSE, over |-> FALSE]
\* pc: "poll", "hook"; old: begun before the clock last ticked; todo: what the list found; on: the
\* mail in hand; as: how it is read; at: its step.
Off == [pc |-> "off", old |-> FALSE, todo |-> {}, on |-> {}, as |-> "none", at |-> 0]

Kinds == {"reply", "call", "stop", "away", "none"}
Mail == [nth : Nat, kind : Kinds, age : Nat]
Row  == [status : {"none", "queued", "sending", "cleared", "sent", "skipped"}, after : Nat,
         later : BOOLEAN, over : BOOLEAN]
Call == [pc : {"off", "poll", "hook"}, old : BOOLEAN, todo : SUBSET Mails,
         on : SUBSET Mails, as : Kinds, at : 0 .. 5]

TypeOK ==
    /\ written \in [Mails -> Mail]
    /\ passed \subseteq Mails /\ answered \subseteq Mails /\ asked \subseteq Mails
    /\ events \in [Mails -> [recorded : Nat, handled : Nat]]
    /\ camp \in [open : BOOLEAN, repliedAt : Nat, held : BOOLEAN, handed : BOOLEAN]
    /\ left \subseteq {"listed", "marked"}
    /\ rows \in [Msgs -> Row]
    /\ run \in [Runs -> Call]
    /\ heard \subseteq Mails /\ orphans \subseteq Mails
    /\ pausedAt \in Nat /\ faults \in Nat

Init ==
    /\ passed = {}
    /\ written = [m \in Mails |-> Unwritten]
    /\ events = [m \in Mails |-> [recorded |-> 0, handled |-> 0]]
    /\ answered = {} /\ asked = {}
    /\ camp = [open |-> TRUE, repliedAt |-> 0, held |-> FALSE, handed |-> FALSE]
    /\ left = {}
    /\ rows = [i \in Msgs |-> NoRow]
    /\ run = [r \in Runs |-> Off]
    /\ heard = {} /\ pausedAt = 0 /\ orphans = {} /\ faults = 0

Fault(name) == name \in Events /\ faults < MaxFaults /\ faults' = faults + 1

Said == {m \in Mails : written[m].nth > 0}
Moment == Cardinality(Said)

LeadWrites(m) ==
    /\ m \notin Said
    /\ \E kind \in KindsOf[m] :
         written' = [written EXCEPT ![m] = [nth |-> Moment + 1, kind |-> kind, age |-> 0]]
    /\ UNCHANGED <<passed, told, run, hist>>

Known(m) == events[m].recorded > 0
Unread == {m \in Said : DoorOf[m] = "mail" /\ ~Known(m)}

\* A request lives a minute: no call is older than one tick.
Older(m) == IF m \in Unread /\ written[m].age <= Overlap THEN written[m].age + 1 ELSE written[m].age
Tick ==
    /\ \A r \in Runs : ~run[r].old
    /\ Unread # {}
    /\ written' = [m \in Mails |-> [written[m] EXCEPT !.age = Older(m)]]
    /\ run' = [r \in Runs |-> [run[r] EXCEPT !.old = run[r].pc # "off"]]
    /\ <<written, run>>' # <<written, run>>
    /\ UNCHANGED <<passed, told, hist>>

-----------------------------------------------------------------------------
(* pollReplies: list, skip what is known, one mail after the other, stamp. *)

\* Variant: the window starts where the last poll ended.
BehindLast(m) == written[m].age > 0
\* "an hour of it afterwards": the window overlaps the last poll.
Behind(m) == written[m].age > Overlap

Listed == Unread \ passed

\* The next mail of the poll, or its end.
Finished(r) == IF run[r].pc = "poll" THEN [run[r] EXCEPT !.on = {}, !.as = "none", !.at = 0] ELSE Off

\* Once all mails are recorded there is nothing for a poll to find.
Going == \E m \in Mails : DoorOf[m] = "mail" /\ ~Known(m)
\* A new poll or call takes the first place that is free.
Free(r) == run[r].pc = "off" /\ \A o \in Runs : o < r => run[o].pc # "off"

\* A tick that runs into the next is rare enough to be counted as a fault.
List(r) ==
    /\ Going /\ Free(r)
    /\ IF \E o \in Runs : run[o].pc = "poll" THEN Fault("overlap") ELSE UNCHANGED faults
    /\ run' = [run EXCEPT ![r] = [Off EXCEPT !.pc = "poll", !.todo = Listed]]
    /\ UNCHANGED <<written, passed, told, heard, pausedAt, orphans>>

\* No outage lasts as long as the overlap.
Passing(m) == written[m].age < Overlap

\* A list that fails lists nothing, and the poll carries on to its stamp.
ListInVain(r) ==
    /\ Going /\ Free(r) /\ Fault("outage")
    /\ \A m \in Listed : Passing(m)
    /\ run' = [run EXCEPT ![r] = [Off EXCEPT !.pc = "poll"]]
    /\ UNCHANGED <<written, passed, told, heard, pausedAt, orphans>>

\* A mailbox lists the newest first.
Newest(those) == {m \in those : \A o \in those : written[o].nth <= written[m].nth}

Fetch(r) ==
    /\ run[r].pc = "poll" /\ run[r].on = {}
    /\ \E m \in Newest(run[r].todo) :
         run' = [run EXCEPT ![r].todo = @ \ {m}, ![r].on = {m}, ![r].as = written[m].kind, ![r].at = 1]
    /\ UNCHANGED <<written, passed, told, hist>>

FetchInVain(r) ==
    /\ run[r].pc = "poll" /\ run[r].on = {} /\ Fault("outage")
    /\ \E m \in Newest(run[r].todo) : Passing(m) /\ run' = [run EXCEPT ![r].todo = @ \ {m}]
    /\ UNCHANGED <<written, passed, told, heard, pausedAt, orphans>>

Stamp(r) ==
    /\ run[r].pc = "poll" /\ run[r].todo = {} /\ run[r].on = {}
    /\ passed' = {m \in Unread : Behind(m)}
    /\ run' = [run EXCEPT ![r] = Off]
    /\ UNCHANGED <<written, told, hist>>

\* applyWhatsAppEvent: one chat message per call, posted again until a call
\* has recorded it; a provider may also post it while a call is at it.
Posted(m) == \E r \in Runs : run[r].on = {m}

Post(r) ==
    /\ Free(r)
    /\ \E m \in Said :
         /\ DoorOf[m] = "chat" /\ ~Known(m)
         /\ IF Posted(m) THEN Fault("twice") ELSE UNCHANGED faults
         /\ run' = [run EXCEPT ![r] = [Off EXCEPT !.pc = "hook", !.on = {m},
                                                  !.as = written[m].kind, !.at = 1]]
    /\ UNCHANGED <<written, passed, told, heard, pausedAt, orphans>>

Crash(r) ==
    /\ run[r].pc # "off" /\ Fault("crash")
    /\ run' = [run EXCEPT ![r] = Off]
    /\ orphans' = orphans \cup (run[r].on \cap {m \in Mails : Known(m)})
    /\ UNCHANGED <<written, passed, told, heard, pausedAt>>

-----------------------------------------------------------------------------
(* What is done about one message, write by write.                         *)

Script ==
    [stop  |-> <<"record", "list", "mark", "end", "drop">>,
     away  |-> <<"hold", "defer", "record">>,
     reply |-> <<"record", "pause", "sweep", "ask">>,
     call  |-> <<"record", "pause", "sweep", "answer", "settle">>]

At(r, step) == run[r].at > 0 /\ Script[run[r].as][run[r].at] = step

\* On to the next write, or done with the message.
Goes(r) ==
    IF run[r].at < Len(Script[run[r].as])
    THEN run' = [run EXCEPT ![r].at = @ + 1] /\ UNCHANGED heard
    ELSE run' = [run EXCEPT ![r] = Finished(r)] /\ heard' = heard \cup run[r].on

\* Recorded before anything is done about it; an away message after.  Its age
\* matters no more.
Record(r) ==
    /\ At(r, "record") /\ Goes(r)
    /\ events' = [m \in Mails |-> IF m \in run[r].on THEN [events[m] EXCEPT !.recorded = @ + 1] ELSE events[m]]
    /\ written' = [m \in Mails |-> IF m \in run[r].on THEN [written[m] EXCEPT !.age = 0] ELSE written[m]]
    /\ passed' = passed \ run[r].on
    /\ UNCHANGED <<answered, asked, camp, left, rows, pausedAt, orphans, faults>>

Waiting == {i \in Msgs : rows[i].status = "queued"}
Skipped(those) == [i \in Msgs |-> IF i \in those THEN [NoRow EXCEPT !.status = "skipped"] ELSE rows[i]]

\* unsubscribePerson: nothing more for someone marked suppressed already.
ListAddress(r) ==
    /\ At(r, "list")
    /\ IF "marked" \in left
       THEN run' = [run EXCEPT ![r] = Finished(r)] /\ heard' = heard \cup run[r].on /\ UNCHANGED left
       ELSE Goes(r) /\ left' = left \cup {"listed"}
    /\ UNCHANGED <<written, passed, events, answered, asked, camp, rows, pausedAt, orphans, faults>>

MarkPerson(r) ==
    /\ At(r, "mark") /\ Goes(r)
    /\ left' = left \cup {"marked"}
    /\ UNCHANGED <<written, passed, events, answered, asked, camp, rows, pausedAt, orphans, faults>>

EndCampaign(r) ==
    /\ At(r, "end") /\ Goes(r)
    /\ camp' = [camp EXCEPT !.open = FALSE]
    /\ UNCHANGED <<written, passed, events, answered, asked, left, rows, pausedAt, orphans, faults>>

DropQueued(r) ==
    /\ At(r, "drop") /\ Goes(r)
    /\ rows' = Skipped(Waiting)
    /\ UNCHANGED <<written, passed, events, answered, asked, camp, left, pausedAt, orphans, faults>>

\* holdCampaigns: a hold running longer is left as it is, queue and all.
Hold(r) ==
    /\ At(r, "hold")
    /\ \/ /\ camp.open /\ camp' = [camp EXCEPT !.held = TRUE] /\ Goes(r)
       \/ /\ camp.held \/ ~camp.open
          /\ run' = [run EXCEPT ![r].at = 3] /\ UNCHANGED <<camp, heard>>
    /\ UNCHANGED <<written, passed, events, answered, asked, left, rows, pausedAt, orphans, faults>>

DeferQueued(r) ==
    /\ At(r, "defer") /\ Goes(r)
    /\ rows' = [i \in Msgs |-> IF i \in Waiting THEN [rows[i] EXCEPT !.later = TRUE] ELSE rows[i]]
    /\ UNCHANGED <<written, passed, events, answered, asked, camp, left, pausedAt, orphans, faults>>

\* The day after they are back: the hold is over, what waited for it is due.
HoldEnds ==
    /\ camp.held
    /\ camp' = [camp EXCEPT !.held = FALSE]
    /\ rows' = [i \in Msgs |-> [rows[i] EXCEPT !.later = FALSE]]
    /\ UNCHANGED <<written, passed, events, answered, asked, left, run, hist>>

\* pauseForReply.
Nth(r) == CHOOSE n \in {written[m].nth : m \in run[r].on} : TRUE
\* The newest reply counts, in whatever order replies are read.
RepliedAt(r) == IF Nth(r) > camp.repliedAt THEN Nth(r) ELSE camp.repliedAt

Pause(r) ==
    /\ At(r, "pause") /\ Goes(r)
    /\ camp' = [camp EXCEPT !.repliedAt = RepliedAt(r)]
    /\ pausedAt' = IF Nth(r) > pausedAt THEN Nth(r) ELSE pausedAt
    /\ UNCHANGED <<written, passed, events, answered, asked, left, rows, orphans, faults>>

Sweep(r) ==
    /\ At(r, "sweep") /\ Goes(r)
    /\ rows' = Skipped(Waiting)
    /\ UNCHANGED <<written, passed, events, answered, asked, camp, left, pausedAt, orphans, faults>>

\* detectMovement: urgent work for a session.
AskSession(r) ==
    /\ At(r, "ask") /\ Goes(r)
    /\ asked' = asked \cup run[r].on
    /\ UNCHANGED <<written, passed, events, answered, camp, left, rows, pausedAt, orphans, faults>>

\* One key per word and campaign; the campaign is the one here.
MayAnswer(m) == camp.open /\ m \notin answered

\* answerSimpleReply: what it cannot answer, or another call has answered, goes
\* to a session as usual, which may also be for want of a channel or a calendar.
Answer(r) ==
    /\ At(r, "answer") /\ Goes(r)
    /\ \A m \in run[r].on : MayAnswer(m)
    /\ answered' = answered \cup run[r].on
    /\ UNCHANGED <<written, passed, events, asked, camp, left, rows, pausedAt, orphans, faults>>

CannotAnswer(r) ==
    /\ At(r, "answer")
    /\ run' = [run EXCEPT ![r].as = "reply"]
    /\ UNCHANGED <<written, passed, told, hist>>

\* The campaign is handed over, the event handled.
Settle(r) ==
    /\ At(r, "settle") /\ Goes(r)
    /\ camp' = [camp EXCEPT !.handed = TRUE]
    /\ events' = [m \in Mails |-> IF m \in run[r].on THEN [events[m] EXCEPT !.handled = @ + 1] ELSE events[m]]
    /\ UNCHANGED <<written, passed, answered, asked, left, rows, pausedAt, orphans, faults>>

-----------------------------------------------------------------------------
(* The campaign's messages and the send path.                              *)

\* advance or a session writes a message; a reply nobody handled stops neither
\* a session that had begun nor a pass that had looked before it came.
WriteRow(i) ==
    /\ rows[i].status = "none" /\ camp.open
    /\ rows' = [rows EXCEPT ![i] = [NoRow EXCEPT !.status = "queued", !.after = Moment]]
    /\ UNCHANGED <<written, passed, events, answered, asked, camp, left, run, hist>>

\* over: claimed although a reply newer than its words had paused the campaign.
Claim(i) ==
    /\ rows[i].status = "queued" /\ ~rows[i].later
    /\ rows' = [rows EXCEPT ![i].status = "sending", ![i].over = pausedAt > rows[i].after]
    /\ UNCHANGED <<written, passed, events, answered, asked, camp, left, run, hist>>

\* Variant: the poller has dropped what a reply overtook.
StaleNever(i) == FALSE
\* writtenBeforeReply
Stale(i) == camp.repliedAt > rows[i].after
\* Variant: an opt-out has ended the campaign, and that is enough.
RefusedOpen(i) == ~camp.open \/ Stale(i)
\* blockedReason, asked once more before the message is handed over.
Refused(i) == "listed" \in left \/ ~camp.open \/ Stale(i)

Skip(i) ==
    /\ rows[i].status = "sending" /\ Refused(i)
    /\ rows' = Skipped({i})
    /\ UNCHANGED <<written, passed, events, answered, asked, camp, left, run, hist>>

\* A hold, or one of the send path's own clocks.
Defer(i) ==
    /\ rows[i].status = "sending" /\ ~Refused(i)
    /\ IF camp.held THEN UNCHANGED faults ELSE Fault("clock")
    /\ rows' = [rows EXCEPT ![i].status = "queued", ![i].over = FALSE,
                            ![i].later = camp.held]
    /\ UNCHANGED <<written, passed, events, answered, asked, camp, left, run, heard, pausedAt, orphans>>

\* What has passed the last check is on its way, whatever comes in now.
Clear(i) ==
    /\ rows[i].status = "sending" /\ ~Refused(i) /\ ~camp.held
    /\ rows' = [rows EXCEPT ![i] = [NoRow EXCEPT !.status = "cleared", !.over = rows[i].over]]
    /\ UNCHANGED <<written, passed, events, answered, asked, camp, left, run, hist>>

Send(i) ==
    /\ rows[i].status = "cleared"
    /\ rows' = [rows EXCEPT ![i].status = "sent"]
    /\ UNCHANGED <<written, passed, events, answered, asked, camp, left, run, hist>>

Acts(r) ==
    \/ Record(r) \/ ListAddress(r) \/ MarkPerson(r) \/ EndCampaign(r) \/ DropQueued(r)
    \/ Hold(r) \/ DeferQueued(r) \/ Pause(r) \/ Sweep(r) \/ AskSession(r)
    \/ Answer(r) \/ CannotAnswer(r) \/ Settle(r)

Next ==
    \/ \E m \in Mails : LeadWrites(m)
    \/ Tick \/ HoldEnds
    \/ \E r \in Runs :
         \/ List(r) \/ ListInVain(r) \/ Fetch(r) \/ FetchInVain(r) \/ Stamp(r) \/ Post(r)
         \/ Acts(r) \/ Crash(r)
    \/ \E i \in Msgs : WriteRow(i) \/ Claim(i) \/ Skip(i) \/ Defer(i) \/ Clear(i) \/ Send(i)

Spec == Init /\ [][Next]_vars

\* The cron polls again and again, a provider posts again what no call has
\* recorded, and a live request goes on.
Fairness ==
    /\ WF_vars(\E r \in Runs : List(r)) /\ WF_vars(\E r \in Runs : Post(r))
    /\ \A r \in Runs : WF_vars(Fetch(r)) /\ WF_vars(Stamp(r)) /\ WF_vars(Acts(r))

FairSpec == Spec /\ Fairness

-----------------------------------------------------------------------------
(* What the lead is promised.                                              *)

\* "Overlap is harmless because ids are deduped, and it covers a tick that
\* failed" (inbound.ts): whatever polls fail, die, overlap or end before a
\* mail comes in, all a lead writes is acted on, but for a message that was
\* recorded by a call that died.
EveryWordHeard == \A m \in Mails : m \in Said ~> m \in heard \cup orphans

\* Whoever has asked to be left alone, and been heard, is written to no more:
\* not by a message claimed before, not where a first call died halfway and the
\* next, finding the person marked already, had nothing to do ("Idempotent",
\* unsubscribe.ts).  A message past its last check is beyond recall, and a lead
\* without an address is on no list.
OptedOut == \E m \in heard : written[m].kind = "stop"
OptOutHolds ==
    [][\A i \in Msgs : rows[i].status = "sending" /\ rows'[i].status = "cleared" => ~OptedOut]_vars

\* "The last check before a campaign message reaches someone who has written
\* back in this campaign since it was written" (fireDue.ts): in whatever order
\* replies are read, and however often the message is put off and claimed
\* again, it does not go out over a reply that had paused the campaign.
NotOverTheirWords == \A i \in Msgs : ~(rows[i].status = "sent" /\ rows[i].over)
=============================================================================
