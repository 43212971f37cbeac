------------------------------- MODULE Steps -------------------------------
(***************************************************************************)
(* How one campaign of one lead gets its next message: the engine's pass   *)
(* over the campaigns (advance.ts, rolling.ts), the plans a playbook or a  *)
(* session writes for the lead (playbooks.ts, plan_goal), the messages a   *)
(* session writes (compose_batch) and the news that makes a plan stale     *)
(* (news.ts).  A standard campaign runs the steps it was given on arrival; *)
(* a rolling one asks for the next touch or two at every checkpoint.       *)
(*                                                                         *)
(* There is no clock.  Times are compared with the plans' times only, so   *)
(* a moment is the number of plans written by then, and a wait is over     *)
(* when an action says so.  Gates, temperature, channels and wording are   *)
(* left out; whether a lead is worth a session's words is a free choice,   *)
(* except that a composeAll campaign has everything written.               *)
(***************************************************************************)
EXTENDS Integers, FiniteSets, FiniteSetsExt, Sequences, SequencesExt

CONSTANTS
    Starts,    \* the campaigns looked at and how far each has come
    Framed,    \* steps of a rolling plan that go through the campaign's frame
    Worded,    \* steps whose template sends nothing without written words
    Budget,    \* touches the campaign may spend
    Runs,      \* passes of advance that may overlap
    Sessions,  \* working sessions
    Events,    \* which outside events and faults the instance lets happen
    MaxPlans,  \* bound on plans written
    MaxFaults  \* bound on those events and faults together

\* Rolling or standard, with or without fallback emails, everything composed
\* by a session or not, a gate before the send or not.
Campaigns == [rolling : BOOLEAN, fallbacks : BOOLEAN, composeAll : BOOLEAN, reviewed : BOOLEAN]

Stages == {"arrived", "read", "planned"}

ASSUME StepsAssumption ==
    /\ Starts \subseteq Campaigns \X Stages
    /\ Framed \subseteq Nat /\ Worded \subseteq Nat
    /\ Budget \in Nat /\ MaxPlans \in Nat \ {0} /\ MaxFaults \in Nat

VARIABLES
    campaign,  \* the campaign's settings
    plans,     \* plans in the order written: who wrote it, its steps
    cur,       \* currentPlanId, as a place in plans
    rows,      \* the campaign's messages, in the order written
    ask,       \* checkpointAskedAt: its age, the plans before it, news after it
    jobs,      \* the open work item of each kind: its state, when, how old
    person,    \* what is known of the lead: read, news, reply, watch, young
    run,       \* run[r]: what a pass carries
    session,   \* session[s]: what a session is doing
    \* History, read by no action of the code.
    excuses,     \* asks that no plan answered in time
    faults

world == <<campaign, person>>
work  == <<plans, cur, rows, ask, jobs>>
hist  == <<excuses, faults>>
vars  == <<world, work, run, session, hist>>

NoJob == [state |-> "none", known |-> 0, late |-> FALSE]
NoRow == [kind |-> "none", num |-> 0, status |-> "queued", approved |-> FALSE, stale |-> FALSE]
Nothing == [skip |-> {}, row |-> NoRow, hand |-> FALSE, ask |-> FALSE]
NeverAsked == [age |-> "never", known |-> 0, overtaken |-> FALSE]
\* known: plans written when the pass began; plan, ask, reply: the campaign as
\* it was read; heard: news since the pass began; todo: what was decided.
AtRest == [pc |-> "idle", known |-> 0, plan |-> 0, ask |-> NeverAsked, reply |-> "none",
           heard |-> FALSE, todo |-> Nothing]
Off == [pc |-> "off", shift |-> 0, step |-> 0]

Kinds    == {"none", "welcome", "step", "fixed", "fallback", "words"}
Statuses == {"queued", "review", "sending", "sent", "failed", "skipped"}
Row  == [kind : Kinds, num : Nat, status : Statuses, approved : BOOLEAN, stale : BOOLEAN]
Plan == [by : {"playbook", "session"}, steps : SUBSET Nat]
Ask  == [age : {"never", "fresh", "late"}, known : Nat, overtaken : BOOLEAN]
Job  == [state : {"none", "waiting", "taken"}, known : Nat, late : BOOLEAN]
Todo == [skip : SUBSET Nat, row : Row, hand : BOOLEAN, ask : BOOLEAN]
Replied == {"none", "open", "answered"}
Run  == [pc : {"idle", "look", "skip", "insert", "hand", "ask", "stamp"}, known : Nat, plan : Nat,
         ask : Ask, reply : Replied, heard : BOOLEAN, todo : Todo]
Session == [pc : {"off", "plan", "numbered", "inserted", "pointed", "planned", "compose", "checked", "composed"},
            shift : Nat, step : Nat]
Person == [read : {"no", "stamping", "inserted", "stamped", "yes"}, news : Nat, reply : Replied,
           watch : {"none", "open", "over"}, young : BOOLEAN]

TypeOK ==
    /\ campaign \in Campaigns
    /\ plans \in Seq(Plan) /\ cur \in DOMAIN plans
    /\ rows \in Seq(Row)
    /\ ask \in Ask /\ jobs \in [plan : Job, compose : Job]
    /\ person \in Person
    /\ run \in [Runs -> Run] /\ \A r \in Runs : run[r].pc = "look" => run[r].plan \in DOMAIN plans
    /\ session \in [Sessions -> Session]
    /\ \A s \in Sessions : session[s].pc = "inserted" => session[s].step \in DOMAIN plans
    /\ excuses \in Nat /\ faults \in Nat

\* A lead has just arrived, the standard plan stamped and the welcome queued;
\* or has had the welcome, been read and, perhaps, got a first rolling plan.
Arrived ==
    /\ plans = <<[by |-> "playbook", steps |-> {1, 2}]>>
    /\ rows = <<[NoRow EXCEPT !.kind = "welcome"]>>
    /\ person = [read |-> "no", news |-> 0, reply |-> "none", watch |-> "none", young |-> ~campaign.rolling]
Greeted(stage) ==
    /\ plans = IF stage = "read" THEN <<[by |-> "playbook", steps |-> {1, 2}]>>
               ELSE <<[by |-> "session", steps |-> {1}]>>
    /\ rows = <<[NoRow EXCEPT !.kind = "welcome", !.status = "sent"]>>
    /\ person = [read |-> "yes", news |-> 0, reply |-> "none", watch |-> "open", young |-> FALSE]

Init ==
    /\ \E start \in Starts : /\ campaign = start[1]
                             /\ IF start[2] = "arrived" THEN Arrived
                                ELSE campaign.rolling /\ Greeted(start[2])
    /\ cur = 1
    /\ ask = NeverAsked
    /\ jobs = [plan |-> NoJob, compose |-> NoJob]
    /\ run = [r \in Runs |-> AtRest]
    /\ session = [s \in Sessions |-> Off]
    /\ excuses = 0 /\ faults = 0

Fault(name) == name \in Events /\ faults < MaxFaults /\ faults' = faults + 1

\* Approval and staleness are asked of a waiting message only.
Now(row, status) == [row EXCEPT !.status = status, !.approved = FALSE, !.stale = FALSE]

With(status) == {i \in DOMAIN rows : rows[i].status \in status}
Unsent   == {"queued", "review"}
Underway == {"queued", "review", "sending"}
\* A message the provider refused later keeps the touch it spent.
Touches == Cardinality(With({"sent", "failed"}))
Written == {rows[i].num : i \in DOMAIN rows} \ {0}

\* isRollingPlan: plan_goal marks the plans it writes for a rolling campaign.
RollingPlan(v) == campaign.rolling /\ plans[v].by = "session"
\* newsSincePlan
NewsSince(v) == RollingPlan(v) /\ person.news >= v

\* A playbook opens with the welcome; while nothing of a plan was written, a
\* leading step that already went out another way is passed over.
Welcomed == \E i \in With(Underway \cup {"sent"}) : rows[i].kind = "welcome"
OpenSteps(v) ==
    LET started == plans[v].steps \cap Written # {}
    IN  {n \in plans[v].steps \ Written :
           ~(plans[v].by = "playbook" /\ n = 1 /\ ~started /\ Welcomed)}

\* nextStep: the lowest-numbered step nothing was written for.
NextStep(v) == IF OpenSteps(v) = {} THEN 0 ELSE Min(OpenSteps(v))
\* A playbook's welcome is the engine's to render; the rest takes words.
EngineRenders(v, n) == plans[v].by = "playbook" /\ n = 1

-----------------------------------------------------------------------------
(* advance: what a pass decides.                                           *)

\* The campaign is read first, the rest of the documents after it.
Begin(r) ==
    /\ run[r].pc = "idle"
    /\ run' = [run EXCEPT ![r] = [AtRest EXCEPT !.pc = "look", !.known = Len(plans), !.plan = cur,
                                                !.ask = ask, !.reply = person.reply]]
    /\ UNCHANGED <<world, work, session, hist>>

\* What news can still take back: nobody has approved it.
Stale(r) == IF NewsSince(run[r].plan)
            THEN {i \in With(Unsent) : ~rows[i].approved /\ rows[i].stale}
            ELSE {}

Waiting(r) == With(Underway) \ Stale(r) # {}
\* The provider refused a message, and nothing has reached them.
Unreached  == With({"failed"}) # {} /\ With({"sent"}) = {}
Talking(r) == run[r].reply = "open" /\ person.reply = "open"

\* checkpoint: an ask no later plan answered waits or, where there is an email
\* for it, falls back; else the last touch is watched, and then the next plan
\* is asked for.
OpenAsk(r) == ~RollingPlan(run[r].plan) \/ run[r].plan <= run[r].ask.known
Checkpoint(r) ==
    IF \/ run[r].ask.age = "never"
       \/ NewsSince(run[r].plan) /\ run[r].ask.overtaken THEN "ask"
    ELSE IF OpenAsk(r) THEN IF run[r].ask.age = "late" /\ campaign.fallbacks THEN "fallback" ELSE "wait"
    ELSE IF person.watch = "open" THEN "wait" ELSE "ask"

\* A session writes the step: it cannot go without words, or is worth them.
Sessional(v, n, warm) == n \in Worded \/ (warm /\ ~EngineRenders(v, n))
ComposeLate == jobs.compose.state # "none" /\ jobs.compose.late

\* Variant: written copy is waited for as long as it takes.
LateNever(v, n, warm) == IF Sessional(v, n, warm) THEN "hand" ELSE "write"
\* Who writes the step: a session while it may still come, else the engine,
\* which has nothing to send for a template without words and, where there is
\* no fixed email to take its place, for an empty frame.
Late(v, n, warm) ==
    IF Sessional(v, n, warm) /\ ~ComposeLate THEN "hand"
    ELSE IF n \in Worded THEN "wait"
    ELSE IF ~(campaign.rolling /\ n \in Framed) THEN "write"
    ELSE IF Sessional(v, n, warm) /\ campaign.fallbacks THEN "swap"
    ELSE "wait"

\* What the pass does for this lead; warm: worth a session's words.
Choice(r, warm) ==
    LET v    == run[r].plan
        step == IF campaign.rolling /\ (~RollingPlan(v) \/ NewsSince(v)) THEN 0 ELSE NextStep(v)
        held == \/ Waiting(r) \/ Unreached \/ Talking(r)
                \/ campaign.rolling /\ person.read = "no"
                \/ /\ ~campaign.rolling /\ campaign.fallbacks
                   /\ plans[v].by = "playbook" /\ person.young
    IN  IF held THEN "wait"
        ELSE IF step # 0 THEN Late(v, step, warm)
        ELSE IF campaign.rolling THEN Checkpoint(r)
        ELSE "wait"

Verdicts(r) == {Choice(r, warm) : warm \in IF campaign.composeAll THEN {TRUE} ELSE BOOLEAN}

MessageFor(r, choice) ==
    LET n == NextStep(run[r].plan)
    IN  CASE choice = "write"    -> [NoRow EXCEPT !.kind = IF EngineRenders(run[r].plan, n) THEN "welcome" ELSE "step",
                                                  !.num = n]
          [] choice = "swap"     -> [NoRow EXCEPT !.kind = "fixed", !.num = n]
          [] choice = "fallback" -> [NoRow EXCEPT !.kind = "fallback"]
          [] OTHER               -> NoRow

Decisions(r) ==
    {[skip |-> Stale(r), row |-> MessageFor(r, choice),
      hand |-> choice = "hand", ask |-> choice \in {"ask", "fallback"}] : choice \in Verdicts(r)}

\* The writes a pass has left, in the order it makes them.
Phases == <<"skip", "insert", "hand", "ask", "stamp">>
Due(todo) == (IF todo.skip # {} THEN {"skip"} ELSE {}) \cup (IF todo.row.kind # "none" THEN {"insert"} ELSE {})
             \cup (IF todo.hand THEN {"hand"} ELSE {}) \cup (IF todo.ask THEN {"ask", "stamp"} ELSE {})
Go(r, todo, after) ==
    LET left == {k \in DOMAIN Phases : k > after /\ Phases[k] \in Due(todo)}
    IN  run' = [run EXCEPT ![r] =
           IF left = {} THEN AtRest
           ELSE [AtRest EXCEPT !.pc = Phases[Min(left)], !.todo = todo,
                   !.known = IF todo.ask THEN run[r].known ELSE 0, !.heard = todo.ask /\ run[r].heard]]
Advances(r, phase) ==
    \E k \in DOMAIN Phases :
        /\ Phases[k] = phase /\ run[r].pc = phase /\ Go(r, run[r].todo, k)

Look(r) ==
    /\ run[r].pc = "look"
    /\ \E todo \in Decisions(r) : Go(r, todo, 0)
    /\ UNCHANGED <<world, work, session, hist>>

-----------------------------------------------------------------------------
(* advance: the pass writes, in this order.                                *)

\* Variant: whatever has become of the messages since they were read.
TakenBackBlindly(r) == run[r].todo.skip \cap With(Unsent)
\* Only while still unapproved: a message approved in the meantime stands.
TakenBack(r) == {i \in run[r].todo.skip \cap With(Unsent) : ~rows[i].approved}

SkipStale(r) ==
    /\ Advances(r, "skip")
    /\ rows' = [i \in DOMAIN rows |-> IF i \in TakenBack(r) THEN Now(rows[i], "skipped") ELSE rows[i]]
    /\ UNCHANGED <<world, plans, cur, ask, jobs, session, hist>>

\* The unique key: a step's number, or nothing for a fixed email.
Inserted(row) == IF row.kind = "none" \/ row.num \in Written THEN rows ELSE Append(rows, row)

InsertRow(r) ==
    /\ Advances(r, "insert")
    /\ rows' = Inserted(run[r].todo.row)
    /\ UNCHANGED <<world, plans, cur, ask, jobs, session, hist>>

\* enqueueMany: one open item per subject.
Enqueued(kind, wanted) ==
    IF wanted /\ jobs[kind].state = "none"
    THEN [jobs EXCEPT ![kind].state = "waiting", !.plan.known = IF kind = "plan" THEN Len(plans) ELSE @]
    ELSE jobs

HandOver(r) ==
    /\ Advances(r, "hand")
    /\ jobs' = Enqueued("compose", run[r].todo.hand)
    /\ UNCHANGED <<world, plans, cur, rows, ask, session, hist>>

AskForPlan(r) ==
    /\ Advances(r, "ask")
    /\ jobs' = Enqueued("plan", run[r].todo.ask)
    /\ UNCHANGED <<world, plans, cur, rows, ask, session, hist>>

\* Variant: the ask is stamped once, and not again after a fallback.
StampedOnce(r) == IF ask.age = "never"
                  THEN [age |-> "fresh", known |-> run[r].known, overtaken |-> run[r].heard] ELSE ask
\* checkpointAskedAt is the moment the pass began.
Stamped(r) == [age |-> "fresh", known |-> run[r].known, overtaken |-> run[r].heard]

StampAsk(r) ==
    /\ Advances(r, "stamp")
    /\ ask' = Stamped(r)
    /\ UNCHANGED <<world, plans, cur, rows, jobs, session, hist>>

Crash(r) ==
    /\ run[r].pc # "idle" /\ Fault("crash")
    /\ run' = [run EXCEPT ![r] = AtRest] /\ excuses' = excuses + 1
    /\ UNCHANGED <<world, work, session>>

-----------------------------------------------------------------------------
(* Plans: a playbook stamped by classify, plan_goal of a session.          *)

\* A plan is written first and pointed at after; its moment is its insertion.
InsertPlan(by, steps) ==
    /\ Len(plans) < MaxPlans
    /\ plans' = Append(plans, [by |-> by, steps |-> steps])

\* What waits from the plan being replaced is skipped and its number freed.
Released(i, waiting) == rows[i].status \in waiting /\ rows[i].num # 0
Release(waiting) ==
    rows' = [i \in DOMAIN rows |-> IF Released(i, waiting)
                                   THEN [Now(rows[i], "skipped") EXCEPT !.num = 0] ELSE rows[i]]

\* stampPlaybook: not over a session's plan, and not past the first touch.
MayStamp == plans[cur].by = "playbook" /\ Touches <= 1

\* classify: the lead is read, and its segment may have its own playbook.
Classify ==
    /\ person.read = "no"
    /\ \/ person' = [person EXCEPT !.read = "yes"]
       \/ MayStamp /\ person' = [person EXCEPT !.read = "stamping"]
    /\ UNCHANGED <<campaign, work, run, session, hist>>

StampPlaybook ==
    /\ person.read = "stamping"
    /\ InsertPlan("playbook", {1, 2, 3})
    /\ person' = [person EXCEPT !.read = "inserted"]
    /\ UNCHANGED <<campaign, cur, rows, ask, jobs, run, session, hist>>

LastPlaybook(v) == plans[v].by = "playbook" /\ \A w \in v + 1 .. Len(plans) : plans[w].by # "playbook"

PointAtStamped ==
    /\ person.read = "inserted"
    /\ \E v \in DOMAIN plans : LastPlaybook(v) /\ cur' = v
    /\ person' = [person EXCEPT !.read = "stamped"]
    /\ UNCHANGED <<campaign, plans, rows, ask, jobs, run, session, hist>>

\* Only what is queued: a message in review keeps its place and its number.
ReleaseStamped ==
    /\ person.read = "stamped" /\ Release({"queued"})
    /\ person' = [person EXCEPT !.read = "yes"]
    /\ UNCHANGED <<campaign, plans, cur, ask, jobs, run, session, hist>>

\* detectWork: a lead read, and still on the standard steps.  How often it
\* asks (once in twelve hours) is left open.
DetectPlan ==
    /\ campaign.fallbacks /\ person.read = "yes" /\ plans[cur].by = "playbook"
    /\ jobs' = Enqueued("plan", TRUE)
    /\ jobs' # jobs
    /\ UNCHANGED <<world, plans, cur, rows, ask, run, session, hist>>

\* next_work: an item already answered is finished and not handed out.
PlanAnswered == IF campaign.rolling THEN RollingPlan(cur) /\ cur > jobs.plan.known
                ELSE plans[cur].by # "playbook"
ComposeAnswered == With(Underway) # {}
Answered(kind) == IF kind = "plan" THEN PlanAnswered ELSE ComposeAnswered

Take(s, kind) ==
    /\ session[s].pc = "off" /\ jobs[kind].state = "waiting"
    /\ IF Answered(kind)
       THEN jobs' = [jobs EXCEPT ![kind] = NoJob] /\ UNCHANGED session
       ELSE /\ jobs' = [jobs EXCEPT ![kind].state = "taken"]
            /\ session' = [session EXCEPT ![s].pc = kind]
    /\ UNCHANGED <<world, plans, cur, rows, ask, run, hist>>

\* Numbers of messages no longer waiting stay spent: on a clash the whole
\* plan moves past the highest of them.
Taken == {rows[i].num : i \in {j \in DOMAIN rows : rows[j].status \notin Unsent}} \ {0}
Shift(steps) == IF steps \cap Taken # {} THEN Max(Taken) ELSE 0

Number(s) ==
    /\ session[s].pc = "plan"
    /\ \E n \in 1 .. 2 : session' = [session EXCEPT ![s] = [pc |-> "numbered", shift |-> Shift(1 .. n), step |-> n]]
    /\ UNCHANGED <<world, work, run, hist>>

PlanGoal(s) ==
    /\ session[s].pc = "numbered"
    /\ InsertPlan("session", {n + session[s].shift : n \in 1 .. session[s].step})
    /\ session' = [session EXCEPT ![s] = [Off EXCEPT !.pc = "inserted", !.step = Len(plans) + 1]]
    /\ UNCHANGED <<world, cur, rows, ask, jobs, run, hist>>

PointAtPlan(s) ==
    /\ session[s].pc = "inserted"
    /\ cur' = session[s].step
    /\ session' = [session EXCEPT ![s] = [Off EXCEPT !.pc = "pointed"]]
    /\ UNCHANGED <<world, plans, rows, ask, jobs, run, hist>>

ReleaseReplaced(s) ==
    /\ session[s].pc = "pointed" /\ Release(Unsent)
    /\ session' = [session EXCEPT ![s].pc = "planned"]
    /\ UNCHANGED <<world, plans, cur, ask, jobs, run, hist>>

-----------------------------------------------------------------------------
(* compose_batch: the step must be open, nothing waiting, no news.         *)

Refused(n) == n = 0 \/ EngineRenders(cur, n) \/ NewsSince(cur) \/ ComposeAnswered

CheckStep(s) ==
    /\ session[s].pc = "compose"
    /\ LET n == NextStep(cur)
       IN  session' = [session EXCEPT ![s] = IF Refused(n) THEN [Off EXCEPT !.pc = "composed"]
                                             ELSE [Off EXCEPT !.pc = "checked", !.step = n]]
    /\ UNCHANGED <<world, work, run, hist>>

Compose(s) ==
    /\ session[s].pc = "checked"
    /\ rows' = Inserted([NoRow EXCEPT !.kind = "words", !.num = session[s].step])
    /\ session' = [session EXCEPT ![s] = [Off EXCEPT !.pc = "composed"]]
    /\ UNCHANGED <<world, plans, cur, ask, jobs, run, hist>>

\* finish_work
FinishWork(s) ==
    /\ session[s].pc \in {"planned", "composed"}
    /\ jobs' = [jobs EXCEPT ![IF session[s].pc = "planned" THEN "plan" ELSE "compose"] = NoJob]
    /\ session' = [session EXCEPT ![s] = Off]
    /\ UNCHANGED <<world, plans, cur, rows, ask, run, hist>>

\* A session that dies or does nothing: its item comes back, or is lost with it.
GiveUp(s) ==
    /\ session[s].pc # "off" /\ Fault("giveUp")
    /\ LET kind == IF session[s].pc \in {"compose", "checked", "composed"} THEN "compose" ELSE "plan"
       IN  \/ jobs' = [jobs EXCEPT ![kind].state = "waiting"]
           \/ jobs' = [jobs EXCEPT ![kind] = NoJob]
    /\ session' = [session EXCEPT ![s] = Off]
    /\ UNCHANGED <<world, plans, cur, rows, ask, run, excuses>>

-----------------------------------------------------------------------------
(* The send path, the lead, the people and the clock.                      *)

Move(i, from, to) == rows[i].status = from /\ rows' = [rows EXCEPT ![i] = Now(rows[i], to)]

Claim(i) ==
    /\ rows[i].status = "queued"
    /\ rows' = [rows EXCEPT ![i].status = "sending"]
    /\ UNCHANGED <<world, plans, cur, ask, jobs, run, session, hist>>

\* A message nobody has approved stops at the gate.
Gated(i) == campaign.reviewed /\ ~rows[i].approved
Park(i) ==
    /\ rows[i].status = "sending" /\ Gated(i)
    /\ rows' = [rows EXCEPT ![i].status = "review"]
    /\ UNCHANGED <<world, plans, cur, ask, jobs, run, session, hist>>

\* A message that goes out is watched, and is the answer to an earlier reply.
Deliver(i) ==
    /\ ~Gated(i) /\ Move(i, "sending", "sent")
    /\ person' = [person EXCEPT !.watch = "open",
                                !.reply = IF @ = "open" THEN "answered" ELSE @]
    /\ UNCHANGED <<campaign, plans, cur, ask, jobs, run, session, hist>>

\* The provider reports later that it did not deliver.
Refuse(i) ==
    /\ Move(i, "sent", "failed") /\ Fault("refuse")
    /\ UNCHANGED <<world, plans, cur, ask, jobs, run, session, excuses>>

\* fireDue passes a message over for good, for a reason of the send path's; a
\* reviewer rejects what nobody has approved.
Discard(i) ==
    /\ rows[i].status = "sending" \/ (rows[i].status \in Unsent /\ ~rows[i].approved)
    /\ Move(i, rows[i].status, "skipped") /\ Fault("discard")
    /\ UNCHANGED <<world, plans, cur, ask, jobs, run, session, excuses>>

Approve(i) ==
    /\ rows[i].status \in Unsent /\ ~rows[i].approved
    /\ rows' = [rows EXCEPT ![i].status = "queued", ![i].approved = TRUE]
    /\ UNCHANGED <<world, plans, cur, ask, jobs, run, session, hist>>

\* pauseForReply: the campaign's waiting messages are dropped.
Reply ==
    /\ person.reply = "none" /\ Touches > 0 /\ Fault("reply")
    /\ person' = [person EXCEPT !.reply = "open"]
    /\ rows' = [i \in DOMAIN rows |-> IF rows[i].status \in Unsent THEN Now(rows[i], "skipped") ELSE rows[i]]
    /\ UNCHANGED <<campaign, plans, cur, ask, jobs, run, session, excuses>>

\* A person marks the reply answered: the window runs from there.
Answer ==
    /\ person.reply = "open"
    /\ person' = [person EXCEPT !.reply = "answered", !.watch = "open"]
    /\ UNCHANGED <<campaign, work, run, session, hist>>

\* recordNews: later than every plan, message and ask there is.
News ==
    /\ Fault("news")
    /\ person' = [person EXCEPT !.news = Len(plans)]
    /\ rows' = [i \in DOMAIN rows |-> [rows[i] EXCEPT !.stale = rows[i].status \in Underway]]
    /\ ask' = [ask EXCEPT !.overtaken = ask.age # "never"]
    /\ run' = [r \in Runs |-> [run[r] EXCEPT !.heard = run[r].pc = "look" \/ run[r].todo.ask,
                                            !.todo.row.stale = run[r].todo.row.kind # "none"]]
    /\ UNCHANGED <<campaign, plans, cur, jobs, session, excuses>>

\* CHECKPOINT_PLAN_WAIT_MS, COMPOSE_WAIT_MS, WATCH_WINDOW_MS, PLAN_WAIT_MS
AskGetsLate ==
    /\ ask.age = "fresh" /\ ask' = [ask EXCEPT !.age = "late"]
    /\ excuses' = excuses + 1
    /\ UNCHANGED <<world, plans, cur, rows, jobs, run, session, faults>>
ComposeGetsLate ==
    /\ jobs.compose.state # "none" /\ ~jobs.compose.late
    /\ jobs' = [jobs EXCEPT !.compose.late = TRUE]
    /\ UNCHANGED <<world, plans, cur, rows, ask, run, session, hist>>
\* A click or a reply ends the window at once.
WindowCloses ==
    /\ person.watch = "open" /\ person' = [person EXCEPT !.watch = "over"]
    /\ UNCHANGED <<campaign, work, run, session, hist>>
StandardWaitOver ==
    /\ person.young /\ person' = [person EXCEPT !.young = FALSE]
    /\ UNCHANGED <<campaign, work, run, session, hist>>

Pass(r)    == \/ Begin(r) \/ Look(r) \/ SkipStale(r) \/ InsertRow(r)
              \/ HandOver(r) \/ AskForPlan(r) \/ StampAsk(r)
Working(s) == \/ Number(s) \/ PlanGoal(s) \/ PointAtPlan(s) \/ ReleaseReplaced(s)
              \/ CheckStep(s) \/ Compose(s) \/ FinishWork(s)
Clock      == AskGetsLate \/ ComposeGetsLate \/ WindowCloses \/ StandardWaitOver

\* The story ends with the last touch: no pass looks at the campaign again.
Going == Touches < Budget

Next ==
    /\ Going
    /\ \/ \E r \in Runs : Pass(r) \/ Crash(r)
       \/ \E s \in Sessions : Working(s) \/ GiveUp(s) \/ (\E kind \in DOMAIN jobs : Take(s, kind))
       \/ Classify \/ StampPlaybook \/ PointAtStamped \/ ReleaseStamped \/ DetectPlan
       \/ \E i \in DOMAIN rows : \/ Claim(i) \/ Park(i) \/ Deliver(i) \/ Refuse(i)
                                \/ Discard(i) \/ Approve(i)
       \/ Reply \/ Answer \/ News
       \/ Clock

Spec == Init /\ [][Next]_vars

\* The cron ticks and sends, times pass, and a pass once begun goes on.
\* Nothing is asked of people and of sessions: they need not come, nor
\* approve, answer or write anything.
Fairness ==
    /\ \A r \in Runs : WF_vars(Going /\ Pass(r))
    /\ WF_vars(Going /\ \E i \in DOMAIN rows : Claim(i) \/ Park(i) \/ Deliver(i))
    /\ WF_vars(Going /\ Clock)

FairSpec == Spec /\ Fairness

-----------------------------------------------------------------------------
(* What the lead is promised.                                              *)

\* Nothing more is due: the budget is spent, a reply is being answered, the
\* lead has not been read, or the standard steps have all been written.
Resting ==
    \/ Touches = Budget
    \/ person.reply = "open"
    \/ campaign.rolling /\ person.read # "yes"
    \/ ~campaign.rolling /\ NextStep(cur) = 0 /\ With(Underway) = {}

\* It is somebody else's turn, and the code waits for as long as that takes: a
\* reviewer has the message, or the provider refused all there was; a session
\* has been asked for words there is nothing to send instead of; an empty
\* frame is nobody's to write; a plan asked for never came and the campaign
\* has no email for that case.
AwaitsPeople ==
    \/ With({"review"}) # {} \/ Unreached
    \/ NextStep(cur) \in Worded /\ jobs.compose.state # "none"
    \/ /\ campaign.rolling /\ NextStep(cur) \in Framed
       /\ IF campaign.composeAll THEN ~campaign.fallbacks /\ jobs.compose.state # "none"
          ELSE TRUE
    \/ campaign.rolling /\ ~campaign.fallbacks /\ ask.age = "late"

\* "a routine that is down costs a lead one generic message rather than
\* silence" (advance.ts:503): whatever sessions do or fail to do, news, crashes
\* and replaced plans, the campaign goes on until there is nothing to do, but
\* for the waits above, which the code itself chooses.  A campaign with fixed
\* emails, everything composed and no gate has none of them but for words a
\* provider's template cannot do without, and then the asking stands.
NeverSilent == []<>(Resting \/ AwaitsPeople)

\* One generic message, not several: with one pass at a time each fallback
\* stands for an ask that stayed unanswered or a pass that died.
FallbackPerAsk == Cardinality({i \in DOMAIN rows : rows[i].kind = "fallback"}) <= excuses

\* "a message somebody approved in the meantime stands" (advance.ts): only a
\* new plan or the lead's reply takes an approved message back.
ApprovedStands ==
    [][\A i \in DOMAIN rows :
          rows[i].approved /\ rows[i].status = "queued" /\ rows'[i].status = "skipped"
          => rows'[i].num # rows[i].num \/ person'.reply # person.reply]_vars
=============================================================================
