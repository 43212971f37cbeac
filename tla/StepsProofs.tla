---------------------------- MODULE StepsProofs ----------------------------
(***************************************************************************)
(* Theorems about Steps, for any campaign, passes, sessions and bounds.    *)
(***************************************************************************)
EXTENDS Steps, SequenceTheorems, FiniteSetTheorems, WellFoundedInduction, TLAPS

-----------------------------------------------------------------------------
(* The operators the model is built from.                                  *)

\* Among any numbers there is a lowest.
LEMMA Lowest ==
  ASSUME NEW T \in SUBSET Nat, T # {}
  PROVE  Min(T) \in T /\ \A y \in T : Min(T) <= y
  <1> DEFINE Below == {0 .. y : y \in T}
  <1>1. Below \subseteq FiniteSubsetsOf(Nat) /\ Below # {}
    <2>1. \A y \in Nat : 0 .. y \subseteq Nat /\ IsFiniteSet(0 .. y)
      BY FS_Interval
    <2> QED
      BY <2>1 DEF FiniteSubsetsOf
  <1>2. PICK B \in Below : \A C \in Below : ~(<<C, B>> \in StrictSubsetOrdering(Nat))
    <2> HIDE DEF Below
    <2> QED
      BY <1>1, FS_StrictSubsetOrderingWellFounded, WFMin
  <1>3. PICK x \in T : B = 0 .. x
    OBVIOUS
  <1>4. ASSUME NEW y \in T, y < x PROVE FALSE
    <2>1. 0 .. y \subseteq 0 .. x /\ 0 .. x \subseteq Nat
      BY <1>4
    <2>2. x \in 0 .. x /\ x \notin 0 .. y
      BY <1>4
    <2>3. <<0 .. y, 0 .. x>> \in StrictSubsetOrdering(Nat)
      <3>1. 0 .. y # 0 .. x
        BY <2>2
      <3> QED
        BY <2>1, <3>1 DEF StrictSubsetOrdering
    <2> QED
      BY <1>2, <1>3, <2>3
  <1>5. \A y \in T : x <= y
    BY <1>4
  <1> QED
    BY <1>5 DEF Min

\* Among finitely many there is a highest.
LEMMA Highest ==
  ASSUME NEW T \in SUBSET Nat, IsFiniteSet(T), T # {}
  PROVE  Max(T) \in T /\ \A y \in T : y <= Max(T)
  <1> DEFINE Has(U) == \E x \in U : \A y \in U : x >= y
  <1> DEFINE Without == {U \in SUBSET T : U # {} /\ ~Has(U)}
  <1>1. Without = {}
    <2>1. SUFFICES ASSUME Without # {} PROVE FALSE
      OBVIOUS
    <2>2. FiniteSubsetsOf(T) = SUBSET T
      BY FS_FiniteSubsetsOfFinite
    <2>3. IsWellFoundedOn(StrictSubsetOrdering(T), SUBSET T)
      BY <2>2, FS_StrictSubsetOrderingWellFounded
    <2>4. PICK U \in Without : \A V \in Without : ~(<<V, U>> \in StrictSubsetOrdering(T))
      <3>1. Without \subseteq SUBSET T
        OBVIOUS
      <3> HIDE DEF Without
      <3> QED
        BY <2>1, <2>3, <3>1, WFMin
    <2>5. U \in SUBSET T /\ U # {} /\ ~Has(U)
      BY <2>4
    <2>6. PICK x \in U : TRUE
      BY <2>5
    <2>7. <<U \ {x}, U>> \in StrictSubsetOrdering(T)
      BY <2>5, <2>6 DEF StrictSubsetOrdering
    <2>8. U \ {x} = {} \/ Has(U \ {x})
      BY <2>4, <2>5, <2>7
    <2>9. CASE U \ {x} = {}
      BY <2>5, <2>6, <2>9
    <2>10. CASE Has(U \ {x})
      <3>1. PICK z \in U \ {x} : \A y \in U \ {x} : z >= y
        BY <2>10
      <3>2. CASE z >= x
        BY <2>5, <3>1, <3>2
      <3>3. CASE x >= z
        BY <2>5, <2>6, <3>1, <3>3
      <3> QED
        BY <2>5, <3>1, <3>2, <3>3
    <2> QED
      BY <2>8, <2>9, <2>10
  <1>2. \E x \in T : \A y \in T : x >= y
    BY <1>1
  <1> QED
    BY <1>2 DEF Max

\* What is written at the end of a sequence changes nothing before it.
LEMMA Longer ==
  ASSUME NEW S, NEW s \in Seq(S), NEW e \in S
  PROVE  /\ Append(s, e) \in Seq(S)
         /\ DOMAIN Append(s, e) = DOMAIN s \cup {Len(s) + 1} /\ Len(s) + 1 \notin DOMAIN s
         /\ Append(s, e)[Len(s) + 1] = e
         /\ \A n \in DOMAIN s : Append(s, e)[n] = s[n]
  <1>1. /\ Append(s, e) \in Seq(S)
        /\ Len(Append(s, e)) = Len(s) + 1
        /\ \A n \in 1 .. Len(s) : Append(s, e)[n] = s[n]
        /\ Append(s, e)[Len(s) + 1] = e
    BY AppendProperties
  <1>2. /\ DOMAIN s = 1 .. Len(s) /\ Len(s) \in Nat
        /\ DOMAIN Append(s, e) = 1 .. Len(Append(s, e))
    BY <1>1, LenProperties
  <1> QED
    BY <1>1, <1>2

\* Messages changed in place are the same messages.
LEMMA InPlace ==
  ASSUME NEW S, NEW s \in Seq(S), NEW t, t \in [DOMAIN s -> S]
  PROVE  t \in Seq(S) /\ DOMAIN t = DOMAIN s
  <1>1. DOMAIN s = 1 .. Len(s) /\ Len(s) \in Nat
    BY LenProperties
  <1> QED
    BY <1>1

-----------------------------------------------------------------------------
(* Types.                                                                  *)

LEMMA RowTypes ==
  ASSUME TypeOK
  PROVE  rows \in [DOMAIN rows -> Row] /\ IsFiniteSet(DOMAIN rows) /\ DOMAIN rows \subseteq Nat
  <1>1. DOMAIN rows = 1 .. Len(rows) /\ Len(rows) \in Nat /\ rows \in [1 .. Len(rows) -> Row]
    BY LenProperties DEF TypeOK
  <1>2. 1 \in Int /\ Len(rows) \in Int
    BY <1>1
  <1>3. IsFiniteSet(1 .. Len(rows))
    BY <1>2, FS_Interval
  <1> QED
    BY <1>1, <1>3

LEMMA OpenStepsType ==
  ASSUME TypeOK, NEW v \in DOMAIN plans PROVE OpenSteps(v) \subseteq Nat
  <1>1. plans[v] \in Plan
    BY DEF TypeOK
  <1> QED
    BY <1>1 DEF OpenSteps, Plan

LEMMA NextStepType ==
  ASSUME TypeOK, NEW v \in DOMAIN plans PROVE NextStep(v) \in Nat
  BY OpenStepsType, Lowest DEF NextStep

\* Numbers that stay spent are finitely many, so a plan can move past them.
LEMMA ShiftType == ASSUME TypeOK, NEW steps PROVE Shift(steps) \in Nat
  <1>1. IsFiniteSet(DOMAIN rows) /\ rows \in [DOMAIN rows -> Row]
    BY RowTypes
  <1> DEFINE J == {j \in DOMAIN rows : rows[j].status \notin Unsent}
  <1> DEFINE N == {rows[i].num : i \in J}
  <1>2. IsFiniteSet(J)
    BY <1>1, FS_Subset
  <1>3. IsFiniteSet(N)
    <2> DEFINE f == [i \in J |-> rows[i].num]
    <2>1. f \in Surjection(J, N)
      BY DEF Surjection
    <2> QED
      BY <1>2, <2>1, FS_Surjection
  <1>4. Taken \subseteq N /\ Taken \subseteq Nat
    BY <1>1 DEF Taken, Row
  <1>5. IsFiniteSet(Taken)
    BY <1>3, <1>4, FS_Subset
  <1>6. Taken # {} => Max(Taken) \in Nat
    BY <1>4, <1>5, Highest
  <1> QED
    BY <1>6 DEF Shift

\* A pass goes to the first write it still owes, or is over.
Onto(r, todo, k) ==
    run' = [run EXCEPT ![r] = [AtRest EXCEPT !.pc = Phases[k], !.todo = todo,
                                 !.known = IF todo.ask THEN run[r].known ELSE 0,
                                 !.heard = todo.ask /\ run[r].heard]]

GoneOn(r, todo, after) ==
    \/ /\ \A k \in 1 .. 5 : k > after => Phases[k] \notin Due(todo)
       /\ run' = [run EXCEPT ![r] = AtRest]
    \/ \E k \in 1 .. 5 :
         /\ k > after /\ Phases[k] \in Due(todo)
         /\ \A j \in 1 .. 5 : j > after /\ Phases[j] \in Due(todo) => k <= j
         /\ Onto(r, todo, k)

LEMMA GoesOn ==
  ASSUME NEW r, NEW todo, NEW after, Go(r, todo, after) PROVE GoneOn(r, todo, after)
  <1> DEFINE left == {k \in DOMAIN Phases : k > after /\ Phases[k] \in Due(todo)}
  <1>1. DOMAIN Phases = 1 .. 5
    BY DEF Phases
  <1>2. CASE left = {}
    <2>1. run' = [run EXCEPT ![r] = AtRest]
      BY <1>2 DEF Go
    <2> QED
      BY <1>1, <1>2, <2>1 DEF GoneOn
  <1>3. CASE left # {}
    <2>1. left \in SUBSET Nat
      BY <1>1
    <2>2. Min(left) \in left /\ \A j \in left : Min(left) <= j
      <3> HIDE DEF left
      <3> QED
        BY <1>3, <2>1, Lowest
    <2>3. Onto(r, todo, Min(left))
      BY <1>3 DEF Go, Onto
    <2> QED
      BY <1>1, <2>2, <2>3 DEF GoneOn
  <1> QED
    BY <1>2, <1>3

LEMMA PhaseNames == \A k \in 1 .. 5 : Phases[k] \in {"skip", "insert", "hand", "ask", "stamp"}
  BY DEF Phases

LEMMA GoType ==
  ASSUME TypeOK, NEW r \in Runs, NEW todo \in Todo, NEW after, Go(r, todo, after)
  PROVE  run' \in [Runs -> Run] /\ \A q \in Runs : run'[q].pc = "look" => q # r /\ run'[q] = run[q]
  <1>1. run \in [Runs -> Run] /\ AtRest \in Run /\ AtRest.pc = "idle"
    BY DEF TypeOK, AtRest, Run, NeverAsked, Ask, Replied, Nothing, Todo, NoRow, Row, Kinds, Statuses
  <1>2. CASE run' = [run EXCEPT ![r] = AtRest]
    BY <1>1, <1>2
  <1>3. ASSUME NEW k \in 1 .. 5, Onto(r, todo, k)
        PROVE  /\ run' \in [Runs -> Run]
               /\ \A q \in Runs : run'[q].pc = "look" => q # r /\ run'[q] = run[q]
    <2>1. Phases[k] \in {"skip", "insert", "hand", "ask", "stamp"}
      BY PhaseNames
    <2>2. run[r] \in Run /\ run[r].known \in Nat /\ run[r].heard \in BOOLEAN /\ todo.ask \in BOOLEAN
      BY <1>1 DEF Run, Todo
    <2>3. run'[r] \in Run /\ run'[r].pc # "look"
      BY <1>1, <1>3, <2>1, <2>2 DEF Run, Onto
    <2> QED
      BY <1>1, <1>3, <2>3 DEF Onto
  <1> QED
    BY <1>2, <1>3, GoesOn DEF GoneOn

LEMMA MessageType ==
  ASSUME TypeOK, NEW r \in Runs, run[r].plan \in DOMAIN plans, NEW choice
  PROVE  MessageFor(r, choice) \in Row
  <1>1. NextStep(run[r].plan) \in Nat
    BY NextStepType
  <1> QED
    BY <1>1 DEF MessageFor, NoRow, Row, Kinds, Statuses

LEMMA DecisionType ==
  ASSUME TypeOK, NEW r \in Runs, run[r].pc = "look", NEW todo \in Decisions(r)
  PROVE  todo \in Todo
  <1>1. Stale(r) \in SUBSET Nat
    BY RowTypes DEF Stale, With
  <1>2. run[r].plan \in DOMAIN plans
    BY DEF TypeOK
  <1>3. PICK choice : todo = [skip |-> Stale(r), row |-> MessageFor(r, choice),
                              hand |-> choice = "hand", ask |-> choice \in {"ask", "fallback"}]
    BY DEF Decisions
  <1>4. MessageFor(r, choice) \in Row
    BY <1>2, MessageType
  <1> QED
    BY <1>1, <1>3, <1>4 DEF Todo

LEMMA LookType == ASSUME TypeOK, NEW r \in Runs, Look(r) PROVE TypeOK'
  <1>1. run' \in [Runs -> Run] /\ \A q \in Runs : run'[q].pc = "look" => q # r /\ run'[q] = run[q]
    BY DecisionType, GoType DEF Look
  <1> QED
    BY <1>1 DEF TypeOK, Look, world, work, hist

LEMMA AdvancesType ==
  ASSUME TypeOK, NEW r \in Runs, NEW phase, Advances(r, phase)
  PROVE  run' \in [Runs -> Run] /\ \A q \in Runs : run'[q].pc = "look" => q # r /\ run'[q] = run[q]
  <1>1. run[r].todo \in Todo
    BY DEF TypeOK, Run
  <1> QED
    BY <1>1, GoType DEF Advances

LEMMA NowType == ASSUME NEW row \in Row, NEW status \in Statuses PROVE Now(row, status) \in Row
  BY DEF Now, Row

LEMMA BeginType == ASSUME TypeOK, NEW r \in Runs, Begin(r) PROVE TypeOK'
  <1>1. Len(plans) \in Nat /\ DOMAIN plans \subseteq Nat /\ cur \in Nat
    BY LenProperties DEF TypeOK
  <1>2. run' \in [Runs -> Run]
    BY <1>1 DEF TypeOK, Begin, AtRest, Run, Person, Nothing, Todo, NoRow, Row, Kinds, Statuses
  <1>3. \A q \in Runs : run'[q].pc = "look" => run'[q].plan = cur \/ run'[q] = run[q]
    BY DEF TypeOK, Begin, AtRest
  <1> QED
    BY <1>2, <1>3 DEF TypeOK, Begin, world, work, hist

LEMMA SkipStaleType == ASSUME TypeOK, NEW r \in Runs, SkipStale(r) PROVE TypeOK'
  <1>1. run' \in [Runs -> Run] /\ \A q \in Runs : run'[q].pc = "look" => q # r /\ run'[q] = run[q]
    BY AdvancesType DEF SkipStale
  <1>2. rows' \in [DOMAIN rows -> Row]
    BY RowTypes, NowType DEF SkipStale, Statuses
  <1>3. rows' \in Seq(Row)
    BY <1>2, InPlace DEF TypeOK
  <1> QED
    BY <1>1, <1>3 DEF TypeOK, SkipStale, world, hist

LEMMA InsertedType == ASSUME TypeOK, NEW row \in Row PROVE Inserted(row) \in Seq(Row)
  BY Longer DEF TypeOK, Inserted

LEMMA InsertRowType == ASSUME TypeOK, NEW r \in Runs, InsertRow(r) PROVE TypeOK'
  <1>1. run' \in [Runs -> Run] /\ \A q \in Runs : run'[q].pc = "look" => q # r /\ run'[q] = run[q]
    BY AdvancesType DEF InsertRow
  <1>2. run[r].todo.row \in Row
    BY DEF TypeOK, Run, Todo
  <1>3. rows' \in Seq(Row)
    BY <1>2, InsertedType DEF InsertRow
  <1> QED
    BY <1>1, <1>3 DEF TypeOK, InsertRow, world, hist

LEMMA EnqueuedType ==
  ASSUME TypeOK, NEW kind \in {"plan", "compose"}, NEW wanted
  PROVE  Enqueued(kind, wanted) \in [plan : Job, compose : Job]
  <1>1. Len(plans) \in Nat
    BY LenProperties DEF TypeOK
  <1> QED
    BY <1>1 DEF TypeOK, Enqueued, Job

LEMMA HandOverType == ASSUME TypeOK, NEW r \in Runs, HandOver(r) PROVE TypeOK'
  <1>1. run' \in [Runs -> Run] /\ \A q \in Runs : run'[q].pc = "look" => q # r /\ run'[q] = run[q]
    BY AdvancesType DEF HandOver
  <1> QED
    BY <1>1, EnqueuedType DEF TypeOK, HandOver, world, hist

LEMMA AskForPlanType == ASSUME TypeOK, NEW r \in Runs, AskForPlan(r) PROVE TypeOK'
  <1>1. run' \in [Runs -> Run] /\ \A q \in Runs : run'[q].pc = "look" => q # r /\ run'[q] = run[q]
    BY AdvancesType DEF AskForPlan
  <1> QED
    BY <1>1, EnqueuedType DEF TypeOK, AskForPlan, world, hist

LEMMA StampAskType == ASSUME TypeOK, NEW r \in Runs, StampAsk(r) PROVE TypeOK'
  <1>1. run' \in [Runs -> Run] /\ \A q \in Runs : run'[q].pc = "look" => q # r /\ run'[q] = run[q]
    BY AdvancesType DEF StampAsk
  <1>2. ask' \in Ask
    BY DEF TypeOK, StampAsk, Stamped, Run, Ask
  <1> QED
    BY <1>1, <1>2 DEF TypeOK, StampAsk, world, hist

LEMMA CrashType == ASSUME TypeOK, NEW r \in Runs, Crash(r) PROVE TypeOK'
  BY DEF TypeOK, Crash, Fault, AtRest, Run, NeverAsked, Ask, Replied, Nothing, Todo, NoRow, Row, Kinds, Statuses, world, work

\* A new plan is written after the older ones, which stay where they are.
LEMMA InsertPlanType ==
  ASSUME TypeOK, NEW by \in {"playbook", "session"}, NEW steps \in SUBSET Nat, InsertPlan(by, steps)
  PROVE  /\ plans' \in Seq(Plan) /\ DOMAIN plans \subseteq DOMAIN plans'
         /\ Len(plans) + 1 \in DOMAIN plans' /\ Len(plans) + 1 \in Nat
  <1>1. [by |-> by, steps |-> steps] \in Plan
    BY DEF Plan
  <1>2. Len(plans) \in Nat
    BY LenProperties DEF TypeOK
  <1> QED
    BY <1>1, <1>2, Longer DEF TypeOK, InsertPlan

LEMMA ReleaseType == ASSUME TypeOK, NEW waiting, Release(waiting) PROVE rows' \in Seq(Row)
  <1>1. \A row \in Row : [Now(row, "skipped") EXCEPT !.num = 0] \in Row
    BY DEF Now, Row, Statuses
  <1>2. rows' \in [DOMAIN rows -> Row]
    BY <1>1, RowTypes DEF Release
  <1> QED
    BY <1>2, InPlace DEF TypeOK

LEMMA PlanningType ==
  ASSUME TypeOK, Classify \/ StampPlaybook \/ PointAtStamped \/ ReleaseStamped \/ DetectPlan PROVE TypeOK'
  <1>1. CASE Classify
    BY <1>1 DEF TypeOK, Classify, Person, work, hist
  <1>2. CASE StampPlaybook
    <2>1. plans' \in Seq(Plan) /\ DOMAIN plans \subseteq DOMAIN plans'
      BY <1>2, InsertPlanType DEF StampPlaybook
    <2> QED
      BY <1>2, <2>1 DEF TypeOK, StampPlaybook, Person, hist
  <1>3. CASE PointAtStamped
    BY <1>3 DEF TypeOK, PointAtStamped, Person, hist
  <1>4. CASE ReleaseStamped
    <2>1. rows' \in Seq(Row)
      BY <1>4, ReleaseType DEF ReleaseStamped
    <2> QED
      BY <1>4, <2>1 DEF TypeOK, ReleaseStamped, Person, hist
  <1>5. CASE DetectPlan
    BY <1>5, EnqueuedType DEF TypeOK, DetectPlan, world, hist
  <1> QED
    BY <1>1, <1>2, <1>3, <1>4, <1>5

LEMMA WorkingType == ASSUME TypeOK, NEW s \in Sessions, Working(s) PROVE TypeOK'
  <1>1. session[s] \in Session /\ Off \in Session
    BY DEF TypeOK, Off, Session
  <1>2. CASE Number(s)
    BY <1>1, <1>2, ShiftType DEF TypeOK, Number, Session, world, work, hist
  <1>3. CASE PlanGoal(s)
    <2>1. {n + session[s].shift : n \in 1 .. session[s].step} \in SUBSET Nat
      BY <1>1 DEF Session
    <2>2. /\ plans' \in Seq(Plan) /\ DOMAIN plans \subseteq DOMAIN plans'
          /\ Len(plans) + 1 \in DOMAIN plans' /\ Len(plans) + 1 \in Nat
      BY <1>3, <2>1, InsertPlanType DEF PlanGoal
    <2>3. session' \in [Sessions -> Session]
      BY <1>1, <1>3, <2>2 DEF TypeOK, PlanGoal, Off, Session
    <2>4. \A t \in Sessions : session'[t].pc = "inserted" => session'[t].step \in DOMAIN plans'
      BY <1>3, <2>2 DEF TypeOK, PlanGoal, Off
    <2> QED
      BY <1>3, <2>2, <2>3, <2>4 DEF TypeOK, PlanGoal, world, hist
  <1>4. CASE PointAtPlan(s)
    BY <1>1, <1>4 DEF TypeOK, PointAtPlan, Off, Session, world, hist
  <1>8. CASE ReleaseReplaced(s)
    <2>1. rows' \in Seq(Row)
      BY <1>8, ReleaseType DEF ReleaseReplaced
    <2> QED
      BY <1>1, <1>8, <2>1 DEF TypeOK, ReleaseReplaced, Session, world, hist
  <1>5. CASE CheckStep(s)
    <2>1. NextStep(cur) \in Nat
      BY NextStepType DEF TypeOK
    <2>2. session' \in [Sessions -> Session]
      BY <1>1, <1>5, <2>1 DEF TypeOK, CheckStep, Session, Off
    <2>3. \A t \in Sessions : session'[t].pc = "inserted" => session'[t] = session[t]
      BY <1>1, <1>5 DEF TypeOK, CheckStep, Off
    <2> QED
      BY <1>5, <2>2, <2>3 DEF TypeOK, CheckStep, world, work, hist
  <1>6. CASE Compose(s)
    <2>1. [NoRow EXCEPT !.kind = "words", !.num = session[s].step] \in Row
      BY <1>1 DEF Session, NoRow, Row, Kinds, Statuses
    <2>2. rows' \in Seq(Row)
      BY <1>6, <2>1, InsertedType DEF Compose
    <2>3. session' \in [Sessions -> Session]
      BY <1>1, <1>6 DEF TypeOK, Compose, Session, Off
    <2>4. \A t \in Sessions : session'[t].pc = "inserted" => session'[t] = session[t]
      BY <1>1, <1>6 DEF TypeOK, Compose, Off
    <2> QED
      BY <1>6, <2>2, <2>3, <2>4 DEF TypeOK, Compose, world, hist
  <1>7. CASE FinishWork(s)
    BY <1>1, <1>7 DEF TypeOK, FinishWork, Job, NoJob, Off, world, hist
  <1> QED
    BY <1>2, <1>3, <1>4, <1>5, <1>6, <1>7, <1>8 DEF Working

LEMMA TakeType ==
  ASSUME TypeOK, NEW s \in Sessions, NEW kind \in DOMAIN jobs, Take(s, kind) PROVE TypeOK'
  <1>1. kind \in {"plan", "compose"}
    BY DEF TypeOK
  <1>2. jobs' \in [plan : Job, compose : Job]
    <2>1. NoJob \in Job /\ [jobs[kind] EXCEPT !.state = "taken"] \in Job
      BY <1>1 DEF TypeOK, Job, NoJob
    <2>2. jobs' = [jobs EXCEPT ![kind] = NoJob] \/ jobs' = [jobs EXCEPT ![kind].state = "taken"]
      BY DEF Take
    <2> QED
      BY <1>1, <2>1, <2>2 DEF TypeOK
  <1>3. session' \in [Sessions -> Session]
    <2>1. [session[s] EXCEPT !.pc = kind] \in Session
      BY <1>1 DEF TypeOK, Session
    <2>2. session' = session \/ session' = [session EXCEPT ![s].pc = kind]
      BY DEF Take
    <2> QED
      BY <2>1, <2>2 DEF TypeOK
  <1>4. \A t \in Sessions : session'[t].pc = "inserted" => session'[t] = session[t]
    <2>1. session' = session \/ session' = [session EXCEPT ![s].pc = kind]
      BY DEF Take
    <2>2. kind # "inserted"
      BY <1>1
    <2>3. \A t \in Sessions : session[t] \in Session
      BY DEF TypeOK
    <2> QED
      BY <2>1, <2>2, <2>3 DEF TypeOK, Session
  <1> QED
    BY <1>2, <1>3, <1>4 DEF TypeOK, Take, world, hist

LEMMA GiveUpType == ASSUME TypeOK, NEW s \in Sessions, GiveUp(s) PROVE TypeOK'
  <1>1. PICK kind \in {"plan", "compose"} :
          jobs' = [jobs EXCEPT ![kind].state = "waiting"] \/ jobs' = [jobs EXCEPT ![kind] = NoJob]
    BY DEF GiveUp
  <1>2. NoJob \in Job /\ [jobs[kind] EXCEPT !.state = "waiting"] \in Job
    BY DEF TypeOK, Job, NoJob
  <1>3. jobs' \in [plan : Job, compose : Job]
    BY <1>1, <1>2 DEF TypeOK
  <1>4. session' \in [Sessions -> Session]
    BY DEF TypeOK, GiveUp, Off, Session
  <1>5. \A t \in Sessions : session'[t].pc = "inserted" => session'[t] = session[t]
    BY DEF TypeOK, GiveUp, Off
  <1> QED
    BY <1>3, <1>4, <1>5 DEF TypeOK, GiveUp, Fault, world

\* The send path's moves and a person's approval write one message in place.
LEMMA MoveType ==
  ASSUME TypeOK, NEW i \in DOMAIN rows, NEW from, NEW to \in Statuses, Move(i, from, to)
  PROVE  rows' \in Seq(Row)
  <1>1. rows' \in [DOMAIN rows -> Row]
    BY RowTypes, NowType DEF Move
  <1> QED
    BY <1>1, InPlace DEF TypeOK

LEMMA MessageMoveType ==
  ASSUME TypeOK, NEW i \in DOMAIN rows,
         Claim(i) \/ Park(i) \/ Deliver(i) \/ Refuse(i) \/ Discard(i) \/ Approve(i)
  PROVE  TypeOK'
  <1>1. CASE Claim(i) \/ Park(i) \/ Approve(i)
    <2>1. rows' \in [DOMAIN rows -> Row]
      BY <1>1, RowTypes DEF Claim, Park, Approve, Row, Statuses
    <2>2. rows' \in Seq(Row)
      BY <2>1, InPlace DEF TypeOK
    <2> QED
      BY <1>1, <2>2 DEF TypeOK, Claim, Park, Approve, world, hist
  <1>2. CASE Deliver(i)
    <2>1. rows' \in Seq(Row)
      BY <1>2, MoveType DEF Deliver, Statuses
    <2>2. person' \in Person
      BY <1>2 DEF TypeOK, Deliver, Person, Replied
    <2> QED
      BY <1>2, <2>1, <2>2 DEF TypeOK, Deliver, hist
  <1>3. CASE Refuse(i) \/ Discard(i)
    <2>1. rows' \in Seq(Row)
      BY <1>3, MoveType DEF Refuse, Discard, Statuses
    <2> QED
      BY <1>3, <2>1 DEF TypeOK, Refuse, Discard, Fault, world
  <1> QED
    BY <1>1, <1>2, <1>3

LEMMA LeadType == ASSUME TypeOK, Reply \/ Answer \/ News PROVE TypeOK'
  <1>1. CASE Reply
    <2>1. rows' \in [DOMAIN rows -> Row]
      BY <1>1, RowTypes, NowType DEF Reply, Statuses
    <2>2. rows' \in Seq(Row)
      BY <2>1, InPlace DEF TypeOK
    <2>3. person' \in Person
      BY <1>1 DEF TypeOK, Reply, Person, Replied
    <2> QED
      BY <1>1, <2>2, <2>3 DEF TypeOK, Reply, Fault
  <1>2. CASE Answer
    BY <1>2 DEF TypeOK, Answer, Person, Replied, work, hist
  <1>3. CASE News
    <2>1. rows' \in [DOMAIN rows -> Row]
      <3>1. ASSUME NEW i \in DOMAIN rows PROVE rows'[i] \in Row
        <4>1. rows[i] \in Row /\ (rows[i].status \in Underway) \in BOOLEAN
          BY RowTypes
        <4>2. rows'[i] = [rows[i] EXCEPT !.stale = rows[i].status \in Underway]
          BY <1>3 DEF News
        <4> QED
          BY <4>1, <4>2 DEF Row
      <3> QED
        BY <1>3, <3>1 DEF News
    <2>2. rows' \in Seq(Row)
      BY <2>1, InPlace DEF TypeOK
    <2>3. person' \in Person
      <3>1. Len(plans) \in Nat
        BY LenProperties DEF TypeOK
      <3> QED
        BY <1>3, <3>1 DEF TypeOK, News, Person
    <2>4. ask' \in Ask
      BY <1>3 DEF TypeOK, News, Ask
    <2>5. ASSUME NEW r \in Runs
          PROVE  run'[r] \in Run /\ run'[r].pc = run[r].pc /\ run'[r].plan = run[r].plan
      <3>1. run[r] \in Run /\ run[r].todo \in Todo /\ run[r].todo.row \in Row
        BY DEF TypeOK, Run, Todo
      <3> DEFINE row == [run[r].todo.row EXCEPT !.stale = run[r].todo.row.kind # "none"]
      <3>2. row \in Row
        BY <3>1 DEF Row
      <3> DEFINE todo == [run[r].todo EXCEPT !.row = row]
      <3>3. todo \in Todo
        BY <3>1, <3>2 DEF Todo
      <3>4. run'[r] = [run[r] EXCEPT !.heard = run[r].pc = "look" \/ run[r].todo.ask, !.todo = todo]
        BY <1>3, <3>1 DEF News, Run, Todo, Row
      <3>5. (run[r].pc = "look" \/ run[r].todo.ask) \in BOOLEAN
        BY <3>1 DEF Todo
      <3> HIDE DEF todo
      <3> QED
        BY <3>1, <3>3, <3>4, <3>5 DEF Run
    <2>6. run' \in [Runs -> Run]
      BY <1>3, <2>5 DEF News
    <2>7. faults' \in Nat /\ UNCHANGED <<campaign, plans, cur, jobs, session, excuses>>
      <3>1. Fault("news") /\ UNCHANGED <<campaign, plans, cur, jobs, session, excuses>>
        BY <1>3 DEF News
      <3> QED
        BY <3>1 DEF TypeOK, Fault
    <2>8. \A r \in Runs : run'[r].pc = "look" => run'[r].plan \in DOMAIN plans
      BY <2>5 DEF TypeOK
    <2> QED
      BY <2>2, <2>3, <2>4, <2>6, <2>7, <2>8 DEF TypeOK
  <1> QED
    BY <1>1, <1>2, <1>3

LEMMA ClockType == ASSUME TypeOK, Clock PROVE TypeOK'
  <1>1. CASE AskGetsLate
    BY <1>1 DEF TypeOK, AskGetsLate, Ask, world
  <1>2. CASE ComposeGetsLate
    BY <1>2 DEF TypeOK, ComposeGetsLate, Job, world, hist
  <1>3. CASE WindowCloses \/ StandardWaitOver
    BY <1>3 DEF TypeOK, WindowCloses, StandardWaitOver, Person, work, hist
  <1> QED
    BY <1>1, <1>2, <1>3 DEF Clock

LEMMA JustOne == ASSUME NEW S, NEW e \in S PROVE <<e>> \in Seq(S) /\ 1 \in DOMAIN <<e>>
  OBVIOUS

LEMMA InitType == Init => TypeOK
  <1> SUFFICES ASSUME Init PROVE TypeOK
    OBVIOUS
  <1>1. campaign \in Campaigns /\ cur = 1 /\ ask \in Ask /\ jobs \in [plan : Job, compose : Job]
        /\ session = [s \in Sessions |-> Off] /\ excuses \in Nat /\ faults \in Nat
    BY StepsAssumption DEF Init, NeverAsked, Ask, NoJob, Job
  <1>6. Arrived \/ \E stage \in Stages : Greeted(stage)
    BY StepsAssumption DEF Init
  <1>7. /\ session \in [Sessions -> Session]
        /\ \A s \in Sessions : session[s].pc = "inserted" => session[s].step \in DOMAIN plans
    BY <1>1 DEF Off, Session
  <1>2. plans \in Seq(Plan) /\ cur \in DOMAIN plans
    <2>1. plans = <<[by |-> "playbook", steps |-> {1, 2}]>> \/ plans = <<[by |-> "session", steps |-> {1}]>>
      BY <1>6 DEF Arrived, Greeted
    <2>2. [by |-> "playbook", steps |-> {1, 2}] \in Plan /\ [by |-> "session", steps |-> {1}] \in Plan
      BY DEF Plan
    <2> QED
      BY <1>1, <2>1, <2>2, JustOne
  <1>3. rows \in Seq(Row)
    <2>1. \/ rows = <<[NoRow EXCEPT !.kind = "welcome"]>>
          \/ rows = <<[NoRow EXCEPT !.kind = "welcome", !.status = "sent"]>>
      BY <1>6 DEF Arrived, Greeted
    <2>2. [NoRow EXCEPT !.kind = "welcome"] \in Row /\ [NoRow EXCEPT !.kind = "welcome", !.status = "sent"] \in Row
      BY DEF NoRow, Row, Kinds, Statuses
    <2> QED
      BY <2>1, <2>2, JustOne
  <1>4. person \in Person
    <2>1. CASE Arrived
      <3>1. (~campaign.rolling) \in BOOLEAN
        OBVIOUS
      <3> QED
        BY <2>1, <3>1 DEF Arrived, Person, Replied
    <2>2. ASSUME NEW stage, Greeted(stage) PROVE person \in Person
      BY <2>2 DEF Greeted, Person, Replied
    <2> QED
      BY <1>6, <2>1, <2>2
  <1>5. run \in [Runs -> Run] /\ \A r \in Runs : run[r].pc = "idle"
    BY DEF Init, AtRest, Run, NeverAsked, Ask, Replied, Nothing, Todo, NoRow, Row, Kinds, Statuses
  <1> QED
    BY <1>1, <1>2, <1>3, <1>4, <1>5, <1>7 DEF TypeOK

LEMMA NextType == TypeOK /\ [Next]_vars => TypeOK'
  <1> SUFFICES ASSUME TypeOK, [Next]_vars PROVE TypeOK'
    OBVIOUS
  <1>1. CASE UNCHANGED vars
    BY <1>1 DEF vars, world, work, hist, TypeOK
  <1>2. ASSUME NEW r \in Runs, Pass(r) \/ Crash(r) PROVE TypeOK'
    BY <1>2, BeginType, LookType, SkipStaleType, InsertRowType, HandOverType, AskForPlanType,
       StampAskType, CrashType DEF Pass
  <1> QED
    BY <1>1, <1>2, WorkingType, GiveUpType, TakeType, PlanningType, MessageMoveType, LeadType,
       ClockType DEF Next

LEMMA SpecType == Spec => []TypeOK
  BY InitType, NextType, PTL DEF Spec

\* Every reachable campaign has its type: no pass ever reads a plan that is not
\* there, and no plan is numbered past anything but a number (rolling.ts,
\* plan_goal).
THEOREM TypeCorrect == Spec => []TypeOK
  BY SpecType

-----------------------------------------------------------------------------
(* A message somebody approved stands.                                     *)

\* What a step may do to an approved message that waits.
Stood(i) ==
    rows[i].approved /\ rows[i].status = "queued" /\ rows'[i].status = "skipped"
    => rows'[i].num # rows[i].num \/ person'.reply # person.reply

\* Two of the sweeps may take it back, each leaving a trace: a plan that is
\* replaced frees the number, and a reply is there to be answered.
LEMMA ReleaseStands == ASSUME TypeOK, NEW waiting, Release(waiting), NEW i \in DOMAIN rows PROVE Stood(i)
  <1>1. rows[i] \in Row
    BY RowTypes
  <1>2. CASE Released(i, waiting)
    <2>1. rows'[i].num = 0 /\ rows[i].num # 0
      BY <1>1, <1>2 DEF Release, Released, Now, Row
    <2> QED
      BY <2>1 DEF Stood
  <1>3. CASE ~Released(i, waiting)
    BY <1>3 DEF Release, Stood
  <1> QED
    BY <1>2, <1>3

LEMMA MoveStands ==
  ASSUME TypeOK, NEW i \in DOMAIN rows, NEW j \in DOMAIN rows, NEW from, NEW to, Move(j, from, to),
         ~rows[j].approved \/ from # "queued" \/ to # "skipped"
  PROVE  Stood(i)
  <1>1. rows[i] \in Row /\ rows[j] \in Row
    BY RowTypes
  <1>2. CASE i = j
    BY <1>1, <1>2 DEF Move, Now, Row, Stood
  <1>3. CASE i # j
    BY <1>3 DEF Move, Stood
  <1> QED
    BY <1>2, <1>3

LEMMA InsertedStands ==
  ASSUME TypeOK, NEW row \in Row, rows' = Inserted(row), NEW i \in DOMAIN rows PROVE Stood(i)
  <1>1. rows'[i] = rows[i]
    BY Longer DEF TypeOK, Inserted
  <1> QED
    BY <1>1 DEF Stood

LEMMA PassStands == ASSUME TypeOK, NEW r \in Runs, Pass(r), NEW i \in DOMAIN rows PROVE Stood(i)
  <1>1. CASE SkipStale(r)
    <2>1. rows'[i] = rows[i] \/ ~rows[i].approved
      BY <1>1 DEF SkipStale, TakenBack
    <2> QED
      BY <2>1 DEF Stood
  <1>2. CASE InsertRow(r)
    <2>1. run[r].todo.row \in Row
      BY DEF TypeOK, Run, Todo
    <2> QED
      BY <1>2, <2>1, InsertedStands DEF InsertRow
  <1>3. CASE Begin(r) \/ Look(r) \/ HandOver(r) \/ AskForPlan(r) \/ StampAsk(r)
    BY <1>3 DEF Begin, Look, HandOver, AskForPlan, StampAsk, work, Stood
  <1> QED
    BY <1>1, <1>2, <1>3 DEF Pass

LEMMA WorkingStands == ASSUME TypeOK, NEW s \in Sessions, Working(s), NEW i \in DOMAIN rows PROVE Stood(i)
  <1>1. CASE ReleaseReplaced(s)
    BY <1>1, ReleaseStands DEF ReleaseReplaced
  <1>2. CASE Compose(s)
    <2>1. [NoRow EXCEPT !.kind = "words", !.num = session[s].step] \in Row
      BY DEF TypeOK, Session, NoRow, Row, Kinds, Statuses
    <2> QED
      BY <1>2, <2>1, InsertedStands DEF Compose
  <1>3. CASE Number(s) \/ PlanGoal(s) \/ PointAtPlan(s) \/ CheckStep(s) \/ FinishWork(s)
    BY <1>3 DEF Number, PlanGoal, PointAtPlan, CheckStep, FinishWork, work, Stood
  <1> QED
    BY <1>1, <1>2, <1>3 DEF Working

LEMMA LeadStands == ASSUME TypeOK, Reply \/ Answer \/ News, NEW i \in DOMAIN rows PROVE Stood(i)
  <1>1. CASE Reply
    BY <1>1 DEF TypeOK, Reply, Person, Stood
  <1>2. CASE Answer
    BY <1>2 DEF Answer, work, Stood
  <1>3. CASE News
    <2>1. rows[i] \in Row
      BY RowTypes
    <2> QED
      BY <1>3, <2>1 DEF News, Row, Stood
  <1> QED
    BY <1>1, <1>2, <1>3

LEMMA MessageMoveStands ==
  ASSUME TypeOK, NEW j \in DOMAIN rows,
         Claim(j) \/ Park(j) \/ Deliver(j) \/ Refuse(j) \/ Discard(j) \/ Approve(j),
         NEW i \in DOMAIN rows
  PROVE  Stood(i)
  <1>1. CASE Deliver(j)
    BY <1>1, MoveStands DEF Deliver
  <1>2. CASE Refuse(j)
    BY <1>2, MoveStands DEF Refuse
  <1>3. CASE Discard(j)
    <2>1. Move(j, rows[j].status, "skipped") /\ (~rows[j].approved \/ rows[j].status # "queued")
      BY <1>3 DEF Discard
    <2> QED
      BY <2>1, MoveStands
  <1>4. CASE Claim(j) \/ Park(j) \/ Approve(j)
    <2>1. rows[i] \in Row
      BY RowTypes
    <2> QED
      BY <1>4, <2>1 DEF Claim, Park, Approve, Row, Stood
  <1> QED
    BY <1>1, <1>2, <1>3, <1>4

LEMMA NextStands == ASSUME TypeOK, Next, NEW i \in DOMAIN rows PROVE Stood(i)
  <1>1. CASE Classify \/ StampPlaybook \/ PointAtStamped \/ DetectPlan \/ Clock
    BY <1>1 DEF Classify, StampPlaybook, PointAtStamped, DetectPlan, Clock, AskGetsLate, ComposeGetsLate, WindowCloses,
       StandardWaitOver, work, Stood
  <1>2. CASE ReleaseStamped
    BY <1>2, ReleaseStands DEF ReleaseStamped
  <1>3. ASSUME NEW r \in Runs, Crash(r) PROVE Stood(i)
    BY <1>3 DEF Crash, work, Stood
  <1>4. ASSUME NEW s \in Sessions, GiveUp(s) \/ \E kind \in DOMAIN jobs : Take(s, kind) PROVE Stood(i)
    BY <1>4 DEF GiveUp, Take, Stood
  <1> QED
    BY <1>1, <1>2, <1>3, <1>4, PassStands, WorkingStands, LeadStands, MessageMoveStands DEF Next

\* "A message somebody approved in the meantime stands" (advance.ts), however
\* the passes, their news, the sessions and the send path interleave: only a new
\* plan or the lead's reply takes an approved message back.
THEOREM ApprovalsStand == Spec => ApprovedStands
  <1>1. TypeOK /\ [Next]_vars
        => [\A i \in DOMAIN rows :
              rows[i].approved /\ rows[i].status = "queued" /\ rows'[i].status = "skipped"
              => rows'[i].num # rows[i].num \/ person'.reply # person.reply]_vars
    BY NextStands DEF Stood
  <1> QED
    BY <1>1, SpecType, PTL DEF Spec, ApprovedStands

-----------------------------------------------------------------------------
(* One generic message, not several.                                       *)

\* Passes follow one another, as the ticks of one cron do while each ends in
\* its minute.
OneRun == \A r, q \in Runs : r = q

Fallbacks == {i \in DOMAIN rows : rows[i].kind = "fallback"}
FallingBack(r) == run[r].todo.row.kind = "fallback"

\* A late ask entitles to a fallback until the pass has inserted one; from then
\* on it has only to stamp the ask anew.
Owed == IF ask.age = "late" /\ \A r \in Runs : FallingBack(r) => run[r].pc \in {"skip", "insert"}
        THEN 1 ELSE 0

FallbackInv ==
    /\ Cardinality(Fallbacks) + Owed <= excuses
    /\ \A r \in Runs : run[r].pc = "look" /\ run[r].ask.age = "late" => ask.age = "late"
    /\ \A r \in Runs : FallingBack(r) =>
          /\ ask.age = "late" /\ run[r].pc \in {"skip", "insert", "ask", "stamp"}
          /\ run[r].todo.ask /\ ~run[r].todo.hand

LEMMA FallbacksCount ==
  ASSUME TypeOK PROVE IsFiniteSet(Fallbacks) /\ Cardinality(Fallbacks) \in Nat
  <1>1. IsFiniteSet(Fallbacks)
    BY RowTypes, FS_Subset DEF Fallbacks
  <1> QED
    BY <1>1, FS_CardinalityType

\* Messages changed in place keep their kinds, and only a pass adds a fallback.
LEMMA InsertedFallbacks ==
  ASSUME TypeOK, NEW row \in Row, rows' = Inserted(row)
  PROVE  /\ row.kind # "fallback" => Fallbacks' = Fallbacks
         /\ Cardinality(Fallbacks') <= Cardinality(Fallbacks) + 1 /\ Cardinality(Fallbacks') \in Nat
  <1>1. CASE rows' = rows
    BY <1>1, FallbacksCount DEF Fallbacks
  <1>2. CASE rows' = Append(rows, row)
    <2>1. Fallbacks' = IF row.kind = "fallback" THEN Fallbacks \cup {Len(rows) + 1} ELSE Fallbacks
      <3>1. /\ DOMAIN rows' = DOMAIN rows \cup {Len(rows) + 1} /\ Len(rows) + 1 \notin DOMAIN rows
            /\ rows'[Len(rows) + 1] = row /\ \A n \in DOMAIN rows : rows'[n] = rows[n]
        BY <1>2, Longer DEF TypeOK
      <3> QED
        BY <3>1 DEF Fallbacks
    <2>2. Len(rows) + 1 \notin Fallbacks
      BY Longer DEF TypeOK, Fallbacks
    <2>3. Cardinality(Fallbacks \cup {Len(rows) + 1}) = Cardinality(Fallbacks) + 1
      BY <2>2, FallbacksCount, FS_AddElement
    <2> QED
      BY <2>1, <2>3, FallbacksCount
  <1> QED
    BY <1>1, <1>2 DEF Inserted

\* What leaves the passes, the ask and the kinds alone disturbs nothing.
LEMMA FallbackFrame ==
  ASSUME FallbackInv, Fallbacks' = Fallbacks, ask'.age = ask.age, excuses' = excuses,
         \A r \in Runs : /\ run'[r].pc = run[r].pc /\ run'[r].ask = run[r].ask
                         /\ run'[r].todo.row.kind = run[r].todo.row.kind
                         /\ run'[r].todo.ask = run[r].todo.ask /\ run'[r].todo.hand = run[r].todo.hand
  PROVE  FallbackInv'
  BY DEF FallbackInv, FallingBack, Owed

\* Falling back is decided on a late ask, and goes with asking again.
LEMMA FallbackDecision ==
  ASSUME NEW r \in Runs, NEW todo \in Decisions(r), todo.row.kind = "fallback"
  PROVE  run[r].ask.age = "late" /\ todo.ask /\ ~todo.hand
  <1>1. PICK choice \in Verdicts(r) :
          todo = [skip |-> Stale(r), row |-> MessageFor(r, choice),
                  hand |-> choice = "hand", ask |-> choice \in {"ask", "fallback"}]
    BY DEF Decisions
  <1>2. choice = "fallback"
    BY <1>1 DEF MessageFor, NoRow
  <1>3. PICK warm \in BOOLEAN : choice = Choice(r, warm)
    BY DEF Verdicts
  <1>4. Checkpoint(r) = "fallback"
    BY <1>2, <1>3 DEF Choice, Late
  <1>5. run[r].ask.age = "late"
    BY <1>4 DEF Checkpoint
  <1> QED
    BY <1>1, <1>2, <1>5

LEMMA LookFallback ==
  ASSUME OneRun, TypeOK, FallbackInv, NEW r \in Runs, Look(r) PROVE FallbackInv'
  <1>1. PICK todo \in Decisions(r) : Go(r, todo, 0)
    BY DEF Look
  <1>2. Runs = {r} /\ run \in [Runs -> Run] /\ run[r].pc = "look" /\ ~FallingBack(r)
    BY DEF OneRun, TypeOK, Look, FallbackInv
  <1>3. UNCHANGED <<ask, excuses>> /\ Fallbacks' = Fallbacks
    BY DEF Look, work, hist, Fallbacks
  <1>4. CASE run' = [run EXCEPT ![r] = AtRest]
    BY <1>2, <1>3, <1>4 DEF FallbackInv, Owed, FallingBack, AtRest, Nothing, NoRow
  <1>5. ASSUME NEW k \in 1 .. 5,
               \A j \in 1 .. 5 : j > 0 /\ Phases[j] \in Due(todo) => k <= j,
               run'[r].pc = Phases[k], run'[r].todo = todo
        PROVE  FallbackInv'
    <2>1. Phases[k] # "look"
      BY PhaseNames
    <2>2. CASE todo.row.kind # "fallback"
      BY <1>2, <1>3, <1>5, <2>1, <2>2 DEF FallbackInv, Owed, FallingBack
    <2>3. CASE todo.row.kind = "fallback"
      <3>1. ask.age = "late" /\ todo.ask /\ ~todo.hand
        BY <1>2, <2>3, FallbackDecision DEF FallbackInv
      <3>2. Phases[2] \in Due(todo)
        BY <2>3 DEF Phases, Due
      <3>3. k \in {1, 2}
        BY <1>5, <3>2
      <3>4. Phases[k] \in {"skip", "insert"}
        BY <3>3 DEF Phases
      <3> QED
        BY <1>2, <1>3, <1>5, <3>1, <3>4 DEF FallbackInv, Owed, FallingBack
    <2> QED
      BY <2>2, <2>3
  <1>6. \A k \in 1 .. 5 : Onto(r, todo, k) => run'[r].pc = Phases[k] /\ run'[r].todo = todo
    BY <1>2 DEF AtRest, Onto
  <1> QED
    BY <1>1, <1>4, <1>5, <1>6, GoesOn DEF GoneOn

\* Once past a write, the pass carries the same decision to the next, or ends.
LEMMA Onward ==
  ASSUME TypeOK, NEW r \in Runs, NEW p \in 1 .. 5, Advances(r, Phases[p])
  PROVE  /\ run[r].pc = Phases[p]
         /\ \/ /\ \A k \in 1 .. 5 : k > p => Phases[k] \notin Due(run[r].todo)
               /\ run'[r] = AtRest
            \/ \E k \in 1 .. 5 :
                 /\ k > p /\ Phases[k] \in Due(run[r].todo)
                 /\ \A j \in 1 .. 5 : j > p /\ Phases[j] \in Due(run[r].todo) => k <= j
                 /\ run'[r].pc = Phases[k] /\ run'[r].todo = run[r].todo
  <1>1. run \in [Runs -> Run]
    BY DEF TypeOK
  <1>2. PICK q \in 1 .. 5 : Phases[q] = Phases[p] /\ Go(r, run[r].todo, q)
    BY DEF Advances, Phases
  <1>3. Go(r, run[r].todo, p)
    <2>1. q = p
      BY <1>2 DEF Phases
    <2> QED
      BY <1>2, <2>1
  <1>4. run[r].pc = Phases[p]
    BY DEF Advances
  <1>5. GoneOn(r, run[r].todo, p)
    BY <1>3, GoesOn
  <1>6. \A k \in 1 .. 5 : Onto(r, run[r].todo, k) => run'[r].pc = Phases[k] /\ run'[r].todo = run[r].todo
    BY <1>1 DEF AtRest, Onto
  <1>7. run' = [run EXCEPT ![r] = AtRest] => run'[r] = AtRest
    BY <1>1
  <1> QED
    BY <1>4, <1>5, <1>6, <1>7 DEF GoneOn

LEMMA SkipFallback ==
  ASSUME OneRun, TypeOK, FallbackInv, NEW r \in Runs, SkipStale(r) PROVE FallbackInv'
  <1>1. Runs = {r} /\ run[r].pc = "skip"
    BY DEF OneRun, SkipStale, Advances
  <1>2. UNCHANGED <<ask, excuses>> /\ Fallbacks' = Fallbacks
    <2>1. DOMAIN rows' = DOMAIN rows /\ \A i \in DOMAIN rows : rows'[i].kind = rows[i].kind
      BY RowTypes DEF SkipStale, Now, Row
    <2> QED
      BY <2>1 DEF SkipStale, hist, Fallbacks
  <1>3. Advances(r, Phases[1])
    BY DEF SkipStale, Phases
  <1>4. CASE ~FallingBack(r)
    <2>1. ~FallingBack(r)' /\ run'[r].pc # "look"
      BY <1>3, <1>4, Onward, PhaseNames DEF FallingBack, AtRest, Nothing, NoRow
    <2> QED
      BY <1>1, <1>2, <1>4, <2>1 DEF FallbackInv, Owed
  <1>5. CASE FallingBack(r)
    <2>1. Phases[2] \in Due(run[r].todo)
      BY <1>5 DEF FallingBack, Due, Phases
    <2>2. run'[r].pc = Phases[2] /\ run'[r].todo = run[r].todo
      BY <1>3, <2>1, Onward
    <2>3. run'[r].pc = "insert"
      BY <2>2 DEF Phases
    <2> QED
      BY <1>1, <1>2, <1>5, <2>2, <2>3 DEF FallbackInv, Owed, FallingBack
  <1> QED
    BY <1>4, <1>5

\* The fallback uses up what the late ask entitled to.
LEMMA InsertFallback ==
  ASSUME OneRun, TypeOK, FallbackInv, NEW r \in Runs, InsertRow(r) PROVE FallbackInv'
  <1>1. Runs = {r} /\ run[r].pc = "insert" /\ run[r].todo.row \in Row
    BY DEF OneRun, InsertRow, Advances, TypeOK, Run, Todo
  <1>2. UNCHANGED <<ask, excuses>> /\ rows' = Inserted(run[r].todo.row)
    BY DEF InsertRow, hist
  <1>3. Advances(r, Phases[2])
    BY DEF InsertRow, Phases
  <1>4. CASE ~FallingBack(r)
    <2>1. ~FallingBack(r)' /\ run'[r].pc # "look"
      BY <1>3, <1>4, Onward, PhaseNames DEF FallingBack, AtRest, Nothing, NoRow
    <2>2. Fallbacks' = Fallbacks
      BY <1>1, <1>2, <1>4, InsertedFallbacks DEF FallingBack
    <2> QED
      BY <1>1, <1>2, <1>4, <2>1, <2>2 DEF FallbackInv, Owed
  <1>5. CASE FallingBack(r)
    <2>1. ask.age = "late" /\ run[r].todo.ask /\ ~run[r].todo.hand
      BY <1>5 DEF FallbackInv
    <2>2. Phases[4] \in Due(run[r].todo) /\ Phases[3] \notin Due(run[r].todo)
      BY <2>1 DEF Due, Phases
    <2>3. run'[r].pc = Phases[4] /\ run'[r].todo = run[r].todo
      BY <1>3, <2>2, Onward
    <2>4. run'[r].pc = "ask"
      BY <2>3 DEF Phases
    <2>5. Owed = 1 /\ Owed' = 0
      BY <1>1, <1>2, <1>5, <2>1, <2>3, <2>4 DEF Owed, FallingBack
    <2>6. Cardinality(Fallbacks') <= Cardinality(Fallbacks) + 1
          /\ Cardinality(Fallbacks') \in Nat /\ Cardinality(Fallbacks) \in Nat
      BY <1>1, <1>2, InsertedFallbacks, FallbacksCount
    <2>7. Cardinality(Fallbacks') + Owed' <= excuses'
      BY <1>2, <2>5, <2>6 DEF FallbackInv, TypeOK
    <2> QED
      BY <1>1, <1>2, <2>1, <2>3, <2>4, <2>7 DEF FallbackInv, FallingBack
  <1> QED
    BY <1>4, <1>5

LEMMA AskingFallback ==
  ASSUME OneRun, TypeOK, FallbackInv, NEW r \in Runs, HandOver(r) \/ AskForPlan(r) PROVE FallbackInv'
  <1>1. Runs = {r} /\ run[r].pc \in {"hand", "ask"}
    BY DEF OneRun, HandOver, AskForPlan, Advances
  <1>2. UNCHANGED <<ask, excuses>> /\ Fallbacks' = Fallbacks
    BY DEF HandOver, AskForPlan, hist, Fallbacks
  <1>3. Advances(r, Phases[3]) \/ Advances(r, Phases[4])
    BY DEF HandOver, AskForPlan, Phases
  <1>4. CASE ~FallingBack(r)
    <2>1. ~FallingBack(r)' /\ run'[r].pc # "look"
      BY <1>3, <1>4, Onward, PhaseNames DEF FallingBack, AtRest, Nothing, NoRow
    <2> QED
      BY <1>1, <1>2, <1>4, <2>1 DEF FallbackInv, Owed
  <1>5. CASE FallingBack(r)
    <2>1. ask.age = "late" /\ run[r].pc = "ask" /\ run[r].todo.ask /\ ~run[r].todo.hand
      BY <1>1, <1>5 DEF FallbackInv
    <2>2. Advances(r, Phases[4]) /\ Phases[5] \in Due(run[r].todo)
      BY <1>3, <2>1 DEF Due, Phases, Advances
    <2>3. run'[r].pc = Phases[5] /\ run'[r].todo = run[r].todo
      BY <2>2, Onward
    <2>4. run'[r].pc = "stamp"
      BY <2>3 DEF Phases
    <2> QED
      BY <1>1, <1>2, <1>5, <2>1, <2>3, <2>4 DEF FallbackInv, Owed, FallingBack
  <1> QED
    BY <1>4, <1>5

LEMMA StampFallback ==
  ASSUME OneRun, TypeOK, FallbackInv, NEW r \in Runs, StampAsk(r) PROVE FallbackInv'
  <1>1. Runs = {r} /\ ask'.age = "fresh"
    BY DEF OneRun, StampAsk, Stamped
  <1>2. excuses' = excuses /\ Fallbacks' = Fallbacks
    BY DEF StampAsk, hist, Fallbacks
  <1>3. Advances(r, Phases[5])
    BY DEF StampAsk, Phases
  <1>4. run'[r] = AtRest
    BY <1>3, Onward
  <1>5. Cardinality(Fallbacks) <= excuses
    BY FallbacksCount DEF FallbackInv, Owed, TypeOK
  <1>6. Owed' = 0 /\ ~FallingBack(r)' /\ run'[r].pc = "idle"
    BY <1>1, <1>4 DEF Owed, FallingBack, AtRest, Nothing, NoRow
  <1>7. Cardinality(Fallbacks') + Owed' <= excuses'
    BY <1>2, <1>5, <1>6, FallbacksCount DEF TypeOK
  <1> QED
    BY <1>1, <1>6, <1>7 DEF FallbackInv

LEMMA BeginFallback ==
  ASSUME OneRun, TypeOK, FallbackInv, NEW r \in Runs, Begin(r) PROVE FallbackInv'
  <1>1. Runs = {r} /\ run[r].pc = "idle" /\ run \in [Runs -> Run]
    BY DEF OneRun, Begin, TypeOK
  <1>2. UNCHANGED <<ask, excuses>> /\ Fallbacks' = Fallbacks
    BY DEF Begin, work, hist, Fallbacks
  <1>3. ~FallingBack(r)' /\ run'[r].ask = ask
    BY <1>1 DEF Begin, FallingBack, AtRest, Nothing, NoRow
  <1>4. ~FallingBack(r)
    BY <1>1 DEF FallbackInv
  <1> QED
    BY <1>1, <1>2, <1>3, <1>4 DEF FallbackInv, Owed

\* A pass that dies may have inserted its fallback and not stamped: that is an
\* excuse for another.
LEMMA CrashFallback ==
  ASSUME OneRun, TypeOK, FallbackInv, NEW r \in Runs, Crash(r) PROVE FallbackInv'
  <1>1. Runs = {r} /\ run \in [Runs -> Run] /\ run'[r] = AtRest
    BY DEF OneRun, Crash, TypeOK
  <1>2. ask' = ask /\ Fallbacks' = Fallbacks /\ excuses' = excuses + 1
    BY DEF Crash, work, Fallbacks
  <1>3. Owed \in {0, 1} /\ Owed' \in {0, 1}
    BY DEF Owed
  <1>4. Cardinality(Fallbacks') + Owed' <= excuses'
    BY <1>2, <1>3, FallbacksCount DEF FallbackInv, TypeOK
  <1> QED
    BY <1>1, <1>4 DEF FallbackInv, FallingBack, AtRest, Nothing, NoRow

\* Every late ask is an excuse for one.
LEMMA LateFallback == ASSUME TypeOK, FallbackInv, AskGetsLate PROVE FallbackInv'
  <1>1. ask.age = "fresh" /\ ask'.age = "late" /\ excuses' = excuses + 1 /\ run' = run /\ Fallbacks' = Fallbacks
    BY DEF AskGetsLate, TypeOK, Ask, Fallbacks
  <1>2. Owed = 0 /\ Owed' \in {0, 1}
    BY <1>1 DEF Owed
  <1>3. Cardinality(Fallbacks') + Owed' <= excuses'
    BY <1>1, <1>2, FallbacksCount DEF FallbackInv, TypeOK
  <1> QED
    BY <1>1, <1>3 DEF FallbackInv, FallingBack

\* Sessions, plans, the send path and the lead write no fallback.
LEMMA KindsKept ==
  ASSUME TypeOK, DOMAIN rows' = DOMAIN rows, \A i \in DOMAIN rows : rows'[i].kind = rows[i].kind
  PROVE  Fallbacks' = Fallbacks
  BY DEF Fallbacks

LEMMA MessageMoveKinds ==
  ASSUME TypeOK, NEW i \in DOMAIN rows,
         Claim(i) \/ Park(i) \/ Deliver(i) \/ Refuse(i) \/ Discard(i) \/ Approve(i)
  PROVE  Fallbacks' = Fallbacks
  <1>1. DOMAIN rows' = DOMAIN rows /\ \A j \in DOMAIN rows : rows'[j].kind = rows[j].kind
    <2>1. CASE Claim(i) \/ Park(i) \/ Approve(i)
      BY <2>1, RowTypes DEF Claim, Park, Approve, Row
    <2>2. ASSUME NEW from, NEW to, Move(i, from, to)
          PROVE  DOMAIN rows' = DOMAIN rows /\ \A j \in DOMAIN rows : rows'[j].kind = rows[j].kind
      <3>1. rows[i] \in Row
        BY RowTypes
      <3>2. Now(rows[i], to).kind = rows[i].kind
        BY <3>1 DEF Now, Row
      <3> QED
        BY <2>2, <3>2 DEF Move
    <2> QED
      BY <2>1, <2>2 DEF Deliver, Refuse, Discard
  <1> QED
    BY <1>1, KindsKept

LEMMA ReleaseKinds == ASSUME TypeOK, NEW waiting, Release(waiting) PROVE Fallbacks' = Fallbacks
  <1>1. DOMAIN rows' = DOMAIN rows /\ \A i \in DOMAIN rows : rows'[i].kind = rows[i].kind
    BY RowTypes DEF Release, Now, Row
  <1> QED
    BY <1>1, KindsKept

LEMMA WorkingKinds == ASSUME TypeOK, NEW s \in Sessions, Working(s) PROVE Fallbacks' = Fallbacks
  <1>1. CASE Compose(s)
    <2>1. [NoRow EXCEPT !.kind = "words", !.num = session[s].step] \in Row
      BY DEF TypeOK, Session, NoRow, Row, Kinds, Statuses
    <2> QED
      BY <1>1, <2>1, InsertedFallbacks DEF Compose, NoRow
  <1>2. CASE ReleaseReplaced(s)
    BY <1>2, ReleaseKinds DEF ReleaseReplaced
  <1>3. CASE Number(s) \/ PlanGoal(s) \/ PointAtPlan(s) \/ CheckStep(s) \/ FinishWork(s)
    BY <1>3 DEF Number, PlanGoal, PointAtPlan, CheckStep, FinishWork, work, Fallbacks
  <1> QED
    BY <1>1, <1>2, <1>3 DEF Working

LEMMA RestFallback ==
  ASSUME TypeOK, FallbackInv,
         \/ \E s \in Sessions : Working(s) \/ GiveUp(s) \/ (\E kind \in DOMAIN jobs : Take(s, kind))
         \/ Classify \/ StampPlaybook \/ PointAtStamped \/ ReleaseStamped \/ DetectPlan
         \/ \E i \in DOMAIN rows : \/ Claim(i) \/ Park(i) \/ Deliver(i) \/ Refuse(i)
                                   \/ Discard(i) \/ Approve(i)
         \/ Reply \/ Answer \/ ComposeGetsLate \/ WindowCloses \/ StandardWaitOver
  PROVE  FallbackInv'
  <1>1. ASSUME NEW s \in Sessions, Working(s) PROVE UNCHANGED <<ask, run, excuses>> /\ Fallbacks' = Fallbacks
    <2>1. UNCHANGED <<ask, run, excuses>>
      BY <1>1 DEF Working, Number, PlanGoal, PointAtPlan, ReleaseReplaced, CheckStep, Compose, FinishWork,
         work, hist
    <2> QED
      BY <1>1, <2>1, WorkingKinds
  <1>2. ASSUME NEW s \in Sessions, GiveUp(s) \/ (\E kind \in DOMAIN jobs : Take(s, kind))
        PROVE  UNCHANGED <<ask, run, excuses>> /\ Fallbacks' = Fallbacks
    BY <1>2 DEF GiveUp, Take, hist, Fallbacks
  <1>3. ASSUME ReleaseStamped PROVE UNCHANGED <<ask, run, excuses>> /\ Fallbacks' = Fallbacks
    BY <1>3, ReleaseKinds DEF ReleaseStamped, hist
  <1>4. ASSUME Classify \/ StampPlaybook \/ PointAtStamped \/ DetectPlan
        PROVE  UNCHANGED <<ask, run, excuses>> /\ Fallbacks' = Fallbacks
    BY <1>4 DEF Classify, StampPlaybook, PointAtStamped, DetectPlan, work, hist, Fallbacks
  <1>5. ASSUME NEW i \in DOMAIN rows,
               Claim(i) \/ Park(i) \/ Deliver(i) \/ Refuse(i) \/ Discard(i) \/ Approve(i)
        PROVE  UNCHANGED <<ask, run, excuses>> /\ Fallbacks' = Fallbacks
    <2>1. UNCHANGED <<ask, run, excuses>>
      BY <1>5 DEF Claim, Park, Deliver, Refuse, Discard, Approve, hist
    <2> QED
      BY <1>5, <2>1, MessageMoveKinds
  <1>6. ASSUME Reply PROVE UNCHANGED <<ask, run, excuses>> /\ Fallbacks' = Fallbacks
    <2>1. DOMAIN rows' = DOMAIN rows /\ \A i \in DOMAIN rows : rows'[i].kind = rows[i].kind
      BY <1>6, RowTypes DEF Reply, Now, Row
    <2>2. Fallbacks' = Fallbacks
      BY <2>1, KindsKept
    <2> QED
      BY <1>6, <2>2 DEF Reply
  <1>7. ASSUME Answer \/ ComposeGetsLate \/ WindowCloses \/ StandardWaitOver
        PROVE  UNCHANGED <<ask, run, excuses>> /\ Fallbacks' = Fallbacks
    BY <1>7 DEF Answer, ComposeGetsLate, WindowCloses, StandardWaitOver, work, hist, Fallbacks
  <1>8. UNCHANGED <<ask, run, excuses>> /\ Fallbacks' = Fallbacks
    BY <1>1, <1>2, <1>3, <1>4, <1>5, <1>6, <1>7
  <1> QED
    BY <1>8, FallbackFrame

LEMMA NewsFallback == ASSUME TypeOK, FallbackInv, News PROVE FallbackInv'
  <1>1. Fallbacks' = Fallbacks
    <2>1. DOMAIN rows' = DOMAIN rows /\ \A i \in DOMAIN rows : rows'[i].kind = rows[i].kind
      BY RowTypes DEF News, Row
    <2> QED
      BY <2>1, KindsKept
  <1>2. ask'.age = ask.age /\ excuses' = excuses
    BY DEF TypeOK, News, Ask
  <1>3. ASSUME NEW r \in Runs
        PROVE  /\ run'[r].pc = run[r].pc /\ run'[r].ask = run[r].ask
               /\ run'[r].todo.row.kind = run[r].todo.row.kind
               /\ run'[r].todo.ask = run[r].todo.ask /\ run'[r].todo.hand = run[r].todo.hand
    <2>1. run[r] \in Run /\ run[r].todo \in Todo /\ run[r].todo.row \in Row
      BY DEF TypeOK, Run, Todo
    <2> QED
      BY <2>1 DEF News, Run, Todo, Row
  <1> QED
    BY <1>1, <1>2, <1>3, FallbackFrame

\* "A routine that is down costs a lead one generic message rather than
\* silence" (advance.ts): with one pass at a time, each generic message stands
\* for an ask no plan answered in time or for a pass that died.
THEOREM OneFallbackPerAsk == OneRun => (Spec => []FallbackPerAsk)
  <1> SUFFICES ASSUME OneRun PROVE Spec => []FallbackPerAsk
    OBVIOUS
  <1>1. Init => FallbackInv
    <2> SUFFICES ASSUME Init PROVE FallbackInv
      OBVIOUS
    <2>1. Fallbacks = {}
      <3>1. \/ rows = <<[NoRow EXCEPT !.kind = "welcome"]>>
            \/ rows = <<[NoRow EXCEPT !.kind = "welcome", !.status = "sent"]>>
        BY DEF Init, Arrived, Greeted
      <3>2. /\ [NoRow EXCEPT !.kind = "welcome"].kind = "welcome"
            /\ [NoRow EXCEPT !.kind = "welcome", !.status = "sent"].kind = "welcome"
        BY DEF NoRow
      <3>3. PICK e : rows = <<e>> /\ e.kind = "welcome"
        BY <3>1, <3>2
      <3> QED
        BY <3>3 DEF Fallbacks
    <2>2. Owed = 0 /\ excuses = 0
      BY DEF Init, Owed, NeverAsked
    <2>3. \A r \in Runs : run[r].pc = "idle" /\ ~FallingBack(r)
      BY DEF Init, FallingBack, AtRest, Nothing, NoRow
    <2> QED
      BY <2>1, <2>2, <2>3, FS_EmptySet DEF FallbackInv
  <1>2. TypeOK /\ FallbackInv /\ [Next]_vars => FallbackInv'
    <2> SUFFICES ASSUME TypeOK, FallbackInv, [Next]_vars PROVE FallbackInv'
      OBVIOUS
    <2>1. CASE UNCHANGED vars
      BY <2>1 DEF vars, work, hist, FallbackInv, Fallbacks, Owed, FallingBack
    <2>2. ASSUME NEW r \in Runs, Pass(r) \/ Crash(r) PROVE FallbackInv'
      BY <2>2, BeginFallback, LookFallback, SkipFallback, InsertFallback, AskingFallback,
         StampFallback, CrashFallback DEF Pass
    <2> QED
      BY <2>1, <2>2, RestFallback, NewsFallback, LateFallback DEF Next, Clock
  <1>3. TypeOK /\ FallbackInv => FallbackPerAsk
    <2> SUFFICES ASSUME TypeOK, FallbackInv PROVE Cardinality(Fallbacks) <= excuses
      BY DEF FallbackPerAsk, Fallbacks
    <2>1. Owed \in {0, 1}
      BY DEF Owed
    <2> QED
      BY <2>1, FallbacksCount DEF FallbackInv, TypeOK
  <1> QED
    BY <1>1, <1>2, <1>3, SpecType, PTL DEF Spec
=============================================================================
