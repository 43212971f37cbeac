---------------------------- MODULE VerdictProofs ----------------------------
(***************************************************************************)
(* Theorems about Verdict, for any checks, messages, budget and events.    *)
(***************************************************************************)
EXTENDS Verdict, FiniteSetTheorems, TLAPS

AllShown == \A c \in Checks : Shown(c)

\* Whatever a campaign or a call's copy records as passed was once shown, and
\* a session that marks a success found every check recorded.
Grounded ==
    /\ \A c \in Checks : results[c] = "yes" => Shown(c)
    /\ \A r \in Runs, c \in Checks : run[r].seen[c] = "yes" => Shown(c)
    /\ \A r \in Runs : run[r].phase = "end" /\ run[r].wins => AllShown

IInv == TypeOK /\ Grounded /\ ProvedWin

LEMMA SpentType == ASSUME TypeOK PROVE Cardinality(Sent) \in Nat
  <1>1. Sent \subseteq Msgs
    BY DEF Sent
  <1> QED
    BY <1>1, VerdictAssumption, FS_Subset, FS_CardinalityType

LEMMA ChecksType == Len(KindOf) \in Nat /\ Len(KindOf) > 0 /\ 1 \in Checks
  BY VerdictAssumption DEF Checks

LEMMA IdleType == Idle \in Call
  BY ChecksType DEF Idle, Call, Phases, Readings, Checks, Places

LEMMA GoesOnType ==
  ASSUME TypeOK, NEW r \in Runs, NEW to \in Phases, run' = [run EXCEPT ![r].phase = to]
  PROVE  run' \in [Runs -> Call]
  BY DEF TypeOK, Call

LEMMA BecomesType ==
  ASSUME TypeOK, NEW r \in Runs, NEW call \in Call, run' = [run EXCEPT ![r] = call]
  PROVE  run' \in [Runs -> Call]
  BY DEF TypeOK

LEMMA NextType ==
  ASSUME TypeOK, NEW r \in Runs, Asking(r)
  PROVE  run[r] \in Call /\ run[r].next \in Checks /\ run[r].next + 1 \in Places
  BY ChecksType DEF TypeOK, Call, Asking, Places, Checks

LEMMA NoteType ==
  ASSUME TypeOK, NEW r \in Runs, NEW reading \in Readings, Asking(r), Note(r, reading)
  PROVE  run' \in [Runs -> Call]
  <1>1. run[r] \in Call /\ run[r].next \in Checks /\ run[r].next + 1 \in Places
    BY NextType
  <1> QED
    BY <1>1 DEF TypeOK, Call, Note

LEMMA RecordType ==
  ASSUME TypeOK, NEW readings \in [Checks -> Readings], Record(readings)
  PROVE  /\ results' \in [Checks -> Readings]
         /\ crossed' \in [Runs -> SUBSET Checks]
  BY DEF TypeOK, Record

LEMMA BeginStep == ASSUME IInv, NEW r \in Runs, Begin(r) PROVE IInv'
  <1>1. TypeOK'
    <2>1. run' \in [Runs -> Call]
      <3>1. results \in [Checks -> Readings]
        BY DEF IInv, TypeOK
      <3>2. [Idle EXCEPT !.phase = "ask", !.seen = results, !.spent = Cardinality(Sent)] \in Call
        BY <3>1, IdleType, SpentType DEF Call, IInv, Phases
      <3> QED
        BY <3>2, BecomesType DEF IInv, Begin
    <2>2. crossed' \in [Runs -> SUBSET Checks]
      BY DEF IInv, TypeOK, Begin
    <2> QED
      BY <2>1, <2>2 DEF IInv, TypeOK, db, count, world, Begin
  <1>2. Grounded' /\ ProvedWin'
    BY DEF IInv, TypeOK, Grounded, ProvedWin, AllShown, Shown, db, world, Begin, Idle
  <1> QED
    BY <1>1, <1>2 DEF IInv

LEMMA PassOverStep == ASSUME IInv, NEW r \in Runs, PassOver(r) PROVE IInv'
  <1>1. TypeOK'
    <2>1. run' \in [Runs -> Call]
      BY NextType DEF IInv, TypeOK, Call, PassOver
    <2>2. TypeOK' \/ run' \notin [Runs -> Call]
      BY ChecksType
      DEF IInv, TypeOK, Readings, db, count, world, hist, PassOver, Asking, PassedOver
    <2> QED
      BY <2>1, <2>2
  <1>2. Grounded' /\ ProvedWin'
    BY ChecksType
    DEF IInv, TypeOK, Grounded, ProvedWin, AllShown, Shown, Phases, Readings, Checks, db, count, world, hist, PassOver, Asking, PassedOver
  <1> QED
    BY <1>1, <1>2 DEF IInv

LEMMA AskStep == ASSUME IInv, NEW r \in Runs, Ask(r) PROVE IInv'
  <1>1. TypeOK'
    <2>1. run' \in [Runs -> Call]
      BY NoteType DEF IInv, Ask, Readings
    <2>2. TypeOK' \/ run' \notin [Runs -> Call]
      BY ChecksType
      DEF IInv, TypeOK, Readings, db, count, world, hist, Ask, Asking, Note, PassedOver
    <2> QED
      BY <2>1, <2>2
  <1>2. Grounded' /\ ProvedWin'
    BY ChecksType
    DEF IInv, TypeOK, Grounded, ProvedWin, AllShown, Shown, Phases, Readings, Checks, db, count, world, hist, Ask, Asking, Note, PassedOver
  <1> QED
    BY <1>1, <1>2 DEF IInv

LEMMA AskInVainStep == ASSUME IInv, NEW r \in Runs, AskInVain(r) PROVE IInv'
  <1>1. TypeOK'
    <2>1. run' \in [Runs -> Call]
      <3>1. run[r].seen[run[r].next] \in Readings
        BY NextType DEF IInv, TypeOK, Call, AskInVain
      <3> QED
        BY <3>1, NoteType DEF IInv, AskInVain, Readings
    <2>2. TypeOK' \/ run' \notin [Runs -> Call]
      BY ChecksType
      DEF IInv, TypeOK, Readings, db, count, world, hist, AskInVain, Asking, Note, PassedOver, Fault
    <2> QED
      BY <2>1, <2>2
  <1>2. Grounded' /\ ProvedWin'
    BY ChecksType
    DEF IInv, TypeOK, Grounded, ProvedWin, AllShown, Shown, Phases, Readings, Checks, db, count, world, hist, AskInVain, Asking, Note, PassedOver, Fault
  <1> QED
    BY <1>1, <1>2 DEF IInv

LEMMA ConcludeStep == ASSUME IInv, NEW r \in Runs, Conclude(r) PROVE IInv'
  <1>1. TypeOK'
    <2>1. run' \in [Runs -> Call]
      <3>1. AllPassed(r) \in BOOLEAN
        BY DEF AllPassed
      <3>2. PICK wins \in BOOLEAN :
              run' = [run EXCEPT ![r].phase = "drop", ![r].wins = wins]
        BY <3>1, Zenon DEF Conclude
      <3>3. run[r] \in Call /\ "drop" \in Phases
        BY DEF IInv, TypeOK, Phases
      <3>4. [run[r] EXCEPT !.phase = "drop", !.wins = wins] \in Call
        BY <3>2, <3>3 DEF Call
      <3>5. run' = [run EXCEPT ![r] =
                      [run[r] EXCEPT !.phase = "drop", !.wins = wins]]
        BY <3>2, Zenon
      <3> QED
        BY <3>4, <3>5, BecomesType DEF IInv
    <2>2. TypeOK' \/ run' \notin [Runs -> Call]
      <3>1. run[r].seen \in [Checks -> Readings]
        BY DEF IInv, TypeOK, Call
      <3>2. results' \in [Checks -> Readings] /\ crossed' \in [Runs -> SUBSET Checks]
        BY <3>1, RecordType DEF IInv, Conclude
      <3> QED
        BY <3>2 DEF IInv, TypeOK, count, world, Conclude
    <2> QED
      BY <2>1, <2>2
  <1>2. Grounded' /\ ProvedWin'
    BY ChecksType
    DEF IInv, TypeOK, Grounded, ProvedWin, AllShown, Shown, Phases, Readings, Checks, Record, world, Conclude, Asked, AllPassed
  <1> QED
    BY <1>1, <1>2 DEF IInv

LEMMA SaveStep == ASSUME IInv, NEW r \in Runs, Save(r) PROVE IInv'
  <1>1. TypeOK'
    <2>1. run' \in [Runs -> Call]
      BY IdleType, BecomesType DEF IInv, Save
    <2>2. TypeOK' \/ run' \notin [Runs -> Call]
      <3>1. run[r].seen \in [Checks -> Readings]
        BY DEF IInv, TypeOK, Call
      <3>2. results' \in [Checks -> Readings] /\ crossed' \in [Runs -> SUBSET Checks]
        BY <3>1, RecordType DEF IInv, Save
      <3> QED
        BY <3>2 DEF IInv, TypeOK, count, world, Save
    <2> QED
      BY <2>1, <2>2
  <1>2. Grounded' /\ ProvedWin'
    BY ChecksType
    DEF IInv, TypeOK, Grounded, ProvedWin, AllShown, Shown, Phases, Readings, Checks, Record, world, Save, Asked, AllPassed, Idle
  <1> QED
    BY <1>1, <1>2 DEF IInv

LEMMA EndStep == ASSUME IInv, NEW r \in Runs, End(r) PROVE IInv'
  <1>1. TypeOK'
    <2>1. run' \in [Runs -> Call]
      BY GoesOnType DEF IInv, Phases, End
    <2>2. TypeOK' \/ run' \notin [Runs -> Call]
      BY ChecksType
      DEF IInv, TypeOK, Readings, db, count, world, hist, End
    <2> QED
      BY <2>1, <2>2
  <1>2. Grounded' /\ ProvedWin'
    BY ChecksType
    DEF IInv, TypeOK, Grounded, ProvedWin, AllShown, Shown, Phases, Readings, Checks, db, count, world, hist, End
  <1> QED
    BY <1>1, <1>2 DEF IInv

LEMMA DropStep == ASSUME IInv, NEW r \in Runs, Drop(r) PROVE IInv'
  <1>1. TypeOK'
    <2>1. run' \in [Runs -> Call]
      BY GoesOnType DEF IInv, Phases, Drop, Step
    <2>2. TypeOK' \/ run' \notin [Runs -> Call]
      BY ChecksType
      DEF IInv, TypeOK, Readings, db, count, world, hist, Drop, Step
    <2> QED
      BY <2>1, <2>2
  <1>2. Grounded' /\ ProvedWin'
    BY ChecksType
    DEF IInv, TypeOK, Grounded, ProvedWin, AllShown, Shown, Phases, Readings, Checks, db, count, world, hist, Drop, Step
  <1> QED
    BY <1>1, <1>2 DEF IInv

LEMMA FindSentStep == ASSUME IInv, NEW r \in Runs, FindSent(r) PROVE IInv'
  <1>1. TypeOK'
    <2>1. run' \in [Runs -> Call]
      <3>1. Unstamped \in SUBSET Msgs
        BY DEF Unstamped, Sent
      <3>2. PICK mine \in SUBSET Msgs :
              run' = [run EXCEPT ![r].phase = "stamp", ![r].mine = mine]
        BY <3>1, Zenon DEF FindSent
      <3>3. run[r] \in Call /\ "stamp" \in Phases
        BY DEF IInv, TypeOK, Phases
      <3>4. [run[r] EXCEPT !.phase = "stamp", !.mine = mine] \in Call
        BY <3>2, <3>3 DEF Call
      <3>5. run' = [run EXCEPT ![r] =
                      [run[r] EXCEPT !.phase = "stamp", !.mine = mine]]
        BY <3>2, Zenon
      <3> QED
        BY <3>4, <3>5, BecomesType DEF IInv
    <2>2. TypeOK' \/ run' \notin [Runs -> Call]
      BY ChecksType
      DEF IInv, TypeOK, Readings, db, count, world, hist, FindSent, Unstamped, Sent
    <2> QED
      BY <2>1, <2>2
  <1>2. Grounded' /\ ProvedWin'
    BY ChecksType
    DEF IInv, TypeOK, Grounded, ProvedWin, AllShown, Shown, Phases, Readings, Checks, db, count, world, hist, FindSent, Unstamped, Sent
  <1> QED
    BY <1>1, <1>2 DEF IInv

LEMMA StampStep == ASSUME IInv, NEW r \in Runs, Stamp(r) PROVE IInv'
  <1>1. TypeOK'
    <2>1. run' \in [Runs -> Call]
      BY GoesOnType DEF IInv, Phases, Stamp, Step
    <2>2. TypeOK' \/ run' \notin [Runs -> Call]
      BY ChecksType
      DEF IInv, TypeOK, Readings, db, count, world, hist, Stamp, Step, Outcome
    <2> QED
      BY <2>1, <2>2
  <1>2. Grounded' /\ ProvedWin'
    BY ChecksType
    DEF IInv, TypeOK, Grounded, ProvedWin, AllShown, Shown, Phases, Readings, Checks, db, count, world, hist, Stamp, Step, Outcome
  <1> QED
    BY <1>1, <1>2 DEF IInv

LEMMA CountWinStep ==
  ASSUME IInv, NEW r \in Runs, NEW m \in Msgs, CountWin(r, m) PROVE IInv'
  <1>1. TypeOK'
    <2>1. run' \in [Runs -> Call]
      <3>1. run[r].mine \ {m} \in SUBSET Msgs
        BY DEF IInv, TypeOK, Call
      <3> QED
        BY <3>1 DEF IInv, TypeOK, Call, CountWin
    <2>2. TypeOK' \/ run' \notin [Runs -> Call]
      BY DEF IInv, TypeOK, db, world, hist, count, CountWin, Step
    <2> QED
      BY <2>1, <2>2
  <1>2. Grounded' /\ ProvedWin'
    BY DEF IInv, TypeOK, Grounded, ProvedWin, AllShown, Shown, Phases, db, world, hist, CountWin, Step
  <1> QED
    BY <1>1, <1>2 DEF IInv

LEMMA CountedStep ==
  ASSUME IInv, NEW r \in Runs, Counted(r) PROVE IInv'
  <1>1. TypeOK'
    <2>1. run' \in [Runs -> Call]
      BY GoesOnType DEF IInv, Phases, Counted, Step
    <2>2. TypeOK' \/ run' \notin [Runs -> Call]
      BY DEF IInv, TypeOK, db, world, hist, count, Counted, Step
    <2> QED
      BY <2>1, <2>2
  <1>2. Grounded' /\ ProvedWin'
    BY DEF IInv, TypeOK, Grounded, ProvedWin, AllShown, Shown, Phases, db, world, hist, Counted, Step
  <1> QED
    BY <1>1, <1>2 DEF IInv

LEMMA CreditTemplatesStep == ASSUME IInv, NEW r \in Runs, CreditTemplates(r) PROVE IInv'
  <1>1. TypeOK'
    <2>1. run' \in [Runs -> Call]
      BY GoesOnType DEF IInv, Phases, CreditTemplates, Step
    <2>2. TypeOK' \/ run' \notin [Runs -> Call]
      BY ChecksType
      DEF IInv, TypeOK, Readings, db, count, world, hist, CreditTemplates, Step
    <2> QED
      BY <2>1, <2>2
  <1>2. Grounded' /\ ProvedWin'
    BY ChecksType
    DEF IInv, TypeOK, Grounded, ProvedWin, AllShown, Shown, Phases, Readings, Checks, db, count, world, hist, CreditTemplates, Step
  <1> QED
    BY <1>1, <1>2 DEF IInv

LEMMA CoolStep == ASSUME IInv, NEW r \in Runs, Cool(r) PROVE IInv'
  <1>1. TypeOK'
    <2>1. run' \in [Runs -> Call]
      BY IdleType, BecomesType DEF IInv, Cool
    <2>2. TypeOK' \/ run' \notin [Runs -> Call]
      BY ChecksType
      DEF IInv, TypeOK, Readings, db, count, world, hist, Cool, Idle
    <2> QED
      BY <2>1, <2>2
  <1>2. Grounded' /\ ProvedWin'
    BY ChecksType
    DEF IInv, TypeOK, Grounded, ProvedWin, AllShown, Shown, Phases, Readings, Checks, db, count, world, hist, Cool, Idle
  <1> QED
    BY <1>1, <1>2 DEF IInv

LEMMA DieStep == ASSUME IInv, NEW r \in Runs, Die(r) PROVE IInv'
  <1>1. TypeOK'
    <2>1. run' \in [Runs -> Call]
      BY IdleType, BecomesType DEF IInv, Die
    <2>2. TypeOK' \/ run' \notin [Runs -> Call]
      BY ChecksType
      DEF IInv, TypeOK, Readings, db, count, world, hist, Die, Fault, Idle
    <2> QED
      BY <2>1, <2>2
  <1>2. Grounded' /\ ProvedWin'
    BY ChecksType
    DEF IInv, TypeOK, Grounded, ProvedWin, AllShown, Shown, Phases, Readings, Checks, db, count, world, hist, Die, Fault, Idle
  <1> QED
    BY <1>1, <1>2 DEF IInv

LEMMA MarkStep == ASSUME IInv, NEW r \in Runs, NEW wins \in BOOLEAN, Mark(r, wins) PROVE IInv'
  <1>1. TypeOK'
    <2>1. run' \in [Runs -> Call]
      <3>1. [Idle EXCEPT !.phase = "end", !.by = "session", !.wins = wins] \in Call
        BY IdleType DEF Call, Phases
      <3> QED
        BY <3>1, BecomesType DEF IInv, Mark
    <2>2. TypeOK' \/ run' \notin [Runs -> Call]
      BY ChecksType
      DEF IInv, TypeOK, Readings, db, count, world, hist, Mark, Idle, Refused
    <2> QED
      BY <2>1, <2>2
  <1>2. Grounded' /\ ProvedWin'
    BY ChecksType
    DEF IInv, TypeOK, Grounded, ProvedWin, AllShown, Shown, Phases, Readings, Checks, db, count, world, hist, Mark, Idle, Refused
  <1> QED
    BY <1>1, <1>2 DEF IInv

LEMMA ResolveStep ==
  ASSUME IInv, NEW c \in Checks, NEW passed \in BOOLEAN, Resolve(c, passed) PROVE IInv'
  <1>1. TypeOK'
    <2>1. [results EXCEPT ![c] = IF passed THEN "yes" ELSE "no"] \in [Checks -> Readings]
      BY DEF IInv, TypeOK, Readings
    <2>2. results' \in [Checks -> Readings] /\ crossed' \in [Runs -> SUBSET Checks]
      BY <2>1, RecordType DEF IInv, Resolve
    <2> QED
      BY <2>2 DEF IInv, TypeOK, count, world, Resolve
  <1>2. Grounded' /\ ProvedWin'
    BY DEF IInv, TypeOK, Grounded, ProvedWin, AllShown, Shown, Readings, Record, world, Resolve
  <1> QED
    BY <1>1, <1>2 DEF IInv

LEMMA HappenStep == ASSUME IInv, NEW c \in Checks, Happen(c) PROVE IInv'
  <1>1. TypeOK'
    <2>1. run' \in [Runs -> Call]
      BY DEF IInv, TypeOK, Happen
    <2>2. TypeOK' \/ run' \notin [Runs -> Call]
      BY ChecksType
      DEF IInv, TypeOK, Readings, db, count, world, hist, Happen
    <2> QED
      BY <2>1, <2>2
  <1>2. Grounded' /\ ProvedWin'
    BY ChecksType
    DEF IInv, TypeOK, Grounded, ProvedWin, AllShown, Shown, Phases, Readings, Checks, db, count, world, hist, Happen
  <1> QED
    BY <1>1, <1>2 DEF IInv

LEMMA LeaveStep == ASSUME IInv, Leave PROVE IInv'
  <1>1. TypeOK'
    <2>1. run' \in [Runs -> Call]
      BY DEF IInv, TypeOK, Leave
    <2>2. TypeOK' \/ run' \notin [Runs -> Call]
      BY ChecksType
      DEF IInv, TypeOK, Readings, db, count, world, hist, Leave, AfterLeaving
    <2> QED
      BY <2>1, <2>2
  <1>2. Grounded' /\ ProvedWin'
    BY ChecksType
    DEF IInv, TypeOK, Grounded, ProvedWin, AllShown, Shown, Phases, Readings, Checks, db, count, world, hist, Leave, AfterLeaving
  <1> QED
    BY <1>1, <1>2 DEF IInv

LEMMA SendStep == ASSUME IInv, NEW m \in Msgs, Send(m) PROVE IInv'
  <1>1. TypeOK'
    <2>1. run' \in [Runs -> Call]
      BY DEF IInv, TypeOK, Send
    <2>2. TypeOK' \/ run' \notin [Runs -> Call]
      BY ChecksType
      DEF IInv, TypeOK, Readings, db, count, world, hist, Send
    <2> QED
      BY <2>1, <2>2
  <1>2. Grounded' /\ ProvedWin'
    BY DEF IInv, Grounded, ProvedWin, AllShown, Shown, world, hist, Send
  <1> QED
    BY <1>1, <1>2 DEF IInv

LEMMA InitIInv == Init => IInv
  <1> SUFFICES ASSUME Init PROVE IInv
    OBVIOUS
  <1>1. TypeOK
    BY IdleType DEF Init, TypeOK, Readings
  <1>2. Grounded /\ ProvedWin
    BY DEF Init, Grounded, ProvedWin, AllShown, Idle
  <1> QED
    BY <1>1, <1>2 DEF IInv

LEMMA NextIInv == IInv /\ [Next]_vars => IInv'
  <1> SUFFICES ASSUME IInv, [Next]_vars PROVE IInv'
    OBVIOUS
  <1>1. ASSUME NEW r \in Runs, Verify(r) \/ Settle(r) \/ Die(r) PROVE IInv'
    BY <1>1, BeginStep, PassOverStep, AskStep, AskInVainStep, ConcludeStep, SaveStep,
       EndStep, DropStep, FindSentStep, StampStep,
       CountWinStep, CountedStep, CreditTemplatesStep, CoolStep, DieStep
    DEF Verify, Settle
  <1>2. ASSUME NEW r \in Runs, NEW wins \in BOOLEAN, Mark(r, wins) PROVE IInv'
    BY <1>2, MarkStep
  <1>3. ASSUME NEW c \in Checks, NEW passed \in BOOLEAN, Resolve(c, passed)
        PROVE  IInv'
    BY <1>3, ResolveStep
  <1>4. CASE UNCHANGED vars
    BY <1>4 DEF IInv, TypeOK, Grounded, ProvedWin, AllShown, Shown, vars, db, count, world, hist
  <1> QED
    BY <1>1, <1>2, <1>3, <1>4, HappenStep, LeaveStep, SendStep DEF Next

LEMMA SpecIInv == Spec => []IInv
  BY InitIInv, NextIInv, PTL DEF Spec

\* Every reachable state has its type: no call ever leaves a status, a reading
\* or an outcome the readers of a campaign do not know (verify.ts, tools.ts).
THEOREM TypeCorrect == Spec => []TypeOK
  <1>1. IInv => TypeOK
    BY DEF IInv
  <1> QED
    BY <1>1, SpecIInv, PTL

\* However many calls overlap on one campaign, a success rests on checks the
\* lead passed or a session vouched for (verifyCampaign, mark_state).
THEOREM SuccessIsProved == Spec => []ProvedWin
  <1>1. IInv => ProvedWin
    BY DEF IInv
  <1> QED
    BY <1>1, SpecIInv, PTL

-----------------------------------------------------------------------------
(* One call at a time: the outcome is counted once and is the campaign's.  *)

Uncounted == converted = 0 /\ \A m \in Msgs : credit[m] = "none" /\ won[m] = 0

Ended(wins) == IF wins THEN "succeeded" ELSE "failed"

\* Nothing is counted before the campaign has its status, nor by a call that
\* has not come to its stamp; a message the call has yet to count is not
\* counted, and templates come last.
Tally ==
    /\ CountedOnce /\ OutcomeAgrees
    /\ status = "active" => Uncounted
    /\ \A r \in Runs :
         /\ run[r].phase \in {"ask", "end"} => Uncounted
         /\ run[r].phase \in {"drop", "sent", "stamp"} =>
               Uncounted /\ status = Ended(run[r].wins)
         /\ run[r].phase = "count" =>
               /\ converted = 0 /\ status # "active"
               /\ \A m \in run[r].mine : won[m] = 0
         /\ run[r].phase = "template" => converted = 0 /\ status # "active"

OneCall == \A r, s \in Runs : r = s

LEMMA BeginTally ==
  ASSUME OneCall, IInv, Tally, NEW r \in Runs, Begin(r)
  PROVE  Tally'
  <1>1. run'[r].phase = "ask" /\ status = "active"
    BY DEF Begin, Running, IInv, TypeOK, Idle
  <1>2. UNCHANGED <<status, count>>
    BY DEF Begin, db
  <1> QED
    BY <1>1, <1>2 DEF Tally, CountedOnce, OutcomeAgrees, Uncounted, OneCall, Outcome, count

LEMMA PassOverTally ==
  ASSUME OneCall, IInv, Tally, NEW r \in Runs, PassOver(r)
  PROVE  Tally'
  BY DEF Tally, CountedOnce, OutcomeAgrees, Uncounted, Ended, OneCall, TypeOK, IInv, Outcome, db, count, PassOver, Asking

LEMMA AskTally ==
  ASSUME OneCall, IInv, Tally, NEW r \in Runs, Ask(r)
  PROVE  Tally'
  BY DEF Tally, CountedOnce, OutcomeAgrees, Uncounted, Ended, OneCall, TypeOK, IInv, Outcome, db, count, Ask, Asking, Note

LEMMA AskInVainTally ==
  ASSUME OneCall, IInv, Tally, NEW r \in Runs, AskInVain(r)
  PROVE  Tally'
  BY DEF Tally, CountedOnce, OutcomeAgrees, Uncounted, Ended, OneCall, TypeOK, IInv, Outcome, db, count, AskInVain, Asking, Note

LEMMA ConcludeTally ==
  ASSUME OneCall, IInv, Tally, NEW r \in Runs, Conclude(r)
  PROVE  Tally'
  BY DEF Tally, CountedOnce, OutcomeAgrees, Uncounted, Ended, OneCall, TypeOK, IInv, Outcome, count, Conclude, Asked

LEMMA SaveTally ==
  ASSUME OneCall, IInv, Tally, NEW r \in Runs, Save(r)
  PROVE  Tally'
  BY DEF Tally, CountedOnce, OutcomeAgrees, Uncounted, Ended, OneCall, TypeOK, IInv, Outcome, count, Save, Idle

LEMMA EndTally ==
  ASSUME OneCall, IInv, Tally, NEW r \in Runs, End(r)
  PROVE  Tally'
  BY DEF Tally, CountedOnce, OutcomeAgrees, Uncounted, Ended, OneCall, TypeOK, IInv, Outcome, count, End

LEMMA DropTally ==
  ASSUME OneCall, IInv, Tally, NEW r \in Runs, Drop(r)
  PROVE  Tally'
  BY DEF Tally, CountedOnce, OutcomeAgrees, Uncounted, Ended, OneCall, TypeOK, IInv, Outcome, count, Drop, Step

LEMMA FindSentTally ==
  ASSUME OneCall, IInv, Tally, NEW r \in Runs, FindSent(r)
  PROVE  Tally'
  BY DEF Tally, CountedOnce, OutcomeAgrees, Uncounted, Ended, OneCall, TypeOK, IInv, Outcome, db, count, FindSent

LEMMA StampTally ==
  ASSUME OneCall, IInv, Tally, NEW r \in Runs, Stamp(r)
  PROVE  Tally'
  <1>1. run[r].phase = "stamp" /\ Uncounted /\ status = Ended(run[r].wins)
    BY DEF Tally, Stamp, Step
  <1>2. run'[r].phase = "count" /\ UNCHANGED <<status, won, converted>>
    BY DEF Stamp, Step, IInv, TypeOK, db
  <1>3. \A m \in Msgs : credit'[m] # "none" => credit'[m] = Outcome(status = "succeeded")
    BY <1>1 DEF Stamp, Uncounted, Ended, Outcome
  <1>4. run'[r].mine \subseteq Msgs
    BY DEF Stamp, Step, IInv, TypeOK, Call
  <1>5. status # "active"
    BY <1>1 DEF Ended
  <1>6. \A q \in Runs : q = r
    BY DEF OneCall
  <1> QED
    BY <1>1, <1>2, <1>3, <1>4, <1>5, <1>6 DEF Tally, CountedOnce, OutcomeAgrees, Uncounted

LEMMA CountWinTally ==
  ASSUME OneCall, IInv, Tally, NEW r \in Runs, NEW m \in Msgs, CountWin(r, m)
  PROVE  Tally'
  <1>1. /\ run[r].phase = "count" /\ won[m] = 0 /\ converted = 0 /\ status # "active"
        /\ \A n \in run[r].mine : won[n] = 0
    BY DEF Tally, CountWin
  <1>2. run'[r].phase = "count" /\ run'[r].mine = run[r].mine \ {m}
    BY DEF CountWin, IInv, TypeOK, Call
  <1>3. won'[m] = 1 /\ \A n \in Msgs \ {m} : won'[n] = won[n]
    BY <1>1 DEF CountWin, IInv, TypeOK
  <1>4. UNCHANGED <<status, credit, converted>> /\ run[r].mine \subseteq Msgs
    BY DEF CountWin, db, IInv, TypeOK, Call
  <1>5. \A q \in Runs : q = r
    BY DEF OneCall
  <1>6. CountedOnce'
    BY <1>3, <1>4 DEF Tally, CountedOnce
  <1> QED
    BY <1>1, <1>2, <1>3, <1>4, <1>5, <1>6 DEF Tally, OutcomeAgrees

LEMMA CountedTally ==
  ASSUME OneCall, IInv, Tally, NEW r \in Runs, Counted(r)
  PROVE  Tally'
  <1>1. run[r].phase = "count" /\ converted = 0 /\ status # "active"
    BY DEF Tally, Counted, Step
  <1>2. run'[r].phase \in {"template", "cool"} /\ UNCHANGED <<status, count>>
    BY DEF Counted, Step, IInv, TypeOK, db
  <1>3. \A q \in Runs : q = r
    BY DEF OneCall
  <1> QED
    BY <1>1, <1>2, <1>3 DEF Tally, CountedOnce, OutcomeAgrees, Uncounted, count

LEMMA CreditTemplatesTally ==
  ASSUME OneCall, IInv, Tally, NEW r \in Runs, CreditTemplates(r)
  PROVE  Tally'
  <1>1. run'[r].phase = "cool" /\ converted = 0 /\ converted' = 1
    BY DEF IInv, TypeOK, Call, Tally, CreditTemplates, Step
  <1>2. \A s \in Runs : run'[s].phase = "cool"
    BY <1>1 DEF OneCall
  <1>3. UNCHANGED <<status, credit, won>> /\ run[r].phase = "template"
    BY DEF CreditTemplates, Step, db
  <1> QED
    BY <1>1, <1>2, <1>3 DEF Tally, CountedOnce, OutcomeAgrees, Uncounted, Outcome

LEMMA CoolTally ==
  ASSUME OneCall, IInv, Tally, NEW r \in Runs, Cool(r)
  PROVE  Tally'
  BY DEF Tally, CountedOnce, OutcomeAgrees, Uncounted, Ended, OneCall, TypeOK, IInv, Outcome, count, Cool, Idle

LEMMA DieTally ==
  ASSUME OneCall, IInv, Tally, NEW r \in Runs, Die(r)
  PROVE  Tally'
  BY DEF Tally, CountedOnce, OutcomeAgrees, Uncounted, Ended, OneCall, TypeOK, IInv, Outcome, db, count, Die, Idle

LEMMA MarkTally ==
  ASSUME OneCall, IInv, Tally, NEW r \in Runs, NEW wins \in BOOLEAN, Mark(r, wins)
  PROVE  Tally'
  BY DEF Tally, CountedOnce, OutcomeAgrees, Uncounted, Ended, OneCall, TypeOK, IInv, Outcome, db, count, Mark, Idle

LEMMA ResolveTally ==
  ASSUME Tally, NEW c \in Checks, NEW passed \in BOOLEAN, Resolve(c, passed)
  PROVE  Tally'
  BY DEF Tally, CountedOnce, OutcomeAgrees, Uncounted, count, Resolve

LEMMA HappenTally ==
  ASSUME OneCall, IInv, Tally, NEW c \in Checks, Happen(c)
  PROVE  Tally'
  BY DEF Tally, CountedOnce, OutcomeAgrees, Uncounted, Ended, OneCall, TypeOK, IInv, Outcome, db, count, Happen

LEMMA LeaveTally ==
  ASSUME OneCall, IInv, Tally, Leave
  PROVE  Tally'
  BY DEF Tally, CountedOnce, OutcomeAgrees, Uncounted, Ended, OneCall, TypeOK, IInv, Outcome, count, Leave, AfterLeaving

LEMMA SendTally ==
  ASSUME OneCall, IInv, Tally, NEW m \in Msgs, Send(m)
  PROVE  Tally'
  BY DEF Tally, CountedOnce, OutcomeAgrees, Uncounted, Ended, OneCall, TypeOK, IInv, Outcome, count, Send

LEMMA SpecTally == ASSUME OneCall PROVE Spec => []Tally
  <1>1. Init => Tally
    BY DEF Init, Idle, Tally, CountedOnce, OutcomeAgrees, Uncounted
  <1>2. IInv /\ Tally /\ [Next]_vars => Tally'
    <2> SUFFICES ASSUME IInv, Tally, [Next]_vars PROVE Tally'
      OBVIOUS
    <2>1. ASSUME NEW r \in Runs, Verify(r) \/ Settle(r) \/ Die(r) PROVE Tally'
      BY <2>1, BeginTally, PassOverTally, AskTally, AskInVainTally, ConcludeTally, SaveTally,
         EndTally, DropTally, FindSentTally, StampTally, CountWinTally,
         CountedTally, CreditTemplatesTally, CoolTally, DieTally
      DEF Verify, Settle
    <2>2. ASSUME NEW r \in Runs, NEW wins \in BOOLEAN, Mark(r, wins) PROVE Tally'
      BY <2>2, MarkTally
    <2>3. ASSUME NEW c \in Checks, NEW passed \in BOOLEAN, Resolve(c, passed)
          PROVE  Tally'
      BY <2>3, ResolveTally
    <2>4. CASE UNCHANGED vars
      BY <2>4 DEF Tally, CountedOnce, OutcomeAgrees, Uncounted, vars, db, count
    <2> QED
      BY <2>1, <2>2, <2>3, <2>4, HappenTally, LeaveTally, SendTally DEF Next
  <1> QED
    BY <1>1, <1>2, SpecIInv, PTL DEF Spec

\* With one call at a time, dying anywhere and the lead opting out at any
\* moment, no message and no template counts a win twice (outcomes.ts).
THEOREM WinCountedOnce == ASSUME OneCall PROVE Spec => []CountedOnce
  <1>1. Tally => CountedOnce
    BY DEF Tally
  <1> QED
    BY <1>1, SpecTally, PTL

\* With one call at a time the outcome on a message is the campaign's own.
THEOREM OutcomeIsTheCampaigns == ASSUME OneCall PROVE Spec => []OutcomeAgrees
  <1>1. Tally => OutcomeAgrees
    BY DEF Tally
  <1> QED
    BY <1>1, SpecTally, PTL

-----------------------------------------------------------------------------
(* A settled fact stays settled.                                           *)

\* The copy a call asks about agrees with the campaign on what is settled,
\* but for the records that changed since it read.
CopyAgrees ==
    \A r \in Runs, c \in Checks :
        run[r].phase = "ask" /\ c \notin crossed[r] /\ Settled(c)
            => run[r].seen[c] = results[c]

\* What a step does to the settled records.
SettledStep ==
    \A c \in Checks : Settled(c) /\ results'[c] # results[c] =>
        StaleCopy(c) \/ \E passed \in BOOLEAN : Resolve(c, passed)

LEMMA RecordAgrees ==
  ASSUME IInv, CopyAgrees, NEW readings \in [Checks -> Readings], Record(readings),
         \A r \in Runs : run'[r].phase = "ask" =>
            run[r].phase = "ask" /\ run'[r].seen = run[r].seen
  PROVE  CopyAgrees'
  <1> SUFFICES ASSUME NEW r \in Runs, NEW c \in Checks,
                      run'[r].phase = "ask", c \notin crossed'[r], Settled(c)'
               PROVE  run'[r].seen[c] = results'[c]
    BY DEF CopyAgrees
  <1>1. crossed'[r] = crossed[r] \cup {d \in Checks : readings[d] # results[d]}
    BY DEF Record
  <1>2. c \notin crossed[r] /\ results'[c] = results[c]
    BY <1>1 DEF Record
  <1>3. Settled(c)
    BY <1>2 DEF Settled
  <1> QED
    BY <1>2, <1>3 DEF CopyAgrees

LEMMA OthersAgree ==
  ASSUME CopyAgrees, UNCHANGED <<results, crossed>>,
         \A r \in Runs : run'[r].phase = "ask" =>
            run[r].phase = "ask" /\ run'[r].seen = run[r].seen
  PROVE  CopyAgrees' /\ SettledStep
  BY DEF CopyAgrees, SettledStep, Settled

LEMMA BeginAgrees ==
  ASSUME IInv, CopyAgrees, NEW r \in Runs, Begin(r)
  PROVE  CopyAgrees' /\ SettledStep
  <1>1. results' = results /\ run'[r].seen = results
    BY DEF Begin, db, IInv, TypeOK, Idle
  <1>2. \A q \in Runs \ {r} : run'[q] = run[q] /\ crossed'[q] = crossed[q]
    BY DEF Begin, IInv, TypeOK
  <1> QED
    BY <1>1, <1>2 DEF CopyAgrees, SettledStep, Settled

LEMMA AsksAgree ==
  ASSUME IInv, CopyAgrees, NEW r \in Runs, PassOver(r) \/ Ask(r) \/ AskInVain(r)
  PROVE  CopyAgrees' /\ SettledStep
  <1>1. UNCHANGED <<results, crossed>>
    BY DEF PassOver, Ask, AskInVain, db, hist
  <1>2. SettledStep
    BY <1>1 DEF SettledStep
  <1>3. CASE PassOver(r)
    <2>1. \A q \in Runs : run'[q].phase = run[q].phase /\ run'[q].seen = run[q].seen
      BY <1>3 DEF PassOver, IInv, TypeOK, Call
    <2> QED
      BY <1>1, <2>1, OthersAgree
  <1>4. ASSUME NEW reading \in Readings, Asking(r), ~PassedOver(r, run[r].next), Note(r, reading)
        PROVE  CopyAgrees'
    <2>1. run[r].next \in Checks /\ run[r].phase = "ask"
      BY <1>4 DEF Asking
    <2>2. run[r].next \in crossed[r] \/ ~Settled(run[r].next)
      BY <1>4, <2>1 DEF CopyAgrees, Settled, PassedOver
    <2>3. /\ run'[r].phase = "ask"
          /\ \A c \in Checks \ {run[r].next} : run'[r].seen[c] = run[r].seen[c]
          /\ \A q \in Runs \ {r} : run'[q] = run[q]
      BY <1>4, <2>1 DEF IInv, TypeOK, Call, Note
    <2> QED
      BY <1>1, <2>1, <2>2, <2>3 DEF CopyAgrees, Settled
  <1>5. CASE Ask(r)
    BY <1>2, <1>4, <1>5 DEF Ask, Readings
  <1>6. CASE AskInVain(r)
    <2>1. run[r].seen[run[r].next] \in Readings
      BY <1>6, NextType DEF IInv, TypeOK, Call, AskInVain
    <2> QED
      BY <1>2, <1>4, <1>6, <2>1 DEF AskInVain, Readings
  <1> QED
    BY <1>2, <1>3, <1>5, <1>6

LEMMA WritesAgree ==
  ASSUME IInv, CopyAgrees, NEW r \in Runs, Conclude(r) \/ Save(r)
  PROVE  CopyAgrees' /\ SettledStep
  <1>1. run[r].phase = "ask" /\ Record(run[r].seen)
    BY DEF Conclude, Save, Asked
  <1>2. run[r].seen \in [Checks -> Readings]
    BY DEF IInv, TypeOK, Call
  <1>3. \A q \in Runs : run'[q].phase = "ask" =>
           run[q].phase = "ask" /\ run'[q].seen = run[q].seen
    <2>1. run'[r].phase # "ask"
      BY DEF Conclude, Save, Idle, IInv, TypeOK, Call
    <2>2. \A q \in Runs \ {r} : run'[q] = run[q]
      BY DEF Conclude, Save, IInv, TypeOK
    <2> QED
      BY <2>1, <2>2
  <1>4. CopyAgrees'
    BY <1>1, <1>2, <1>3, RecordAgrees
  <1>5. \A c \in Checks : Settled(c) /\ results'[c] # results[c] => c \in crossed[r]
    BY <1>1 DEF CopyAgrees, Record
  <1>6. SettledStep
    BY <1>5 DEF SettledStep, StaleCopy
  <1> QED
    BY <1>4, <1>6

LEMMA VerdictsAgree ==
  ASSUME IInv, CopyAgrees, NEW c \in Checks, NEW passed \in BOOLEAN, Resolve(c, passed)
  PROVE  CopyAgrees' /\ SettledStep
  <1>1. [results EXCEPT ![c] = IF passed THEN "yes" ELSE "no"] \in [Checks -> Readings]
    BY DEF IInv, TypeOK, Readings
  <1>2. CopyAgrees'
    BY <1>1, RecordAgrees DEF Resolve
  <1>3. \A d \in Checks \ {c} : results'[d] = results[d]
    BY DEF Resolve, Record, IInv, TypeOK
  <1>4. SettledStep
    BY <1>3 DEF SettledStep
  <1> QED
    BY <1>2, <1>4

LEMMA NextAgrees == ASSUME IInv, CopyAgrees, [Next]_vars PROVE CopyAgrees' /\ SettledStep
  <1>1. ASSUME NEW r \in Runs, Verify(r) PROVE CopyAgrees' /\ SettledStep
    BY <1>1, BeginAgrees, AsksAgree, WritesAgree DEF Verify
  <1>2. ASSUME NEW r \in Runs, Settle(r) \/ Die(r) \/ \E wins \in BOOLEAN : Mark(r, wins)
        PROVE  CopyAgrees' /\ SettledStep
    <2>1. UNCHANGED <<results, crossed>>
      BY <1>2 DEF Settle, End, Drop, FindSent, Stamp, CountWin, Counted, CreditTemplates,
                  Cool, Die, Mark, db, hist
    <2>2. run'[r].phase # "ask"
      <3>1. run \in [Runs -> Call] /\ Idle.phase = "idle"
        BY DEF IInv, TypeOK, Idle
      <3>2. ASSUME NEW m \in Msgs, CountWin(r, m) PROVE run'[r].phase # "ask"
        BY <3>1, <3>2 DEF CountWin, Call
      <3>3. CASE Settle(r)
        BY <3>1, <3>2, <3>3 DEF Settle, End, Drop, Step, FindSent, Stamp, Counted,
                                CreditTemplates, Cool, Call
      <3>4. CASE Die(r)
        BY <3>1, <3>4 DEF Die
      <3>5. ASSUME NEW wins \in BOOLEAN, Mark(r, wins) PROVE run'[r].phase # "ask"
        BY <3>1, <3>5 DEF Mark, Idle
      <3> QED
        BY <1>2, <3>3, <3>4, <3>5
    <2>3. \A q \in Runs \ {r} : run'[q] = run[q]
      BY <1>2 DEF Settle, End, Drop, Step, FindSent, Stamp, CountWin, Counted,
                  CreditTemplates, Cool, Die, Mark, IInv, TypeOK
    <2> QED
      BY <2>1, <2>2, <2>3, OthersAgree
  <1>3. ASSUME NEW c \in Checks, NEW passed \in BOOLEAN, Resolve(c, passed)
        PROVE  CopyAgrees' /\ SettledStep
    BY <1>3, VerdictsAgree
  <1>4. CASE (\E c \in Checks : Happen(c)) \/ Leave \/ (\E m \in Msgs : Send(m)) \/ UNCHANGED vars
    <2>1. UNCHANGED <<results, run, crossed>>
      BY <1>4 DEF Happen, Leave, Send, vars, db, hist
    <2> QED
      BY <2>1, OthersAgree
  <1> QED
    BY <1>1, <1>2, <1>3, <1>4 DEF Next

\* However calls and verdicts overlap, what is settled changes by a session's
\* verdict, or by a call whose copy of that record was out of date, and by
\* nothing else: "Account created once is created forever" (verify.ts) fails
\* through the write-back of a stale copy only.
THEOREM SettledForGood == Spec => SettledStays
  <1>1. Init => CopyAgrees
    BY DEF Init, Idle, CopyAgrees
  <1>2. IInv /\ CopyAgrees /\ [Next]_vars => CopyAgrees' /\ [SettledStep]_vars
    BY NextAgrees
  <1>3. [SettledStep]_vars => [\A c \in Checks : Settled(c) /\ results'[c] # results[c] =>
          StaleCopy(c) \/ \E passed \in BOOLEAN : Resolve(c, passed)]_vars
    BY DEF SettledStep
  <1> QED
    BY <1>1, <1>2, <1>3, SpecIInv, PTL DEF Spec, SettledStays
=============================================================================
