----------------------------- MODULE CrmProofs -----------------------------
(***************************************************************************)
(* Theorems about Crm, for any records, any history of the CRM and any     *)
(* faults.                                                                 *)
(***************************************************************************)
EXTENDS Crm, SequenceTheorems, FiniteSetTheorems, WellFoundedInduction, TLAPS

\* Among any events there is a latest.
LEMMA Latest ==
  ASSUME TypeOK, NEW T \in SUBSET DOMAIN feed, T # {}
  PROVE  Max(T) \in T /\ \A y \in T : y <= Max(T)
  <1> DEFINE Has(U) == \E x \in U : \A y \in U : x >= y
  <1> DEFINE Without == {U \in SUBSET DOMAIN feed : U # {} /\ ~Has(U)}
  <1>1. DOMAIN feed \subseteq Nat /\ IsFiniteSet(DOMAIN feed)
    <2>1. DOMAIN feed = 1 .. Len(feed) /\ Len(feed) \in Nat
      BY LenProperties DEF TypeOK
    <2> QED
      BY <2>1, FS_Interval
  <1>2. Without = {}
    <2>1. SUFFICES ASSUME Without # {} PROVE FALSE
      OBVIOUS
    <2>2. FiniteSubsetsOf(DOMAIN feed) = SUBSET DOMAIN feed
      BY <1>1, FS_FiniteSubsetsOfFinite
    <2>3. IsWellFoundedOn(StrictSubsetOrdering(DOMAIN feed), SUBSET DOMAIN feed)
      BY <2>2, FS_StrictSubsetOrderingWellFounded
    <2>4. PICK U \in Without : \A V \in Without : ~(<<V, U>> \in StrictSubsetOrdering(DOMAIN feed))
      <3>1. Without \subseteq SUBSET DOMAIN feed
        OBVIOUS
      <3> HIDE DEF Without
      <3> QED
        BY <2>1, <2>3, <3>1, WFMin
    <2>5. U \in SUBSET DOMAIN feed /\ U # {} /\ ~Has(U)
      BY <2>4
    <2>6. PICK x \in U : TRUE
      BY <2>5
    <2>7. <<U \ {x}, U>> \in StrictSubsetOrdering(DOMAIN feed)
      BY <2>5, <2>6 DEF StrictSubsetOrdering
    <2>8. U \ {x} = {} \/ Has(U \ {x})
      BY <2>4, <2>5, <2>7
    <2>9. U \subseteq Nat
      BY <1>1, <2>5
    <2>10. CASE U \ {x} = {}
      BY <2>5, <2>6, <2>9, <2>10
    <2>11. CASE Has(U \ {x})
      <3>1. PICK z \in U \ {x} : \A y \in U \ {x} : z >= y
        BY <2>11
      <3>2. CASE z >= x
        BY <2>5, <3>1, <3>2
      <3>3. CASE x >= z
        BY <2>5, <2>6, <2>9, <3>1, <3>3
      <3> QED
        BY <2>9, <3>1, <3>2, <3>3
    <2> QED
      BY <2>8, <2>10, <2>11
  <1>3. \E x \in T : \A y \in T : x >= y
    BY <1>2
  <1> QED
    BY <1>1, <1>3 DEF Max

LEMMA Appended ==
  ASSUME TypeOK, NEW r \in Records, NEW k \in Kinds, feed' = Append(feed, [rec |-> r, kind |-> k])
  PROVE  /\ feed' \in Seq([rec : Records, kind : Kinds])
         /\ Len(feed') = Len(feed) + 1 /\ DOMAIN feed' = DOMAIN feed \cup {Len(feed')}
         /\ Len(feed') \notin DOMAIN feed
         /\ feed'[Len(feed')] = [rec |-> r, kind |-> k]
         /\ \A n \in DOMAIN feed : feed'[n] = feed[n]
  <1>1. feed \in Seq([rec : Records, kind : Kinds]) /\ [rec |-> r, kind |-> k] \in [rec : Records, kind : Kinds]
    BY DEF TypeOK
  <1>2. /\ feed' \in Seq([rec : Records, kind : Kinds])
        /\ Len(feed') = Len(feed) + 1
        /\ \A n \in 1 .. Len(feed) : feed'[n] = feed[n]
        /\ feed'[Len(feed) + 1] = [rec |-> r, kind |-> k]
    BY <1>1, AppendProperties
  <1>3. DOMAIN feed = 1 .. Len(feed) /\ DOMAIN feed' = 1 .. Len(feed') /\ Len(feed) \in Nat
    BY <1>1, <1>2, LenProperties
  <1> QED
    BY <1>2, <1>3

LEMMA OfRecords ==
  ASSUME TypeOK
  PROVE  \A n \in DOMAIN feed : Rec(n) \in Records
  <1>1. feed \in Seq([rec : Records, kind : Kinds])
    BY DEF TypeOK
  <1>2. DOMAIN feed = 1 .. Len(feed)
    BY <1>1, LenProperties
  <1>3. \A n \in DOMAIN feed : feed[n] \in [rec : Records, kind : Kinds]
    BY <1>1, <1>2, ElementOfSeq
  <1> QED
    BY <1>3 DEF Rec

LEMMA OpensType ==
  ASSUME TypeOK, Opens
  PROVE  /\ sync' \in Sync /\ unnamed' \subseteq DOMAIN feed
         /\ UNCHANGED <<crm, link, checked, stored, bucket, asleep, learned, job, asked, notes, heard, spoilt>>
  BY DEF TypeOK, Opens, Sync, Ours

LEMMA BeginType == ASSUME TypeOK, Begin PROVE TypeOK'
  <1>1. {e[1] : e \in sync.pending} \subseteq Records
    BY DEF TypeOK, Sync, Queue
  <1>2. run' \in Run'
    <2>1. \A phase \in {"feed", "work", "people"}, due \in BOOLEAN, left \in SUBSET Records :
             [NoRun EXCEPT !.due = due, !.ours = learned, !.newest = sync.cursor, !.pend = sync.pending,
                           !.phase = phase, !.left = left] \in Run
      BY DEF TypeOK, Sync, Run, NoRun
    <2>2. DOMAIN feed' = DOMAIN feed
      BY OpensType DEF Begin, crm
    <2>3. run' \in Run
      BY <1>1, <2>1 DEF TypeOK, Sync, Begin
    <2> QED
      BY <2>2, <2>3 DEF Run
  <1> QED
    BY <1>1, <1>2, OpensType DEF TypeOK, Begin, Job, crm

LEMMA BeginByHandType == ASSUME TypeOK, NEW r \in Records, BeginByHand(r) PROVE TypeOK'
  <1>1. run' \in Run'
    BY OpensType DEF TypeOK, BeginByHand, NoRun, Run, Queue, crm
  <1> QED
    BY <1>1, OpensType DEF TypeOK, BeginByHand, Fault, Job, crm

LEMMA ReadFeedType == ASSUME TypeOK, ReadFeed PROVE TypeOK'
  <1>1. run' \in Run'
    <2>1. \A n \in DOMAIN feed : Rec(n) \in Records
      BY OfRecords
    <2>2. \A n \in DOMAIN feed : {Rec(n)} \X PartsFor(n) \subseteq Records \X Parts
      BY <2>1 DEF PartsFor, Parts
    <2>3. PICK from \in {sync.cursor, Len(feed) - Reach} : from >= sync.cursor /\ ReadFrom(from)
      BY DEF ReadFeed
    <2>4. Least(from + Reach, Len(feed)) \in Nat
      <3>1. sync.cursor \in Nat /\ Reach \in Nat /\ Len(feed) \in Nat
        BY CrmAssumption, LenProperties DEF TypeOK, Sync
      <3> QED
        BY <2>3, <3>1 DEF Least
    <2>5. \A S \in SUBSET DOMAIN feed :
             /\ {<<Rec(n), "full">> : n \in S} \subseteq Records \X Parts
             /\ UNION {{Rec(n)} \X PartsFor(n) : n \in S} \subseteq Records \X Parts
             /\ {Rec(n) : n \in S} \subseteq Records
      BY <2>1, <2>2 DEF Parts
    <2>6. \A pend \in Queue, rows \in SUBSET DOMAIN feed, cut \in SUBSET Records, newest \in Nat :
             [run EXCEPT !.phase = "rows", !.newest = newest, !.pend = pend, !.rows = rows, !.cut = cut] \in Run
      BY DEF TypeOK, Run
    <2> DEFINE got  == {n \in DOMAIN feed : from < n /\ n <= from + Reach}
    <2> DEFINE new  == {n \in got : link[Rec(n)].status # "elsewhere" /\ ~Passed(n)}
    <2> DEFINE tied == {n \in new : link[Rec(n)].status = "linked"}
    <2> DEFINE rows == {n \in tied : RowOf(n)}
    <2> DEFINE pend == run.pend \cup {<<Rec(n), "full">> : n \in new \ tied}
                                \cup UNION {{Rec(n)} \X PartsFor(n) : n \in tied}
    <2> DEFINE past == {k \in DOMAIN feed : sync.cursor < k /\ k <= from}
    <2> DEFINE cut  == {Rec(n) : n \in past}
    <2> DEFINE newest == Least(from + Reach, Len(feed))
    <2>7. run' = [run EXCEPT !.phase = "rows", !.newest = newest, !.pend = pend, !.rows = rows, !.cut = cut]
      BY <2>3 DEF ReadFrom
    <2>8. pend \in Queue /\ rows \in SUBSET DOMAIN feed /\ cut \in SUBSET Records
      <3>1. past \in SUBSET DOMAIN feed /\ (new \ tied) \in SUBSET DOMAIN feed /\ tied \in SUBSET DOMAIN feed
        OBVIOUS
      <3>2. rows \in SUBSET DOMAIN feed
        BY <3>1
      <3> HIDE DEF past, new, tied, rows
      <3> QED
        BY <2>5, <3>1, <3>2 DEF TypeOK, Run, Queue
    <2>9. DOMAIN feed' = DOMAIN feed
      BY DEF ReadFeed, crm
    <2> HIDE DEF pend, rows, cut, newest
    <2>10. run' \in Run
      <3>1. newest \in Nat
        BY <2>4 DEF newest
      <3> QED
        BY <2>6, <2>7, <2>8, <3>1
    <2> QED
      BY <2>9, <2>10 DEF Run
  <1> QED
    BY <1>1 DEF TypeOK, ReadFeed, Job, crm, docs, hist

LEMMA StoreType ==
  ASSUME TypeOK, NEW r \in Records, NEW rows \in SUBSET DOMAIN feed, NEW lost \in BOOLEAN,
         NEW status \in {"none", "linked", "unmatched", "elsewhere"},
         feed' = feed, Store(r, rows, status, lost)
  PROVE  stored' \subseteq DOMAIN feed /\ job' \in Job'
  BY DEF TypeOK, Store, Job

LEMMA LinkType ==
  ASSUME TypeOK, NEW r \in Records
  PROVE  /\ link[r].status \in {"none", "linked", "unmatched", "elsewhere"} /\ link[r].lost \in BOOLEAN
         /\ LostNow(r) \in BOOLEAN /\ Of(r) \subseteq DOMAIN feed
  BY DEF TypeOK, Links, LostNow, Of

LEMMA LeaveType ==
  ASSUME TypeOK, NEW r \in Records, NEW status \in {"unmatched", "elsewhere"}, Leave(r, status)
  PROVE  link' \in [Records -> Links] /\ stored' = stored /\ job' = job
  BY LinkType DEF TypeOK, Links, Leave

LEMMA ReadWholeType ==
  ASSUME TypeOK, NEW r \in Records, feed' = feed, ReadWhole(r)
  PROVE  link' \in [Records -> Links] /\ stored' \subseteq DOMAIN feed /\ (job' = job \/ job' \in Job')
  BY LinkType, LeaveType, StoreType DEF TypeOK, ReadWhole

LEMMA RefreshType ==
  ASSUME TypeOK, NEW r \in Records, NEW parts, feed' = feed, Refresh(r, parts)
  PROVE  link' \in [Records -> Links] /\ stored' \subseteq DOMAIN feed /\ (job' = job \/ job' \in Job')
  <1>1. {n \in Of(r) : ~RowOf(n)} \subseteq DOMAIN feed
    BY LinkType
  <1>2. CASE Leave(r, "elsewhere")
    BY <1>2, LeaveType DEF TypeOK
  <1>3. CASE /\ Store(r, IF "notes" \in parts THEN {n \in Of(r) : ~RowOf(n)} ELSE {}, link[r].status,
                     IF "record" \in parts THEN LostNow(r) ELSE link[r].lost)
             /\ UNCHANGED link
    <2> DEFINE rows == IF "notes" \in parts THEN {n \in Of(r) : ~RowOf(n)} ELSE {}
    <2> DEFINE lost == IF "record" \in parts THEN LostNow(r) ELSE link[r].lost
    <2>1. rows \in SUBSET DOMAIN feed /\ lost \in BOOLEAN
      BY <1>1, LinkType
    <2>2. Store(r, rows, link[r].status, lost) /\ link' = link
      BY <1>3
    <2> HIDE DEF rows, lost
    <2> QED
      BY <2>1, <2>2, LinkType, StoreType DEF TypeOK
  <1> QED
    BY <1>1, <1>2, <1>3 DEF Refresh

LEMMA KeepRowsType == ASSUME TypeOK, NEW r \in Records, KeepRows(r) PROVE TypeOK'
  <1>1. stored' \subseteq DOMAIN feed /\ job' \in Job'
    <2>1. run.rows \cap Of(r) \in SUBSET DOMAIN feed
      BY LinkType
    <2> QED
      BY <2>1, LinkType, StoreType DEF KeepRows, crm
  <1>2. run' \in Run'
    BY DEF TypeOK, KeepRows, Run, crm
  <1> QED
    BY <1>1, <1>2 DEF TypeOK, KeepRows, crm, hist

LEMMA FeedKeptType == ASSUME TypeOK, FeedKept PROVE TypeOK'
  <1>1. {e[1] : e \in run.pend} \subseteq Records
    BY DEF TypeOK, Run, Queue
  <1>2. run' \in Run'
    BY <1>1 DEF TypeOK, FeedKept, Run, crm
  <1> QED
    BY <1>1, <1>2 DEF TypeOK, FeedKept, Job, crm, docs, hist

LEMMA SkipRecordType == ASSUME TypeOK, NEW r \in Records, SkipRecord(r) PROVE TypeOK'
  <1>1. run' \in Run'
    BY DEF TypeOK, SkipRecord, Run, Queue, Unqueued, crm
  <1> QED
    BY <1>1 DEF TypeOK, SkipRecord, Job, crm, docs, hist

LEMMA WorkRecordType == ASSUME TypeOK, NEW r \in Records, WorkRecord(r) PROVE TypeOK'
  <1>1. run' \in Run'
    BY DEF TypeOK, WorkRecord, Run, Queue, Unqueued, crm
  <1>2. link' \in [Records -> Links] /\ stored' \subseteq DOMAIN feed /\ (job' = job \/ job' \in Job')
    BY ReadWholeType, RefreshType DEF WorkRecord, crm
  <1> QED
    BY <1>1, <1>2 DEF TypeOK, WorkRecord, Job, crm, hist

LEMMA WakeType == ASSUME TypeOK, Wake PROVE TypeOK'
  <1>1. job \in Job
    BY DEF TypeOK, Wake, NoJob
  <1>2. job' = NoJob \/ job' \in Job'
    BY <1>1 DEF Wake, Job, crm
  <1>3. heard' \subseteq DOMAIN feed
    <2>1. job.fresh \subseteq DOMAIN feed
      BY <1>1 DEF Job
    <2>2. job.fresh = {} \/ Max(job.fresh) \in job.fresh
      BY <2>1, Latest
    <2> QED
      BY <2>1, <2>2 DEF TypeOK, Wake
  <1> QED
    BY <1>1, <1>2, <1>3 DEF TypeOK, Wake, Run, crm, docs

LEMMA LiftType == ASSUME TypeOK, Lift \/ Forget PROVE TypeOK'
  <1>1. job \in Job
    BY DEF TypeOK, Lift, Forget, NoJob
  <1>2. job' \in Job'
    BY <1>1 DEF Lift, Forget, Job, crm
  <1> QED
    BY <1>1, <1>2 DEF TypeOK, Lift, Forget, Run, crm, hist

LEMMA SettleType == ASSUME TypeOK, Settle PROVE TypeOK'
  <1>1. job \in Job
    BY DEF TypeOK, Settle, NoJob
  <1>2. link' \in [Records -> Links]
    BY <1>1 DEF TypeOK, Settle, Job, Links
  <1>3. checked' \subseteq Records
    BY <1>1 DEF TypeOK, Settle, Job
  <1> QED
    BY <1>1, <1>2, <1>3 DEF TypeOK, Settle, Run, crm, hist

LEMMA RecordFailsType == ASSUME TypeOK, NEW r \in Records, RecordFails(r) PROVE TypeOK'
  <1>1. run' \in Run'
    BY DEF TypeOK, RecordFails, Run, Queue, Unqueued, crm
  <1>2. link' \in [Records -> Links]
    BY LinkType DEF TypeOK, RecordFails, Marked, Links
  <1>3. spoilt' \in [Records -> SUBSET {"moved", "error", "late", "torn", "cut"}]
    BY DEF TypeOK, RecordFails, Spoil
  <1> QED
    BY <1>1, <1>2, <1>3 DEF TypeOK, RecordFails, Fault, Job, crm

LEMMA SaveType == ASSUME TypeOK, Save PROVE TypeOK'
  <1>1. run' \in Run'
    BY DEF TypeOK, Save, NoRun, Run, Queue, crm
  <1>2. sync' \in Sync
    <2>1. PICK pend \in Fitting : sync' = Saved(pend)
      BY DEF Save
    <2>2. pend \in Queue
      BY DEF TypeOK, Run, Queue, Fitting
    <2> QED
      BY <2>1, <2>2 DEF TypeOK, Saved, Sync, Run
  <1>3. faults' \subseteq Events
    BY DEF TypeOK, Save, OutOfTime, Fault
  <1>4. spoilt' \in [Records -> SUBSET {"moved", "error", "late", "torn", "cut"}]
    <2>1. PICK pend \in Fitting :
             spoilt' = [r \in Records |-> spoilt[r] \cup (IF r \in CutOff(pend) THEN {"cut"} ELSE {})]
      BY DEF Save
    <2> QED
      BY <2>1 DEF TypeOK
  <1> QED
    BY <1>1, <1>2, <1>3, <1>4 DEF TypeOK, Save, Job, crm

LEMMA CheckPersonType == ASSUME TypeOK, NEW r \in Records, CheckPerson(r) PROVE TypeOK'
  <1>1. link' \in [Records -> Links] /\ stored' \subseteq DOMAIN feed /\ (job' = job \/ job' \in Job')
    BY ReadWholeType DEF CheckPerson, crm
  <1>2. checked' \subseteq Records
    BY DEF TypeOK, CheckPerson
  <1> QED
    BY <1>1, <1>2 DEF TypeOK, CheckPerson, Job, Run, crm, hist

LEMMA ReadByHandType == ASSUME TypeOK, NEW r \in Records, ReadByHand(r) PROVE TypeOK'
  <1>1. link' \in [Records -> Links] /\ stored' \subseteq DOMAIN feed /\ (job' = job \/ job' \in Job')
    BY ReadWholeType DEF ReadByHand, crm
  <1>2. checked' \subseteq Records /\ run' \in Run'
    BY DEF TypeOK, ReadByHand, Run, crm
  <1> QED
    BY <1>1, <1>2 DEF TypeOK, ReadByHand, Job, Run, crm, hist

LEMMA EndByHandType == ASSUME TypeOK, EndByHand PROVE TypeOK'
  <1>1. run' \in Run'
    BY DEF TypeOK, EndByHand, NoRun, Run, Queue, crm
  <1>2. sync' \in Sync
    BY DEF TypeOK, EndByHand, Unlocked, Sync
  <1> QED
    BY <1>1, <1>2 DEF TypeOK, EndByHand, Job, crm, hist

LEMMA CheckFailsType == ASSUME TypeOK, NEW r \in Records, CheckFails(r) PROVE TypeOK'
  <1>1. spoilt' \in [Records -> SUBSET {"moved", "error", "late", "torn", "cut"}]
    BY DEF TypeOK, CheckFails, Spoil
  <1> QED
    BY <1>1 DEF TypeOK, CheckFails, Fault, Job, Run, crm, work

LEMMA EndType == ASSUME TypeOK, End PROVE TypeOK'
  <1>1. run' \in Run'
    BY DEF TypeOK, End, NoRun, Run, Queue, crm
  <1>2. sync' \in Sync
    BY DEF TypeOK, End, Closed, Unlocked, Sync, Run
  <1>3. faults' \subseteq Events
    BY DEF TypeOK, End, OutOfTime, Fault
  <1> QED
    BY <1>1, <1>2, <1>3 DEF TypeOK, End, Job, crm

LEMMA RateLimitedType == ASSUME TypeOK, RateLimited PROVE TypeOK'
  <1>1. run' \in Run'
    BY DEF TypeOK, RateLimited, NoRun, Run, Queue, crm
  <1>2. sync' \in Sync
    BY DEF TypeOK, RateLimited, Closed, Unlocked, Sync, Run
  <1> QED
    BY <1>1, <1>2 DEF TypeOK, RateLimited, Fault, Job, crm

LEMMA RunDiesType == ASSUME TypeOK, RunDies PROVE TypeOK'
  <1>1. run' \in Run'
    BY DEF TypeOK, RunDies, NoRun, Run, Queue, crm
  <1>2. spoilt' \in [Records -> SUBSET {"moved", "error", "late", "torn", "cut"}]
    BY DEF TypeOK, RunDies, Spoil
  <1> QED
    BY <1>1, <1>2 DEF TypeOK, RunDies, Fault, crm, docs

LEMMA AgeType == ASSUME TypeOK, Ages PROVE TypeOK'
  <1>1. sync' \in Sync
    BY DEF TypeOK, Ages, LockLapses, LimitEnds, PollAges, DayPasses, Timers, Unlocked, Sync
  <1>2. link' \in [Records -> Links]
    BY DEF TypeOK, Ages, LockLapses, LimitEnds, PollAges, DayPasses, Timers, Links
  <1>3. UNCHANGED <<crm, checked, stored, bucket, asleep, learned, work, hist>>
    BY DEF Ages, LockLapses, LimitEnds, PollAges, DayPasses, Timers
  <1> QED
    BY <1>1, <1>2, <1>3 DEF TypeOK, Job, Run, crm, work, hist

LEMMA AskType == ASSUME TypeOK, NEW r \in Records, Ask(r) PROVE TypeOK'
  BY DEF TypeOK, Job, Run, Ask, crm, docs, hist

LEMMA ApplyBucketType == ASSUME TypeOK, NEW r \in Records, NEW sleeps \in BOOLEAN, ApplyBucket(r, sleeps) PROVE TypeOK'
  BY DEF TypeOK, ApplyBucket, Job, Run, Spoil, crm

LEMMA LearnActorType == ASSUME TypeOK, NEW n \in DOMAIN feed, LearnActor(n) PROVE TypeOK'
  BY DEF TypeOK, LearnActor, Job, Run, crm, hist

LEMMA DrainDiesType == ASSUME TypeOK, NEW n \in DOMAIN feed, DrainDies(n) PROVE TypeOK'
  BY DEF TypeOK, DrainDies, Fault, Job, Run, crm, docs

LEMMA ArrivesType == ASSUME TypeOK, NEW r \in Records, Arrives(r) PROVE TypeOK'
  BY DEF TypeOK, Arrives, Job, Run, docs, work, hist

LEMMA HappensType == ASSUME TypeOK, NEW r \in Records, NEW k \in Kinds, Happens(r, k) PROVE TypeOK'
  <1>1. feed' = Append(feed, [rec |-> r, kind |-> k])
    BY DEF Happens
  <1>2. feed' \in Seq([rec : Records, kind : Kinds]) /\ DOMAIN feed \subseteq DOMAIN feed'
    BY <1>1, Appended
  <1>3. spoilt' \in [Records -> SUBSET {"moved", "error", "late", "torn", "cut"}]
    BY DEF TypeOK, Happens, Spoil
  <1> QED
    BY <1>2, <1>3 DEF TypeOK, Happens, Job, Run, docs, work

LEMMA WriteNoteType == ASSUME TypeOK, NEW r \in Records, WriteNote(r) PROVE TypeOK'
  <1>1. feed' = Append(feed, [rec |-> r, kind |-> "ours"])
    BY DEF WriteNote
  <1>2. /\ feed' \in Seq([rec : Records, kind : Kinds]) /\ DOMAIN feed \subseteq DOMAIN feed'
        /\ Len(feed') \in DOMAIN feed'
    BY <1>1, Appended DEF Kinds
  <1>3. unnamed' \subseteq DOMAIN feed' /\ notes' \subseteq DOMAIN feed'
    BY <1>2 DEF TypeOK, WriteNote
  <1> QED
    BY <1>2, <1>3 DEF TypeOK, WriteNote, Job, Run, docs

LEMMA InitType == Init => TypeOK
  <1> SUFFICES ASSUME Init PROVE TypeOK
    OBVIOUS
  <1>1. feed \in Seq([rec : Records, kind : Kinds])
    BY DEF Init
  <1>2. sync \in Sync /\ run \in Run
    BY DEF Init, Sync, Run, NoRun, Queue
  <1>3. link \in [Records -> Links]
    BY DEF Init, Links
  <1> QED
    BY <1>1, <1>2, <1>3, CrmAssumption DEF Init, TypeOK

LEMMA NextType == ASSUME TypeOK, [Next]_vars PROVE TypeOK'
  <1>1. CASE Moves
    BY <1>1, HappensType, ArrivesType DEF Moves
  <1>2. CASE Reads
    BY <1>2, BeginType, ReadFeedType, FeedKeptType, WakeType, LiftType, SettleType, SaveType, EndType,
       EndByHandType, KeepRowsType, SkipRecordType, WorkRecordType, CheckPersonType, ReadByHandType DEF Reads
  <1>3. CASE Breaks
    BY <1>3, RateLimitedType, RunDiesType, DrainDiesType, BeginByHandType, RecordFailsType, CheckFailsType
    DEF Breaks
  <1>4. CASE Ages
    BY <1>4, AgeType
  <1>5. CASE Sorts
    BY <1>5, AskType, ApplyBucketType DEF Sorts
  <1>6. CASE Writes
    BY <1>6, LearnActorType, WriteNoteType DEF Writes, Learns
  <1>7. CASE UNCHANGED vars
    BY <1>7 DEF vars, crm, docs, work, hist, TypeOK, Job, Run
  <1> QED
    BY <1>1, <1>2, <1>3, <1>4, <1>5, <1>6, <1>7 DEF Next

\* Every variable keeps its type, whatever the CRM, the clock and the faults do.
THEOREM TypeCorrect == Spec => []TypeOK
  BY InitType, NextType, PTL DEF Spec

-----------------------------------------------------------------------------
(* Our own notes are not news.                                             *)

\* A record is in a run's hands.
Hands == run.phase = "off" => job = NoJob

\* While a run is under way that knows no actor of ours, every note of ours
\* there is was there meanwhile.
Accounted == run.phase # "off" /\ ~run.ours => Ours \subseteq unnamed

\* So any other run passes over what we wrote.
FreshIsTheirs == \A n \in job.fresh : Kind(n) = "ours" => n \in unnamed

NewsInv == Hands /\ Accounted /\ FreshIsTheirs /\ OwnNotesAreNotNews

\* Steps that write nothing and begin no run.
LEMMA NewsFrame ==
  ASSUME NewsInv, UNCHANGED <<feed, heard, unnamed>>,
         run'.phase = "off" => job' = NoJob,
         run'.phase # "off" => run.phase # "off" /\ run'.ours = run.ours,
         job'.fresh \subseteq job.fresh
  PROVE  NewsInv'
  BY DEF NewsInv, Hands, Accounted, FreshIsTheirs, OwnNotesAreNotNews, Kind, Ours

\* A run begins, by the clock or by hand.
LEMMA OpensNews ==
  ASSUME TypeOK, NewsInv, Opens, run'.phase # "off", run'.ours = learned
  PROVE  NewsInv'
  <1>1. UNCHANGED <<feed, heard, job>> /\ unnamed \subseteq unnamed'
    BY DEF Opens, crm
  <1>2. ~run'.ours => Ours \subseteq unnamed'
    BY DEF Opens
  <1>3. Ours' = Ours
    BY <1>1 DEF Ours, Kind
  <1>4. Hands' /\ Accounted'
    BY <1>2, <1>3 DEF Hands, Accounted
  <1>5. FreshIsTheirs' /\ OwnNotesAreNotNews'
    BY <1>1, <1>3 DEF NewsInv, FreshIsTheirs, OwnNotesAreNotNews, Kind
  <1> QED
    BY <1>4, <1>5 DEF NewsInv

LEMMA StoreNews ==
  ASSUME TypeOK, NewsInv, NEW r \in Records, NEW rows \in SUBSET DOMAIN feed, NEW status, NEW lost,
         Store(r, rows, status, lost), run.phase # "off",
         UNCHANGED <<feed, heard, unnamed>>,
         run'.phase = run.phase /\ run'.ours = run.ours
  PROVE  NewsInv'
  <1>1. \A n \in DOMAIN feed : Kind(n) = "ours" => n \in unnamed \/ run.ours
    BY DEF NewsInv, Accounted, Ours
  <1>2. job'.fresh = {n \in rows : ~WrittenByUs(n)} \ stored
    BY DEF Store
  <1>3. FreshIsTheirs'
    BY <1>1, <1>2 DEF FreshIsTheirs, WrittenByUs, Kind
  <1> QED
    BY <1>3 DEF NewsInv, Hands, Accounted, OwnNotesAreNotNews, Ours, Kind

LEMMA ReadWholeNews ==
  ASSUME TypeOK, NewsInv, NEW r \in Records, ReadWhole(r) \/ (\E parts : Refresh(r, parts)),
         run.phase # "off", UNCHANGED <<feed, heard, unnamed>>,
         run'.phase = run.phase /\ run'.ours = run.ours
  PROVE  NewsInv'
  <1>1. CASE job' = job
    BY <1>1, NewsFrame
  <1>2. CASE \E rows \in SUBSET DOMAIN feed : \E status, lost : Store(r, rows, status, lost)
    BY <1>2, StoreNews
  <1>3. ASSUME NEW parts, Refresh(r, parts), job' # job
        PROVE  \E rows \in SUBSET DOMAIN feed : \E status, lost : Store(r, rows, status, lost)
    <2> DEFINE rows == IF "notes" \in parts THEN {n \in Of(r) : ~RowOf(n)} ELSE {}
    <2> DEFINE lost == IF "record" \in parts THEN LostNow(r) ELSE link[r].lost
    <2>1. rows \in SUBSET DOMAIN feed
      BY LinkType
    <2>2. Store(r, rows, link[r].status, lost)
      BY <1>3 DEF Refresh, Leave
    <2> HIDE DEF rows, lost
    <2> QED
      BY <2>1, <2>2
  <1>4. ASSUME ReadWhole(r), job' # job
        PROVE  \E rows \in SUBSET DOMAIN feed : \E status, lost : Store(r, rows, status, lost)
    BY <1>4, LinkType DEF ReadWhole, Leave
  <1> QED
    BY <1>1, <1>2, <1>3, <1>4

LEMMA WakeNews == ASSUME TypeOK, NewsInv, Wake PROVE NewsInv'
  <1>1. job \in Job /\ job.fresh \subseteq DOMAIN feed
    BY DEF TypeOK, Wake, NoJob, Job
  <1>2. job.fresh = {} \/ Max(job.fresh) \in job.fresh
    BY <1>1, Latest
  <1>3. \A n \in heard' : n \in heard \/ n \in job.fresh
    BY <1>2 DEF Wake
  <1>4. job'.fresh = job.fresh /\ job # NoJob /\ UNCHANGED <<feed, run, unnamed>>
    BY <1>1 DEF Wake, NoJob, Job, crm
  <1>5. Hands' /\ Accounted' /\ FreshIsTheirs'
    BY <1>4 DEF NewsInv, Hands, Accounted, FreshIsTheirs, Ours, Kind
  <1>6. OwnNotesAreNotNews'
    BY <1>3, <1>4 DEF NewsInv, FreshIsTheirs, OwnNotesAreNotNews, Ours, Kind
  <1> QED
    BY <1>5, <1>6 DEF NewsInv

LEMMA ReadsNews == ASSUME TypeOK, NewsInv, Reads PROVE NewsInv'
  <1>1. CASE Begin
    BY <1>1, OpensNews DEF Begin, NoRun
  <1>2. CASE ReadFeed \/ FeedKept \/ (\E r \in Records : SkipRecord(r))
    <2>1. run'.phase # "off" /\ run.phase # "off" /\ run'.ours = run.ours
      BY <1>2 DEF TypeOK, Run, ReadFeed, ReadFrom, FeedKept, SkipRecord
    <2>2. UNCHANGED <<crm, docs, job, hist>>
      BY <1>2 DEF ReadFeed, FeedKept, SkipRecord
    <2> QED
      BY <2>1, <2>2, NewsFrame DEF crm, docs, hist
  <1>3. CASE Lift \/ Forget
    <2>1. job # NoJob /\ job'.fresh = job.fresh /\ UNCHANGED <<feed, heard, unnamed, run>>
      BY <1>3 DEF TypeOK, Lift, Forget, NoJob, Job, crm, hist
    <2> QED
      BY <2>1, NewsFrame DEF NewsInv, Hands
  <1>4. CASE Settle
    BY <1>4, NewsFrame DEF Settle, NoJob, crm, hist
  <1>5. CASE Save \/ End \/ EndByHand
    <2>1. UNCHANGED <<feed, heard, unnamed, job>> /\ job = NoJob
      BY <1>5 DEF Save, End, EndByHand, crm, hist
    <2>2. run'.phase # "off" => run.phase # "off" /\ run'.ours = run.ours
      <3>1. CASE Save
        BY <3>1 DEF Save, NoRun, TypeOK, Run
      <3>2. CASE End \/ EndByHand
        BY <3>2 DEF End, EndByHand, NoRun
      <3> QED
        BY <1>5, <3>1, <3>2
    <2> QED
      BY <2>1, <2>2, NewsFrame
  <1>6. ASSUME NEW r \in Records, KeepRows(r) PROVE NewsInv'
    <2>1. run.rows \cap Of(r) \in SUBSET DOMAIN feed
      BY LinkType
    <2>2. Store(r, run.rows \cap Of(r), link[r].status, link[r].lost)
      BY <1>6 DEF KeepRows
    <2>3. run.phase # "off" /\ run'.phase = run.phase /\ run'.ours = run.ours
      BY <1>6 DEF TypeOK, Run, KeepRows
    <2> QED
      BY <1>6, <2>1, <2>2, <2>3, StoreNews DEF KeepRows, crm, hist
  <1>7. ASSUME NEW r \in Records, WorkRecord(r) \/ CheckPerson(r) \/ ReadByHand(r) PROVE NewsInv'
    <2>1. run.phase # "off" /\ run'.phase = run.phase /\ run'.ours = run.ours
      BY <1>7 DEF TypeOK, Run, WorkRecord, CheckPerson, ReadByHand
    <2>2. ReadWhole(r) \/ (\E parts : Refresh(r, parts))
      BY <1>7 DEF WorkRecord, CheckPerson, ReadByHand
    <2>3. UNCHANGED <<feed, heard, unnamed>>
      BY <1>7 DEF WorkRecord, CheckPerson, ReadByHand, crm, hist
    <2> QED
      BY <2>1, <2>2, <2>3, ReadWholeNews
  <1> QED
    BY <1>1, <1>2, <1>3, <1>4, <1>5, <1>6, <1>7, WakeNews DEF Reads

LEMMA OthersNews == ASSUME TypeOK, NewsInv, Breaks \/ Ages \/ Sorts \/ Learns PROVE NewsInv'
  <1>1. CASE RateLimited \/ RunDies
    <2>1. run' = NoRun /\ job' = NoJob /\ UNCHANGED <<feed, heard, unnamed>>
      BY <1>1 DEF RateLimited, RunDies, crm
    <2> QED
      BY <2>1, NewsFrame DEF NoRun, NoJob
  <1>2. ASSUME NEW n \in DOMAIN feed, DrainDies(n) \/ LearnActor(n) PROVE NewsInv'
    <2>1. UNCHANGED <<feed, run, job, heard, unnamed>>
      BY <1>2 DEF DrainDies, LearnActor, crm, docs, hist
    <2> QED
      BY <2>1, NewsFrame DEF NewsInv, Hands
  <1>3. ASSUME NEW r \in Records, RecordFails(r) \/ CheckFails(r) PROVE NewsInv'
    <2>1. run'.phase = run.phase /\ run'.ours = run.ours /\ job' = job
      BY <1>3 DEF TypeOK, Run, RecordFails, CheckFails, work
    <2> QED
      BY <1>3, <2>1, NewsFrame DEF RecordFails, CheckFails, NewsInv, Hands, crm, work
  <1>4. ASSUME NEW r \in Records, BeginByHand(r) PROVE NewsInv'
    BY <1>4, OpensNews DEF BeginByHand, NoRun
  <1>5. CASE Ages
    <2>1. UNCHANGED <<crm, learned, work, hist>>
      BY <1>5 DEF Ages, LockLapses, LimitEnds, PollAges, DayPasses, Timers
    <2> QED
      BY <2>1, NewsFrame DEF NewsInv, Hands, crm, work, hist
  <1>6. CASE Sorts
    <2>1. UNCHANGED <<crm, run, job, heard, unnamed>>
      BY <1>6 DEF Sorts, Ask, ApplyBucket, docs, hist
    <2> QED
      BY <2>1, NewsFrame DEF NewsInv, Hands, crm
  <1> QED
    BY <1>1, <1>2, <1>3, <1>4, <1>5, <1>6 DEF Breaks, Learns

LEMMA FeedNews == ASSUME TypeOK, NewsInv, Moves \/ (\E r \in Records : WriteNote(r)) PROVE NewsInv'
  <1>1. ASSUME NEW r \in Records, Arrives(r) PROVE NewsInv'
    BY <1>1, NewsFrame DEF Arrives, NewsInv, Hands, docs, work, hist
  <1>2. ASSUME NEW r \in Records, NEW k \in Kinds, feed' = Append(feed, [rec |-> r, kind |-> k]),
               UNCHANGED <<run, job, heard>>, unnamed \subseteq unnamed',
               run.phase # "off" /\ ~run.ours /\ k = "ours" => Len(feed') \in unnamed'
        PROVE  NewsInv'
    <2>1. /\ DOMAIN feed' = DOMAIN feed \cup {Len(feed')} /\ Len(feed') \notin DOMAIN feed
          /\ feed'[Len(feed')].kind = k
          /\ \A n \in DOMAIN feed : feed'[n] = feed[n]
      BY <1>2, Appended
    <2>2. heard \subseteq DOMAIN feed /\ job.fresh \subseteq DOMAIN feed
      BY DEF TypeOK, Job, NoJob
    <2>3. \A n \in Ours' : n \in Ours \/ (n = Len(feed') /\ k = "ours")
      BY <2>1 DEF Ours, Kind
    <2>4. Accounted'
      BY <1>2, <2>3 DEF NewsInv, Accounted
    <2>5. FreshIsTheirs' /\ OwnNotesAreNotNews'
      BY <1>2, <2>1, <2>2 DEF NewsInv, FreshIsTheirs, OwnNotesAreNotNews, Ours, Kind
    <2> QED
      BY <1>2, <2>4, <2>5 DEF NewsInv, Hands
  <1>3. ASSUME NEW r \in Records, NEW k \in Kinds, Happens(r, k) PROVE NewsInv'
    BY <1>2, <1>3 DEF Happens, docs, work
  <1>4. ASSUME NEW r \in Records, WriteNote(r) PROVE NewsInv'
    <2>1. /\ feed' = Append(feed, [rec |-> r, kind |-> "ours"]) /\ UNCHANGED <<run, job, heard>>
          /\ unnamed \subseteq unnamed' /\ "ours" \in Kinds
          /\ run.phase # "off" /\ ~run.ours => Len(feed') \in unnamed'
      BY <1>4 DEF WriteNote, Kinds
    <2> QED
      BY <1>2, <2>1
  <1> QED
    BY <1>1, <1>3, <1>4 DEF Moves

LEMMA SpecNews == Spec => []NewsInv
  <1>1. Init => NewsInv
    BY DEF Init, NewsInv, Hands, Accounted, FreshIsTheirs, OwnNotesAreNotNews, NoJob, NoRun
  <1>2. TypeOK /\ NewsInv /\ [Next]_vars => NewsInv'
    <2> SUFFICES ASSUME TypeOK, NewsInv, [Next]_vars PROVE NewsInv'
      OBVIOUS
    <2>1. CASE UNCHANGED vars
      BY <2>1, NewsFrame DEF vars, crm, docs, work, hist, NewsInv, Hands
    <2> QED
      BY <2>1, ReadsNews, OthersNews, FeedNews DEF Next, Writes
  <1> QED
    BY <1>1, <1>2, TypeCorrect, PTL DEF Spec

\* "A note saying we sent an email is not news about the lead" (sync.ts): no
\* note of ours is stamped as news but one that was there while a run was under
\* way whose map, opened with it, named no actor of ours yet; drains and runs
\* may overlap, and either may die.
THEOREM OwnNotesStayOurs == Spec => []OwnNotesAreNotNews
  <1>1. NewsInv => OwnNotesAreNotNews
    BY DEF NewsInv
  <1> QED
    BY <1>1, SpecNews, PTL

-----------------------------------------------------------------------------
(* A reopened lead wakes.                                                  *)

\* The lead was given up on again, later.
LostAgain(n) == \E m \in DOMAIN feed : Rec(m) = Rec(n) /\ m > n /\ Kind(m) = "lost"

\* The rows in hand are of the record in hand.
FreshOfRecord == \A n \in job.fresh : Rec(n) = job.rec

\* A reopening that is kept, and not just now being acted on, has lifted the
\* sleep, or there was a reason for it since.
Lifted ==
    \A n \in stored :
        /\ Kind(n) = "reopened" /\ Rec(n) \in asleep
        /\ spoilt[Rec(n)] \cap {"late", "torn"} = {}
        /\ ~(job.step \in {"wake", "lift"} /\ n \in job.fresh)
        => LostAgain(n)

WakeInv == FreshOfRecord /\ Lifted

\* Steps that keep no row and put nobody to sleep.
LEMMA WakeFrame ==
  ASSUME TypeOK, WakeInv, UNCHANGED <<feed, stored>>, asleep' \subseteq asleep,
         \A r \in Records : spoilt[r] \subseteq spoilt'[r],
         job' = job \/ (job' = NoJob /\ job.step \notin {"wake", "lift"})
  PROVE  WakeInv'
  <1>1. \A n \in stored : Rec(n) \in Records
    BY OfRecords DEF TypeOK
  <1> QED
    BY <1>1 DEF WakeInv, FreshOfRecord, Lifted, LostAgain, Rec, Kind, NoJob

LEMMA StoreWakes ==
  ASSUME TypeOK, WakeInv, NEW r \in Records, NEW rows \in SUBSET Of(r), NEW status, NEW lost,
         Store(r, rows, status, lost), job = NoJob, UNCHANGED <<feed, asleep, spoilt>>
  PROVE  WakeInv'
  <1>1. job'.fresh = {n \in rows : ~WrittenByUs(n)} \ stored /\ job'.step = "wake" /\ job'.rec = r
    BY DEF Store
  <1>2. \A n \in stored' : n \in stored \/ n \in job'.fresh
    BY <1>1 DEF Store
  <1>3. job.step = "none"
    BY DEF NoJob
  <1> QED
    BY <1>1, <1>2, <1>3 DEF WakeInv, FreshOfRecord, Lifted, LostAgain, Rec, Kind, Of

LEMMA ReadWholeWakes ==
  ASSUME TypeOK, WakeInv, NEW r \in Records, ReadWhole(r) \/ (\E parts : Refresh(r, parts)),
         job = NoJob, UNCHANGED <<feed, asleep, spoilt>>
  PROVE  WakeInv'
  <1>1. CASE job' = job /\ stored' = stored
    BY <1>1, WakeFrame
  <1>2. CASE \E rows \in SUBSET Of(r) : \E status, lost : Store(r, rows, status, lost)
    BY <1>2, StoreWakes
  <1>3. ASSUME NEW parts, Refresh(r, parts), ~(job' = job /\ stored' = stored)
        PROVE  \E rows \in SUBSET Of(r) : \E status, lost : Store(r, rows, status, lost)
    <2> DEFINE rows == IF "notes" \in parts THEN {n \in Of(r) : ~RowOf(n)} ELSE {}
    <2> DEFINE lost == IF "record" \in parts THEN LostNow(r) ELSE link[r].lost
    <2>1. rows \in SUBSET Of(r)
      OBVIOUS
    <2>2. Store(r, rows, link[r].status, lost)
      BY <1>3 DEF Refresh, Leave
    <2> HIDE DEF rows, lost
    <2> QED
      BY <2>1, <2>2
  <1>4. ASSUME ReadWhole(r), ~(job' = job /\ stored' = stored)
        PROVE  \E rows \in SUBSET Of(r) : \E status, lost : Store(r, rows, status, lost)
    BY <1>4 DEF ReadWhole, Leave
  <1> QED
    BY <1>1, <1>2, <1>3, <1>4

LEMMA WakeWakes == ASSUME TypeOK, WakeInv, Wake PROVE WakeInv'
  <1>1. job'.fresh = job.fresh /\ job'.rec = job.rec /\ UNCHANGED <<feed, stored, asleep, spoilt>>
    BY DEF TypeOK, Wake, NoJob, Job, crm, docs
  <1>2. job'.step = IF Reopened(job.fresh) THEN "lift" ELSE "settle"
    BY DEF TypeOK, Wake, NoJob, Job
  <1>3. FreshOfRecord'
    BY <1>1 DEF WakeInv, FreshOfRecord, Rec
  <1>4. job'.step \notin {"wake", "lift"} => \A n \in job.fresh : Kind(n) # "reopened"
    BY <1>2 DEF Reopened
  <1>5. job.step = "wake"
    BY DEF Wake
  <1>6. Lifted'
    BY <1>1, <1>2, <1>4, <1>5 DEF WakeInv, Lifted, LostAgain, Rec, Kind
  <1> QED
    BY <1>3, <1>6 DEF WakeInv

\* The lift reaches the record the rows in hand are of.
LEMMA LiftWakes == ASSUME TypeOK, WakeInv, Lift PROVE WakeInv'
  <1>1. job'.fresh = job.fresh /\ job'.rec = job.rec /\ UNCHANGED <<feed, stored, spoilt>>
    BY DEF TypeOK, Lift, NoJob, Job, crm, hist
  <1>2. FreshOfRecord'
    BY <1>1 DEF WakeInv, FreshOfRecord, Rec
  <1>3. \A n \in job.fresh : Rec(n) \notin asleep'
    BY DEF Lift, WakeInv, FreshOfRecord
  <1>4. asleep' \subseteq asleep
    BY DEF Lift
  <1>5. Lifted'
    BY <1>1, <1>3, <1>4 DEF WakeInv, Lifted, LostAgain, Rec, Kind
  <1> QED
    BY <1>2, <1>5 DEF WakeInv

LEMMA ForgetWakes == ASSUME TypeOK, WakeInv, Forget PROVE WakeInv'
  <1>1. job'.fresh = job.fresh /\ job'.rec = job.rec /\ UNCHANGED <<feed, stored, asleep, spoilt>>
    BY DEF TypeOK, Forget, NoJob, Job, crm, hist
  <1>2. FreshOfRecord'
    BY <1>1 DEF WakeInv, FreshOfRecord, Rec
  <1>3. job.step \notin {"wake", "lift"}
    BY DEF Forget
  <1>4. Lifted'
    BY <1>1, <1>3 DEF WakeInv, Lifted, LostAgain, Rec, Kind
  <1> QED
    BY <1>2, <1>4 DEF WakeInv

LEMMA RunDiesWakes == ASSUME TypeOK, WakeInv, RunDies PROVE WakeInv'
  <1>1. UNCHANGED <<feed, stored, asleep>> /\ job'.fresh = {}
    BY DEF RunDies, NoJob, crm, docs
  <1>2. CASE job.step \in {"wake", "lift"} /\ Reopened(job.fresh)
    <2>1. job.rec \in Records
      BY <1>2 DEF TypeOK, NoJob, Job
    <2>2. "torn" \in spoilt'[job.rec] /\ \A r \in Records : spoilt[r] \subseteq spoilt'[r]
      BY <1>2, <2>1 DEF TypeOK, RunDies, Spoil
    <2>3. \A n \in DOMAIN feed : Rec(n) \in Records
      BY OfRecords
    <2> QED
      BY <1>1, <2>2, <2>3 DEF TypeOK, WakeInv, FreshOfRecord, Lifted, LostAgain, Rec, Kind
  <1>3. CASE ~(job.step \in {"wake", "lift"} /\ Reopened(job.fresh))
    <2>1. spoilt' = spoilt
      BY <1>3 DEF RunDies
    <2> QED
      BY <1>1, <1>3, <2>1 DEF WakeInv, FreshOfRecord, Lifted, LostAgain, Rec, Kind, Reopened
  <1> QED
    BY <1>2, <1>3

LEMMA ApplyBucketWakes ==
  ASSUME TypeOK, WakeInv, NEW r \in Records, NEW sleeps \in BOOLEAN, ApplyBucket(r, sleeps)
  PROVE  WakeInv'
  <1>1. UNCHANGED <<feed, stored, job>>
    BY DEF ApplyBucket, crm
  <1>2. \A q \in Records : spoilt[q] \subseteq spoilt'[q]
    BY DEF TypeOK, ApplyBucket, Spoil
  <1>3. CASE ~sleeps
    BY <1>1, <1>2, <1>3, WakeFrame DEF ApplyBucket
  <1>4. CASE sleeps /\ ~LostNow(r)
    <2>1. "late" \in spoilt'[r] /\ asleep' = asleep \cup {r}
      BY <1>4 DEF TypeOK, ApplyBucket, Spoil
    <2>2. \A n \in stored : Rec(n) \in Records
      BY OfRecords DEF TypeOK
    <2> QED
      BY <1>1, <1>2, <2>1, <2>2 DEF WakeInv, FreshOfRecord, Lifted, LostAgain, Rec, Kind
  <1>5. CASE sleeps /\ LostNow(r)
    <2>1. asleep' = asleep \cup {r} /\ spoilt' = spoilt
      BY <1>5 DEF ApplyBucket
    <2> DEFINE told == {n \in Of(r) : Kind(n) \in {"lost", "reopened"}}
    <2>2. told \in SUBSET DOMAIN feed /\ told # {} /\ Kind(Max(told)) = "lost"
      BY <1>5 DEF LostNow, Of
    <2>3. Max(told) \in told /\ \A n \in told : n <= Max(told)
      BY <2>2, Latest
    <2>4. \A n \in DOMAIN feed : Rec(n) = r /\ Kind(n) = "reopened" => LostAgain(n)
      <3> SUFFICES ASSUME NEW n \in DOMAIN feed, Rec(n) = r, Kind(n) = "reopened" PROVE LostAgain(n)
        OBVIOUS
      <3>1. n \in told /\ n <= Max(told) /\ n # Max(told)
        BY <2>2, <2>3 DEF Of
      <3>2. n \in Nat /\ Max(told) \in Nat /\ Max(told) \in DOMAIN feed
        BY <2>2, <2>3, LenProperties DEF TypeOK
      <3>3. Rec(Max(told)) = r
        BY <2>3 DEF Of
      <3> HIDE DEF told
      <3> QED
        BY <2>2, <3>1, <3>2, <3>3 DEF LostAgain
    <2> QED
      BY <1>1, <2>1, <2>4 DEF TypeOK, WakeInv, FreshOfRecord, Lifted, LostAgain, Rec, Kind
  <1> QED
    BY <1>3, <1>4, <1>5

LEMMA FeedWakes ==
  ASSUME TypeOK, WakeInv, Moves \/ (\E r \in Records : WriteNote(r))
  PROVE  WakeInv'
  <1>1. UNCHANGED <<stored, asleep, job>>
    BY DEF Moves, Happens, Arrives, WriteNote, docs, work
  <1>2. \A r \in Records : spoilt[r] \subseteq spoilt'[r]
    BY DEF TypeOK, Moves, Happens, Arrives, WriteNote, Spoil, hist
  <1>3. CASE feed' = feed
    BY <1>1, <1>2, <1>3, WakeFrame
  <1>4. ASSUME NEW r \in Records, NEW k \in Kinds, feed' = Append(feed, [rec |-> r, kind |-> k])
        PROVE  WakeInv'
    <2>1. /\ DOMAIN feed \subseteq DOMAIN feed' /\ \A n \in DOMAIN feed : feed'[n] = feed[n]
      BY <1>4, Appended
    <2>2. stored \subseteq DOMAIN feed /\ job.fresh \subseteq DOMAIN feed
      BY DEF TypeOK, Job, NoJob
    <2>3. \A n \in DOMAIN feed : feed[n].rec \in Records
      BY OfRecords DEF Rec
    <2>4. FreshOfRecord'
      BY <1>1, <2>1, <2>2 DEF WakeInv, FreshOfRecord, Rec
    <2>5. \A n \in DOMAIN feed : LostAgain(n) => LostAgain(n)'
      BY <2>1 DEF LostAgain, Rec, Kind
    <2>6. Lifted'
      BY <1>1, <1>2, <2>1, <2>2, <2>3, <2>5 DEF WakeInv, Lifted, Rec, Kind
    <2> QED
      BY <2>4, <2>6 DEF WakeInv
  <1> QED
    BY <1>3, <1>4 DEF Moves, Happens, Arrives, WriteNote, Kinds

LEMMA OthersWake == ASSUME TypeOK, WakeInv, [Next]_vars PROVE WakeInv'
  <1>1. ASSUME Opens PROVE WakeInv'
    BY <1>1, WakeFrame DEF Opens, crm
  <1>2. CASE ReadFeed \/ FeedKept \/ (\E r \in Records : SkipRecord(r)) \/ EndByHand
    BY <1>2, WakeFrame DEF ReadFeed, FeedKept, SkipRecord, EndByHand, crm, docs, hist
  <1>3. CASE Settle \/ End
    BY <1>3, WakeFrame DEF Settle, End, crm, hist
  <1>4. CASE Save
    <2>1. \A r \in Records : spoilt[r] \subseteq spoilt'[r]
      <3>1. PICK pend \in Fitting :
               spoilt' = [r \in Records |-> spoilt[r] \cup (IF r \in CutOff(pend) THEN {"cut"} ELSE {})]
        BY <1>4 DEF Save
      <3> QED
        BY <3>1
    <2> QED
      BY <1>4, <2>1, WakeFrame DEF Save, crm
  <1>5. ASSUME NEW r \in Records, KeepRows(r) PROVE WakeInv'
    <2>1. Store(r, run.rows \cap Of(r), link[r].status, link[r].lost)
      BY <1>5 DEF KeepRows
    <2> QED
      BY <1>5, <2>1, StoreWakes DEF KeepRows, crm, hist
  <1>6. ASSUME NEW r \in Records, WorkRecord(r) \/ CheckPerson(r) \/ ReadByHand(r) PROVE WakeInv'
    <2>1. ReadWhole(r) \/ (\E parts : Refresh(r, parts))
      BY <1>6 DEF WorkRecord, CheckPerson, ReadByHand
    <2>2. job = NoJob /\ UNCHANGED <<feed, asleep, spoilt>>
      BY <1>6 DEF WorkRecord, CheckPerson, ReadByHand, crm, hist
    <2> QED
      BY <2>1, <2>2, ReadWholeWakes
  <1>7. ASSUME RateLimited \/ (\E n \in DOMAIN feed : DrainDies(n) \/ LearnActor(n)) PROVE WakeInv'
    BY <1>7, WakeFrame DEF RateLimited, DrainDies, LearnActor, crm, docs, hist
  <1>8. ASSUME NEW r \in Records, RecordFails(r) \/ CheckFails(r) PROVE WakeInv'
    <2>1. \A q \in Records : spoilt[q] \subseteq spoilt'[q]
      BY <1>8 DEF TypeOK, RecordFails, CheckFails, Spoil
    <2> QED
      BY <1>8, <2>1, WakeFrame DEF RecordFails, CheckFails, crm, work
  <1>9. CASE Ages
    <2>1. UNCHANGED <<crm, stored, asleep, work, hist>>
      BY <1>9 DEF Ages, LockLapses, LimitEnds, PollAges, DayPasses, Timers
    <2> QED
      BY <2>1, WakeFrame DEF crm, work, hist
  <1>10. ASSUME NEW r \in Records, Ask(r) PROVE WakeInv'
    BY <1>10, WakeFrame DEF Ask, crm, docs, hist
  <1>11. CASE UNCHANGED vars
    BY <1>11, WakeFrame DEF vars, crm, docs, work, hist
  <1>12. CASE Reads
    BY <1>1, <1>2, <1>3, <1>4, <1>5, <1>6, <1>12, WakeWakes, LiftWakes, ForgetWakes DEF Reads, Begin
  <1>13. CASE Breaks
    BY <1>1, <1>7, <1>8, <1>13, RunDiesWakes DEF Breaks, BeginByHand
  <1>14. CASE Sorts
    BY <1>10, <1>14, ApplyBucketWakes DEF Sorts
  <1>15. CASE Moves \/ Writes
    BY <1>7, <1>15, FeedWakes DEF Writes, Learns
  <1> QED
    BY <1>9, <1>11, <1>12, <1>13, <1>14, <1>15 DEF Next

LEMMA SpecWakes == Spec => []WakeInv
  <1>1. Init => WakeInv
    BY DEF Init, WakeInv, FreshOfRecord, Lifted, NoJob
  <1>2. TypeOK /\ WakeInv /\ [Next]_vars => WakeInv'
    BY OthersWake
  <1> QED
    BY <1>1, <1>2, TypeCorrect, PTL DEF Spec

\* "A lead the CRM reopens is not lost any more" (sync.ts): a reopening once
\* kept and acted on leaves no campaign asleep, whatever dies or is limited,
\* but for a verdict that came after it or a death between row and lift.
THEOREM ReopeningWakes == Spec => []ReopenedWakes
  <1>1. WakeInv => ReopenedWakes
    BY DEF WakeInv, FreshOfRecord, Lifted, LostAgain, ReopenedWakes, Of, Rec, Kind
  <1> QED
    BY <1>1, SpecWakes, PTL
=============================================================================
