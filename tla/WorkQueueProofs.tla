-------------------------- MODULE WorkQueueProofs --------------------------
(***************************************************************************)
(* Theorems about WorkQueue, for any jobs, subjects, processes, limits and *)
(* events, and about DispatchLane, one lane's tick in full, for any        *)
(* campaigns, keys, quantum and ceiling.                                   *)
(***************************************************************************)
EXTENDS WorkQueue, DispatchLane, FiniteSetTheorems, TLAPS

\* Who works on what: engine workers on engine kinds, sessions and dispatchers
\* on thinking kinds, and only askers insert.
Roles ==
    \A p \in Procs, j \in Jobs : at[p][j] # "none" =>
        /\ p \in Workers => KindOf[j] \in Engine
        /\ p \in Sessions \cup Dispatchers => KindOf[j] = "thinking"
        /\ (at[p][j] = "insert") = (p \in Askers)

\* What a process read or leased is in the collection; what an asker is about
\* to insert is not, and it inserts one at a time.
Known ==
    /\ \A p \in Procs \ Askers, j \in Jobs : at[p][j] # "none" => status[j] # "absent"
    /\ \A a \in Askers, j \in Jobs : at[a][j] = "insert" =>
          /\ status[j] = "absent"
          /\ \A k \in Jobs : at[a][k] = "insert" => k = j
          /\ \A b \in Askers : at[b][j] = "insert" => b = a

\* A lease nobody else ended is live as long as its holder believes in it.
LeaseLive == \A j \in Jobs \ meddled : \A p \in Procs : Valid(p, j) => j \in live

\* A decision a reaper read was called ready once, and never waits again.
CalledReady ==
    \A r \in Reapers, j \in Jobs :
        at[r][j] # "none" /\ KindOf[j] = "thinking" => status[j] \notin {"absent", "queued"}

IInv == TypeOK /\ Roles /\ Known /\ CalledReady /\ LeaseLive /\ OneWorker

LEMMA BusyFinite ==
  ASSUME NEW S PROVE IsFiniteSet(Thinking(S)) /\ Cardinality(Thinking(S)) \in Nat
  <1>1. Thinking(S) \subseteq Jobs
    BY DEF Thinking
  <1> QED
    BY <1>1, WorkQueueAssumption, FS_Subset, FS_CardinalityType

LEMMA AskStep == ASSUME IInv, NEW a \in Askers, NEW j \in Jobs, Ask(a, j) PROVE IInv'
  <1> USE WorkQueueAssumption DEF job, hist, Procs, Ask, Free, Place
  <1>1. due' \subseteq Jobs
    BY DEF IInv, TypeOK, Waiting
  <1>2. CASE UNCHANGED at
    BY <1>1, <1>2 DEF IInv, TypeOK, Roles, Known, CalledReady, LeaseLive, OneWorker, Valid
  <1>3. CASE Place(a, j, "insert")
    <2>1. TypeOK'
      BY <1>1, <1>3 DEF IInv, TypeOK, Places
    <2>2. Roles' /\ Known' /\ CalledReady'
      BY <1>3 DEF IInv, TypeOK, Roles, Known, CalledReady
    <2>3. LeaseLive' /\ OneWorker'
      BY <1>3 DEF IInv, TypeOK, LeaseLive, OneWorker, Valid, Held
    <2> QED
      BY <2>1, <2>2, <2>3 DEF IInv
  <1> QED
    BY <1>2, <1>3

LEMMA InsertStep == ASSUME IInv, NEW a \in Askers, NEW j \in Jobs, Insert(a, j) PROVE IInv'
  <1> USE WorkQueueAssumption DEF job, hist, Procs, Insert, Place
  <1>1. TypeOK'
    BY DEF IInv, TypeOK, Places, Statuses, Pending
  <1>2. Roles'
    BY DEF IInv, TypeOK, Roles, Engine
  <1>3. Known'
    BY DEF IInv, TypeOK, Roles, Known, Pending, Engine
  <1>4. CalledReady'
    BY DEF IInv, TypeOK, Roles, Known, CalledReady, Pending, Engine
  <1>5. LeaseLive' /\ OneWorker'
    BY DEF IInv, TypeOK, Roles, LeaseLive, OneWorker, Valid, Held
  <1> QED
    BY <1>1, <1>2, <1>3, <1>4, <1>5 DEF IInv

LEMMA ClaimStep == ASSUME IInv, NEW w \in Workers, NEW j \in Jobs, Claim(w, j) PROVE IInv'
  <1> USE WorkQueueAssumption DEF job, hist, Procs, Claim, Free, Lease, Leasable, LeasableAnyLease, ClaimableFrom, Place, Read
  <1>1. TypeOK'
    BY DEF IInv, TypeOK, Places, Statuses, Pending
  <1>2. Roles'
    BY DEF IInv, TypeOK, Roles, Engine
  <1>3. Known'
    BY DEF IInv, TypeOK, Roles, Known, Pending, Engine
  <1>4. CalledReady'
    BY DEF IInv, TypeOK, Roles, Known, CalledReady, Pending, Engine
  <1>5. LeaseLive' /\ OneWorker'
    BY DEF IInv, TypeOK, Roles, LeaseLive, OneWorker, Valid, Held
  <1> QED
    BY <1>1, <1>2, <1>3, <1>4, <1>5 DEF IInv

LEMMA RetireStep == ASSUME IInv, NEW w \in Workers, NEW j \in Jobs, Retire(w, j) PROVE IInv'
  <1> USE WorkQueueAssumption DEF job, hist, Procs, Retire, Write, Drop, Place, Read
  <1>1. TypeOK'
    BY DEF IInv, TypeOK, Places, Statuses, Pending
  <1>2. Roles'
    BY DEF IInv, TypeOK, Roles, Engine
  <1>3. Known'
    BY DEF IInv, TypeOK, Roles, Known, Pending, Engine
  <1>4. CalledReady'
    BY DEF IInv, TypeOK, Roles, Known, CalledReady, Pending, Engine
  <1>5. LeaseLive' /\ OneWorker'
    BY DEF IInv, TypeOK, Roles, LeaseLive, OneWorker, Valid, Held
  <1> QED
    BY <1>1, <1>2, <1>3, <1>4, <1>5 DEF IInv

LEMMA HandOutStep == ASSUME IInv, NEW w \in Workers, NEW j \in Jobs, HandOut(w, j) PROVE IInv'
  <1> USE WorkQueueAssumption DEF job, hist, Procs, HandOut, Place, Read
  <1>1. TypeOK'
    BY DEF IInv, TypeOK, Places, Statuses, Pending
  <1>2. Roles'
    BY DEF IInv, TypeOK, Roles, Engine
  <1>3. Known'
    BY DEF IInv, TypeOK, Roles, Known, Pending, Engine
  <1>4. CalledReady'
    BY DEF IInv, TypeOK, Roles, Known, CalledReady, Pending, Engine
  <1>5. LeaseLive' /\ OneWorker'
    BY DEF IInv, TypeOK, Roles, LeaseLive, OneWorker, Valid, Held
  <1> QED
    BY <1>1, <1>2, <1>3, <1>4, <1>5 DEF IInv

LEMMA CompleteStep == ASSUME IInv, NEW w \in Workers, NEW j \in Jobs, Complete(w, j) PROVE IInv'
  <1> USE WorkQueueAssumption DEF job, hist, Procs, Complete, Write, Place
  <1>1. TypeOK'
    BY DEF IInv, TypeOK, Places, Statuses, Pending
  <1>2. Roles'
    BY DEF IInv, TypeOK, Roles, Engine
  <1>3. Known'
    BY DEF IInv, TypeOK, Roles, Known, Pending, Engine
  <1>4. CalledReady'
    BY DEF IInv, TypeOK, Roles, Known, CalledReady, Pending, Engine
  <1>5. LeaseLive' /\ OneWorker'
    BY DEF IInv, TypeOK, Roles, LeaseLive, OneWorker, Valid, Held
  <1> QED
    BY <1>1, <1>2, <1>3, <1>4, <1>5 DEF IInv

LEMMA CloseStep == ASSUME IInv, NEW w \in Workers, NEW j \in Jobs, Close(w, j) PROVE IInv'
  <1> USE WorkQueueAssumption DEF job, hist, Procs, Close, Drop, Place, Read
  <1>1. TypeOK'
    BY DEF IInv, TypeOK, Places, Statuses, Pending
  <1>2. Roles'
    BY DEF IInv, TypeOK, Roles, Engine
  <1>3. Known'
    BY DEF IInv, TypeOK, Roles, Known, Pending, Engine
  <1>4. CalledReady'
    BY DEF IInv, TypeOK, Roles, Known, CalledReady, Pending, Engine
  <1>5. LeaseLive' /\ OneWorker'
    BY DEF IInv, TypeOK, Roles, LeaseLive, OneWorker, Valid, Held
  <1> QED
    BY <1>1, <1>2, <1>3, <1>4, <1>5 DEF IInv

LEMMA ThrowStep == ASSUME IInv, NEW w \in Workers, NEW j \in Jobs, Throw(w, j) PROVE IInv'
  <1> USE WorkQueueAssumption DEF job, hist, Procs, Throw, Place, Read
  <1>1. TypeOK'
    BY DEF IInv, TypeOK, Places, Statuses, Pending
  <1>2. Roles'
    BY DEF IInv, TypeOK, Roles, Engine
  <1>3. Known'
    BY DEF IInv, TypeOK, Roles, Known, Pending, Engine
  <1>4. CalledReady'
    BY DEF IInv, TypeOK, Roles, Known, CalledReady, Pending, Engine
  <1>5. LeaseLive' /\ OneWorker'
    BY DEF IInv, TypeOK, Roles, LeaseLive, OneWorker, Valid, Held
  <1> QED
    BY <1>1, <1>2, <1>3, <1>4, <1>5 DEF IInv

LEMMA FailStep == ASSUME IInv, NEW w \in Workers, NEW j \in Jobs, Fail(w, j) PROVE IInv'
  <1> USE WorkQueueAssumption DEF job, hist, Procs, Fail, Write, Drop, Place, Read, FailedStatus, Spent
  <1>1. TypeOK'
    BY DEF IInv, TypeOK, Places, Statuses, Pending
  <1>2. Roles'
    BY DEF IInv, TypeOK, Roles, Engine
  <1>3. Known'
    BY DEF IInv, TypeOK, Roles, Known, Pending, Engine
  <1>4. CalledReady'
    BY DEF IInv, TypeOK, Roles, Known, CalledReady, Pending, Engine
  <1>5. LeaseLive' /\ OneWorker'
    BY DEF IInv, TypeOK, Roles, LeaseLive, OneWorker, Valid, Held
  <1> QED
    BY <1>1, <1>2, <1>3, <1>4, <1>5 DEF IInv

LEMMA BatchReadStep == ASSUME IInv, NEW s \in Sessions, BatchRead(s) PROVE IInv'
  <1> USE WorkQueueAssumption DEF job, hist, Procs
  <1>1. PICK C \in SUBSET {j \in due : KindOf[j] = "thinking" /\ Leasable(j)} :
          at' = [at EXCEPT ![s] = [j \in Jobs |-> IF j \in C THEN "seen" ELSE "none"]]
    BY DEF BatchRead
  <1>2. \A j \in C : j \in Jobs /\ KindOf[j] = "thinking" /\ status[j] # "absent"
    BY <1>1 DEF IInv, TypeOK, Leasable, LeasableAnyLease, ClaimableFrom
  <1>3. UNCHANGED <<job, snap, room, hist>>
    BY DEF BatchRead
  <1>4. TypeOK'
    BY <1>1, <1>2, <1>3 DEF IInv, TypeOK, Places
  <1>5. Roles' /\ Known' /\ CalledReady'
    BY <1>1, <1>2, <1>3 DEF IInv, TypeOK, Roles, Known, CalledReady, Engine
  <1>6. LeaseLive' /\ OneWorker'
    BY <1>1, <1>3 DEF IInv, TypeOK, LeaseLive, OneWorker, Valid, Held
  <1> QED
    BY <1>4, <1>5, <1>6 DEF IInv

\* Both claims end in the same update.
LEMMA LeaseStep ==
  ASSUME IInv, NEW p \in Workers \cup Sessions, NEW j \in Jobs,
         at[p][j] \in {"none", "seen"}, p \in Sessions => at[p][j] = "seen",
         p \in Workers => KindOf[j] \in Engine, Lease(p, j),
         UNCHANGED <<due, snap, room, handed, meddled, revived, faults>>
  PROVE  IInv'
  <1> USE WorkQueueAssumption DEF Procs, Lease, Leasable, LeasableAnyLease, ClaimableFrom, Place
  <1>1. TypeOK'
    BY DEF IInv, TypeOK, Places, Statuses
  <1>2. Roles'
    BY DEF IInv, TypeOK, Roles, Engine
  <1>3. Known'
    BY DEF IInv, TypeOK, Roles, Known, Engine
  <1>4. CalledReady'
    BY DEF IInv, TypeOK, Roles, CalledReady, Engine
  <1>5. LeaseLive' /\ OneWorker'
    BY DEF IInv, TypeOK, Roles, LeaseLive, OneWorker, Valid, Held
  <1> QED
    BY <1>1, <1>2, <1>3, <1>4, <1>5 DEF IInv

LEMMA BatchTakeStep == ASSUME IInv, NEW s \in Sessions, NEW j \in Jobs, BatchTake(s, j) PROVE IInv'
  <1>1. CASE Leasable(j)
    <2>1. s \notin Workers /\ at[s][j] = "seen"
      BY WorkQueueAssumption DEF BatchTake
    <2>2. /\ Lease(s, j) /\ UNCHANGED <<due, snap, room, handed, meddled, revived, faults>>
      BY <1>1 DEF BatchTake
    <2> QED
      BY <2>1, <2>2, LeaseStep
  <1>2. CASE ~Leasable(j)
    <2>1. at' = [at EXCEPT ![s][j] = "none"] /\ UNCHANGED <<job, snap, room, hist>>
      BY <1>2 DEF BatchTake, Place, job, hist
    <2> QED
      BY <2>1, WorkQueueAssumption
      DEF job, hist, Procs, IInv, TypeOK, Places, Roles, Known, CalledReady, LeaseLive, OneWorker, Valid, Held
  <1> QED
    BY <1>1, <1>2

LEMMA GiveBackStep == ASSUME IInv, NEW s \in Sessions, NEW j \in Jobs, GiveBack(s, j) PROVE IInv'
  <1> USE WorkQueueAssumption DEF job, hist, Procs, GiveBack, Taken, Write, Drop, Place, Read
  <1>1. TypeOK'
    <2>1. attempts' \in [Jobs -> Int] /\ status' \in [Jobs -> Statuses]
      BY DEF IInv, TypeOK, Statuses
    <2> QED
      BY <2>1 DEF IInv, TypeOK, Places
  <1>2. Roles'
    BY DEF IInv, TypeOK, Roles, Engine
  <1>3. Known'
    BY DEF IInv, TypeOK, Roles, Known, Pending, Engine
  <1>4. CalledReady'
    BY DEF IInv, TypeOK, Roles, Known, CalledReady, Pending, Engine
  <1>5. LeaseLive' /\ OneWorker'
    BY DEF IInv, TypeOK, Roles, LeaseLive, OneWorker, Valid, Held
  <1> QED
    BY <1>1, <1>2, <1>3, <1>4, <1>5 DEF IInv

LEMMA HandStep == ASSUME IInv, NEW s \in Sessions, NEW j \in Jobs, Hand(s, j) PROVE IInv'
  <1> USE WorkQueueAssumption DEF job, hist, Procs, Hand, Taken, Place
  <1>1. TypeOK'
    BY DEF IInv, TypeOK, Places, Statuses, Pending
  <1>2. Roles'
    BY DEF IInv, TypeOK, Roles, Engine
  <1>3. Known'
    BY DEF IInv, TypeOK, Roles, Known, Pending, Engine
  <1>4. CalledReady'
    BY DEF IInv, TypeOK, Roles, Known, CalledReady, Pending, Engine
  <1>5. LeaseLive' /\ OneWorker'
    BY DEF IInv, TypeOK, Roles, LeaseLive, OneWorker, Valid, Held
  <1> QED
    BY <1>1, <1>2, <1>3, <1>4, <1>5 DEF IInv

LEMMA FinishStep == ASSUME IInv, NEW s \in Sessions, NEW j \in Jobs, Finish(s, j) PROVE IInv'
  <1> USE WorkQueueAssumption DEF job, hist, Procs, Finish, Taken, Write, Drop, Place, Read
  <1>1. TypeOK'
    BY DEF IInv, TypeOK, Places, Statuses, Pending
  <1>2. Roles'
    BY DEF IInv, TypeOK, Roles, Engine
  <1>3. Known'
    BY DEF IInv, TypeOK, Roles, Known, Pending, Engine
  <1>4. CalledReady'
    BY DEF IInv, TypeOK, Roles, Known, CalledReady, Pending, Engine
  <1>5. LeaseLive' /\ OneWorker'
    BY DEF IInv, TypeOK, Roles, LeaseLive, OneWorker, Valid, Held
  <1> QED
    BY <1>1, <1>2, <1>3, <1>4, <1>5 DEF IInv

LEMMA GroomedStep == ASSUME IInv, NEW s \in Sessions, NEW j \in Jobs, Groomed(s, j) PROVE IInv'
  <1> USE WorkQueueAssumption DEF job, hist, Procs, Groomed, Write, Pending
  <1>1. TypeOK'
    BY DEF IInv, TypeOK, Places, Statuses, Pending
  <1>2. Roles'
    BY DEF IInv, TypeOK, Roles, Engine
  <1>3. Known'
    BY DEF IInv, TypeOK, Roles, Known, Pending, Engine
  <1>4. CalledReady'
    BY DEF IInv, TypeOK, Roles, Known, CalledReady, Pending, Engine
  <1>5. LeaseLive' /\ OneWorker'
    BY DEF IInv, TypeOK, Roles, LeaseLive, OneWorker, Valid, Held
  <1> QED
    BY <1>1, <1>2, <1>3, <1>4, <1>5 DEF IInv

LEMMA ReapReadStep == ASSUME IInv, NEW r \in Reapers, ReapRead(r) PROVE IInv'
  <1> USE WorkQueueAssumption DEF job, hist, Procs, ReapRead, Free, Expired
  <1>1. TypeOK'
    BY DEF IInv, TypeOK, Places, Statuses, Pending
  <1>2. Roles'
    BY DEF IInv, TypeOK, Roles, Engine
  <1>3. Known'
    BY DEF IInv, TypeOK, Roles, Known, Pending, Engine
  <1>4. CalledReady'
    BY DEF IInv, TypeOK, Roles, Known, CalledReady, Pending, Engine
  <1>5. LeaseLive' /\ OneWorker'
    BY DEF IInv, TypeOK, Roles, LeaseLive, OneWorker, Valid, Held
  <1> QED
    BY <1>1, <1>2, <1>3, <1>4, <1>5 DEF IInv

LEMMA ReapWriteStep == ASSUME IInv, NEW r \in Reapers, NEW j \in Jobs, ReapWrite(r, j) PROVE IInv'
  <1> USE WorkQueueAssumption DEF job, hist, Procs, ReapWrite, Write, Drop, Place, Read, Reaped, Spent
  <1>1. TypeOK'
    BY DEF IInv, TypeOK, Places, Statuses, Pending
  <1>2. Roles'
    BY DEF IInv, TypeOK, Roles, Engine
  <1>3. Known'
    BY DEF IInv, TypeOK, Roles, Known, Pending, Engine
  <1>4. CalledReady'
    BY DEF IInv, TypeOK, Roles, Known, CalledReady, Pending, Engine
  <1>5. LeaseLive' /\ OneWorker'
    BY DEF IInv, TypeOK, Roles, LeaseLive, OneWorker, Valid, Held
  <1> QED
    BY <1>1, <1>2, <1>3, <1>4, <1>5 DEF IInv

LEMMA CountStep == ASSUME IInv, NEW d \in Dispatchers, Count(d) PROVE IInv'
  <1> USE WorkQueueAssumption DEF job, hist, Procs, Count, Free
  <1>1. TypeOK'
    BY BusyFinite DEF IInv, TypeOK, Busy
  <1>2. Roles'
    BY DEF IInv, TypeOK, Roles, Engine
  <1>3. Known'
    BY DEF IInv, TypeOK, Roles, Known, Pending, Engine
  <1>4. CalledReady'
    BY DEF IInv, TypeOK, Roles, Known, CalledReady, Pending, Engine
  <1>5. LeaseLive' /\ OneWorker'
    BY DEF IInv, TypeOK, Roles, LeaseLive, OneWorker, Valid, Held
  <1> QED
    BY <1>1, <1>2, <1>3, <1>4, <1>5 DEF IInv

LEMMA ChooseStep == ASSUME IInv, NEW d \in Dispatchers, Choose(d) PROVE IInv'
  <1>0. PICK P \in SUBSET WaitingWork :
          /\ Cardinality(P) <= room[d] /\ room' = [room EXCEPT ![d] = @ - Cardinality(P)]
          /\ at' = [at EXCEPT ![d] = [j \in Jobs |-> IF j \in P THEN "seen" ELSE "none"]]
    BY DEF Choose
  <1> USE WorkQueueAssumption DEF job, hist, Procs, Choose, WaitingWork, Thinking
  <1>1. TypeOK'
    <2>2. Cardinality(P) \in Nat
      <3>1. P \subseteq Thinking({"queued"})
        BY DEF WaitingWork
      <3> QED
        BY <3>1, BusyFinite, FS_Subset, FS_CardinalityType
    <2>3. room' \in [Dispatchers -> 0 .. Ceiling]
      BY <1>0, <2>2 DEF IInv, TypeOK
    <2>4. at' \in [Procs -> [Jobs -> Places]]
      BY <1>0 DEF IInv, TypeOK, Places
    <2> QED
      BY <2>3, <2>4 DEF IInv, TypeOK
  <1>2. Roles'
    BY DEF IInv, TypeOK, Roles, Engine
  <1>3. Known'
    BY DEF IInv, TypeOK, Roles, Known, Pending, Engine
  <1>4. CalledReady'
    BY DEF IInv, TypeOK, Roles, Known, CalledReady, Pending, Engine
  <1>5. LeaseLive' /\ OneWorker'
    BY DEF IInv, TypeOK, Roles, LeaseLive, OneWorker, Valid, Held
  <1> QED
    BY <1>1, <1>2, <1>3, <1>4, <1>5 DEF IInv

LEMMA LeaveStep == ASSUME IInv, NEW d \in Dispatchers, Leave(d) PROVE IInv'
  <1> USE WorkQueueAssumption DEF job, hist, Procs, Leave
  <1>1. TypeOK'
    BY DEF IInv, TypeOK
  <1>2. Roles' /\ Known' /\ CalledReady'
    BY DEF IInv, TypeOK, Roles, Known, CalledReady
  <1>3. LeaseLive' /\ OneWorker'
    BY DEF IInv, TypeOK, LeaseLive, OneWorker, Valid, Held
  <1> QED
    BY <1>1, <1>2, <1>3 DEF IInv

LEMMA GrantStep == ASSUME IInv, NEW d \in Dispatchers, Grant(d) PROVE IInv'
  <1> USE WorkQueueAssumption DEF job, hist, Procs, Grant, Chosen
  <1>1. TypeOK'
    BY DEF IInv, TypeOK, Places, Statuses, Pending
  <1>2. Roles'
    BY DEF IInv, TypeOK, Roles, Engine
  <1>3. Known'
    BY DEF IInv, TypeOK, Roles, Known, Pending, Engine
  <1>4. CalledReady'
    BY DEF IInv, TypeOK, Roles, Known, CalledReady, Pending, Engine
  <1>5. LeaseLive' /\ OneWorker'
    BY DEF IInv, TypeOK, Roles, LeaseLive, OneWorker, Valid, Held
  <1> QED
    BY <1>1, <1>2, <1>3, <1>4, <1>5 DEF IInv

LEMMA LeaseEndsStep == ASSUME IInv, NEW j \in Jobs, LeaseEnds(j) PROVE IInv'
  <1> USE WorkQueueAssumption DEF job, hist, Procs, LeaseEnds
  <1>1. TypeOK'
    BY DEF IInv, TypeOK, Places, Statuses, Pending
  <1>2. Roles'
    BY DEF IInv, TypeOK, Roles, Engine
  <1>3. Known'
    BY DEF IInv, TypeOK, Roles, Known, Pending, Engine
  <1>4. CalledReady'
    BY DEF IInv, TypeOK, Roles, Known, CalledReady, Pending, Engine
  <1>5. LeaseLive' /\ OneWorker'
    BY DEF IInv, TypeOK, Roles, LeaseLive, OneWorker, Valid, Held
  <1> QED
    BY <1>1, <1>2, <1>3, <1>4, <1>5 DEF IInv

LEMMA ComesDueStep == ASSUME IInv, NEW j \in Jobs, ComesDue(j) PROVE IInv'
  <1> USE WorkQueueAssumption DEF job, hist, Procs, ComesDue
  <1>1. TypeOK'
    BY DEF IInv, TypeOK, Places, Statuses, Pending
  <1>2. Roles'
    BY DEF IInv, TypeOK, Roles, Engine
  <1>3. Known'
    BY DEF IInv, TypeOK, Roles, Known, Pending, Engine
  <1>4. CalledReady'
    BY DEF IInv, TypeOK, Roles, Known, CalledReady, Pending, Engine
  <1>5. LeaseLive' /\ OneWorker'
    BY DEF IInv, TypeOK, Roles, LeaseLive, OneWorker, Valid, Held
  <1> QED
    BY <1>1, <1>2, <1>3, <1>4, <1>5 DEF IInv

LEMMA CrashStep == ASSUME IInv, NEW p \in Procs, Crash(p) PROVE IInv'
  <1> USE WorkQueueAssumption DEF job, hist, Procs, Crash, Free
  <1>1. TypeOK'
    BY DEF IInv, TypeOK, Places, Statuses, Pending
  <1>2. Roles'
    BY DEF IInv, TypeOK, Roles, Engine
  <1>3. Known'
    BY DEF IInv, TypeOK, Roles, Known, Pending, Engine
  <1>4. CalledReady'
    BY DEF IInv, TypeOK, Roles, Known, CalledReady, Pending, Engine
  <1>5. LeaseLive' /\ OneWorker'
    BY DEF IInv, TypeOK, Roles, LeaseLive, OneWorker, Valid, Held
  <1> QED
    BY <1>1, <1>2, <1>3, <1>4, <1>5 DEF IInv

LEMMA SpecIInv == Spec => []IInv
  <1>1. Init => IInv
    BY WorkQueueAssumption
    DEF Init, IInv, TypeOK, Places, Statuses, Roles, Known, CalledReady, LeaseLive, OneWorker, Valid, Held, Procs
  <1>2. IInv /\ [Next]_vars => IInv'
    <2> SUFFICES ASSUME IInv, [Next]_vars PROVE IInv'
      OBVIOUS
    <2>1. CASE UNCHANGED vars
      BY <2>1 DEF vars, job, hist, IInv, TypeOK, Roles, Known, CalledReady, LeaseLive, OneWorker, Valid
    <2>2. CASE \E a \in Askers, j \in Jobs : Ask(a, j) \/ Insert(a, j)
      BY <2>2, AskStep, InsertStep
    <2>3. CASE EngineStep
      BY <2>3, ClaimStep, RetireStep, HandOutStep, CompleteStep, CloseStep, ThrowStep, FailStep
      DEF EngineStep, Work
    <2>4. CASE SessionStep
      BY <2>4, BatchReadStep, BatchTakeStep, GiveBackStep, HandStep, FinishStep, GroomedStep
      DEF SessionStep
    <2>5. CASE ReapStep \/ LaneStep
      BY <2>5, ReapReadStep, ReapWriteStep, CountStep, ChooseStep, LeaveStep, GrantStep
      DEF ReapStep, LaneStep
    <2>6. CASE \/ \E j \in Jobs : LeaseEnds(j) \/ ComesDue(j)
               \/ \E p \in Procs : Crash(p)
      BY <2>6, LeaseEndsStep, ComesDueStep, CrashStep
    <2> QED
      BY <2>1, <2>2, <2>3, <2>4, <2>5, <2>6 DEF Next
  <1> QED
    BY <1>1, <1>2, PTL DEF Spec

\* Every state the queue reaches is a state of its types: a dispatcher's room
\* never goes below nothing.
THEOREM TypeCorrect == Spec => []TypeOK
  BY SpecIInv, PTL DEF IInv

\* Two workers never hold one job under leases of their own unless an update
\* that checked only the id ended one of the leases.
THEOREM LeaseHolds == Spec => []OneWorker
  BY SpecIInv, PTL DEF IInv

-----------------------------------------------------------------------------
(* Pending items, the ready ceiling and the sixth worker. *)

\* Workers about to be given job j.
Entering(j) == {w \in Workers : at[w][j] = "taken" /\ ~Worn(snap[w][j])}

\* What every step but an asker's keeps: no insert begins, nothing finished or
\* absent becomes pending unless it is counted as revived.
QuietAsk ==
    /\ \A p \in Procs, j \in Jobs : at'[p][j] = "insert" => at[p][j] = "insert"
    /\ revived \subseteq revived'
    /\ \A j \in Jobs \ revived' : status'[j] \in Pending => status[j] \in Pending

\* What every step but the dispatcher's keeps: no decision becomes ready that
\* was not chosen before.
QuietLane ==
    /\ \A d \in Dispatchers : room'[d] \in 0 .. room[d] /\ Chosen(d)' \subseteq Chosen(d)
    /\ revived \subseteq revived'
    /\ \A j \in Jobs \ revived' :
          KindOf[j] = "thinking" /\ status'[j] \in {"ready", "running"}
             => status[j] \in {"ready", "running"}

\* What every step but a claim's keeps: nobody new is handed an engine job.
QuietWork ==
    \A j \in Jobs : KindOf[j] \in Engine =>
        /\ attempts'[j] = attempts[j] /\ handed'[j] = handed[j]
        /\ Entering(j)' \subseteq Entering(j)

LEMMA AskQuiet ==
  ASSUME IInv, NEW a \in Askers, NEW j \in Jobs, Ask(a, j) \/ Insert(a, j)
  PROVE  QuietLane /\ QuietWork
  <1> USE WorkQueueAssumption DEF job, hist, Procs
  <1>1. CASE Ask(a, j)
    <2>1. UNCHANGED <<status, attempts, handed, snap, room, revived>>
      BY <1>1 DEF Ask
    <2>2. at' = at \/ at' = [at EXCEPT ![a][j] = "insert"]
      BY <1>1 DEF Ask, Place
    <2>3. \A p \in Procs \ Askers, k \in Jobs : at'[p][k] = at[p][k]
      BY <2>2 DEF IInv, TypeOK
    <2>4. QuietLane
      BY <2>1, <2>3 DEF IInv, TypeOK, QuietLane, Chosen
    <2>5. QuietWork
      BY <2>1, <2>3 DEF QuietWork, Entering
    <2> QED
      BY <2>4, <2>5
  <1>2. CASE Insert(a, j)
    BY <1>2 DEF Insert, Place, IInv, TypeOK, QuietLane, QuietWork, Chosen, Entering
  <1> QED
    BY <1>1, <1>2

LEMMA ClaimQuiet ==
  ASSUME IInv, NEW w \in Workers, NEW j \in Jobs, Claim(w, j)
  PROVE  QuietAsk /\ QuietLane
  <1> USE WorkQueueAssumption DEF job, hist, Procs, Claim, Lease, Leasable, LeasableAnyLease, ClaimableFrom, Place, Read
  <1>1. QuietAsk
    BY DEF IInv, TypeOK, Statuses, Roles, Known, QuietAsk, Pending
  <1>2. QuietLane
    BY DEF IInv, TypeOK, Statuses, Roles, Known, CalledReady, QuietLane, Chosen, Engine
  <1> QED
    BY <1>1, <1>2

LEMMA RetireQuiet ==
  ASSUME IInv, NEW w \in Workers, NEW j \in Jobs, Retire(w, j)
  PROVE  QuietAsk /\ QuietLane /\ QuietWork
  <1> USE WorkQueueAssumption DEF job, hist, Procs, Retire, Write, Drop, Place, Read
  <1>1. QuietAsk
    BY DEF IInv, TypeOK, Statuses, Roles, Known, QuietAsk, Pending
  <1>2. QuietLane
    BY DEF IInv, TypeOK, Statuses, Roles, Known, CalledReady, QuietLane, Chosen, Engine
  <1>3. QuietWork
    BY DEF IInv, TypeOK, Roles, QuietWork, Entering, Engine
  <1> QED
    BY <1>1, <1>2, <1>3

LEMMA HandOutQuiet ==
  ASSUME IInv, NEW w \in Workers, NEW j \in Jobs, HandOut(w, j)
  PROVE  QuietAsk /\ QuietLane
  <1> USE WorkQueueAssumption DEF job, hist, Procs, HandOut, Place, Read
  <1>1. QuietAsk
    BY DEF IInv, TypeOK, Statuses, Roles, Known, QuietAsk, Pending
  <1>2. QuietLane
    BY DEF IInv, TypeOK, Statuses, Roles, Known, CalledReady, QuietLane, Chosen, Engine
  <1> QED
    BY <1>1, <1>2

LEMMA CompleteQuiet ==
  ASSUME IInv, NEW w \in Workers, NEW j \in Jobs, Complete(w, j)
  PROVE  QuietAsk /\ QuietLane /\ QuietWork
  <1> USE WorkQueueAssumption DEF job, hist, Procs, Complete, Write, Place
  <1>1. QuietAsk
    BY DEF IInv, TypeOK, Statuses, Roles, Known, QuietAsk, Pending
  <1>2. QuietLane
    BY DEF IInv, TypeOK, Statuses, Roles, Known, CalledReady, QuietLane, Chosen, Engine
  <1>3. QuietWork
    BY DEF IInv, TypeOK, Roles, QuietWork, Entering, Engine
  <1> QED
    BY <1>1, <1>2, <1>3

LEMMA CloseQuiet ==
  ASSUME IInv, NEW w \in Workers, NEW j \in Jobs, Close(w, j)
  PROVE  QuietAsk /\ QuietLane /\ QuietWork
  <1> USE WorkQueueAssumption DEF job, hist, Procs, Close, Drop, Place, Read
  <1>1. QuietAsk
    BY DEF IInv, TypeOK, Statuses, Roles, Known, QuietAsk, Pending
  <1>2. QuietLane
    BY DEF IInv, TypeOK, Statuses, Roles, Known, CalledReady, QuietLane, Chosen, Engine
  <1>3. QuietWork
    BY DEF IInv, TypeOK, Roles, QuietWork, Entering, Engine
  <1> QED
    BY <1>1, <1>2, <1>3

LEMMA ThrowQuiet ==
  ASSUME IInv, NEW w \in Workers, NEW j \in Jobs, Throw(w, j)
  PROVE  QuietAsk /\ QuietLane /\ QuietWork
  <1> USE WorkQueueAssumption DEF job, hist, Procs, Throw, Place, Read
  <1>1. QuietAsk
    BY DEF IInv, TypeOK, Statuses, Roles, Known, QuietAsk, Pending
  <1>2. QuietLane
    BY DEF IInv, TypeOK, Statuses, Roles, Known, CalledReady, QuietLane, Chosen, Engine
  <1>3. QuietWork
    BY DEF IInv, TypeOK, Roles, QuietWork, Entering, Engine
  <1> QED
    BY <1>1, <1>2, <1>3

LEMMA FailQuiet ==
  ASSUME IInv, NEW w \in Workers, NEW j \in Jobs, Fail(w, j)
  PROVE  QuietAsk /\ QuietLane /\ QuietWork
  <1> USE WorkQueueAssumption DEF job, hist, Procs, Fail, Write, Drop, Place, Read, FailedStatus, Spent
  <1>1. QuietAsk
    BY DEF IInv, TypeOK, Statuses, Roles, Known, QuietAsk, Pending
  <1>2. QuietLane
    BY DEF IInv, TypeOK, Statuses, Roles, Known, CalledReady, QuietLane, Chosen, Engine
  <1>3. QuietWork
    BY DEF IInv, TypeOK, Roles, QuietWork, Entering, Engine
  <1> QED
    BY <1>1, <1>2, <1>3

LEMMA BatchReadQuiet ==
  ASSUME IInv, NEW s \in Sessions, BatchRead(s)
  PROVE  QuietAsk /\ QuietLane /\ QuietWork
  <1> USE WorkQueueAssumption DEF job, hist, Procs, BatchRead
  <1>1. QuietAsk
    BY DEF IInv, TypeOK, Statuses, Roles, Known, QuietAsk, Pending
  <1>2. QuietLane
    BY DEF IInv, TypeOK, Statuses, Roles, Known, CalledReady, QuietLane, Chosen, Engine
  <1>3. QuietWork
    BY DEF IInv, TypeOK, Roles, QuietWork, Entering, Engine
  <1> QED
    BY <1>1, <1>2, <1>3

LEMMA BatchTakeQuiet ==
  ASSUME IInv, NEW s \in Sessions, NEW j \in Jobs, BatchTake(s, j)
  PROVE  QuietAsk /\ QuietLane /\ QuietWork
  <1> USE WorkQueueAssumption DEF Procs
  <1>1. /\ UNCHANGED <<revived, room, snap, handed>>
        /\ \/ UNCHANGED <<status, attempts>> /\ at' = [at EXCEPT ![s][j] = "none"]
           \/ /\ status[j] \in {"ready", "running", "queued"}
              /\ KindOf[j] = "thinking" => status[j] # "queued"
              /\ status' = [status EXCEPT ![j] = "running"]
              /\ attempts' = [attempts EXCEPT ![j] = @ + 1]
              /\ at' = [at EXCEPT ![s][j] = "taken"]
    BY DEF BatchTake, Lease, Leasable, LeasableAnyLease, ClaimableFrom, Place
  <1>2. KindOf[j] = "thinking"
    BY DEF BatchTake, IInv, Roles
  <1>3. QuietAsk
    BY <1>1 DEF IInv, TypeOK, QuietAsk, Pending
  <1>4. QuietLane
    BY <1>1, <1>2 DEF IInv, TypeOK, QuietLane, Chosen
  <1>5. QuietWork
    BY <1>1, <1>2 DEF IInv, TypeOK, QuietWork, Entering, Engine
  <1> QED
    BY <1>3, <1>4, <1>5

LEMMA GiveBackQuiet ==
  ASSUME IInv, NEW s \in Sessions, NEW j \in Jobs, GiveBack(s, j)
  PROVE  QuietAsk /\ QuietLane /\ QuietWork
  <1> USE WorkQueueAssumption DEF job, hist, Procs, GiveBack, Taken, Write, Drop, Place, Read
  <1>1. QuietAsk
    BY DEF IInv, TypeOK, Statuses, Roles, Known, QuietAsk, Pending
  <1>2. QuietLane
    BY DEF IInv, TypeOK, Statuses, Roles, Known, CalledReady, QuietLane, Chosen, Engine
  <1>3. QuietWork
    BY DEF IInv, TypeOK, Roles, QuietWork, Entering, Engine
  <1> QED
    BY <1>1, <1>2, <1>3

LEMMA HandQuiet ==
  ASSUME IInv, NEW s \in Sessions, NEW j \in Jobs, Hand(s, j)
  PROVE  QuietAsk /\ QuietLane /\ QuietWork
  <1> USE WorkQueueAssumption DEF job, hist, Procs, Hand, Taken, Place
  <1>1. QuietAsk
    BY DEF IInv, TypeOK, Statuses, Roles, Known, QuietAsk, Pending
  <1>2. QuietLane
    BY DEF IInv, TypeOK, Statuses, Roles, Known, CalledReady, QuietLane, Chosen, Engine
  <1>3. QuietWork
    BY DEF IInv, TypeOK, Roles, QuietWork, Entering, Engine
  <1> QED
    BY <1>1, <1>2, <1>3

LEMMA FinishQuiet ==
  ASSUME IInv, NEW s \in Sessions, NEW j \in Jobs, Finish(s, j)
  PROVE  QuietAsk /\ QuietLane /\ QuietWork
  <1> USE WorkQueueAssumption DEF job, hist, Procs, Finish, Taken, Write, Drop, Place, Read
  <1>1. QuietAsk
    BY DEF IInv, TypeOK, Statuses, Roles, Known, QuietAsk, Pending
  <1>2. QuietLane
    BY DEF IInv, TypeOK, Statuses, Roles, Known, CalledReady, QuietLane, Chosen, Engine
  <1>3. QuietWork
    BY DEF IInv, TypeOK, Roles, QuietWork, Entering, Engine
  <1> QED
    BY <1>1, <1>2, <1>3

LEMMA GroomedQuiet ==
  ASSUME IInv, NEW s \in Sessions, NEW j \in Jobs, Groomed(s, j)
  PROVE  QuietAsk /\ QuietLane /\ QuietWork
  <1> USE WorkQueueAssumption DEF job, hist, Procs, Groomed, Write
  <1>1. QuietAsk
    BY DEF IInv, TypeOK, Statuses, Roles, Known, QuietAsk, Pending
  <1>2. QuietLane
    BY DEF IInv, TypeOK, Statuses, Roles, Known, CalledReady, QuietLane, Chosen, Engine
  <1>3. QuietWork
    BY DEF IInv, TypeOK, Roles, QuietWork, Entering, Engine
  <1> QED
    BY <1>1, <1>2, <1>3

LEMMA ReapReadQuiet ==
  ASSUME IInv, NEW r \in Reapers, ReapRead(r)
  PROVE  QuietAsk /\ QuietLane /\ QuietWork
  <1> USE WorkQueueAssumption DEF job, hist, Procs, ReapRead
  <1>1. QuietAsk
    BY DEF IInv, TypeOK, Statuses, Roles, Known, QuietAsk, Pending
  <1>2. QuietLane
    BY DEF IInv, TypeOK, Statuses, Roles, Known, CalledReady, QuietLane, Chosen, Engine
  <1>3. QuietWork
    BY DEF IInv, TypeOK, Roles, QuietWork, Entering, Engine
  <1> QED
    BY <1>1, <1>2, <1>3

LEMMA ReapWriteQuiet ==
  ASSUME IInv, NEW r \in Reapers, NEW j \in Jobs, ReapWrite(r, j)
  PROVE  QuietAsk /\ QuietLane /\ QuietWork
  <1> USE WorkQueueAssumption DEF job, hist, Procs, ReapWrite, Write, Drop, Place, Read, Reaped, Spent
  <1>1. QuietAsk
    BY DEF IInv, TypeOK, Statuses, Roles, Known, QuietAsk, Pending
  <1>2. QuietLane
    <2>1. KindOf[j] = "thinking" => status[j] \in {"ready", "running", "done", "dead"}
      BY DEF IInv, TypeOK, Statuses, CalledReady
    <2>2. \A d \in Dispatchers : room'[d] = room[d] /\ Chosen(d)' = Chosen(d)
      BY DEF IInv, TypeOK, Chosen
    <2> QED
      BY <2>1, <2>2 DEF IInv, TypeOK, QuietLane, Pending
  <1>3. QuietWork
    BY DEF IInv, TypeOK, Roles, QuietWork, Entering, Engine
  <1> QED
    BY <1>1, <1>2, <1>3

LEMMA CountQuiet ==
  ASSUME IInv, NEW d \in Dispatchers, Count(d)
  PROVE  QuietAsk /\ QuietWork
  <1> USE WorkQueueAssumption DEF job, hist, Procs, Count
  <1>1. QuietAsk
    BY DEF IInv, TypeOK, Statuses, Roles, Known, QuietAsk, Pending
  <1>2. QuietWork
    BY DEF IInv, TypeOK, Roles, QuietWork, Entering, Engine
  <1> QED
    BY <1>1, <1>2

LEMMA ChooseQuiet ==
  ASSUME IInv, NEW d \in Dispatchers, Choose(d)
  PROVE  QuietAsk /\ QuietWork
  <1> USE WorkQueueAssumption DEF job, hist, Procs, Choose
  <1>1. QuietAsk
    BY DEF IInv, TypeOK, Statuses, Roles, Known, QuietAsk, Pending
  <1>2. QuietWork
    BY DEF IInv, TypeOK, Roles, QuietWork, Entering, Engine
  <1> QED
    BY <1>1, <1>2

LEMMA LeaveQuiet ==
  ASSUME IInv, NEW d \in Dispatchers, Leave(d)
  PROVE  QuietAsk /\ QuietLane /\ QuietWork
  <1> USE WorkQueueAssumption DEF job, hist, Procs, Leave
  <1>1. QuietAsk /\ QuietWork
    BY DEF QuietAsk, QuietWork, Entering
  <1>2. QuietLane
    BY DEF IInv, TypeOK, QuietLane, Chosen
  <1> QED
    BY <1>1, <1>2

LEMMA GrantQuiet ==
  ASSUME IInv, NEW d \in Dispatchers, Grant(d)
  PROVE  QuietAsk /\ QuietWork
  <1> USE WorkQueueAssumption DEF job, hist, Procs, Grant, Chosen
  <1>1. QuietAsk
    BY DEF IInv, TypeOK, Statuses, Roles, Known, QuietAsk, Pending
  <1>2. QuietWork
    BY DEF IInv, TypeOK, Roles, QuietWork, Entering, Engine
  <1> QED
    BY <1>1, <1>2

LEMMA LeaseEndsQuiet ==
  ASSUME IInv, NEW j \in Jobs, LeaseEnds(j)
  PROVE  QuietAsk /\ QuietLane /\ QuietWork
  <1> USE WorkQueueAssumption DEF job, hist, Procs, LeaseEnds
  <1>1. QuietAsk
    BY DEF IInv, TypeOK, Statuses, Roles, Known, QuietAsk, Pending
  <1>2. QuietLane
    BY DEF IInv, TypeOK, Statuses, Roles, Known, CalledReady, QuietLane, Chosen, Engine
  <1>3. QuietWork
    BY DEF IInv, TypeOK, Roles, QuietWork, Entering, Engine
  <1> QED
    BY <1>1, <1>2, <1>3

LEMMA ComesDueQuiet ==
  ASSUME IInv, NEW j \in Jobs, ComesDue(j)
  PROVE  QuietAsk /\ QuietLane /\ QuietWork
  <1> USE WorkQueueAssumption DEF job, hist, Procs, ComesDue
  <1>1. QuietAsk
    BY DEF IInv, TypeOK, Statuses, Roles, Known, QuietAsk, Pending
  <1>2. QuietLane
    BY DEF IInv, TypeOK, Statuses, Roles, Known, CalledReady, QuietLane, Chosen, Engine
  <1>3. QuietWork
    BY DEF IInv, TypeOK, Roles, QuietWork, Entering, Engine
  <1> QED
    BY <1>1, <1>2, <1>3

LEMMA CrashQuiet ==
  ASSUME IInv, NEW p \in Procs, Crash(p)
  PROVE  QuietAsk /\ QuietLane /\ QuietWork
  <1> USE WorkQueueAssumption DEF job, hist, Procs, Crash
  <1>1. QuietAsk
    BY DEF IInv, TypeOK, Statuses, Roles, Known, QuietAsk, Pending
  <1>2. QuietLane
    BY DEF IInv, TypeOK, Statuses, Roles, Known, CalledReady, QuietLane, Chosen, Engine
  <1>3. QuietWork
    BY DEF IInv, TypeOK, Roles, QuietWork, Entering, Engine
  <1> QED
    BY <1>1, <1>2, <1>3

\* A subject's pending items of j's kind, and the askers about to insert another.
Items(j)  == {i \in Jobs \ revived : Alike(i, j) /\ status[i] \in Pending}
Asking(j) == {a \in Askers : \E k \in Jobs : at[a][k] = "insert" /\ Alike(k, j)}

\* Whoever is to insert takes a seat that only an asker can take.
SeatsHold == \A j \in Jobs : Cardinality(Items(j)) + Cardinality(Asking(j)) <= Cardinality(Askers)

LEMMA SeatsFinite ==
  ASSUME NEW j
  PROVE  /\ IsFiniteSet(Items(j)) /\ Cardinality(Items(j)) \in Nat
         /\ IsFiniteSet(Asking(j)) /\ Cardinality(Asking(j)) \in Nat
         /\ Cardinality(Asking(j)) <= Cardinality(Askers) /\ Cardinality(Askers) \in Nat
  <1>1. Items(j) \subseteq Jobs /\ Asking(j) \subseteq Askers
    BY DEF Items, Asking
  <1> QED
    BY <1>1, WorkQueueAssumption, FS_Subset, FS_CardinalityType

LEMMA QuietSeats == ASSUME IInv, SeatsHold, QuietAsk PROVE SeatsHold'
  <1> SUFFICES ASSUME NEW j \in Jobs
               PROVE  Cardinality(Items(j)') + Cardinality(Asking(j)') <= Cardinality(Askers)
    BY DEF SeatsHold
  <1>1. \A a \in Askers : a \in Procs
    BY DEF Procs
  <1>2. Items(j)' \subseteq Items(j) /\ Asking(j)' \subseteq Asking(j)
    BY <1>1 DEF QuietAsk, Items, Asking, Alike
  <1>3. /\ Cardinality(Items(j)') \in Nat /\ Cardinality(Items(j)') <= Cardinality(Items(j))
        /\ Cardinality(Asking(j)') \in Nat /\ Cardinality(Asking(j)') <= Cardinality(Asking(j))
    BY <1>2, SeatsFinite, FS_Subset, FS_CardinalityType
  <1> QED
    BY <1>3, SeatsFinite DEF SeatsHold

LEMMA AskSeats ==
  ASSUME IInv, SeatsHold, NEW a \in Askers, NEW k \in Jobs, Ask(a, k) PROVE SeatsHold'
  <1> SUFFICES ASSUME NEW j \in Jobs
               PROVE  Cardinality(Items(j)') + Cardinality(Asking(j)') <= Cardinality(Askers)
    BY DEF SeatsHold
  <1>1. UNCHANGED <<status, revived>>
    BY DEF Ask, hist
  <1>2. Items(j)' = Items(j)
    BY <1>1 DEF Items, Alike
  <1>3. CASE UNCHANGED at
    <2>1. Asking(j)' = Asking(j)
      BY <1>3 DEF Asking, Alike
    <2> QED
      BY <1>2, <2>1 DEF SeatsHold
  <1>4. CASE Waiting(k) = {} /\ at' = [at EXCEPT ![a][k] = "insert"]
    <2>1. CASE Alike(k, j)
      <3>1. Items(j) = {}
        BY <1>4, <2>1 DEF Items, Waiting, Alike
      <3>2. Asking(j)' \subseteq Askers
        BY DEF Asking
      <3>3. Cardinality(Asking(j)') <= Cardinality(Askers) /\ Cardinality(Asking(j)') \in Nat
        BY <3>2, WorkQueueAssumption, FS_Subset, FS_CardinalityType
      <3> QED
        BY <1>2, <3>1, <3>3, FS_EmptySet
    <2>2. CASE ~Alike(k, j)
      <3>1. \A b \in Askers, i \in Jobs : i # k => at'[b][i] = at[b][i]
        BY <1>4 DEF IInv, TypeOK, Procs
      <3>2. Asking(j)' \subseteq Asking(j)
        BY <2>2, <3>1 DEF Asking, Alike
      <3>3. Cardinality(Asking(j)') <= Cardinality(Asking(j)) /\ Cardinality(Asking(j)') \in Nat
        BY <3>2, SeatsFinite, FS_Subset, FS_CardinalityType
      <3> QED
        BY <1>2, <3>3, SeatsFinite DEF SeatsHold
    <2> QED
      BY <2>1, <2>2
  <1> QED
    BY <1>3, <1>4 DEF Ask, Place

LEMMA InsertSeats ==
  ASSUME IInv, SeatsHold, NEW a \in Askers, NEW k \in Jobs, Insert(a, k) PROVE SeatsHold'
  <1> SUFFICES ASSUME NEW j \in Jobs
               PROVE  Cardinality(Items(j)') + Cardinality(Asking(j)') <= Cardinality(Askers)
    BY DEF SeatsHold
  <1>1. /\ at[a][k] = "insert" /\ at' = [at EXCEPT ![a][k] = "none"] /\ UNCHANGED revived
        /\ status' = [status EXCEPT ![k] = "queued"]
    BY DEF Insert, Place, hist
  <1>2. \A i \in Jobs : i # k => status'[i] = status[i]
    BY <1>1 DEF IInv, TypeOK
  <1>3. /\ \A i \in Jobs : at'[a][i] # "insert"
        /\ \A b \in Askers, i \in Jobs : b # a => at'[b][i] = at[b][i]
    BY <1>1 DEF IInv, TypeOK, Known, Procs
  <1>4. CASE Alike(k, j)
    <2>1. Items(j)' \subseteq Items(j) \cup {k}
      BY <1>1, <1>2 DEF Items, Alike
    <2>2. Asking(j)' \subseteq Asking(j) \ {a} /\ a \in Asking(j)
      BY <1>1, <1>3, <1>4 DEF Asking, Alike
    <2>3. /\ IsFiniteSet(Items(j) \cup {k})
          /\ Cardinality(Items(j) \cup {k}) <= Cardinality(Items(j)) + 1
      <3>1. IsFiniteSet(Items(j)) /\ Cardinality(Items(j)) \in Nat
        BY SeatsFinite
      <3>2. CASE k \in Items(j)
        <4>1. Items(j) \cup {k} = Items(j)
          BY <3>2
        <4>2. Cardinality(Items(j)) <= Cardinality(Items(j)) + 1
          BY <3>1
        <4> QED
          BY <3>1, <4>1, <4>2
      <3>3. CASE k \notin Items(j)
        <4>1. /\ IsFiniteSet(Items(j) \cup {k})
              /\ Cardinality(Items(j) \cup {k}) = Cardinality(Items(j)) + 1
          BY <3>1, <3>3, FS_AddElement
        <4> QED
          BY <3>1, <4>1
      <3> QED
        BY <3>2, <3>3
    <2>4. /\ IsFiniteSet(Asking(j) \ {a})
          /\ Cardinality(Asking(j) \ {a}) = Cardinality(Asking(j)) - 1
      BY <2>2, SeatsFinite, FS_RemoveElement
    <2>5. /\ Cardinality(Items(j)') <= Cardinality(Items(j) \cup {k})
          /\ Cardinality(Items(j)') \in Nat /\ Cardinality(Items(j) \cup {k}) \in Nat
      BY <2>1, <2>3, FS_Subset, FS_CardinalityType
    <2>6. /\ Cardinality(Asking(j)') <= Cardinality(Asking(j) \ {a})
          /\ Cardinality(Asking(j)') \in Nat
      BY <2>2, <2>4, FS_Subset, FS_CardinalityType
    <2>7. Cardinality(Items(j)) + Cardinality(Asking(j)) <= Cardinality(Askers)
      BY DEF SeatsHold
    <2> QED
      BY <2>3, <2>4, <2>5, <2>6, <2>7, SeatsFinite
  <1>5. CASE ~Alike(k, j)
    <2>1. Items(j)' \subseteq Items(j) /\ Asking(j)' \subseteq Asking(j)
      BY <1>1, <1>2, <1>3, <1>5 DEF Items, Asking, Alike
    <2>2. /\ Cardinality(Items(j)') \in Nat /\ Cardinality(Items(j)') <= Cardinality(Items(j))
          /\ Cardinality(Asking(j)') \in Nat /\ Cardinality(Asking(j)') <= Cardinality(Asking(j))
      BY <2>1, SeatsFinite, FS_Subset, FS_CardinalityType
    <2> QED
      BY <2>2, SeatsFinite DEF SeatsHold
  <1> QED
    BY <1>4, <1>5

\* However many detectors ask at once, a subject's pending items of a kind
\* never outnumber them, unless a late write brought a finished item back
\* (queue.ts 95-119): with one at a time there is one item.
THEOREM PendingItemsBounded == Spec => []PendingBounded
  <1>1. Init => SeatsHold
    <2> SUFFICES ASSUME Init, NEW j \in Jobs
                 PROVE  Cardinality(Items(j)) + Cardinality(Asking(j)) <= Cardinality(Askers)
      BY DEF SeatsHold
    <2>1. Items(j) = {} /\ Asking(j) = {}
      BY DEF Init, Items, Asking, Pending, Procs
    <2> QED
      BY <2>1, FS_EmptySet, SeatsFinite
  <1>2. IInv /\ SeatsHold /\ [Next]_vars => SeatsHold'
    <2> SUFFICES ASSUME IInv, SeatsHold, [Next]_vars PROVE SeatsHold'
      OBVIOUS
    <2>1. CASE UNCHANGED vars
      BY <2>1 DEF vars, job, hist, SeatsHold, Items, Asking, Alike
    <2>2. CASE \E a \in Askers, j \in Jobs : Ask(a, j) \/ Insert(a, j)
      BY <2>2, AskSeats, InsertSeats
    <2>3. CASE EngineStep
      BY <2>3, ClaimQuiet, RetireQuiet, HandOutQuiet, CompleteQuiet, CloseQuiet, ThrowQuiet,
         FailQuiet, QuietSeats DEF EngineStep, Work
    <2>4. CASE SessionStep
      BY <2>4, BatchReadQuiet, BatchTakeQuiet, GiveBackQuiet, HandQuiet, FinishQuiet,
         GroomedQuiet, QuietSeats DEF SessionStep
    <2>5. CASE ReapStep \/ LaneStep
      BY <2>5, ReapReadQuiet, ReapWriteQuiet, CountQuiet, ChooseQuiet, LeaveQuiet, GrantQuiet, QuietSeats
      DEF ReapStep, LaneStep
    <2>6. CASE \/ \E j \in Jobs : LeaseEnds(j) \/ ComesDue(j)
               \/ \E p \in Procs : Crash(p)
      BY <2>6, LeaseEndsQuiet, ComesDueQuiet, CrashQuiet, QuietSeats
    <2> QED
      BY <2>1, <2>2, <2>3, <2>4, <2>5, <2>6 DEF Next
  <1>3. SeatsHold => PendingBounded
    <2> SUFFICES ASSUME SeatsHold, NEW j \in Jobs PROVE Cardinality(Items(j)) <= Cardinality(Askers)
      BY DEF PendingBounded, Items
    <2>1. Cardinality(Items(j)) + Cardinality(Asking(j)) <= Cardinality(Askers)
      BY DEF SeatsHold
    <2> QED
      BY <2>1, SeatsFinite
  <1> QED
    BY <1>1, <1>2, <1>3, SpecIInv, PTL DEF Spec

-----------------------------------------------------------------------------
\* What is ready, running or chosen to be, and what may still be chosen.
Committed(d) == (Busy \cup Chosen(d)) \ revived
LaneRoom == \A d \in Dispatchers : Cardinality(Committed(d)) + room[d] <= Ceiling

LEMMA CommittedFinite ==
  ASSUME NEW d PROVE IsFiniteSet(Committed(d)) /\ Cardinality(Committed(d)) \in Nat
  <1>1. Committed(d) \subseteq Jobs
    BY DEF Committed, Busy, Thinking, Chosen
  <1> QED
    BY <1>1, WorkQueueAssumption, FS_Subset, FS_CardinalityType

LEMMA QuietRoom == ASSUME IInv, LaneRoom, QuietLane PROVE LaneRoom'
  <1> SUFFICES ASSUME NEW d \in Dispatchers
               PROVE  Cardinality(Committed(d)') + room'[d] <= Ceiling
    BY DEF LaneRoom
  <1>1. Committed(d)' \subseteq Committed(d)
    BY DEF QuietLane, Committed, Busy, Thinking, Chosen
  <1>2. Cardinality(Committed(d)') <= Cardinality(Committed(d))
    BY <1>1, CommittedFinite, FS_Subset
  <1>3. Cardinality(Committed(d)') \in Nat
    BY <1>1, CommittedFinite, FS_Subset, FS_CardinalityType
  <1>4. room'[d] \in 0 .. room[d] /\ room[d] \in 0 .. Ceiling
    BY DEF QuietLane, IInv, TypeOK
  <1> QED
    BY <1>2, <1>3, <1>4, CommittedFinite, WorkQueueAssumption DEF LaneRoom

LEMMA CountRoom ==
  ASSUME IInv, LaneRoom, NEW d \in Dispatchers, Dispatchers = {d}, Count(d) PROVE LaneRoom'
  <1>1. UNCHANGED <<status, at, revived>> /\ room'[d] = Ceiling - Cardinality(Busy)
    BY DEF Count, job, hist, IInv, TypeOK
  <1>2. Chosen(d) = {}
    BY DEF Count, Free, Chosen
  <1>3. Committed(d)' \subseteq Busy
    BY <1>1, <1>2 DEF Committed, Busy, Thinking, Chosen
  <1>4. Cardinality(Committed(d)') <= Cardinality(Busy)
    BY <1>3, BusyFinite, FS_Subset DEF Busy
  <1>5. Cardinality(Committed(d)') \in Nat /\ Cardinality(Busy) \in Nat
    BY <1>3, BusyFinite, FS_Subset, FS_CardinalityType DEF Busy
  <1> QED
    BY <1>1, <1>4, <1>5, WorkQueueAssumption DEF LaneRoom

LEMMA ChooseRoom ==
  ASSUME IInv, LaneRoom, NEW d \in Dispatchers, Dispatchers = {d}, Choose(d) PROVE LaneRoom'
  <1>1. PICK P \in SUBSET WaitingWork :
          /\ Cardinality(P) <= room[d]
          /\ at' = [at EXCEPT ![d] = [j \in Jobs |-> IF j \in P THEN "seen" ELSE "none"]]
          /\ room' = [room EXCEPT ![d] = @ - Cardinality(P)]
    BY DEF Choose
  <1>2. IsFiniteSet(P) /\ P \subseteq Jobs
    <2>1. P \subseteq Thinking({"queued"})
      BY DEF WaitingWork
    <2> QED
      BY <2>1, BusyFinite, FS_Subset DEF Thinking
  <1>3. Cardinality(P) \in Nat /\ room[d] \in Nat /\ room'[d] = room[d] - Cardinality(P)
    BY <1>1, <1>2, FS_CardinalityType, WorkQueueAssumption DEF IInv, TypeOK
  <1>4. Chosen(d)' = P
    BY <1>1, <1>2 DEF Chosen, IInv, TypeOK, Procs
  <1>5. Committed(d)' \subseteq Committed(d) \cup P
    BY <1>4 DEF Committed, Busy, Thinking, Choose, job, hist
  <1>6. /\ IsFiniteSet(Committed(d) \cup P)
        /\ Cardinality(Committed(d) \cup P) <= Cardinality(Committed(d)) + Cardinality(P)
    <2>1. /\ Cardinality(Committed(d) \cup P) = Cardinality(Committed(d)) + Cardinality(P)
                                                - Cardinality(Committed(d) \cap P)
          /\ IsFiniteSet(Committed(d) \cup P)
      BY <1>2, CommittedFinite, FS_Union
    <2>2. Cardinality(Committed(d) \cap P) \in Nat
      BY <1>2, FS_Subset, FS_CardinalityType
    <2> QED
      BY <2>1, <2>2, <1>3, CommittedFinite
  <1>7. Cardinality(Committed(d)') <= Cardinality(Committed(d) \cup P)
    BY <1>5, <1>6, FS_Subset
  <1>8. Cardinality(Committed(d)') \in Nat /\ Cardinality(Committed(d) \cup P) \in Nat
    BY <1>5, <1>6, FS_Subset, FS_CardinalityType
  <1>9. Cardinality(Committed(d)) + room[d] <= Ceiling
    BY DEF LaneRoom
  <1> QED
    BY <1>3, <1>6, <1>7, <1>8, <1>9, CommittedFinite, WorkQueueAssumption DEF LaneRoom

LEMMA GrantRoom ==
  ASSUME IInv, LaneRoom, NEW d \in Dispatchers, Dispatchers = {d}, Grant(d) PROVE LaneRoom'
  <1>1. Committed(d)' \subseteq Committed(d)
    BY DEF Grant, Committed, Busy, Thinking, Chosen, IInv, TypeOK, Procs
  <1>2. Cardinality(Committed(d)') <= Cardinality(Committed(d))
    BY <1>1, CommittedFinite, FS_Subset
  <1>3. Cardinality(Committed(d)') \in Nat
    BY <1>1, CommittedFinite, FS_Subset, FS_CardinalityType
  <1>4. room'[d] = room[d] /\ room[d] \in Nat
    BY WorkQueueAssumption DEF Grant, IInv, TypeOK
  <1> QED
    BY <1>2, <1>3, <1>4, CommittedFinite, WorkQueueAssumption DEF LaneRoom

\* One dispatcher never lets more decisions be ready or running than the
\* ceiling, whatever sessions and reapers do between its count and its write.
THEOREM ReadyBounded ==
  ASSUME NEW d, Dispatchers = {d}
  PROVE  Spec => []CeilingHolds
  <1>1. Init => LaneRoom
    <2> SUFFICES ASSUME Init PROVE LaneRoom
      OBVIOUS
    <2>1. Committed(d) = {} /\ room[d] = 0
      BY DEF Init, Committed, Busy, Thinking, Chosen, Procs
    <2> QED
      BY <2>1, FS_EmptySet, WorkQueueAssumption DEF LaneRoom
  <1>2. IInv /\ LaneRoom /\ [Next]_vars => LaneRoom'
    <2> SUFFICES ASSUME IInv, LaneRoom, [Next]_vars PROVE LaneRoom'
      OBVIOUS
    <2>1. CASE UNCHANGED vars
      BY <2>1 DEF vars, job, hist, LaneRoom, Committed, Busy, Thinking, Chosen
    <2>2. CASE \E a \in Askers, j \in Jobs : Ask(a, j) \/ Insert(a, j)
      BY <2>2, AskQuiet, QuietRoom
    <2>3. CASE EngineStep
      BY <2>3, ClaimQuiet, RetireQuiet, HandOutQuiet, CompleteQuiet, CloseQuiet, ThrowQuiet,
         FailQuiet, QuietRoom DEF EngineStep, Work
    <2>4. CASE SessionStep
      BY <2>4, BatchReadQuiet, BatchTakeQuiet, GiveBackQuiet, HandQuiet, FinishQuiet,
         GroomedQuiet, QuietRoom DEF SessionStep
    <2>5. CASE ReapStep
      BY <2>5, ReapReadQuiet, ReapWriteQuiet, QuietRoom DEF ReapStep
    <2>6. CASE LaneStep
      BY <2>6, CountRoom, ChooseRoom, LeaveQuiet, QuietRoom, GrantRoom DEF LaneStep
    <2>7. CASE \/ \E j \in Jobs : LeaseEnds(j) \/ ComesDue(j)
               \/ \E p \in Procs : Crash(p)
      BY <2>7, LeaseEndsQuiet, ComesDueQuiet, CrashQuiet, QuietRoom
    <2> QED
      BY <2>1, <2>2, <2>3, <2>4, <2>5, <2>6, <2>7 DEF Next
  <1>3. IInv /\ LaneRoom => CeilingHolds
    <2> SUFFICES ASSUME IInv, LaneRoom PROVE CeilingHolds
      OBVIOUS
    <2>1. Busy \ revived \subseteq Committed(d)
      BY DEF Committed
    <2>2. Cardinality(Busy \ revived) <= Cardinality(Committed(d))
      BY <2>1, CommittedFinite, FS_Subset
    <2>3. Cardinality(Busy \ revived) \in Nat
      BY <2>1, CommittedFinite, FS_Subset, FS_CardinalityType
    <2>4. room[d] \in Nat /\ Cardinality(Committed(d)) + room[d] <= Ceiling
      BY WorkQueueAssumption DEF LaneRoom, IInv, TypeOK
    <2> QED
      BY <2>2, <2>3, <2>4, CommittedFinite, WorkQueueAssumption DEF CeilingHolds, Busy
  <1> QED
    BY <1>1, <1>2, <1>3, SpecIInv, PTL DEF Spec

-----------------------------------------------------------------------------
\* Every hand-out, done or about to be, has an attempt of its own, and none
\* past the last.
Counted ==
    \A j \in Jobs : KindOf[j] \in Engine =>
        /\ handed[j] + Cardinality(Entering(j)) <= attempts[j]
        /\ handed[j] + Cardinality(Entering(j)) <= MaxAttempts

LEMMA EnteringFinite ==
  ASSUME NEW j PROVE IsFiniteSet(Entering(j)) /\ Cardinality(Entering(j)) \in Nat
  <1>1. Entering(j) \subseteq Workers
    BY DEF Entering
  <1> QED
    BY <1>1, WorkQueueAssumption, FS_Subset, FS_CardinalityType

LEMMA QuietCounted == ASSUME IInv, Counted, QuietWork PROVE Counted'
  <1> SUFFICES ASSUME NEW j \in Jobs, KindOf[j] \in Engine
               PROVE  /\ handed'[j] + Cardinality(Entering(j)') <= attempts'[j]
                      /\ handed'[j] + Cardinality(Entering(j)') <= MaxAttempts
    BY DEF Counted
  <1>1. Cardinality(Entering(j)') <= Cardinality(Entering(j)) /\ Cardinality(Entering(j)') \in Nat
    BY EnteringFinite, FS_Subset, FS_CardinalityType DEF QuietWork
  <1> QED
    BY <1>1, EnteringFinite, WorkQueueAssumption DEF QuietWork, Counted, IInv, TypeOK

LEMMA ClaimCounted ==
  ASSUME IInv, Counted, NEW w \in Workers, NEW j \in Jobs, Claim(w, j) PROVE Counted'
  <1> DEFINE n == attempts[j] + 1
  <1>1. /\ at' = [at EXCEPT ![w][j] = "taken"] /\ snap' = [snap EXCEPT ![w][j] = n]
        /\ attempts' = [attempts EXCEPT ![j] = n] /\ UNCHANGED handed
        /\ at[w][j] = "none" /\ w \in Procs
    BY DEF Claim, Lease, Place, Read, Free, Procs
  <1>2. ASSUME NEW i \in Jobs, i # j PROVE Entering(i)' = Entering(i)
    BY <1>1, <1>2 DEF Entering, IInv, TypeOK, Procs
  <1>3. CASE Worn(n)
    <2>1. Entering(j)' = Entering(j)
      BY <1>1, <1>3 DEF Entering, IInv, TypeOK, Procs
    <2> QED
      BY <1>1, <1>2, <2>1, EnteringFinite, WorkQueueAssumption DEF Counted, IInv, TypeOK
  <1>4. CASE ~Worn(n)
    <2>1. Entering(j)' = Entering(j) \cup {w} /\ w \notin Entering(j)
      BY <1>1, <1>4 DEF Entering, IInv, TypeOK, Procs
    <2>2. Cardinality(Entering(j)') = Cardinality(Entering(j)) + 1
      BY <2>1, EnteringFinite, FS_AddElement
    <2>3. n \in Int /\ n <= MaxAttempts
      BY <1>4, WorkQueueAssumption DEF Worn, IInv, TypeOK
    <2> QED
      BY <1>1, <1>2, <2>2, <2>3, EnteringFinite, WorkQueueAssumption DEF Counted, IInv, TypeOK
  <1> QED
    BY <1>3, <1>4

LEMMA HandOutCounted ==
  ASSUME IInv, Counted, NEW w \in Workers, NEW j \in Jobs, HandOut(w, j) PROVE Counted'
  <1>1. /\ at' = [at EXCEPT ![w][j] = "work"] /\ snap' = [snap EXCEPT ![w][j] = 0]
        /\ handed' = [handed EXCEPT ![j] = @ + 1] /\ UNCHANGED attempts
        /\ w \in Entering(j) /\ w \in Procs
    BY DEF HandOut, Place, Read, job, Entering, Procs
  <1>2. ASSUME NEW i \in Jobs, i # j PROVE Entering(i)' = Entering(i)
    BY <1>1, <1>2 DEF Entering, IInv, TypeOK, Procs
  <1>3. Entering(j)' = Entering(j) \ {w}
    BY <1>1 DEF Entering, IInv, TypeOK, Procs
  <1>4. Cardinality(Entering(j)') = Cardinality(Entering(j)) - 1
    BY <1>1, <1>3, EnteringFinite, FS_RemoveElement
  <1> QED
    BY <1>1, <1>2, <1>4, EnteringFinite, WorkQueueAssumption DEF Counted, IInv, TypeOK

\* An engine job is never handed to more workers than MAX_ATTEMPTS, however
\* they die, throw or are reaped.
THEOREM AttemptsBound == Spec => []NoSixthWorker
  <1>1. Init => Counted
    <2> SUFFICES ASSUME Init, NEW j \in Jobs
                 PROVE  handed[j] + Cardinality(Entering(j)) <= attempts[j]
                        /\ handed[j] + Cardinality(Entering(j)) <= MaxAttempts
      BY DEF Counted
    <2>1. Entering(j) = {} /\ handed[j] = 0 /\ attempts[j] = 0
      BY DEF Init, Entering, Procs
    <2> QED
      BY <2>1, FS_EmptySet, WorkQueueAssumption
  <1>2. IInv /\ Counted /\ [Next]_vars => Counted'
    <2> SUFFICES ASSUME IInv, Counted, [Next]_vars PROVE Counted'
      OBVIOUS
    <2>1. CASE UNCHANGED vars
      BY <2>1 DEF vars, job, hist, Counted, Entering
    <2>2. CASE \E a \in Askers, j \in Jobs : Ask(a, j) \/ Insert(a, j)
      BY <2>2, AskQuiet, QuietCounted
    <2>3. CASE EngineStep
      BY <2>3, ClaimCounted, RetireQuiet, HandOutCounted, CompleteQuiet, CloseQuiet, ThrowQuiet,
         FailQuiet, QuietCounted DEF EngineStep, Work
    <2>4. CASE SessionStep
      BY <2>4, BatchReadQuiet, BatchTakeQuiet, GiveBackQuiet, HandQuiet, FinishQuiet,
         GroomedQuiet, QuietCounted DEF SessionStep
    <2>5. CASE ReapStep \/ LaneStep
      BY <2>5, ReapReadQuiet, ReapWriteQuiet, CountQuiet, ChooseQuiet, LeaveQuiet, GrantQuiet, QuietCounted
      DEF ReapStep, LaneStep
    <2>6. CASE \/ \E j \in Jobs : LeaseEnds(j) \/ ComesDue(j)
               \/ \E p \in Procs : Crash(p)
      BY <2>6, LeaseEndsQuiet, ComesDueQuiet, CrashQuiet, QuietCounted
    <2> QED
      BY <2>1, <2>2, <2>3, <2>4, <2>5, <2>6 DEF Next
  <1>3. IInv /\ Counted => NoSixthWorker
    BY EnteringFinite, WorkQueueAssumption DEF Counted, NoSixthWorker, IInv, TypeOK
  <1> QED
    BY <1>1, <1>2, <1>3, SpecIInv, PTL DEF Spec

-----------------------------------------------------------------------------
(***************************************************************************)
(* DispatchLane.  LaneInv is inductive: what the tick has in hand, what    *)
(* the rounds gave, and how near the cursor is to who was left out.        *)
(***************************************************************************)

\* The place of a campaign in the sorted list of L, and how many of L the
\* cursor k passes before it gets there.
IndexIn(L, c)    == Cardinality({d \in L : Key[d] < Key[c]})
Ahead(L, k, c)   == IF IndexIn(L, c) >= k THEN IndexIn(L, c) - k
                    ELSE IndexIn(L, c) + Cardinality(L) - k

\* What a tick has in hand is what the ceiling leaves, and none of it while
\* urgent work waits; outside the rounds their counts are at rest.
InHand ==
    /\ phase # "idle" => budget = Slots - ready /\ (budget > 0 => urgent = 0)
    /\ phase # "round" => rounds = 0 /\ turn = 0 /\ gave = 0 /\ surplus = 0 /\ grants = None

Served(c) == Turn(c) < turn

\* Who had a turn while there was budget got something; who still waits got a
\* quantum in every round.
Fair ==
    /\ rounds > 0 => \A c \in queues : grants[c] > 0
    /\ \A c \in queues : Turn(c) = 0 /\ turn > 0 => grants[c] > 0
    /\ \A c \in queues : budget > 0 /\ Served(c) => grants[c] > 0
    /\ \A c \in queues : grants[c] = 0 => waiting[c] > 0
    /\ \A c \in Campaigns : grants[c] <= ready
    /\ \A c \in queues : budget > 0 /\ waiting[c] > 0 =>
         /\ grants[c] >= rounds * Quantum
         /\ Served(c) => grants[c] >= rounds * Quantum + Quantum
    /\ \A c \in queues : budget > 0 /\ gave = 0 /\ Served(c) => waiting[c] = 0

InRounds ==
    phase = "round" =>
        /\ queues # {} /\ start < Cardinality(queues) /\ start = cursor % Cardinality(queues)
        /\ turn <= Cardinality(queues) /\ rounds < 20
        /\ \A c \in Campaigns \ queues : waiting[c] = 0
        /\ surplus > 0 => rounds > 0
        /\ rounds = 0 /\ turn = 0 => budget > 0
        /\ Fair

\* A campaign left out is nearer to the cursor than the list is long, by as
\* many places as it was left out.
Rotates ==
    /\ listed # {} => cursor < Cardinality(listed)
    /\ \A c \in Campaigns : missed[c] > 0 =>
         c \in listed /\ missed[c] + Ahead(listed, cursor, c) < Cardinality(listed)

LaneInv == LaneTypeOK /\ InHand /\ InRounds /\ Rotates

LEMMA ListFinite ==
  ASSUME NEW L \in SUBSET Campaigns PROVE IsFiniteSet(L) /\ Cardinality(L) \in Nat
  BY DispatchLaneAssumption, FS_Subset, FS_CardinalityType

LEMMA IndexBelow ==
  ASSUME NEW L \in SUBSET Campaigns, NEW c \in L
  PROVE  IndexIn(L, c) \in Nat /\ IndexIn(L, c) < Cardinality(L)
  <1> DEFINE S == {d \in L : Key[d] < Key[c]}
  <1>1. Key[c] \in Nat
    BY DispatchLaneAssumption
  <1>2. S \in SUBSET L /\ S # L
    BY <1>1
  <1>3. IsFiniteSet(L) /\ Cardinality(L) \in Nat
    BY ListFinite
  <1>4. Cardinality(S) \in Nat /\ Cardinality(S) <= Cardinality(L) /\ Cardinality(S) # Cardinality(L)
    BY <1>2, <1>3, FS_Subset, FS_CardinalityType
  <1> QED
    BY <1>3, <1>4 DEF IndexIn

LEMMA IndexSmaller ==
  ASSUME NEW L \in SUBSET Campaigns, NEW c \in L, NEW d \in L, Key[c] < Key[d]
  PROVE  IndexIn(L, c) < IndexIn(L, d)
  <1> DEFINE S == {e \in L : Key[e] < Key[c]}
             T == {e \in L : Key[e] < Key[d]}
  <1>1. \A e \in L : Key[e] \in Nat
    BY DispatchLaneAssumption
  <1>2. S \in SUBSET T /\ c \in T /\ c \notin S /\ T \in SUBSET Campaigns
    BY <1>1
  <1>3. IsFiniteSet(T) /\ Cardinality(T) \in Nat
    BY <1>2, ListFinite
  <1>4. Cardinality(S) \in Nat /\ Cardinality(S) <= Cardinality(T) /\ Cardinality(S) # Cardinality(T)
    BY <1>2, <1>3, FS_Subset, FS_CardinalityType
  <1> QED
    BY <1>3, <1>4 DEF IndexIn

LEMMA IndexOnce ==
  ASSUME NEW L \in SUBSET Campaigns, NEW c \in L, NEW d \in L, IndexIn(L, c) = IndexIn(L, d)
  PROVE  c = d
  <1>1. Key[c] \in Nat /\ Key[d] \in Nat
    BY DispatchLaneAssumption
  <1>2. IndexIn(L, c) \in Nat /\ IndexIn(L, d) \in Nat
    BY IndexBelow
  <1>3. ~(Key[c] < Key[d]) /\ ~(Key[d] < Key[c])
    BY <1>2, IndexSmaller
  <1> QED
    BY <1>1, <1>3, DispatchLaneAssumption

\* Turns are the places 0 to n - 1 of the rotated list, each campaign's its own.
LEMMA TurnIs ==
  ASSUME NEW c PROVE Turn(c) = Ahead(queues, start, c)
  BY DEF Turn, Index, Ahead, IndexIn

LEMMA AheadBelow ==
  ASSUME NEW L \in SUBSET Campaigns, NEW c \in L, NEW k \in Nat, k < Cardinality(L)
  PROVE  Ahead(L, k, c) \in Nat /\ Ahead(L, k, c) < Cardinality(L)
  <1>1. IndexIn(L, c) \in Nat /\ IndexIn(L, c) < Cardinality(L) /\ Cardinality(L) \in Nat
    BY IndexBelow, ListFinite
  <1> QED
    BY <1>1 DEF Ahead

LEMMA AheadOnce ==
  ASSUME NEW L \in SUBSET Campaigns, NEW c \in L, NEW d \in L, NEW k \in Nat, k < Cardinality(L),
         Ahead(L, k, c) = Ahead(L, k, d)
  PROVE  c = d
  <1>1. /\ IndexIn(L, c) \in Nat /\ IndexIn(L, c) < Cardinality(L) /\ Cardinality(L) \in Nat
        /\ IndexIn(L, d) \in Nat /\ IndexIn(L, d) < Cardinality(L)
    BY IndexBelow, ListFinite
  <1>2. IndexIn(L, c) = IndexIn(L, d)
    BY <1>1 DEF Ahead
  <1> QED
    BY <1>2, IndexOnce

\* One place on, everybody but the first is one place nearer.
LEMMA Modulo == ASSUME NEW n \in Nat, n > 0, NEW k \in Nat
                PROVE  /\ k % n \in Nat /\ k % n < n
                       /\ k < n => k % n = k
                       /\ k = n => k % n = 0
  BY SMT

LEMMA AheadNext ==
  ASSUME NEW L \in SUBSET Campaigns, NEW c \in L, NEW k \in Nat, k < Cardinality(L),
         Ahead(L, k, c) > 0
  PROVE  Ahead(L, (k + 1) % Cardinality(L), c) = Ahead(L, k, c) - 1
  <1>1. IndexIn(L, c) \in Nat /\ IndexIn(L, c) < Cardinality(L) /\ Cardinality(L) \in Nat
    BY IndexBelow, ListFinite
  <1>2. CASE k + 1 < Cardinality(L)
    <2>1. (k + 1) % Cardinality(L) = k + 1
      BY <1>1, <1>2, Modulo
    <2> QED
      BY <1>1, <1>2, <2>1 DEF Ahead
  <1>3. CASE k + 1 = Cardinality(L)
    <2>1. (k + 1) % Cardinality(L) = 0
      BY <1>1, <1>3, Modulo
    <2> QED
      BY <1>1, <1>3, <2>1 DEF Ahead
  <1> QED
    BY <1>1, <1>2, <1>3

LEMMA TurnBelow ==
  ASSUME LaneTypeOK, InRounds, phase = "round", NEW c \in queues
  PROVE  /\ Turn(c) \in Nat /\ Turn(c) < Cardinality(queues) /\ Cardinality(queues) \in Nat
         /\ \A d \in queues : Turn(c) = Turn(d) => c = d
  <1>1. queues \in SUBSET Campaigns /\ start \in Nat /\ start < Cardinality(queues)
    BY DEF LaneTypeOK, InRounds
  <1> QED
    BY <1>1, AheadBelow, AheadOnce, ListFinite, TurnIs

\* A turn is over: who was served is who was before, and c.
LEMMA TurnOver ==
  ASSUME LaneTypeOK, InRounds, phase = "round", NEW c \in queues, Turn(c) = turn, turn' = turn + 1,
         UNCHANGED <<queues, start>>
  PROVE  /\ turn' <= Cardinality(queues)
         /\ \A d \in queues : /\ Turn(d)' = Turn(d)
                              /\ Served(d)' <=> Served(d) \/ d = c
  <1>1. \A d \in queues : /\ Turn(d) \in Nat /\ Turn(d) < Cardinality(queues) /\ Cardinality(queues) \in Nat
                          /\ Turn(d) = Turn(c) => d = c
    BY TurnBelow
  <1>2. \A d \in queues : Turn(d)' = Turn(d)
    BY DEF Turn, Index
  <1>3. \A d \in queues : Served(d)' <=> Served(d) \/ d = c
    BY <1>1, <1>2 DEF Served
  <1> QED
    BY <1>1, <1>2, <1>3
-----------------------------------------------------------------------------
(* The steps. *)

LEMMA LaneStart == ASSUME LaneInit PROVE LaneInv
  <1>0. /\ IsFiniteSet(Campaigns) /\ Favoured \subseteq Campaigns
        /\ Quantum \in Nat /\ Slots \in Nat /\ MaxWaiting \in Nat /\ MaxTicks \in Nat
    BY DispatchLaneAssumption
  <1>1. LaneTypeOK
    BY <1>0 DEF LaneInit, LaneTypeOK, None
  <1>2. InHand /\ InRounds /\ Rotates
    BY DEF LaneInit, InHand, InRounds, Rotates, None
  <1> QED
    BY <1>1, <1>2 DEF LaneInv

LEMMA LeastIs == ASSUME NEW a \in Nat, NEW b \in Nat
                 PROVE  Least(a, b) \in Nat /\ Least(a, b) <= a /\ Least(a, b) <= b /\ (Least(a, b) = a \/ Least(a, b) = b)
  BY DEF Least

\* A helping is something, and a whole quantum unless work or budget runs out.
LEMMA TakeIs ==
  ASSUME LaneTypeOK, NEW c \in Campaigns, budget > 0, waiting[c] > 0
  PROVE  /\ Take(c) \in Nat /\ Take(c) > 0 /\ Take(c) <= budget /\ Take(c) <= waiting[c]
         /\ Credit(c) \in Nat /\ Credit(c) >= Take(c)
         /\ Take(c) < budget /\ Take(c) < waiting[c] => Take(c) >= Quantum
  <1>1. /\ Quantum \in Nat \ {0} /\ budget \in Nat /\ waiting[c] \in Nat /\ deficits[c] \in Nat
    BY DispatchLaneAssumption DEF LaneTypeOK
  <1>2. Credit(c) \in Nat /\ Credit(c) >= Quantum
    BY <1>1 DEF Credit
  <1>3. /\ Least(waiting[c], budget) \in Nat /\ Least(waiting[c], budget) > 0
        /\ Least(waiting[c], budget) <= budget /\ Least(waiting[c], budget) <= waiting[c]
        /\ Least(waiting[c], budget) = budget \/ Least(waiting[c], budget) = waiting[c]
    BY <1>1, LeastIs
  <1>4. /\ Take(c) \in Nat /\ Take(c) <= Credit(c) /\ Take(c) <= Least(waiting[c], budget)
        /\ Take(c) = Credit(c) \/ Take(c) = Least(waiting[c], budget)
    BY <1>2, <1>3, LeastIs DEF Take
  <1> QED
    BY <1>1, <1>2, <1>3, <1>4

LEMMA CountKeeps == ASSUME LaneInv, CountAndServeUrgent PROVE LaneInv'
  <1> DEFINE first == Least(urgent, Slots - ready)
  <1>1. /\ urgent \in Nat /\ Slots \in Nat /\ ready \in Nat /\ ready <= Slots /\ ticks \in Nat
        /\ MaxTicks \in Nat /\ ticks <= MaxTicks
    BY DispatchLaneAssumption DEF LaneInv, LaneTypeOK
  <1>2. /\ first \in Nat /\ first <= urgent /\ first <= Slots - ready
        /\ first = urgent \/ first = Slots - ready
    BY <1>1, LeastIs
  <1>3. /\ urgent' = urgent - first /\ ready' = ready + first /\ budget' = Slots - ready - first
        /\ phase = "idle" /\ phase' = "favoured" /\ ticks' = ticks + 1 /\ ticks < MaxTicks
        /\ UNCHANGED <<waiting, laneDoc, round, listed, missed>>
    BY DEF CountAndServeUrgent
  <1>4. urgent' \in Nat /\ ready' \in 0 .. Slots /\ budget' \in 0 .. Slots /\ ticks' \in 0 .. MaxTicks
    BY <1>1, <1>2, <1>3
  <1>5. LaneTypeOK'
    BY <1>3, <1>4 DEF LaneInv, LaneTypeOK, laneDoc, round
  <1>6. budget' = Slots - ready' /\ (budget' > 0 => urgent' = 0)
    BY <1>1, <1>2, <1>3
  <1>7. InHand' /\ InRounds'
    BY <1>3, <1>6 DEF LaneInv, InHand, InRounds, round
  <1>8. Rotates'
    BY <1>3 DEF LaneInv, Rotates, Ahead, IndexIn, laneDoc
  <1> QED
    BY <1>5, <1>7, <1>8 DEF LaneInv

LEMMA FavouredKeeps == ASSUME LaneInv, NEW c \in Favoured, ServeFavoured(c) PROVE LaneInv'
  <1>1. /\ c \in Campaigns /\ Slots \in Nat /\ waiting \in [Campaigns -> Nat]
        /\ ready \in 0 .. Slots /\ budget \in 0 .. Slots /\ budget = Slots - ready
        /\ budget > 0 => urgent = 0
    BY DispatchLaneAssumption DEF LaneInv, LaneTypeOK, InHand, ServeFavoured
  <1>2. /\ phase = "favoured" /\ budget > 0 /\ waiting[c] > 0
        /\ waiting' = [waiting EXCEPT ![c] = @ - 1] /\ ready' = ready + 1 /\ budget' = budget - 1
        /\ UNCHANGED <<urgent, laneDoc, phase, round, laneHist>>
    BY DEF ServeFavoured
  <1>3. waiting' \in [Campaigns -> Nat] /\ ready' \in 0 .. Slots /\ budget' \in 0 .. Slots
    BY <1>1, <1>2
  <1>4. LaneTypeOK'
    BY <1>2, <1>3 DEF LaneInv, LaneTypeOK, laneDoc, round, laneHist
  <1>5. InHand' /\ InRounds'
    BY <1>1, <1>2 DEF LaneInv, InHand, InRounds, round
  <1>6. Rotates'
    BY <1>2 DEF LaneInv, Rotates, Ahead, IndexIn, laneDoc, laneHist
  <1> QED
    BY <1>4, <1>5, <1>6 DEF LaneInv

LEMMA RestTypes == ASSUME Rest
                   PROVE  /\ phase' = "idle" /\ budget' \in 0 .. Slots /\ queues' \subseteq Campaigns
                          /\ start' \in Nat /\ rounds' \in Nat /\ turn' \in Nat /\ gave' \in Nat
                          /\ surplus' \in Nat /\ grants' \in [Campaigns -> Nat]
                          /\ InHand' /\ InRounds'
  <1>1. Slots \in Nat
    BY DispatchLaneAssumption
  <1> QED
    BY <1>1 DEF Rest, None, InHand, InRounds

LEMMA EarlyKeeps == ASSUME LaneInv, ReturnEarly PROVE LaneInv'
  <1>1. Rest /\ UNCHANGED <<lane, laneDoc, laneHist>>
    BY DEF ReturnEarly
  <1>2. LaneTypeOK'
    BY <1>1, RestTypes DEF LaneInv, LaneTypeOK, lane, laneDoc, laneHist
  <1>3. Rotates'
    BY <1>1 DEF LaneInv, Rotates, Ahead, IndexIn, laneDoc, laneHist
  <1> QED
    BY <1>1, <1>2, <1>3, RestTypes DEF LaneInv

LEMMA BeginKeeps == ASSUME LaneInv, BeginRounds PROVE LaneInv'
  <1>1. /\ phase = "favoured" /\ budget > 0 /\ waiting # None
        /\ queues' = {c \in Campaigns : waiting[c] > 0}
        /\ start' = cursor % Cardinality(queues') /\ phase' = "round"
        /\ UNCHANGED <<lane, laneDoc, budget, rounds, turn, gave, surplus, grants, laneHist>>
    BY DEF BeginRounds, FavouredServed
  <1>2. LaneTypeOK /\ InHand /\ Rotates /\ waiting \in [Campaigns -> Nat] /\ cursor \in Nat /\ ready \in Nat
    BY DEF LaneInv, LaneTypeOK
  <1>3. rounds = 0 /\ turn = 0 /\ gave = 0 /\ surplus = 0 /\ grants = None
    BY <1>1, <1>2 DEF InHand
  <1>4. queues' \subseteq Campaigns /\ queues' # {}
    BY <1>1, <1>2 DEF None
  <1>5. Cardinality(queues') \in Nat /\ Cardinality(queues') > 0
    BY <1>4, ListFinite, FS_EmptySet
  <1>6. start' \in Nat /\ start' < Cardinality(queues')
    BY <1>1, <1>2, <1>5, Modulo
  <1>7. LaneTypeOK'
    BY <1>1, <1>2, <1>4, <1>6 DEF LaneTypeOK, lane, laneDoc, laneHist
  <1>8. InHand'
    BY <1>1, <1>2 DEF InHand, lane
  <1>9. InRounds'
    <2>1. Fair'
      <3>1. \A c \in queues' : ~Served(c)'
        <4> SUFFICES ASSUME NEW c \in queues' PROVE ~(Turn(c)' < 0)
          BY <1>1, <1>3 DEF Served
        <4>1. Turn(c)' = Ahead(queues', start', c)
          BY DEF Turn, Index, Ahead, IndexIn
        <4> QED
          BY <4>1, <1>4, <1>6, AheadBelow
      <3>2. Quantum \in Nat /\ 0 * Quantum = 0
        BY DispatchLaneAssumption
      <3>3. \A c \in Campaigns : grants[c] = 0
        BY <1>3 DEF None
      <3> QED
        BY <1>1, <1>2, <1>3, <1>4, <3>1, <3>2, <3>3 DEF Fair, lane
    <2>2. \A c \in Campaigns \ queues' : waiting[c] = 0
      BY <1>1, <1>2
    <2> QED
      BY <1>1, <1>3, <1>4, <1>5, <1>6, <2>1, <2>2 DEF InRounds, lane, laneDoc
  <1>10. Rotates'
    BY <1>1, <1>2 DEF Rotates, Ahead, IndexIn, laneDoc, laneHist
  <1> QED
    BY <1>7, <1>8, <1>9, <1>10 DEF LaneInv
\* What every turn has in common: somebody of the list is on turn, the list
\* and its beginning stay, and only the one on turn is newly served.
LEMMA OnTurnIs ==
  ASSUME LaneInv, NEW c \in Campaigns, OnTurn(c), turn' = turn + 1, UNCHANGED <<queues, start>>
  PROVE  /\ phase = "round" /\ c \in queues /\ Turn(c) = turn /\ Fair
         /\ turn \in Nat /\ rounds \in Nat /\ gave \in Nat /\ surplus \in Nat
         /\ Quantum \in Nat \ {0} /\ rounds * Quantum \in Nat
         /\ waiting \in [Campaigns -> Nat] /\ grants \in [Campaigns -> Nat] /\ deficits \in [Campaigns -> Nat]
         /\ ready \in Nat /\ budget \in Nat /\ Slots \in Nat /\ budget = Slots - ready
         /\ queues \subseteq Campaigns
         /\ turn' <= Cardinality(queues) /\ turn' # 0
         /\ \A d \in queues : /\ Turn(d)' = Turn(d)
                              /\ Turn(d) = 0 /\ turn = 0 => d = c
                              /\ Served(d)' <=> Served(d) \/ d = c
  <1>1. phase = "round" /\ c \in queues /\ Turn(c) = turn /\ LaneTypeOK /\ InRounds /\ InHand
    BY DEF OnTurn, LaneInv
  <1>2. Fair /\ budget = Slots - ready
    BY <1>1 DEF InRounds, InHand
  <1>3. /\ turn \in Nat /\ rounds \in Nat /\ gave \in Nat /\ surplus \in Nat
        /\ waiting \in [Campaigns -> Nat] /\ grants \in [Campaigns -> Nat] /\ deficits \in [Campaigns -> Nat]
        /\ ready \in Nat /\ budget \in Nat /\ queues \subseteq Campaigns
    BY <1>1, DispatchLaneAssumption DEF LaneTypeOK
  <1>4. Quantum \in Nat \ {0} /\ Slots \in Nat
    BY DispatchLaneAssumption
  <1>5. rounds * Quantum \in Nat
    BY <1>3, <1>4
  <1>6. \A d \in queues : Turn(c) = Turn(d) => c = d
    BY <1>1, TurnBelow
  <1>7. /\ turn' <= Cardinality(queues)
        /\ \A d \in queues : Turn(d)' = Turn(d) /\ (Served(d)' <=> Served(d) \/ d = c)
    BY <1>1, TurnOver
  <1> QED
    BY <1>1, <1>2, <1>3, <1>4, <1>5, <1>6, <1>7

LEMMA BankKeeps == ASSUME LaneInv, NEW c \in Campaigns, Bank(c) PROVE LaneInv'
  <1>1. /\ OnTurn(c) /\ budget = 0 /\ turn' = turn + 1
        /\ deficits' = IF waiting[c] > 0 THEN [deficits EXCEPT ![c] = @ + Quantum] ELSE deficits
        /\ UNCHANGED <<lane, cursor, phase, budget, queues, start, rounds, gave, surplus, grants, laneHist>>
    BY DEF Bank
  <1>2. LaneTypeOK /\ InHand /\ InRounds /\ Rotates
    BY DEF LaneInv
  <1>3. /\ phase = "round" /\ c \in queues /\ Turn(c) = turn /\ Fair /\ turn \in Nat /\ rounds \in Nat
        /\ Quantum \in Nat /\ deficits \in [Campaigns -> Nat]
        /\ turn' <= Cardinality(queues) /\ turn' # 0
        /\ \A d \in queues : Turn(d)' = Turn(d) /\ (Turn(d) = 0 /\ turn = 0 => d = c)
    BY <1>1, OnTurnIs
  <1>4. deficits' \in [Campaigns -> Nat]
    BY <1>1, <1>3
  <1>5. LaneTypeOK'
    BY <1>1, <1>2, <1>3, <1>4 DEF LaneTypeOK, lane, laneHist
  <1>6. InHand'
    BY <1>1, <1>2, <1>3 DEF InHand, lane
  <1>7. Fair'
    <2>1. turn = 0 => rounds > 0
      BY <1>1, <1>2, <1>3 DEF InRounds
    <2>2. \A d \in queues : Turn(d) = 0 => grants[d] > 0
      BY <1>3, <2>1 DEF Fair
    <2> QED
      BY <1>1, <1>3, <2>2 DEF Fair, lane
  <1>8. InRounds'
    BY <1>1, <1>2, <1>3, <1>7 DEF InRounds, lane
  <1>9. Rotates'
    BY <1>1, <1>2 DEF Rotates, Ahead, IndexIn, laneHist
  <1> QED
    BY <1>5, <1>6, <1>8, <1>9 DEF LaneInv

LEMMA DropKeeps == ASSUME LaneInv, NEW c \in Campaigns, DropCredit(c) PROVE LaneInv'
  <1>1. /\ OnTurn(c) /\ budget > 0 /\ waiting[c] = 0 /\ turn' = turn + 1
        /\ deficits' = [deficits EXCEPT ![c] = 0]
        /\ UNCHANGED <<lane, cursor, phase, budget, queues, start, rounds, gave, surplus, grants, laneHist>>
    BY DEF DropCredit
  <1>2. LaneTypeOK /\ InHand /\ InRounds /\ Rotates
    BY DEF LaneInv
  <1>3. /\ phase = "round" /\ c \in queues /\ Fair /\ turn \in Nat /\ grants \in [Campaigns -> Nat]
        /\ deficits \in [Campaigns -> Nat] /\ queues \subseteq Campaigns
        /\ turn' <= Cardinality(queues) /\ turn' # 0
        /\ \A d \in queues : /\ Turn(d)' = Turn(d)
                             /\ Turn(d) = 0 /\ turn = 0 => d = c
                             /\ Served(d)' <=> Served(d) \/ d = c
    BY <1>1, OnTurnIs
  <1>4. deficits' \in [Campaigns -> Nat]
    BY <1>1, <1>3
  <1>5. LaneTypeOK'
    BY <1>1, <1>2, <1>3, <1>4 DEF LaneTypeOK, lane, laneHist
  <1>6. InHand'
    BY <1>1, <1>2, <1>3 DEF InHand, lane
  <1>7. Fair'
    <2>1. grants[c] > 0
      BY <1>1, <1>3 DEF Fair
    <2>2. \A d \in queues : Turn(d) = 0 => grants[d] > 0
      BY <1>3, <2>1 DEF Fair
    <2> QED
      BY <1>1, <1>3, <2>1, <2>2 DEF Fair, lane
  <1>8. InRounds'
    BY <1>1, <1>2, <1>3, <1>7 DEF InRounds, lane
  <1>9. Rotates'
    BY <1>1, <1>2 DEF Rotates, Ahead, IndexIn, laneHist
  <1> QED
    BY <1>5, <1>6, <1>8, <1>9 DEF LaneInv

LEMMA HelpKeeps == ASSUME LaneInv, NEW c \in Campaigns, Help(c) PROVE LaneInv'
  <1> DEFINE took == Take(c)
  <1>1. /\ OnTurn(c) /\ budget > 0 /\ waiting[c] > 0 /\ turn' = turn + 1
        /\ waiting' = [waiting EXCEPT ![c] = @ - took]
        /\ ready' = ready + took /\ budget' = budget - took /\ gave' = gave + took
        /\ grants' = [grants EXCEPT ![c] = @ + took]
        /\ deficits' = [deficits EXCEPT ![c] = Credit(c) - took]
        /\ surplus' = IF rounds > 0 THEN surplus + 1 ELSE surplus
        /\ UNCHANGED <<urgent, cursor, phase, queues, start, rounds, laneHist>>
    BY DEF Help
  <1>2. LaneTypeOK /\ InHand /\ InRounds /\ Rotates
    BY DEF LaneInv
  <1>3. /\ phase = "round" /\ c \in queues /\ Fair /\ turn \in Nat /\ rounds \in Nat
        /\ gave \in Nat /\ surplus \in Nat /\ Quantum \in Nat \ {0} /\ rounds * Quantum \in Nat
        /\ waiting \in [Campaigns -> Nat] /\ grants \in [Campaigns -> Nat] /\ deficits \in [Campaigns -> Nat]
        /\ ready \in Nat /\ budget \in Nat /\ Slots \in Nat /\ budget = Slots - ready
        /\ queues \subseteq Campaigns /\ turn' <= Cardinality(queues) /\ turn' # 0
    BY <1>1, OnTurnIs
  <1>4. \A d \in queues : /\ Turn(d)' = Turn(d)
                          /\ Turn(d) = 0 /\ turn = 0 => d = c
                          /\ Served(d)' <=> Served(d) \/ d = c
    BY <1>1, OnTurnIs
  <1>5. /\ took \in Nat /\ took > 0 /\ took <= budget /\ took <= waiting[c]
        /\ Credit(c) \in Nat /\ Credit(c) >= took
        /\ took < budget /\ took < waiting[c] => took >= Quantum
    BY <1>1, <1>2, TakeIs
  <1> HIDE DEF took
  <1>6. LaneTypeOK'
    <2>1. waiting' \in [Campaigns -> Nat] /\ grants' \in [Campaigns -> Nat] /\ deficits' \in [Campaigns -> Nat]
      BY <1>1, <1>3, <1>5
    <2>2. ready' \in 0 .. Slots /\ budget' \in 0 .. Slots /\ gave' \in Nat /\ surplus' \in Nat
      BY <1>1, <1>3, <1>5
    <2> QED
      BY <1>1, <1>2, <1>3, <2>1, <2>2 DEF LaneTypeOK, laneHist
  <1>7. InHand'
    <2>1. budget' = Slots - ready' /\ (budget' > 0 => urgent' = 0)
      BY <1>1, <1>2, <1>3, <1>5 DEF InHand
    <2> QED
      BY <1>1, <1>3, <2>1 DEF InHand
  <1>8. /\ waiting'[c] = waiting[c] - took /\ grants'[c] = grants[c] + took
        /\ \A d \in Campaigns \ {c} : waiting'[d] = waiting[d] /\ grants'[d] = grants[d]
    BY <1>1, <1>3
  <1>9. Fair'
    <2>1. \A d \in Campaigns : grants'[d] >= grants[d] /\ grants'[d] <= ready'
      BY <1>1, <1>3, <1>5, <1>8 DEF Fair
    <2>2. grants'[c] > 0 /\ gave' > 0 /\ (budget' > 0 => budget > 0)
      BY <1>1, <1>3, <1>5, <1>8
    <2>3. budget' > 0 /\ waiting'[c] > 0 =>
            grants'[c] >= rounds * Quantum /\ grants'[c] >= rounds * Quantum + Quantum
      <3> SUFFICES ASSUME budget' > 0, waiting'[c] > 0
                   PROVE  grants'[c] >= rounds * Quantum /\ grants'[c] >= rounds * Quantum + Quantum
        OBVIOUS
      <3>1. took < budget /\ took < waiting[c]
        BY <1>1, <1>3, <1>5, <1>8
      <3>2. grants[c] >= rounds * Quantum
        BY <1>1, <1>3 DEF Fair
      <3> QED
        BY <1>3, <1>5, <1>8, <3>1, <3>2
    <2> SUFFICES ASSUME NEW d \in queues
                 PROVE  /\ rounds > 0 => grants'[d] > 0
                        /\ Turn(d) = 0 => grants'[d] > 0
                        /\ budget' > 0 /\ Served(d)' => grants'[d] > 0
                        /\ grants'[d] = 0 => waiting'[d] > 0
                        /\ budget' > 0 /\ waiting'[d] > 0 =>
                             /\ grants'[d] >= rounds * Quantum
                             /\ Served(d)' => grants'[d] >= rounds * Quantum + Quantum
      BY <1>1, <1>3, <1>4, <2>1, <2>2 DEF Fair
    <2>4. CASE d = c
      BY <2>2, <2>3, <2>4
    <2>5. CASE d # c
      BY <1>3, <1>4, <1>8, <2>2, <2>5 DEF Fair
    <2> QED
      BY <2>4, <2>5
  <1>10. InRounds'
    <2>1. \A d \in Campaigns \ queues : waiting'[d] = 0
      BY <1>2, <1>3, <1>8 DEF InRounds
    <2> QED
      BY <1>1, <1>2, <1>3, <1>9, <2>1 DEF InRounds
  <1>11. Rotates'
    BY <1>1, <1>2 DEF Rotates, Ahead, IndexIn, laneHist
  <1> QED
    BY <1>6, <1>7, <1>10, <1>11 DEF LaneInv
\* When a round is over, everybody in the list has had a turn.
LEMMA AllServed ==
  ASSUME LaneInv, RoundOver
  PROVE  /\ phase = "round" /\ Fair /\ LaneTypeOK /\ InHand /\ InRounds /\ Rotates
         /\ \A d \in queues : Served(d)
  <1>1. phase = "round" /\ turn = Cardinality(queues) /\ LaneTypeOK /\ InHand /\ InRounds /\ Rotates
    BY DEF RoundOver, LaneInv
  <1>2. Fair
    BY <1>1 DEF InRounds
  <1>3. \A d \in queues : Served(d)
    BY <1>1, TurnBelow DEF Served
  <1> QED
    BY <1>1, <1>2, <1>3

LEMMA AgainKeeps == ASSUME LaneInv, Again PROVE LaneInv'
  <1>1. /\ RoundOver /\ budget > 0 /\ gave > 0 /\ rounds + 1 < 20
        /\ rounds' = rounds + 1 /\ turn' = 0 /\ gave' = 0
        /\ UNCHANGED <<lane, laneDoc, phase, budget, queues, start, surplus, grants, laneHist>>
    BY DEF Again, GoesOn, Rounds
  <1>2. /\ phase = "round" /\ Fair /\ LaneTypeOK /\ InHand /\ InRounds /\ Rotates
        /\ \A d \in queues : Served(d)
    BY <1>1, AllServed
  <1>3. rounds \in Nat /\ Quantum \in Nat /\ queues \subseteq Campaigns /\ start \in Nat
    BY <1>2, DispatchLaneAssumption DEF LaneTypeOK
  <1>4. rounds' * Quantum = rounds * Quantum + Quantum
    BY <1>1, <1>3
  <1>5. LaneTypeOK'
    BY <1>1, <1>2, <1>3 DEF LaneTypeOK, lane, laneDoc, laneHist
  <1>6. InHand'
    BY <1>1, <1>2 DEF InHand, lane
  <1>7. \A d \in queues : Turn(d)' \in Nat
    <2>1. start < Cardinality(queues)
      BY <1>2 DEF InRounds
    <2>2. \A d \in queues : Turn(d) \in Nat
      BY <1>3, <2>1, AheadBelow, TurnIs
    <2> QED
      BY <1>1, <2>2 DEF Turn, Index
  <1>8. Fair'
    <2>1. \A d \in queues : ~Served(d)'
      BY <1>1, <1>7 DEF Served
    <2>2. \A d \in queues : grants[d] > 0
      BY <1>1, <1>2 DEF Fair
    <2>3. \A d \in queues : waiting[d] > 0 => grants[d] >= rounds' * Quantum
      BY <1>1, <1>2, <1>4 DEF Fair
    <2>4. /\ \A d \in queues : grants[d] = 0 => waiting[d] > 0
          /\ \A d \in Campaigns : grants[d] <= ready
      BY <1>2 DEF Fair
    <2> QED
      BY <1>1, <2>1, <2>2, <2>3, <2>4 DEF Fair, lane
  <1>9. InRounds'
    <2>1. Cardinality(queues) \in Nat
      BY <1>3, ListFinite
    <2> QED
      BY <1>1, <1>2, <1>3, <1>8, <2>1 DEF InRounds, lane, laneDoc
  <1>10. Rotates'
    BY <1>1, <1>2 DEF Rotates, Ahead, IndexIn, laneDoc, laneHist
  <1> QED
    BY <1>5, <1>6, <1>9, <1>10 DEF LaneInv

\* Who is left out was not first, and no later round had begun: the cursor goes
\* on by one, and comes one nearer.
LEMMA LeftOut ==
  ASSUME LaneInv, WriteState, NEW c \in queues, grants[c] = 0
  PROVE  /\ Ahead(queues, start, c) \in Nat /\ Ahead(queues, start, c) < Cardinality(queues)
         /\ Ahead(queues, cursor', c) = Ahead(queues, start, c) - 1
  <1>1. RoundOver /\ cursor' = Advance(start, surplus, Cardinality(queues))
    BY DEF WriteState
  <1>2. Fair /\ LaneTypeOK /\ InRounds /\ phase = "round" /\ \A d \in queues : Served(d)
    BY <1>1, AllServed
  <1>3. /\ queues \subseteq Campaigns /\ start \in Nat /\ start < Cardinality(queues)
        /\ rounds \in Nat /\ surplus \in Nat /\ turn \in Nat
    BY <1>2 DEF LaneTypeOK, InRounds
  <1>4. rounds = 0 /\ surplus = 0
    BY <1>2, <1>3 DEF Fair, InRounds
  <1>5. Ahead(queues, start, c) \in Nat /\ Ahead(queues, start, c) < Cardinality(queues)
    BY <1>3, AheadBelow
  <1>6. Ahead(queues, start, c) > 0
    <2>1. Turn(c) < turn
      BY <1>2 DEF Served
    <2>2. turn > 0
      BY <1>3, <1>5, <2>1, TurnIs
    <2>3. Turn(c) # 0
      BY <1>2, <2>2 DEF Fair
    <2> QED
      BY <1>5, <2>3, TurnIs
  <1>7. cursor' = (start + 1) % Cardinality(queues)
    BY <1>1, <1>4 DEF Advance
  <1> QED
    BY <1>3, <1>5, <1>6, <1>7, AheadNext

LEMMA WriteKeeps == ASSUME LaneInv, WriteState PROVE LaneInv'
  <1>1. /\ RoundOver /\ cursor' = Advance(start, surplus, Cardinality(queues))
        /\ Rest /\ Remember /\ UNCHANGED <<lane, deficits, ticks>>
    BY DEF WriteState
  <1>2. Fair /\ LaneTypeOK /\ InRounds /\ Rotates /\ phase = "round"
    BY <1>1, AllServed
  <1>3. /\ queues \subseteq Campaigns /\ queues # {} /\ start \in Nat /\ surplus \in Nat
        /\ cursor \in Nat /\ start = cursor % Cardinality(queues)
        /\ missed \in [Campaigns -> Nat] /\ grants \in [Campaigns -> Nat]
    BY <1>2 DEF LaneTypeOK, InRounds
  <1>4. Cardinality(queues) \in Nat /\ Cardinality(queues) > 0
    BY <1>3, ListFinite, FS_EmptySet
  <1>5. cursor' \in Nat /\ cursor' < Cardinality(queues)
    BY <1>1, <1>3, <1>4, Modulo DEF Advance
  <1>6. /\ listed' = queues
        /\ missed' = [c \in Campaigns |->
                        IF c \notin queues \/ grants[c] > 0 THEN 0
                        ELSE IF queues = listed THEN missed[c] + 1 ELSE 1]
    BY <1>1 DEF Remember
  <1>7. missed' \in [Campaigns -> Nat]
    BY <1>3, <1>6
  <1>8. LaneTypeOK'
    BY <1>1, <1>2, <1>3, <1>5, <1>6, <1>7, RestTypes DEF LaneTypeOK, lane
  <1>9. Rotates'
    <2>1. SUFFICES ASSUME NEW c \in Campaigns, missed'[c] > 0
                   PROVE  c \in queues /\ missed'[c] + Ahead(queues, cursor', c) < Cardinality(queues)
      <3>1. \A c \in Campaigns : Ahead(listed, cursor, c)' = Ahead(queues, cursor', c)
        BY <1>6 DEF Ahead, IndexIn
      <3> QED
        BY <1>5, <1>6, <3>1 DEF Rotates
    <2>2. c \in queues /\ grants[c] = 0
      BY <1>3, <1>6, <2>1
    <2>3. /\ Ahead(queues, start, c) \in Nat /\ Ahead(queues, start, c) < Cardinality(queues)
          /\ Ahead(queues, cursor', c) = Ahead(queues, start, c) - 1
      BY <2>2, LeftOut
    <2>4. CASE queues = listed /\ missed[c] > 0
      <3>1. missed'[c] = missed[c] + 1
        BY <1>6, <2>2, <2>4
      <3>2. cursor < Cardinality(queues) /\ missed[c] + Ahead(queues, cursor, c) < Cardinality(queues)
        BY <1>2, <1>3, <2>4 DEF Rotates
      <3>3. start = cursor
        BY <1>3, <1>4, <3>2, Modulo
      <3> QED
        BY <1>3, <1>4, <2>2, <2>3, <3>1, <3>2, <3>3
    <2>5. CASE ~(queues = listed /\ missed[c] > 0)
      <3>1. missed'[c] = 1
        BY <1>3, <1>6, <2>2, <2>5
      <3> QED
        BY <1>4, <2>2, <2>3, <3>1
    <2> QED
      BY <2>4, <2>5
  <1> QED
    BY <1>1, <1>8, <1>9, RestTypes DEF LaneInv

LEMMA ArriveKeeps == ASSUME LaneInv, NEW c \in Campaigns, Arrive(c) PROVE LaneInv'
  <1>1. /\ phase = "idle" /\ waiting' = [waiting EXCEPT ![c] = MaxWaiting]
        /\ UNCHANGED <<urgent, ready, laneDoc, phase, budget, round, laneHist>>
    BY DEF Arrive
  <1>2. MaxWaiting \in Nat
    BY DispatchLaneAssumption
  <1>3. LaneTypeOK'
    BY <1>1, <1>2 DEF LaneInv, LaneTypeOK, laneDoc, round, laneHist
  <1>4. InHand' /\ InRounds'
    BY <1>1 DEF LaneInv, InHand, InRounds, round
  <1>5. Rotates'
    BY <1>1 DEF LaneInv, Rotates, Ahead, IndexIn, laneDoc, laneHist
  <1> QED
    BY <1>3, <1>4, <1>5 DEF LaneInv

LEMMA PromoteKeeps == ASSUME LaneInv, NEW c \in Campaigns, Promote(c) PROVE LaneInv'
  <1>1. /\ phase = "idle" /\ waiting[c] > 0 /\ waiting' = [waiting EXCEPT ![c] = @ - 1]
        /\ urgent' = urgent + 1
        /\ UNCHANGED <<ready, laneDoc, phase, budget, round, laneHist>>
    BY DEF Promote
  <1>2. waiting \in [Campaigns -> Nat] /\ urgent \in Nat
    BY DEF LaneInv, LaneTypeOK
  <1>3. waiting' \in [Campaigns -> Nat] /\ urgent' \in Nat
    BY <1>1, <1>2
  <1>4. LaneTypeOK'
    BY <1>1, <1>3 DEF LaneInv, LaneTypeOK, laneDoc, round, laneHist
  <1>5. InHand' /\ InRounds'
    BY <1>1 DEF LaneInv, InHand, InRounds, round
  <1>6. Rotates'
    BY <1>1 DEF LaneInv, Rotates, Ahead, IndexIn, laneDoc, laneHist
  <1> QED
    BY <1>4, <1>5, <1>6 DEF LaneInv

LEMMA FinishKeeps == ASSUME LaneInv, FinishReady PROVE LaneInv'
  <1>1. /\ phase = "idle" /\ ready' \in 0 .. ready - 1
        /\ UNCHANGED <<waiting, urgent, laneDoc, phase, budget, round, laneHist>>
    BY DEF FinishReady
  <1>2. ready \in 0 .. Slots /\ Slots \in Nat
    BY DispatchLaneAssumption DEF LaneInv, LaneTypeOK
  <1>3. LaneTypeOK'
    BY <1>1, <1>2 DEF LaneInv, LaneTypeOK, laneDoc, round, laneHist
  <1>4. InHand' /\ InRounds'
    BY <1>1 DEF LaneInv, InHand, InRounds, round
  <1>5. Rotates'
    BY <1>1 DEF LaneInv, Rotates, Ahead, IndexIn, laneDoc, laneHist
  <1> QED
    BY <1>3, <1>4, <1>5 DEF LaneInv

LEMMA LaneStill == ASSUME LaneInv, UNCHANGED laneVars PROVE LaneInv'
  <1> USE DEF laneVars, lane, laneDoc, round, laneHist
  <1>1. LaneTypeOK'
    BY DEF LaneInv, LaneTypeOK
  <1>2. InHand'
    BY DEF LaneInv, InHand
  <1>3. InRounds'
    BY DEF LaneInv, InRounds, Fair, Served, Turn, Index
  <1>4. Rotates'
    BY DEF LaneInv, Rotates, Ahead, IndexIn
  <1> QED
    BY <1>1, <1>2, <1>3, <1>4 DEF LaneInv

LEMMA LaneKept == ASSUME LaneInv, [LaneNext]_laneVars PROVE LaneInv'
  <1>1. CASE Tick
    <2>1. CASE CountAndServeUrgent
      BY <2>1, CountKeeps
    <2>2. CASE \E c \in Favoured : ServeFavoured(c)
      BY <2>2, FavouredKeeps
    <2>3. CASE ReturnEarly
      BY <2>3, EarlyKeeps
    <2>4. CASE BeginRounds
      BY <2>4, BeginKeeps
    <2>5. CASE \E c \in Campaigns : Bank(c) \/ DropCredit(c) \/ Help(c)
      BY <2>5, BankKeeps, DropKeeps, HelpKeeps
    <2>6. CASE Again
      BY <2>6, AgainKeeps
    <2>7. CASE WriteState
      BY <2>7, WriteKeeps
    <2> QED
      BY <1>1, <2>1, <2>2, <2>3, <2>4, <2>5, <2>6, <2>7 DEF Tick
  <1>2. CASE FinishReady
    BY <1>2, FinishKeeps
  <1>3. CASE \E c \in Campaigns : Arrive(c) \/ Promote(c)
    BY <1>3, ArriveKeeps, PromoteKeeps
  <1>4. CASE UNCHANGED laneVars
    BY <1>4, LaneStill
  <1> QED
    BY <1>1, <1>2, <1>3, <1>4 DEF LaneNext

LEMMA LaneHolds == LaneSpec => []LaneInv
  <1>1. LaneInit => LaneInv
    BY LaneStart
  <1>2. LaneInv /\ [LaneNext]_laneVars => LaneInv'
    BY LaneKept
  <1> QED
    BY <1>1, <1>2, PTL DEF LaneSpec
-----------------------------------------------------------------------------
(* The theorems. *)

\* Every variable of a lane keeps its type; ready never passes the ceiling
\* (dispatch.ts 29-72, 161-168).
THEOREM LaneTypeCorrect == LaneSpec => []LaneTypeOK
  <1>1. LaneInv => LaneTypeOK
    BY DEF LaneInv
  <1> QED
    BY <1>1, LaneHolds, PTL

\* While the same campaigns wait, the rotation reaches each of them in one
\* turn of the list (dispatch.ts 248-257, 308-309).
THEOREM RotationServed == LaneSpec => []RotationServes
  <1>1. LaneInv => RotationServes
    <2> SUFFICES ASSUME LaneInv, NEW c \in Campaigns PROVE missed[c] < Cardinality(Campaigns)
      BY DEF RotationServes
    <2>1. /\ IsFiniteSet(Campaigns) /\ Cardinality(Campaigns) \in Nat
          /\ missed[c] \in Nat /\ listed \subseteq Campaigns /\ cursor \in Nat /\ Rotates
      BY ListFinite, FS_Subset, DispatchLaneAssumption DEF LaneInv, LaneTypeOK
    <2>2. Cardinality(listed) \in Nat /\ Cardinality(listed) <= Cardinality(Campaigns)
      BY <2>1, FS_Subset, FS_CardinalityType
    <2>3. Cardinality(Campaigns) > 0
      BY <2>1, FS_EmptySet
    <2>4. CASE missed[c] > 0
      <3>1. /\ c \in listed /\ cursor < Cardinality(listed)
            /\ missed[c] + Ahead(listed, cursor, c) < Cardinality(listed)
        BY <2>1, <2>4 DEF Rotates
      <3>2. Ahead(listed, cursor, c) \in Nat
        BY <2>1, <3>1, AheadBelow
      <3> QED
        BY <2>1, <2>2, <3>1, <3>2
    <2> QED
      BY <2>1, <2>3, <2>4
  <1> QED
    BY <1>1, LaneHolds, PTL

\* Twenty rounds are enough: who still waits after them got twenty quanta, and
\* no ceiling is above that.
LEMMA RoundsEnough ==
  ASSUME LaneInv, WriteState, budget > 0, NEW c \in queues
  PROVE  waiting[c] = 0
  <1>1. RoundOver /\ ~GoesOn
    BY DEF WriteState
  <1>2. Fair /\ LaneTypeOK /\ InHand /\ InRounds /\ phase = "round" /\ \A d \in queues : Served(d)
    BY <1>1, AllServed
  <1>3. /\ c \in Campaigns /\ waiting[c] \in Nat /\ rounds \in Nat /\ gave \in Nat /\ grants[c] \in Nat
        /\ budget \in Nat /\ ready \in Nat /\ Quantum \in Nat /\ Slots \in Nat /\ Slots <= 20 * Quantum
        /\ budget = Slots - ready /\ rounds < 20
    BY <1>2, DispatchLaneAssumption DEF LaneTypeOK, InHand, InRounds
  <1>4. CASE gave = 0
    BY <1>2, <1>4 DEF Fair
  <1>5. CASE rounds = 19 /\ waiting[c] > 0
    <2>1. grants[c] >= 19 * Quantum + Quantum /\ grants[c] <= ready
      BY <1>2, <1>3, <1>5 DEF Fair
    <2> QED
      BY <1>3, <2>1
  <1>6. gave = 0 \/ rounds = 19
    BY <1>1, <1>3 DEF GoesOn, Rounds
  <1> QED
    BY <1>3, <1>4, <1>5, <1>6

\* A tick fills the lane or leaves nothing waiting (dispatch.ts 263-306).
THEOREM LaneFills == LaneSpec => WorkConserving
  <1>1. LaneInv /\ [LaneNext]_laneVars =>
          [Ticked => ready' = Slots \/ (urgent' = 0 /\ waiting' = None)]_laneVars
    <2> SUFFICES ASSUME LaneInv, LaneNext, Ticked
                 PROVE  ready' = Slots \/ (urgent' = 0 /\ waiting' = None)
      OBVIOUS
    <2>1. /\ phase # "idle" /\ phase' = "idle" /\ LaneTypeOK /\ InHand /\ InRounds
          /\ waiting \in [Campaigns -> Nat] /\ ready \in Nat /\ budget \in Nat /\ Slots \in Nat
          /\ budget = Slots - ready /\ (budget > 0 => urgent = 0)
      BY DispatchLaneAssumption DEF Ticked, LaneInv, LaneTypeOK, InHand
    <2>2. CASE ReturnEarly
      <3>1. (budget = 0 \/ waiting = None) /\ UNCHANGED lane
        BY <2>2 DEF ReturnEarly
      <3> QED
        BY <2>1, <3>1 DEF lane
    <2>3. CASE WriteState
      <3>1. UNCHANGED lane /\ phase = "round"
        BY <2>3 DEF WriteState, RoundOver
      <3>2. CASE budget > 0
        <4>1. \A c \in queues : waiting[c] = 0
          BY <2>3, <3>2, RoundsEnough
        <4>2. \A c \in Campaigns \ queues : waiting[c] = 0
          BY <2>1, <3>1 DEF InRounds
        <4>3. waiting = None
          BY <2>1, <4>1, <4>2 DEF None
        <4> QED
          BY <2>1, <3>1, <3>2, <4>3 DEF lane
      <3> QED
        BY <2>1, <3>1, <3>2 DEF lane
    <2>4. ReturnEarly \/ WriteState
      <3>1. ~CountAndServeUrgent /\ ~BeginRounds /\ ~FinishReady /\ ~Again
        BY <2>1 DEF CountAndServeUrgent, BeginRounds, FinishReady, Again
      <3>2. \A c : ~ServeFavoured(c) /\ ~Bank(c) /\ ~DropCredit(c) /\ ~Help(c) /\ ~Arrive(c) /\ ~Promote(c)
        BY <2>1 DEF ServeFavoured, Bank, DropCredit, Help, Arrive, Promote
      <3> QED
        BY <3>1, <3>2 DEF LaneNext, Tick
    <2> QED
      BY <2>2, <2>3, <2>4
  <1> QED
    BY <1>1, LaneHolds, PTL DEF LaneSpec, WorkConserving
=============================================================================
