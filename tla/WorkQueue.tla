----------------------------- MODULE WorkQueue -----------------------------
(***************************************************************************)
(* The background queue of src/engine/queue.ts and everybody who writes    *)
(* it: the detectors that ask for work, the ticks and the CRM cron that    *)
(* drain the engine's own kinds, the sessions that claim batches of        *)
(* thinking work, the dispatcher that calls work ready and the reaper.     *)
(* Every Mongo call is one step, so a write made from an earlier read may  *)
(* meet a document that has moved on.                                      *)
(*                                                                         *)
(* A lease is live or over (leaseUntil against now), a job is due or not.  *)
(* The order among claimable jobs (priority, dueAt) is left open: nothing  *)
(* below depends on it.  "thinking" stands for any one of THINKING_KINDS.  *)
(***************************************************************************)
EXTENDS Integers, FiniteSets

CONSTANTS
    Jobs,         \* work_queue documents
    KindOf,       \* KindOf[j]: the job's kind
    SubjectOf,    \* SubjectOf[j]: its subjectId, or NoSubject
    NoSubject,
    Askers,       \* calls of enqueue and enqueueMany
    Workers,      \* ticks and CRM runs draining engine work
    Sessions,     \* sessions that call next_work and finish_work
    Reapers,      \* ticks inside reapLeases
    Dispatchers,  \* ticks inside dispatch
    MaxAttempts,  \* MAX_ATTEMPTS
    Ceiling,      \* READY_CEILING of the thinking kind
    BatchLimit,   \* next_work's limit
    Events,       \* which outside events the instance lets happen
    MaxFaults,    \* bound on crashes and thrown errors
    MaxClaims     \* bound on the claims of one job

Engine == {"ingest_rows", "crm_note"}
Kinds  == Engine \cup {"thinking"}
Procs  == Askers \cup Workers \cup Sessions \cup Reapers \cup Dispatchers

ASSUME WorkQueueAssumption ==
    /\ IsFiniteSet(Jobs) /\ IsFiniteSet(Workers) /\ IsFiniteSet(Askers)
    /\ KindOf \in [Jobs -> Kinds]
    /\ DOMAIN SubjectOf = Jobs
    /\ {MaxAttempts, Ceiling, BatchLimit} \subseteq Nat \ {0}
    /\ {MaxFaults, MaxClaims} \subseteq Nat
    /\ Askers \cap (Workers \cup Sessions \cup Reapers \cup Dispatchers) = {}
    /\ Workers \cap (Sessions \cup Reapers \cup Dispatchers) = {}
    /\ Sessions \cap (Reapers \cup Dispatchers) = {}
    /\ Reapers \cap Dispatchers = {}

VARIABLES
    status,    \* the job's status field, or "absent" before it is inserted
    attempts,  \* the job's attempts field
    live,      \* jobs whose leaseUntil is in the future
    due,       \* jobs with dueAt <= now
    at,        \* at[p][j]: what p is doing with j
    snap,      \* snap[p][j]: the attempts p last read
    room,      \* room[d]: what dispatcher d may still call ready; 0 when idle
    \* History, read by no action of the code.
    handed,    \* how often an engine job was handed to a worker
    lapsed,    \* <<p, j>>: p still works on j, but p's lease is over
    meddled,   \* jobs whose live lease somebody else ended
    revived,   \* finished jobs that a late write made pending again
    faults     \* faults so far

job  == <<status, attempts, live, due>>
hist == <<handed, lapsed, meddled, revived, faults>>
vars == <<job, at, snap, room, hist>>

Statuses == {"absent", "queued", "ready", "running", "done", "dead"}
Pending  == {"queued", "ready", "running"}
\* insert: about to insert; seen: in a list p read; taken: leased; work: handed
\* out; closing: completed, the rest of the try block to go; failing: in fail.
Places   == {"none", "insert", "seen", "taken", "work", "closing", "failing"}
Held     == {"taken", "work", "failing"}

TypeOK ==
    /\ status \in [Jobs -> Statuses]
    /\ attempts \in [Jobs -> Int]
    /\ live \subseteq Jobs /\ due \subseteq Jobs
    /\ at \in [Procs -> [Jobs -> Places]]
    /\ snap \in [Procs -> [Jobs -> Int]]
    /\ room \in [Dispatchers -> 0 .. Ceiling]
    /\ handed \in [Jobs -> Nat]
    /\ lapsed \subseteq Procs \X Jobs
    /\ meddled \subseteq Jobs /\ revived \subseteq Jobs
    /\ faults \in Nat

Init ==
    /\ status = [j \in Jobs |-> "absent"]
    /\ attempts = [j \in Jobs |-> 0]
    /\ live = {} /\ due = {}
    /\ at = [p \in Procs |-> [j \in Jobs |-> "none"]]
    /\ snap = [p \in Procs |-> [j \in Jobs |-> 0]]
    /\ room = [d \in Dispatchers |-> 0]
    /\ handed = [j \in Jobs |-> 0]
    /\ lapsed = {} /\ meddled = {} /\ revived = {}
    /\ faults = 0

Free(p) == \A j \in Jobs : at[p][j] = "none"
Valid(p, j) == at[p][j] \in Held /\ <<p, j>> \notin lapsed
Place(p, j, s) == at' = [at EXCEPT ![p][j] = s]
Read(p, j, n)  == snap' = [snap EXCEPT ![p][j] = n]

\* An update that checks nothing but the id: the new status, the lease dropped.
\* It ends whatever p was doing with j.
Write(p, j, s) ==
    /\ status' = [status EXCEPT ![j] = s]
    /\ live' = live \ {j}
    /\ meddled' = IF j \in live /\ ~Valid(p, j) THEN meddled \cup {j} ELSE meddled
    /\ revived' = IF status[j] \in {"done", "dead"} /\ s \in Pending
                  THEN revived \cup {j} ELSE revived

\* Everything of j that a step of p forgets.
Drop(p, j) ==
    /\ Place(p, j, "none")
    /\ Read(p, j, 0)
    /\ lapsed' = lapsed \ {<<p, j>>}

-----------------------------------------------------------------------------
(* Asking for work. *)

\* "One pending item per subject per kind": enqueue's existing, enqueueMany's
\* already.
Alike(i, j) == /\ SubjectOf[i] = SubjectOf[j] /\ SubjectOf[j] # NoSubject
               /\ KindOf[i] = KindOf[j]
WaitingNotRunning(j) == {i \in Jobs : Alike(i, j) /\ status[i] \in {"queued", "ready"}}
Waiting(j)           == {i \in Jobs : Alike(i, j) /\ status[i] \in Pending}

\* The first read: an existing item may be made due now if this request is more
\* urgent; only a subject with none goes on to the insert.
Ask(a, j) ==
    /\ Free(a) /\ status[j] = "absent"
    /\ \A b \in Askers : at[b][j] = "none"
    /\ \/ /\ Waiting(j) = {}
          /\ Place(a, j, "insert")
          /\ UNCHANGED due
       \/ /\ \E i \in Waiting(j) : due' = due \cup {i}
          /\ UNCHANGED at
    /\ UNCHANGED <<status, attempts, live, snap, room, hist>>

Insert(a, j) ==
    /\ at[a][j] = "insert"
    /\ Place(a, j, "none")
    /\ status' = [status EXCEPT ![j] = "queued"]
    /\ due' \in {due, due \cup {j}}
    /\ UNCHANGED <<attempts, live, snap, room, hist>>

-----------------------------------------------------------------------------
(* Engine work: claim, work, complete or fail. *)

ClaimableFrom(k) == IF k = "thinking" THEN {"ready", "running"} ELSE {"queued", "running"}

\* MaxClaims is the model's bound, not the code's.
LeasableAnyLease(j) == status[j] \in ClaimableFrom(KindOf[j]) /\ attempts[j] < MaxClaims
Leasable(j) == LeasableAnyLease(j) /\ j \notin live

\* The findOneAndUpdate both claims end in.
Lease(p, j) ==
    /\ Leasable(j)
    /\ status' = [status EXCEPT ![j] = "running"]
    /\ live' = live \cup {j}
    /\ attempts' = [attempts EXCEPT ![j] = @ + 1]
    /\ Place(p, j, "taken")
    /\ lapsed' = lapsed \ {<<p, j>>}

Claim(w, j) ==
    /\ Free(w) /\ KindOf[j] \in Engine /\ j \in due
    /\ Lease(w, j)
    /\ Read(w, j, attempts[j] + 1)
    /\ UNCHANGED <<due, room, handed, meddled, revived, faults>>

Worn(n) == n > MaxAttempts

\* The claim's own retirement of a job that keeps taking the worker down.
Retire(w, j) ==
    /\ at[w][j] = "taken" /\ Worn(snap[w][j])
    /\ Write(w, j, "dead") /\ Drop(w, j)
    /\ UNCHANGED <<attempts, due, room, handed, faults>>

HandOut(w, j) ==
    /\ at[w][j] = "taken" /\ ~Worn(snap[w][j])
    /\ Place(w, j, "work")
    /\ Read(w, j, 0)
    /\ handed' = [handed EXCEPT ![j] = @ + 1]
    /\ UNCHANGED <<job, room, lapsed, meddled, revived, faults>>

\* The work is done and complete() recorded it; the try block still counts the
\* rows (tick) or learns the actor (drainNotes).
Complete(w, j) ==
    /\ at[w][j] = "work"
    /\ Write(w, j, "done")
    /\ Place(w, j, "closing")
    /\ lapsed' = lapsed \ {<<w, j>>}
    /\ UNCHANGED <<attempts, due, snap, room, handed, faults>>

Close(w, j) ==
    /\ at[w][j] = "closing"
    /\ Drop(w, j)
    /\ UNCHANGED <<job, room, handed, meddled, revived, faults>>

\* Anything in the try block throws: fail() reads the job first.
Throw(w, j) ==
    /\ "throw" \in Events /\ faults < MaxFaults
    /\ at[w][j] \in {"work", "closing"}
    /\ lapsed' = IF at[w][j] = "closing" THEN lapsed \cup {<<w, j>>} ELSE lapsed
    /\ Place(w, j, "failing")
    /\ Read(w, j, attempts[j])
    /\ faults' = faults + 1
    /\ UNCHANGED <<job, room, handed, meddled, revived>>

Spent(n) == n >= MaxAttempts
FailedStatus(n) == IF Spent(n) THEN "dead" ELSE "queued"

\* ... and then writes, with the delay that grows with the attempts.
Fail(w, j) ==
    /\ at[w][j] = "failing"
    /\ Write(w, j, FailedStatus(snap[w][j])) /\ Drop(w, j)
    /\ due' = due \ {j}
    /\ UNCHANGED <<attempts, room, handed, faults>>

Work(w, j) == \/ Retire(w, j) \/ HandOut(w, j) \/ Complete(w, j)
              \/ Close(w, j) \/ Fail(w, j)

-----------------------------------------------------------------------------
(* Thinking work: next_work and finish_work. *)

Smaller(a, b) == IF a < b THEN a ELSE b

\* claimBatch reads its candidates once ...
BatchRead(s) ==
    LET free == {j \in due : KindOf[j] = "thinking" /\ Leasable(j)} IN
    /\ Free(s) /\ free # {}
    /\ \E C \in SUBSET free :
          /\ Cardinality(C) = Smaller(BatchLimit, Cardinality(free))
          /\ at' = [at EXCEPT ![s] = [j \in Jobs |-> IF j \in C THEN "seen" ELSE "none"]]
    /\ UNCHANGED <<job, snap, room, hist>>

\* ... and takes them one at a time, each only if it is still free.
BatchTake(s, j) ==
    /\ at[s][j] = "seen"
    /\ IF Leasable(j) THEN Lease(s, j)
       ELSE Place(s, j, "none") /\ UNCHANGED <<status, live, attempts, lapsed>>
    /\ UNCHANGED <<due, snap, room, handed, meddled, revived, faults>>

Taken(s, j) == at[s][j] = "taken" /\ \A i \in Jobs : at[s][i] # "seen"

\* Not this session's product: releaseAll, only while it says running.
GiveBack(s, j) ==
    /\ "giveBack" \in Events
    /\ Taken(s, j)
    /\ IF status[j] = "running"
       THEN Write(s, j, "ready") /\ attempts' = [attempts EXCEPT ![j] = @ - 1]
       ELSE UNCHANGED <<status, live, meddled, revived, attempts>>
    /\ Drop(s, j)
    /\ UNCHANGED <<due, room, handed, faults>>

\* Handed to the session as its answer.
Hand(s, j) ==
    /\ Taken(s, j)
    /\ Place(s, j, "work")
    /\ UNCHANGED <<job, snap, room, hist>>

\* completeAll: finish_work for what the session did, or next_work itself for
\* a job somebody has answered in the meantime.
Finish(s, j) ==
    /\ Taken(s, j) \/ at[s][j] = "work"
    /\ Write(s, j, "done") /\ Drop(s, j)
    /\ UNCHANGED <<attempts, due, room, handed, faults>>

\* describe_asset completes every pending groom item of the asset, whoever
\* holds it.
Groomed(s, j) ==
    /\ "groom" \in Events
    /\ KindOf[j] = "thinking" /\ status[j] \in Pending /\ at[s][j] = "none"
    /\ Write(s, j, "done")
    /\ UNCHANGED <<attempts, due, at, snap, room, handed, lapsed, faults>>

-----------------------------------------------------------------------------
(* The tick's two sweeps. *)

Expired == {j \in Jobs : status[j] = "running" /\ j \notin live}

ReapRead(r) ==
    /\ Free(r) /\ Expired # {}
    /\ at' = [at EXCEPT ![r] = [j \in Jobs |-> IF j \in Expired THEN "seen" ELSE "none"]]
    /\ snap' = [snap EXCEPT ![r] = [j \in Jobs |-> IF j \in Expired THEN attempts[j] ELSE 0]]
    /\ UNCHANGED <<job, room, hist>>

ReapedReady(j, n) == IF Spent(n) THEN "dead" ELSE "ready"
Reaped(j, n) ==
    IF Spent(n) THEN "dead" ELSE IF KindOf[j] = "ingest_rows" THEN "queued" ELSE "ready"

ReapWrite(r, j) ==
    /\ at[r][j] = "seen"
    /\ Write(r, j, Reaped(j, snap[r][j])) /\ Drop(r, j)
    /\ UNCHANGED <<attempts, due, room, handed, faults>>

Thinking(S) == {j \in Jobs : KindOf[j] = "thinking" /\ status[j] \in S}
BusyReady == Thinking({"ready"})
Busy      == Thinking({"ready", "running"})

\* dispatchLane counts what is ready or running ...
Count(d) ==
    /\ Free(d) /\ room[d] = 0
    /\ Cardinality(Busy) < Ceiling
    /\ room' = [room EXCEPT ![d] = Ceiling - Cardinality(Busy)]
    /\ UNCHANGED <<job, at, snap, hist>>

Chosen(d)  == {j \in Jobs : at[d][j] = "seen"}
WaitingWork == Thinking({"queued"}) \cap due

\* ... and, while there is room, finds some that wait: the urgent ones, the
\* favoured campaigns', then one campaign's after the other (DispatchLane says
\* which and how many) ...
Choose(d) ==
    /\ room[d] > 0 /\ Chosen(d) = {}
    /\ \E P \in SUBSET WaitingWork \ {{}} :
          /\ Cardinality(P) <= room[d]
          /\ at' = [at EXCEPT ![d] = [j \in Jobs |-> IF j \in P THEN "seen" ELSE "none"]]
          /\ room' = [room EXCEPT ![d] = @ - Cardinality(P)]
    /\ UNCHANGED <<job, snap, hist>>

\* ... until nothing is found any more; a tick that stops before is Crash.
Leave(d) ==
    /\ room[d] > 0 /\ Chosen(d) = {} /\ WaitingWork = {}
    /\ room' = [room EXCEPT ![d] = 0]
    /\ UNCHANGED <<job, at, snap, hist>>

\* Each find is followed by an update that calls those ready by id, whatever
\* they say by then.
Grant(d) ==
    /\ Chosen(d) # {}
    /\ status' = [j \in Jobs |-> IF j \in Chosen(d) THEN "ready" ELSE status[j]]
    /\ revived' = revived \cup {j \in Chosen(d) : status[j] \in {"done", "dead"}}
    /\ at' = [at EXCEPT ![d] = [j \in Jobs |-> "none"]]
    /\ UNCHANGED <<attempts, live, due, snap, room, handed, lapsed, meddled, faults>>

-----------------------------------------------------------------------------
(* Time and crashes. *)

\* A tick or a CRM run is killed at maxDuration, 60 seconds, and LEASE_MS is 90:
\* only a session lives to see its lease run out.
LeaseEnds(j) ==
    /\ j \in live /\ \A w \in Workers : at[w][j] = "none"
    /\ live' = live \ {j}
    /\ lapsed' = lapsed \cup {<<p, j>> : p \in {q \in Procs : at[q][j] \in Held}}
    /\ UNCHANGED <<status, attempts, due, at, snap, room, handed, meddled, revived, faults>>

ComesDue(j) ==
    /\ status[j] = "queued" /\ j \notin due
    /\ due' = due \cup {j}
    /\ UNCHANGED <<status, attempts, live, at, snap, room, hist>>

\* The platform kills a request at maxDuration; a session is reclaimed.
Crash(p) ==
    /\ "crash" \in Events /\ faults < MaxFaults
    /\ ~Free(p) \/ (p \in Dispatchers /\ room[p] # 0)
    /\ at' = [at EXCEPT ![p] = [j \in Jobs |-> "none"]]
    /\ snap' = [snap EXCEPT ![p] = [j \in Jobs |-> 0]]
    /\ room' = [d \in Dispatchers |-> IF d = p THEN 0 ELSE room[d]]
    /\ lapsed' = {h \in lapsed : h[1] # p}
    /\ faults' = faults + 1
    /\ UNCHANGED <<job, handed, meddled, revived>>

-----------------------------------------------------------------------------
EngineStep  == \E w \in Workers, j \in Jobs : Claim(w, j) \/ Work(w, j) \/ Throw(w, j)
SessionStep ==
    \E s \in Sessions :
        \/ BatchRead(s)
        \/ \E j \in Jobs : \/ BatchTake(s, j) \/ GiveBack(s, j) \/ Hand(s, j)
                           \/ Finish(s, j) \/ Groomed(s, j)
ReapStep  == \E r \in Reapers : ReapRead(r) \/ \E j \in Jobs : ReapWrite(r, j)
LaneStep  == \E d \in Dispatchers : Count(d) \/ Choose(d) \/ Leave(d) \/ Grant(d)

Next ==
    \/ \E a \in Askers, j \in Jobs : Ask(a, j) \/ Insert(a, j)
    \/ EngineStep \/ SessionStep \/ ReapStep \/ LaneStep
    \/ \E j \in Jobs : LeaseEnds(j) \/ ComesDue(j)
    \/ \E p \in Procs : Crash(p)

Spec == Init /\ [][Next]_vars

\* The cron comes back every minute and sessions every hour: a process that can
\* step does, time passes, and a session does not give work back for ever.  Which
\* job is taken first is left open: the attempts are bounded.
Fairness ==
    /\ \A a \in Askers : WF_vars(\E j \in Jobs : Insert(a, j))
    /\ \A w \in Workers : /\ SF_vars(\E j \in Jobs : Claim(w, j))
                         /\ WF_vars(\E j \in Jobs : Work(w, j))
    /\ \A s \in Sessions : /\ SF_vars(BatchRead(s))
                          /\ WF_vars(\E j \in Jobs : BatchTake(s, j))
                          /\ SF_vars(\E j \in Jobs : Finish(s, j))
    /\ \A r \in Reapers : WF_vars(ReapRead(r)) /\ WF_vars(\E j \in Jobs : ReapWrite(r, j))
    /\ \A d \in Dispatchers : /\ SF_vars(Count(d)) /\ WF_vars(Choose(d))
                             /\ WF_vars(Leave(d)) /\ WF_vars(Grant(d))
    /\ WF_vars(\E j \in Jobs : LeaseEnds(j)) /\ WF_vars(\E j \in Jobs : ComesDue(j))

FairSpec == Spec /\ Fairness

-----------------------------------------------------------------------------
(* What the queue promises. *)

\* The lease (queue.ts 10-14): two workers never work one job under leases of
\* their own, unless a write that checked only the id ended one of them first.
OneWorker ==
    \A j \in Jobs \ meddled : \A p, q \in Procs :
        Valid(p, j) /\ Valid(q, j) => p = q

\* "retired here rather than being handed to a sixth worker" (queue.ts
\* 267-273): however workers die, throw, lapse or are reaped in between.
NoSixthWorker == \A j \in Jobs : KindOf[j] \in Engine => handed[j] <= MaxAttempts

\* "Without this the queue would grow by one row a minute for a person nobody
\* has got to yet" (queue.ts 95-98): a subject's pending items of a kind never
\* outnumber the callers that can ask at once.  The lookup is no lock, so two
\* asks that cross do leave two; no later ask adds to them, whatever workers,
\* sessions and sweeps do with them meanwhile.  What a late write brought back
\* does not count.
PendingBounded ==
    \A j \in Jobs :
        Cardinality({i \in Jobs \ revived : Alike(i, j) /\ status[i] \in Pending})
          <= Cardinality(Askers)

\* One dispatcher keeps the ready ceiling (dispatch.ts 49-56, 164-169) while
\* sessions claim, return, finish and abandon work between its count and its
\* write.
CeilingHolds == Cardinality(Thinking({"ready", "running"}) \ revived) <= Ceiling

\* A note of the CRM that a killed run leaves behind: reapLeases calls it ready,
\* as it does a session's work, and a note is claimed from queued or running only.
Stranded(j) == KindOf[j] = "crm_note" /\ status[j] = "ready"

\* "A killed worker loses nothing" (queue.ts 20-27): every job that is asked
\* for is done, or retired after its attempts.  The exception is the code's own:
\* a note whose lease the sweep ends first is Stranded for good.
WorkEnds ==
    \A j \in Jobs : (status[j] \in Pending) ~> (status[j] \in {"done", "dead"} \/ Stranded(j))
=============================================================================
