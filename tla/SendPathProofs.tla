--------------------------- MODULE SendPathProofs ---------------------------
(***************************************************************************)
(* Theorems about SendPath and about the desk beside it, for any messages, *)
(* runs, people, limits and events: the leases, what was read, stopped     *)
(* leads, the gap, the window and the budget; that SendPath implements     *)
(* Outbox; that what the desk saved is what goes out.                      *)
(***************************************************************************)
EXTENDS Desk, FiniteSetTheorems, TLAPS

\* What a claim keeps true while a run works on the message: nobody else
\* writes its status, and the lease is not stale.
LeaseKept ==
    \A r \in Runs, m \in Msgs :
        /\ at[r][m] \in Deciding \union {"send", "told"} => status[m] = "sending" /\ m \notin stale
        /\ at[r][m] \in {"recorded", "spent"} => status[m] = "sent"

\* A run decides one message at a time, with a send slot of its wave to give.
OneCheck ==
    \A r \in Runs, m \in Msgs : at[r][m] \in Deciding =>
        /\ wave[r] < Concurrency
        /\ \A n \in Msgs : at[r][n] \in Deciding => n = m

\* The snapshot never knows of an approval that did not happen.
SnapshotReviewed ==
    /\ \A r \in Runs : seen[r] \subseteq reviewed
    /\ \A r \in Runs, m \in Gated : at[r][m] = "send" => m \in reviewed

\* Acceptances: one is explained by a record or by the run that just made it.
Told(m) == \E r \in Runs : at[r][m] = "told"
Explained ==
    \A m \in Msgs :
        /\ accepted[m] <= 1 + blind[m]
        /\ status[m] # "sent" /\ ~Told(m) => accepted[m] <= blind[m]

IInv == /\ TypeOK /\ LeaseKept /\ OneHolder /\ OneCheck
        /\ SnapshotReviewed /\ Explained

LEMMA LeftType == ASSUME TypeOK, NEW r \in Runs PROVE Left(r) \in Int
  <1>1. Cardinality(window) \in Nat
    BY SendPathAssumption, FS_Subset, FS_CardinalityType DEF TypeOK
  <1> QED
    BY <1>1, SendPathAssumption DEF Left, Headroom, Unread, TypeOK

\* Every way a run drops the message it is deciding on or sending without an
\* acceptance: one status write, and the rest of the lease's facts carry over.
LEMMA ReleaseStep ==
  ASSUME IInv, NEW r \in Runs, NEW m \in Msgs,
         NEW s \in {"queued", "awaiting_approval", "skipped", "failed"},
         at[r][m] \in Deciding \union {"send"}, Release(r, m, s),
         UNCHANGED <<reviewed, stale, seen, wave, accepted, blind>>, TypeOK'
  PROVE  IInv'
  BY DEF TypeOK, Release, Place, IInv, LeaseKept, OneHolder, OneCheck, SnapshotReviewed, Explained, Told, Holds, Claimed, Deciding, InFlight

LEMMA MarkContactedType ==
  ASSUME TypeOK, NEW r \in Runs, NEW m \in Msgs, MarkContacted(r, m)
  PROVE  contacted' \in [Runs -> SUBSET People]
  BY SendPathAssumption DEF TypeOK, MarkContacted

LEMMA ClaimStep == ASSUME IInv, NEW r \in Runs, NEW m \in Msgs, Claim(r, m) PROVE IInv'
  BY SendPathAssumption, LeftType
  DEF TypeOK, Places, Statuses, IInv, LeaseKept, OneHolder, OneCheck, SnapshotReviewed, Explained, Told, Holds, Claimed, Deciding, InFlight, doc, run, db, who, hist, Claim, Turn, Claimable, Place

LEMMA LoseClaimStep == ASSUME IInv, NEW r \in Runs, NEW m \in Msgs, LoseClaim(r, m) PROVE IInv'
  BY SendPathAssumption, LeftType
  DEF TypeOK, Places, Statuses, IInv, LeaseKept, OneHolder, OneCheck, SnapshotReviewed, Explained, Told, Holds, Claimed, Deciding, InFlight, doc, run, db, who, hist, LoseClaim, Turn, Place

LEMMA LookStep == ASSUME IInv, NEW r \in Runs, NEW m \in Msgs, Look(r, m) PROVE IInv'
  BY SendPathAssumption
  DEF TypeOK, Places, Statuses, IInv, LeaseKept, OneHolder, OneCheck, SnapshotReviewed, Explained, Told, Holds, Claimed, Deciding, InFlight, doc, run, db, who, hist, Look, Place

LEMMA PassStep == ASSUME IInv, NEW r \in Runs, NEW m \in Msgs, Pass(r, m) PROVE IInv'
  <1>1. contacted' \in [Runs -> SUBSET People]
    BY MarkContactedType DEF Pass, IInv
  <1>2. /\ at[r][m] \in {"read", "early"} /\ at' = [at EXCEPT ![r][m] = "clear"]
        /\ UNCHANGED <<doc, seen, room, wave, db, who, hist>>
    BY DEF Pass, Checking, Place
  <1>3. TypeOK'
    BY <1>1, <1>2 DEF IInv, TypeOK, Places, doc, db, who, hist
  <1>4. LeaseKept' /\ OneHolder'
    BY <1>2 DEF IInv, TypeOK, LeaseKept, OneHolder, Holds, Claimed, Deciding, InFlight, doc
  <1>5. OneCheck' /\ SnapshotReviewed'
    BY <1>2, SendPathAssumption DEF IInv, TypeOK, OneCheck, SnapshotReviewed, Deciding, doc
  <1>6. Explained'
    BY <1>2 DEF IInv, TypeOK, Explained, Told, doc, hist
  <1> QED
    BY <1>3, <1>4, <1>5, <1>6 DEF IInv

LEMMA TurnedStep == ASSUME IInv, NEW r \in Runs, NEW m \in Msgs, Turned(r, m) PROVE IInv'
  <1>1. TypeOK'
    BY SendPathAssumption
    DEF IInv, TypeOK, Release, Place, Places, Statuses, doc, run, db, who, hist, Turned
  <1> QED
    BY <1>1, ReleaseStep DEF Turned, Deciding, doc, run, db, who, hist

LEMMA BrokenStep == ASSUME IInv, NEW r \in Runs, NEW m \in Msgs, Broken(r, m) PROVE IInv'
  <1>1. TypeOK'
    BY SendPathAssumption
    DEF IInv, TypeOK, Release, Place, Places, Statuses, doc, run, db, who, hist, Broken
  <1> QED
    BY <1>1, ReleaseStep DEF Broken, Deciding, doc, run, db, who, hist

LEMMA SkipStep == ASSUME IInv, NEW r \in Runs, NEW m \in Msgs, Skip(r, m) PROVE IInv'
  <1>1. TypeOK'
    BY SendPathAssumption
    DEF IInv, TypeOK, Release, Place, Places, Statuses, doc, run, db, who, hist, Skip, Checking
  <1> QED
    BY <1>1, ReleaseStep DEF Skip, Deciding, doc, run, db, who, hist, Checking

LEMMA DeferStep == ASSUME IInv, NEW r \in Runs, NEW m \in Msgs, Defer(r, m) PROVE IInv'
  <1>1. TypeOK'
    BY SendPathAssumption
    DEF IInv, TypeOK, Release, Place, Places, Statuses, doc, run, db, who, hist, Defer, Checking
  <1> QED
    BY <1>1, ReleaseStep DEF Defer, Deciding, doc, run, db, who, hist, Checking

LEMMA InvalidStep == ASSUME IInv, NEW r \in Runs, NEW m \in Msgs, Invalid(r, m) PROVE IInv'
  <1>1. TypeOK'
    BY SendPathAssumption
    DEF IInv, TypeOK, Release, Place, Places, Statuses, doc, run, db, who, hist, Invalid, Cleared
  <1> QED
    BY <1>1, ReleaseStep DEF Invalid, Deciding, doc, run, db, who, hist, Cleared

LEMMA ParkStep == ASSUME IInv, NEW r \in Runs, NEW m \in Msgs, Park(r, m) PROVE IInv'
  <1>1. TypeOK'
    BY SendPathAssumption
    DEF IInv, TypeOK, Release, Place, Places, Statuses, doc, run, db, who, hist, Park, Cleared
  <1> QED
    BY <1>1, ReleaseStep DEF Park, Deciding, doc, run, db, who, hist, Cleared

LEMMA WindowFullStep == ASSUME IInv, NEW r \in Runs, NEW m \in Msgs, WindowFull(r, m) PROVE IInv'
  <1>1. TypeOK'
    BY SendPathAssumption, LeftType
    DEF IInv, TypeOK, Release, Place, Places, Statuses, doc, run, db, who, hist, WindowFull, Cleared
  <1> QED
    BY <1>1, ReleaseStep DEF WindowFull, Deciding, doc, run, db, who, hist, Cleared

LEMMA NoAdapterStep == ASSUME IInv, NEW r \in Runs, NEW m \in Msgs, NoAdapter(r, m) PROVE IInv'
  <1>1. TypeOK'
    BY SendPathAssumption, LeftType
    DEF IInv, TypeOK, Release, Place, Places, Statuses, doc, run, db, who, hist, NoAdapter, Reserved, Cleared, Busy, Fault
  <1> QED
    BY <1>1, ReleaseStep DEF NoAdapter, Deciding, doc, run, db, who, hist, Reserved, Cleared, Busy, Fault

LEMMA UnsendableStep == ASSUME IInv, NEW r \in Runs, NEW m \in Msgs, Unsendable(r, m) PROVE IInv'
  <1>1. TypeOK'
    BY SendPathAssumption, LeftType
    DEF IInv, TypeOK, Release, Place, Places, Statuses, doc, run, db, who, hist, Unsendable, Reserved, Cleared
  <1>2. PICK s \in {"failed", "skipped"} : Release(r, m, s)
    BY DEF Unsendable
  <1> QED
    BY <1>1, <1>2, ReleaseStep DEF Unsendable, Reserved, Cleared, Deciding, doc, run, db, who, hist

LEMMA LaunchStep == ASSUME IInv, NEW r \in Runs, NEW m \in Msgs, Launch(r, m) PROVE IInv'
  BY SendPathAssumption, LeftType
  DEF TypeOK, Places, Statuses, IInv, LeaseKept, OneHolder, OneCheck, SnapshotReviewed, Explained, Told, Holds, Claimed, Deciding, InFlight, doc, run, db, who, hist, Launch, Reserved, Cleared, ReviewFirst, Place

LEMMA AcceptStep == ASSUME IInv, NEW r \in Runs, NEW m \in Msgs, Accept(r, m) PROVE IInv'
  BY SendPathAssumption, LeftType
  DEF TypeOK, Places, Statuses, IInv, LeaseKept, OneHolder, OneCheck, SnapshotReviewed, Explained, Told, Holds, Claimed, Deciding, InFlight, doc, run, db, who, hist, Accept, Place, Accepted

LEMMA RetryStep == ASSUME IInv, NEW r \in Runs, NEW m \in Msgs, Retry(r, m) PROVE IInv'
  <1>1. TypeOK'
    BY SendPathAssumption
    DEF IInv, TypeOK, Release, Place, Places, Statuses, doc, run, db, who, hist, Retry, Busy, Fault
  <1> QED
    BY <1>1, ReleaseStep DEF Retry, doc, run, db, who, hist

LEMMA RefuseStep == ASSUME IInv, NEW r \in Runs, NEW m \in Msgs, Refuse(r, m) PROVE IInv'
  <1>1. TypeOK'
    BY SendPathAssumption
    DEF IInv, TypeOK, Release, Place, Places, Statuses, doc, run, db, who, hist, Refuse
  <1> QED
    BY <1>1, ReleaseStep DEF Refuse, doc, run, db, who, hist

LEMMA MissType ==
  ASSUME TypeOK, NEW m \in Msgs, Miss({m})
  PROVE  /\ blind' = [blind EXCEPT ![m] = @ + 1]
         /\ leaky' \in SUBSET People
  BY SendPathAssumption DEF TypeOK, Miss

LEMMA AcceptUnheardStep == ASSUME IInv, NEW r \in Runs, NEW m \in Msgs, AcceptUnheard(r, m) PROVE IInv'
  <1>1. PICK s \in {"queued", "failed"} : status' = [status EXCEPT ![m] = s]
    BY DEF AcceptUnheard, Release
  <1>2. at' = [at EXCEPT ![r][m] = "none"]
    BY DEF AcceptUnheard, Release, Place
  <1>3. blind' = [blind EXCEPT ![m] = @ + 1] /\ leaky' \in SUBSET People
    BY MissType DEF AcceptUnheard, IInv
  <1>4. accepted' = [accepted EXCEPT ![m] = @ + 1] /\ UNCHANGED <<reviewed, stale, seen, wave>>
    BY DEF AcceptUnheard, Accepted, doc, run, db, who, hist
  <1>5. at[r][m] \in {"send", "told", "recorded", "spent"}
    BY DEF AcceptUnheard
  <1>6. TypeOK'
    <2>1. room' \in [Runs -> Int] /\ due' \subseteq Msgs /\ faults' \in Nat
      BY DEF IInv, TypeOK, AcceptUnheard, Release, Fault, doc, run, db, who, hist
    <2>2. burst' \subseteq Msgs /\ fresh' \subseteq Msgs /\ flying' \subseteq Msgs /\ late' \subseteq Msgs
      BY DEF IInv, TypeOK, AcceptUnheard, Accepted, Release, doc, run, db, who, hist
    <2>3. UNCHANGED <<contacted, window, recent, spent, replied, ended, suppressed, paused>>
      BY DEF AcceptUnheard, doc, run, db, who, hist
    <2>4. status' \in [Msgs -> Statuses] /\ at' \in [Runs -> [Msgs -> Places]]
      BY <1>1, <1>2 DEF IInv, TypeOK, Places, Statuses
    <2>5. accepted' \in [Msgs -> Nat] /\ blind' \in [Msgs -> Nat]
      BY <1>3, <1>4 DEF IInv, TypeOK
    <2>6. wave' \in [Runs -> 0 .. Concurrency] /\ seen' \in [Runs -> SUBSET Msgs]
            /\ reviewed' \subseteq Msgs /\ stale' \subseteq Msgs
      BY <1>4 DEF IInv, TypeOK
    <2> QED
      BY <1>3, <2>1, <2>2, <2>3, <2>4, <2>5, <2>6 DEF IInv, TypeOK
  <1>7. LeaseKept' /\ OneHolder' /\ OneCheck'
    BY <1>1, <1>2, <1>4, <1>5 DEF IInv, TypeOK, LeaseKept, OneHolder, OneCheck, Holds, Claimed, Deciding, InFlight
  <1>8. SnapshotReviewed'
    BY <1>2, <1>4, <1>5, SendPathAssumption DEF IInv, TypeOK, SnapshotReviewed, AcceptUnheard
  <1>9. Explained'
    BY <1>1, <1>2, <1>3, <1>4, <1>5 DEF IInv, TypeOK, LeaseKept, OneHolder, Explained, Told, Holds, Claimed, Deciding, InFlight, AcceptUnheard
  <1> QED
    BY <1>6, <1>7, <1>8, <1>9 DEF IInv

LEMMA RecordStep == ASSUME IInv, NEW r \in Runs, NEW m \in Msgs, Record(r, m) PROVE IInv'
  BY SendPathAssumption, LeftType
  DEF TypeOK, Places, Statuses, IInv, LeaseKept, OneHolder, OneCheck, SnapshotReviewed, Explained, Told, Holds, Claimed, Deciding, InFlight, doc, run, db, who, hist, Record, Place

LEMMA SpendStep == ASSUME IInv, NEW r \in Runs, NEW m \in Msgs, Spend(r, m) PROVE IInv'
  BY SendPathAssumption, LeftType
  DEF TypeOK, Places, Statuses, IInv, LeaseKept, OneHolder, OneCheck, SnapshotReviewed, Explained, Told, Holds, Claimed, Deciding, InFlight, doc, run, db, who, hist, Spend, Place

LEMMA ContactStep == ASSUME IInv, NEW r \in Runs, NEW m \in Msgs, Contact(r, m) PROVE IInv'
  BY SendPathAssumption, LeftType
  DEF TypeOK, Places, Statuses, IInv, LeaseKept, OneHolder, OneCheck, SnapshotReviewed, Explained, Told, Holds, Claimed, Deciding, InFlight, doc, run, db, who, hist, Contact, Place

LEMMA WriteThrowsStep == ASSUME IInv, NEW r \in Runs, NEW m \in Msgs, WriteThrows(r, m) PROVE IInv'
  <1>1. PICK s \in {"failed"} : status' = [status EXCEPT ![m] = s]
    BY DEF WriteThrows, Release
  <1>2. at' = [at EXCEPT ![r][m] = "none"]
    BY DEF WriteThrows, Release, Place
  <1>3. blind' = [blind EXCEPT ![m] = @ + 1] /\ leaky' \in SUBSET People
    BY MissType DEF WriteThrows, IInv
  <1>4. UNCHANGED accepted /\ UNCHANGED <<reviewed, stale, seen, wave>>
    BY DEF WriteThrows, doc, run, db, who, hist
  <1>5. at[r][m] \in {"send", "told", "recorded", "spent"}
    BY DEF WriteThrows
  <1>6. TypeOK'
    <2>1. room' \in [Runs -> Int] /\ due' \subseteq Msgs /\ faults' \in Nat
      BY DEF IInv, TypeOK, WriteThrows, Fault, doc, run, db, who, hist
    <2>2. burst' \subseteq Msgs /\ fresh' \subseteq Msgs /\ flying' \subseteq Msgs /\ late' \subseteq Msgs
      BY DEF IInv, TypeOK, WriteThrows, Release, doc, run, db, who, hist
    <2>3. UNCHANGED <<contacted, window, recent, spent, replied, ended, suppressed, paused>>
      BY DEF WriteThrows, doc, run, db, who, hist
    <2>4. status' \in [Msgs -> Statuses] /\ at' \in [Runs -> [Msgs -> Places]]
      BY <1>1, <1>2 DEF IInv, TypeOK, Places, Statuses
    <2>5. accepted' \in [Msgs -> Nat] /\ blind' \in [Msgs -> Nat]
      BY <1>3, <1>4 DEF IInv, TypeOK
    <2>6. wave' \in [Runs -> 0 .. Concurrency] /\ seen' \in [Runs -> SUBSET Msgs]
            /\ reviewed' \subseteq Msgs /\ stale' \subseteq Msgs
      BY <1>4 DEF IInv, TypeOK
    <2> QED
      BY <1>3, <2>1, <2>2, <2>3, <2>4, <2>5, <2>6 DEF IInv, TypeOK
  <1>7. LeaseKept' /\ OneHolder' /\ OneCheck'
    BY <1>1, <1>2, <1>4, <1>5 DEF IInv, TypeOK, LeaseKept, OneHolder, OneCheck, Holds, Claimed, Deciding, InFlight
  <1>8. SnapshotReviewed'
    BY <1>2, <1>4, <1>5, SendPathAssumption DEF IInv, TypeOK, SnapshotReviewed, NothingUnread
  <1>9. Explained'
    BY <1>1, <1>2, <1>3, <1>4, <1>5 DEF IInv, TypeOK, LeaseKept, OneHolder, Explained, Told, Holds, Claimed, Deciding, InFlight
  <1> QED
    BY <1>6, <1>7, <1>8, <1>9 DEF IInv

LEMMA StartStep == ASSUME IInv, NEW r \in Runs, Start(r) PROVE IInv'
  <1> USE DEF Start, Idle, Batches, doc, run, db, who, hist
  <1>1. PICK S \in Batches :
          /\ at' = [at EXCEPT ![r] = [m \in Msgs |-> IF m \in S THEN "todo" ELSE "none"]]
          /\ seen' = [seen EXCEPT ![r] = S \intersect reviewed]
    OBVIOUS
  <1>2. TypeOK'
    BY <1>1, SendPathAssumption DEF IInv, TypeOK, Places, Unread
  <1>3. LeaseKept' /\ OneHolder' /\ OneCheck'
    BY <1>1 DEF IInv, TypeOK, LeaseKept, OneHolder, OneCheck, Holds, Claimed, Deciding, InFlight
  <1>4. SnapshotReviewed'
    BY <1>1, SendPathAssumption DEF IInv, TypeOK, SnapshotReviewed, NothingUnread
  <1>5. Explained'
    BY <1>1 DEF IInv, TypeOK, Explained, Told
  <1> QED
    BY <1>2, <1>3, <1>4, <1>5 DEF IInv

LEMMA FlushStep == ASSUME IInv, NEW r \in Runs, Flush(r) PROVE IInv'
  BY SendPathAssumption
  DEF TypeOK, Places, Statuses, IInv, LeaseKept, OneHolder, OneCheck, SnapshotReviewed, Explained, Told, Holds, Claimed, Deciding, InFlight, doc, run, db, who, hist, Flush

LEMMA CrashStep == ASSUME IInv, NEW r \in Runs, Crash(r) PROVE IInv'
  BY SendPathAssumption
  DEF TypeOK, Places, Statuses, IInv, LeaseKept, OneHolder, OneCheck, SnapshotReviewed, Explained, Told, Holds, Claimed, Deciding, InFlight, doc, run, db, who, hist, Crash, Fault

LEMMA ReplyStep == ASSUME IInv, NEW p \in People, Reply(p) PROVE IInv'
  BY SendPathAssumption
  DEF TypeOK, Places, Statuses, IInv, LeaseKept, OneHolder, OneCheck, SnapshotReviewed, Explained, Told, Holds, Claimed, Deciding, InFlight, doc, run, db, who, hist, Reply, PastLook, Mine

LEMMA UnsubscribeStep == ASSUME IInv, NEW p \in People, Unsubscribe(p) PROVE IInv'
  BY SendPathAssumption
  DEF TypeOK, Places, Statuses, IInv, LeaseKept, OneHolder, OneCheck, SnapshotReviewed, Explained, Told, Holds, Claimed, Deciding, InFlight, doc, run, db, who, hist, Unsubscribe, End, Sweep, PastPass, Mine

LEMMA SuppressPersonStep == ASSUME IInv, NEW p \in People, SuppressPerson(p) PROVE IInv'
  BY SendPathAssumption
  DEF TypeOK, Places, Statuses, IInv, LeaseKept, OneHolder, OneCheck, SnapshotReviewed, Explained, Told, Holds, Claimed, Deciding, InFlight, doc, run, db, who, hist, SuppressPerson, End, Sweep, PastPass, Mine

LEMMA VerifiedStep == ASSUME IInv, NEW p \in People, Verified(p) PROVE IInv'
  BY SendPathAssumption
  DEF TypeOK, Places, Statuses, IInv, LeaseKept, OneHolder, OneCheck, SnapshotReviewed, Explained, Told, Holds, Claimed, Deciding, InFlight, doc, run, db, who, hist, Verified, End, Sweep, PastLook, Mine

LEMMA PauseStep == ASSUME IInv, NEW p \in People, Pause(p) PROVE IInv'
  BY SendPathAssumption
  DEF TypeOK, Places, Statuses, IInv, LeaseKept, OneHolder, OneCheck, SnapshotReviewed, Explained, Told, Holds, Claimed, Deciding, InFlight, doc, run, db, who, hist, Pause, Sweep

LEMMA ResumeStep == ASSUME IInv, NEW p \in People, Resume(p) PROVE IInv'
  BY SendPathAssumption
  DEF TypeOK, Places, Statuses, IInv, LeaseKept, OneHolder, OneCheck, SnapshotReviewed, Explained, Told, Holds, Claimed, Deciding, InFlight, doc, run, db, who, hist, Resume

LEMMA GapPassesStep == ASSUME IInv, NEW p \in People, GapPasses(p) PROVE IInv'
  BY SendPathAssumption
  DEF TypeOK, Places, Statuses, IInv, LeaseKept, OneHolder, OneCheck, SnapshotReviewed, Explained, Told, Holds, Claimed, Deciding, InFlight, doc, run, db, who, hist, GapPasses, Mine

LEMMA ApproveStep == ASSUME IInv, NEW m \in Msgs, Approve(m) PROVE IInv'
  BY SendPathAssumption
  DEF TypeOK, Places, Statuses, IInv, LeaseKept, OneHolder, OneCheck, SnapshotReviewed, Explained, Told, Holds, Claimed, Deciding, InFlight, doc, run, db, who, hist, Approve, Decide, Decidable

LEMMA RejectStep == ASSUME IInv, NEW m \in Msgs, Reject(m) PROVE IInv'
  BY SendPathAssumption
  DEF TypeOK, Places, Statuses, IInv, LeaseKept, OneHolder, OneCheck, SnapshotReviewed, Explained, Told, Holds, Claimed, Deciding, InFlight, doc, run, db, who, hist, Reject, Decide, Decidable

LEMMA ReturnToReviewStep == ASSUME IInv, NEW m \in Msgs, ReturnToReview(m) PROVE IInv'
  BY SendPathAssumption
  DEF TypeOK, Places, Statuses, IInv, LeaseKept, OneHolder, OneCheck, SnapshotReviewed, Explained, Told, Holds, Claimed, Deciding, InFlight, doc, run, db, who, hist, ReturnToReview

LEMMA ComesDueStep == ASSUME IInv, NEW m \in Msgs, ComesDue(m) PROVE IInv'
  BY SendPathAssumption
  DEF TypeOK, Places, Statuses, IInv, LeaseKept, OneHolder, OneCheck, SnapshotReviewed, Explained, Told, Holds, Claimed, Deciding, InFlight, doc, run, db, who, hist, ComesDue

LEMMA LeaseAgesStep == ASSUME IInv, NEW m \in Msgs, LeaseAges(m) PROVE IInv'
  BY SendPathAssumption
  DEF TypeOK, Places, Statuses, IInv, LeaseKept, OneHolder, OneCheck, SnapshotReviewed, Explained, Told, Holds, Claimed, Deciding, InFlight, doc, run, db, who, hist, LeaseAges

LEMMA WindowSlidesStep == ASSUME IInv, NEW m \in Msgs, WindowSlides(m) PROVE IInv'
  BY SendPathAssumption
  DEF TypeOK, Places, Statuses, IInv, LeaseKept, OneHolder, OneCheck, SnapshotReviewed, Explained, Told, Holds, Claimed, Deciding, InFlight, doc, run, db, who, hist, WindowSlides

LEMMA StutterStep == ASSUME IInv, UNCHANGED vars PROVE IInv'
  BY DEF TypeOK, vars, IInv, LeaseKept, OneHolder, OneCheck, SnapshotReviewed, Explained, Told, Holds, Claimed, Deciding, InFlight, doc, run, db, who, hist

LEMMA InitIInv == Init => IInv
  BY SendPathAssumption
  DEF Init, TypeOK, Places, Statuses, Unread, IInv, LeaseKept, OneHolder, OneCheck, SnapshotReviewed, Explained, Told, Holds, Claimed, Deciding, InFlight

\* Every action keeps the invariant.
LEMMA NextIInv == IInv /\ [Next]_vars => IInv'
  <1> SUFFICES ASSUME IInv, [Next]_vars PROVE IInv'
    OBVIOUS
  <1>1. CASE \E r \in Runs : Start(r) \/ Flush(r) \/ Crash(r)
    BY <1>1, StartStep, FlushStep, CrashStep
  <1>2. CASE \E r \in Runs, m \in Msgs : Prepare(r, m)
    BY <1>2, ClaimStep, LoseClaimStep, LookStep, TurnedStep, PassStep, SkipStep, DeferStep, BrokenStep, InvalidStep,
       ParkStep, WindowFullStep, NoAdapterStep, UnsendableStep, LaunchStep
    DEF Prepare
  <1>3. CASE \E r \in Runs, m \in Msgs : Dispatch(r, m)
    BY <1>3, AcceptStep, RetryStep, RefuseStep, AcceptUnheardStep, RecordStep,
       SpendStep, ContactStep, WriteThrowsStep
    DEF Dispatch
  <1>4. CASE \E p \in People : Lead(p)
    BY <1>4, ReplyStep, UnsubscribeStep, SuppressPersonStep, VerifiedStep,
       PauseStep, ResumeStep, GapPassesStep
    DEF Lead
  <1>5. CASE \E m \in Msgs : Desk(m)
    BY <1>5, ApproveStep, RejectStep, ReturnToReviewStep,
       ComesDueStep, LeaseAgesStep, WindowSlidesStep
    DEF Desk, Clock
  <1>6. CASE UNCHANGED vars
    BY <1>6, StutterStep
  <1> QED
    BY <1>1, <1>2, <1>3, <1>4, <1>5, <1>6 DEF Next

LEMMA SpecIInv == Spec => []IInv
  BY InitIInv, NextIInv, PTL DEF Spec

\* Every variable keeps its type, and a run never has more sends open than
\* SEND_CONCURRENCY.
THEOREM TypeCorrect == Spec => []TypeOK
  BY SpecIInv, PTL DEF IInv

\* The claim is a lease for any number of overlapping runs: whatever they
\* snapshot, reclaim, defer or lose in a crash, two runs never hold one message.
THEOREM LeaseExclusive == Spec => []OneHolder
  BY SpecIInv, PTL DEF IInv

\* A message is accepted again only after the database missed or misread an
\* acceptance; no interleaving of runs, reviewers and sweeps sends it twice.
THEOREM SentAtMostOnce == Spec => []AtMostOnce
  <1>1. IInv => AtMostOnce
    BY DEF IInv, Explained, AtMostOnce
  <1> QED
    BY <1>1, SpecIInv, PTL

-----------------------------------------------------------------------------
(* Steps of a run before its provider call: it claims, looks, passes,      *)
(* launches, or drops the message.                                         *)

Dropped(r, m) == at[r][m] \in {"todo"} \union Deciding /\ at' = [at EXCEPT ![r][m] = "none"]
Begun(r, m)  == at[r][m] = "todo" /\ at' = [at EXCEPT ![r][m] = "check"]

LEMMA DropShape ==
  ASSUME TypeOK, NEW r \in Runs, NEW m \in Msgs, Prepare(r, m),
         ~Look(r, m), ~Pass(r, m), ~Launch(r, m)
  PROVE  /\ UNCHANGED <<window, spent, recent, accepted, blind, burst, fresh, leaky,
                        seen, contacted, replied, ended, suppressed, late>>
         /\ \/ Dropped(r, m) /\ ((flying' = flying \ {m} /\ at[r][m] \in Deciding)
                                 \/ (flying' = flying /\ at[r][m] = "todo"))
            \/ Begun(r, m) /\ flying' = flying
         /\ \/ room' = room
            \/ room' = [room EXCEPT ![r] = Left(r)]
            \/ Left(r) > 0 /\ room' = [room EXCEPT ![r] = Left(r) - 1]
  <1> USE DEF doc, run, db, who, hist
  <1>1. UNCHANGED <<window, spent, recent, accepted, blind, burst, fresh, leaky,
                    seen, contacted, replied, ended, suppressed, late>>
    BY DEF Prepare, Claim, LoseClaim, Turned, Broken, Skip, Defer, Invalid, Park, WindowFull,
           NoAdapter, Unsendable
  <1>2. \/ Claim(r, m) \/ LoseClaim(r, m)
        \/ (at[r][m] \in Deciding /\ \E s \in Statuses : Release(r, m, s))
    BY DEF Prepare, Turned, Broken, Skip, Defer, Invalid, Park, WindowFull, NoAdapter,
           Unsendable, Checking, Cleared, Reserved, Deciding, Statuses
  <1>3. \/ Dropped(r, m) /\ ((flying' = flying \ {m} /\ at[r][m] \in Deciding)
                              \/ (flying' = flying /\ at[r][m] = "todo"))
        \/ Begun(r, m) /\ flying' = flying
    <2>1. CASE Claim(r, m)
      BY <2>1 DEF Claim, Turn, Place, Begun
    <2>2. CASE LoseClaim(r, m)
      BY <2>2 DEF LoseClaim, Turn, Place, Dropped
    <2>3. CASE at[r][m] \in Deciding /\ \E s \in Statuses : Release(r, m, s)
      <3>1. PICK s \in Statuses : Release(r, m, s)
        BY <2>3
      <3>2. flying' = flying \ {m} /\ at' = [at EXCEPT ![r][m] = "none"]
        BY <3>1 DEF Release, Place
      <3> QED
        BY <2>3, <3>2 DEF Dropped
    <2> QED
      BY <1>2, <2>1, <2>2, <2>3
  <1>4. \/ room' = room
        \/ room' = [room EXCEPT ![r] = Left(r)]
        \/ Left(r) > 0 /\ room' = [room EXCEPT ![r] = Left(r) - 1]
    BY DEF Prepare, Claim, LoseClaim, Turned, Broken, Skip, Defer, Invalid, Park, WindowFull,
           NoAdapter, Unsendable, Reserved
  <1> QED
    BY <1>1, <1>3, <1>4

LEMMA LookShape ==
  ASSUME TypeOK, NEW r \in Runs, NEW m \in Msgs, Look(r, m)
  PROVE  /\ UNCHANGED <<window, spent, recent, accepted, blind, burst, fresh, leaky,
                        seen, contacted, room, replied, ended, suppressed, late, flying>>
         /\ at[r][m] = "check" /\ ~Closed(m)
         /\ spent[Owner[m]] < Budget
         /\ \E q \in {"read", "early"} :
              /\ at' = [at EXCEPT ![r][m] = q]
              /\ q = "read" /\ m \notin Replies /\ ~ReviewFirst(r, m) => Owner[m] \notin recent
  <1>1. spent[Owner[m]] < Budget
    <2>1. spent[Owner[m]] \in Nat /\ Budget \in Nat /\ ~(spent[Owner[m]] >= Budget)
      BY SendPathAssumption DEF Look, Verdict, TypeOK
    <2> QED
      BY <2>1
  <1>2. PICK q \in {"read", "early"} :
          /\ q = IF m \notin Replies /\ Owner[m] \in recent /\ ~ReviewFirst(r, m)
                 THEN "early" ELSE "read"
          /\ at' = [at EXCEPT ![r][m] = q]
    BY DEF Look, Place
  <1>3. /\ UNCHANGED <<window, spent, recent, accepted, blind, burst, fresh, leaky,
                       seen, contacted, room, replied, ended, suppressed, late, flying>>
        /\ at[r][m] = "check" /\ ~Closed(m)
    BY DEF Look, Verdict, doc, db, who, hist
  <1>4. q = "read" /\ m \notin Replies /\ ~ReviewFirst(r, m) => Owner[m] \notin recent
    BY <1>2
  <1>5. \E p \in {"read", "early"} :
          /\ at' = [at EXCEPT ![r][m] = p]
          /\ p = "read" /\ m \notin Replies /\ ~ReviewFirst(r, m) => Owner[m] \notin recent
    <2> WITNESS q \in {"read", "early"}
    <2> QED
      BY <1>2, <1>4
  <1> QED
    BY <1>1, <1>3, <1>5

LEMMA PassShape ==
  ASSUME TypeOK, NEW r \in Runs, NEW m \in Msgs, Pass(r, m)
  PROVE  /\ UNCHANGED <<window, spent, recent, accepted, blind, burst, fresh, leaky,
                        seen, room, replied, ended, suppressed, late, flying>>
         /\ at[r][m] \in {"read", "early"} /\ ~Barred(m)
         /\ at' = [at EXCEPT ![r][m] = "clear"]
         /\ contacted' \in [Runs -> SUBSET People] /\ contacted[r] \subseteq contacted'[r]
         /\ \A q \in Runs \ {r} : contacted'[q] = contacted[q]
         /\ m \in Replies \/ ReviewFirst(r, m) => contacted' = contacted
         /\ m \notin Replies /\ ~ReviewFirst(r, m) =>
              at[r][m] = "read" /\ Owner[m] \in contacted'[r] \ contacted[r]
  <1>1. /\ UNCHANGED <<window, spent, recent, accepted, blind, burst, fresh, leaky,
                       seen, room, replied, ended, suppressed, late, flying>>
        /\ at[r][m] \in {"read", "early"} /\ ~Barred(m)
        /\ at' = [at EXCEPT ![r][m] = "clear"]
    BY DEF Pass, Checking, Place, doc, db, who, hist
  <1>2. /\ contacted' = IF m \in Replies \/ ReviewFirst(r, m) THEN contacted
                        ELSE [contacted EXCEPT ![r] = @ \union {Owner[m]}]
        /\ ReviewFirst(r, m) \/ ~InGap(r, m)
    BY DEF Pass, MarkContacted
  <1>3. Owner[m] \in People
    BY SendPathAssumption
  <1>4. CASE m \in Replies \/ ReviewFirst(r, m)
    BY <1>1, <1>2, <1>4 DEF TypeOK
  <1>5. CASE ~(m \in Replies \/ ReviewFirst(r, m))
    BY <1>1, <1>2, <1>3, <1>5 DEF TypeOK, InGap
  <1> QED
    BY <1>4, <1>5

LEMMA LaunchShape ==
  ASSUME TypeOK, NEW r \in Runs, NEW m \in Msgs, Launch(r, m)
  PROVE  /\ UNCHANGED <<window, spent, recent, accepted, blind, burst, fresh, leaky,
                        seen, contacted, replied, ended, suppressed, late, flying>>
         /\ at[r][m] = "clear" /\ at' = [at EXCEPT ![r][m] = "send"]
         /\ ~ReviewFirst(r, m)
         /\ Left(r) > 0 /\ room' = [room EXCEPT ![r] = Left(r) - 1]
  BY DEF Launch, Reserved, Cleared, Place, doc, db, who, hist

-----------------------------------------------------------------------------
(* Stopped leads: what is still on its way to one passed the check before. *)

StopInv ==
    /\ \A r \in Runs, m \in Msgs :
         /\ at[r][m] \in {"clear", "send"} /\ Stopped(m) => m \in flying
         /\ at[r][m] \in {"read", "early"} /\ Closed(m) => m \in flying \/ Barred(m)
    /\ late = {}

\* A run leaves other runs' messages alone, looks only past a lead whose
\* campaign is open, and passes only one who is not barred.
LEMMA PrepareStop ==
  ASSUME IInv, StopInv, NEW r \in Runs, NEW m \in Msgs, Prepare(r, m)
  PROVE  StopInv'
  <1>t. TypeOK
    BY DEF IInv
  <1>a. at[r][m] \in Deciding => \A q \in Runs : at[q][m] \in Claimed => q = r
    BY DEF IInv, OneHolder, Holds, Claimed
  <1>1. CASE Look(r, m)
    <2>1. PICK q \in {"read", "early"} : at' = [at EXCEPT ![r][m] = q]
      BY <1>t, <1>1, LookShape
    <2> QED
      BY <1>t, <1>1, <2>1, LookShape DEF StopInv, Stopped, Closed, Barred, TypeOK
  <1>2. CASE Pass(r, m)
    <2>1. /\ UNCHANGED <<replied, ended, suppressed, late, flying>>
          /\ at[r][m] \in {"read", "early"} /\ ~Barred(m)
          /\ at' = [at EXCEPT ![r][m] = "clear"]
      BY <1>t, <1>2, PassShape
    <2>2. Stopped(m) => m \in flying
      BY <2>1 DEF StopInv, Stopped
    <2>3. at'[r][m] = "clear" /\ \A q \in Runs, n \in Msgs : q # r \/ n # m => at'[q][n] = at[q][n]
      BY <1>t, <2>1 DEF TypeOK
    <2> QED
      BY <2>1, <2>2, <2>3 DEF StopInv, Stopped, Closed, Barred
  <1>3. CASE Launch(r, m)
    <2>1. /\ UNCHANGED <<replied, ended, suppressed, late, flying>>
          /\ at[r][m] = "clear" /\ at' = [at EXCEPT ![r][m] = "send"]
      BY <1>t, <1>3, LaunchShape
    <2>3. at'[r][m] = "send" /\ \A q \in Runs, n \in Msgs : q # r \/ n # m => at'[q][n] = at[q][n]
      BY <1>t, <2>1 DEF TypeOK
    <2> QED
      BY <2>1, <2>3 DEF StopInv, Stopped, Closed, Barred
  <1>4. CASE ~Look(r, m) /\ ~Pass(r, m) /\ ~Launch(r, m)
    <2>1. UNCHANGED <<replied, ended, suppressed, late>>
      BY <1>t, <1>4, DropShape
    <2>2. CASE Begun(r, m) /\ flying' = flying
      BY <1>t, <2>1, <2>2 DEF Begun, StopInv, Stopped, Closed, Barred, TypeOK
    <2>3. CASE Dropped(r, m) /\ flying' = flying
      BY <1>t, <2>1, <2>3 DEF Dropped, StopInv, Stopped, Closed, Barred, TypeOK
    <2>4. CASE Dropped(r, m) /\ flying' = flying \ {m} /\ at[r][m] \in Deciding
      <3>1. \A q \in Runs : at'[q][m] \notin Claimed
        BY <1>t, <1>a, <2>4 DEF Dropped, TypeOK, Claimed, Deciding, InFlight
      <3>2. \A q \in Runs, n \in Msgs \ {m} : at'[q][n] = at[q][n] /\ (n \in flying' <=> n \in flying)
        BY <1>t, <2>4 DEF Dropped, TypeOK
      <3> QED
        BY <2>1, <3>1, <3>2 DEF StopInv, Stopped, Closed, Barred, Claimed, Deciding, InFlight
    <2> QED
      BY <1>t, <1>4, <2>2, <2>3, <2>4, DropShape
  <1> QED
    BY <1>1, <1>2, <1>3, <1>4

LEMMA DispatchStop ==
  ASSUME IInv, StopInv, NEW r \in Runs, NEW m \in Msgs, Dispatch(r, m)
  PROVE  StopInv'
  <1> USE DEF doc, run, db, who, hist
  <1>1. UNCHANGED <<replied, ended, suppressed>>
    BY DEF Dispatch, Accept, Retry, Refuse, AcceptUnheard, Record, Spend, Contact,
           WriteThrows
  <1>2. PICK q \in {"none", "told", "recorded", "spent"} : at' = [at EXCEPT ![r][m] = q]
    BY DEF Dispatch, Accept, Retry, Refuse, AcceptUnheard, Record, Spend, Contact,
           WriteThrows, Release, Place
  <1>3. /\ at[r][m] \in InFlight
        /\ flying' = flying \/ flying' = flying \ {m}
        /\ \/ UNCHANGED late
           \/ /\ at[r][m] = "send"
              /\ late' = IF Stopped(m) /\ m \notin flying THEN late \union {m} ELSE late
    BY DEF Dispatch, Accept, Retry, Refuse, AcceptUnheard, Record, Spend, Contact,
           WriteThrows, Accepted, Release, InFlight
  <1>4. UNCHANGED late
    BY <1>3 DEF StopInv
  <1>5. \A p \in Runs : at[p][m] \in Claimed => p = r
    BY <1>3 DEF IInv, OneHolder, Holds, Claimed
  <1>6. \A p \in Runs : at'[p][m] \notin Deciding \union {"send"}
    BY <1>2, <1>5 DEF IInv, TypeOK, Claimed, Deciding, InFlight
  <1>7. \A p \in Runs, n \in Msgs \ {m} : at'[p][n] = at[p][n] /\ (n \in flying => n \in flying')
    BY <1>2, <1>3 DEF IInv, TypeOK
  <1> QED
    BY <1>1, <1>4, <1>6, <1>7 DEF StopInv, Stopped, Closed, Barred, Deciding

LEMMA LeadStop ==
  ASSUME IInv, StopInv, NEW p \in People, Lead(p)
  PROVE  StopInv'
  <1> USE DEF doc, run, db, who, hist
  <1>1. UNCHANGED <<at, late>>
    BY DEF Lead, Reply, Unsubscribe, SuppressPerson, Verified, End, Pause, Resume, GapPasses
  <1>2. \/ UNCHANGED <<replied, ended, suppressed, flying>>
        \/ /\ flying' = flying \union PastLook(p)
           /\ replied' \subseteq replied \union {p}
           /\ ended' \subseteq ended \union {p}
           /\ UNCHANGED suppressed
        \/ /\ flying' = flying \union PastPass(p)
           /\ UNCHANGED replied
           /\ ended' \subseteq ended \union {p}
           /\ suppressed' = suppressed \union {p}
    BY DEF Lead, Reply, Unsubscribe, SuppressPerson, Verified, End, Pause, Resume, GapPasses
  <1>3. CASE UNCHANGED <<replied, ended, suppressed, flying>>
    BY <1>1, <1>3 DEF StopInv, Stopped, Closed, Barred
  <1>4. CASE /\ flying' = flying \union PastLook(p)
             /\ replied' \subseteq replied \union {p}
             /\ ended' \subseteq ended \union {p}
             /\ UNCHANGED suppressed
    BY <1>1, <1>4 DEF StopInv, Stopped, Closed, Barred, PastLook, Mine
  <1>5. CASE /\ flying' = flying \union PastPass(p)
             /\ UNCHANGED replied
             /\ ended' \subseteq ended \union {p}
             /\ suppressed' = suppressed \union {p}
    BY <1>1, <1>5 DEF StopInv, Stopped, Closed, Barred, PastPass, Mine
  <1> QED
    BY <1>2, <1>3, <1>4, <1>5

LEMMA StartStop ==
  ASSUME IInv, StopInv, NEW r \in Runs, Start(r) \/ Flush(r) \/ Crash(r)
  PROVE  StopInv'
  <1>1. UNCHANGED <<replied, ended, suppressed, late>>
    BY DEF Start, Flush, Crash, doc, run, db, who, hist
  <1>2. \A q \in Runs, m \in Msgs : at'[q][m] \in Claimed => at'[q][m] = at[q][m]
    <2>1. CASE Start(r)
      BY <2>1 DEF Start, IInv, TypeOK, Claimed, Deciding, InFlight
    <2>2. CASE Flush(r)
      BY <2>2 DEF Flush
    <2>3. CASE Crash(r)
      BY <2>3 DEF Crash, IInv, TypeOK, Claimed, Deciding, InFlight
    <2> QED
      BY <2>1, <2>2, <2>3
  <1>3. \A m \in flying : m \in flying' \/ (at[r][m] \in Claimed /\ at'[r][m] = "none")
    <2>1. CASE Start(r) \/ Flush(r)
      BY <2>1 DEF Start, Flush, hist
    <2>2. CASE Crash(r)
      BY <2>2 DEF Crash, IInv, TypeOK
    <2> QED
      BY <2>1, <2>2
  <1>4. \A m \in Msgs, q \in Runs : at[r][m] \in Claimed /\ at[q][m] \in Claimed => q = r
    BY DEF IInv, OneHolder, Holds
  <1>5. {"read", "early", "clear", "send"} \subseteq Claimed /\ "none" \notin Claimed
    BY DEF Claimed, Deciding, InFlight
  <1> QED
    BY <1>1, <1>2, <1>3, <1>4, <1>5 DEF StopInv, Stopped, Closed, Barred

LEMMA DeskStop ==
  ASSUME IInv, StopInv, NEW m \in Msgs, Desk(m)
  PROVE  StopInv'
  BY DEF Desk, Clock, Approve, Reject, Decide, ReturnToReview, ComesDue, LeaseAges, WindowSlides,
         StopInv, Stopped, Closed, Barred, doc, run, db, who, hist

\* For any number of overlapping runs: no campaign message reaches a lead who
\* replied, and none at all a lead who opted out or was won, but one that was
\* past the check of just that when it happened.
THEOREM StoppedLeadsRest == Spec => []StoppedStaysStopped
  <1>1. Init => StopInv
    BY DEF Init, StopInv, Stopped, Closed, Barred
  <1>2. IInv /\ StopInv /\ [Next]_vars => StopInv'
    <2> SUFFICES ASSUME IInv, StopInv, [Next]_vars PROVE StopInv'
      OBVIOUS
    <2>1. CASE Next
      BY <2>1, StartStop, PrepareStop, DispatchStop, LeadStop, DeskStop DEF Next
    <2>2. CASE UNCHANGED vars
      BY <2>2 DEF vars, StopInv, Stopped, Closed, Barred, doc, run, db, who, hist
    <2> QED
      BY <2>1, <2>2
  <1>3. StopInv => StoppedStaysStopped
    BY DEF StopInv, StoppedStaysStopped
  <1> QED
    BY <1>1, <1>2, <1>3, SpecIInv, PTL DEF Spec

\* Every step before the provider call but the launch.
LEMMA PrepareShape ==
  ASSUME TypeOK, NEW r \in Runs, NEW m \in Msgs, Prepare(r, m), ~Launch(r, m)
  PROVE  /\ UNCHANGED <<window, spent, recent, accepted, blind, burst, fresh, leaky, seen>>
         /\ at[r][m] \in {"todo"} \union Deciding
         /\ \E q \in {"none"} \union Deciding : at' = [at EXCEPT ![r][m] = q]
         /\ \/ room' = room
            \/ room' = [room EXCEPT ![r] = Left(r)]
            \/ Left(r) > 0 /\ room' = [room EXCEPT ![r] = Left(r) - 1]
  <1>1. CASE Look(r, m)
    BY <1>1, LookShape DEF Deciding
  <1>2. CASE Pass(r, m)
    BY <1>2, PassShape DEF Deciding
  <1>3. CASE ~Look(r, m) /\ ~Pass(r, m)
    <2>1. Dropped(r, m) \/ Begun(r, m)
      BY <1>3, DropShape
    <2>2. /\ at[r][m] \in {"todo"} \union Deciding
          /\ \E q \in {"none"} \union Deciding : at' = [at EXCEPT ![r][m] = q]
      BY <2>1 DEF Dropped, Begun, Deciding
    <2> QED
      BY <1>3, <2>2, DropShape
  <1> QED
    BY <1>1, <1>2, <1>3

-----------------------------------------------------------------------------
(* One run at a time: the gap, the channel's limit, the touch budget.      *)

\* Runs do not overlap.
OneRun == \A r, q \in Runs : r = q

\* What the writes of a missed acceptance leave.
LEMMA Missed ==
  ASSUME TypeOK, NEW m \in Msgs, Miss({m})
  PROVE  /\ leaky' = leaky \union {Owner[m]}
         /\ blind' = [blind EXCEPT ![m] = @ + 1]
  BY MissType DEF Miss

\* On its way to the provider, or with it: the gap is taken.
Going(r, m) == at[r][m] = "send" \/ (at[r][m] = "clear" /\ ~ReviewFirst(r, m))
Away(r, m)  == Going(r, m) \/ at[r][m] \in {"told", "recorded", "spent"}

\* What is on its way took its person's gap; who was contacted is on record,
\* on the way or leaky; only one message of a person is either; and a message
\* read outside the gap stays outside it until the run contacts the person.
InGapNow(m) == m \in fresh \/ \E r \in Runs : Going(r, m)

GapInv ==
    /\ \A r \in Runs, m \in Msgs \ Replies : Away(r, m) => Owner[m] \in contacted[r]
    /\ fresh \cap Replies = {}
    /\ \A m \in fresh : \/ Owner[m] \in leaky \union recent
                        \/ \E r \in Runs : at[r][m] \in {"told", "recorded", "spent"}
    /\ \A m, n \in Msgs \ Replies :
        Owner[m] = Owner[n] /\ Owner[m] \notin leaky /\ InGapNow(m) /\ InGapNow(n) => m = n
    /\ \A r \in Runs, m \in Msgs \ Replies :
        at[r][m] = "read" /\ ~ReviewFirst(r, m) /\ Owner[m] \notin contacted[r] \union leaky =>
          \A n \in fresh : Owner[n] # Owner[m]

\* A step that opens nothing, contacts nobody and forgets nobody it read.
LEMMA QuietGap ==
  ASSUME TypeOK, GapInv, UNCHANGED <<fresh, recent, contacted, leaky>>,
         \A r \in Runs, n \in Msgs :
           /\ Going(r, n)' => Going(r, n)
           /\ at'[r][n] \in {"told", "recorded", "spent"} <=> at[r][n] \in {"told", "recorded", "spent"}
           /\ at'[r][n] = "read" /\ ~ReviewFirst(r, n)' => at[r][n] = "read" /\ ~ReviewFirst(r, n)
  PROVE  GapInv'
  <1>1. \A n \in Msgs : InGapNow(n)' => InGapNow(n)
    BY DEF InGapNow
  <1>2. \A p \in Runs, n \in Msgs \ Replies : Away(p, n)' => Owner[n] \in contacted'[p]
    BY DEF GapInv, Away
  <1>3. \A n \in fresh' : \/ Owner[n] \in leaky' \union recent'
                          \/ \E p \in Runs : at'[p][n] \in {"told", "recorded", "spent"}
    BY DEF GapInv, TypeOK
  <1>4. \A p \in Runs, n \in Msgs \ Replies :
          at'[p][n] = "read" /\ ~ReviewFirst(p, n)' /\ Owner[n] \notin contacted'[p] \union leaky' =>
            \A k \in fresh' : Owner[k] # Owner[n]
    BY DEF GapInv
  <1>5. \A k, n \in Msgs \ Replies :
           Owner[k] = Owner[n] /\ Owner[k] \notin leaky' /\ InGapNow(k)' /\ InGapNow(n)' => k = n
    BY <1>1 DEF GapInv
  <1> QED
    BY <1>2, <1>3, <1>4, <1>5 DEF GapInv

LEMMA LookGap ==
  ASSUME OneRun, TypeOK, GapInv, NEW r \in Runs, NEW m \in Msgs, Look(r, m) PROVE GapInv'
  <1>1. UNCHANGED <<recent, fresh, leaky, contacted, seen>> /\ at[r][m] = "check"
    BY LookShape
  <1>2. PICK q \in {"read", "early"} :
          /\ at' = [at EXCEPT ![r][m] = q]
          /\ q = "read" /\ m \notin Replies /\ ~ReviewFirst(r, m) => Owner[m] \notin recent
    BY LookShape
  <1>3. \A n \in Msgs : at'[r][n] = IF n = m THEN q ELSE at[r][n]
    BY <1>2 DEF TypeOK
  <1>4. \A n \in Msgs : /\ Going(r, n)' <=> Going(r, n)
                        /\ at'[r][n] \in {"told", "recorded", "spent"} <=> at[r][n] \in {"told", "recorded", "spent"}
                        /\ ReviewFirst(r, n)' <=> ReviewFirst(r, n)
    BY <1>1, <1>3 DEF Going, ReviewFirst
  <1>5. ASSUME q = "read", m \notin Replies, ~ReviewFirst(r, m), Owner[m] \notin contacted[r] \union leaky,
               NEW n \in fresh, Owner[n] = Owner[m]
        PROVE  FALSE
    <2>1. n \in Msgs \ Replies /\ Owner[m] \notin recent
      BY <1>2, <1>5 DEF GapInv, TypeOK
    <2>2. PICK p \in Runs : at[p][n] \in {"told", "recorded", "spent"}
      BY <1>5, <2>1 DEF GapInv
    <2>3. p = r
      BY DEF OneRun
    <2> QED
      BY <1>5, <2>1, <2>2, <2>3 DEF GapInv, Away
  <1>6. \A p \in Runs : p = r
    BY DEF OneRun
  <1>7. \A n \in Msgs : InGapNow(n)' <=> InGapNow(n)
    BY <1>1, <1>4, <1>6 DEF InGapNow
  <1>8. \A p \in Runs, n \in Msgs \ Replies : Away(p, n)' => Owner[n] \in contacted'[p]
    BY <1>1, <1>4, <1>6 DEF GapInv, Away
  <1>9. \A n \in fresh' : \/ Owner[n] \in leaky' \union recent'
                          \/ \E p \in Runs : at'[p][n] \in {"told", "recorded", "spent"}
    BY <1>1, <1>4, <1>6 DEF GapInv, TypeOK
  <1>10. \A p \in Runs, n \in Msgs \ Replies :
          at'[p][n] = "read" /\ ~ReviewFirst(p, n)' /\ Owner[n] \notin contacted'[p] \union leaky' =>
            \A k \in fresh' : Owner[k] # Owner[n]
    BY <1>1, <1>3, <1>4, <1>5, <1>6 DEF GapInv
  <1> QED
    BY <1>1, <1>7, <1>8, <1>9, <1>10 DEF GapInv

LEMMA PassGap ==
  ASSUME OneRun, TypeOK, GapInv, NEW r \in Runs, NEW m \in Msgs, Pass(r, m) PROVE GapInv'
  <1>1. /\ UNCHANGED <<recent, fresh, leaky, seen>> /\ at[r][m] \in {"read", "early"}
        /\ at' = [at EXCEPT ![r][m] = "clear"]
        /\ contacted[r] \subseteq contacted'[r]
        /\ m \notin Replies /\ ~ReviewFirst(r, m) =>
             at[r][m] = "read" /\ Owner[m] \in contacted'[r] \ contacted[r]
    BY PassShape
  <1>2. \A n \in Msgs : at'[r][n] = IF n = m THEN "clear" ELSE at[r][n]
    BY <1>1 DEF TypeOK
  <1>3. \A p \in Runs : p = r
    BY DEF OneRun
  <1>4. \A n \in Msgs : ReviewFirst(r, n)' <=> ReviewFirst(r, n)
    BY <1>1 DEF ReviewFirst
  <1>5. \A n \in Msgs : Going(r, n)' <=> Going(r, n) \/ (n = m /\ ~ReviewFirst(r, m))
    BY <1>1, <1>2, <1>4 DEF Going
  <1>6. ASSUME NEW n \in Msgs \ Replies, m \notin Replies, ~ReviewFirst(r, m),
               Owner[n] = Owner[m], Owner[m] \notin leaky, InGapNow(n)
        PROVE  FALSE
    <2>1. CASE n \in fresh
      BY <1>1, <1>6, <2>1 DEF GapInv
    <2>2. CASE Going(r, n)
      BY <1>1, <1>6, <2>2 DEF GapInv, Away
    <2> QED
      BY <1>3, <1>6, <2>1, <2>2 DEF InGapNow
  <1>7. \A n \in Msgs : InGapNow(n)' => InGapNow(n) \/ (n = m /\ ~ReviewFirst(r, m))
    BY <1>1, <1>3, <1>5 DEF InGapNow
  <1>8. \A p \in Runs, n \in Msgs \ Replies : Away(p, n)' => Owner[n] \in contacted'[p]
    BY <1>1, <1>2, <1>3, <1>5 DEF GapInv, Away
  <1>9. \A n \in fresh' : \/ Owner[n] \in leaky' \union recent'
                          \/ \E p \in Runs : at'[p][n] \in {"told", "recorded", "spent"}
    BY <1>1, <1>2, <1>3 DEF GapInv, TypeOK
  <1>10. \A p \in Runs, n \in Msgs \ Replies :
          at'[p][n] = "read" /\ ~ReviewFirst(p, n)' /\ Owner[n] \notin contacted'[p] \union leaky' =>
            \A k \in fresh' : Owner[k] # Owner[n]
    BY <1>1, <1>2, <1>3, <1>4 DEF GapInv
  <1>11. \A k, n \in Msgs \ Replies :
           Owner[k] = Owner[n] /\ Owner[k] \notin leaky' /\ InGapNow(k)' /\ InGapNow(n)' => k = n
    <2> TAKE k, n \in Msgs \ Replies
    <2> HAVE Owner[k] = Owner[n] /\ Owner[k] \notin leaky' /\ InGapNow(k)' /\ InGapNow(n)'
    <2>1. CASE k # m /\ n # m
      BY <1>1, <1>7, <2>1 DEF GapInv
    <2>2. CASE k = m \/ n = m
      BY <1>1, <1>6, <1>7, <2>2 DEF GapInv
    <2> QED
      BY <2>1, <2>2
  <1> QED
    BY <1>1, <1>8, <1>9, <1>10, <1>11 DEF GapInv

LEMMA PrepareGap ==
  ASSUME OneRun, TypeOK, GapInv, NEW r \in Runs, NEW m \in Msgs, Prepare(r, m) PROVE GapInv'
  <1>1. \A p \in Runs : p = r
    BY DEF OneRun
  <1>2. CASE Launch(r, m)
    <2>1. /\ UNCHANGED <<recent, fresh, leaky, contacted, seen>> /\ ~ReviewFirst(r, m)
          /\ at[r][m] = "clear" /\ at' = [at EXCEPT ![r][m] = "send"]
      BY <1>2, LaunchShape
    <2>2. \A n \in Msgs : at'[r][n] = IF n = m THEN "send" ELSE at[r][n]
      BY <2>1 DEF TypeOK
    <2> QED
      BY <1>1, <2>1, <2>2, QuietGap DEF Going, ReviewFirst
  <1>3. CASE ~Look(r, m) /\ ~Pass(r, m) /\ ~Launch(r, m)
    <2>1. UNCHANGED <<recent, fresh, leaky, contacted, seen>>
      BY <1>3, DropShape
    <2>2. Dropped(r, m) \/ Begun(r, m)
      BY <1>3, DropShape
    <2>3. at[r][m] \in {"todo"} \union Deciding
      BY <2>2 DEF Dropped, Begun
    <2>4. PICK q \in {"check", "none"} : at' = [at EXCEPT ![r][m] = q]
      BY <2>2 DEF Dropped, Begun
    <2>5. \A n \in Msgs : at'[r][n] = IF n = m THEN q ELSE at[r][n]
      BY <2>4 DEF TypeOK
    <2>6. \A n \in Msgs : ReviewFirst(r, n)' <=> ReviewFirst(r, n)
      BY <2>1 DEF ReviewFirst
    <2> QED
      BY <1>1, <2>1, <2>3, <2>5, <2>6, QuietGap DEF Going, Deciding
  <1> QED
    BY <1>2, <1>3, LookGap, PassGap

\* What a send does: it moves on, or is dropped and known to be missed.
LEMMA DispatchGap ==
  ASSUME OneRun, TypeOK, GapInv, NEW r \in Runs, NEW m \in Msgs, Dispatch(r, m) PROVE GapInv'
  <1> USE DEF doc, run, db, who, hist
  <1>1. UNCHANGED contacted /\ at[r][m] \in InFlight
    BY DEF Dispatch, Accept, Retry, Refuse, AcceptUnheard, Record, Spend, Contact,
           WriteThrows, InFlight
  <1>2. PICK q \in {"none", "told", "recorded", "spent"} :
          /\ at' = [at EXCEPT ![r][m] = q]
          /\ \/ UNCHANGED <<fresh, leaky>> /\ q = "none" /\ at[r][m] = "send" /\ UNCHANGED recent
             \/ q = "told" /\ at[r][m] = "send" /\ UNCHANGED <<leaky, recent>>
                /\ fresh' = IF m \in Replies THEN fresh ELSE fresh \union {m}
             \/ UNCHANGED <<fresh, leaky, recent>> /\ q \in {"recorded", "spent"} /\ at[r][m] # "send"
             \/ UNCHANGED <<fresh, leaky>> /\ at[r][m] # "send" /\ recent' = recent \union {Owner[m]}
             \/ /\ leaky' = leaky \union {Owner[m]} /\ UNCHANGED recent
                /\ fresh' = fresh \/ fresh' = IF m \in Replies THEN fresh ELSE fresh \union {m}
    BY Missed DEF Dispatch, Accept, Retry, Refuse, AcceptUnheard, Record, Spend, Contact,
           WriteThrows, Release, Place, Accepted
  <1>3. \A n \in Msgs : at'[r][n] = IF n = m THEN q ELSE at[r][n]
    BY <1>2 DEF TypeOK
  <1>0. /\ \A p \in Runs : p = r
        /\ \A n \in Msgs : ReviewFirst(r, n)' <=> ReviewFirst(r, n)
    BY DEF OneRun, ReviewFirst, Dispatch, Accept, Retry, Refuse, AcceptUnheard, Record, Spend, Contact,
           WriteThrows
  <1>4. \A n \in Msgs : InGapNow(n)' => InGapNow(n) \/ (n = m /\ Owner[m] \in leaky')
    <2> TAKE n \in Msgs
    <2>1. \A p \in Runs : p = r
      BY DEF OneRun
    <2>2. Going(r, n)' => Going(r, n)
      BY <1>0, <1>2, <1>3 DEF Going
    <2>3. n \in fresh' => n \in fresh \/ (n = m /\ (at[r][m] = "send" \/ Owner[m] \in leaky'))
      BY <1>2
    <2>4. CASE n \in fresh'
      BY <2>3, <2>4 DEF InGapNow, Going
    <2>5. CASE \E p \in Runs : Going(p, n)'
      BY <2>1, <2>2, <2>5 DEF InGapNow
    <2> QED
      BY <2>4, <2>5 DEF InGapNow
  <1>5. \A p \in Runs, n \in Msgs \ Replies : Away(p, n)' => Owner[n] \in contacted'[p]
    <2>1. \A n \in Msgs : Away(r, n)' => Away(r, n)
      BY <1>0, <1>1, <1>3 DEF Away, Going, InFlight
    <2> QED
      BY <1>0, <1>1, <2>1 DEF GapInv
  <1>6. \A n \in fresh' : \/ Owner[n] \in leaky' \union recent'
                          \/ \E p \in Runs : at'[p][n] \in {"told", "recorded", "spent"}
    BY <1>2, <1>3 DEF GapInv, OneRun
  <1>7. fresh' \cap Replies = {} /\ leaky \subseteq leaky'
    BY <1>2 DEF GapInv
  <1>8. \A k, n \in Msgs \ Replies :
           Owner[k] = Owner[n] /\ Owner[k] \notin leaky' /\ InGapNow(k)' /\ InGapNow(n)' => k = n
    BY <1>4, <1>7 DEF GapInv
  <1>9. \A n \in fresh' : n \in fresh \/ (n \notin Replies /\ Owner[n] \in contacted[r])
    <2>1. \A n \in fresh' : n \in fresh \/ (n = m /\ m \notin Replies)
      BY <1>2
    <2> QED
      BY <1>1, <2>1 DEF GapInv, Away, Going, InFlight
  <1>10. \A p \in Runs, n \in Msgs \ Replies :
          at'[p][n] = "read" /\ ~ReviewFirst(p, n)' /\ Owner[n] \notin contacted'[p] \union leaky' =>
            \A k \in fresh' : Owner[k] # Owner[n]
    <2>1. \A n \in Msgs : at'[r][n] = "read" => at[r][n] = "read"
      BY <1>2, <1>3
    <2> QED
      BY <1>0, <1>1, <1>7, <1>9, <2>1 DEF GapInv
  <1> QED
    BY <1>5, <1>6, <1>7, <1>8, <1>10 DEF GapInv

LEMMA RunGap ==
  ASSUME OneRun, TypeOK, GapInv, NEW r \in Runs, Start(r) \/ Flush(r) \/ Crash(r) PROVE GapInv'
  <1> USE DEF doc, run, db, who, hist
  <1>0. \A p \in Runs : p = r
    BY DEF OneRun
  <1>1. CASE Flush(r)
    <2>1. UNCHANGED <<at, seen, fresh, recent, contacted, leaky>>
      BY <1>1 DEF Flush
    <2> QED
      BY <2>1, QuietGap DEF Going, ReviewFirst
  <1>2. CASE Start(r) \/ Crash(r)
    <2>1. UNCHANGED <<fresh, recent>> /\ leaky \subseteq leaky'
      BY <1>2 DEF Start, Crash
    <2>2. \A n \in Msgs : at'[r][n] \in {"none", "todo"}
      BY <1>2 DEF Start, Crash, TypeOK
    <2>3. \A n \in Msgs : at[r][n] \in {"told", "recorded", "spent"} => Owner[n] \in leaky'
      BY <1>2 DEF Start, Idle, Crash
    <2>4. \A n \in Msgs : ~Going(r, n)' /\ ~Away(r, n)' /\ at'[r][n] # "read"
      BY <2>2 DEF Going, Away
    <2>5. \A n \in Msgs : InGapNow(n)' => InGapNow(n)
      BY <1>0, <2>1, <2>4 DEF InGapNow
    <2>6. \A n \in fresh' : Owner[n] \in leaky' \union recent'
      <3> TAKE n \in fresh'
      <3>1. n \in Msgs /\ n \in fresh
        BY <2>1 DEF TypeOK
      <3> QED
        BY <1>0, <2>1, <2>3, <3>1 DEF GapInv
    <2>7. \A k, n \in Msgs \ Replies :
             Owner[k] = Owner[n] /\ Owner[k] \notin leaky' /\ InGapNow(k)' /\ InGapNow(n)' => k = n
      BY <2>1, <2>5 DEF GapInv
    <2>8. fresh' \cap Replies = {}
      BY <2>1 DEF GapInv
    <2> QED
      BY <1>0, <2>4, <2>6, <2>7, <2>8 DEF GapInv
  <1> QED
    BY <1>1, <1>2

LEMMA RestGap ==
  ASSUME TypeOK, GapInv, (\E p \in People : Lead(p)) \/ (\E m \in Msgs : Desk(m)) PROVE GapInv'
  <1>1. CASE \E p \in People : GapPasses(p)
    <2>1. PICK p \in People : GapPasses(p)
      BY <1>1
    <2>2. /\ UNCHANGED <<at, seen, contacted, leaky>> /\ recent' = recent \ {p}
          /\ fresh' = fresh \ Mine(p) /\ fresh \subseteq Msgs
      BY <2>1 DEF GapPasses, run, hist, TypeOK
    <2>3. \A r \in Runs, m \in Msgs : /\ Going(r, m)' <=> Going(r, m)
                                      /\ Away(r, m)' <=> Away(r, m)
                                      /\ ReviewFirst(r, m)' <=> ReviewFirst(r, m)
      BY <2>2 DEF Going, Away, ReviewFirst
    <2>4. \A n \in fresh' : Owner[n] # p /\ n \in fresh /\ n \in Msgs
      BY <2>2 DEF Mine
    <2>5. \A n \in fresh' : \/ Owner[n] \in leaky' \union recent'
                            \/ \E r \in Runs : at'[r][n] \in {"told", "recorded", "spent"}
      BY <2>2, <2>4 DEF GapInv
    <2>6. \A m, n \in Msgs \ Replies :
        Owner[m] = Owner[n] /\ Owner[m] \notin leaky' /\ InGapNow(m)' /\ InGapNow(n)' => m = n
      BY <2>2, <2>3, <2>4 DEF GapInv, InGapNow
    <2> QED
      BY <2>2, <2>3, <2>4, <2>5, <2>6 DEF GapInv
  <1>2. CASE ~\E p \in People : GapPasses(p)
    <2>1. UNCHANGED <<at, seen, contacted, leaky, fresh, recent>>
      BY <1>2 DEF Clock, Lead, Reply, Unsubscribe, SuppressPerson, Verified, End, Pause, Resume,
         Desk, Approve, Reject, Decide, ReturnToReview, ComesDue, LeaseAges, WindowSlides,
         run, db, who, hist
    <2> QED
      BY <2>1, QuietGap DEF Going, ReviewFirst
  <1> QED
    BY <1>1, <1>2

LEMMA NextGap == ASSUME OneRun, TypeOK, GapInv, [Next]_vars PROVE GapInv'
  <1>1. CASE UNCHANGED vars
    BY <1>1, QuietGap DEF vars, Going, ReviewFirst, run, db, hist
  <1> QED
    BY <1>1, PrepareGap, DispatchGap, RunGap, RestGap DEF Next

LEMMA AtMostOne ==
  ASSUME NEW S, \A x, y \in S : x = y PROVE Cardinality(S) <= 1
  <1>1. CASE S = {}
    BY <1>1, FS_EmptySet
  <1>2. CASE S # {}
    <2>1. PICK x \in S : S = {x}
      BY <1>2
    <2> QED
      BY <2>1, FS_Singleton
  <1> QED
    BY <1>1, <1>2

LEMMA GapHolds == ASSUME TypeOK, GapInv PROVE OnePerGap
  <1> SUFFICES ASSUME NEW p \in People \ leaky PROVE Cardinality(fresh \intersect Mine(p)) <= 1
    BY DEF OnePerGap
  <1>1. \A m, n \in fresh \intersect Mine(p) : m = n
    BY DEF GapInv, InGapNow, Mine
  <1> QED
    BY <1>1, AtMostOne

\* One run at a time keeps the gap: no person gets two campaign messages
\* inside it while every send was recorded (fireDue.ts 374-416).
THEOREM GapKept == OneRun => (Spec => []OnePerGap)
  <1> SUFFICES ASSUME OneRun PROVE Spec => []OnePerGap
    OBVIOUS
  <1>1. Init => GapInv
    BY DEF Init, GapInv, InGapNow, Going, Away
  <1>2. TypeOK /\ GapInv /\ [Next]_vars => GapInv'
    BY NextGap
  <1>3. TypeOK /\ GapInv => OnePerGap
    BY GapHolds
  <1> QED
    BY <1>1, <1>2, <1>3, TypeCorrect, PTL DEF Spec

\* What a run has launched and the record does not show yet.
Unsettled(r) == {m \in Msgs : at[r][m] \in {"send", "told"}}
Kept(r) == IF room[r] = Unread THEN 0 ELSE room[r]

\* The window's record, the open sends and the slots a run still has fit.
CapInv ==
    /\ Cardinality(window) <= Cap
    /\ \A m \in burst : blind[m] = 0 => m \in window \/ \E r \in Runs : at[r][m] = "told"
    /\ \A r \in Runs :
        /\ room[r] \in Nat \union {Unread}
        /\ room[r] = Unread => Unsettled(r) = {}
        /\ Cardinality(window) + Cardinality(Unsettled(r)) + Kept(r) <= Cap

LEMMA Sizes ==
  ASSUME TypeOK, NEW r \in Runs
  PROVE  /\ IsFiniteSet(window) /\ IsFiniteSet(Unsettled(r))
         /\ Cardinality(window) \in Nat /\ Cardinality(Unsettled(r)) \in Nat
  <1>1. window \in SUBSET Msgs /\ Unsettled(r) \in SUBSET Msgs
    BY DEF TypeOK, Unsettled
  <1>2. IsFiniteSet(window) /\ IsFiniteSet(Unsettled(r))
    BY <1>1, SendPathAssumption, FS_Subset
  <1> QED
    BY <1>2, FS_CardinalityType

\* One message opens or leaves.
LEMMA UnsettledStep ==
  ASSUME TypeOK, NEW r \in Runs, NEW m \in Msgs, NEW q, at' = [at EXCEPT ![r][m] = q]
  PROVE  /\ q \in {"send", "told"} /\ m \in Unsettled(r) => Unsettled(r)' = Unsettled(r)
         /\ q \in {"send", "told"} /\ m \notin Unsettled(r) =>
              Cardinality(Unsettled(r)') = Cardinality(Unsettled(r)) + 1
         /\ q \notin {"send", "told"} /\ m \notin Unsettled(r) => Unsettled(r)' = Unsettled(r)
         /\ q \notin {"send", "told"} /\ m \in Unsettled(r) =>
              Cardinality(Unsettled(r)') = Cardinality(Unsettled(r)) - 1
  <1>1. Unsettled(r)' = IF q \in {"send", "told"} THEN Unsettled(r) \union {m} ELSE Unsettled(r) \ {m}
    BY DEF TypeOK, Unsettled
  <1>2. IsFiniteSet(Unsettled(r))
    BY Sizes
  <1>3. /\ Cardinality(Unsettled(r) \union {m}) = IF m \in Unsettled(r) THEN Cardinality(Unsettled(r))
                                             ELSE Cardinality(Unsettled(r)) + 1
        /\ Cardinality(Unsettled(r) \ {m}) = IF m \in Unsettled(r) THEN Cardinality(Unsettled(r)) - 1
                                        ELSE Cardinality(Unsettled(r))
    BY <1>2, FS_AddElement, FS_RemoveElement
  <1> QED
    BY <1>1, <1>3

\* What the run has left when it first asks.
LEMMA LeftFits ==
  ASSUME TypeOK, CapInv, NEW r \in Runs
  PROVE  /\ Left(r) \in Nat
         /\ Cardinality(window) + Cardinality(Unsettled(r)) + Left(r) <= Cap
  <1>1. Cardinality(window) \in Nat /\ Cardinality(Unsettled(r)) \in Nat /\ Cap \in Nat
    BY Sizes, SendPathAssumption
  <1>2. CASE room[r] = Unread
    <2>1. Cardinality(Unsettled(r)) = 0 /\ Cardinality(window) <= Cap
      BY <1>2, FS_EmptySet DEF CapInv
    <2> QED
      BY <1>1, <1>2, <2>1 DEF Left, Headroom
  <1>3. CASE room[r] # Unread
    BY <1>1, <1>3 DEF Left, CapInv, Kept
  <1> QED
    BY <1>2, <1>3

LEMMA PrepareCap ==
  ASSUME OneRun, TypeOK, CapInv, NEW r \in Runs, NEW m \in Msgs, Prepare(r, m) PROVE CapInv'
  <1>t. TypeOK /\ \A q \in Runs : q = r
    BY DEF OneRun
  <1>s. Cardinality(window) \in Nat /\ Cardinality(Unsettled(r)) \in Nat /\ Cap \in Nat
    BY <1>t, Sizes, SendPathAssumption
  <1>l. Left(r) \in Nat /\ Cardinality(window) + Cardinality(Unsettled(r)) + Left(r) <= Cap
    BY LeftFits
  <1>1. CASE Launch(r, m)
    <2>1. /\ UNCHANGED <<window, burst, blind>> /\ at[r][m] = "clear"
          /\ at' = [at EXCEPT ![r][m] = "send"]
          /\ Left(r) > 0 /\ room' = [room EXCEPT ![r] = Left(r) - 1]
      BY <1>1, LaunchShape
    <2>2. Cardinality(Unsettled(r)') = Cardinality(Unsettled(r)) + 1
      <3>1. m \notin Unsettled(r)
        BY <2>1 DEF Unsettled
      <3> QED
        BY <1>t, <2>1, <3>1, UnsettledStep
    <2>3. room'[r] = Left(r) - 1 /\ room'[r] \in Nat
      BY <1>t, <1>l, <2>1 DEF TypeOK
    <2>4. \A n \in burst : at[r][n] = "told" => at'[r][n] = "told"
      BY <1>t, <2>1 DEF TypeOK
    <2>5. room'[r] # Unread
      BY <2>3 DEF Unread
    <2> QED
      BY <1>t, <1>s, <1>l, <2>1, <2>2, <2>3, <2>4, <2>5 DEF CapInv, Kept
  <1>2. CASE ~Launch(r, m)
    <2>1. /\ UNCHANGED <<window, burst, blind>> /\ at[r][m] \in {"todo"} \union Deciding
          /\ \/ room' = room
             \/ room' = [room EXCEPT ![r] = Left(r)]
             \/ Left(r) > 0 /\ room' = [room EXCEPT ![r] = Left(r) - 1]
      BY <1>2, PrepareShape
    <2>2. PICK q \in {"none"} \union Deciding : at' = [at EXCEPT ![r][m] = q]
      BY <1>2, PrepareShape
    <2>3. Unsettled(r)' = Unsettled(r)
      <3>1. m \notin Unsettled(r)
        BY <2>1 DEF Unsettled, Deciding
      <3>2. q \notin {"send", "told"}
        BY <2>2 DEF Deciding
      <3> QED
        BY <1>t, <2>2, <3>1, <3>2, UnsettledStep
    <2>4. \A n \in burst : at[r][n] = "told" => at'[r][n] = "told"
      BY <1>t, <2>1, <2>2 DEF TypeOK, Deciding
    <2>5. CASE room' = room
      BY <1>t, <2>1, <2>3, <2>4, <2>5 DEF CapInv, Kept
    <2>6. CASE room' # room
      <3>1. room'[r] \in Nat /\ room'[r] <= Left(r)
        BY <1>t, <1>l, <2>1, <2>6 DEF TypeOK
      <3>2. room'[r] # Unread
        BY <3>1 DEF Unread
      <3> QED
        BY <1>t, <1>s, <1>l, <2>1, <2>3, <2>4, <3>1, <3>2 DEF CapInv, Kept
    <2> QED
      BY <2>5, <2>6
  <1> QED
    BY <1>1, <1>2

LEMMA DispatchCap ==
  ASSUME OneRun, TypeOK, CapInv, NEW r \in Runs, NEW m \in Msgs, Dispatch(r, m) PROVE CapInv'
  <1> USE DEF doc, run, db, who, hist
  <1>t. TypeOK /\ \A q \in Runs : q = r
    BY DEF OneRun
  <1>s. Cardinality(window) \in Nat /\ Cardinality(Unsettled(r)) \in Nat /\ Cap \in Nat
    BY <1>t, Sizes, SendPathAssumption
  <1>1. PICK q \in {"none", "told", "recorded", "spent"} : at' = [at EXCEPT ![r][m] = q]
    BY DEF Dispatch, Accept, Retry, Refuse, AcceptUnheard, Record, Spend, Contact,
           WriteThrows, Release, Place
  <1>2. \A n \in Msgs : at'[r][n] = IF n = m THEN q ELSE at[r][n]
    BY <1>t, <1>1 DEF TypeOK
  <1>3. CASE Accept(r, m)
    <2>1. /\ UNCHANGED <<window, blind, room>> /\ burst' = burst \union {m} /\ at[r][m] = "send"
          /\ at'[r][m] = "told"
      BY <1>3, <1>t DEF Accept, Accepted, Place, TypeOK
    <2>2. Unsettled(r)' = Unsettled(r)
      BY <1>2, <2>1 DEF Unsettled
    <2> QED
      BY <1>t, <1>2, <2>1, <2>2 DEF CapInv, Kept, TypeOK
  <1>4. CASE Retry(r, m) \/ Refuse(r, m) \/ AcceptUnheard(r, m)
    <2>1. /\ UNCHANGED window /\ at[r][m] = "send" /\ at'[r][m] = "none"
          /\ room' = room \/ room' = [room EXCEPT ![r] = @ + 1]
          /\ \/ UNCHANGED <<blind, burst>>
             \/ burst' = burst \union {m} /\ blind' = [blind EXCEPT ![m] = @ + 1]
      BY <1>4, <1>t, Missed DEF Retry, Refuse, AcceptUnheard, Release, Accepted, Place, TypeOK
    <2>2. Cardinality(Unsettled(r)') = Cardinality(Unsettled(r)) - 1 /\ m \in Unsettled(r)
      <3>1. m \in Unsettled(r) /\ q = "none"
        BY <1>2, <2>1 DEF Unsettled
      <3> QED
        BY <1>t, <1>1, <3>1, UnsettledStep
    <2>3. room[r] \in Nat /\ room[r] # Unread
      BY <2>2 DEF CapInv
    <2>4. room'[r] \in Nat /\ room'[r] <= room[r] + 1
      BY <1>t, <2>1, <2>3 DEF TypeOK
    <2>5. room'[r] # Unread
      BY <2>4 DEF Unread
    <2>6. \A n \in burst' : blind'[n] = 0 => n \in burst /\ blind[n] = 0
      BY <1>t, <2>1 DEF TypeOK
    <2>7. \A n \in burst : at[r][n] = "told" => at'[r][n] = "told"
      BY <1>t, <1>2, <2>1 DEF TypeOK
    <2> QED
      BY <1>t, <1>s, <2>1, <2>2, <2>3, <2>4, <2>5, <2>6, <2>7 DEF CapInv, Kept
  <1>5. CASE Record(r, m)
    <2>1. /\ UNCHANGED <<room, burst, blind>> /\ at[r][m] = "told" /\ at'[r][m] = "recorded"
          /\ window' = window \union {m}
      BY <1>5, <1>t DEF Record, Place, TypeOK
    <2>2. Cardinality(Unsettled(r)') = Cardinality(Unsettled(r)) - 1
      <3>1. m \in Unsettled(r) /\ q = "recorded"
        BY <1>2, <2>1 DEF Unsettled
      <3> QED
        BY <1>t, <1>1, <3>1, UnsettledStep
    <2>3. Cardinality(window') <= Cardinality(window) + 1 /\ Cardinality(window') \in Nat
      <3>1. Cardinality(window \union {m}) \in {Cardinality(window), Cardinality(window) + 1}
        BY <1>t, Sizes, FS_AddElement
      <3> QED
        BY <1>s, <2>1, <3>1
    <2>4. room[r] = Unread => Unsettled(r)' = {}
      BY <2>1, <1>2 DEF CapInv, Unsettled
    <2>5. Kept(r)' = Kept(r) /\ Kept(r) \in Nat
      BY <2>1 DEF Kept, CapInv
    <2>6. \A n \in burst : at[r][n] = "told" => at'[r][n] = "told" \/ n \in window'
      BY <1>t, <1>2, <2>1 DEF TypeOK
    <2>7. Cardinality(window) + Cardinality(Unsettled(r)) + Kept(r) <= Cap /\ Cardinality(Unsettled(r)') \in Nat
      <3>1. Unsettled(r)' \subseteq Unsettled(r)
        BY <1>2, <2>1 DEF Unsettled
      <3>2. IsFiniteSet(Unsettled(r)')
        BY <1>t, <3>1, Sizes, FS_Subset
      <3> QED
        BY <3>2, FS_CardinalityType DEF CapInv
    <2>8. Cardinality(window') <= Cap
          /\ Cardinality(window') + Cardinality(Unsettled(r)') + Kept(r)' <= Cap
      BY <1>s, <2>2, <2>3, <2>5, <2>7
    <2> QED
      BY <1>t, <2>1, <2>4, <2>6, <2>8 DEF CapInv
  <1>6. CASE Spend(r, m) \/ Contact(r, m)
    <2>1. /\ UNCHANGED <<window, room, burst, blind>> /\ at[r][m] \in {"recorded", "spent"}
          /\ at'[r][m] \in {"spent", "none"}
      BY <1>6, <1>t DEF Spend, Contact, Place, TypeOK
    <2>2. Unsettled(r)' = Unsettled(r)
      BY <1>2, <2>1 DEF Unsettled
    <2>3. \A n \in burst : at[r][n] = "told" => at'[r][n] = "told"
      BY <1>t, <1>2, <2>1 DEF TypeOK
    <2> QED
      BY <1>t, <2>1, <2>2, <2>3 DEF CapInv, Kept
  <1>7. CASE WriteThrows(r, m)
    <2>1. /\ UNCHANGED <<window, room, burst>> /\ blind' = [blind EXCEPT ![m] = @ + 1]
          /\ at'[r][m] = "none"
      BY <1>7, <1>t, Missed DEF WriteThrows, Release, Place, TypeOK
    <2>2. Unsettled(r)' \subseteq Unsettled(r)
      BY <1>2, <2>1 DEF Unsettled
    <2>3. Cardinality(Unsettled(r)') <= Cardinality(Unsettled(r)) /\ Cardinality(Unsettled(r)') \in Nat
      BY <1>t, <2>2, Sizes, FS_Subset, FS_CardinalityType
    <2>4. \A n \in burst : blind'[n] = 0 => blind[n] = 0 /\ at'[r][n] = at[r][n]
      BY <1>t, <1>2, <2>1 DEF TypeOK
    <2>5. Kept(r)' = Kept(r) /\ Kept(r) \in Nat
      BY <2>1 DEF Kept, CapInv
    <2>6. Cardinality(window) + Cardinality(Unsettled(r)') + Kept(r)' <= Cap
      BY <1>s, <2>3, <2>5 DEF CapInv
    <2> QED
      BY <1>t, <2>1, <2>2, <2>4, <2>6 DEF CapInv
  <1> QED
    BY <1>3, <1>4, <1>5, <1>6, <1>7 DEF Dispatch

LEMMA RunCap ==
  ASSUME OneRun, TypeOK, CapInv, NEW r \in Runs, Start(r) \/ Flush(r) \/ Crash(r) PROVE CapInv'
  <1> USE DEF doc, run, db, who, hist
  <1>t. TypeOK /\ \A q \in Runs : q = r
    BY DEF OneRun
  <1>s. Cardinality(window) \in Nat /\ Cardinality(Unsettled(r)) \in Nat /\ Cap \in Nat
    BY <1>t, Sizes, SendPathAssumption
  <1>1. UNCHANGED <<window, burst>>
    BY DEF Start, Flush, Crash
  <1>2. /\ Unsettled(r)' \subseteq Unsettled(r)
        /\ room'[r] = room[r] \/ (room'[r] = Unread /\ Unsettled(r)' = {})
    <2>1. CASE Start(r)
      <3>1. \A n \in Msgs : at'[r][n] \in {"todo", "none"}
        BY <1>t, <2>1 DEF Start, TypeOK
      <3>2. room'[r] = Unread
        BY <1>t, <2>1 DEF Start, TypeOK
      <3> QED
        BY <3>1, <3>2 DEF Unsettled
    <2>2. CASE Flush(r)
      BY <2>2 DEF Flush, Unsettled
    <2>3. CASE Crash(r)
      <3>1. (\A n \in Msgs : at'[r][n] = "none") /\ room' = room
        BY <1>t, <2>3 DEF Crash, TypeOK
      <3> QED
        BY <3>1 DEF Unsettled
    <2> QED
      BY <2>1, <2>2, <2>3
  <1>3. Cardinality(Unsettled(r)') <= Cardinality(Unsettled(r)) /\ Cardinality(Unsettled(r)') \in Nat
    BY <1>t, <1>2, Sizes, FS_Subset, FS_CardinalityType
  <1>4. \A n \in burst : blind'[n] = 0 => blind[n] = 0 /\ (at[r][n] = "told" => at'[r][n] = "told")
    BY <1>t DEF Start, Idle, Flush, Crash, TypeOK
  <1>5. Kept(r)' <= Kept(r) /\ Kept(r) \in Nat /\ Kept(r)' \in Nat
    BY <1>2 DEF Kept, CapInv
  <1>6. room'[r] \in Nat \union {Unread} /\ (room'[r] = Unread => Unsettled(r)' = {})
    BY <1>2 DEF CapInv
  <1>7. Cardinality(window) + Cardinality(Unsettled(r)') + Kept(r)' <= Cap
    BY <1>s, <1>3, <1>5 DEF CapInv
  <1> QED
    BY <1>t, <1>1, <1>4, <1>6, <1>7 DEF CapInv

LEMMA RestCap ==
  ASSUME TypeOK, CapInv, (\E p \in People : Lead(p)) \/ (\E m \in Msgs : Desk(m)) PROVE CapInv'
  <1>1. CASE \E m \in Msgs : WindowSlides(m)
    <2>1. PICK m \in Msgs : WindowSlides(m)
      BY <1>1
    <2>2. /\ UNCHANGED <<at, room, blind>> /\ window' = window \ {m} /\ burst' = burst \ {m}
      BY <2>1 DEF WindowSlides, run, hist
    <2>3. /\ Cardinality(window) \in Nat /\ Cardinality(window') \in Nat
          /\ Cardinality(window') <= Cardinality(window)
      <3>1. window \in SUBSET Msgs
        BY DEF TypeOK
      <3>2. IsFiniteSet(window) /\ window' \in SUBSET window
        BY <2>2, <3>1, SendPathAssumption, FS_Subset
      <3> QED
        BY <3>2, FS_Subset, FS_CardinalityType
    <2>4. \A r \in Runs : /\ Unsettled(r)' = Unsettled(r) /\ Kept(r)' = Kept(r)
                          /\ Cardinality(Unsettled(r)) \in Nat /\ Kept(r) \in Nat
      BY <2>2, Sizes DEF Unsettled, Kept, CapInv
    <2>5. \A n \in burst' : n \in burst /\ (n \in window => n \in window')
      BY <2>2
    <2>6. Cardinality(window') <= Cap
      BY <2>3, SendPathAssumption DEF CapInv
    <2>7. \A r \in Runs : Cardinality(window') + Cardinality(Unsettled(r)') + Kept(r)' <= Cap
      BY <2>3, <2>4, SendPathAssumption DEF CapInv
    <2> QED
      BY <2>2, <2>4, <2>5, <2>6, <2>7 DEF CapInv
  <1>2. CASE ~\E m \in Msgs : WindowSlides(m)
    <2>1. UNCHANGED <<at, room, window, burst, blind>>
      BY <1>2 DEF Lead, Reply, Unsubscribe, SuppressPerson, Verified, End, Pause, Resume,
         GapPasses, Desk, Clock, Approve, Reject, Decide, ReturnToReview, ComesDue, LeaseAges,
         run, db, who, hist
    <2> QED
      BY <2>1 DEF CapInv, Unsettled, Kept
  <1> QED
    BY <1>1, <1>2

LEMMA NextCap == ASSUME OneRun, TypeOK, CapInv, [Next]_vars PROVE CapInv'
  <1>1. CASE UNCHANGED vars
    BY <1>1 DEF vars, CapInv, Unsettled, Kept, run, db, hist
  <1> QED
    BY <1>1, PrepareCap, DispatchCap, RunCap, RestCap DEF Next

LEMMA InitCap == Init => CapInv
  <1> SUFFICES ASSUME Init PROVE CapInv
    OBVIOUS
  <1>1. \A r \in Runs : Unsettled(r) = {} /\ room[r] = Unread /\ Kept(r) = 0
    BY DEF Init, Unsettled, Kept
  <1>2. window = {} /\ burst = {} /\ Cardinality({}) = 0
    BY FS_EmptySet DEF Init
  <1> QED
    BY <1>1, <1>2, SendPathAssumption DEF CapInv

\* One run at a time keeps the channel's limit at any fan-out (fireDue.ts
\* 549-563).
THEOREM CapKept == OneRun => (Spec => []CapHolds)
  <1> SUFFICES ASSUME OneRun PROVE Spec => []CapHolds
    OBVIOUS
  <1>1. Init => CapInv
    BY InitCap
  <1>2. TypeOK /\ CapInv /\ [Next]_vars => CapInv'
    BY NextCap
  <1>3. TypeOK /\ CapInv => CapHolds
    <2> SUFFICES ASSUME TypeOK, CapInv PROVE CapHolds
      OBVIOUS
    <2> DEFINE A == {m \in burst : blind[m] = 0}
    <2>1. window \in SUBSET Msgs
      BY DEF TypeOK
    <2>2. IsFiniteSet(window) /\ Cardinality(window) \in Nat
      BY <2>1, SendPathAssumption, FS_Subset, FS_CardinalityType
    <2>3. CASE \E r \in Runs : TRUE
      <3>1. PICK r \in Runs : TRUE
        BY <2>3
      <3>2. A \subseteq window \union Unsettled(r)
        BY <3>1 DEF CapInv, Unsettled, OneRun, TypeOK
      <3>3. /\ IsFiniteSet(Unsettled(r)) /\ Cardinality(Unsettled(r)) \in Nat /\ Kept(r) \in Nat
            /\ Cardinality(window) + Cardinality(Unsettled(r)) + Kept(r) <= Cap
        BY Sizes DEF CapInv, Kept
      <3>4. /\ IsFiniteSet(window \union Unsettled(r))
            /\ Cardinality(window \union Unsettled(r)) <= Cardinality(window) + Cardinality(Unsettled(r))
        <4>1. /\ IsFiniteSet(window \union Unsettled(r))
              /\ Cardinality(window \union Unsettled(r)) =
                   Cardinality(window) + Cardinality(Unsettled(r)) - Cardinality(window \cap Unsettled(r))
          BY <2>2, <3>3, FS_Union
        <4>2. Cardinality(window \cap Unsettled(r)) \in Nat
          BY <2>2, FS_Intersection, FS_CardinalityType
        <4> QED
          BY <2>2, <3>3, <4>1, <4>2
      <3>5. Cardinality(A) <= Cardinality(window \union Unsettled(r))
        BY <3>2, <3>4, FS_Subset
      <3>6. Cardinality(A) \in Nat /\ Cardinality(window \union Unsettled(r)) \in Nat
        BY <3>2, <3>4, FS_Subset, FS_CardinalityType
      <3> QED
        BY <2>2, <3>3, <3>4, <3>5, <3>6, SendPathAssumption DEF CapHolds
    <2>4. CASE ~\E r \in Runs : TRUE
      <3>1. A \subseteq window
        BY <2>4 DEF CapInv
      <3>2. Cardinality(A) <= Cardinality(window) /\ Cardinality(A) \in Nat
        BY <2>2, <3>1, FS_Subset, FS_CardinalityType
      <3> QED
        BY <2>2, <3>2, SendPathAssumption DEF CapHolds, CapInv
    <2> QED
      BY <2>3, <2>4
  <1> QED
    BY <1>1, <1>2, <1>3, TypeCorrect, PTL DEF Spec

\* The campaign messages of a person that were accepted and are counted, or
\* about to be; and those accepted or on their way.
Paid(p) == {m \in Mine(p) \ Replies :
              accepted[m] > 0 /\ \A r \in Runs : at[r][m] \notin {"told", "recorded"}}
Spoken(p) == {m \in Mine(p) \ Replies : accepted[m] > 0 \/ \E r \in Runs : Going(r, m)}

\* Read with budget left, and nothing of this run's gone out to the person since.
Spare(r, m) == /\ at[r][m] = "read" /\ ~ReviewFirst(r, m)
               /\ Owner[m] \notin contacted[r] \union leaky

BudgetInv ==
    /\ \A p \in People \ leaky : /\ Cardinality(Paid(p)) <= spent[p]
                                 /\ Cardinality(Spoken(p)) <= Budget
    /\ \A r \in Runs, m \in Msgs \ Replies :
         Spare(r, m) => Cardinality(Spoken(Owner[m])) < Budget

LEMMA Parts ==
  ASSUME NEW p
  PROVE  /\ IsFiniteSet(Paid(p)) /\ IsFiniteSet(Spoken(p))
         /\ Cardinality(Paid(p)) \in Nat /\ Cardinality(Spoken(p)) \in Nat
  <1>1. Paid(p) \in SUBSET Msgs /\ Spoken(p) \in SUBSET Msgs
    BY DEF Paid, Spoken, Mine
  <1>2. IsFiniteSet(Paid(p)) /\ IsFiniteSet(Spoken(p))
    BY <1>1, SendPathAssumption, FS_Subset
  <1> QED
    BY <1>2, FS_CardinalityType

\* A step after which fewer messages count.
LEMMA FewerCount ==
  ASSUME TypeOK, TypeOK', BudgetInv, leaky \subseteq leaky',
         \A p \in People \ leaky' :
            Paid(p)' \subseteq Paid(p) /\ Spoken(p)' \subseteq Spoken(p) /\ spent[p] <= spent'[p],
         \A r \in Runs, m \in Msgs : Spare(r, m)' => Spare(r, m)
  PROVE  BudgetInv'
  <1>1. ASSUME NEW p \in People \ leaky'
        PROVE  /\ Cardinality(Paid(p)') <= Cardinality(Paid(p)) /\ Cardinality(Paid(p)') \in Nat
               /\ Cardinality(Spoken(p)') <= Cardinality(Spoken(p)) /\ Cardinality(Spoken(p)') \in Nat
               /\ Cardinality(Paid(p)) \in Nat /\ Cardinality(Spoken(p)) \in Nat
    BY <1>1, Parts, FS_Subset, FS_CardinalityType
  <1>2. ASSUME NEW p \in People \ leaky'
        PROVE  Cardinality(Paid(p)') <= spent'[p] /\ Cardinality(Spoken(p)') <= Budget
    <2>1. Cardinality(Paid(p)) <= spent[p] /\ Cardinality(Spoken(p)) <= Budget
      BY <1>2 DEF BudgetInv
    <2>2. spent[p] \in Nat /\ spent'[p] \in Nat /\ Budget \in Nat /\ spent[p] <= spent'[p]
      BY <1>2, SendPathAssumption DEF TypeOK
    <2> QED
      BY <1>1, <1>2, <2>1, <2>2
  <1>3. ASSUME NEW r \in Runs, NEW m \in Msgs \ Replies, Spare(r, m)'
        PROVE  Cardinality(Spoken(Owner[m])') < Budget
    <2>1. Owner[m] \in People \ leaky'
      BY <1>3, SendPathAssumption DEF Spare
    <2>2. Cardinality(Spoken(Owner[m])) < Budget
      BY <1>3 DEF BudgetInv
    <2> QED
      BY <1>1, <2>1, <2>2, SendPathAssumption
  <1> QED
    BY <1>2, <1>3 DEF BudgetInv

\* What is read within the budget: nothing of the run's is out to the person, so
\* whatever was accepted is counted by then.
LEMMA LookBudget ==
  ASSUME OneRun, TypeOK, TypeOK', GapInv, BudgetInv, NEW r \in Runs, NEW m \in Msgs, Look(r, m)
  PROVE  BudgetInv'
  <1>1. /\ UNCHANGED <<spent, accepted, leaky, contacted, seen>> /\ at[r][m] = "check"
        /\ spent[Owner[m]] < Budget
    BY LookShape
  <1>2. PICK q \in {"read", "early"} : at' = [at EXCEPT ![r][m] = q]
    BY LookShape
  <1>t. TypeOK /\ (\A p \in Runs : p = r) /\ Owner[m] \in People
    BY SendPathAssumption DEF OneRun
  <1>3. \A n \in Msgs : at'[r][n] = IF n = m THEN q ELSE at[r][n]
    BY <1>2, <1>t DEF TypeOK
  <1>4. \A n \in Msgs : /\ Going(r, n)' <=> Going(r, n)
                        /\ at'[r][n] \in {"told", "recorded"} <=> at[r][n] \in {"told", "recorded"}
                        /\ ReviewFirst(r, n)' <=> ReviewFirst(r, n)
    BY <1>1, <1>3 DEF Going, ReviewFirst
  <1>5. \A p : Paid(p)' = Paid(p) /\ Spoken(p)' = Spoken(p)
    BY <1>1, <1>4, <1>t DEF Paid, Spoken, Mine
  <1>6. ASSUME NEW n \in Msgs \ Replies, Spare(r, n)' PROVE Cardinality(Spoken(Owner[n])) < Budget
    <2>1. CASE n # m
      BY <1>1, <1>3, <1>4, <1>6, <2>1 DEF BudgetInv, Spare
    <2>2. CASE n = m
      <3>1. Owner[m] \notin contacted[r] \union leaky
        BY <1>1, <1>6, <2>2 DEF Spare
      <3>2. \A k \in Mine(Owner[m]) \ Replies : ~Away(r, k)
        BY <3>1 DEF GapInv, Mine
      <3>3. Spoken(Owner[m]) \subseteq Paid(Owner[m])
        BY <1>t, <3>2 DEF Spoken, Paid, Away
      <3>4. Cardinality(Spoken(Owner[m])) <= Cardinality(Paid(Owner[m]))
        BY <3>3, Parts, FS_Subset
      <3>5. Cardinality(Paid(Owner[m])) <= spent[Owner[m]] /\ spent[Owner[m]] \in Nat
        BY <1>t, <3>1 DEF BudgetInv, TypeOK
      <3>6. Cardinality(Spoken(Owner[m])) \in Nat /\ Cardinality(Paid(Owner[m])) \in Nat /\ Budget \in Nat
        BY Parts, SendPathAssumption
      <3> QED
        BY <1>1, <2>2, <3>4, <3>5, <3>6
    <2> QED
      BY <2>1, <2>2
  <1> QED
    BY <1>1, <1>5, <1>6, <1>t DEF BudgetInv

\* What a pass adds fits.
LEMMA PassBudget ==
  ASSUME OneRun, TypeOK, TypeOK', GapInv, BudgetInv, NEW r \in Runs, NEW m \in Msgs, Pass(r, m)
  PROVE  BudgetInv'
  <1>1. /\ UNCHANGED <<spent, accepted, leaky, seen>> /\ at[r][m] \in {"read", "early"}
        /\ at' = [at EXCEPT ![r][m] = "clear"] /\ contacted[r] \subseteq contacted'[r]
        /\ m \notin Replies /\ ~ReviewFirst(r, m) =>
             at[r][m] = "read" /\ Owner[m] \in contacted'[r] \ contacted[r]
    BY PassShape
  <1>t. TypeOK /\ (\A q \in Runs : q = r) /\ Owner[m] \in People
    BY SendPathAssumption DEF OneRun
  <1>2. \A n \in Msgs : at'[r][n] = IF n = m THEN "clear" ELSE at[r][n]
    BY <1>1, <1>t DEF TypeOK
  <1>3. \A n \in Msgs : ReviewFirst(r, n)' <=> ReviewFirst(r, n)
    BY <1>1 DEF ReviewFirst
  <1>4. \A n \in Msgs : Going(r, n)' => Going(r, n) \/ (n = m /\ ~ReviewFirst(r, m))
    BY <1>1, <1>2, <1>3 DEF Going
  <1>5. \A p : Paid(p)' \subseteq Paid(p)
    BY <1>1, <1>2, <1>t DEF Paid, Mine
  <1>6. \A n \in Msgs : Spare(r, n)' => Spare(r, n)
    BY <1>1, <1>2, <1>3 DEF Spare
  <1>7. CASE m \in Replies \/ ReviewFirst(r, m) \/ Owner[m] \in leaky
    <2>1. \A p \in People \ leaky' : Spoken(p)' \subseteq Spoken(p)
      BY <1>1, <1>4, <1>7, <1>t DEF Spoken, Mine
    <2>2. \A p \in People : spent[p] \in Nat
      BY DEF TypeOK
    <2> QED
      BY <1>1, <1>5, <1>6, <1>t, <2>1, <2>2, FewerCount
  <1>8. CASE m \notin Replies /\ ~ReviewFirst(r, m) /\ Owner[m] \notin leaky
    <2>1. Spare(r, m)
      BY <1>1, <1>8 DEF Spare
    <2>2. Cardinality(Spoken(Owner[m])) < Budget
      BY <1>8, <2>1 DEF BudgetInv
    <2>3. \A p : Spoken(p)' \subseteq Spoken(p) \union {m}
      BY <1>1, <1>4, <1>t DEF Spoken, Mine
    <2>4. \A p : p # Owner[m] => Spoken(p)' \subseteq Spoken(p)
      BY <1>1, <1>4, <1>t DEF Spoken, Mine
    <2>5. Cardinality(Spoken(Owner[m])') <= Budget
      <3>1. /\ IsFiniteSet(Spoken(Owner[m]) \union {m})
            /\ Cardinality(Spoken(Owner[m]) \union {m}) =
                 IF m \in Spoken(Owner[m]) THEN Cardinality(Spoken(Owner[m]))
                 ELSE Cardinality(Spoken(Owner[m])) + 1
        BY Parts, FS_AddElement
      <3>2. Cardinality(Spoken(Owner[m]) \union {m}) <= Budget /\ Budget \in Nat
        BY <2>2, <3>1, Parts, SendPathAssumption
      <3>3. /\ Cardinality(Spoken(Owner[m])') <= Cardinality(Spoken(Owner[m]) \union {m})
            /\ Cardinality(Spoken(Owner[m])') \in Nat /\ Cardinality(Spoken(Owner[m]) \union {m}) \in Nat
        BY <2>3, <3>1, FS_Subset, FS_CardinalityType
      <3> QED
        BY <3>2, <3>3
    <2>6. ASSUME NEW p \in People \ leaky
          PROVE  Cardinality(Paid(p)') <= spent[p] /\ Cardinality(Spoken(p)') <= Budget
      <3>1. Cardinality(Paid(p)') <= Cardinality(Paid(p)) /\ Cardinality(Paid(p)') \in Nat
        BY <1>5, Parts, FS_Subset, FS_CardinalityType
      <3>2. /\ Cardinality(Paid(p)) \in Nat /\ Cardinality(Spoken(p)) \in Nat
            /\ Cardinality(Paid(p)) <= spent[p] /\ Cardinality(Spoken(p)) <= Budget
            /\ spent[p] \in Nat /\ Budget \in Nat
        BY Parts, SendPathAssumption DEF BudgetInv, TypeOK
      <3>3. p # Owner[m] => /\ Cardinality(Spoken(p)') <= Cardinality(Spoken(p))
                            /\ Cardinality(Spoken(p)') \in Nat
        BY <2>4, Parts, FS_Subset, FS_CardinalityType
      <3> QED
        BY <2>5, <3>1, <3>2, <3>3
    <2>7. ASSUME NEW n \in Msgs \ Replies, Spare(r, n)' PROVE Cardinality(Spoken(Owner[n])') < Budget
      <3>1. Spare(r, n) /\ Owner[n] # Owner[m]
        BY <1>1, <1>6, <1>8, <2>7 DEF Spare
      <3>2. Cardinality(Spoken(Owner[n])) < Budget
        BY <2>7, <3>1 DEF BudgetInv
      <3>3. Cardinality(Spoken(Owner[n])') <= Cardinality(Spoken(Owner[n])) /\ Cardinality(Spoken(Owner[n])') \in Nat
        BY <2>4, <3>1, Parts, FS_Subset, FS_CardinalityType
      <3> QED
        BY <3>2, <3>3, Parts, SendPathAssumption
    <2> QED
      BY <1>1, <1>t, <2>6, <2>7 DEF BudgetInv
  <1> QED
    BY <1>7, <1>8

LEMMA PrepareBudget ==
  ASSUME OneRun, TypeOK, TypeOK', GapInv, BudgetInv, NEW r \in Runs, NEW m \in Msgs, Prepare(r, m)
  PROVE  BudgetInv'
  <1>t. TypeOK /\ (\A q \in Runs : q = r) /\ \A p \in People : spent[p] \in Nat
    BY DEF OneRun, TypeOK
  <1>1. CASE Launch(r, m)
    <2>1. /\ UNCHANGED <<spent, accepted, leaky, contacted, seen>> /\ ~ReviewFirst(r, m)
          /\ at[r][m] = "clear" /\ at' = [at EXCEPT ![r][m] = "send"]
      BY <1>1, LaunchShape
    <2>2. \A n \in Msgs : at'[r][n] = IF n = m THEN "send" ELSE at[r][n]
      BY <1>t, <2>1 DEF TypeOK
    <2>3. \A n \in Msgs : (Going(r, n)' => Going(r, n)) /\ (Spare(r, n)' => Spare(r, n))
      BY <2>1, <2>2 DEF Going, ReviewFirst, Spare
    <2>4. \A p : Paid(p)' \subseteq Paid(p) /\ Spoken(p)' \subseteq Spoken(p)
      BY <1>t, <2>1, <2>2, <2>3 DEF Paid, Spoken, Mine
    <2> QED
      BY <1>t, <2>1, <2>3, <2>4, FewerCount
  <1>2. CASE ~Look(r, m) /\ ~Pass(r, m) /\ ~Launch(r, m)
    <2>1. UNCHANGED <<spent, accepted, leaky, contacted, seen>>
      BY <1>2, DropShape
    <2>2. Dropped(r, m) \/ Begun(r, m)
      BY <1>2, DropShape
    <2>3. at[r][m] \in {"todo"} \union Deciding
      BY <2>2 DEF Dropped, Begun
    <2>4. PICK q \in {"check", "none"} : at' = [at EXCEPT ![r][m] = q]
      BY <2>2 DEF Dropped, Begun
    <2>5. \A n \in Msgs : at'[r][n] = IF n = m THEN q ELSE at[r][n]
      BY <1>t, <2>4 DEF TypeOK
    <2>6. \A n \in Msgs : (Going(r, n)' => Going(r, n)) /\ (Spare(r, n)' => Spare(r, n))
      BY <2>1, <2>5 DEF Going, ReviewFirst, Spare
    <2>7. \A p : Paid(p)' \subseteq Paid(p) /\ Spoken(p)' \subseteq Spoken(p)
      BY <1>t, <2>1, <2>3, <2>5, <2>6 DEF Paid, Spoken, Mine, Deciding
    <2> QED
      BY <1>t, <2>1, <2>6, <2>7, FewerCount
  <1> QED
    BY <1>1, <1>2, LookBudget, PassBudget

\* The campaign counts a message it already knows.
LEMMA SpendBudget ==
  ASSUME OneRun, TypeOK, TypeOK', BudgetInv, NEW r \in Runs, NEW m \in Msgs, Spend(r, m)
  PROVE  BudgetInv'
  <1>1. /\ UNCHANGED <<accepted, leaky>> /\ at[r][m] = "recorded"
        /\ at' = [at EXCEPT ![r][m] = "spent"] /\ spent' = [spent EXCEPT ![Owner[m]] = @ + 1]
    BY DEF Spend, Place, hist
  <1>t. TypeOK /\ (\A q \in Runs : q = r) /\ Owner[m] \in People
    BY SendPathAssumption DEF OneRun
  <1>2. \A n \in Msgs : at'[r][n] = IF n = m THEN "spent" ELSE at[r][n]
    BY <1>1, <1>t DEF TypeOK
  <1>s. UNCHANGED <<contacted, seen>>
    BY DEF Spend
  <1>g. \A n \in Msgs : (Going(r, n)' => Going(r, n)) /\ (Spare(r, n)' => Spare(r, n))
    BY <1>1, <1>2, <1>s DEF Going, Spare, ReviewFirst
  <1>3. \A p : /\ Paid(p)' \subseteq Paid(p) \union ({m} \cap Mine(p))
               /\ Spoken(p)' \subseteq Spoken(p)
    BY <1>1, <1>2, <1>g, <1>t DEF Paid, Spoken, Mine
  <1>9. ASSUME NEW n \in Msgs \ Replies, Spare(r, n)' PROVE Cardinality(Spoken(Owner[n])') < Budget
    <2>1. Cardinality(Spoken(Owner[n])) < Budget
      BY <1>g, <1>9 DEF BudgetInv
    <2>2. Cardinality(Spoken(Owner[n])') <= Cardinality(Spoken(Owner[n])) /\ Cardinality(Spoken(Owner[n])') \in Nat
      BY <1>3, Parts, FS_Subset, FS_CardinalityType
    <2> QED
      BY <2>1, <2>2, Parts, SendPathAssumption
  <1> SUFFICES ASSUME NEW p \in People \ leaky
               PROVE  Cardinality(Paid(p)') <= spent'[p] /\ Cardinality(Spoken(p)') <= Budget
    BY <1>1, <1>9, <1>t DEF BudgetInv
  <1>4. /\ spent[p] \in Nat /\ Budget \in Nat
        /\ spent'[p] = IF p = Owner[m] THEN spent[p] + 1 ELSE spent[p]
    BY <1>1, <1>t, SendPathAssumption DEF TypeOK
  <1>5. /\ Cardinality(Paid(p)) \in Nat /\ Cardinality(Spoken(p)) \in Nat
        /\ Cardinality(Paid(p)) <= spent[p] /\ Cardinality(Spoken(p)) <= Budget
    BY Parts DEF BudgetInv
  <1>6. Cardinality(Spoken(p)') <= Budget
    <2>1. Cardinality(Spoken(p)') <= Cardinality(Spoken(p)) /\ Cardinality(Spoken(p)') \in Nat
      BY <1>3, Parts, FS_Subset, FS_CardinalityType
    <2> QED
      BY <1>4, <1>5, <2>1
  <1>7. Cardinality(Paid(p)') <= spent'[p]
    <2>1. CASE p = Owner[m]
      <3>1. Paid(p)' \subseteq Paid(p) \union {m}
        BY <1>3
      <3>2. /\ IsFiniteSet(Paid(p) \union {m})
            /\ Cardinality(Paid(p) \union {m}) =
                 IF m \in Paid(p) THEN Cardinality(Paid(p)) ELSE Cardinality(Paid(p)) + 1
        BY Parts, FS_AddElement
      <3>3. /\ Cardinality(Paid(p)') <= Cardinality(Paid(p) \union {m})
            /\ Cardinality(Paid(p)') \in Nat
        BY <3>1, <3>2, FS_Subset, FS_CardinalityType
      <3> QED
        BY <1>4, <1>5, <2>1, <3>2, <3>3
    <2>2. CASE p # Owner[m]
      <3>1. Paid(p)' \subseteq Paid(p)
        BY <1>3, <2>2 DEF Mine
      <3>2. Cardinality(Paid(p)') <= Cardinality(Paid(p)) /\ Cardinality(Paid(p)') \in Nat
        BY <3>1, Parts, FS_Subset, FS_CardinalityType
      <3> QED
        BY <1>4, <1>5, <2>2, <3>2
    <2> QED
      BY <2>1, <2>2
  <1> QED
    BY <1>6, <1>7

LEMMA DispatchBudget ==
  ASSUME OneRun, TypeOK, TypeOK', BudgetInv, NEW r \in Runs, NEW m \in Msgs, Dispatch(r, m)
  PROVE  BudgetInv'
  <1> USE DEF doc, run, db, who, hist
  <1>t. TypeOK /\ (\A q \in Runs : q = r)
    BY DEF OneRun
  <1>1. CASE Spend(r, m)
    BY <1>1, SpendBudget
  <1>2. CASE ~Spend(r, m)
    <2>1. UNCHANGED spent
      BY <1>2 DEF Dispatch, Accept, Retry, Refuse, AcceptUnheard, Record, Contact, WriteThrows
    <2>2. PICK q \in {"none", "told", "recorded"} :
            /\ at' = [at EXCEPT ![r][m] = q]
            /\ \/ q = "told" /\ at[r][m] = "send" /\ UNCHANGED leaky
                  /\ accepted' = [accepted EXCEPT ![m] = @ + 1]
               \/ q = "none" /\ at[r][m] \in {"send", "spent"} /\ UNCHANGED <<accepted, leaky>>
               \/ q = "recorded" /\ at[r][m] = "told" /\ UNCHANGED <<accepted, leaky>>
               \/ /\ leaky' = leaky \union {Owner[m]}
                  /\ accepted' = accepted \/ accepted' = [accepted EXCEPT ![m] = @ + 1]
      BY <1>2, Missed DEF Dispatch, Accept, Retry, Refuse, AcceptUnheard, Record, Contact,
           WriteThrows, Release, Place, Accepted
    <2>3. \A n \in Msgs : at'[r][n] = IF n = m THEN q ELSE at[r][n]
      BY <1>t, <2>2 DEF TypeOK
    <2>c. UNCHANGED <<contacted, seen>>
      BY DEF Dispatch, Accept, Retry, Refuse, AcceptUnheard, Record, Spend, Contact, WriteThrows
    <2>g. \A n \in Msgs : Going(r, n)' => Going(r, n)
      BY <2>3, <2>c DEF Going, ReviewFirst
    <2>4. leaky \subseteq leaky' /\ \A n \in Msgs \ {m} : accepted'[n] = accepted[n]
      BY <1>t, <2>2 DEF TypeOK
    <2>5. ASSUME Owner[m] \notin leaky'
          PROVE  /\ q \notin {"told", "recorded"} => at[r][m] \notin {"told", "recorded"}
                 /\ q \notin {"told", "recorded"} => accepted' = accepted
                 /\ accepted' = accepted \/ at[r][m] = "send"
      BY <2>2, <2>5
    <2>6. \A p \in People \ leaky' : Paid(p)' \subseteq Paid(p) /\ Spoken(p)' \subseteq Spoken(p)
      <3> TAKE p \in People \ leaky'
      <3>1. CASE m \in Mine(p)
        <4>1. Owner[m] \notin leaky'
          BY <3>1 DEF Mine
        <4>2. Paid(p)' \subseteq Paid(p)
          BY <1>t, <2>3, <2>4, <2>5, <4>1 DEF Paid, Mine
        <4>4. Spoken(p)' \subseteq Spoken(p)
          BY <1>t, <2>g, <2>4, <2>5, <4>1 DEF Spoken, Mine, Going
        <4> QED
          BY <4>2, <4>4
      <3>2. CASE m \notin Mine(p)
        BY <1>t, <2>3, <2>4, <2>g, <3>2 DEF Paid, Spoken, Mine
      <3> QED
        BY <3>1, <3>2
    <2>7. \A p \in People : spent[p] \in Nat
      BY <1>t DEF TypeOK
    <2>8. \A n \in Msgs : Spare(r, n)' => Spare(r, n)
      BY <2>3, <2>4, <2>c DEF Spare, ReviewFirst
    <2> QED
      BY <1>t, <2>1, <2>4, <2>6, <2>7, <2>8, FewerCount
  <1> QED
    BY <1>1, <1>2

LEMMA RunBudget ==
  ASSUME OneRun, TypeOK, TypeOK', BudgetInv, NEW r \in Runs, Start(r) \/ Flush(r) \/ Crash(r)
  PROVE  BudgetInv'
  <1> USE DEF doc, run, db, who, hist
  <1>t. TypeOK /\ (\A q \in Runs : q = r)
    BY DEF OneRun
  <1>1. UNCHANGED <<spent, accepted>> /\ leaky \subseteq leaky'
    BY DEF Start, Flush, Crash
  <1>2. \A n \in Msgs :
          /\ at'[r][n] \in {"send", "clear", "read"} =>
               at[r][n] = at'[r][n] /\ UNCHANGED <<seen, contacted>>
          /\ at[r][n] \in {"told", "recorded"} =>
               at'[r][n] \in {"told", "recorded"} \/ Owner[n] \in leaky'
    <2>1. CASE Start(r)
      BY <1>t, <2>1 DEF Start, Idle, TypeOK
    <2>2. CASE Flush(r)
      BY <2>2 DEF Flush
    <2>3. CASE Crash(r)
      BY <1>t, <2>3 DEF Crash, TypeOK
    <2> QED
      BY <2>1, <2>2, <2>3
  <1>g. \A n \in Msgs : (Going(r, n)' => Going(r, n)) /\ (Spare(r, n)' => Spare(r, n))
    BY <1>1, <1>2 DEF Going, Spare, ReviewFirst
  <1>3. \A p \in People \ leaky' : Paid(p)' \subseteq Paid(p) /\ Spoken(p)' \subseteq Spoken(p)
    BY <1>1, <1>2, <1>g, <1>t DEF Paid, Spoken, Mine
  <1>4. \A p \in People : spent[p] \in Nat
    BY <1>t DEF TypeOK
  <1> QED
    BY <1>1, <1>3, <1>4, <1>g, <1>t, FewerCount

LEMMA RestBudget ==
  ASSUME BudgetInv, (\E p \in People : Lead(p)) \/ (\E m \in Msgs : Desk(m)) PROVE BudgetInv'
  <1>1. UNCHANGED <<at, seen, contacted, spent, accepted, leaky>>
    BY DEF Lead, Reply, Unsubscribe, SuppressPerson, Verified, End, Pause, Resume,
       GapPasses, Desk, Clock, Approve, Reject, Decide, ReturnToReview, ComesDue, LeaseAges,
       WindowSlides, run, db, who, hist
  <1> QED
    BY <1>1 DEF BudgetInv, Paid, Spoken, Going, Spare, ReviewFirst

LEMMA NextBudget ==
  ASSUME OneRun, TypeOK, TypeOK', GapInv, BudgetInv, [Next]_vars PROVE BudgetInv'
  <1>1. CASE UNCHANGED vars
    BY <1>1 DEF vars, BudgetInv, Paid, Spoken, Going, Spare, ReviewFirst, run, db, hist
  <1> QED
    BY <1>1, PrepareBudget, DispatchBudget, RunBudget, RestBudget DEF Next

LEMMA InitLimits == Init => GapInv /\ CapInv /\ BudgetInv
  <1> SUFFICES ASSUME Init PROVE GapInv /\ CapInv /\ BudgetInv
    OBVIOUS
  <1>1. GapInv
    BY DEF Init, GapInv, InGapNow, Going, Away
  <1>2. \A p : Paid(p) = {} /\ Spoken(p) = {}
    BY DEF Init, Paid, Spoken, Mine, Going
  <1>3. \A p \in People : spent[p] = 0
    BY DEF Init
  <1>4. \A r \in Runs, m \in Msgs : ~Spare(r, m)
    BY DEF Init, Spare
  <1> QED
    BY <1>1, <1>2, <1>3, <1>4, InitCap, FS_EmptySet, SendPathAssumption DEF BudgetInv

LEMMA BudgetEnough == ASSUME TypeOK, BudgetInv PROVE BudgetHolds
  <1> SUFFICES ASSUME NEW p \in People \ leaky
               PROVE  Cardinality({m \in Mine(p) \ Replies : accepted[m] > 0}) <= Budget
    BY DEF BudgetHolds
  <1> DEFINE A == {m \in Mine(p) \ Replies : accepted[m] > 0}
  <1>1. A \subseteq Spoken(p)
    BY DEF Spoken
  <1>2. Cardinality(A) <= Cardinality(Spoken(p)) /\ Cardinality(A) \in Nat
    BY <1>1, Parts, FS_Subset, FS_CardinalityType
  <1> QED
    BY <1>2, Parts, SendPathAssumption DEF BudgetInv

\* One run at a time keeps the touch budget, although the budget is read before
\* the sends in flight are counted against it (fireDue.ts 961-963, 791-799).
THEOREM BudgetKept == OneRun => (Spec => []BudgetHolds)
  <1> SUFFICES ASSUME OneRun PROVE Spec => []BudgetHolds
    OBVIOUS
  <1>1. Init => GapInv /\ BudgetInv
    BY InitLimits
  <1>2. TypeOK /\ TypeOK' /\ GapInv /\ BudgetInv /\ [Next]_vars => GapInv' /\ BudgetInv'
    BY NextGap, NextBudget
  <1>3. TypeOK /\ BudgetInv => BudgetHolds
    BY BudgetEnough
  <1> QED
    BY <1>1, <1>2, <1>3, TypeCorrect, PTL DEF Spec

-----------------------------------------------------------------------------
(* SendPath implements Outbox: every step of the runs, the sweeps and the  *)
(* desk is a step of the abstract outbox or leaves it alone.               *)

\* What a run's place with a message, and the message's status once no run is
\* at it, say of its stage.
StageAt(place, st) ==
    CASE place = "check" -> "hand"
      [] place \in {"read", "early"} -> "open"
      [] place = "clear" -> "clear"
      [] place = "send"  -> "launched"
      [] place = "told"  -> "given"
      [] OTHER           -> IF st = "sent" THEN "known" ELSE "box"

\* The places that show in a stage, whatever the message's status.
Shown == Deciding \union {"send", "told"}

LEMMA ShownPlaces == Shown = {"check", "read", "early", "clear", "send", "told"}
  BY DEF Shown, Deciding

\* Where nobody else holds the message, the stage is read off one run's place.
LEMMA StageOfHolder ==
  ASSUME IInv, NEW r \in Runs, NEW m \in Msgs,
         \A q \in Runs \ {r} : ~Holds(q, m)
  PROVE  StageOf(m) = StageAt(at[r][m], status[m])
  <1>1. \A q \in Runs : at[q][m] \in Shown => q = r
    BY DEF Holds, Claimed, Shown, Deciding, InFlight
  <1>2. \A place \in Shown : Some(m, place) <=> at[r][m] = place
    BY <1>1 DEF Some
  <1>3. status[m] = "sent" => at[r][m] \notin Shown
    BY DEF IInv, LeaseKept, Shown
  <1>4. /\ Some(m, "check") <=> at[r][m] = "check"
        /\ Some(m, "read") <=> at[r][m] = "read"
        /\ Some(m, "early") <=> at[r][m] = "early"
        /\ Some(m, "clear") <=> at[r][m] = "clear"
        /\ Some(m, "send") <=> at[r][m] = "send"
        /\ Some(m, "told") <=> at[r][m] = "told"
    BY <1>2, ShownPlaces
  <1> QED
    BY <1>3, <1>4, ShownPlaces DEF StageOf, StageAt

LEMMA HoldsAlone ==
  ASSUME IInv, NEW r \in Runs, NEW m \in Msgs, Holds(r, m)
  PROVE  \A q \in Runs \ {r} : ~Holds(q, m)
  BY DEF IInv, OneHolder

\* A message no run's move and no status write touched keeps its stage.
LEMMA SameStage ==
  ASSUME NEW m \in Msgs, status'[m] = status[m],
         \A q \in Runs : at'[q][m] = at[q][m]
  PROVE  StageOf(m)' = StageOf(m)
  <1>1. \A place \in Places : Some(m, place)' <=> Some(m, place)
    BY DEF Some
  <1> QED
    BY <1>1 DEF StageOf, Places

\* One run moves one message.
LEMMA OneMove ==
  ASSUME IInv, IInv', NEW r \in Runs, NEW m \in Msgs, NEW place \in Places, NEW s \in Statuses,
         \A q \in Runs \ {r} : ~Holds(q, m),
         at' = [at EXCEPT ![r][m] = place], status' = [status EXCEPT ![m] = s]
  PROVE  /\ StageOf(m) = StageAt(at[r][m], status[m])
         /\ StageOf(m)' = StageAt(place, s)
         /\ \A n \in Msgs \ {m} : StageOf(n)' = StageOf(n)
  <1>1. \A q \in Runs, n \in Msgs :
            at'[q][n] = IF q = r /\ n = m THEN place ELSE at[q][n]
    BY DEF IInv, TypeOK
  <1>2. \A n \in Msgs : status'[n] = IF n = m THEN s ELSE status[n]
    BY DEF IInv, TypeOK
  <1>3. ASSUME NEW n \in Msgs, n # m PROVE StageOf(n)' = StageOf(n)
    BY <1>1, <1>2, <1>3, SameStage
  <1>4. \A q \in Runs \ {r} : at[q][m] \notin Shown
    BY DEF Holds, Claimed, Shown, Deciding, InFlight
  <1>5. StageOf(m)' = StageAt(place, s)
    <2>1. \A q \in Shown : Some(m, q)' <=> place = q
      BY <1>1, <1>4 DEF Some
    <2>2. s = "sent" => place \notin Shown
      BY <1>1, <1>2 DEF IInv, LeaseKept, Shown
    <2>3. /\ Some(m, "check")' <=> place = "check"
          /\ Some(m, "read")' <=> place = "read"
          /\ Some(m, "early")' <=> place = "early"
          /\ Some(m, "clear")' <=> place = "clear"
          /\ Some(m, "send")' <=> place = "send"
          /\ Some(m, "told")' <=> place = "told"
      BY <2>1, ShownPlaces
    <2> QED
      BY <2>2, <2>3, <1>2, ShownPlaces DEF StageOf, StageAt
  <1>6. StageOf(m) = StageAt(at[r][m], status[m])
    BY StageOfHolder
  <1> QED
    BY <1>3, <1>5, <1>6

\* The facts that are left alone by a run's own moves.
Rest == <<reviewed, replied, ended, suppressed>>

LEMMA ShutKept ==
  ASSUME UNCHANGED Rest
  PROVE  UNCHANGED {m \in Msgs : Closed(m)} /\ UNCHANGED {m \in Msgs : Barred(m)}
  BY DEF Rest, Closed, Barred

\* A move of one message from the stage it has to the one it gets.
LEMMA BoxMove ==
  ASSUME IInv, IInv', NEW r \in Runs, NEW m \in Msgs, NEW place \in Places, NEW s \in Statuses,
         \A q \in Runs \ {r} : ~Holds(q, m),
         at' = [at EXCEPT ![r][m] = place], status' = [status EXCEPT ![m] = s],
         NEW from, StageAt(at[r][m], status[m]) \in from,
         NEW to, to = StageAt(place, s)
  PROVE  Box!Move(m, from, to)
  <1>1. /\ StageOf(m) = StageAt(at[r][m], status[m])
        /\ StageOf(m)' = StageAt(place, s)
        /\ \A n \in Msgs \ {m} : StageOf(n)' = StageOf(n)
    BY OneMove
  <1>2. [n \in Msgs |-> StageOf(n)][m] \in from
    BY <1>1
  <1>3. [n \in Msgs |-> StageOf(n)]' = [[n \in Msgs |-> StageOf(n)] EXCEPT ![m] = to]
    BY <1>1
  <1> QED
    BY <1>2, <1>3 DEF Box!Move

LEMMA StageAtIs ==
  ASSUME NEW st PROVE
  /\ StageAt("check", st) = "hand"
  /\ StageAt("read", st) = "open"
  /\ StageAt("early", st) = "open"
  /\ StageAt("clear", st) = "clear"
  /\ StageAt("send", st) = "launched"
  /\ StageAt("told", st) = "given"
  /\ \A place \in {"none", "todo", "recorded", "spent"} :
        StageAt(place, st) = IF st = "sent" THEN "known" ELSE "box"
  BY DEF StageAt

LEMMA ClaimBox ==
  ASSUME IInv, IInv', NEW r \in Runs, NEW m \in Msgs, Claim(r, m)
  PROVE  Box!Take(m)
  <1> USE DEF Claim, doc, run, db, who, hist
  <1>1. \A q \in Runs \ {r} : ~Holds(q, m)
    BY DEF Claimable, IInv, LeaseKept, Holds, Claimed, Deciding, InFlight
  <1>2. at[r][m] = "todo" /\ status[m] # "sent"
    BY DEF Turn, Claimable
  <1>3. Box!Move(m, {"box"}, "hand")
    <2>1. StageAt(at[r][m], status[m]) \in {"box"} /\ "hand" = StageAt("check", "sending")
      BY <1>2, StageAtIs
    <2> QED
      BY <1>1, <2>1, BoxMove DEF Place, Places, Statuses
  <1>4. UNCHANGED Rest /\ UNCHANGED <<accepted, blind>>
    BY DEF Rest
  <1> QED
    BY <1>3, <1>4, ShutKept DEF Box!Take, Rest

\* A run lets a message go that the provider did not take.
LEMMA ReleaseBox ==
  ASSUME IInv, IInv', NEW r \in Runs, NEW m \in Msgs,
         NEW s \in {"queued", "awaiting_approval", "skipped", "failed"},
         at[r][m] \in Deciding \union {"send"}, Release(r, m, s),
         UNCHANGED Rest, UNCHANGED <<accepted, blind>>
  PROVE  Box!PutBack(m)
  <1>1. Holds(r, m)
    BY DEF Holds, Claimed, InFlight
  <1>2. StageAt(at[r][m], status[m]) \in {"hand", "open", "clear", "launched"} /\ "box" = StageAt("none", s)
    BY StageAtIs DEF Deciding
  <1>3. Box!Move(m, {"hand", "open", "clear", "launched"}, "box")
    BY <1>1, <1>2, HoldsAlone, BoxMove DEF Release, Place, Places, Statuses
  <1> QED
    BY <1>3, ShutKept DEF Box!PutBack, Rest

\* A run moves on with a message it is deciding on.
LEMMA ForwardBox ==
  ASSUME IInv, IInv', NEW r \in Runs, NEW m \in Msgs, at[r][m] \in Deciding,
         NEW place \in Places, at' = [at EXCEPT ![r][m] = place], UNCHANGED status,
         NEW from, StageAt(at[r][m], status[m]) \in from,
         NEW to, to = StageAt(place, status[m])
  PROVE  Box!Move(m, from, to)
  <1>1. Holds(r, m)
    BY DEF Holds, Claimed, InFlight
  <1>2. status' = [status EXCEPT ![m] = status[m]] /\ status[m] \in Statuses
    BY DEF IInv, TypeOK
  <1> QED
    BY <1>1, <1>2, HoldsAlone, BoxMove

LEMMA LookBox ==
  ASSUME IInv, IInv', NEW r \in Runs, NEW m \in Msgs, Look(r, m)
  PROVE  Box!Look(m)
  <1>1. at[r][m] = "check" /\ ~Closed(m) /\ UNCHANGED status /\ UNCHANGED Rest /\ UNCHANGED <<accepted, blind>>
    BY DEF Look, Verdict, Rest, doc, who, hist
  <1>2. PICK q \in {"read", "early"} : at' = [at EXCEPT ![r][m] = q]
    BY DEF Look, Place
  <1>3. StageAt(at[r][m], status[m]) \in {"hand"} /\ "open" = StageAt(q, status[m])
    BY <1>1, StageAtIs
  <1>4. Box!Move(m, {"hand"}, "open")
    BY <1>1, <1>2, <1>3, ForwardBox DEF Places, Deciding
  <1> QED
    BY <1>1, <1>4, ShutKept DEF Box!Look, Rest

LEMMA PassBox ==
  ASSUME IInv, IInv', NEW r \in Runs, NEW m \in Msgs, Pass(r, m)
  PROVE  Box!Pass(m)
  <1>1. /\ at[r][m] \in {"read", "early"} /\ ~Barred(m) /\ UNCHANGED status
        /\ UNCHANGED Rest /\ UNCHANGED <<accepted, blind>>
        /\ at' = [at EXCEPT ![r][m] = "clear"]
    BY DEF Pass, Checking, Place, Rest, doc, who, hist
  <1>2. StageAt(at[r][m], status[m]) \in {"open"} /\ "clear" = StageAt("clear", status[m])
    BY <1>1, StageAtIs
  <1>3. Box!Move(m, {"open"}, "clear")
    BY <1>1, <1>2, ForwardBox DEF Places, Deciding
  <1> QED
    BY <1>1, <1>3, ShutKept DEF Box!Pass, Rest

LEMMA LaunchBox ==
  ASSUME IInv, IInv', NEW r \in Runs, NEW m \in Msgs, Launch(r, m)
  PROVE  Box!Launch(m)
  <1>1. /\ at[r][m] = "clear" /\ UNCHANGED status
        /\ UNCHANGED Rest /\ UNCHANGED <<accepted, blind>>
        /\ at' = [at EXCEPT ![r][m] = "send"]
    BY DEF Launch, Reserved, Cleared, Place, Rest, doc, who, hist
  <1>2. m \in Gated => m \in reviewed
    BY DEF Launch, Reserved, ReviewFirst, IInv, SnapshotReviewed
  <1>3. StageAt(at[r][m], status[m]) \in {"clear"} /\ "launched" = StageAt("send", status[m])
    BY <1>1, StageAtIs
  <1>4. Box!Move(m, {"clear"}, "launched")
    BY <1>1, <1>3, ForwardBox DEF Places, Deciding
  <1> QED
    BY <1>1, <1>2, <1>4, ShutKept DEF Box!Launch, Rest

LEMMA PrepareBox ==
  ASSUME IInv, IInv', NEW r \in Runs, NEW m \in Msgs, Prepare(r, m)
  PROVE  Box!Next \/ UNCHANGED Box!vars
  <1> USE DEF doc, run, db, who, hist
  <1>1. CASE Claim(r, m)
    BY <1>1, ClaimBox DEF Box!Next
  <1>2. CASE LoseClaim(r, m)
    <2>1. at' = [at EXCEPT ![r][m] = "none"] /\ status' = status /\ at[r][m] = "todo"
      BY <1>2 DEF LoseClaim, Place, Turn
    <2>2. \A n \in Msgs : StageOf(n)' = StageOf(n)
      <3>1. \A n \in Msgs, place \in Shown : Some(n, place)' <=> Some(n, place)
        BY <2>1, ShownPlaces DEF Some, IInv, TypeOK
      <3> QED
        BY <2>1, <3>1, ShownPlaces DEF StageOf
    <2>3. UNCHANGED [n \in Msgs |-> StageOf(n)]
      BY <2>2
    <2>4. UNCHANGED Rest /\ UNCHANGED <<accepted, blind>>
      BY <1>2 DEF LoseClaim, Rest
    <2> QED
      BY <2>3, <2>4, ShutKept DEF Box!vars, Rest
  <1>3. CASE Launch(r, m)
    BY <1>3, LaunchBox DEF Box!Next
  <1>5. CASE Look(r, m)
    BY <1>5, LookBox DEF Box!Next
  <1>6. CASE Pass(r, m)
    BY <1>6, PassBox DEF Box!Next
  <1>4. CASE \/ Turned(r, m) \/ Skip(r, m) \/ Defer(r, m) \/ Broken(r, m) \/ Invalid(r, m)
             \/ Park(r, m) \/ WindowFull(r, m) \/ NoAdapter(r, m) \/ Unsendable(r, m)
    <2>1. at[r][m] \in Deciding /\ UNCHANGED Rest /\ UNCHANGED <<accepted, blind>>
      BY <1>4 DEF Turned, Skip, Defer, Broken, Invalid, Park, WindowFull, NoAdapter, Unsendable,
                  Reserved, Cleared, Checking, Rest, Deciding
    <2>2. PICK s \in {"queued", "awaiting_approval", "skipped", "failed"} : Release(r, m, s)
      BY <1>4 DEF Turned, Skip, Defer, Broken, Invalid, Park, WindowFull, NoAdapter, Unsendable
    <2> QED
      BY <2>1, <2>2, ReleaseBox DEF Box!Next
  <1> QED
    BY <1>1, <1>2, <1>3, <1>4, <1>5, <1>6 DEF Prepare

-----------------------------------------------------------------------------
\* Nothing a message's stage is read off changes.
LEMMA StagesKept ==
  ASSUME \A n \in Msgs : (status'[n] = "sent") <=> (status[n] = "sent"),
         \A n \in Msgs, q \in Runs, place \in Shown :
            (at'[q][n] = place) <=> (at[q][n] = place)
  PROVE  UNCHANGED [n \in Msgs |-> StageOf(n)]
  <1>1. \A n \in Msgs, place \in Shown : Some(n, place)' <=> Some(n, place)
    BY DEF Some
  <1>2. \A n \in Msgs : StageOf(n)' = StageOf(n)
    BY <1>1, ShownPlaces DEF StageOf
  <1> QED
    BY <1>2

LEMMA AcceptBox ==
  ASSUME IInv, IInv', NEW r \in Runs, NEW m \in Msgs, Accept(r, m)
  PROVE  Box!Deliver(m)
  <1> USE DEF Accept, doc, run, db, who, hist
  <1>1. Holds(r, m)
    BY DEF Holds, Claimed, InFlight
  <1>2. at' = [at EXCEPT ![r][m] = "told"] /\ status' = [status EXCEPT ![m] = status[m]]
    BY DEF Place, IInv, TypeOK
  <1>3. StageAt(at[r][m], status[m]) \in {"launched"} /\ "given" = StageAt("told", status[m])
    BY StageAtIs
  <1>4. status[m] \in Statuses /\ "told" \in Places
    BY DEF IInv, TypeOK, Places
  <1>5. Box!Move(m, {"launched"}, "given")
    BY <1>1, <1>2, <1>3, <1>4, HoldsAlone, BoxMove
  <1>6. UNCHANGED Rest /\ UNCHANGED blind /\ accepted' = [accepted EXCEPT ![m] = @ + 1]
    BY DEF Rest, Accepted
  <1> QED
    BY <1>5, <1>6, ShutKept DEF Box!Deliver, Box!Count, Rest

LEMMA AcceptUnheardBox ==
  ASSUME IInv, IInv', NEW r \in Runs, NEW m \in Msgs, AcceptUnheard(r, m)
  PROVE  Box!DeliverUnheard(m)
  <1>1. Holds(r, m) /\ at[r][m] = "send"
    BY DEF AcceptUnheard, Holds, Claimed, InFlight
  <1>2. PICK s \in {"queued", "failed"} : Release(r, m, s)
    BY DEF AcceptUnheard
  <1>3. StageAt(at[r][m], status[m]) \in {"launched"} /\ "box" = StageAt("none", s)
    BY <1>1, StageAtIs
  <1>4. Box!Move(m, {"launched"}, "box")
    BY <1>1, <1>2, <1>3, HoldsAlone, BoxMove DEF Release, Place, Places, Statuses
  <1>5. UNCHANGED Rest /\ accepted' = [accepted EXCEPT ![m] = @ + 1]
    BY DEF AcceptUnheard, Rest, Accepted, who
  <1>6. blind' = [blind EXCEPT ![m] = @ + 1]
    BY MissType DEF AcceptUnheard, IInv
  <1> QED
    BY <1>4, <1>5, <1>6, ShutKept DEF Box!DeliverUnheard, Box!Count, Rest

LEMMA RecordBox ==
  ASSUME IInv, IInv', NEW r \in Runs, NEW m \in Msgs, Record(r, m)
  PROVE  Box!Know(m)
  <1> USE DEF Record, doc, run, db, who, hist
  <1>1. Holds(r, m)
    BY DEF Holds, Claimed, InFlight
  <1>2. StageAt(at[r][m], status[m]) \in {"given"} /\ "known" = StageAt("recorded", "sent")
    BY StageAtIs
  <1>3. Box!Move(m, {"given"}, "known")
    BY <1>1, <1>2, HoldsAlone, BoxMove DEF Place, Places, Statuses
  <1>4. UNCHANGED Rest /\ UNCHANGED <<accepted, blind>>
    BY DEF Rest
  <1> QED
    BY <1>3, <1>4, ShutKept DEF Box!Know, Rest

LEMMA WriteThrowsBox ==
  ASSUME IInv, IInv', NEW r \in Runs, NEW m \in Msgs, WriteThrows(r, m)
  PROVE  Box!Misread(m)
  <1>1. Holds(r, m) /\ at[r][m] \in {"told", "recorded", "spent"}
    BY DEF WriteThrows, Holds, Claimed, InFlight
  <1>2. at[r][m] \in {"recorded", "spent"} => status[m] = "sent"
    BY DEF IInv, LeaseKept
  <1>3. StageAt(at[r][m], status[m]) \in {"given", "known"} /\ "box" = StageAt("none", "failed")
    BY <1>1, <1>2, StageAtIs
  <1>4. Box!Move(m, {"given", "known"}, "box")
    BY <1>1, <1>3, HoldsAlone, BoxMove DEF WriteThrows, Release, Place, Places, Statuses
  <1>5. UNCHANGED Rest /\ UNCHANGED accepted
    BY DEF WriteThrows, Rest, who
  <1>6. blind' = [blind EXCEPT ![m] = @ + 1]
    BY MissType DEF WriteThrows, IInv
  <1> QED
    BY <1>4, <1>5, <1>6, ShutKept DEF Box!Misread, Box!Count, Rest

LEMMA DispatchBox ==
  ASSUME IInv, IInv', NEW r \in Runs, NEW m \in Msgs, Dispatch(r, m)
  PROVE  Box!Next \/ UNCHANGED Box!vars
  <1>1. CASE Accept(r, m)
    BY <1>1, AcceptBox DEF Box!Next
  <1>2. CASE Retry(r, m) \/ Refuse(r, m)
    <2>1. at[r][m] = "send" /\ UNCHANGED Rest /\ UNCHANGED <<accepted, blind>>
      BY <1>2 DEF Retry, Refuse, Rest, doc, run, db, who, hist
    <2>2. PICK s \in {"queued", "failed"} : Release(r, m, s)
      BY <1>2 DEF Retry, Refuse
    <2> QED
      BY <2>1, <2>2, ReleaseBox DEF Box!Next
  <1>3. CASE AcceptUnheard(r, m)
    BY <1>3, AcceptUnheardBox DEF Box!Next
  <1>4. CASE Record(r, m)
    BY <1>4, RecordBox DEF Box!Next
  <1>5. CASE Spend(r, m) \/ Contact(r, m)
    <2>1. PICK place \in {"spent", "none"} : Place(r, m, place)
      BY <1>5 DEF Spend, Contact
    <2>2. at[r][m] \in {"recorded", "spent"} /\ UNCHANGED status
      BY <1>5 DEF Spend, Contact, doc
    <2>3. UNCHANGED [n \in Msgs |-> StageOf(n)]
      BY <2>1, <2>2, StagesKept, ShownPlaces DEF Place, IInv, TypeOK
    <2>4. UNCHANGED Rest /\ UNCHANGED <<accepted, blind>>
      BY <1>5 DEF Spend, Contact, Rest, doc, who, hist
    <2> QED
      BY <2>3, <2>4, ShutKept DEF Box!vars, Rest
  <1>6. CASE WriteThrows(r, m)
    BY <1>6, WriteThrowsBox DEF Box!Next
  <1> QED
    BY <1>1, <1>2, <1>3, <1>4, <1>5, <1>6 DEF Dispatch

\* A killed run lets go of everything it held, and of nothing else.
LEMMA CrashBox ==
  ASSUME IInv, IInv', NEW r \in Runs, Crash(r)
  PROVE  \E M \in SUBSET Msgs : Box!Die(M)
  <1> DEFINE M == {m \in Msgs : at[r][m] \in Shown}
  <1> USE DEF Crash, doc, run, db, who, hist
  <1>1. \A q \in Runs, n \in Msgs : at'[q][n] = IF q = r THEN "none" ELSE at[q][n]
    BY DEF IInv, TypeOK
  <1>2. \A m \in M : StageOf(m) = StageAt(at[r][m], status[m]) /\ status[m] # "sent"
    BY HoldsAlone, StageOfHolder DEF Holds, Claimed, IInv, LeaseKept, Shown, Deciding, InFlight
  <1>3. \A m \in M : StageOf(m) \in {"hand", "open", "clear", "launched", "given"}
    BY <1>2, StageAtIs, ShownPlaces
  <1>4. \A m \in M : StageOf(m)' = "box"
    <2> SUFFICES ASSUME NEW m \in M PROVE StageOf(m)' = "box"
      OBVIOUS
    <2>1. \A q \in Runs \ {r} : ~Holds(q, m)
      BY HoldsAlone DEF Holds, Claimed, Shown, InFlight
    <2>2. \A place \in Shown : ~Some(m, place)'
      BY <1>1, <2>1, ShownPlaces DEF Some, Holds, Claimed, Shown, InFlight
    <2>3. status'[m] # "sent"
      BY <1>2
    <2> QED
      BY <2>2, <2>3, ShownPlaces DEF StageOf
  <1>5. \A m \in Msgs \ M : StageOf(m)' = StageOf(m)
    <2> SUFFICES ASSUME NEW m \in Msgs \ M PROVE StageOf(m)' = StageOf(m)
      OBVIOUS
    <2>1. \A place \in Shown : Some(m, place)' <=> Some(m, place)
      BY <1>1, ShownPlaces DEF Some
    <2> QED
      BY <2>1, ShownPlaces DEF StageOf
  <1>6. \A m \in Msgs : (m \in M /\ StageOf(m) = "given") <=> at[r][m] = "told"
    BY <1>2, StageAtIs, ShownPlaces
  <1>7. blind' = [m \in Msgs |-> IF m \in M /\ [n \in Msgs |-> StageOf(n)][m] = "given"
                                 THEN blind[m] + 1 ELSE blind[m]]
    BY <1>6
  <1>8. [n \in Msgs |-> StageOf(n)]'
          = [m \in Msgs |-> IF m \in M THEN "box" ELSE [n \in Msgs |-> StageOf(n)][m]]
    BY <1>4, <1>5
  <1>9. \A m \in M : [n \in Msgs |-> StageOf(n)][m] \in {"hand", "open", "clear", "launched", "given"}
    BY <1>3
  <1>10. UNCHANGED Rest /\ UNCHANGED accepted
    BY DEF Rest
  <1>11. Box!Die(M)
    BY <1>7, <1>8, <1>9, <1>10, ShutKept DEF Box!Die, Rest
  <1> QED
    BY <1>11

LEMMA RunBox ==
  ASSUME IInv, IInv', NEW r \in Runs, Start(r) \/ Flush(r) \/ Crash(r)
  PROVE  Box!Next \/ UNCHANGED Box!vars
  <1>1. CASE Start(r) \/ Flush(r)
    <2>1. UNCHANGED status /\ \A n \in Msgs, q \in Runs, place \in Shown :
                                  (at'[q][n] = place) <=> (at[q][n] = place)
      BY <1>1, ShownPlaces DEF Start, Flush, Idle, doc, IInv, TypeOK
    <2>2. UNCHANGED [n \in Msgs |-> StageOf(n)]
      BY <2>1, StagesKept
    <2>3. UNCHANGED Rest /\ UNCHANGED <<accepted, blind>>
      BY <1>1 DEF Start, Flush, Rest, doc, who, hist
    <2> QED
      BY <2>2, <2>3, ShutKept DEF Box!vars, Rest
  <1>2. CASE Crash(r)
    BY <1>2, CrashBox DEF Box!Next
  <1> QED
    BY <1>1, <1>2

-----------------------------------------------------------------------------
(* The leads and the desk. *)

\* A sweep takes no claimed and no sent message, and stops leads for good.
LEMMA LeadBox ==
  ASSUME IInv, IInv', NEW p \in People, Lead(p)
  PROVE  Box!Next \/ UNCHANGED Box!vars
  <1> DEFINE M == {m \in Msgs : Closed(m)}'
             N == {m \in Msgs : Barred(m)}'
  <1> USE DEF doc, run, db, who, hist
  <1>1. UNCHANGED <<at, reviewed, accepted, blind>>
    BY DEF Lead, Reply, Unsubscribe, SuppressPerson, Verified, End, Pause, Resume, GapPasses
  <1>2. \A n \in Msgs : (status'[n] = "sent") <=> (status[n] = "sent")
    BY DEF Lead, Reply, Unsubscribe, SuppressPerson, Verified, End, Pause, Resume, GapPasses,
           Sweep, IInv, TypeOK
  <1>3. UNCHANGED [n \in Msgs |-> StageOf(n)]
    BY <1>1, <1>2, StagesKept
  <1>4. replied \subseteq replied' /\ ended \subseteq ended' /\ suppressed \subseteq suppressed'
    BY DEF Lead, Reply, Unsubscribe, SuppressPerson, Verified, End, Pause, Resume, GapPasses
  <1>5. /\ M = {m \in Msgs : Closed(m)} \union M /\ M \in SUBSET Msgs
        /\ N = {m \in Msgs : Barred(m)} \union N /\ N \in SUBSET Msgs
    BY <1>4 DEF Closed, Barred
  <1>6. Box!Close(M, N)
    BY <1>1, <1>3, <1>5 DEF Box!Close
  <1> QED
    BY <1>5, <1>6 DEF Box!Next

LEMMA DecideBox ==
  ASSUME IInv, NEW m \in Msgs, NEW s \in {"queued", "rejected"}, Decide(m, s)
  PROVE  Box!Review(m)
  <1> USE DEF Decide, doc, run, db, who, hist
  <1>1. status[m] \in {"queued", "awaiting_approval"}
    BY DEF Decidable
  <1>2. \A r \in Runs : ~Holds(r, m)
    BY <1>1 DEF IInv, LeaseKept, Holds, Claimed, Deciding, InFlight
  <1>3. StageOf(m) = "box"
    BY <1>1, <1>2 DEF StageOf, Some, Holds, Claimed, Deciding, InFlight
  <1>4. UNCHANGED [n \in Msgs |-> StageOf(n)]
    BY <1>1, StagesKept DEF IInv, TypeOK
  <1>5. /\ UNCHANGED {n \in Msgs : Closed(n)} /\ UNCHANGED {n \in Msgs : Barred(n)}
        /\ UNCHANGED <<accepted, blind>>
    BY DEF Closed, Barred
  <1> QED
    BY <1>3, <1>4, <1>5 DEF Box!Review

LEMMA DeskBox ==
  ASSUME IInv, IInv', NEW m \in Msgs, Desk(m)
  PROVE  Box!Next \/ UNCHANGED Box!vars
  <1> USE DEF doc, run, db, who, hist
  <1>1. CASE Approve(m) \/ Reject(m)
    BY <1>1, DecideBox DEF Approve, Reject, Box!Next
  <1>2. CASE ReturnToReview(m) \/ ComesDue(m) \/ LeaseAges(m) \/ WindowSlides(m)
    <2>1. UNCHANGED at /\ \A n \in Msgs : (status'[n] = "sent") <=> (status[n] = "sent")
      BY <1>2 DEF ReturnToReview, ComesDue, LeaseAges, WindowSlides, IInv, TypeOK
    <2>2. UNCHANGED [n \in Msgs |-> StageOf(n)]
      BY <2>1, StagesKept
    <2>3. UNCHANGED Rest /\ UNCHANGED <<accepted, blind>>
      BY <1>2 DEF ReturnToReview, ComesDue, LeaseAges, WindowSlides, Rest
    <2> QED
      BY <2>2, <2>3, ShutKept DEF Box!vars, Rest
  <1> QED
    BY <1>1, <1>2 DEF Desk, Clock

\* SendPath implements Outbox for any messages, runs, leads, limits and events:
\* whatever overlapping runs, crashes, failed writes, sweeps and decisions do to
\* a message is what one careful hand could have done.
THEOREM SendPathImplementsOutbox == Spec => ImplementsOutbox
  <1>1. Init => Box!Init
    <2> SUFFICES ASSUME Init PROVE Box!Init
      OBVIOUS
    <2>1. \A m \in Msgs : StageOf(m) = "box"
      BY DEF Init, StageOf, Some
    <2>2. {m \in Msgs : Closed(m)} = {} /\ {m \in Msgs : Barred(m)} = {}
      BY DEF Init, Closed, Barred
    <2> QED
      BY <2>1, <2>2 DEF Init, Box!Init
  <1>2. IInv /\ IInv' /\ [Next]_vars => [Box!Next]_(Box!vars)
    <2> SUFFICES ASSUME IInv, IInv', [Next]_vars PROVE Box!Next \/ UNCHANGED Box!vars
      OBVIOUS
    <2>1. CASE UNCHANGED vars
      <3>1. UNCHANGED [n \in Msgs |-> StageOf(n)]
        BY <2>1, StagesKept DEF vars, doc, run
      <3>2. UNCHANGED Rest /\ UNCHANGED <<accepted, blind>>
        BY <2>1 DEF vars, doc, who, hist, Rest
      <3> QED
        BY <3>1, <3>2, ShutKept DEF Box!vars, Rest
    <2>2. CASE Next
      BY <2>2, RunBox, PrepareBox, DispatchBox, LeadBox, DeskBox DEF Next
    <2> QED
      BY <2>1, <2>2
  <1> QED
    BY <1>1, <1>2, SpecIInv, PTL DEF Spec, ImplementsOutbox, Box!Spec

-----------------------------------------------------------------------------
(* The desk beside the send.  Its calls write by id alone, so the leases   *)
(* are not kept there; types and the one message a run decides at a time   *)
(* are.                                                                    *)

Base == TypeOK /\ OneCheck

LEMMA PrepareBase == ASSUME Base, NEW r \in Runs, NEW m \in Msgs, Prepare(r, m) PROVE Base'
  <1> USE DEF doc, db, who, hist
  <1>t. TypeOK /\ OneCheck
    BY DEF Base
  <1>1. /\ UNCHANGED <<reviewed, seen, window, spent, recent, replied, ended, suppressed, paused,
                        accepted, blind, burst, fresh, leaky, late>>
        /\ due' \subseteq due /\ stale' \subseteq stale
    BY DEF Prepare, Claim, LoseClaim, Look, Turned, Broken, Skip, Defer, Pass, Invalid, Park,
           WindowFull, NoAdapter, Unsendable, Launch
  <1>f. flying' \subseteq flying
    BY DEF Prepare, Claim, LoseClaim, Look, Turned, Broken, Skip, Defer, Pass, Invalid, Park,
           WindowFull, NoAdapter, Unsendable, Launch, Release
  <1>2. status' = status \/ \E s \in Statuses : status' = [status EXCEPT ![m] = s]
    BY DEF Prepare, Claim, LoseClaim, Look, Turned, Broken, Skip, Defer, Pass, Invalid, Park,
           WindowFull, NoAdapter, Unsendable, Launch, Release, Statuses
  <1>3. faults' \in Nat
    BY <1>t DEF Prepare, Claim, LoseClaim, Look, Turned, Broken, Skip, Defer, Pass, Invalid, Park,
           WindowFull, NoAdapter, Unsendable, Launch, Busy, Fault, TypeOK
  <1>4. Left(r) \in Int
    BY <1>t, LeftType
  <1>5. contacted' \in [Runs -> SUBSET People]
    <2>1. CASE Pass(r, m)
      BY <1>t, <2>1, PassShape
    <2>2. CASE ~Pass(r, m)
      BY <1>t, <2>2 DEF Prepare, Claim, LoseClaim, Look, Turned, Broken, Skip, Defer, Invalid, Park,
             WindowFull, NoAdapter, Unsendable, Launch, TypeOK
    <2> QED
      BY <2>1, <2>2
  <1>r. room' \in [Runs -> Int]
    <2>1. CASE Launch(r, m)
      BY <1>t, <1>4, <2>1, LaunchShape DEF TypeOK
    <2>2. CASE ~Launch(r, m)
      BY <1>t, <1>4, <2>2, PrepareShape DEF TypeOK
    <2> QED
      BY <2>1, <2>2
  <1>6. CASE Launch(r, m)
    <2>1. at[r][m] = "clear" /\ at' = [at EXCEPT ![r][m] = "send"]
      BY <1>t, <1>6, LaunchShape
    <2>2. wave[r] < Concurrency /\ wave' = [wave EXCEPT ![r] = @ + 1]
      BY <1>t, <1>6, <2>1 DEF OneCheck, Launch, Deciding
    <2>3. at' \in [Runs -> [Msgs -> Places]]
      BY <1>t, <2>1 DEF TypeOK, Places
    <2>6. wave[r] + 1 \in 0 .. Concurrency
      BY <1>t, <2>2, SendPathAssumption DEF TypeOK
    <2>7. wave' \in [Runs -> 0 .. Concurrency]
      BY <1>t, <2>2, <2>6 DEF TypeOK
    <2>4. TypeOK'
      BY <1>t, <1>1, <1>f, <1>2, <1>3, <1>5, <1>r, <2>3, <2>7 DEF TypeOK
    <2>8. \A q \in Runs, n \in Msgs : at'[q][n] \in Deciding =>
             /\ at[q][n] \in Deciding /\ <<q, n>> # <<r, m>>
             /\ q = r => n = m
      BY <1>t, <2>1 DEF OneCheck, TypeOK, Deciding
    <2>9. \A q \in Runs \ {r} : wave'[q] = wave[q]
      BY <1>t, <2>2 DEF TypeOK
    <2>5. OneCheck'
      BY <1>t, <2>8, <2>9 DEF OneCheck
    <2> QED
      BY <2>4, <2>5 DEF Base
  <1>7. CASE ~Launch(r, m)
    <2>1. wave' = wave
      BY <1>7 DEF Prepare, Claim, LoseClaim, Look, Turned, Broken, Skip, Defer, Pass, Invalid, Park,
             WindowFull, NoAdapter, Unsendable
    <2>2. PICK q \in {"none"} \union Deciding : at' = [at EXCEPT ![r][m] = q]
      BY <1>t, <1>7, PrepareShape
    <2>3. at' \in [Runs -> [Msgs -> Places]]
      BY <1>t, <2>2 DEF TypeOK, Places, Deciding
    <2>4. TypeOK'
      BY <1>t, <1>1, <1>f, <1>2, <1>3, <1>5, <1>r, <2>1, <2>3 DEF TypeOK
    <2>5. \/ /\ wave[r] < Concurrency
             /\ \A n \in Msgs : at[r][n] \notin Deciding
          \/ at[r][m] \in Deciding
          \/ q = "none"
      <3>1. CASE Claim(r, m)
        BY <3>1 DEF Claim, Turn
      <3>2. CASE LoseClaim(r, m)
        <4>1. at' = [at EXCEPT ![r][m] = "none"]
          BY <3>2 DEF LoseClaim, Place
        <4> QED
          BY <1>t, <2>2, <4>1 DEF TypeOK
      <3>3. CASE ~Claim(r, m) /\ ~LoseClaim(r, m)
        BY <1>7, <3>3 DEF Prepare, Look, Turned, Broken, Skip, Defer, Pass, Invalid, Park,
               WindowFull, NoAdapter, Unsendable, Reserved, Cleared, Checking, Deciding
      <3> QED
        BY <3>1, <3>2, <3>3
    <2>6. OneCheck'
      <3>1. \A p \in Runs, n \in Msgs :
               at'[p][n] = IF p = r /\ n = m THEN q ELSE at[p][n]
        BY <1>t, <2>2 DEF TypeOK
      <3>2. CASE q \in Deciding
        <4>1. wave[r] < Concurrency /\ \A n \in Msgs \ {m} : at[r][n] \notin Deciding
          BY <1>t, <2>5, <3>2 DEF OneCheck, Deciding
        <4> QED
          BY <1>t, <2>1, <3>1, <4>1 DEF OneCheck
      <3>3. CASE q \notin Deciding
        BY <1>t, <2>1, <3>1, <3>3 DEF OneCheck
      <3> QED
        BY <3>2, <3>3
    <2> QED
      BY <2>4, <2>6 DEF Base
  <1> QED
    BY <1>6, <1>7

LEMMA DispatchBase == ASSUME Base, NEW r \in Runs, NEW m \in Msgs, Dispatch(r, m) PROVE Base'
  <1> USE DEF doc, db, who, hist
  <1>t. TypeOK /\ OneCheck
    BY DEF Base
  <1>1. /\ UNCHANGED <<reviewed, stale, seen, wave, contacted, replied, ended, suppressed, paused>>
        /\ due' \subseteq due
    BY DEF Dispatch, Accept, Retry, Refuse, AcceptUnheard, Record, Spend, Contact, WriteThrows
  <1>2. status' = status \/ \E s \in Statuses : status' = [status EXCEPT ![m] = s]
    BY DEF Dispatch, Accept, Retry, Refuse, AcceptUnheard, Record, Spend, Contact, WriteThrows,
       Release, Statuses
  <1>3. \E q \in {"none", "told", "recorded", "spent"} : at' = [at EXCEPT ![r][m] = q]
    BY DEF Dispatch, Accept, Retry, Refuse, AcceptUnheard, Record, Spend, Contact, WriteThrows,
       Release, Place
  <1>4. room' = room \/ room' = [room EXCEPT ![r] = @ + 1]
    BY DEF Dispatch, Accept, Retry, Refuse, AcceptUnheard, Record, Spend, Contact, WriteThrows
  <1>5. /\ window' \in {window, window \union {m}}
        /\ recent' \in {recent, recent \union {Owner[m]}}
        /\ spent' = spent \/ spent' = [spent EXCEPT ![Owner[m]] = @ + 1]
    BY DEF Dispatch, Accept, Retry, Refuse, AcceptUnheard, Record, Spend, Contact, WriteThrows
  <1>6. /\ accepted' = accepted \/ accepted' = [accepted EXCEPT ![m] = @ + 1]
        /\ burst' \subseteq burst \union {m} /\ fresh' \subseteq fresh \union {m}
        /\ late' \subseteq late \union {m} /\ flying' \subseteq flying
    BY DEF Dispatch, Accept, Retry, Refuse, AcceptUnheard, Record, Spend, Contact, WriteThrows, Accepted, Release
  <1>7. /\ blind' = blind \/ blind' = [blind EXCEPT ![m] = @ + 1]
        /\ leaky' \subseteq leaky \union {Owner[m]}
    BY <1>t, Missed DEF Dispatch, Accept, Retry, Refuse, AcceptUnheard, Record, Spend, Contact, WriteThrows
  <1>8. faults' \in Nat
    BY <1>t DEF Dispatch, Accept, Retry, Refuse, AcceptUnheard, Record, Spend, Contact, WriteThrows,
       Accepted, Busy, Fault, TypeOK
  <1>9. TypeOK'
    <2>1. Owner[m] \in People
      BY SendPathAssumption
    <2>2. status' \in [Msgs -> Statuses] /\ at' \in [Runs -> [Msgs -> Places]] /\ room' \in [Runs -> Int]
      BY <1>t, <1>2, <1>3, <1>4 DEF TypeOK, Places
    <2>3. window' \subseteq Msgs
      BY <1>t, <1>5 DEF TypeOK
    <2>6. recent' \subseteq People
      BY <1>t, <1>5, <2>1 DEF TypeOK
    <2>7. spent' \in [People -> Nat]
      <3>1. CASE spent' = spent
        BY <1>t, <3>1 DEF TypeOK
      <3>2. CASE spent' = [spent EXCEPT ![Owner[m]] = @ + 1]
        BY <1>t, <2>1, <3>2 DEF TypeOK
      <3> QED
        BY <1>5, <3>1, <3>2
    <2>4. accepted' \in [Msgs -> Nat] /\ burst' \subseteq Msgs /\ fresh' \subseteq Msgs
          /\ late' \subseteq Msgs /\ flying' \subseteq Msgs
      BY <1>t, <1>6 DEF TypeOK
    <2>5. blind' \in [Msgs -> Nat] /\ leaky' \subseteq People
      BY <1>t, <1>7, <2>1 DEF TypeOK
    <2> QED
      BY <1>t, <1>1, <1>8, <2>2, <2>3, <2>4, <2>5, <2>6, <2>7 DEF TypeOK
  <1>10. OneCheck'
    BY <1>t, <1>1, <1>3 DEF OneCheck, TypeOK, Deciding
  <1> QED
    BY <1>9, <1>10 DEF Base

LEMMA RunBase == ASSUME Base, NEW r \in Runs, Start(r) \/ Flush(r) \/ Crash(r) PROVE Base'
  <1> USE DEF doc, run, db, who, hist
  <1>t. TypeOK /\ OneCheck
    BY DEF Base
  <1>1. CASE Start(r)
    <2>1. PICK S \in Batches :
            /\ at' = [at EXCEPT ![r] = [m \in Msgs |-> IF m \in S THEN "todo" ELSE "none"]]
            /\ seen' = [seen EXCEPT ![r] = S \cap reviewed]
      BY <1>1 DEF Start
    <2>2. TypeOK'
      BY <1>t, <1>1, <2>1, SendPathAssumption DEF Start, TypeOK, Places, Unread
    <2>3. OneCheck'
      BY <1>t, <1>1, <2>1 DEF Start, OneCheck, TypeOK, Deciding
    <2> QED
      BY <2>2, <2>3 DEF Base
  <1>2. CASE Flush(r)
    <2>1. TypeOK'
      BY <1>t, <1>2, SendPathAssumption DEF Flush, TypeOK
    <2>2. OneCheck'
      BY <1>t, <1>2, SendPathAssumption DEF Flush, OneCheck, TypeOK, Deciding
    <2> QED
      BY <2>1, <2>2 DEF Base
  <1>3. CASE Crash(r)
    <2>1. TypeOK'
      BY <1>t, <1>3, SendPathAssumption DEF Crash, Fault, TypeOK, Places
    <2>2. OneCheck'
      BY <1>t, <1>3 DEF Crash, OneCheck, TypeOK, Deciding
    <2> QED
      BY <2>1, <2>2 DEF Base
  <1> QED
    BY <1>1, <1>2, <1>3

LEMMA LeadBase == ASSUME Base, NEW p \in People, Lead(p) PROVE Base'
  <1> USE DEF doc, run, db, who, hist
  <1>t. TypeOK /\ OneCheck
    BY DEF Base
  <1>1. /\ UNCHANGED <<due, reviewed, stale, at, seen, room, contacted, wave, window, spent,
                        accepted, blind, burst, leaky, late, faults>>
        /\ replied' \subseteq People /\ ended' \subseteq People /\ suppressed' \subseteq People
        /\ paused' \subseteq People /\ recent' \subseteq recent /\ fresh' \subseteq fresh
        /\ flying' \subseteq flying \union Msgs
    BY <1>t DEF Lead, Reply, Unsubscribe, SuppressPerson, Verified, End, Pause, Resume, GapPasses,
       PastLook, PastPass, Mine, TypeOK
  <1>2. status' \in [Msgs -> Statuses]
    BY <1>t DEF Lead, Reply, Unsubscribe, SuppressPerson, Verified, End, Pause, Resume, GapPasses,
       Sweep, TypeOK, Statuses
  <1>3. TypeOK'
    BY <1>t, <1>1, <1>2 DEF TypeOK
  <1>4. OneCheck'
    BY <1>t, <1>1 DEF OneCheck
  <1> QED
    BY <1>3, <1>4 DEF Base

LEMMA DecideBase == ASSUME Base, NEW m \in Msgs, Desk(m) PROVE Base'
  <1> USE DEF doc, run, db, who, hist
  <1>t. TypeOK /\ OneCheck
    BY DEF Base
  <1>1. /\ UNCHANGED <<at, seen, room, contacted, wave, spent, recent, replied, ended, suppressed,
                        paused, accepted, blind, fresh, leaky, flying, late, faults>>
        /\ due' \subseteq due \union {m} /\ reviewed' \subseteq reviewed \union {m}
        /\ stale' \subseteq stale \union {m} /\ window' \subseteq window /\ burst' \subseteq burst
    BY DEF Desk, Clock, Approve, Reject, Decide, ReturnToReview, ComesDue, LeaseAges, WindowSlides
  <1>2. status' = status \/ \E s \in Statuses : status' = [status EXCEPT ![m] = s]
    BY DEF Desk, Clock, Approve, Reject, Decide, ReturnToReview, ComesDue, LeaseAges, WindowSlides, Statuses
  <1>3. TypeOK'
    BY <1>t, <1>1, <1>2 DEF TypeOK
  <1>4. OneCheck'
    BY <1>t, <1>1 DEF OneCheck
  <1> QED
    BY <1>3, <1>4 DEF Base

LEMMA NextBase == ASSUME Base, [Next]_vars PROVE Base'
  <1>1. CASE UNCHANGED vars
    BY <1>1 DEF vars, doc, run, db, who, hist, Base, TypeOK, OneCheck
  <1> QED
    BY <1>1, PrepareBase, DispatchBase, RunBase, LeadBase, DecideBase DEF Next

\* The writes of the desk; every other step is one of the send path, or none.
Writes(m) == EditMessage(m) \/ RescheduleMessage(m) \/ RegenerateMessage(m)

LEMMA SendOrWrite ==
  ASSUME [DeskNext]_allVars PROVE [Next]_vars \/ \E m \in OnDesk : Writes(m)
  <1>1. CASE \E r \in Runs : DeskStart(r)
    BY <1>1 DEF DeskStart, Next
  <1>2. CASE \E r \in Runs, m \in Msgs :
               DeskAccept(r, m) \/ DeskPark(r, m) \/ DeskRetry(r, m) \/ DeskRecord(r, m) \/ RunOn(r, m)
    BY <1>2 DEF DeskAccept, DeskPark, DeskRetry, DeskRecord, RunOn, Prepare, Dispatch, Next
  <1>3. CASE \E op \in Ops, m \in OnDesk : Open(op, m)
    BY <1>3 DEF Open
  <1>4. CASE Beside
    BY <1>4 DEF Beside, Next, Desk
  <1>5. CASE UNCHANGED allVars
    BY <1>5 DEF allVars
  <1>6. CASE \E m \in Msgs : DeskDecide(m)
    BY <1>6 DEF DeskDecide, Next, Desk
  <1> QED
    BY <1>1, <1>2, <1>3, <1>4, <1>5, <1>6 DEF DeskNext, Writes

LEMMA WriteBase == ASSUME Base, NEW m \in OnDesk, Writes(m) PROVE Base'
  <1>1. m \in Msgs
    BY DeskAssumption
  <1>2. /\ UNCHANGED <<run, db, who, hist, stale>>
        /\ due' \subseteq due \union {m} /\ reviewed' \subseteq reviewed
        /\ status' = status \/ \E s \in Statuses : status' = [status EXCEPT ![m] = s]
    BY DEF Writes, EditMessage, RescheduleMessage, RegenerateMessage, ToRewrite, Land, Statuses
  <1>3. TypeOK'
    BY <1>1, <1>2 DEF Base, TypeOK, run, db, who, hist
  <1>4. OneCheck'
    BY <1>2 DEF Base, OneCheck, run
  <1> QED
    BY <1>3, <1>4 DEF Base

LEMMA DeskBase == DeskSpec => []Base
  <1>1. DeskInit => Base
    BY SendPathAssumption DEF DeskInit, Init, Base, TypeOK, OneCheck, Deciding, Statuses, Places, Unread
  <1>2. Base /\ [DeskNext]_allVars => Base'
    BY SendOrWrite, NextBase, WriteBase
  <1> QED
    BY <1>1, <1>2, PTL DEF DeskSpec

\* The gap, the channel's limit and the budget are kept beside the desk too:
\* its writes touch nothing they are counted from.
LimitInv == GapInv /\ CapInv /\ BudgetInv

LEMMA DeskLimits == OneRun => (DeskSpec => []LimitInv)
  <1> SUFFICES ASSUME OneRun PROVE DeskSpec => []LimitInv
    OBVIOUS
  <1>1. DeskInit => LimitInv
    BY InitLimits DEF DeskInit, LimitInv
  <1>2. TypeOK /\ TypeOK' /\ LimitInv /\ [DeskNext]_allVars => LimitInv'
    <2> SUFFICES ASSUME TypeOK, TypeOK', LimitInv, [DeskNext]_allVars PROVE LimitInv'
      OBVIOUS
    <2>1. CASE [Next]_vars
      BY <2>1, NextGap, NextCap, NextBudget DEF LimitInv
    <2>2. CASE \E m \in OnDesk : Writes(m)
      <3>1. UNCHANGED <<run, db, hist>>
        BY <2>2 DEF Writes, EditMessage, RescheduleMessage, RegenerateMessage, ToRewrite, Land
      <3>2. UNCHANGED <<at, seen, contacted, room, window, spent, recent, accepted, blind, burst,
                        fresh, leaky>>
        BY <3>1 DEF run, db, hist
      <3>3. GapInv'
        BY <3>2, QuietGap DEF LimitInv, Going, ReviewFirst
      <3>4. CapInv'
        BY <3>2 DEF LimitInv, CapInv, Unsettled, Kept
      <3>5. BudgetInv'
        BY <3>2 DEF LimitInv, BudgetInv, Paid, Spoken, Going, Spare, ReviewFirst
      <3> QED
        BY <3>3, <3>4, <3>5 DEF LimitInv
    <2> QED
      BY <2>1, <2>2, SendOrWrite
  <1> QED
    BY <1>1, <1>2, DeskBase, PTL DEF DeskSpec, Base

\* Redating, editing and rewriting beside a run never let a person get two
\* campaign messages inside the gap (fireDue.ts 374-416, actions.ts 1952-1973).
THEOREM GapKeptBesideDesk == OneRun => (DeskSpec => []OnePerGap)
  <1>1. TypeOK /\ LimitInv => OnePerGap
    BY GapHolds DEF LimitInv
  <1> QED
    BY <1>1, DeskBase, DeskLimits, PTL DEF Base

\* Nor do they let the touch budget be passed (fireDue.ts 961-963, 791-799).
THEOREM BudgetKeptBesideDesk == OneRun => (DeskSpec => []BudgetHolds)
  <1>1. TypeOK /\ LimitInv => BudgetHolds
    BY BudgetEnough DEF LimitInv
  <1> QED
    BY <1>1, DeskBase, DeskLimits, PTL DEF Base

\* What the desk adds to the types.
Papers ==
    /\ words \in [Msgs -> Writings]
    /\ body \in [Msgs -> Writings \union {NoBody}]
    /\ held \in [Runs -> [Msgs -> [words : Writings, body : Writings \union {NoBody}]]]
    /\ call \in {Nobody} \union [op : Ops, msg : Msgs, was : Statuses]
    /\ edits \in 0 .. MaxEdits
    /\ saved \in [Msgs -> Writings] /\ went \in [Msgs -> Writings]
    /\ overtaken \subseteq Msgs \X {"words", "date"} /\ crossed \subseteq Msgs /\ astray \subseteq Msgs
    /\ signed \subseteq Msgs \X Writings /\ unsigned \subseteq Msgs

LEMMA ContentType == ASSUME Papers, NEW m \in Msgs PROVE
        Content(m) \in [words : Writings, body : Writings \union {NoBody}]
  BY DEF Papers, Content

LEMMA SaidType == ASSUME Papers, NEW r \in Runs, NEW m \in Msgs PROVE Said(r, m) \in Writings
  <1>1. /\ held[r][m].words \in Writings
        /\ held[r][m].body \in Writings \union {NoBody}
    BY DEF Papers
  <1> QED
    BY <1>1 DEF Said

LEMMA WritePapers == ASSUME Papers, NEW m \in OnDesk, Writes(m) PROVE Papers'
  <1>1. m \in Msgs
    BY DeskAssumption
  <1>2. edits \in Writings /\ Blank \in Writings
    BY DeskAssumption DEF Papers, Writings
  <1>3. /\ UNCHANGED <<held, edits, went, astray, unsigned>> /\ call' = Nobody
        /\ overtaken' \subseteq overtaken \union {<<m, "words">>, <<m, "date">>}
        /\ crossed' \subseteq crossed \union {m}
    BY DEF Writes, EditMessage, RescheduleMessage, RegenerateMessage, ToRewrite, Land
  <1>4. \/ UNCHANGED <<words, body, saved>>
        \/ \E w \in Writings : /\ words' = [words EXCEPT ![m] = w]
                               /\ body' = [body EXCEPT ![m] = NoBody]
                               /\ saved' = [saved EXCEPT ![m] = w]
    BY <1>2 DEF Writes, EditMessage, EditText, RescheduleMessage, RegenerateMessage, ToRewrite, text
  <1>5. words' \in [Msgs -> Writings] /\ saved' \in [Msgs -> Writings]
    BY <1>4 DEF Papers
  <1>6. body' \in [Msgs -> Writings \union {NoBody}]
    BY <1>4 DEF Papers
  <1>7. signed' \subseteq Msgs \X Writings
    BY <1>1, <1>2 DEF Papers, Writes, EditMessage, RescheduleMessage, RegenerateMessage, ToRewrite
  <1> QED
    BY <1>1, <1>3, <1>5, <1>6, <1>7 DEF Papers

LEMMA SendPapers ==
  ASSUME Papers, NEW r \in Runs, NEW m \in Msgs,
         DeskAccept(r, m) \/ DeskPark(r, m) \/ DeskRetry(r, m) \/ DeskRecord(r, m) \/ RunOn(r, m)
  PROVE  Papers'
  <1>1. Said(r, m) \in Writings /\ held[r][m].words \in Writings
    BY SaidType DEF Papers
  <1>2. CASE DeskAccept(r, m)
    BY <1>1, <1>2 DEF DeskAccept, Papers, text, desk
  <1>3. CASE DeskPark(r, m) \/ DeskRetry(r, m) \/ DeskRecord(r, m)
    <2>1. WriteBack(r, m) /\ UNCHANGED <<desk, told>>
      BY <1>3 DEF DeskPark, DeskRetry, DeskRecord
    <2>2. words' \in [Msgs -> Writings] /\ body' \in [Msgs -> Writings \union {NoBody}]
      BY <1>1, <2>1 DEF Papers, WriteBack
    <2> QED
      BY <2>1, <2>2 DEF Papers, desk, told
  <1>4. CASE RunOn(r, m)
    BY <1>4 DEF RunOn, Papers, text, desk, told
  <1> QED
    BY <1>2, <1>3, <1>4

LEMMA NextPapers == ASSUME TypeOK, Papers, [DeskNext]_allVars PROVE Papers'
  <1>1. ASSUME NEW r \in Runs, DeskStart(r) PROVE Papers'
    <2>1. [m \in Msgs |-> Content(m)] \in [Msgs -> [words : Writings, body : Writings \union {NoBody}]]
      BY ContentType
    <2> QED
      BY <1>1, <2>1 DEF DeskStart, Papers, text, told
  <1>2. ASSUME NEW op \in Ops, NEW m \in OnDesk, Open(op, m) PROVE Papers'
    <2>1. status[m] \in Statuses /\ m \in Msgs
      BY DeskAssumption DEF TypeOK
    <2>2. call' = [op |-> op, msg |-> m, was |-> status[m]] /\ edits' = edits + 1 /\ edits < MaxEdits
      BY <1>2 DEF Open
    <2>3. edits' \in 0 .. MaxEdits
      BY <2>2, DeskAssumption DEF Papers
    <2>4. call' \in [op : Ops, msg : Msgs, was : Statuses]
      BY <2>1, <2>2
    <2> QED
      BY <1>2, <2>3, <2>4 DEF Open, Papers, text, told
  <1>3. CASE Beside \/ UNCHANGED allVars
    BY <1>3 DEF Beside, allVars, Papers, text, desk, told
  <1>4. ASSUME NEW m \in Msgs, DeskDecide(m) PROVE Papers'
    <2>1. words[m] \in Writings /\ (body[m] = NoBody \/ body[m] \in Writings)
      BY DEF Papers
    <2>2. signed' \subseteq Msgs \X Writings
      BY <1>4, <2>1 DEF DeskDecide, Papers
    <2> QED
      BY <1>4, <2>2 DEF DeskDecide, Papers, text, desk
  <1> QED
    BY <1>1, <1>2, <1>3, <1>4, SendPapers, WritePapers DEF DeskNext, Writes

\* Types of the desk.
THEOREM DeskTypeCorrect == DeskSpec => []DeskTypeOK
  <1>1. DeskInit => Papers
    <2> SUFFICES ASSUME DeskInit PROVE Papers
      OBVIOUS
    <2>1. 0 \in Writings /\ 0 \in 0 .. MaxEdits
      BY DeskAssumption DEF Writings
    <2>2. /\ words \in [Msgs -> Writings] /\ body \in [Msgs -> Writings \union {NoBody}]
      BY <2>1 DEF DeskInit
    <2>3. held \in [Runs -> [Msgs -> [words : Writings, body : Writings \union {NoBody}]]]
      BY <2>2 DEF DeskInit, Content
    <2> QED
      BY <2>1, <2>2, <2>3 DEF DeskInit, Papers
  <1>2. TypeOK /\ Papers /\ [DeskNext]_allVars => Papers'
    BY NextPapers
  <1>3. TypeOK /\ Papers => DeskTypeOK
    BY DEF DeskTypeOK, Papers
  <1> QED
    BY <1>1, <1>2, <1>3, DeskBase, PTL DEF DeskSpec, Base

-----------------------------------------------------------------------------
(* What the desk saved is what goes out, and what went is on record.       *)

\* Steps that take no message up and claim none they had not: what leaves the
\* due messages is dropped and free.
Quiet ==
    /\ \A q \in Runs, n \in Msgs : at'[q][n] # "none" => at[q][n] # "none"
    /\ \A n \in Msgs : status'[n] = "sending" =>
         status[n] = "sending" \/ \E q \in Runs : at[q][n] # "none"
    /\ \A n \in due \ due' : status'[n] # "sending" /\ \A q \in Runs : at'[q][n] = "none"

\* Steps that record nothing and hear of no acceptance.
Unsaid ==
    /\ seen' = seen
    /\ \A n \in Msgs : status'[n] = "sent" => status[n] = "sent"
    /\ \A q \in Runs, n \in Msgs :
         /\ at'[q][n] = "told" => at[q][n] = "told"
         /\ at'[q][n] \in Shown /\ status'[n] = "sent" => at[q][n] \in Shown

LEMMA PrepareQuiet ==
  ASSUME OneRun, TypeOK, NEW r \in Runs, NEW m \in Msgs, Prepare(r, m) PROVE Quiet /\ Unsaid
  <1> USE DEF doc
  <1>t. TypeOK /\ \A q \in Runs : q = r
    BY DEF OneRun
  <1>1. at[r][m] \in {"todo"} \union Deciding /\ seen' = seen
    <2>1. CASE Launch(r, m)
      BY <1>t, <2>1, LaunchShape DEF Deciding
    <2>2. CASE ~Launch(r, m)
      BY <1>t, <2>2, PrepareShape
    <2> QED
      BY <2>1, <2>2
  <1>2. CASE LoseClaim(r, m) \/ Look(r, m) \/ Pass(r, m) \/ Launch(r, m)
    <2>1. \E q \in {"none", "read", "early", "clear", "send"} :
            at' = [at EXCEPT ![r][m] = q] /\ (q # "none" => at[r][m] \in Deciding)
      <3>1. CASE LoseClaim(r, m)
        BY <3>1 DEF LoseClaim, Place
      <3>2. CASE Look(r, m)
        BY <1>t, <3>2, LookShape DEF Deciding
      <3>3. CASE Pass(r, m)
        BY <1>t, <3>3, PassShape DEF Deciding
      <3>4. CASE Launch(r, m)
        BY <1>t, <3>4, LaunchShape DEF Deciding
      <3> QED
        BY <1>2, <3>1, <3>2, <3>3, <3>4
    <2>2. PICK q \in {"none", "read", "early", "clear", "send"} :
            at' = [at EXCEPT ![r][m] = q] /\ (q # "none" => at[r][m] \in Deciding)
      BY <2>1
    <2>3. UNCHANGED <<status, due>>
      BY <1>2 DEF LoseClaim, Look, Pass, Launch
    <2>4. \A n \in Msgs : at'[r][n] = IF n = m THEN q ELSE at[r][n]
      BY <1>t, <2>2 DEF TypeOK
    <2>5. Quiet
      BY <1>t, <1>1, <2>2, <2>3, <2>4 DEF Quiet, Deciding
    <2>6. Unsaid
      BY <1>t, <1>1, <2>2, <2>3, <2>4 DEF Unsaid, Shown, ShownPlaces, Deciding
    <2> QED
      BY <2>5, <2>6
  <1>3. CASE Claim(r, m)
    <2>1. \A n \in Msgs : /\ at'[r][n] = IF n = m THEN "check" ELSE at[r][n]
                          /\ status'[n] = IF n = m THEN "sending" ELSE status[n]
      BY <1>t, <1>3 DEF Claim, Place, TypeOK
    <2>2. due' = due
      BY <1>3 DEF Claim
    <2> QED
      BY <1>t, <1>1, <2>1, <2>2 DEF Quiet, Unsaid, Deciding
  <1>4. CASE ~(LoseClaim(r, m) \/ Look(r, m) \/ Pass(r, m) \/ Launch(r, m) \/ Claim(r, m))
    <2>1. PICK s \in {"queued", "skipped", "failed", "awaiting_approval"} : Release(r, m, s)
      BY <1>4 DEF Prepare, Turned, Broken, Skip, Defer, Invalid, Park, WindowFull, NoAdapter, Unsendable
    <2>2. due' \in {due, due \ {m}}
      BY <1>4 DEF Prepare, Turned, Broken, Skip, Defer, Invalid, Park, WindowFull, NoAdapter, Unsendable
    <2>3. \A n \in Msgs : /\ at'[r][n] = IF n = m THEN "none" ELSE at[r][n]
                          /\ status'[n] = IF n = m THEN s ELSE status[n]
      BY <1>t, <2>1 DEF Release, Place, TypeOK
    <2>4. "none" \notin Shown
      BY ShownPlaces
    <2> QED
      BY <1>t, <1>1, <2>2, <2>3, <2>4 DEF Quiet, Unsaid, Deciding
  <1> QED
    BY <1>2, <1>3, <1>4

\* What answers a send does not: it hears of no acceptance and records none.
LEMMA DispatchQuiet ==
  ASSUME OneRun, TypeOK, NEW r \in Runs, NEW m \in Msgs, Dispatch(r, m)
  PROVE  Quiet /\ (~Accept(r, m) /\ ~Record(r, m) => Unsaid)
  <1> USE DEF doc
  <1>t. TypeOK /\ \A q \in Runs : q = r
    BY DEF OneRun
  <1>1. at[r][m] \in {"send", "told", "recorded", "spent"} /\ seen' = seen
    BY DEF Dispatch, Accept, Retry, Refuse, AcceptUnheard, Record, Spend, Contact, WriteThrows
  <1>2. CASE Accept(r, m) \/ Record(r, m) \/ Spend(r, m) \/ Contact(r, m)
    <2>1. PICK q \in {"told", "recorded", "spent", "none"} :
            /\ at' = [at EXCEPT ![r][m] = q]
            /\ q = "told" => Accept(r, m)
      BY <1>2 DEF Accept, Record, Spend, Contact, Place
    <2>7. due' = due /\ (status' = status \/ status' = [status EXCEPT ![m] = "sent"])
      BY <1>2 DEF Accept, Record, Spend, Contact
    <2>8. ~Record(r, m) => status' = status
      <3>1. CASE Accept(r, m)
        BY <3>1 DEF Accept
      <3>2. CASE Spend(r, m)
        BY <3>2 DEF Spend
      <3>3. CASE Contact(r, m)
        BY <3>3 DEF Contact
      <3> QED
        BY <1>2, <3>1, <3>2, <3>3
    <2>2. /\ due' = due
          /\ status' = status \/ (Record(r, m) /\ status' = [status EXCEPT ![m] = "sent"])
      BY <2>7, <2>8
    <2>3. \A n \in Msgs : at'[r][n] = IF n = m THEN q ELSE at[r][n]
      BY <1>t, <2>1 DEF TypeOK
    <2>4. \A n \in Msgs : status'[n] = "sending" => status[n] = "sending"
      BY <1>t, <2>2 DEF TypeOK
    <2>5. Quiet
      BY <1>t, <1>1, <2>2, <2>3, <2>4 DEF Quiet
    <2>6. ~Accept(r, m) /\ ~Record(r, m) => Unsaid
      BY <1>t, <1>1, <2>1, <2>2, <2>3, ShownPlaces DEF Unsaid
    <2> QED
      BY <2>5, <2>6
  <1>3. CASE ~(Accept(r, m) \/ Record(r, m) \/ Spend(r, m) \/ Contact(r, m))
    <2>1. PICK s \in {"queued", "failed"} : Release(r, m, s)
      BY <1>3 DEF Dispatch, Retry, Refuse, AcceptUnheard, WriteThrows
    <2>2. due' \in {due, due \ {m}}
      BY <1>3 DEF Dispatch, Retry, Refuse, AcceptUnheard, WriteThrows
    <2>3. \A n \in Msgs : /\ at'[r][n] = IF n = m THEN "none" ELSE at[r][n]
                          /\ status'[n] = IF n = m THEN s ELSE status[n]
      BY <1>t, <2>1 DEF Release, Place, TypeOK
    <2> QED
      BY <1>t, <1>1, <2>2, <2>3, ShownPlaces DEF Quiet, Unsaid
  <1> QED
    BY <1>2, <1>3

LEMMA DecideQuiet == ASSUME TypeOK, NEW m \in Msgs, Desk(m) PROVE Quiet /\ Unsaid
  <1> USE DEF doc, run
  <1>1. UNCHANGED <<at, seen>> /\ due \subseteq due'
    BY DEF Desk, Clock, Approve, Reject, Decide, ReturnToReview, ComesDue, LeaseAges, WindowSlides
  <1>2. \A n \in Msgs : status'[n] \in {status[n], "rejected", "awaiting_approval", "queued"}
    BY DEF Desk, Clock, Approve, Reject, Decide, ReturnToReview, ComesDue, LeaseAges, WindowSlides,
       TypeOK
  <1> QED
    BY <1>1, <1>2 DEF Quiet, Unsaid

LEMMA BesideQuiet == ASSUME TypeOK, Beside PROVE Quiet /\ Unsaid
  <1> USE DEF doc, run
  <1>1. CASE \E r \in Runs : Flush(r) \/ Crash(r)
    <2>1. UNCHANGED <<status, due, seen>>
      BY <1>1 DEF Flush, Crash
    <2>2. \A q \in Runs, n \in Msgs : at'[q][n] \in {at[q][n], "none"}
      BY <1>1 DEF Flush, Crash, TypeOK
    <2> QED
      BY <2>1, <2>2, ShownPlaces DEF Quiet, Unsaid
  <1>2. CASE \E p \in People : Lead(p)
    <2>1. UNCHANGED <<at, seen, due>>
      BY <1>2 DEF Lead, Reply, Unsubscribe, SuppressPerson, Verified, End, Pause, Resume, GapPasses
    <2>2. \A n \in Msgs : status'[n] \in {status[n], "skipped", "rejected", "held", "queued"}
      BY <1>2 DEF Lead, Reply, Unsubscribe, SuppressPerson, Verified, End, Pause, Resume, GapPasses,
         Sweep, TypeOK
    <2> QED
      BY <2>1, <2>2 DEF Quiet, Unsaid
  <1>3. CASE \E m \in Msgs : ReturnToReview(m) \/ Clock(m)
    BY <1>3, DecideQuiet DEF Desk
  <1> QED
    BY <1>1, <1>2, <1>3 DEF Beside

\* A content is what the desk saved, and so was what was rendered from it.
Matches(c, m) == c.words = saved[m] /\ c.body \in {NoBody, saved[m]}

\* A message that was not changed while a run had it says what was saved last,
\* in the database and in the snapshot of every run that has it.
WordsKept ==
    \A m \in Msgs : <<m, "words">> \notin overtaken =>
        /\ Matches(Content(m), m)
        /\ \A r \in Runs : at[r][m] # "none" => Matches(held[r][m], m)

\* A message that is not due, and was not redated while a run had it, is in no
\* run's batch and under no claim.
DateKept ==
    \A m \in Msgs \ due : <<m, "date">> \notin overtaken =>
        status[m] # "sending" /\ \A r \in Runs : at[r][m] = "none"

\* What the provider took is what the run is about to record.
Underway(r, m) ==
    /\ at[r][m] = "told" => went[m] = Said(r, m)
    /\ at[r][m] \in Shown => status[m] # "sent"

RecordInv == RecordTrue /\ \A r \in Runs, m \in Msgs : Underway(r, m)

LEMMA SaidMatches ==
  ASSUME NEW r \in Runs, NEW m \in Msgs, Matches(held[r][m], m) PROVE Said(r, m) = saved[m]
  BY DEF Matches, Said

LEMMA WordsStay ==
  ASSUME WordsKept, UNCHANGED <<text, held, saved, overtaken>>,
         \A q \in Runs, n \in Msgs : at'[q][n] # "none" => at[q][n] # "none"
  PROVE  WordsKept'
  BY DEF WordsKept, Matches, Content, text

LEMMA WriteBackWords ==
  ASSUME Papers, WordsKept, NEW r \in Runs, NEW m \in Msgs, at[r][m] # "none",
         WriteBack(r, m), UNCHANGED <<desk, told>>,
         \A q \in Runs, n \in Msgs : at'[q][n] # "none" => at[q][n] # "none"
  PROVE  WordsKept'
  <1>1. UNCHANGED <<held, saved, overtaken>>
    BY DEF desk, told
  <1>2. \A n \in Msgs \ {m} : Content(n)' = Content(n)
    BY DEF WriteBack, Content, Papers
  <1>3. Content(m)' = [words |-> held[r][m].words, body |-> Said(r, m)]
    BY DEF WriteBack, Content, Papers
  <1>4. Matches(held[r][m], m) => Matches(Content(m)', m)
    BY <1>3, SaidMatches DEF Matches
  <1> SUFFICES ASSUME NEW n \in Msgs, <<n, "words">> \notin overtaken
               PROVE  /\ Matches(Content(n)', n)
                      /\ \A q \in Runs : at'[q][n] # "none" => Matches(held[q][n], n)
    BY <1>1 DEF WordsKept, Matches
  <1>5. Matches(Content(n), n) /\ \A q \in Runs : at[q][n] # "none" => Matches(held[q][n], n)
    BY DEF WordsKept
  <1> QED
    BY <1>2, <1>4, <1>5

LEMMA DeskWords ==
  ASSUME Papers, WordsKept, NEW m \in OnDesk, Writes(m) PROVE WordsKept'
  <1>m. m \in Msgs
    BY DeskAssumption
  <1>1. UNCHANGED <<held, at>>
    BY DEF Writes, EditMessage, RescheduleMessage, RegenerateMessage, ToRewrite, Land, run
  <1>2. CASE RescheduleMessage(m)
    <2>1. UNCHANGED <<words, body, saved>>
      BY <1>2 DEF RescheduleMessage, text
    <2>2. \A n \in Msgs : <<n, "words">> \in overtaken' <=> <<n, "words">> \in overtaken
      BY <1>2 DEF RescheduleMessage, Land
    <2> QED
      BY <1>1, <2>1, <2>2 DEF WordsKept, Matches, Content
  <1>3. CASE EditMessage(m) \/ RegenerateMessage(m)
    <2>1. PICK w : /\ words' = [words EXCEPT ![m] = w]
                   /\ body' = [body EXCEPT ![m] = NoBody]
                   /\ saved' = [saved EXCEPT ![m] = w]
      BY <1>3 DEF EditMessage, EditText, RegenerateMessage, ToRewrite
    <2>2. overtaken' = IF Taken(m) THEN overtaken \union {<<m, "words">>}
                       ELSE overtaken \ {<<m, "words">>}
      BY <1>3 DEF EditMessage, RegenerateMessage, ToRewrite, Land
    <2>3. ASSUME NEW n \in Msgs \ {m}, <<n, "words">> \notin overtaken'
          PROVE  /\ Matches(Content(n), n)'
                 /\ \A q \in Runs : at'[q][n] # "none" => Matches(held[q][n], n)'
      <3>1. <<n, "words">> \notin overtaken
        BY <2>2, <2>3
      <3>2. words'[n] = words[n] /\ body'[n] = body[n] /\ saved'[n] = saved[n]
        BY <2>1, <2>3 DEF Papers
      <3> QED
        BY <1>1, <3>1, <3>2 DEF WordsKept, Matches, Content
    <2>4. ASSUME <<m, "words">> \notin overtaken'
          PROVE  /\ Matches(Content(m), m)'
                 /\ \A q \in Runs : at'[q][m] = "none"
      <3>1. ~Taken(m)
        BY <2>2, <2>4
      <3>2. words'[m] = w /\ body'[m] = NoBody /\ saved'[m] = w
        BY <1>m, <2>1 DEF Papers
      <3> QED
        BY <1>1, <3>1, <3>2 DEF Taken, Matches, Content
    <2> QED
      BY <2>3, <2>4 DEF WordsKept
  <1> QED
    BY <1>2, <1>3 DEF Writes

LEMMA NextWords ==
  ASSUME OneRun, TypeOK, Papers, WordsKept, [DeskNext]_allVars PROVE WordsKept'
  <1>1. ASSUME NEW r \in Runs, DeskStart(r) PROVE WordsKept'
    <2>1. UNCHANGED <<words, body, saved, overtaken>>
      BY <1>1 DEF DeskStart, text, told
    <2>2. \A q \in Runs, n \in Msgs : held'[q][n] = Content(n)
      BY <1>1 DEF DeskStart, Papers, OneRun
    <2> QED
      BY <2>1, <2>2 DEF WordsKept, Matches, Content
  <1>2. ASSUME NEW r \in Runs, NEW m \in Msgs, DeskAccept(r, m) \/ RunOn(r, m) PROVE WordsKept'
    <2>1. Prepare(r, m) \/ Dispatch(r, m)
      BY <1>2 DEF DeskAccept, RunOn, Prepare, Dispatch
    <2>2. UNCHANGED <<text, held, saved, overtaken>>
      BY <1>2 DEF DeskAccept, RunOn, desk, told
    <2> QED
      BY <2>1, <2>2, PrepareQuiet, DispatchQuiet, WordsStay DEF Quiet
  <1>3. ASSUME NEW r \in Runs, NEW m \in Msgs, DeskPark(r, m) \/ DeskRetry(r, m) \/ DeskRecord(r, m)
        PROVE  WordsKept'
    <2>1. Prepare(r, m) \/ Dispatch(r, m)
      BY <1>3 DEF DeskPark, DeskRetry, DeskRecord, Prepare, Dispatch
    <2>2. at[r][m] # "none" /\ WriteBack(r, m) /\ UNCHANGED <<desk, told>>
      BY <1>3 DEF DeskPark, DeskRetry, DeskRecord, Park, Cleared, Retry, Record
    <2> QED
      BY <2>1, <2>2, PrepareQuiet, DispatchQuiet, WriteBackWords DEF Quiet
  <1>4. CASE \E op \in Ops, m \in OnDesk : Open(op, m)
    BY <1>4, WordsStay DEF Open, vars, run, told
  <1>5. CASE \E m \in OnDesk : Writes(m)
    BY <1>5, DeskWords
  <1>6. CASE Beside
    <2>1. UNCHANGED <<text, held, saved, overtaken>>
      BY <1>6 DEF Beside, desk, told
    <2> QED
      BY <1>6, <2>1, BesideQuiet, WordsStay DEF Quiet
  <1>7. CASE UNCHANGED allVars
    BY <1>7, WordsStay DEF allVars, vars, run, desk, told
  <1>8. ASSUME NEW m \in Msgs, DeskDecide(m) PROVE WordsKept'
    <2>1. UNCHANGED <<text, held, saved, overtaken>> /\ Desk(m)
      BY <1>8 DEF DeskDecide, Desk, desk
    <2> QED
      BY <2>1, DecideQuiet, WordsStay DEF Quiet
  <1> QED
    BY <1>1, <1>2, <1>3, <1>4, <1>5, <1>6, <1>7, <1>8 DEF DeskNext, Writes

LEMMA QuietDates ==
  ASSUME OneRun, TypeOK, DateKept, Quiet, UNCHANGED overtaken PROVE DateKept'
  <1> SUFFICES ASSUME NEW n \in Msgs \ due', <<n, "date">> \notin overtaken
               PROVE  status'[n] # "sending" /\ \A r \in Runs : at'[r][n] = "none"
    BY DEF DateKept
  <1>1. CASE n \in due
    BY <1>1 DEF Quiet
  <1>2. CASE n \notin due
    <2>1. status[n] # "sending" /\ \A r \in Runs : at[r][n] = "none"
      BY <1>2 DEF DateKept
    <2> QED
      BY <2>1 DEF Quiet
  <1> QED
    BY <1>1, <1>2

LEMMA DeskDates == ASSUME TypeOK, DateKept, NEW m \in OnDesk, Writes(m) PROVE DateKept'
  <1>m. m \in Msgs
    BY DeskAssumption
  <1>1. at' = at
    BY DEF Writes, EditMessage, RescheduleMessage, RegenerateMessage, ToRewrite, Land, run
  <1>2. \A n \in Msgs : status'[n] = "sending" => status[n] = "sending"
    BY DEF Writes, EditMessage, RescheduleMessage, RegenerateMessage, ToRewrite, TypeOK
  <1>3. CASE RescheduleMessage(m)
    <2>1. \A n \in Msgs \ {m} : /\ n \in due' <=> n \in due
                                /\ <<n, "date">> \in overtaken' <=> <<n, "date">> \in overtaken
      BY <1>3 DEF RescheduleMessage, Land
    <2>2. <<m, "date">> \in overtaken' \/ ~Taken(m)
      BY <1>3 DEF RescheduleMessage, Land
    <2> QED
      BY <1>1, <1>2, <2>1, <2>2 DEF DateKept, Taken
  <1>4. CASE EditMessage(m) \/ RegenerateMessage(m)
    <2>1. due' = due
      BY <1>4 DEF EditMessage, RegenerateMessage, ToRewrite
    <2>2. \A n \in Msgs : <<n, "date">> \in overtaken' <=> <<n, "date">> \in overtaken
      BY <1>4 DEF EditMessage, RegenerateMessage, ToRewrite, Land
    <2> QED
      BY <1>1, <1>2, <2>1, <2>2 DEF DateKept
  <1> QED
    BY <1>3, <1>4 DEF Writes

LEMMA NextDates ==
  ASSUME OneRun, TypeOK, DateKept, [DeskNext]_allVars PROVE DateKept'
  <1>1. ASSUME NEW r \in Runs, DeskStart(r) PROVE DateKept'
    <2>1. UNCHANGED <<status, due, overtaken>>
      BY <1>1 DEF DeskStart, Start, doc, told
    <2>2. \A n \in Msgs : at'[r][n] # "none" => n \in Due
      BY <1>1 DEF DeskStart, Start, Batches, TypeOK
    <2> QED
      BY <2>1, <2>2 DEF DateKept, Due, OneRun
  <1>2. ASSUME NEW r \in Runs, NEW m \in Msgs,
               DeskAccept(r, m) \/ DeskPark(r, m) \/ DeskRetry(r, m) \/ DeskRecord(r, m) \/ RunOn(r, m)
        PROVE  DateKept'
    <2>1. Prepare(r, m) \/ Dispatch(r, m)
      BY <1>2 DEF DeskAccept, DeskPark, DeskRetry, DeskRecord, RunOn, Prepare, Dispatch
    <2>2. UNCHANGED overtaken
      BY <1>2 DEF DeskAccept, DeskPark, DeskRetry, DeskRecord, RunOn, told
    <2> QED
      BY <2>1, <2>2, PrepareQuiet, DispatchQuiet, QuietDates
  <1>3. CASE \E op \in Ops, m \in OnDesk : Open(op, m)
    BY <1>3 DEF Open, vars, run, doc, told, DateKept
  <1>4. CASE \E m \in OnDesk : Writes(m)
    BY <1>4, DeskDates
  <1>5. CASE Beside
    <2>1. UNCHANGED overtaken
      BY <1>5 DEF Beside, told
    <2> QED
      BY <1>5, <2>1, BesideQuiet, QuietDates
  <1>6. CASE UNCHANGED allVars
    BY <1>6 DEF allVars, vars, run, doc, told, DateKept
  <1>7. ASSUME NEW m \in Msgs, DeskDecide(m) PROVE DateKept'
    <2>1. UNCHANGED overtaken /\ Desk(m)
      BY <1>7 DEF DeskDecide, Desk
    <2> QED
      BY <2>1, DecideQuiet, QuietDates
  <1> QED
    BY <1>1, <1>2, <1>3, <1>4, <1>5, <1>6, <1>7 DEF DeskNext, Writes

\* Only an acceptance can go astray, and it says what was saved, in time.
LEMMA NothingAstray ==
  ASSUME WordsKept, DateKept, ChangesGoOut, [DeskNext]_allVars PROVE ChangesGoOut'
  <1>1. ASSUME NEW r \in Runs, NEW m \in Msgs, DeskAccept(r, m) PROVE ~Mistaken(r, m)
    <2>1. at[r][m] = "send"
      BY <1>1 DEF DeskAccept, Accept, AcceptUnheard
    <2>2. <<m, "words">> \notin overtaken => Said(r, m) = saved[m]
      BY <2>1, SaidMatches DEF WordsKept
    <2>3. m \notin due => <<m, "date">> \in overtaken
      BY <2>1 DEF DateKept
    <2> QED
      BY <2>2, <2>3 DEF Mistaken
  <1>2. CASE \E r \in Runs, m \in Msgs : DeskAccept(r, m)
    BY <1>1, <1>2 DEF DeskAccept, ChangesGoOut
  <1>3. CASE ~\E r \in Runs, m \in Msgs : DeskAccept(r, m)
    <2>1. astray' = astray
      BY <1>3 DEF DeskNext, DeskStart, DeskPark, DeskRetry, DeskRecord, RunOn, Open, EditMessage,
         RescheduleMessage, RegenerateMessage, ToRewrite, Land, DeskDecide, Beside, allVars, told
    <2> QED
      BY <2>1 DEF ChangesGoOut
  <1> QED
    BY <1>2, <1>3

\* One run at a time: what the provider takes is what was saved at the desk
\* last, and never before its date, through the gate, put-backs, deferrals,
\* failures and crashes; only a change saved while a run had the message in its
\* batch may miss it (actions.ts 1941, 1955; fireDue.ts 440-461, 536-545).
THEOREM ChangesReachTheLead == OneRun => (DeskSpec => []ChangesGoOut)
  <1> SUFFICES ASSUME OneRun PROVE DeskSpec => []ChangesGoOut
    OBVIOUS
  <1>1. DeskInit => WordsKept /\ DateKept /\ ChangesGoOut
    <2> SUFFICES ASSUME DeskInit PROVE WordsKept /\ DateKept /\ ChangesGoOut
      OBVIOUS
    <2>1. \A m \in Msgs : words[m] = 0 /\ saved[m] = 0 /\ body[m] \in {0, NoBody}
      BY DEF DeskInit
    <2>2. \A m \in Msgs : \A r \in Runs : at[r][m] = "none"
      BY DEF DeskInit, Init
    <2>3. \A m \in Msgs : Matches(Content(m), m)
      BY <2>1 DEF Matches, Content
    <2>4. \A m \in Msgs : status[m] # "sending"
      BY DEF DeskInit, Init
    <2> QED
      BY <2>2, <2>3, <2>4 DEF DeskInit, WordsKept, DateKept, ChangesGoOut
  <1>2. /\ TypeOK /\ DeskTypeOK /\ WordsKept /\ DateKept /\ ChangesGoOut /\ [DeskNext]_allVars
        => WordsKept' /\ DateKept' /\ ChangesGoOut'
    <2>1. DeskTypeOK => Papers
      BY DEF DeskTypeOK, Papers
    <2> QED
      BY <2>1, NextWords, NextDates, NothingAstray
  <1> QED
    BY <1>1, <1>2, DeskBase, DeskTypeCorrect, PTL DEF DeskSpec, Base

LEMMA UnsaidRecord ==
  ASSUME RecordInv, Unsaid, UNCHANGED <<held, went, crossed>>,
         \A n \in Msgs : status'[n] = "sent" => body'[n] = body[n]
  PROVE  RecordInv'
  <1>1. RecordTrue'
    BY DEF RecordInv, RecordTrue, Unsaid
  <1>2. \A r \in Runs, n \in Msgs : Said(r, n)' = Said(r, n)
    BY DEF Said, Unsaid
  <1>3. \A r \in Runs, n \in Msgs : Underway(r, n)'
    BY <1>2 DEF RecordInv, Underway, Unsaid
  <1> QED
    BY <1>1, <1>3 DEF RecordInv

LEMMA DeskRecords == ASSUME TypeOK, Papers, RecordInv, NEW m \in OnDesk, Writes(m) PROVE RecordInv'
  <1>m. m \in Msgs
    BY DeskAssumption
  <1>1. UNCHANGED <<at, seen, held, went>>
    BY DEF Writes, EditMessage, RescheduleMessage, RegenerateMessage, ToRewrite, Land, run
  <1>2. crossed' = IF status[m] = "sent" THEN crossed \union {m} ELSE crossed
    BY DEF Writes, EditMessage, RescheduleMessage, RegenerateMessage, ToRewrite, Land
  <1>3. \A n \in Msgs : status'[n] = "sent" => status[n] = "sent"
    BY DEF Writes, EditMessage, RescheduleMessage, RegenerateMessage, ToRewrite, TypeOK
  <1>4. \A n \in Msgs \ {m} : body'[n] = body[n]
    BY DEF Writes, EditMessage, EditText, RescheduleMessage, RegenerateMessage, ToRewrite, text, Papers
  <1>5. RecordTrue'
    BY <1>1, <1>2, <1>3, <1>4 DEF RecordInv, RecordTrue
  <1>6. \A r \in Runs, n \in Msgs : Underway(r, n)'
    BY <1>1, <1>3 DEF RecordInv, Underway, Said
  <1> QED
    BY <1>5, <1>6 DEF RecordInv

LEMMA AcceptRecords ==
  ASSUME OneRun, TypeOK, Papers, RecordInv, NEW r \in Runs, NEW m \in Msgs, DeskAccept(r, m)
  PROVE  RecordInv'
  <1>1. /\ at[r][m] = "send" /\ UNCHANGED <<seen, text, held, crossed>>
        /\ went' = [went EXCEPT ![m] = Said(r, m)]
        /\ \/ at' = [at EXCEPT ![r][m] = "told"] /\ status' = status
           \/ /\ at' = [at EXCEPT ![r][m] = "none"]
              /\ \E s \in {"queued", "failed"} : status' = [status EXCEPT ![m] = s]
    BY DEF DeskAccept, Accept, AcceptUnheard, Release, Place, desk, doc
  <1>2. \A q \in Runs, n \in Msgs : Said(q, n)' = Said(q, n)
    BY <1>1 DEF Said
  <1>3. \A n \in Msgs : /\ status'[n] = "sent" => status[n] = "sent" /\ n # m
                        /\ n # m => went'[n] = went[n] /\ at'[r][n] = at[r][n]
    BY <1>1, ShownPlaces DEF RecordInv, Underway, TypeOK, Papers
  <1>4. went'[m] = Said(r, m) /\ at'[r][m] \in {"told", "none"}
    BY <1>1 DEF TypeOK, Papers
  <1>5. RecordTrue'
    BY <1>1, <1>3 DEF RecordInv, RecordTrue, text
  <1>6. \A n \in Msgs : Underway(r, n)'
    BY <1>2, <1>3, <1>4, ShownPlaces DEF RecordInv, Underway
  <1> QED
    BY <1>5, <1>6 DEF RecordInv, OneRun

LEMMA RecordRecords ==
  ASSUME OneRun, TypeOK, Papers, RecordInv, NEW r \in Runs, NEW m \in Msgs, DeskRecord(r, m)
  PROVE  RecordInv'
  <1>1. /\ at[r][m] = "told" /\ at' = [at EXCEPT ![r][m] = "recorded"]
        /\ status' = [status EXCEPT ![m] = "sent"]
        /\ body' = [body EXCEPT ![m] = Said(r, m)]
        /\ UNCHANGED <<seen, held, went, crossed>>
    BY DEF DeskRecord, Record, Place, WriteBack, desk, told
  <1>2. went[m] = Said(r, m)
    BY <1>1 DEF RecordInv, Underway
  <1>3. \A n \in Msgs : /\ n # m => /\ at'[r][n] = at[r][n] /\ status'[n] = status[n]
                                    /\ body'[n] = body[n]
                        /\ n = m => at'[r][n] = "recorded" /\ body'[n] = went[n]
    BY <1>1, <1>2 DEF TypeOK, Papers
  <1>4. RecordTrue'
    BY <1>1, <1>3 DEF RecordInv, RecordTrue
  <1>5. \A n \in Msgs : Underway(r, n)'
    BY <1>1, <1>3, ShownPlaces DEF RecordInv, Underway, Said
  <1> QED
    BY <1>4, <1>5 DEF RecordInv, OneRun

LEMMA NextRecord ==
  ASSUME OneRun, TypeOK, Papers, RecordInv, [DeskNext]_allVars PROVE RecordInv'
  <1>1. ASSUME NEW r \in Runs, DeskStart(r) PROVE RecordInv'
    <2>1. UNCHANGED <<status, body, went, crossed>>
      BY <1>1 DEF DeskStart, Start, doc, text, told
    <2>2. \A n \in Msgs : at'[r][n] \in {"todo", "none"}
      BY <1>1 DEF DeskStart, Start, TypeOK
    <2> QED
      BY <2>1, <2>2 DEF RecordInv, RecordTrue, Underway, OneRun, Shown, Deciding
  <1>2. ASSUME NEW r \in Runs, NEW m \in Msgs, DeskPark(r, m) \/ DeskRetry(r, m) PROVE RecordInv'
    <2>1. Unsaid
      <3>1. CASE DeskPark(r, m)
        BY <3>1, PrepareQuiet DEF DeskPark, Prepare
      <3>2. CASE DeskRetry(r, m)
        <4>1. Dispatch(r, m) /\ at'[r][m] = "none"
          BY <3>2 DEF DeskRetry, Dispatch, Retry, Release, Place, TypeOK
        <4>2. ~Accept(r, m) /\ ~Record(r, m)
          BY <4>1 DEF Accept, Record, Place, TypeOK
        <4> QED
          BY <4>1, <4>2, DispatchQuiet
      <3> QED
        BY <1>2, <3>1, <3>2
    <2>2. /\ UNCHANGED <<held, went, crossed>>
          /\ \E s \in {"awaiting_approval", "queued"} : status' = [status EXCEPT ![m] = s]
          /\ body' = [body EXCEPT ![m] = Said(r, m)]
      BY <1>2 DEF DeskPark, DeskRetry, Park, Retry, Release, WriteBack, desk, told
    <2>3. \A n \in Msgs : status'[n] = "sent" => body'[n] = body[n]
      BY <2>2 DEF TypeOK, Papers
    <2> QED
      BY <2>1, <2>2, <2>3, UnsaidRecord
  <1>3. ASSUME NEW r \in Runs, NEW m \in Msgs, RunOn(r, m) PROVE RecordInv'
    <2>1. UNCHANGED <<text, held, went, crossed>>
      BY <1>3 DEF RunOn, desk, told
    <2>2. Prepare(r, m) \/ Refuse(r, m) \/ Spend(r, m) \/ Contact(r, m) \/ WriteThrows(r, m)
      BY <1>3 DEF RunOn, Prepare
    <2>3. Refuse(r, m) \/ Spend(r, m) \/ Contact(r, m) \/ WriteThrows(r, m) =>
            Dispatch(r, m) /\ ~Accept(r, m) /\ ~Record(r, m)
      <3>1. CASE Refuse(r, m)
        BY <3>1 DEF Dispatch, Refuse, Accept, Record, Release, Place, TypeOK
      <3>2. CASE Spend(r, m) \/ Contact(r, m)
        BY <3>2 DEF Dispatch, Spend, Contact, Accept, Record
      <3>3. CASE WriteThrows(r, m)
        BY <3>3 DEF Dispatch, WriteThrows, Accept, Record, Release, TypeOK
      <3> QED
        BY <3>1, <3>2, <3>3
    <2>4. Unsaid
      BY <2>2, <2>3, PrepareQuiet, DispatchQuiet
    <2> QED
      BY <2>1, <2>4, UnsaidRecord DEF text
  <1>4. CASE \E op \in Ops, m \in OnDesk : Open(op, m)
    BY <1>4 DEF Open, vars, run, doc, text, told, RecordInv, RecordTrue, Underway, Said
  <1>5. CASE Beside
    <2>1. UNCHANGED <<body, held, went, crossed>>
      BY <1>5 DEF Beside, text, desk, told
    <2> QED
      BY <1>5, <2>1, BesideQuiet, UnsaidRecord
  <1>6. CASE UNCHANGED allVars
    BY <1>6 DEF allVars, vars, run, doc, text, desk, told, RecordInv, RecordTrue, Underway, Said
  <1>7. ASSUME NEW m \in Msgs, DeskDecide(m) PROVE RecordInv'
    <2>1. UNCHANGED <<body, held, went, crossed>> /\ Desk(m)
      BY <1>7 DEF DeskDecide, Desk, text, desk
    <2> QED
      BY <2>1, DecideQuiet, UnsaidRecord
  <1> QED
    BY <1>1, <1>2, <1>3, <1>4, <1>5, <1>6, <1>7, AcceptRecords, RecordRecords, DeskRecords
    DEF DeskNext, Writes

\* One run at a time: the content stored beside "sent" is what the provider
\* took, unless a desk call that read the message before it went landed after
\* (actions.ts 1877, fireDue.ts 714-763).
THEOREM RecordKept == OneRun => (DeskSpec => []RecordTrue)
  <1> SUFFICES ASSUME OneRun PROVE DeskSpec => []RecordTrue
    OBVIOUS
  <1>1. DeskInit => RecordInv
    BY ShownPlaces DEF DeskInit, Init, RecordInv, RecordTrue, Underway
  <1>2. TypeOK /\ DeskTypeOK /\ RecordInv /\ [DeskNext]_allVars => RecordInv'
    <2>1. DeskTypeOK => Papers
      BY DEF DeskTypeOK, Papers
    <2> QED
      BY <2>1, NextRecord
  <1>3. RecordInv => RecordTrue
    BY DEF RecordInv
  <1> QED
    BY <1>1, <1>2, <1>3, DeskBase, DeskTypeCorrect, PTL DEF DeskSpec, Base

=============================================================================
