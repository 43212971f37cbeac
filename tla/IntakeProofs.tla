----------------------------- MODULE IntakeProofs -----------------------------
(***************************************************************************)
(* Theorems about Intake, for any leads, submissions and sources.  However *)
(* many runs overlap no lead behind a cursor is lost: what a run will      *)
(* store as the cursor covers only rows it has in its batch or that are    *)
(* safe already, and whoever is in the batch has a campaign when it stores *)
(* it.  One run at a time records a row once and enters a lead once.       *)
(***************************************************************************)
EXTENDS Intake, SequenceTheorems, FiniteSetTheorems, WellFoundedInduction, TLAPS

\* No two submissions carry one timestamp.
DistinctTimes == \A x, y \in Rows : Time[x] = Time[y] => x = y

-----------------------------------------------------------------------------
(* Sequences of campaigns.                                                 *)

LEMMA MappedSeq ==
  ASSUME NEW S, NEW n \in Nat, NEW f, f = [k \in 1 .. n |-> f[k]], \A k \in 1 .. n : f[k] \in S
  PROVE  f \in Seq(S) /\ Len(f) = n
  <1>1. f \in [1 .. n -> S]
    OBVIOUS
  <1>2. f \in Seq(S)
    BY <1>1, SeqDef
  <1>3. DOMAIN f = 1 .. Len(f) /\ Len(f) \in Nat /\ DOMAIN f = 1 .. n
    BY <1>1, <1>2, LenProperties
  <1>4. Len(f) = n
    BY <1>3
  <1> QED
    BY <1>2, <1>4

LEMMA AppendDoc ==
  ASSUME NEW q \in Seq(CampDoc), NEW c \in CampDoc
  PROVE  /\ Append(q, c) \in Seq(CampDoc) /\ Len(Append(q, c)) = Len(q) + 1
         /\ \A k \in 1 .. Len(q) : Append(q, c)[k] = q[k]
         /\ Append(q, c)[Len(q) + 1] = c
  OBVIOUS

LEMMA NotEmpty ==
  ASSUME NEW q \in Seq(CampDoc)
  PROVE  Len(q) \in Nat /\ (q # <<>> <=> Len(q) > 0)
  BY EmptySeq, LenProperties

\* What opening campaigns makes of them.
Opened(who, status) ==
    /\ camps' \in [Person -> Seq(CampDoc)]
    /\ \A p \in Person \ who : camps'[p] = camps[p]
    /\ \A p \in Person \cap who :
        /\ Len(camps'[p]) = Len(camps[p]) + 1
        /\ camps'[p][Len(camps[p]) + 1].status = status
        /\ \A k \in 1 .. Len(camps[p]) : camps'[p][k] = camps[p][k]

LEMMA OpenOpens ==
  ASSUME TypeOK, NEW who, NEW status \in CampStatuses, Open(who, status)
  PROVE  Opened(who, status)
  <1>1. Camp(status) \in CampDoc /\ Camp(status).status = status
    BY DEF Camp, CampDoc
  <1>2. \A p \in Person : camps[p] \in Seq(CampDoc)
    BY DEF TypeOK
  <1>3. \A p \in Person : camps'[p] = IF p \in who THEN Append(camps[p], Camp(status)) ELSE camps[p]
    BY DEF Open
  <1>4. \A p \in Person \cap who :
          /\ camps'[p] \in Seq(CampDoc)
          /\ Len(camps'[p]) = Len(camps[p]) + 1
          /\ camps'[p][Len(camps[p]) + 1].status = status
          /\ \A k \in 1 .. Len(camps[p]) : camps'[p][k] = camps[p][k]
    <2> TAKE p \in Person \cap who
    <2> DEFINE c == Camp(status)
    <2>1. camps'[p] = Append(camps[p], c) /\ camps[p] \in Seq(CampDoc)
      BY <1>2, <1>3
    <2>2. c \in CampDoc /\ c.status = status
      BY <1>1
    <2> HIDE DEF c
    <2> QED
      BY <2>1, <2>2, AppendDoc
  <1>5. camps' \in [Person -> Seq(CampDoc)]
    BY <1>2, <1>3, <1>4 DEF Open
  <1> QED
    BY <1>3, <1>4, <1>5 DEF Opened

\* What endings and first touches make of them.
Closed ==
    /\ camps' \in [Person -> Seq(CampDoc)]
    /\ \A p \in Person :
        /\ Len(camps'[p]) = Len(camps[p])
        /\ \A k \in 1 .. Len(camps[p]) :
            \/ camps'[p][k].status = camps[p][k].status
            \/ camps[p][k].status = "active" /\ camps'[p][k].status \in {"succeeded", "failed"}

\* One campaign after the other is written anew.
LEMMA Rewritten ==
  ASSUME TypeOK, DOMAIN camps' = Person, camps' = [p \in Person |-> camps'[p]],
         \A p \in Person :
            /\ camps'[p] = [k \in 1 .. Len(camps[p]) |-> camps'[p][k]]
            /\ \A k \in 1 .. Len(camps[p]) :
                /\ camps'[p][k] \in CampDoc
                /\ \/ camps'[p][k].status = camps[p][k].status
                   \/ /\ camps[p][k].status = "active"
                      /\ camps'[p][k].status \in {"succeeded", "failed"}
  PROVE  Closed
  <1>1. \A p \in Person : Len(camps[p]) \in Nat
    BY LenProperties DEF TypeOK
  <1>2. \A p \in Person : camps'[p] \in Seq(CampDoc) /\ Len(camps'[p]) = Len(camps[p])
    <2> TAKE p \in Person
    <2> QED
      BY <1>1, MappedSeq
  <1>3. camps' \in [Person -> Seq(CampDoc)]
    BY <1>2
  <1> QED
    BY <1>2, <1>3 DEF Closed

LEMMA Docs ==
  ASSUME TypeOK, NEW p \in Person, NEW k \in 1 .. Len(camps[p])
  PROVE  /\ camps[p][k] \in CampDoc
         /\ [camps[p][k] EXCEPT !.welcome = TRUE] \in CampDoc
         /\ [camps[p][k] EXCEPT !.welcome = TRUE].status = camps[p][k].status
         /\ \A status \in {"succeeded", "failed"} :
              /\ [camps[p][k] EXCEPT !.status = status] \in CampDoc
              /\ [camps[p][k] EXCEPT !.status = status].status = status
  <1>1. camps[p][k] \in CampDoc
    BY ElementOfSeq DEF TypeOK
  <1> QED
    BY <1>1 DEF CampDoc, CampStatuses

LEMMA WelcomeCloses == ASSUME TypeOK, NEW r \in Runs, Welcome(r) PROVE Closed
  <1>1. \A p \in Person :
            /\ camps'[p] = [k \in 1 .. Len(camps[p]) |-> camps'[p][k]]
            /\ \A k \in 1 .. Len(camps[p]) :
                 camps'[p][k] = camps[p][k] \/ camps'[p][k] = [camps[p][k] EXCEPT !.welcome = TRUE]
    BY DEF Welcome
  <1>2. DOMAIN camps' = Person /\ camps' = [p \in Person |-> camps'[p]]
    BY DEF Welcome
  <1>3. \A p \in Person : \A k \in 1 .. Len(camps[p]) :
          camps'[p][k] \in CampDoc /\ camps'[p][k].status = camps[p][k].status
    <2> TAKE p \in Person
    <2> TAKE k \in 1 .. Len(camps[p])
    <2>1. camps[p][k] \in CampDoc
      BY Docs
    <2>2. /\ [camps[p][k] EXCEPT !.welcome = TRUE] \in CampDoc
          /\ [camps[p][k] EXCEPT !.welcome = TRUE].status = camps[p][k].status
      BY Docs
    <2>3. camps'[p][k] = camps[p][k] \/ camps'[p][k] = [camps[p][k] EXCEPT !.welcome = TRUE]
      BY <1>1
    <2>4. CASE camps'[p][k] = camps[p][k]
      BY <2>1, <2>4
    <2>5. CASE camps'[p][k] = [camps[p][k] EXCEPT !.welcome = TRUE]
      BY <2>2, <2>5
    <2> QED
      BY <2>3, <2>4, <2>5
  <1> QED
    BY <1>1, <1>2, <1>3, Rewritten

LEMMA OptOutCloses == ASSUME TypeOK, NEW l \in Leads, OptOut(l) PROVE Closed
  <1>1. \A p \in Person :
            /\ camps'[p] = [k \in 1 .. Len(camps[p]) |-> camps'[p][k]]
            /\ \A k \in 1 .. Len(camps[p]) :
                 \/ camps'[p][k] = camps[p][k]
                 \/ /\ camps[p][k].status = "active"
                    /\ camps'[p][k] = [camps[p][k] EXCEPT !.status = "failed"]
    BY DEF OptOut
  <1>2. DOMAIN camps' = Person /\ camps' = [p \in Person |-> camps'[p]]
    BY DEF OptOut
  <1>3. \A p \in Person : \A k \in 1 .. Len(camps[p]) :
          /\ camps'[p][k] \in CampDoc
          /\ \/ camps'[p][k].status = camps[p][k].status
             \/ camps[p][k].status = "active" /\ camps'[p][k].status \in {"succeeded", "failed"}
    <2> TAKE p \in Person
    <2> TAKE k \in 1 .. Len(camps[p])
    <2>1. CASE camps'[p][k] = camps[p][k]
      BY <2>1, Docs
    <2>2. CASE /\ camps[p][k].status = "active"
               /\ camps'[p][k] = [camps[p][k] EXCEPT !.status = "failed"]
      <3>1. "failed" \in {"succeeded", "failed"}
        OBVIOUS
      <3>2. \A st \in {"succeeded", "failed"} :
              /\ [camps[p][k] EXCEPT !.status = st] \in CampDoc
              /\ [camps[p][k] EXCEPT !.status = st].status = st
        BY Docs
      <3>3. /\ [camps[p][k] EXCEPT !.status = "failed"] \in CampDoc
            /\ [camps[p][k] EXCEPT !.status = "failed"].status = "failed"
        BY <3>1, <3>2
      <3> QED
        BY <2>2, <3>1, <3>3
    <2> QED
      BY <1>1, <2>1, <2>2
  <1> QED
    BY <1>1, <1>2, <1>3, Rewritten

LEMMA VerifiedCloses ==
  ASSUME TypeOK, NEW p \in Person, NEW k \in 1 .. Len(camps[p]), Verified(p, k)
  PROVE  Closed
  <1>1. PICK status \in {"succeeded", "failed"} : camps' = [camps EXCEPT ![p][k].status = status]
    BY DEF Verified, Close
  <1> DEFINE c == [camps[p][k] EXCEPT !.status = status]
  <1>2. camps[p] \in Seq(CampDoc) /\ c \in CampDoc /\ c.status = status
    <2>1. camps[p] \in Seq(CampDoc)
      BY DEF TypeOK
    <2>2. \A st \in {"succeeded", "failed"} :
            /\ [camps[p][k] EXCEPT !.status = st] \in CampDoc
            /\ [camps[p][k] EXCEPT !.status = st].status = st
      BY Docs
    <2> QED
      BY <2>1, <2>2
  <1>3. camps' = [camps EXCEPT ![p] = [camps[p] EXCEPT ![k] = c]]
    BY <1>1 DEF TypeOK
  <1> HIDE DEF c
  <1>4. /\ [camps[p] EXCEPT ![k] = c] \in Seq(CampDoc)
        /\ Len([camps[p] EXCEPT ![k] = c]) = Len(camps[p])
        /\ \A j \in 1 .. Len(camps[p]) :
              [camps[p] EXCEPT ![k] = c][j] = IF j = k THEN c ELSE camps[p][j]
    BY <1>2, ExceptSeq
  <1>5. camps' \in [Person -> Seq(CampDoc)]
    BY <1>3, <1>4 DEF TypeOK
  <1>6. \A q \in Person : camps'[q] = IF q = p THEN [camps[p] EXCEPT ![k] = c] ELSE camps[q]
    BY <1>3 DEF TypeOK
  <1>7. camps[p][k].status = "active"
    BY DEF Verified
  <1> QED
    BY <1>2, <1>4, <1>5, <1>6, <1>7 DEF Closed

-----------------------------------------------------------------------------
(* No lead behind a cursor is lost.                                        *)

Safe(x) == Entered(Who[x]) \/ Who[x] \in suppressed \/ x \in beyond

\* No cursor runs ahead of what was submitted.
Fed(t) == t = 0 \/ \E y \in feed : t <= Time[y]

\* A lead a run knows has that document.
Located(r) ==
    \A l \in Leads : run[r].known[l] # Nobody =>
        run[r].known[l] \in people /\ LeadOf(run[r].known[l]) = l

\* Whom it did not know it inserts.
Inserted(r) == run[r].phase \notin {"idle", "insert"} => New(r) \subseteq people

\* Everybody in the batch has a campaign or is about to get one.
Placed(r) ==
    \A p \in Entries(r) :
        /\ run[r].phase = "met" => p \in run[r].settled \cup run[r].entering \/ Len(camps[p]) > 0
        /\ run[r].phase = "enrol" => p \in run[r].entering \/ Len(camps[p]) > 0
        /\ run[r].phase \in {"welcome", "finish"} => Len(camps[p]) > 0

\* What lies behind the cursor a run will store is in its hands or safe.
Covered(r) ==
    DistinctTimes /\ run[r].phase # "idle" /\ run[r].source \notin Whole =>
        \A x \in Listed(run[r].source) : Time[x] <= run[r].top => x \in run[r].batch \/ Safe(x)

CInv ==
    /\ TypeOK
    /\ \A s \in Sources : Fed(mark[s])
    /\ \A r \in Runs : Fed(run[r].top) /\ Located(r) /\ Inserted(r) /\ Placed(r) /\ Covered(r)
    /\ DistinctTimes => NoLeadLost

LEMMA EntriesType ==
  ASSUME TypeOK, NEW r \in Runs
  PROVE  New(r) \subseteq Person /\ Entries(r) \subseteq Person
  <1>1. run[r].batch \subseteq Rows /\ run[r].known \in [Leads -> Person \cup {Nobody}]
    BY DEF TypeOK, RunDoc
  <1>2. Named(r) \subseteq Leads
    BY <1>1, IntakeAssumption DEF Named
  <1> QED
    BY <1>1, <1>2 DEF New, Entries, Person

\* Documents, campaigns and opt-outs only become more.
Grows ==
    /\ people \subseteq people' /\ suppressed \subseteq suppressed' /\ beyond \subseteq beyond'
    /\ \A p \in Person : Len(camps[p]) > 0 => Len(camps'[p]) > 0

LEMMA SafeStays == ASSUME TypeOK, TypeOK', Grows, NEW x, Safe(x) PROVE Safe(x)'
  <1>1. CASE Entered(Who[x])
    <2>1. PICK p \in people : LeadOf(p) = Who[x] /\ camps[p] # <<>>
      BY <1>1 DEF Entered
    <2>2. p \in Person /\ camps[p] \in Seq(CampDoc) /\ camps'[p] \in Seq(CampDoc) /\ p \in people'
      BY <2>1 DEF TypeOK, Grows
    <2>3. camps'[p] # <<>>
      BY <2>1, <2>2, NotEmpty DEF Grows
    <2> QED
      BY <2>1, <2>2, <2>3 DEF Safe, Entered
  <1>2. CASE Who[x] \in suppressed \/ x \in beyond
    BY <1>2 DEF Safe, Grows
  <1> QED
    BY <1>1, <1>2 DEF Safe

LEMMA OpenedGrows ==
  ASSUME TypeOK, NEW who, NEW status, Opened(who, status)
  PROVE  \A p \in Person : Len(camps[p]) > 0 => Len(camps'[p]) > 0
  <1>1. \A p \in Person : Len(camps[p]) \in Nat
    BY LenProperties DEF TypeOK
  <1> QED
    BY <1>1 DEF Opened

LEMMA ClosedGrows ==
  ASSUME Closed PROVE \A p \in Person : Len(camps[p]) > 0 => Len(camps'[p]) > 0
  BY DEF Closed

\* What holds of the cursors holds on.
LEMMA CursorsStay ==
  ASSUME CInv, TypeOK', Grows, feed' = feed, mark' = mark
  PROVE  (\A s \in Sources : Fed(mark[s]))' /\ (DistinctTimes => NoLeadLost')
  <1>1. (\A s \in Sources : Fed(mark[s]))'
    BY DEF CInv, Fed
  <1>2. \A s \in Sources : Listed(s)' = Listed(s)
    BY DEF Listed
  <1>3. \A x : Safe(x) => Safe(x)'
    BY SafeStays DEF CInv
  <1>4. DistinctTimes => NoLeadLost'
    BY <1>2, <1>3 DEF CInv, NoLeadLost, Safe
  <1> QED
    BY <1>1, <1>4

\* What holds of a run that takes no step holds on.
LEMMA RunStays ==
  ASSUME CInv, TypeOK', Grows, feed' = feed, NEW q \in Runs, run'[q] = run[q]
  PROVE  (Fed(run[q].top) /\ Located(q) /\ Inserted(q) /\ Placed(q) /\ Covered(q))'
  <1>1. /\ Fed(run[q].top) /\ Located(q) /\ Inserted(q) /\ Placed(q) /\ Covered(q)
        /\ Entries(q) \subseteq Person
    BY EntriesType DEF CInv
  <1>2. Named(q)' = Named(q) /\ New(q)' = New(q) /\ Entries(q)' = Entries(q)
    BY DEF Named, New, Entries
  <1>3. (Fed(run[q].top))' /\ Located(q)' /\ Inserted(q)'
    BY <1>1, <1>2 DEF Fed, Located, Inserted, Grows
  <1>4. Placed(q)'
    BY <1>1, <1>2 DEF Placed, Grows
  <1>5. \A x : Safe(x) => Safe(x)'
    BY SafeStays DEF CInv
  <1>6. Covered(q)'
    BY <1>1, <1>5 DEF Covered, Listed
  <1> QED
    BY <1>3, <1>4, <1>6

\* A run that goes on from one phase to a later one keeps its batch.
LEMMA RunGoesOn ==
  ASSUME CInv, TypeOK', Grows, feed' = feed, NEW q \in Runs, run[q].phase # "idle",
         run'[q].source = run[q].source, run'[q].batch = run[q].batch,
         run'[q].known = run[q].known, run'[q].top = run[q].top
  PROVE  /\ (Fed(run[q].top) /\ Located(q) /\ Covered(q))'
         /\ New(q)' = New(q) /\ Entries(q)' = Entries(q)
  <1>1. Fed(run[q].top) /\ Located(q) /\ Covered(q)
    BY DEF CInv
  <1>2. New(q)' = New(q) /\ Entries(q)' = Entries(q)
    BY DEF Named, New, Entries
  <1>3. (Fed(run[q].top))' /\ Located(q)'
    BY <1>1 DEF Fed, Located, Grows
  <1>4. \A x : Safe(x) => Safe(x)'
    BY SafeStays DEF CInv
  <1>5. Covered(q)'
    BY <1>1, <1>4 DEF Covered, Listed
  <1> QED
    BY <1>2, <1>3, <1>5

LEMMA IdleRun ==
  ASSUME NEW q \in Runs, run'[q] = Idle
  PROVE  (Fed(run[q].top) /\ Located(q) /\ Inserted(q) /\ Placed(q) /\ Covered(q))'
  <1>1. /\ run'[q].phase = "idle" /\ run'[q].top = 0
        /\ run'[q].known = [l \in Leads |-> Nobody]
    BY DEF Idle
  <1> QED
    BY <1>1 DEF Fed, Located, Inserted, Placed, Covered

\* What a run is in the phase it goes on to.
LEMMA PhaseType ==
  ASSUME TypeOK, NEW r \in Runs, NEW to \in Phases, NEW from, Phase(r, from, to)
  PROVE  /\ run' \in [Runs -> RunDoc] /\ run[r].phase = from /\ run'[r].phase = to
         /\ \A q \in Runs \ {r} : run'[q] = run[q]
         /\ run'[r].source = run[r].source /\ run'[r].batch = run[r].batch
         /\ run'[r].known = run[r].known /\ run'[r].top = run[r].top /\ run'[r].had = run[r].had
         /\ run'[r].settled = run[r].settled /\ run'[r].entering = run[r].entering
         /\ run'[r].opened = run[r].opened
  <1>1. run[r] \in RunDoc /\ run' = [run EXCEPT ![r] = [run[r] EXCEPT !.phase = to]]
    BY DEF TypeOK, Phase
  <1> DEFINE d == [run[r] EXCEPT !.phase = to]
  <1>2. /\ d \in RunDoc /\ d.phase = to /\ d.source = run[r].source /\ d.batch = run[r].batch
        /\ d.known = run[r].known /\ d.top = run[r].top /\ d.had = run[r].had
        /\ d.settled = run[r].settled /\ d.entering = run[r].entering /\ d.opened = run[r].opened
    BY <1>1 DEF RunDoc
  <1> HIDE DEF d
  <1>3. run'[r] = d /\ \A q \in Runs \ {r} : run'[q] = run[q]
    BY <1>1 DEF TypeOK, d
  <1>4. run' \in [Runs -> RunDoc]
    BY <1>1, <1>2 DEF TypeOK, d
  <1> QED
    BY <1>2, <1>3, <1>4 DEF Phase

LEMMA IdleType == Idle \in RunDoc
  <1>1. (CHOOSE s \in Sources : TRUE) \in Sources
    BY IntakeAssumption
  <1>2. "idle" \in Phases /\ [l \in Leads |-> Nobody] \in [Leads -> Person \cup {Nobody}]
    BY DEF Phases
  <1> QED
    BY <1>1, <1>2 DEF Idle, RunDoc

LEMMA ArrivalsType ==
  ASSUME TypeOK, NEW r \in Runs, NEW who, Arrive(r, who)
  PROVE  arrivals' \in [Person -> [Rows -> Nat]]
  BY DEF TypeOK, Arrive, Added, Copies

Facts(r) == Fed(run[r].top) /\ Located(r) /\ Inserted(r) /\ Placed(r) /\ Covered(r)

LEMMA OneRunSteps ==
  ASSUME CInv, TypeOK', Grows, feed' = feed, mark' = mark, NEW r \in Runs,
         \A q \in Runs \ {r} : run'[q] = run[q], Facts(r)'
  PROVE  CInv'
  <1>1. \A q \in Runs \ {r} : Facts(q)'
    BY RunStays DEF Facts
  <1> QED
    BY <1>1, CursorsStay DEF CInv, Facts

LEMMA NoRunSteps ==
  ASSUME CInv, TypeOK', Grows, feed' = feed, mark' = mark, run' = run PROVE CInv'
  <1>1. \A q \in Runs : Facts(q)'
    BY RunStays DEF Facts
  <1> QED
    BY <1>1, CursorsStay DEF CInv, Facts

LEMMA InsertCovers == ASSUME CInv, NEW r \in Runs, Insert(r) PROVE CInv'
  <1>0. "attach" \in Phases /\ Phase(r, "insert", "attach")
    BY DEF Phases, Insert
  <1>1. TypeOK'
    BY <1>0, PhaseType, ArrivalsType, EntriesType DEF Insert, hist, CInv, TypeOK
  <1>2. Grows
    BY DEF Insert, hist, Grows
  <1>3. /\ (Fed(run[r].top) /\ Located(r) /\ Covered(r))'
        /\ New(r)' = New(r) /\ Entries(r)' = Entries(r)
    BY <1>0, <1>1, <1>2, PhaseType, RunGoesOn DEF Insert, CInv
  <1>4. Inserted(r)'
    BY <1>3 DEF Insert, Inserted
  <1>5. Placed(r)'
    BY <1>0, PhaseType DEF Placed, CInv
  <1> QED
    BY <1>0, <1>1, <1>2, <1>3, <1>4, <1>5, PhaseType, OneRunSteps DEF Facts, Insert, CInv

LEMMA AttachCovers == ASSUME CInv, NEW r \in Runs, Attach(r) PROVE CInv'
  <1>0. "lookup" \in Phases /\ Phase(r, "attach", "lookup")
    BY DEF Phases, Attach
  <1>1. TypeOK'
    BY <1>0, PhaseType, ArrivalsType DEF Attach, hist, CInv, TypeOK
  <1>2. Grows
    BY DEF Attach, hist, Grows
  <1>3. /\ (Fed(run[r].top) /\ Located(r) /\ Covered(r))'
        /\ New(r)' = New(r) /\ Entries(r)' = Entries(r)
    BY <1>0, <1>1, <1>2, PhaseType, RunGoesOn DEF Attach, CInv
  <1>4. Inserted(r)'
    BY <1>0, <1>3, PhaseType DEF Attach, Inserted, CInv
  <1>5. Placed(r)'
    BY <1>0, PhaseType DEF Placed, CInv
  <1> QED
    BY <1>0, <1>1, <1>2, <1>3, <1>4, <1>5, PhaseType, OneRunSteps DEF Facts, Attach, CInv

\* Who is not a candidate has a campaign.
LEMMA NoCandidate ==
  ASSUME TypeOK, NEW r \in Runs, NEW p \in Entries(r) \ Candidates(r)
  PROVE  Len(camps[p]) > 0
  <1>1. PICK k \in 1 .. Len(camps[p]) : camps[p][k].status = "active"
    BY DEF Candidates, HasCamp
  <1>2. Len(camps[p]) \in Nat
    BY EntriesType, LenProperties DEF TypeOK
  <1> QED
    BY <1>1, <1>2

LEMMA LookupType ==
  ASSUME TypeOK, NEW r \in Runs, Lookup(r)
  PROVE  /\ run' \in [Runs -> RunDoc] /\ run[r].phase = "lookup" /\ run'[r].phase = "met"
         /\ \A q \in Runs \ {r} : run'[q] = run[q]
         /\ run'[r].source = run[r].source /\ run'[r].batch = run[r].batch
         /\ run'[r].known = run[r].known /\ run'[r].top = run[r].top /\ run'[r].had = run[r].had
         /\ run'[r].settled = {p \in Candidates(r) : HasCamp(p, "succeeded")}
         /\ run'[r].entering = {p \in Candidates(r) : ~HasCamp(p, "succeeded")}
  <1> DEFINE met == {p \in Candidates(r) : HasCamp(p, "succeeded")}
  <1> DEFINE d == [run[r] EXCEPT !.phase = "met", !.settled = met, !.entering = Candidates(r) \ met]
  <1>1. run[r] \in RunDoc /\ run' = [run EXCEPT ![r] = d] /\ run[r].phase = "lookup"
    BY DEF TypeOK, Lookup
  <1>2. met \in SUBSET Person /\ Candidates(r) \ met \in SUBSET Person /\ "met" \in Phases
    BY EntriesType DEF Candidates, Phases
  <1>3. Candidates(r) \ met = {p \in Candidates(r) : ~HasCamp(p, "succeeded")}
    OBVIOUS
  <1> HIDE DEF met
  <1>4. /\ d \in RunDoc /\ d.phase = "met" /\ d.source = run[r].source /\ d.batch = run[r].batch
        /\ d.known = run[r].known /\ d.top = run[r].top /\ d.had = run[r].had
        /\ d.settled = met /\ d.entering = Candidates(r) \ met
    BY <1>1, <1>2 DEF RunDoc
  <1> HIDE DEF d
  <1>5. run'[r] = d /\ \A q \in Runs \ {r} : run'[q] = run[q]
    BY <1>1 DEF TypeOK
  <1>6. run' \in [Runs -> RunDoc]
    BY <1>1, <1>4 DEF TypeOK
  <1> QED
    BY <1>1, <1>3, <1>4, <1>5, <1>6 DEF met

LEMMA LookupCovers == ASSUME CInv, NEW r \in Runs, Lookup(r) PROVE CInv'
  <1>1. TypeOK'
    BY LookupType DEF Lookup, db, hist, CInv, TypeOK
  <1>2. Grows
    BY DEF Lookup, db, hist, Grows
  <1>3. /\ (Fed(run[r].top) /\ Located(r) /\ Covered(r))'
        /\ New(r)' = New(r) /\ Entries(r)' = Entries(r)
    BY <1>1, <1>2, LookupType, RunGoesOn DEF Lookup, CInv
  <1>4. Inserted(r)'
    BY <1>3, LookupType DEF Lookup, db, Inserted, CInv
  <1>5. Placed(r)'
    <2> SUFFICES ASSUME NEW p \in Entries(r)
                 PROVE  p \in run'[r].settled \cup run'[r].entering \/ Len(camps'[p]) > 0
      BY <1>3, LookupType DEF Placed, CInv
    <2>1. CASE p \in Candidates(r)
      BY <2>1, LookupType DEF CInv
    <2>2. CASE p \notin Candidates(r)
      BY <2>2, NoCandidate DEF Lookup, db, CInv
    <2> QED
      BY <2>1, <2>2
  <1> QED
    BY <1>1, <1>2, <1>3, <1>4, <1>5, LookupType, OneRunSteps DEF Facts, Lookup, db, CInv

LEMMA RecordMetCovers == ASSUME CInv, NEW r \in Runs, RecordMet(r) PROVE CInv'
  <1> DEFINE to == IF run[r].entering = {} THEN "finish" ELSE "enrol"
  <1>0. to \in Phases /\ Phase(r, "met", to)
    BY DEF Phases, RecordMet
  <1>o. Opened(run[r].settled, "already_met")
    BY OpenOpens DEF RecordMet, CampStatuses, CInv
  <1>1. TypeOK'
    BY <1>0, <1>o, PhaseType DEF RecordMet, hist, CInv, TypeOK, Opened
  <1>2. Grows
    BY <1>o, OpenedGrows DEF RecordMet, hist, Grows, CInv
  <1>3. /\ (Fed(run[r].top) /\ Located(r) /\ Covered(r))'
        /\ New(r)' = New(r) /\ Entries(r)' = Entries(r)
    BY <1>0, <1>1, <1>2, PhaseType, RunGoesOn DEF RecordMet, CInv
  <1>4. Inserted(r)'
    BY <1>0, <1>3, PhaseType DEF RecordMet, Inserted, CInv
  <1>5. Placed(r)'
    <2> SUFFICES ASSUME NEW p \in Entries(r)
                 PROVE  p \in run[r].entering \/ Len(camps'[p]) > 0
      BY <1>0, <1>3, PhaseType DEF Placed, CInv
    <2>1. p \in Person /\ Len(camps[p]) \in Nat
      BY EntriesType, LenProperties DEF CInv, TypeOK
    <2>2. p \in run[r].settled \cup run[r].entering \/ Len(camps[p]) > 0
      BY <1>0, PhaseType DEF CInv, Placed
    <2> QED
      BY <1>2, <1>o, <2>1, <2>2 DEF Opened, Grows
  <1> QED
    BY <1>0, <1>1, <1>2, <1>3, <1>4, <1>5, PhaseType, OneRunSteps DEF Facts, RecordMet, CInv

LEMMA EnrolType ==
  ASSUME TypeOK, NEW r \in Runs, Enrol(r)
  PROVE  /\ run' \in [Runs -> RunDoc] /\ run[r].phase = "enrol" /\ run'[r].phase = "welcome"
         /\ \A q \in Runs \ {r} : run'[q] = run[q]
         /\ run'[r].source = run[r].source /\ run'[r].batch = run[r].batch
         /\ run'[r].known = run[r].known /\ run'[r].top = run[r].top
  <1> DEFINE o == [p \in Person |-> IF p \in run[r].entering THEN Len(camps[p]) + 1 ELSE 0]
  <1> DEFINE d == [run[r] EXCEPT !.phase = "welcome", !.opened = o]
  <1>1. run[r] \in RunDoc /\ run' = [run EXCEPT ![r] = d] /\ run[r].phase = "enrol"
    BY DEF TypeOK, Enrol
  <1>2. \A p \in Person : Len(camps[p]) \in Nat
    BY LenProperties DEF TypeOK
  <1>3. o \in [Person -> Nat] /\ "welcome" \in Phases
    BY <1>2 DEF Phases
  <1> HIDE DEF o
  <1>4. /\ d \in RunDoc /\ d.phase = "welcome" /\ d.source = run[r].source /\ d.batch = run[r].batch
        /\ d.known = run[r].known /\ d.top = run[r].top
    BY <1>1, <1>3 DEF RunDoc
  <1> HIDE DEF d
  <1>5. run'[r] = d /\ \A q \in Runs \ {r} : run'[q] = run[q]
    BY <1>1 DEF TypeOK
  <1>6. run' \in [Runs -> RunDoc]
    BY <1>1, <1>4 DEF TypeOK
  <1> QED
    BY <1>1, <1>4, <1>5, <1>6

LEMMA EnrolCovers == ASSUME CInv, NEW r \in Runs, Enrol(r) PROVE CInv'
  <1>o. Opened(run[r].entering, "active")
    BY OpenOpens DEF Enrol, CampStatuses, CInv
  <1>1. TypeOK'
    BY <1>o, EnrolType DEF Enrol, hist, CInv, TypeOK, Opened
  <1>2. Grows
    BY <1>o, OpenedGrows DEF Enrol, hist, Grows, CInv
  <1>3. /\ (Fed(run[r].top) /\ Located(r) /\ Covered(r))'
        /\ New(r)' = New(r) /\ Entries(r)' = Entries(r)
    BY <1>1, <1>2, EnrolType, RunGoesOn DEF Enrol, CInv
  <1>4. Inserted(r)'
    BY <1>3, EnrolType DEF Enrol, Inserted, CInv
  <1>5. Placed(r)'
    <2> SUFFICES ASSUME NEW p \in Entries(r) PROVE Len(camps'[p]) > 0
      BY <1>3, EnrolType DEF Placed, CInv
    <2>1. p \in Person /\ Len(camps[p]) \in Nat
      BY EntriesType, LenProperties DEF CInv, TypeOK
    <2>2. p \in run[r].entering \/ Len(camps[p]) > 0
      BY EnrolType DEF CInv, Placed
    <2> QED
      BY <1>2, <1>o, <2>1, <2>2 DEF Opened, Grows
  <1> QED
    BY <1>1, <1>2, <1>3, <1>4, <1>5, EnrolType, OneRunSteps DEF Facts, Enrol, CInv

LEMMA WelcomeCovers == ASSUME CInv, NEW r \in Runs, Welcome(r) PROVE CInv'
  <1>0. "finish" \in Phases /\ Phase(r, "welcome", "finish")
    BY DEF Phases, Welcome
  <1>c. Closed
    BY WelcomeCloses DEF CInv
  <1>1. TypeOK'
    BY <1>0, <1>c, PhaseType DEF Welcome, hist, CInv, TypeOK, Closed
  <1>2. Grows
    BY <1>c, ClosedGrows DEF Welcome, hist, Grows
  <1>3. /\ (Fed(run[r].top) /\ Located(r) /\ Covered(r))'
        /\ New(r)' = New(r) /\ Entries(r)' = Entries(r)
    BY <1>0, <1>1, <1>2, PhaseType, RunGoesOn DEF Welcome, CInv
  <1>4. Inserted(r)'
    BY <1>0, <1>3, PhaseType DEF Welcome, Inserted, CInv
  <1>5. Placed(r)'
    BY <1>0, <1>2, <1>3, PhaseType, EntriesType DEF Placed, Grows, CInv
  <1> QED
    BY <1>0, <1>1, <1>2, <1>3, <1>4, <1>5, PhaseType, OneRunSteps DEF Facts, Welcome, CInv

LEMMA FaultType == ASSUME TypeOK, NEW name, Fault(name) PROVE faults' \in Nat
  BY DEF TypeOK, Fault

LEMMA NoChannelCovers == ASSUME CInv, NEW r \in Runs, NoChannel(r) PROVE CInv'
  <1>0. "finish" \in Phases /\ Phase(r, "welcome", "finish")
    BY DEF Phases, NoChannel
  <1>1. TypeOK'
    BY <1>0, PhaseType, FaultType DEF NoChannel, Fault, db, CInv, TypeOK
  <1>2. Grows
    BY DEF NoChannel, Fault, db, Grows
  <1>3. /\ (Fed(run[r].top) /\ Located(r) /\ Covered(r))'
        /\ New(r)' = New(r) /\ Entries(r)' = Entries(r)
    BY <1>0, <1>1, <1>2, PhaseType, RunGoesOn DEF NoChannel, CInv
  <1>4. Inserted(r)'
    BY <1>0, <1>3, PhaseType DEF NoChannel, db, Inserted, CInv
  <1>5. Placed(r)'
    BY <1>0, <1>2, <1>3, PhaseType, EntriesType DEF Placed, Grows, CInv
  <1> QED
    BY <1>0, <1>1, <1>2, <1>3, <1>4, <1>5, PhaseType, OneRunSteps DEF Facts, NoChannel, db, CInv

LEMMA DieCovers == ASSUME CInv, NEW r \in Runs, Die(r) PROVE CInv'
  <1>1. run' \in [Runs -> RunDoc] /\ run'[r] = Idle /\ \A q \in Runs \ {r} : run'[q] = run[q]
    BY IdleType DEF Die, CInv, TypeOK
  <1>2. TypeOK'
    BY <1>1, FaultType DEF Die, Fault, db, CInv, TypeOK
  <1>3. Grows
    BY DEF Die, Fault, db, Grows
  <1>4. Facts(r)'
    BY <1>1, IdleRun DEF Facts
  <1> QED
    BY <1>1, <1>2, <1>3, <1>4, OneRunSteps DEF Die, db, CInv

LEMMA VerifiedCovers ==
  ASSUME CInv, NEW p \in Person, NEW k \in 1 .. Len(camps[p]), Verified(p, k) PROVE CInv'
  <1>c. Closed
    BY VerifiedCloses DEF CInv
  <1>1. TypeOK'
    BY <1>c DEF Verified, hist, CInv, TypeOK, Closed
  <1>2. Grows
    BY <1>c, ClosedGrows DEF Verified, hist, Grows
  <1> QED
    BY <1>1, <1>2, NoRunSteps DEF Verified, CInv

LEMMA OptOutCovers == ASSUME CInv, NEW l \in Leads, OptOut(l) PROVE CInv'
  <1>c. Closed
    BY OptOutCloses DEF CInv
  <1>1. TypeOK'
    BY <1>c DEF OptOut, hist, CInv, TypeOK, Closed
  <1>2. Grows
    BY <1>c, ClosedGrows DEF OptOut, hist, Grows
  <1> QED
    BY <1>1, <1>2, NoRunSteps DEF OptOut, CInv


\* Among any submissions there is a newest.
LEMMA Newest ==
  ASSUME NEW T \in SUBSET Rows, T # {}
  PROVE  \E x \in T : \A y \in T : Time[y] <= Time[x]
  <1> DEFINE Has(U) == \E x \in U : \A y \in U : Time[y] <= Time[x]
  <1> DEFINE Without == {U \in SUBSET Rows : U # {} /\ ~Has(U)}
  <1>1. Time \in [Rows -> Nat]
    BY IntakeAssumption
  <1>2. SUFFICES ASSUME Without # {} PROVE FALSE
    OBVIOUS
  <1>3. FiniteSubsetsOf(Rows) = SUBSET Rows
    BY FS_FiniteSubsetsOfFinite, IntakeAssumption
  <1>4. IsWellFoundedOn(StrictSubsetOrdering(Rows), SUBSET Rows)
    BY <1>3, FS_StrictSubsetOrderingWellFounded
  <1>5. PICK U \in Without : \A V \in Without : ~(<<V, U>> \in StrictSubsetOrdering(Rows))
    <2>1. Without \subseteq SUBSET Rows
      OBVIOUS
    <2> HIDE DEF Without
    <2> QED
      BY <1>2, <1>4, <2>1, WFMin
  <1>6. U \in SUBSET Rows /\ U # {} /\ ~Has(U)
    BY <1>5
  <1>7. PICK x \in U : TRUE
    BY <1>6
  <1>8. <<U \ {x}, U>> \in StrictSubsetOrdering(Rows)
    BY <1>6, <1>7 DEF StrictSubsetOrdering
  <1>9. U \ {x} = {} \/ Has(U \ {x})
    BY <1>5, <1>6, <1>8
  <1>10. CASE U \ {x} = {}
    BY <1>1, <1>6, <1>7, <1>10
  <1>11. CASE Has(U \ {x})
    <2>1. PICK z \in U \ {x} : \A y \in U \ {x} : Time[y] <= Time[z]
      BY <1>11
    <2>2. Time[x] \in Nat /\ Time[z] \in Nat /\ \A y \in U : Time[y] \in Nat
      BY <1>1, <1>6, <1>7
    <2>3. CASE Time[x] <= Time[z]
      BY <1>6, <2>1, <2>3
    <2>4. CASE Time[z] <= Time[x]
      BY <1>6, <1>7, <2>1, <2>2, <2>4
    <2> QED
      BY <2>2, <2>3, <2>4
  <1> QED
    BY <1>9, <1>10, <1>11

\* The cursor a poll brings is no older than the stored one or any row it saw.
LEMMA NextMarkIs ==
  ASSUME TypeOK, NEW s \in Sources
  PROVE  /\ NextMark(s) \in Nat
         /\ s \notin Whole => \A x \in Visited(s) : Time[x] <= NextMark(s)
         /\ NextMark(s) = mark[s] \/ \E x \in Visited(s) : NextMark(s) = Time[x]
  <1> DEFINE seen == {mark[s]} \cup {Time[x] : x \in Visited(s)}
  <1>1. mark[s] \in Nat /\ Time \in [Rows -> Nat] /\ Visited(s) \in SUBSET Rows
    BY IntakeAssumption DEF TypeOK, Visited, Listed
  <1>2. CASE s \in Whole
    BY <1>1, <1>2 DEF NextMark
  <1>3. CASE s \notin Whole
    <2>1. \E t \in seen : \A u \in seen : u <= t
      <3>1. CASE Visited(s) = {}
        BY <1>1, <3>1
      <3>2. CASE Visited(s) # {}
        <4>1. PICK x \in Visited(s) : \A y \in Visited(s) : Time[y] <= Time[x]
          BY <1>1, <3>2, Newest
        <4>2. Time[x] \in Nat
          BY <1>1
        <4>3. CASE mark[s] <= Time[x]
          BY <4>1, <4>3
        <4>4. CASE Time[x] <= mark[s]
          <5>1. \A y \in Visited(s) : Time[y] \in Nat
            BY <1>1
          <5>2. \A y \in Visited(s) : Time[y] <= mark[s]
            BY <1>1, <4>1, <4>2, <4>4, <5>1
          <5> QED
            BY <1>1, <5>2
        <4> QED
          BY <1>1, <4>2, <4>3, <4>4
      <3> QED
        BY <3>1, <3>2
    <2>2. NextMark(s) = CHOOSE t \in seen : \A u \in seen : u <= t
      BY <1>3 DEF NextMark
    <2>3. NextMark(s) \in seen /\ \A u \in seen : u <= NextMark(s)
      BY <2>1, <2>2
    <2> QED
      BY <1>1, <2>3
  <1> QED
    BY <1>2, <1>3

LEMMA SomebodyIs == ASSUME NEW p \in Person PROVE p # Nobody
  <1>1. PICK l \in Leads, r \in Runs : p = <<l, r>>
    BY DEF Person
  <1>2. Len(<<l, r>>) = 2 /\ Len(<<>>) = 0
    OBVIOUS
  <1> QED
    BY <1>1, <1>2 DEF Nobody

LEMMA ReadType ==
  ASSUME TypeOK, NEW r \in Runs, NEW s \in Sources, Read(r, s)
  PROVE  LET rows == {x \in Fetched(s) : Who[x] \notin suppressed}
         IN  /\ run' \in [Runs -> RunDoc] /\ \A q \in Runs \ {r} : run'[q] = run[q]
             /\ run'[r].phase = IF rows = {} THEN "finish" ELSE "insert"
             /\ run'[r].source = s /\ run'[r].batch = rows /\ run'[r].top = NextMark(s)
             /\ run'[r].had = {x \in rows : /\ run'[r].known[Who[x]] # Nobody
                                           /\ arrivals[run'[r].known[Who[x]]][x] > 0}
             /\ \A l \in Leads :
                  IF run'[r].known[l] = Nobody THEN \A p \in people : LeadOf(p) # l
                  ELSE run'[r].known[l] \in people /\ LeadOf(run'[r].known[l]) = l
  <1> DEFINE rows == {x \in Fetched(s) : Who[x] \notin suppressed}
  <1>1. PICK found \in [Leads -> people \cup {Nobody}] :
          /\ \A l \in Leads : IF Documents(l) = {} THEN found[l] = Nobody
                              ELSE found[l] \in Documents(l)
          /\ run' = [run EXCEPT ![r] = [Idle EXCEPT
               !.phase = IF rows = {} THEN "finish" ELSE "insert",
               !.source = s, !.batch = rows, !.known = found, !.top = NextMark(s),
               !.had = {x \in rows : /\ found[Who[x]] # Nobody
                                     /\ arrivals[found[Who[x]]][x] > 0}]]
    BY DEF Read
  <1> DEFINE had == {x \in rows : found[Who[x]] # Nobody /\ arrivals[found[Who[x]]][x] > 0}
  <1> DEFINE ph == IF rows = {} THEN "finish" ELSE "insert"
  <1> DEFINE d == [Idle EXCEPT !.phase = ph, !.source = s, !.batch = rows, !.known = found,
                               !.top = NextMark(s), !.had = had]
  <1>2. rows \in SUBSET Rows
    BY DEF Fetched, Visited, Listed, TypeOK
  <1>3. had \in SUBSET Rows /\ ph \in Phases /\ NextMark(s) \in Nat
    BY <1>2, NextMarkIs DEF Phases
  <1>4. found \in [Leads -> Person \cup {Nobody}]
    BY <1>1 DEF TypeOK
  <1>5. run' = [run EXCEPT ![r] = d]
    BY <1>1
  <1>6. \A l \in Leads : IF found[l] = Nobody THEN \A p \in people : LeadOf(p) # l
                         ELSE found[l] \in people /\ LeadOf(found[l]) = l
    <2> TAKE l \in Leads
    <2>1. \A p \in people : LeadOf(p) = l => p # Nobody
      BY SomebodyIs DEF TypeOK
    <2> QED
      BY <1>1, <2>1 DEF Documents
  <1> HIDE DEF rows, had, ph
  <1>7. /\ d \in RunDoc /\ d.phase = ph /\ d.source = s /\ d.batch = rows /\ d.known = found
        /\ d.top = NextMark(s) /\ d.had = had
    BY <1>2, <1>3, <1>4, IdleType DEF RunDoc
  <1> HIDE DEF d
  <1>8. run'[r] = d /\ (\A q \in Runs \ {r} : run'[q] = run[q]) /\ run' \in [Runs -> RunDoc]
    BY <1>5, <1>7 DEF TypeOK
  <1> QED
    BY <1>6, <1>7, <1>8 DEF rows, ph, had

LEMMA ReadCovers == ASSUME CInv, NEW r \in Runs, NEW s \in Sources, Read(r, s) PROVE CInv'
  <1> DEFINE rows == {x \in Fetched(s) : Who[x] \notin suppressed}
  <1>1. TypeOK'
    <2>1. beyond' \subseteq Rows /\ polls' \in Nat
      BY DEF Read, CInv, TypeOK, Listed
    <2> QED
      BY <2>1, ReadType DEF Read, db, CInv, TypeOK
  <1>2. Grows
    BY DEF Read, db, Grows
  <1>3. Fed(run[r].top)'
    <2>1. feed' = feed /\ Fed(mark[s]) /\ Visited(s) \subseteq feed
      BY DEF Read, CInv, Visited, Listed
    <2>2. Time \in [Rows -> Nat] /\ feed \subseteq Rows
      BY IntakeAssumption DEF CInv, TypeOK
    <2>3. run'[r].top = NextMark(s)
      BY ReadType DEF CInv
    <2>4. CASE NextMark(s) = mark[s]
      BY <2>1, <2>3, <2>4 DEF Fed
    <2>5. CASE \E x \in Visited(s) : NextMark(s) = Time[x]
      BY <2>1, <2>2, <2>3, <2>5 DEF Fed
    <2> QED
      BY <2>4, <2>5, NextMarkIs DEF CInv
  <1>r. /\ run'[r].source = s /\ run'[r].batch = rows /\ run'[r].top = NextMark(s)
        /\ \A l \in Leads : run'[r].known[l] # Nobody =>
             run'[r].known[l] \in people /\ LeadOf(run'[r].known[l]) = l
    BY ReadType DEF CInv
  <1>4. Located(r)'
    BY <1>r, <1>2 DEF Located, Grows
  <1>5. run'[r].batch = {} => New(r)' = {} /\ Entries(r)' = {}
    BY DEF Named, New, Entries
  <1>6. Inserted(r)' /\ Placed(r)'
    BY <1>5, ReadType DEF Inserted, Placed, CInv
  <1>7. Covered(r)'
    <2> SUFFICES ASSUME DistinctTimes, s \notin Whole, NEW x \in Listed(s), Time[x] <= NextMark(s)
                 PROVE  x \in rows \/ Safe(x)'
      <3>1. Listed(s)' = Listed(s)
        BY DEF Read, Listed
      <3> QED
        BY <1>r, <3>1 DEF Covered
    <2>1. x \in Rows /\ Time[x] \in Nat /\ mark[s] \in Nat
      BY IntakeAssumption DEF Listed, CInv, TypeOK
    <2>2. CASE Time[x] <= mark[s]
      BY <1>1, <1>2, <2>2, SafeStays DEF CInv, NoLeadLost, Safe
    <2>3. CASE Time[x] > mark[s] /\ x \in Visited(s)
      BY <2>3 DEF Fetched, Safe, Read, db
    <2>4. CASE Time[x] > mark[s] /\ x \notin Visited(s)
      BY <2>4 DEF Read, Safe
    <2> QED
      BY <2>1, <2>2, <2>3, <2>4
  <1> QED
    BY <1>1, <1>2, <1>3, <1>4, <1>6, <1>7, ReadType, OneRunSteps DEF Facts, Read, db, CInv

\* A batch that has been through every phase is in the campaign.
LEMMA BatchEntered ==
  ASSUME CInv, NEW r \in Runs, run[r].phase = "finish", NEW x \in run[r].batch
  PROVE  Entered(Who[x])
  <1>1. Who[x] \in Leads /\ Who[x] \in Named(r)
    BY IntakeAssumption DEF CInv, TypeOK, RunDoc, Named
  <1>2. PICK p \in Entries(r) : p \in people /\ LeadOf(p) = Who[x]
    <2>1. CASE run[r].known[Who[x]] = Nobody
      <3>1. <<Who[x], r>> \in New(r) /\ LeadOf(<<Who[x], r>>) = Who[x]
        BY <1>1, <2>1 DEF New, LeadOf
      <3>2. New(r) \subseteq people
        BY DEF CInv, Inserted
      <3> QED
        BY <3>1, <3>2 DEF Entries
    <2>2. CASE run[r].known[Who[x]] # Nobody
      <3>1. run[r].known[Who[x]] \in Entries(r)
        BY <1>1, <2>2 DEF Entries
      <3>2. run[r].known[Who[x]] \in people /\ LeadOf(run[r].known[Who[x]]) = Who[x]
        BY <1>1, <2>2 DEF CInv, Located
      <3> QED
        BY <3>1, <3>2
    <2> QED
      BY <2>1, <2>2
  <1>3. Len(camps[p]) > 0
    BY DEF CInv, Placed
  <1>4. camps[p] \in Seq(CampDoc)
    BY <1>2 DEF CInv, TypeOK
  <1> QED
    BY <1>2, <1>3, <1>4, NotEmpty DEF Entered

LEMMA FinishCovers == ASSUME CInv, NEW r \in Runs, Finish(r) PROVE CInv'
  <1>1. run' \in [Runs -> RunDoc] /\ run'[r] = Idle /\ \A q \in Runs \ {r} : run'[q] = run[q]
    BY IdleType DEF Finish, CInv, TypeOK
  <1>2. run[r].source \in Sources /\ run[r].top \in Nat /\ run[r].phase = "finish"
    BY DEF CInv, TypeOK, RunDoc, Finish
  <1>3. mark' \in [Sources -> Nat] /\ \A s \in Sources :
          mark'[s] = IF s = run[r].source THEN run[r].top ELSE mark[s]
    BY <1>2 DEF CInv, TypeOK, Finish
  <1>4. TypeOK'
    BY <1>1, <1>3 DEF Finish, hist, CInv, TypeOK
  <1>5. Grows
    BY DEF Finish, hist, Grows
  <1>6. \A q \in Runs : Facts(q)'
    BY <1>1, <1>4, <1>5, RunStays, IdleRun DEF Facts, Finish
  <1>7. (\A s \in Sources : Fed(mark[s]))'
    BY <1>3 DEF CInv, Fed, Finish
  <1>8. DistinctTimes => NoLeadLost'
    <2> SUFFICES ASSUME DistinctTimes, NEW s \in Sources \ Whole, NEW x \in Listed(s)', Time[x] <= mark'[s]
                 PROVE  Safe(x)'
      BY DEF NoLeadLost, Safe
    <2>1. Listed(s)' = Listed(s)
      BY DEF Listed, Finish
    <2>2. Safe(x)
      <3>1. CASE s = run[r].source
        BY <1>2, <1>3, <2>1, <3>1, BatchEntered DEF CInv, Covered, Safe
      <3>2. CASE s # run[r].source
        BY <1>3, <2>1, <3>2 DEF CInv, NoLeadLost, Safe
      <3> QED
        BY <3>1, <3>2
    <2> QED
      BY <1>4, <1>5, <2>2, SafeStays DEF CInv
  <1> QED
    BY <1>4, <1>6, <1>7, <1>8 DEF CInv, Facts

\* A new submission is behind no cursor.
LEMMA AheadOfCursors ==
  ASSUME DistinctTimes, CInv, NEW x \in Rows, Submit(x), NEW t \in Nat, Fed(t)
  PROVE  ~(Time[x] <= t)
  <1>1. Time \in [Rows -> Nat \ {0}] /\ feed \subseteq Rows /\ x \notin feed
    BY IntakeAssumption DEF CInv, TypeOK, Submit
  <1>2. CASE t = 0
    BY <1>1, <1>2
  <1>3. CASE t # 0
    <2>1. PICK y \in feed : t <= Time[y]
      BY <1>3 DEF Fed
    <2>2. y \in Rows /\ x # y /\ Time[y] <= Time[x]
      BY <1>1 DEF Submit
    <2>3. Time[x] # Time[y]
      BY <2>2 DEF DistinctTimes
    <2> QED
      BY <1>1, <2>1, <2>2, <2>3
  <1> QED
    BY <1>2, <1>3

LEMMA SubmitCovers == ASSUME CInv, NEW x \in Rows, Submit(x) PROVE CInv'
  <1>1. TypeOK'
    BY DEF Submit, db, hist, CInv, TypeOK
  <1>2. Grows
    BY DEF Submit, db, hist, Grows
  <1>3. \A t : Fed(t) => Fed(t)'
    BY DEF Submit, Fed
  <1>4. \A y : Safe(y) => Safe(y)'
    BY <1>1, <1>2, SafeStays DEF CInv
  <1>5. \A s \in Sources : Listed(s)' \subseteq Listed(s) \cup {x}
    BY DEF Listed, Submit
  <1>6. (\A s \in Sources : Fed(mark[s]))' /\ \A s \in Sources : mark'[s] = mark[s] /\ mark[s] \in Nat
    BY <1>3 DEF CInv, TypeOK, Submit, db
  <1>7. DistinctTimes => NoLeadLost'
    <2> SUFFICES ASSUME DistinctTimes, NEW s \in Sources \ Whole, NEW y \in Listed(s)', Time[y] <= mark'[s]
                 PROVE  Safe(y)'
      BY DEF NoLeadLost, Safe
    <2>1. y # x
      BY <1>6, AheadOfCursors DEF CInv
    <2> QED
      BY <1>4, <1>5, <1>6, <2>1 DEF CInv, NoLeadLost, Safe
  <1>8. \A r \in Runs : Facts(r)'
    <2> TAKE r \in Runs
    <2>1. run' = run /\ people' = people /\ camps' = camps
      BY DEF Submit, db
    <2>2. Fed(run[r].top) /\ Located(r) /\ Inserted(r) /\ Placed(r) /\ Covered(r)
      BY DEF CInv
    <2>3. New(r)' = New(r) /\ Entries(r)' = Entries(r)
      BY <2>1 DEF Named, New, Entries
    <2>4. (Fed(run[r].top) /\ Located(r) /\ Inserted(r) /\ Placed(r))'
      BY <1>3, <2>1, <2>2, <2>3 DEF Fed, Located, Inserted, Placed
    <2>5. Covered(r)'
      <3> SUFFICES ASSUME DistinctTimes, run[r].phase # "idle", run[r].source \notin Whole,
                          NEW y \in Listed(run[r].source)', Time[y] <= run[r].top
                   PROVE  y \in run[r].batch \/ Safe(y)'
        BY <2>1 DEF Covered
      <3>1. run[r].source \in Sources /\ run[r].top \in Nat
        BY DEF CInv, TypeOK, RunDoc
      <3>2. y # x
        BY <2>2, <3>1, AheadOfCursors
      <3>3. y \in Listed(run[r].source)
        BY <1>5, <2>1, <3>1, <3>2 DEF Listed
      <3>4. y \in run[r].batch \/ Safe(y)
        BY <2>2, <3>3 DEF Covered
      <3> QED
        BY <1>4, <3>4
    <2> QED
      BY <2>4, <2>5 DEF Facts
  <1> QED
    BY <1>1, <1>6, <1>7, <1>8 DEF CInv, Facts

LEMMA InitCInv == Init => CInv
  <1> SUFFICES ASSUME Init PROVE CInv
    OBVIOUS
  <1>1. TypeOK
    <2>1. <<>> \in Seq(CampDoc)
      OBVIOUS
    <2>2. camps \in [Person -> Seq(CampDoc)]
      BY <2>1 DEF Init
    <2>3. arrivals \in [Person -> [Rows -> Nat]]
      BY DEF Init
    <2>4. run \in [Runs -> RunDoc] /\ mark \in [Sources -> Nat]
      BY IdleType DEF Init
    <2> QED
      BY <2>2, <2>3, <2>4 DEF Init, TypeOK
  <1>2. \A s \in Sources : Fed(mark[s])
    BY DEF Init, Fed
  <1>3. \A r \in Runs : Facts(r)
    <2> TAKE r \in Runs
    <2>1. run[r].phase = "idle" /\ run[r].top = 0 /\ run[r].known = [l \in Leads |-> Nobody]
      BY DEF Init, Idle
    <2> QED
      BY <2>1 DEF Facts, Fed, Located, Inserted, Placed, Covered
  <1>4. NoLeadLost
    BY DEF Init, NoLeadLost, Listed
  <1> QED
    BY <1>1, <1>2, <1>3, <1>4 DEF CInv, Facts

LEMMA NextCInv == CInv /\ [Next]_vars => CInv'
  <1> SUFFICES ASSUME CInv, [Next]_vars PROVE CInv'
    OBVIOUS
  <1>1. ASSUME NEW r \in Runs, NEW s \in Sources, Read(r, s) PROVE CInv'
    BY <1>1, ReadCovers
  <1>2. ASSUME NEW r \in Runs, Ingest(r) PROVE CInv'
    BY <1>2, InsertCovers, AttachCovers, LookupCovers, RecordMetCovers, EnrolCovers,
       WelcomeCovers, NoChannelCovers, FinishCovers DEF Ingest
  <1>3. ASSUME NEW r \in Runs, Die(r) PROVE CInv'
    BY <1>3, DieCovers
  <1>4. ASSUME NEW x \in Rows, Submit(x) PROVE CInv'
    BY <1>4, SubmitCovers
  <1>5. ASSUME NEW p \in Person, NEW k \in 1 .. Len(camps[p]), Verified(p, k) PROVE CInv'
    BY <1>5, VerifiedCovers
  <1>6. ASSUME NEW l \in Leads, OptOut(l) PROVE CInv'
    BY <1>6, OptOutCovers
  <1>7. CASE UNCHANGED vars
    <2>1. /\ feed' = feed /\ mark' = mark /\ people' = people /\ arrivals' = arrivals
          /\ camps' = camps /\ suppressed' = suppressed /\ run' = run
          /\ beyond' = beyond /\ faults' = faults /\ polls' = polls
      BY <1>7 DEF vars, db, hist
    <2>2. TypeOK'
      BY <2>1 DEF CInv, TypeOK
    <2>3. Grows
      BY <2>1 DEF Grows
    <2> QED
      BY <2>1, <2>2, <2>3, NoRunSteps
  <1> QED
    BY <1>1, <1>2, <1>3, <1>4, <1>5, <1>6, <1>7 DEF Next

\* The documents, cursors and runs have the types the code gives them.
THEOREM TypeCorrect == Spec => []TypeOK
  <1>1. CInv => TypeOK
    BY DEF CInv
  <1>2. Init => CInv
    BY InitCInv
  <1>3. CInv /\ [Next]_vars => CInv'
    BY NextCInv
  <1> QED
    BY <1>1, <1>2, <1>3, PTL DEF Spec

\* A row behind a stored cursor belongs to a lead with a campaign, unless the
\* lead opted out or no page reached it ("Advancing it first means a crash
\* mid-batch loses those leads permanently", runSource.ts), however many runs
\* overlap and wherever they die, if no two submissions carry one timestamp.
THEOREM NobodyIsLost == DistinctTimes => (Spec => []NoLeadLost)
  <1> SUFFICES ASSUME DistinctTimes PROVE Spec => []NoLeadLost
    OBVIOUS
  <1>1. CInv => NoLeadLost
    BY DEF CInv
  <1>2. Init => CInv
    BY InitCInv
  <1>3. CInv /\ [Next]_vars => CInv'
    BY NextCInv
  <1> QED
    BY <1>1, <1>2, <1>3, PTL DEF Spec

-----------------------------------------------------------------------------
(* One run at a time: a lead is in the campaign once.                      *)

\* Runs do not overlap.
OneRun == \A r, q \in Runs : r = q

LEMMA OneDocument ==
  ASSUME OneRun, NEW p \in Person, NEW q \in Person, LeadOf(p) = LeadOf(q) PROVE p = q
  BY DEF OneRun, Person, LeadOf

Reached == {"active", "succeeded"}

\* Behind an open campaign or a success come only campaigns closed at birth.
ClosedAfter ==
    \A p \in Person : \A j, k \in 1 .. Len(camps[p]) :
        j < k /\ camps[p][j].status \in Reached => camps[p][k].status = "already_met"

\* Who is about to enter has neither.
Unreached(r) ==
    run[r].phase \in {"met", "enrol"} =>
        \A p \in run[r].entering : \A k \in 1 .. Len(camps[p]) :
            camps[p][k].status \notin Reached

OnceIn == ClosedAfter /\ \A r \in Runs : Unreached(r)

LEMMA Lengths == ASSUME TypeOK PROVE \A p \in Person : Len(camps[p]) \in Nat
  BY LenProperties DEF TypeOK

LEMMA ClosedKeeps ==
  ASSUME TypeOK, OnceIn, Closed,
         \A r \in Runs : run'[r].phase \in {"met", "enrol"} => run'[r] = run[r]
  PROVE  OnceIn'
  <1>1. \A p \in Person : /\ Len(camps'[p]) = Len(camps[p])
                          /\ \A k \in 1 .. Len(camps[p]) :
                              camps'[p][k].status \in Reached => camps[p][k].status \in Reached
    BY DEF Closed, Reached
  <1>2. \A p \in Person : \A k \in 1 .. Len(camps[p]) :
          camps[p][k].status = "already_met" => camps'[p][k].status = "already_met"
    BY DEF Closed
  <1>3. ClosedAfter'
    <2> SUFFICES ASSUME NEW p \in Person, NEW j \in 1 .. Len(camps[p]), NEW k \in 1 .. Len(camps[p]),
                        j < k, camps'[p][j].status \in Reached
                 PROVE  camps'[p][k].status = "already_met"
      BY <1>1 DEF ClosedAfter, Reached
    <2> QED
      BY <1>1, <1>2 DEF OnceIn, ClosedAfter
  <1>4. \A r \in Runs : Unreached(r)'
    <2> SUFFICES ASSUME NEW r \in Runs, run'[r].phase \in {"met", "enrol"},
                        NEW p \in run'[r].entering, NEW k \in 1 .. Len(camps'[p])
                 PROVE  camps'[p][k].status \notin Reached
      BY DEF Unreached, Reached
    <2>1. run'[r] = run[r] /\ p \in Person
      BY DEF TypeOK, RunDoc
    <2> QED
      BY <1>1, <2>1 DEF OnceIn, Unreached
  <1> QED
    BY <1>3, <1>4 DEF OnceIn

LEMMA SameCamps == ASSUME TypeOK, camps' = camps PROVE Closed
  BY DEF TypeOK, Closed

\* What opening does: behind what is there comes one campaign more.
LEMMA OpenedAt ==
  ASSUME TypeOK, NEW who, NEW status, Opened(who, status), NEW p \in Person, NEW k \in 1 .. Len(camps'[p])
  PROVE  \/ k \in 1 .. Len(camps[p]) /\ camps'[p][k].status = camps[p][k].status
         \/ k = Len(camps[p]) + 1 /\ p \in who /\ camps'[p][k].status = status
  <1>1. Len(camps[p]) \in Nat
    BY Lengths
  <1>2. CASE p \in who
    BY <1>1, <1>2 DEF Opened
  <1>3. CASE p \notin who
    BY <1>3 DEF Opened
  <1> QED
    BY <1>2, <1>3

LEMMA RecordMetOnce == ASSUME TypeOK, OnceIn, NEW r \in Runs, RecordMet(r) PROVE OnceIn'
  <1>o. Opened(run[r].settled, "already_met")
    BY OpenOpens DEF RecordMet, CampStatuses
  <1>0. (IF run[r].entering = {} THEN "finish" ELSE "enrol") \in Phases
    BY DEF Phases
  <1>1. /\ run[r].phase = "met" /\ run'[r].entering = run[r].entering
        /\ \A q \in Runs \ {r} : run'[q] = run[q]
    BY <1>0, PhaseType DEF RecordMet
  <1>2. ClosedAfter'
    <2> SUFFICES ASSUME NEW p \in Person, NEW j \in 1 .. Len(camps'[p]), NEW k \in 1 .. Len(camps'[p]),
                        j < k, camps'[p][j].status \in Reached
                 PROVE  camps'[p][k].status = "already_met"
      BY DEF ClosedAfter, Reached
    <2>1. CASE k \in 1 .. Len(camps[p]) /\ camps'[p][k].status = camps[p][k].status
      <3>1. Len(camps[p]) \in Nat
        BY Lengths
      <3>2. j \in 1 .. Len(camps[p])
        BY <2>1, <3>1
      <3>3. camps'[p][j].status = camps[p][j].status
        BY <1>o, <3>1, <3>2, OpenedAt
      <3> QED
        BY <2>1, <3>2, <3>3 DEF OnceIn, ClosedAfter
    <2>2. CASE camps'[p][k].status = "already_met"
      BY <2>2
    <2> QED
      BY <1>o, <2>1, <2>2, OpenedAt
  <1>3. \A q \in Runs : Unreached(q)'
    <2> SUFFICES ASSUME NEW q \in Runs, run'[q].phase \in {"met", "enrol"},
                        NEW p \in run'[q].entering, NEW k \in 1 .. Len(camps'[p])
                 PROVE  camps'[p][k].status \notin Reached
      BY DEF Unreached, Reached
    <2>1. run'[q].entering = run[q].entering /\ run[q].phase \in {"met", "enrol"}
      BY <1>1
    <2>2. p \in Person
      BY <2>1 DEF TypeOK, RunDoc
    <2> QED
      BY <1>o, <2>1, <2>2, OpenedAt DEF OnceIn, Unreached, Reached
  <1> QED
    BY <1>2, <1>3 DEF OnceIn

LEMMA EnrolOnce == ASSUME OneRun, TypeOK, OnceIn, NEW r \in Runs, Enrol(r) PROVE OnceIn'
  <1>o. Opened(run[r].entering, "active")
    BY OpenOpens DEF Enrol, CampStatuses
  <1>1. run[r].phase = "enrol" /\ run'[r].phase = "welcome"
    BY EnrolType
  <1>2. ClosedAfter'
    <2> SUFFICES ASSUME NEW p \in Person, NEW j \in 1 .. Len(camps'[p]), NEW k \in 1 .. Len(camps'[p]),
                        j < k, camps'[p][j].status \in Reached
                 PROVE  camps'[p][k].status = "already_met"
      BY DEF ClosedAfter, Reached
    <2>0. Len(camps[p]) \in Nat /\ Len(camps'[p]) \in {Len(camps[p]), Len(camps[p]) + 1}
      BY <1>o, Lengths DEF Opened
    <2>1. j \in 1 .. Len(camps[p])
      BY <2>0
    <2>2. camps'[p][j].status = camps[p][j].status
      BY <1>o, <2>0, <2>1, OpenedAt
    <2>3. CASE k \in 1 .. Len(camps[p]) /\ camps'[p][k].status = camps[p][k].status
      BY <2>1, <2>2, <2>3 DEF OnceIn, ClosedAfter
    <2>4. CASE p \in run[r].entering
      BY <1>1, <2>1, <2>2, <2>4 DEF OnceIn, Unreached
    <2> QED
      BY <1>o, <2>3, <2>4, OpenedAt
  <1>3. \A q \in Runs : Unreached(q)'
    BY <1>1 DEF OneRun, Unreached
  <1> QED
    BY <1>2, <1>3 DEF OnceIn

LEMMA LookupOnce == ASSUME OneRun, TypeOK, OnceIn, NEW r \in Runs, Lookup(r) PROVE OnceIn'
  <1>1. camps' = camps
    BY DEF Lookup, db
  <1>2. ClosedAfter'
    BY <1>1 DEF OnceIn, ClosedAfter
  <1>3. \A p \in run'[r].entering : ~HasCamp(p, "active") /\ ~HasCamp(p, "succeeded")
    BY LookupType DEF Candidates
  <1>4. Unreached(r)'
    BY <1>1, <1>3 DEF Unreached, HasCamp, Reached
  <1> QED
    BY <1>2, <1>4 DEF OnceIn, OneRun

LEMMA NextOnce == ASSUME OneRun, TypeOK, OnceIn, [Next]_vars PROVE OnceIn'
  <1> DEFINE Calm == \A r \in Runs : run'[r].phase \in {"met", "enrol"} => run'[r] = run[r]
  <1>0. ASSUME Calm, camps' = camps PROVE OnceIn'
    BY <1>0, SameCamps, ClosedKeeps
  <1>c. ASSUME Calm, Closed PROVE OnceIn'
    BY <1>c, ClosedKeeps
  <1>i. Idle.phase = "idle"
    BY DEF Idle
  <1>1. ASSUME NEW r \in Runs, NEW s \in Sources, Read(r, s) PROVE OnceIn'
    <2>1. camps' = camps
      BY <1>1 DEF Read, db
    <2>2. Calm
      BY <1>1, ReadType
    <2> QED
      BY <1>0, <2>1, <2>2
  <1>2. ASSUME NEW r \in Runs, Insert(r) PROVE OnceIn'
    BY <1>0, <1>2, PhaseType DEF Insert, Phases
  <1>3. ASSUME NEW r \in Runs, Attach(r) PROVE OnceIn'
    BY <1>0, <1>3, PhaseType DEF Attach, Phases
  <1>4. ASSUME NEW r \in Runs, Welcome(r) PROVE OnceIn'
    <2>1. Phase(r, "welcome", "finish") /\ "finish" \in Phases
      BY <1>4 DEF Welcome, Phases
    <2>2. Calm
      BY <2>1, PhaseType
    <2> QED
      BY <1>c, <1>4, <2>2, WelcomeCloses
  <1>5. ASSUME NEW r \in Runs, NoChannel(r) PROVE OnceIn'
    <2>1. Phase(r, "welcome", "finish") /\ "finish" \in Phases /\ camps' = camps
      BY <1>5 DEF NoChannel, Phases, db
    <2>2. Calm
      BY <2>1, PhaseType
    <2> QED
      BY <1>0, <2>1, <2>2
  <1>6. ASSUME NEW r \in Runs, Finish(r) PROVE OnceIn'
    <2>1. Calm
      BY <1>6, <1>i DEF Finish, TypeOK
    <2> QED
      BY <1>0, <1>6, <2>1 DEF Finish
  <1>7. ASSUME NEW r \in Runs, Die(r) PROVE OnceIn'
    <2>1. Calm
      BY <1>7, <1>i DEF Die, TypeOK
    <2> QED
      BY <1>0, <1>7, <2>1 DEF Die, db
  <1>8. ASSUME NEW x \in Rows, Submit(x) PROVE OnceIn'
    BY <1>0, <1>8 DEF Submit, db
  <1>9. ASSUME NEW p \in Person, NEW k \in 1 .. Len(camps[p]), Verified(p, k) PROVE OnceIn'
    BY <1>c, <1>9, VerifiedCloses DEF Verified
  <1>10. ASSUME NEW l \in Leads, OptOut(l) PROVE OnceIn'
    BY <1>c, <1>10, OptOutCloses DEF OptOut
  <1>11. CASE UNCHANGED vars
    BY <1>0, <1>11 DEF vars, db
  <1> QED
    BY <1>1, <1>2, <1>3, <1>4, <1>5, <1>6, <1>7, <1>8, <1>9, <1>10, <1>11,
       LookupOnce, RecordMetOnce, EnrolOnce DEF Next, Ingest

\* A document that is not there yet records nothing.
Unborn == \A p \in Person \ people : \A x \in Rows : arrivals[p][x] = 0

\* A row is recorded once, and with the lead it names.
Recorded ==
    \A p \in Person, x \in Rows :
        arrivals[p][x] <= Copies(x) /\ (arrivals[p][x] > 0 => LeadOf(p) = Who[x])

\* Whom a run is about to insert has no document.
Unknown(r) ==
    run[r].phase = "insert" =>
        \A l \in Leads : run[r].known[l] = Nobody => \A p \in people : LeadOf(p) # l

\* What a run is about to add to a person is not recorded there.
Unrecorded(r) ==
    run[r].phase \in {"insert", "attach"} =>
        \A p \in Entries(r) \ New(r) : \A x \in Fresh(r, p) : arrivals[p][x] = 0

OnceThere == Unborn /\ Recorded /\ \A r \in Runs : Unknown(r) /\ Unrecorded(r)

LEMMA NothingRecorded ==
  ASSUME OnceThere, arrivals' = arrivals, people' = people,
         \A r \in Runs : run'[r].phase \in {"insert", "attach"} => run'[r] = run[r]
  PROVE  OnceThere'
  <1>1. Unborn' /\ Recorded'
    BY DEF OnceThere, Unborn, Recorded
  <1>2. \A r \in Runs : Unknown(r)'
    BY DEF OnceThere, Unknown
  <1>3. \A r \in Runs : Unrecorded(r)'
    <2> SUFFICES ASSUME NEW r \in Runs, run'[r].phase \in {"insert", "attach"} PROVE Unrecorded(r)'
      BY DEF Unrecorded
    <2>1. run'[r] = run[r]
      OBVIOUS
    <2> QED
      BY <2>1 DEF OnceThere, Unrecorded, Entries, New, Named, Fresh
  <1> QED
    BY <1>1, <1>2, <1>3 DEF OnceThere

LEMMA ReadOnce ==
  ASSUME OneRun, TypeOK, OnceThere, NEW r \in Runs, NEW s \in Sources, Read(r, s) PROVE OnceThere'
  <1> DEFINE known == run'[r].known
  <1>1. /\ run' \in [Runs -> RunDoc]
        /\ run'[r].had = {x \in run'[r].batch : known[Who[x]] # Nobody /\ arrivals[known[Who[x]]][x] > 0}
        /\ \A l \in Leads : IF known[l] = Nobody THEN \A p \in people : LeadOf(p) # l
                            ELSE known[l] \in people /\ LeadOf(known[l]) = l
    BY ReadType
  <1>2. arrivals' = arrivals /\ people' = people
    BY DEF Read, db
  <1>3. Unborn' /\ Recorded'
    BY <1>2 DEF OnceThere, Unborn, Recorded
  <1>4. Unknown(r)'
    BY <1>1, <1>2 DEF Unknown
  <1>5. Unrecorded(r)'
    <2> SUFFICES ASSUME NEW p \in (Entries(r) \ New(r))', NEW x \in Fresh(r, p)'
                 PROVE  arrivals[p][x] = 0
      BY <1>2 DEF Unrecorded
    <2>1. run'[r].batch \subseteq Rows
      BY <1>1 DEF RunDoc
    <2>2. x \in run'[r].batch \ run'[r].had /\ Who[x] = LeadOf(p)
      BY DEF Fresh
    <2>3. PICK l \in Named(r)' : p = known[l] /\ p # Nobody
      BY DEF Entries
    <2>4. l \in Leads
      BY <2>1, <2>3, IntakeAssumption DEF Named
    <2>5. p \in people /\ LeadOf(p) = l
      BY <1>1, <2>3, <2>4
    <2>6. arrivals[p][x] \in Nat
      BY <2>1, <2>2, <2>5 DEF TypeOK
    <2> QED
      BY <1>1, <2>2, <2>3, <2>5, <2>6
  <1> QED
    BY <1>3, <1>4, <1>5 DEF OnceThere, OneRun

LEMMA InsertOnce == ASSUME OneRun, TypeOK, OnceThere, NEW r \in Runs, Insert(r) PROVE OnceThere'
  <1>0. "attach" \in Phases /\ Phase(r, "insert", "attach")
    BY DEF Phases, Insert
  <1>1. /\ run[r].phase = "insert" /\ run'[r].phase = "attach"
        /\ run'[r].batch = run[r].batch /\ run'[r].known = run[r].known /\ run'[r].had = run[r].had
    BY <1>0, PhaseType
  <1>2. people' = people \cup New(r) /\ New(r) \subseteq Person /\ Entries(r) \subseteq Person
    BY EntriesType DEF Insert
  <1>3. /\ New(r)' = New(r) /\ Entries(r)' = Entries(r) /\ Named(r)' = Named(r)
        /\ \A p : Fresh(r, p)' = Fresh(r, p)
    BY <1>1 DEF New, Entries, Named, Fresh
  <1>4. \A p \in New(r) : p \notin people
    <2> TAKE p \in New(r)
    <2>1. PICK l \in Named(r) : run[r].known[l] = Nobody /\ p = <<l, r>>
      BY DEF New
    <2>2. l \in Leads
      BY <2>1, IntakeAssumption DEF Named, TypeOK, RunDoc
    <2> QED
      BY <1>1, <2>1, <2>2 DEF OnceThere, Unknown, LeadOf
  <1>5. \A p \in Person, x \in Rows :
          /\ arrivals[p][x] \in Nat /\ Copies(x) \in Nat
          /\ arrivals'[p][x] = arrivals[p][x] + IF p \in New(r) /\ x \in Fresh(r, p) THEN Copies(x) ELSE 0
    BY DEF Insert, Arrive, Added, Copies, TypeOK
  <1>6. Unborn'
    BY <1>2, <1>5 DEF OnceThere, Unborn
  <1>7. \A p \in Person : \A x \in Fresh(r, p) : Who[x] = LeadOf(p)
    BY DEF Fresh
  <1>8. Recorded'
    <2> SUFFICES ASSUME NEW p \in Person, NEW x \in Rows
                 PROVE  arrivals'[p][x] <= Copies(x) /\ (arrivals'[p][x] > 0 => LeadOf(p) = Who[x])
      BY DEF Recorded
    <2>1. CASE p \in New(r) /\ x \in Fresh(r, p)
      BY <1>4, <1>5, <1>7, <2>1 DEF OnceThere, Unborn
    <2>2. CASE ~(p \in New(r) /\ x \in Fresh(r, p))
      BY <1>5, <2>2 DEF OnceThere, Recorded
    <2> QED
      BY <2>1, <2>2
  <1>9. Unknown(r)'
    BY <1>1 DEF Unknown
  <1>10. Unrecorded(r)'
    <2> SUFFICES ASSUME NEW p \in Entries(r) \ New(r), NEW x \in Fresh(r, p) PROVE arrivals'[p][x] = 0
      BY <1>3 DEF Unrecorded
    <2>1. p \in Person /\ x \in Rows
      BY <1>2 DEF Fresh, TypeOK, RunDoc
    <2>2. arrivals[p][x] = 0
      BY <1>1 DEF OnceThere, Unrecorded
    <2> QED
      BY <1>5, <2>1, <2>2
  <1> QED
    BY <1>6, <1>8, <1>9, <1>10 DEF OnceThere, OneRun

LEMMA AttachOnce ==
  ASSUME OneRun, TypeOK, OnceThere, NEW r \in Runs, Located(r), Attach(r) PROVE OnceThere'
  <1>0. "lookup" \in Phases /\ Phase(r, "attach", "lookup")
    BY DEF Phases, Attach
  <1>1. run[r].phase = "attach" /\ run'[r].phase = "lookup"
    BY <1>0, PhaseType
  <1>2. people' = people
    BY DEF Attach
  <1>3. Entries(r) \ New(r) \subseteq people
    <2> SUFFICES ASSUME NEW p \in Entries(r) \ New(r) PROVE p \in people
      OBVIOUS
    <2>1. PICK l \in Named(r) : p = run[r].known[l] /\ p # Nobody
      BY DEF Entries
    <2>2. l \in Leads
      BY <2>1, IntakeAssumption DEF Named, TypeOK, RunDoc
    <2> QED
      BY <2>1, <2>2 DEF Located
  <1>5. \A p \in Person, x \in Rows :
          /\ arrivals[p][x] \in Nat /\ Copies(x) >= 1
          /\ arrivals'[p][x] = arrivals[p][x] +
               IF p \in Entries(r) \ New(r) /\ x \in Fresh(r, p) THEN 1 ELSE 0
    BY DEF Attach, Arrive, Added, Copies, TypeOK
  <1>6. Unborn'
    BY <1>2, <1>3, <1>5 DEF OnceThere, Unborn
  <1>7. \A p \in Person : \A x \in Fresh(r, p) : Who[x] = LeadOf(p)
    BY DEF Fresh
  <1>8. Recorded'
    <2> SUFFICES ASSUME NEW p \in Person, NEW x \in Rows
                 PROVE  arrivals'[p][x] <= Copies(x) /\ (arrivals'[p][x] > 0 => LeadOf(p) = Who[x])
      BY DEF Recorded
    <2>1. CASE p \in Entries(r) \ New(r) /\ x \in Fresh(r, p)
      <3>1. arrivals[p][x] = 0
        BY <1>1, <2>1 DEF OnceThere, Unrecorded
      <3> QED
        BY <1>5, <1>7, <2>1, <3>1
    <2>2. CASE ~(p \in Entries(r) \ New(r) /\ x \in Fresh(r, p))
      BY <1>5, <2>2 DEF OnceThere, Recorded
    <2> QED
      BY <2>1, <2>2
  <1>9. Unknown(r)' /\ Unrecorded(r)'
    BY <1>1 DEF Unknown, Unrecorded
  <1> QED
    BY <1>6, <1>8, <1>9 DEF OnceThere, OneRun

LEMMA NextThere == ASSUME OneRun, CInv, OnceThere, [Next]_vars PROVE OnceThere'
  <1> DEFINE Calm == \A r \in Runs : run'[r].phase \in {"insert", "attach"} => run'[r] = run[r]
  <1>0. ASSUME Calm, arrivals' = arrivals, people' = people PROVE OnceThere'
    BY <1>0, NothingRecorded
  <1>t. TypeOK
    BY DEF CInv
  <1>i. Idle.phase = "idle"
    BY DEF Idle
  <1>1. ASSUME NEW r \in Runs, NEW s \in Sources, Read(r, s) PROVE OnceThere'
    BY <1>1, <1>t, ReadOnce
  <1>2. ASSUME NEW r \in Runs, Insert(r) PROVE OnceThere'
    BY <1>2, <1>t, InsertOnce
  <1>3. ASSUME NEW r \in Runs, Attach(r) PROVE OnceThere'
    BY <1>3, <1>t, AttachOnce DEF CInv
  <1>4. ASSUME NEW r \in Runs, Lookup(r) PROVE OnceThere'
    <2>1. Calm
      BY <1>4, <1>t, LookupType
    <2> QED
      BY <1>0, <1>4, <2>1 DEF Lookup, db
  <1>5. ASSUME NEW r \in Runs, RecordMet(r) PROVE OnceThere'
    <2>1. (IF run[r].entering = {} THEN "finish" ELSE "enrol") \in Phases \ {"insert", "attach"}
      BY DEF Phases
    <2>2. Calm
      BY <1>5, <1>t, <2>1, PhaseType DEF RecordMet
    <2> QED
      BY <1>0, <1>5, <2>2 DEF RecordMet
  <1>6. ASSUME NEW r \in Runs, Enrol(r) PROVE OnceThere'
    <2>1. Calm
      BY <1>6, <1>t, EnrolType
    <2> QED
      BY <1>0, <1>6, <2>1 DEF Enrol
  <1>7. ASSUME NEW r \in Runs, Welcome(r) \/ NoChannel(r) PROVE OnceThere'
    <2>1. Phase(r, "welcome", "finish") /\ "finish" \in Phases
      BY <1>7 DEF Welcome, NoChannel, Phases
    <2>2. Calm
      BY <1>t, <2>1, PhaseType
    <2> QED
      BY <1>0, <1>7, <2>2 DEF Welcome, NoChannel, db
  <1>8. ASSUME NEW r \in Runs, Finish(r) \/ Die(r) PROVE OnceThere'
    <2>1. run' = [run EXCEPT ![r] = Idle]
      BY <1>8 DEF Finish, Die
    <2>2. Calm
      BY <1>i, <1>t, <2>1 DEF TypeOK
    <2> QED
      BY <1>0, <1>8, <2>2 DEF Finish, Die, db
  <1>9. ASSUME NEW x \in Rows, Submit(x) PROVE OnceThere'
    BY <1>0, <1>9 DEF Submit, db
  <1>10. ASSUME NEW p \in Person, NEW k \in 1 .. Len(camps[p]), Verified(p, k) PROVE OnceThere'
    BY <1>0, <1>10 DEF Verified
  <1>11. ASSUME NEW l \in Leads, OptOut(l) PROVE OnceThere'
    BY <1>0, <1>11 DEF OptOut
  <1>12. CASE UNCHANGED vars
    BY <1>0, <1>12 DEF vars, db
  <1> QED
    BY <1>1, <1>2, <1>3, <1>4, <1>5, <1>6, <1>7, <1>8, <1>9, <1>10, <1>11, <1>12
       DEF Next, Ingest

InvOnce == CInv /\ OnceIn /\ OnceThere

LEMMA InitOnce == Init => InvOnce
  <1> SUFFICES ASSUME Init PROVE InvOnce
    OBVIOUS
  <1>1. \A p \in Person : Len(camps[p]) = 0 /\ \A x \in Rows : arrivals[p][x] = 0
    BY DEF Init
  <1>2. \A r \in Runs : run[r].phase = "idle"
    BY DEF Init, Idle
  <1>3. OnceIn
    BY <1>1, <1>2 DEF OnceIn, ClosedAfter, Unreached
  <1>4. OnceThere
    BY <1>1, <1>2, IntakeAssumption DEF Copies, OnceThere, Unborn, Recorded, Unknown, Unrecorded
  <1> QED
    BY <1>3, <1>4, InitCInv DEF InvOnce

LEMMA NextInvOnce == ASSUME OneRun PROVE InvOnce /\ [Next]_vars => InvOnce'
  BY NextCInv, NextOnce, NextThere DEF InvOnce, CInv

\* With one run at a time a lead is in the campaign once, whatever dies and
\* whatever is polled again ("One active instance per person per campaign",
\* ingest.ts).
THEOREM EnteredOnce == OneRun => (Spec => []OneOpen)
  <1> SUFFICES ASSUME OneRun PROVE Spec => []OneOpen
    OBVIOUS
  <1>1. InvOnce => OneOpen
    <2> SUFFICES ASSUME InvOnce, NEW p \in people, NEW q \in people,
                        NEW j \in 1 .. Len(camps[p]), NEW k \in 1 .. Len(camps[q]),
                        LeadOf(p) = LeadOf(q),
                        camps[p][j].status = "active", camps[q][k].status = "active"
                 PROVE  p = q /\ j = k
      BY DEF OneOpen
    <2>1. TypeOK /\ ClosedAfter
      BY DEF InvOnce, CInv, OnceIn
    <2>2. p \in Person /\ p = q /\ Len(camps[p]) \in Nat
      BY <2>1, OneDocument, Lengths DEF TypeOK
    <2>3. ~(j < k) /\ ~(k < j)
      BY <2>1, <2>2 DEF ClosedAfter, Reached
    <2> QED
      BY <2>2, <2>3
  <1>2. Init => InvOnce
    BY InitOnce
  <1>3. InvOnce /\ [Next]_vars => InvOnce'
    BY NextInvOnce
  <1> QED
    BY <1>1, <1>2, <1>3, PTL DEF Spec

\* With one run at a time nobody who reached the goal is run again (ingest.ts).
THEOREM WinnersRest == OneRun => (Spec => []WonNotRerun)
  <1> SUFFICES ASSUME OneRun PROVE Spec => []WonNotRerun
    OBVIOUS
  <1>1. InvOnce => WonNotRerun
    BY DEF InvOnce, CInv, TypeOK, OnceIn, ClosedAfter, Reached, WonNotRerun
  <1>2. Init => InvOnce
    BY InitOnce
  <1>3. InvOnce /\ [Next]_vars => InvOnce'
    BY NextInvOnce
  <1> QED
    BY <1>1, <1>2, <1>3, PTL DEF Spec

\* With one run at a time a row is recorded with one person, and no more often
\* than one response lists it, by whichever sources and after whatever crashes
\* it comes again ("the form was still filled in once", ingest.ts).
THEOREM RecordedOnce == OneRun => (Spec => []ArrivedOnce)
  <1> SUFFICES ASSUME OneRun PROVE Spec => []ArrivedOnce
    OBVIOUS
  <1>1. InvOnce => ArrivedOnce
    <2> SUFFICES ASSUME InvOnce PROVE ArrivedOnce
      OBVIOUS
    <2>1. people \subseteq Person /\ Recorded
      BY DEF InvOnce, CInv, TypeOK, OnceThere
    <2> QED
      BY <2>1, OneDocument DEF ArrivedOnce, Recorded
  <1>2. Init => InvOnce
    BY InitOnce
  <1>3. InvOnce /\ [Next]_vars => InvOnce'
    BY NextInvOnce
  <1> QED
    BY <1>1, <1>2, <1>3, PTL DEF Spec
=============================================================================
