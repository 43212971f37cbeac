---------------------------- MODULE RepliesProofs ----------------------------
(***************************************************************************)
(* Theorems about Replies, for any mails, messages, number of calls going  *)
(* on at once, overlap and faults.                                         *)
(***************************************************************************)
EXTENDS Replies, FiniteSetTheorems, TLAPS

\* A call that acts has a mail in hand and stands at a step of its script.
Acting ==
    \A r \in Runs : run[r].at > 0 =>
        /\ run[r].on # {} /\ run[r].as # "none"
        /\ run[r].at <= Len(Script[run[r].as])

\* The campaign's stamp is the newest reply that has paused it.
StampIsNewest == camp.repliedAt = pausedAt

\* A message claimed over a reply is one the last check will find stale.
OverIsStale ==
    \A i \in Msgs : rows[i].over => rows[i].status = "sending" /\ pausedAt > rows[i].after

\* What a poll has listed was written, as something.
Listened ==
    /\ \A r \in Runs : run[r].todo \subseteq Said
    /\ \A m \in Said : written[m].kind # "none"

IInv == TypeOK /\ Acting /\ Listened /\ StampIsNewest /\ OverIsStale

LEMMA ScriptLengths ==
    /\ Len(Script["stop"]) = 5 /\ Len(Script["away"]) = 3
    /\ Len(Script["reply"]) = 4 /\ Len(Script["call"]) = 5
    /\ \A kind \in Kinds \ {"none"} : Len(Script[kind]) \in 3 .. 5
  <1>1. /\ Len(Script["stop"]) = 5 /\ Len(Script["away"]) = 3
        /\ Len(Script["reply"]) = 4 /\ Len(Script["call"]) = 5
    BY DEF Script
  <1> QED
    BY <1>1 DEF Kinds

LEMMA MomentType == ASSUME TypeOK PROVE Moment \in Nat
  <1>1. IsFiniteSet(Said)
    BY RepliesAssumption, FS_Subset DEF Said
  <1> QED
    BY <1>1, FS_CardinalityType DEF Moment

LEMMA NthType == ASSUME IInv, NEW r \in Runs, run[r].at > 0 PROVE Nth(r) \in Nat
  <1>1. PICK m \in run[r].on : TRUE
    BY DEF IInv, Acting
  <1>2. Nth(r) \in {written[o].nth : o \in run[r].on}
    BY <1>1 DEF Nth
  <1>3. \A o \in run[r].on : written[o].nth \in Nat
    BY DEF IInv, TypeOK, Mail, Call
  <1> QED
    BY <1>2, <1>3

\* What a call may become: one with a mail in hand stands at a step of its script.
Sound(c) == c.at > 0 => c.on # {} /\ c.as # "none" /\ c.at <= Len(Script[c.as])

\* What the steps make of a call is a call.
LEMMA CallAt == ASSUME NEW c \in Call, NEW n \in 0 .. 5 PROVE [c EXCEPT !.at = n] \in Call
  BY DEF Call
LEMMA CallAs == ASSUME NEW c \in Call, NEW kind \in Kinds PROVE [c EXCEPT !.as = kind] \in Call
  BY DEF Call
LEMMA CallTodo == ASSUME NEW c \in Call, NEW S \in SUBSET Mails PROVE [c EXCEPT !.todo = S] \in Call
  BY DEF Call
LEMMA CallPoll ==
  ASSUME NEW c \in Call, NEW S \in SUBSET Mails
  PROVE  [c EXCEPT !.pc = "poll", !.todo = S] \in Call
  BY DEF Call
LEMMA CallVain == ASSUME NEW c \in Call PROVE [c EXCEPT !.pc = "poll"] \in Call
  BY DEF Call
LEMMA CallDone ==
  ASSUME NEW c \in Call PROVE [c EXCEPT !.on = {}, !.as = "none", !.at = 0] \in Call
  <1>1. "none" \in Kinds /\ {} \in SUBSET Mails /\ 0 \in 0 .. 5
    BY DEF Kinds
  <1>2. \A S \in SUBSET Mails, kind \in Kinds, n \in 0 .. 5 :
          [c EXCEPT !.on = S, !.as = kind, !.at = n] \in Call
    BY DEF Call
  <1> QED
    BY <1>1, <1>2
LEMMA CallFetch ==
  ASSUME NEW c \in Call, NEW S \in SUBSET Mails, NEW T \in SUBSET Mails, NEW kind \in Kinds
  PROVE  [c EXCEPT !.todo = S, !.on = T, !.as = kind, !.at = 1] \in Call
  <1>1. 1 \in 0 .. 5
    OBVIOUS
  <1>2. \A n \in 0 .. 5 : [c EXCEPT !.todo = S, !.on = T, !.as = kind, !.at = n] \in Call
    BY DEF Call
  <1> QED
    BY <1>1, <1>2
LEMMA CallHook ==
  ASSUME NEW c \in Call, NEW T \in SUBSET Mails, NEW kind \in Kinds
  PROVE  [c EXCEPT !.pc = "hook", !.on = T, !.as = kind, !.at = 1] \in Call
  <1>1. 1 \in 0 .. 5
    OBVIOUS
  <1>2. \A n \in 0 .. 5 : [c EXCEPT !.pc = "hook", !.on = T, !.as = kind, !.at = n] \in Call
    BY DEF Call
  <1> QED
    BY <1>1, <1>2

LEMMA CallMoves ==
  ASSUME IInv, NEW r \in Runs, NEW c \in Call, Sound(c), run' = [run EXCEPT ![r] = c]
  PROVE  /\ run' \in [Runs -> Call] /\ Acting'
         /\ \A q \in Runs : run'[q] = IF q = r THEN c ELSE run[q]
  BY DEF IInv, TypeOK, Acting, Sound

LEMMA OffIsSound == Off \in Call /\ Sound(Off)
  BY DEF Off, Call, Kinds, Sound

LEMMA FinishedIsSound ==
  ASSUME IInv, NEW r \in Runs
  PROVE  Finished(r) \in Call /\ Sound(Finished(r)) /\ Finished(r).todo \subseteq run[r].todo
  <1>1. run[r] \in Call
    BY DEF IInv, TypeOK
  <1>2. CASE run[r].pc = "poll"
    <2> DEFINE c == [run[r] EXCEPT !.on = {}, !.as = "none", !.at = 0]
    <2>1. "none" \in Kinds /\ {} \in SUBSET Mails /\ 0 \in 0 .. 5
      BY DEF Kinds
    <2>2. c \in Call
      BY <1>1, CallDone
    <2>3. Sound(c) /\ c.todo = run[r].todo
      BY <1>1 DEF Call, Sound
    <2> QED
      BY <1>2, <2>2, <2>3 DEF Finished
  <1>3. CASE run[r].pc # "poll"
    BY <1>3, OffIsSound DEF Finished, Off
  <1> QED
    BY <1>2, <1>3

Went == /\ run' \in [Runs -> Call] /\ Acting' /\ heard' \subseteq Mails
        /\ \A q \in Runs : run'[q].todo \subseteq run[q].todo

\* Going on leaves a call off, between two mails, or at the next step.
LEMMA GoesOn ==
  ASSUME IInv, NEW r \in Runs, run[r].at > 0, Goes(r)
  PROVE  Went
  <1>1. run[r] \in Call
    BY DEF IInv, TypeOK
  <1>2. CASE run[r].at < Len(Script[run[r].as])
    <2> DEFINE c == [run[r] EXCEPT !.at = run[r].at + 1]
    <2> DEFINE n == run[r].at  l == Len(Script[run[r].as])
    <2>1. l \in 3 .. 5 /\ n \in 0 .. 5
      BY <1>1, ScriptLengths DEF Call, IInv, Acting
    <2> HIDE DEF n, l
    <2>0. n < l
      BY <1>2 DEF n, l
    <2>2. n + 1 \in 0 .. 5 /\ n + 1 <= l
      BY <2>1, <2>0
    <2> USE DEF n, l
    <2>3. c \in Call
      BY <1>1, <2>2, CallAt
    <2>4. c.at = run[r].at + 1 /\ c.on = run[r].on /\ c.as = run[r].as /\ c.todo = run[r].todo
      BY <1>1 DEF Call
    <2>5. Sound(c)
      BY <2>2, <2>4 DEF Sound, IInv, Acting
    <2>6. run' = [run EXCEPT ![r] = c]
      BY <1>2 DEF Goes, IInv, TypeOK
    <2> QED
      BY <1>2, <2>3, <2>4, <2>5, <2>6, CallMoves DEF Goes, IInv, TypeOK, Went
  <1>3. CASE ~(run[r].at < Len(Script[run[r].as]))
    <2> DEFINE c == Finished(r)
    <2>1. c \in Call /\ Sound(c) /\ c.todo \subseteq run[r].todo
      BY FinishedIsSound
    <2>2. run' = [run EXCEPT ![r] = c] /\ heard' = heard \cup run[r].on
      BY <1>3 DEF Goes
    <2> HIDE DEF c
    <2>3. run' \in [Runs -> Call] /\ Acting' /\ \A q \in Runs : run'[q].todo \subseteq run[q].todo
      BY <2>1, <2>2, CallMoves
    <2> QED
      BY <1>1, <2>2, <2>3 DEF IInv, TypeOK, Call, Went
  <1> QED
    BY <1>2, <1>3

LEMMA CallOnly ==
  ASSUME IInv, NEW r \in Runs, NEW c \in Call, Sound(c), c.todo \subseteq Said, run' = [run EXCEPT ![r] = c],
         UNCHANGED <<written, told, heard, pausedAt>>,
         passed' \subseteq Mails, orphans' \subseteq Mails, faults' \in Nat
  PROVE  IInv'
  BY CallMoves DEF told, IInv, TypeOK, Listened, Said, StampIsNewest, OverIsStale

LEMMA CallType ==
  ASSUME IInv, NEW r \in Runs
  PROVE  run[r] \in Call /\ Sound(run[r]) /\ run[r].todo \subseteq Said
  BY DEF IInv, TypeOK, Acting, Listened, Sound

LEMMA FaultType == ASSUME IInv, NEW name, Fault(name) \/ UNCHANGED faults PROVE faults' \in Nat
  BY DEF IInv, TypeOK, Fault

LEMMA RowMoves ==
  ASSUME IInv, rows' \in [Msgs -> Row],
         \A i \in Msgs : rows'[i].over => rows'[i].status = "sending" /\ pausedAt > rows'[i].after,
         UNCHANGED <<written, passed, events, answered, asked, camp, left, run, heard, pausedAt, orphans>>,
         faults' \in Nat
  PROVE  IInv'
  BY DEF IInv, TypeOK, Acting, Listened, Said, StampIsNewest, OverIsStale

LEMMA SaidMails == Said \subseteq Mails /\ Listed \subseteq Mails /\ Listed \subseteq Said
  BY DEF Said, Listed, Unread

LEMMA SaidKind == ASSUME IInv, NEW m \in Said PROVE m \in Mails /\ written[m].kind \in Kinds \ {"none"}
  BY DEF IInv, TypeOK, Mail, Listened, Said

LEMMA ListStep == ASSUME IInv, NEW r \in Runs, List(r) PROVE IInv'
  <1> DEFINE c == [Off EXCEPT !.pc = "poll", !.todo = Listed]
  <1>1. c \in Call
    BY SaidMails, OffIsSound, CallPoll
  <1>2. Sound(c) /\ c.todo \subseteq Said
    BY SaidMails DEF Sound, Off
  <1>3. run' = [run EXCEPT ![r] = c]
    BY CallType DEF List, Call, IInv, TypeOK
  <1>4. UNCHANGED <<written, told, heard, pausedAt>> /\ passed' \subseteq Mails
        /\ orphans' \subseteq Mails /\ faults' \in Nat
    BY CallType, FaultType DEF List, told, hist, Call, IInv, TypeOK
  <1> QED
    BY <1>1, <1>2, <1>3, <1>4, CallOnly

LEMMA ListInVainStep == ASSUME IInv, NEW r \in Runs, ListInVain(r) PROVE IInv'
  <1> DEFINE c == [Off EXCEPT !.pc = "poll"]
  <1>1. c \in Call
    BY OffIsSound, CallVain
  <1>2. Sound(c) /\ c.todo \subseteq Said
    BY SaidMails DEF Sound, Off
  <1>3. run' = [run EXCEPT ![r] = c]
    BY CallType DEF ListInVain, Call, IInv, TypeOK
  <1>4. UNCHANGED <<written, told, heard, pausedAt>> /\ passed' \subseteq Mails
        /\ orphans' \subseteq Mails /\ faults' \in Nat
    BY CallType, FaultType DEF ListInVain, told, hist, Call, IInv, TypeOK
  <1> QED
    BY <1>1, <1>2, <1>3, <1>4, CallOnly

LEMMA FetchStep == ASSUME IInv, NEW r \in Runs, Fetch(r) PROVE IInv'
  <1>0. PICK m \in Newest(run[r].todo) :
          run' = [run EXCEPT ![r].todo = @ \ {m}, ![r].on = {m}, ![r].as = written[m].kind, ![r].at = 1]
    BY DEF Fetch
  <1> DEFINE c == [run[r] EXCEPT !.todo = run[r].todo \ {m}, !.on = {m}, !.as = written[m].kind, !.at = 1]
  <1>1. c \in Call
    <2>1. m \in Mails /\ written[m].kind \in Kinds /\ 1 \in 0 .. 5 /\ {m} \in SUBSET Mails
      BY <1>0, CallType DEF Newest, Call, IInv, TypeOK, Mail, Said
    <2>2. run[r].todo \ {m} \in SUBSET Mails /\ run[r] \in Call
      BY CallType DEF Call
    <2> QED
      BY <2>1, <2>2, CallFetch
  <1>2. Sound(c) /\ c.todo \subseteq Said
    <2>1. m \in Said
      BY <1>0, CallType DEF Newest
    <2>2. written[m].kind \in Kinds \ {"none"}
      BY <2>1, SaidKind
    <2>3. Len(Script[written[m].kind]) >= 1
      <3> DEFINE l == Len(Script[written[m].kind])
      <3>1. l \in 3 .. 5
        BY <2>2, ScriptLengths
      <3> HIDE DEF l
      <3>2. l >= 1
        BY <3>1
      <3> QED
        BY <3>2 DEF l
    <2>4. c.at = 1 /\ c.on = {m} /\ c.as = written[m].kind /\ c.todo \subseteq Said
      BY CallType DEF Call, Off
    <2> QED
      BY <2>2, <2>3, <2>4 DEF Sound
  <1>3. run' = [run EXCEPT ![r] = c]
    BY <1>0, CallType DEF Fetch, Call, IInv, TypeOK
  <1>4. UNCHANGED <<written, told, heard, pausedAt>> /\ passed' \subseteq Mails
        /\ orphans' \subseteq Mails /\ faults' \in Nat
    BY CallType, FaultType DEF Fetch, told, hist, Call, IInv, TypeOK
  <1> QED
    BY <1>1, <1>2, <1>3, <1>4, CallOnly

LEMMA FetchInVainStep == ASSUME IInv, NEW r \in Runs, FetchInVain(r) PROVE IInv'
  <1>0. PICK m \in Newest(run[r].todo) : run' = [run EXCEPT ![r].todo = @ \ {m}]
    BY DEF FetchInVain
  <1> DEFINE c == [run[r] EXCEPT !.todo = run[r].todo \ {m}]
  <1>1. c \in Call
    <2>1. run[r].todo \ {m} \in SUBSET Mails
      BY CallType DEF Call
    <2> QED
      BY <2>1, CallType, CallTodo
  <1>2. Sound(c) /\ c.todo \subseteq Said
    BY CallType DEF Sound, Call
  <1>3. run' = [run EXCEPT ![r] = c]
    BY <1>0, CallType DEF FetchInVain, Call, IInv, TypeOK
  <1>4. UNCHANGED <<written, told, heard, pausedAt>> /\ passed' \subseteq Mails
        /\ orphans' \subseteq Mails /\ faults' \in Nat
    BY CallType, FaultType DEF FetchInVain, told, hist, Call, IInv, TypeOK
  <1> QED
    BY <1>1, <1>2, <1>3, <1>4, CallOnly

LEMMA StampStep == ASSUME IInv, NEW r \in Runs, Stamp(r) PROVE IInv'
  <1> DEFINE c == Off
  <1>1. c \in Call
    BY OffIsSound DEF Off
  <1>2. Sound(c) /\ c.todo \subseteq Said
    BY OffIsSound DEF Off
  <1>3. run' = [run EXCEPT ![r] = c]
    BY CallType DEF Stamp, Call, IInv, TypeOK
  <1>4. UNCHANGED <<written, told, heard, pausedAt>> /\ passed' \subseteq Mails
        /\ orphans' \subseteq Mails /\ faults' \in Nat
    BY CallType, FaultType DEF Stamp, told, hist, Call, IInv, TypeOK, Unread, Said
  <1> QED
    BY <1>1, <1>2, <1>3, <1>4, CallOnly

LEMMA PostStep == ASSUME IInv, NEW r \in Runs, Post(r) PROVE IInv'
  <1>0. PICK m \in Said :
          run' = [run EXCEPT ![r] =
                    [Off EXCEPT !.pc = "hook", !.on = {m}, !.as = written[m].kind, !.at = 1]]
    BY DEF Post
  <1> DEFINE c == [Off EXCEPT !.pc = "hook", !.on = {m}, !.as = written[m].kind, !.at = 1]
  <1>1. c \in Call
    <2>1. m \in Mails /\ written[m].kind \in Kinds /\ 1 \in 0 .. 5 /\ {m} \in SUBSET Mails
      BY <1>0, CallType DEF Call, IInv, TypeOK, Mail, Said
    <2> QED
      BY <2>1, OffIsSound, CallHook
  <1>2. Sound(c) /\ c.todo \subseteq Said
    <2>1. m \in Said
      BY <1>0, CallType
    <2>2. written[m].kind \in Kinds \ {"none"}
      BY <2>1, SaidKind
    <2>3. Len(Script[written[m].kind]) >= 1
      <3> DEFINE l == Len(Script[written[m].kind])
      <3>1. l \in 3 .. 5
        BY <2>2, ScriptLengths
      <3> HIDE DEF l
      <3>2. l >= 1
        BY <3>1
      <3> QED
        BY <3>2 DEF l
    <2>4. c.at = 1 /\ c.on = {m} /\ c.as = written[m].kind /\ c.todo \subseteq Said
      BY CallType DEF Call, Off
    <2> QED
      BY <2>2, <2>3, <2>4 DEF Sound
  <1>3. run' = [run EXCEPT ![r] = c]
    BY <1>0, CallType DEF Post, Call, IInv, TypeOK
  <1>4. UNCHANGED <<written, told, heard, pausedAt>> /\ passed' \subseteq Mails
        /\ orphans' \subseteq Mails /\ faults' \in Nat
    BY CallType, FaultType DEF Post, told, hist, Call, IInv, TypeOK
  <1> QED
    BY <1>1, <1>2, <1>3, <1>4, CallOnly

LEMMA CrashStep == ASSUME IInv, NEW r \in Runs, Crash(r) PROVE IInv'
  <1> DEFINE c == Off
  <1>1. c \in Call
    BY OffIsSound DEF Off
  <1>2. Sound(c) /\ c.todo \subseteq Said
    BY OffIsSound DEF Off
  <1>3. run' = [run EXCEPT ![r] = c]
    BY CallType DEF Crash, Call, IInv, TypeOK
  <1>4. UNCHANGED <<written, told, heard, pausedAt>> /\ passed' \subseteq Mails
        /\ orphans' \subseteq Mails /\ faults' \in Nat
    BY CallType, FaultType DEF Crash, told, hist, Call, IInv, TypeOK
  <1> QED
    BY <1>1, <1>2, <1>3, <1>4, CallOnly

\* Only an away message holds, and a call's fourth step answered.
LEMMA AtStep ==
  ASSUME IInv, NEW r \in Runs
  PROVE  /\ At(r, "answer") => run[r].at = 4
         /\ At(r, "hold") => run[r].as = "away"
  <1>1. run[r].at \in 0 .. 5 /\ run[r].as \in Kinds
    BY CallType DEF Call
  <1>2. ASSUME run[r].at > 0
        PROVE  /\ Script[run[r].as][run[r].at] = "answer" => run[r].at = 4
               /\ Script[run[r].as][run[r].at] = "hold" => run[r].as = "away"
    <2>1. run[r].as # "none" /\ run[r].at <= Len(Script[run[r].as])
      BY <1>2, CallType DEF Sound
    <2>2. CASE run[r].as = "stop"
      BY <1>1, <1>2, <2>1, <2>2 DEF Script
    <2>3. CASE run[r].as = "away"
      BY <1>1, <1>2, <2>1, <2>3 DEF Script
    <2>4. CASE run[r].as = "reply"
      BY <1>1, <1>2, <2>1, <2>4 DEF Script
    <2>5. CASE run[r].as = "call"
      BY <1>1, <1>2, <2>1, <2>5 DEF Script
    <2> QED
      BY <1>1, <2>1, <2>2, <2>3, <2>4, <2>5 DEF Kinds
  <1> QED
    BY <1>2 DEF At

LEMMA CannotAnswerStep == ASSUME IInv, NEW r \in Runs, CannotAnswer(r) PROVE IInv'
  <1> DEFINE c == [run[r] EXCEPT !.as = "reply"]
  <1>1. run[r].at = 4
    BY AtStep DEF CannotAnswer
  <1>2. "reply" \in Kinds
    BY DEF Kinds
  <1>3. c \in Call
    BY <1>2, CallType, CallAs
  <1>4. c.at = 4 /\ c.as = "reply" /\ c.on = run[r].on /\ c.todo = run[r].todo
    BY <1>1, CallType DEF Call
  <1>5. Sound(c)
    <2>1. run[r].on # {}
      BY <1>1, CallType DEF Sound
    <2>2. Len(Script["reply"]) = 4
      BY ScriptLengths
    <2> HIDE DEF c
    <2> QED
      BY <1>4, <2>1, <2>2 DEF Sound
  <1>6. run' = [run EXCEPT ![r] = c]
    BY DEF CannotAnswer, IInv, TypeOK
  <1>7. UNCHANGED <<written, told, heard, pausedAt>> /\ passed' \subseteq Mails
        /\ orphans' \subseteq Mails /\ faults' \in Nat
    BY DEF CannotAnswer, told, hist, IInv, TypeOK
  <1>8. c.todo \subseteq Said
    BY <1>4, CallType
  <1> HIDE DEF c
  <1> QED
    BY <1>3, <1>5, <1>6, <1>7, <1>8, CallOnly

LEMMA RecordStep == ASSUME IInv, NEW r \in Runs, Record(r) PROVE IInv'
  <1>1. run[r].at > 0 /\ Goes(r)
    BY DEF Record, At
  <1>2. Went
    BY <1>1, GoesOn
  <1>3. \A m \in Mails : [written[m] EXCEPT !.age = 0] \in Mail
    BY DEF IInv, TypeOK, Mail
  <1>4. \A m \in Mails :
           [events[m] EXCEPT !.recorded = events[m].recorded + 1] \in [recorded : Nat, handled : Nat]
    BY DEF IInv, TypeOK
  <1>5. written' \in [Mails -> Mail] /\ events' \in [Mails -> [recorded : Nat, handled : Nat]]
    BY <1>3, <1>4 DEF Record, IInv, TypeOK
  <1>6. Listened'
    BY <1>2 DEF Record, Went, Listened, Said, IInv, TypeOK, Mail
  <1> QED
    BY <1>2, <1>5, <1>6
    DEF Record, IInv, TypeOK, Listened, Said, Went, StampIsNewest, OverIsStale

LEMMA MarkPersonStep == ASSUME IInv, NEW r \in Runs, MarkPerson(r) PROVE IInv'
  <1>1. run[r].at > 0 /\ Goes(r)
    BY DEF MarkPerson, At
  <1>2. Went
    BY <1>1, GoesOn
  <1> QED
    BY <1>2
    DEF MarkPerson, IInv, TypeOK, Listened, Said, Went, StampIsNewest, OverIsStale

LEMMA EndCampaignStep == ASSUME IInv, NEW r \in Runs, EndCampaign(r) PROVE IInv'
  <1>1. run[r].at > 0 /\ Goes(r)
    BY DEF EndCampaign, At
  <1>2. Went
    BY <1>1, GoesOn
  <1> QED
    BY <1>2
    DEF EndCampaign, IInv, TypeOK, Listened, Said, Went, StampIsNewest, OverIsStale

LEMMA AskSessionStep == ASSUME IInv, NEW r \in Runs, AskSession(r) PROVE IInv'
  <1>1. run[r].at > 0 /\ Goes(r)
    BY DEF AskSession, At
  <1>2. Went
    BY <1>1, GoesOn
  <1>3. asked' \subseteq Mails
    BY CallType DEF AskSession, Call, IInv, TypeOK
  <1> QED
    BY <1>2, <1>3
    DEF AskSession, IInv, TypeOK, Listened, Said, Went, StampIsNewest, OverIsStale

LEMMA AnswerStep == ASSUME IInv, NEW r \in Runs, Answer(r) PROVE IInv'
  <1>1. run[r].at > 0 /\ Goes(r)
    BY DEF Answer, At
  <1>2. Went
    BY <1>1, GoesOn
  <1>3. answered' \subseteq Mails
    BY CallType DEF Answer, Call, IInv, TypeOK
  <1> QED
    BY <1>2, <1>3
    DEF Answer, IInv, TypeOK, Listened, Said, Went, StampIsNewest, OverIsStale

LEMMA SettleStep == ASSUME IInv, NEW r \in Runs, Settle(r) PROVE IInv'
  <1>1. run[r].at > 0 /\ Goes(r)
    BY DEF Settle, At
  <1>2. Went
    BY <1>1, GoesOn
  <1>3. \A m \in Mails :
           [events[m] EXCEPT !.handled = events[m].handled + 1] \in [recorded : Nat, handled : Nat]
    BY DEF IInv, TypeOK
  <1>4. events' \in [Mails -> [recorded : Nat, handled : Nat]]
    BY <1>3 DEF Settle, IInv, TypeOK
  <1> QED
    BY <1>2, <1>4
    DEF Settle, IInv, TypeOK, Listened, Said, Went, StampIsNewest, OverIsStale

LEMMA PauseStep == ASSUME IInv, NEW r \in Runs, Pause(r) PROVE IInv'
  <1>1. run[r].at > 0 /\ Goes(r)
    BY DEF Pause, At
  <1>2. Went
    BY <1>1, GoesOn
  <1>3. RepliedAt(r) = pausedAt' /\ pausedAt' \in Nat /\ pausedAt' >= pausedAt
    BY <1>1, NthType DEF Pause, RepliedAt, IInv, TypeOK, StampIsNewest
  <1>4. camp' \in [open : BOOLEAN, repliedAt : Nat, held : BOOLEAN, handed : BOOLEAN]
        /\ camp'.repliedAt = pausedAt'
    BY <1>3 DEF Pause, IInv, TypeOK
  <1>5. OverIsStale'
    <2> SUFFICES ASSUME NEW i \in Msgs, rows[i].over
                 PROVE  rows[i].status = "sending" /\ pausedAt' > rows[i].after
      BY DEF Pause, OverIsStale
    <2>1. rows[i].after \in Nat
      BY DEF IInv, TypeOK, Row
    <2> QED
      BY <1>3, <2>1 DEF IInv, TypeOK, OverIsStale
  <1> QED
    BY <1>2, <1>3, <1>4, <1>5
    DEF Pause, IInv, TypeOK, Listened, Said, Went, StampIsNewest

LEMMA ListAddressStep == ASSUME IInv, NEW r \in Runs, ListAddress(r) PROVE IInv'
  <1>1. run[r].at > 0
    BY DEF ListAddress, At
  <1>2. Went
    <2>1. CASE "marked" \in left
      <3> DEFINE c == Finished(r)
      <3>1. c \in Call /\ Sound(c) /\ c.todo \subseteq run[r].todo
        BY FinishedIsSound
      <3>2. run' = [run EXCEPT ![r] = c] /\ heard' = heard \cup run[r].on
        BY <2>1 DEF ListAddress
      <3> HIDE DEF c
      <3>3. run' \in [Runs -> Call] /\ Acting' /\ \A q \in Runs : run'[q].todo \subseteq run[q].todo
        BY <3>1, <3>2, CallMoves
      <3> QED
        BY <3>2, <3>3, CallType DEF IInv, TypeOK, Call, Went
    <2>2. CASE "marked" \notin left
      BY <1>1, <2>2, GoesOn DEF ListAddress
    <2> QED
      BY <2>1, <2>2
  <1> QED
    BY <1>2
    DEF ListAddress, IInv, TypeOK, Listened, Said, Went, StampIsNewest, OverIsStale

LEMMA HoldStep == ASSUME IInv, NEW r \in Runs, Hold(r) PROVE IInv'
  <1>1. run[r].at > 0 /\ run[r].as = "away"
    BY AtStep DEF Hold, At
  <1>2. Went
    <2>1. CASE Goes(r)
      BY <1>1, <2>1, GoesOn
    <2>2. CASE run' = [run EXCEPT ![r].at = 3] /\ UNCHANGED heard
      <3> DEFINE c == [run[r] EXCEPT !.at = 3]
      <3>1. c \in Call
        <4>1. run[r] \in Call /\ 3 \in 0 .. 5
          BY CallType
        <4> QED
          BY <4>1, CallAt
      <3>2. c.at = 3 /\ c.as = "away" /\ c.on = run[r].on /\ c.todo = run[r].todo
        BY <1>1, CallType DEF Call
      <3>3. Sound(c)
        <4>1. run[r].on # {}
          BY <1>1, CallType DEF Sound
        <4>2. Len(Script["away"]) = 3
          BY ScriptLengths
        <4> HIDE DEF c
        <4> QED
          BY <3>2, <4>1, <4>2 DEF Sound
      <3>4. run' = [run EXCEPT ![r] = c]
        BY <2>2 DEF IInv, TypeOK
      <3> HIDE DEF c
      <3>5. /\ run' \in [Runs -> Call] /\ Acting'
            /\ \A q \in Runs : run'[q] = IF q = r THEN c ELSE run[q]
        BY <3>1, <3>3, <3>4, CallMoves
      <3>6. heard' \subseteq Mails
        BY <2>2 DEF IInv, TypeOK
      <3> QED
        BY <3>2, <3>5, <3>6 DEF Went
    <2> QED
      BY <2>1, <2>2 DEF Hold
  <1>3. camp' \in [open : BOOLEAN, repliedAt : Nat, held : BOOLEAN, handed : BOOLEAN]
        /\ camp'.repliedAt = camp.repliedAt
    BY DEF Hold, IInv, TypeOK
  <1> QED
    BY <1>2, <1>3
    DEF Hold, IInv, TypeOK, Listened, Said, Went, StampIsNewest, OverIsStale

-----------------------------------------------------------------------------
(* The campaign's messages. *)

LEMMA RowTypes ==
  ASSUME IInv, NEW i \in Msgs
  PROVE  /\ rows[i] \in Row
         /\ [NoRow EXCEPT !.status = "skipped"] \in Row
         /\ [rows[i] EXCEPT !.later = TRUE] \in Row /\ [rows[i] EXCEPT !.later = FALSE] \in Row
  BY DEF IInv, TypeOK, Row, NoRow

LEMMA SkippedRows ==
  ASSUME IInv, NEW those \in SUBSET Msgs, rows' = Skipped(those)
  PROVE  /\ rows' \in [Msgs -> Row]
         /\ \A i \in Msgs : rows'[i].over => rows'[i].status = "sending" /\ pausedAt > rows'[i].after
  BY RowTypes DEF Skipped, NoRow, IInv, OverIsStale

LEMMA LaterRows ==
  ASSUME IInv, NEW b \in BOOLEAN, NEW those \in SUBSET Msgs,
         rows' = [i \in Msgs |-> IF i \in those THEN [rows[i] EXCEPT !.later = b] ELSE rows[i]]
  PROVE  /\ rows' \in [Msgs -> Row]
         /\ \A i \in Msgs : rows'[i].over => rows'[i].status = "sending" /\ pausedAt > rows'[i].after
  <1>1. \A i \in Msgs : /\ rows[i] \in Row
                        /\ [rows[i] EXCEPT !.later = b] \in Row
                        /\ [rows[i] EXCEPT !.later = b].over = rows[i].over
                        /\ [rows[i] EXCEPT !.later = b].status = rows[i].status
                        /\ [rows[i] EXCEPT !.later = b].after = rows[i].after
    BY DEF IInv, TypeOK, Row
  <1> QED
    BY <1>1 DEF IInv, OverIsStale

LEMMA CallAndRows ==
  ASSUME IInv, Went, rows' \in [Msgs -> Row],
         \A i \in Msgs : rows'[i].over => rows'[i].status = "sending" /\ pausedAt > rows'[i].after,
         UNCHANGED <<written, passed, events, answered, asked, camp, left, pausedAt, orphans, faults>>
  PROVE  IInv'
  BY DEF IInv, TypeOK, Listened, Said, Went, StampIsNewest, OverIsStale

LEMMA DropQueuedStep == ASSUME IInv, NEW r \in Runs, DropQueued(r) PROVE IInv'
  <1>1. run[r].at > 0 /\ Goes(r)
    BY DEF DropQueued, At
  <1>2. Went
    BY <1>1, GoesOn
  <1>3. Waiting \in SUBSET Msgs
    BY DEF Waiting
  <1>4. /\ rows' \in [Msgs -> Row]
        /\ \A i \in Msgs : rows'[i].over => rows'[i].status = "sending" /\ pausedAt > rows'[i].after
    BY <1>3, SkippedRows DEF DropQueued
  <1> QED
    BY <1>2, <1>4, CallAndRows DEF DropQueued

LEMMA SweepStep == ASSUME IInv, NEW r \in Runs, Sweep(r) PROVE IInv'
  <1>1. run[r].at > 0 /\ Goes(r)
    BY DEF Sweep, At
  <1>2. Went
    BY <1>1, GoesOn
  <1>3. Waiting \in SUBSET Msgs
    BY DEF Waiting
  <1>4. /\ rows' \in [Msgs -> Row]
        /\ \A i \in Msgs : rows'[i].over => rows'[i].status = "sending" /\ pausedAt > rows'[i].after
    BY <1>3, SkippedRows DEF Sweep
  <1> QED
    BY <1>2, <1>4, CallAndRows DEF Sweep

LEMMA DeferQueuedStep == ASSUME IInv, NEW r \in Runs, DeferQueued(r) PROVE IInv'
  <1>1. run[r].at > 0 /\ Goes(r)
    BY DEF DeferQueued, At
  <1>2. Went
    BY <1>1, GoesOn
  <1>3. Waiting \in SUBSET Msgs
    BY DEF Waiting
  <1>4. /\ rows' \in [Msgs -> Row]
        /\ \A i \in Msgs : rows'[i].over => rows'[i].status = "sending" /\ pausedAt > rows'[i].after
    BY <1>3, LaterRows DEF DeferQueued
  <1> QED
    BY <1>2, <1>4, CallAndRows DEF DeferQueued

\* One row is written anew.
LEMMA OneRow ==
  ASSUME IInv, NEW i \in Msgs, NEW w \in Row, rows' = [rows EXCEPT ![i] = w],
         w.over => w.status = "sending" /\ pausedAt > w.after,
         UNCHANGED <<written, passed, events, answered, asked, camp, left, run, heard, pausedAt, orphans>>,
         faults' \in Nat
  PROVE  IInv'
  <1>1. /\ rows' \in [Msgs -> Row]
        /\ \A o \in Msgs : rows'[o].over => rows'[o].status = "sending" /\ pausedAt > rows'[o].after
    BY DEF IInv, TypeOK, OverIsStale
  <1> QED
    BY <1>1, RowMoves

LEMMA WriteRowStep == ASSUME IInv, NEW i \in Msgs, WriteRow(i) PROVE IInv'
  <1>1. [NoRow EXCEPT !.status = "queued", !.after = Moment] \in Row
    BY MomentType DEF IInv, NoRow, Row
  <1> QED
    BY <1>1, OneRow DEF WriteRow, hist, NoRow, IInv, TypeOK

LEMMA ClaimStep == ASSUME IInv, NEW i \in Msgs, Claim(i) PROVE IInv'
  <1> DEFINE b == pausedAt > rows[i].after
  <1> DEFINE w == [rows[i] EXCEPT !.status = "sending", !.over = b]
  <1>1. b \in BOOLEAN
    OBVIOUS
  <1>2. rows' = [rows EXCEPT ![i] = w]
    BY DEF Claim, IInv, TypeOK
  <1>3. b => pausedAt > rows[i].after
    OBVIOUS
  <1> HIDE DEF b
  <1>4. w \in Row /\ w.over = b /\ w.status = "sending" /\ w.after = rows[i].after
    BY <1>1, RowTypes DEF Row
  <1>5. faults' \in Nat
    BY DEF Claim, hist, IInv, TypeOK
  <1> HIDE DEF w
  <1> QED
    BY <1>2, <1>3, <1>4, <1>5, OneRow DEF Claim, hist

LEMMA SkipStep == ASSUME IInv, NEW i \in Msgs, Skip(i) PROVE IInv'
  BY SkippedRows, RowMoves DEF Skip, hist, IInv, TypeOK

LEMMA DeferStep == ASSUME IInv, NEW i \in Msgs, Defer(i) PROVE IInv'
  <1> DEFINE w == [rows[i] EXCEPT !.status = "queued", !.over = FALSE, !.later = camp.held]
  <1>1. camp.held \in BOOLEAN
    BY DEF IInv, TypeOK
  <1>2. w \in Row /\ ~w.over
    BY <1>1, RowTypes DEF Row
  <1>3. rows' = [rows EXCEPT ![i] = w]
    BY DEF Defer, IInv, TypeOK
  <1>4. faults' \in Nat
    BY FaultType DEF Defer
  <1> QED
    BY <1>2, <1>3, <1>4, OneRow DEF Defer

LEMMA ClearStep == ASSUME IInv, NEW i \in Msgs, Clear(i) PROVE IInv'
  <1> DEFINE w == [NoRow EXCEPT !.status = "cleared", !.over = rows[i].over]
  <1>1. ~(camp.repliedAt > rows[i].after)
    BY DEF Clear, Refused, Stale
  <1>2. rows[i].over = FALSE
    BY <1>1, RowTypes DEF IInv, TypeOK, StampIsNewest, OverIsStale, Row
  <1>3. w \in Row /\ ~w.over
    BY <1>2 DEF NoRow, Row
  <1> QED
    BY <1>3, OneRow DEF Clear, hist, IInv, TypeOK

LEMMA SendStep == ASSUME IInv, NEW i \in Msgs, Send(i) PROVE IInv'
  <1> DEFINE w == [rows[i] EXCEPT !.status = "sent"]
  <1>1. w \in Row /\ w.over = rows[i].over
    BY RowTypes DEF Row
  <1>2. ~rows[i].over
    BY DEF Send, IInv, OverIsStale
  <1>3. rows' = [rows EXCEPT ![i] = w]
    BY DEF Send, IInv, TypeOK
  <1> HIDE DEF w
  <1> QED
    BY <1>1, <1>2, <1>3, OneRow DEF Send, hist, IInv, TypeOK

LEMMA LeadWritesStep == ASSUME IInv, NEW m \in Mails, LeadWrites(m) PROVE IInv'
  <1>1. PICK kind \in KindsOf[m] :
          written' = [written EXCEPT ![m] = [nth |-> Moment + 1, kind |-> kind, age |-> 0]]
    BY DEF LeadWrites
  <1>2. [nth |-> Moment + 1, kind |-> kind, age |-> 0] \in Mail
    BY MomentType, RepliesAssumption DEF Mail, Kinds, IInv
  <1>3. written' \in [Mails -> Mail]
    BY <1>1, <1>2 DEF IInv, TypeOK
  <1>4. kind # "none"
    BY RepliesAssumption
  <1>5. Moment + 1 > 0
    BY MomentType DEF IInv
  <1>6. \A o \in Mails : written'[o] = IF o = m THEN [nth |-> Moment + 1, kind |-> kind, age |-> 0]
                                  ELSE written[o]
    BY <1>1 DEF IInv, TypeOK
  <1>7. Said' = Said \cup {m}
    BY <1>5, <1>6 DEF Said
  <1>8. Listened'
    BY <1>4, <1>6, <1>7 DEF LeadWrites, told, IInv, Listened
  <1> QED
    BY <1>3, <1>8
    DEF LeadWrites, told, hist, Acting, IInv, TypeOK, Listened, Said, Went, StampIsNewest,
        OverIsStale

LEMMA TickStep == ASSUME IInv, Tick PROVE IInv'
  <1>1. \A m \in Mails : Older(m) \in Nat /\ written[m] \in Mail
    BY DEF Older, IInv, TypeOK, Mail
  <1>2. \A m \in Mails : [written[m] EXCEPT !.age = Older(m)] \in Mail
    BY <1>1 DEF Mail
  <1>3. written' \in [Mails -> Mail]
    BY <1>2 DEF Tick
  <1>4. \A r \in Runs : /\ [run[r] EXCEPT !.old = run[r].pc # "off"] \in Call
                        /\ Sound([run[r] EXCEPT !.old = run[r].pc # "off"])
    BY CallType DEF Call, Sound
  <1>5. run' \in [Runs -> Call] /\ Acting'
    BY <1>4 DEF Tick, Acting, Sound
  <1>6. Listened'
    <2>1. \A m \in Mails : written'[m].nth = written[m].nth /\ written'[m].kind = written[m].kind
      BY <1>1 DEF Tick, Mail
    <2>2. \A r \in Runs : run'[r].todo = run[r].todo
      BY CallType DEF Tick, Call
    <2>3. Said' = Said
      BY <2>1 DEF Said
    <2>4. \A r \in Runs : run[r].todo \subseteq Said
      BY DEF IInv, Listened
    <2>5. \A m \in Said : m \in Mails /\ written[m].kind # "none"
      BY DEF IInv, Listened, Said
    <2> QED
      BY <2>1, <2>2, <2>3, <2>4, <2>5 DEF Listened
  <1> QED
    BY <1>3, <1>5, <1>6
    DEF Tick, told, hist, IInv, TypeOK, Listened, Said, Went, StampIsNewest, OverIsStale

LEMMA HoldEndsStep == ASSUME IInv, HoldEnds PROVE IInv'
  <1>1. rows' = [i \in Msgs |-> IF i \in Msgs THEN [rows[i] EXCEPT !.later = FALSE] ELSE rows[i]]
    BY DEF HoldEnds
  <1>2. /\ rows' \in [Msgs -> Row]
        /\ \A i \in Msgs : rows'[i].over => rows'[i].status = "sending" /\ pausedAt > rows'[i].after
    BY <1>1, LaterRows
  <1>3. camp' \in [open : BOOLEAN, repliedAt : Nat, held : BOOLEAN, handed : BOOLEAN]
        /\ camp'.repliedAt = camp.repliedAt
    BY DEF HoldEnds, IInv, TypeOK
  <1> QED
    BY <1>2, <1>3
    DEF HoldEnds, hist, Acting, IInv, TypeOK, Listened, Said, Went, StampIsNewest, OverIsStale

LEMMA StutterStep == ASSUME IInv, UNCHANGED vars PROVE IInv'
  BY
  DEF vars, told, hist, Acting, IInv, TypeOK, Listened, Said, Went, StampIsNewest, OverIsStale

LEMMA InitIInv == Init => IInv
  <1> SUFFICES ASSUME Init PROVE IInv
    OBVIOUS
  <1>1. Unwritten \in Mail /\ NoRow \in Row /\ Off \in Call
    BY OffIsSound DEF Unwritten, Mail, NoRow, Row, Kinds
  <1>2. TypeOK
    BY <1>1 DEF Init, TypeOK
  <1>3. Acting /\ Listened /\ StampIsNewest /\ OverIsStale
    BY
    DEF Init, Off, NoRow, Unwritten, Said, Acting, Listened, StampIsNewest, OverIsStale
  <1> QED
    BY <1>2, <1>3 DEF IInv

\* Every action keeps the invariant.
LEMMA NextIInv == IInv /\ [Next]_vars => IInv'
  <1> SUFFICES ASSUME IInv, [Next]_vars PROVE IInv'
    OBVIOUS
  <1>1. CASE \E m \in Mails : LeadWrites(m)
    BY <1>1, LeadWritesStep
  <1>2. CASE Tick \/ HoldEnds
    BY <1>2, TickStep, HoldEndsStep
  <1>3. CASE \E r \in Runs : \/ List(r) \/ ListInVain(r) \/ Fetch(r) \/ FetchInVain(r)
                            \/ Stamp(r) \/ Post(r) \/ Crash(r)
    BY <1>3, ListStep, ListInVainStep, FetchStep, FetchInVainStep, StampStep, PostStep, CrashStep
  <1>4. CASE \E r \in Runs : Acts(r)
    BY <1>4, RecordStep, ListAddressStep, MarkPersonStep, EndCampaignStep, DropQueuedStep,
       HoldStep, DeferQueuedStep, PauseStep, SweepStep, AskSessionStep, AnswerStep,
       CannotAnswerStep, SettleStep
    DEF Acts
  <1>5. CASE \E i \in Msgs : WriteRow(i) \/ Claim(i) \/ Skip(i) \/ Defer(i) \/ Clear(i) \/ Send(i)
    BY <1>5, WriteRowStep, ClaimStep, SkipStep, DeferStep, ClearStep, SendStep
  <1>6. CASE UNCHANGED vars
    BY <1>6, StutterStep
  <1> QED
    BY <1>1, <1>2, <1>3, <1>4, <1>5, <1>6 DEF Next

LEMMA SpecIInv == Spec => []IInv
  BY InitIInv, NextIInv, PTL DEF Spec

\* Every variable keeps its type, however polls and webhook calls overlap.
THEOREM TypeCorrect == Spec => []TypeOK
  BY SpecIInv, PTL DEF IInv

\* No message goes out over a reply that had paused its campaign when it was
\* claimed, in whatever order any number of replies is read (fireDue.ts).
THEOREM RepliesComeFirst == Spec => []NotOverTheirWords
  <1>1. IInv => NotOverTheirWords
    BY DEF IInv, OverIsStale, NotOverTheirWords
  <1> QED
    BY <1>1, SpecIInv, PTL

-----------------------------------------------------------------------------
(* Whoever has opted out.                                                  *)

\* What a call with an opt-out in hand has done by the step it stands at.
Heeds(c, said, kinds, out) ==
    /\ c.on \subseteq said
    /\ \A m \in c.on : kinds[m] = "stop" => c.as = "stop" /\ c.at > 0
    /\ c.as = "stop" /\ c.at > 2 => "listed" \in out

KindOf == [m \in Mails |-> written[m].kind]

\* An opt-out heard, and a person marked, is on the list.
Heeded ==
    /\ \A r \in Runs : Heeds(run[r], Said, KindOf, left)
    /\ "marked" \in left => "listed" \in left
    /\ heard \subseteq Said
    /\ \A m \in heard : KindOf[m] = "stop" => "listed" \in left

\* What is known of the mails and written down about the lead only grows.
Grows ==
    /\ Said \subseteq Said' /\ \A m \in Said : KindOf'[m] = KindOf[m]
    /\ left \subseteq left' /\ ("marked" \in left' => "listed" \in left')

LEMMA StillHeeds ==
  ASSUME Heeded, Grows, NEW c, Heeds(c, Said, KindOf, left)
  PROVE  Heeds(c, Said', KindOf', left')
  BY DEF Heeded, Grows, Heeds

LEMMA HeededStep ==
  ASSUME Heeded, Grows, \A q \in Runs : Heeds(run'[q], Said', KindOf', left'),
         \A m \in heard' : m \in heard \/ (m \in Said' /\ (KindOf'[m] = "stop" => "listed" \in left'))
  PROVE  Heeded'
  BY DEF Heeded, Grows

LEMMA OneCallHeeds ==
  ASSUME IInv, Heeded, Grows, heard' = heard, NEW r \in Runs, NEW c, run' = [run EXCEPT ![r] = c],
         Heeds(c, Said', KindOf', left')
  PROVE  Heeded'
  <1>1. \A q \in Runs : run'[q] = IF q = r THEN c ELSE run[q]
    BY DEF IInv, TypeOK
  <1>2. \A q \in Runs : Heeds(run[q], Said', KindOf', left')
    BY StillHeeds DEF Heeded
  <1> QED
    BY <1>1, <1>2, HeededStep

LEMMA KindsStay == ASSUME written' = written, left' = left, Heeded PROVE Grows
  BY DEF Grows, Said, KindOf, Heeded

LEMMA IdleHeeds == ASSUME NEW said, NEW kinds, NEW out, NEW c, c.on = {}, c.as # "stop" PROVE Heeds(c, said, kinds, out)
  BY DEF Heeds

\* Where the scripts name a step.
LEMMA ScriptSteps ==
  ASSUME IInv, NEW r \in Runs
  PROVE  /\ At(r, "answer") => run[r].as = "call"
         /\ At(r, "mark") => run[r].as = "stop" /\ run[r].at = 3
  <1>1. run[r].at \in 0 .. 5 /\ run[r].as \in Kinds
    BY CallType DEF Call
  <1>2. ASSUME run[r].at > 0
        PROVE  /\ Script[run[r].as][run[r].at] = "answer" => run[r].as = "call"
               /\ Script[run[r].as][run[r].at] = "mark" => run[r].as = "stop" /\ run[r].at = 3
    <2>1. run[r].as # "none" /\ run[r].at <= Len(Script[run[r].as])
      BY <1>2, CallType DEF Sound
    <2>2. CASE run[r].as = "stop"
      BY <1>1, <1>2, <2>1, <2>2 DEF Script
    <2>3. CASE run[r].as = "away"
      BY <1>1, <1>2, <2>1, <2>3 DEF Script
    <2>4. CASE run[r].as = "reply"
      BY <1>1, <1>2, <2>1, <2>4 DEF Script
    <2>5. CASE run[r].as = "call"
      BY <1>1, <1>2, <2>1, <2>5 DEF Script
    <2> QED
      BY <1>1, <2>1, <2>2, <2>3, <2>4, <2>5 DEF Kinds
  <1> QED
    BY <1>2 DEF At

LEMMA SecondIsList ==
  ASSUME IInv, NEW r \in Runs, NEW step, At(r, step), run[r].as = "stop", run[r].at = 2 PROVE step = "list"
  BY DEF At, Script

\* A call that goes on past the list has listed, and so has one that is done.
LEMMA GoesHeeds ==
  ASSUME IInv, Heeded, Grows, Said' = Said, NEW r \in Runs, run[r].at > 0, Goes(r),
         run[r].as = "stop" /\ run[r].at >= 2 => "listed" \in left'
  PROVE  Heeded'
  <1>1. run[r] \in Call /\ Heeds(run[r], Said, KindOf, left)
    BY CallType DEF Heeded
  <1>2. Heeds(run[r], Said', KindOf', left')
    BY <1>1, StillHeeds
  <1>3. CASE run[r].at < Len(Script[run[r].as])
    <2> DEFINE c == [run[r] EXCEPT !.at = run[r].at + 1]
    <2>1. c.at = run[r].at + 1 /\ c.on = run[r].on /\ c.as = run[r].as /\ run[r].at \in Nat
      BY <1>1 DEF Call
    <2>2. c.at > 2 => run[r].at >= 2
      BY <2>1
    <2>3. c.at > 0
      BY <2>1
    <2>4. run' = [run EXCEPT ![r] = c] /\ heard' = heard
      BY <1>3 DEF Goes, IInv, TypeOK
    <2> HIDE DEF c
    <2>5. Heeds(c, Said', KindOf', left')
      BY <1>2, <2>1, <2>2, <2>3 DEF Heeds
    <2> QED
      BY <2>4, <2>5, OneCallHeeds
  <1>4. CASE ~(run[r].at < Len(Script[run[r].as]))
    <2>1. run' = [run EXCEPT ![r] = Finished(r)] /\ heard' = heard \cup run[r].on
      BY <1>4 DEF Goes
    <2>2. Finished(r).on = {} /\ Finished(r).as # "stop"
      BY <1>1 DEF Finished, Off, Call
    <2>3. \A q \in Runs : Heeds(run'[q], Said', KindOf', left')
      <3>1. \A q \in Runs : run'[q] = IF q = r THEN Finished(r) ELSE run[q]
        BY <2>1 DEF IInv, TypeOK
      <3>2. \A q \in Runs : Heeds(run[q], Said', KindOf', left')
        BY StillHeeds DEF Heeded
      <3> QED
        BY <2>2, <3>1, <3>2, IdleHeeds
    <2>4. ASSUME run[r].as = "stop" PROVE "listed" \in left'
      <3>1. Len(Script["stop"]) = 5
        BY ScriptLengths
      <3>2. run[r].at >= 2
        BY <1>1, <1>4, <2>4, <3>1 DEF Call
      <3> QED
        BY <2>4, <3>2
    <2>5. \A m \in run[r].on : m \in Said' /\ (KindOf'[m] = "stop" => "listed" \in left')
      BY <1>2, <2>4 DEF Heeds
    <2> QED
      BY <2>1, <2>3, <2>5, HeededStep
  <1> QED
    BY <1>3, <1>4

\* Every step of a script but those that write down the opt-out.
LEMMA OtherActs ==
  ASSUME IInv, Heeded, Grows, Said' = Said, left' = left, NEW r \in Runs,
         NEW step, step # "list", At(r, step), Goes(r)
  PROVE  Heeded'
  <1>1. run[r].at > 0 /\ run[r].at \in Nat
    BY CallType DEF At, Call
  <1>2. ASSUME run[r].as = "stop", run[r].at >= 2 PROVE "listed" \in left'
    <2>1. run[r].at # 2
      BY <1>2, SecondIsList
    <2>2. run[r].at > 2
      BY <1>1, <1>2, <2>1
    <2> QED
      BY <1>2, <2>2 DEF Heeded, Heeds
  <1> QED
    BY <1>1, <1>2, GoesHeeds

LEMMA ActsHeed == ASSUME IInv, Heeded, NEW r \in Runs, Acts(r) PROVE Heeded'
  <1>1. CASE Record(r)
    <2>1. \A m \in Mails : written'[m].kind = written[m].kind /\ written'[m].nth = written[m].nth
      BY <1>1 DEF Record, IInv, TypeOK, Mail
    <2>2. Said' = Said /\ KindOf' = KindOf
      BY <2>1 DEF Said, KindOf
    <2>3. Grows /\ left' = left
      BY <1>1, <2>2 DEF Grows, Record, Heeded
    <2>4. At(r, "record") /\ Goes(r)
      BY <1>1 DEF Record
    <2> QED
      BY <2>2, <2>3, <2>4, OtherActs
  <1>2. CASE ListAddress(r)
    <2>1. written' = written /\ Said' = Said /\ KindOf' = KindOf /\ run[r].at > 0
      BY <1>2 DEF ListAddress, At, Said, KindOf
    <2>2. CASE "marked" \in left
      <3>1. run' = [run EXCEPT ![r] = Finished(r)] /\ heard' = heard \cup run[r].on /\ left' = left
        BY <1>2, <2>2 DEF ListAddress
      <3>2. Grows
        BY <2>1, <3>1, KindsStay
      <3>3. Finished(r).on = {} /\ Finished(r).as # "stop"
        BY CallType DEF Finished, Off, Call
      <3>4. \A q \in Runs : run'[q] = IF q = r THEN Finished(r) ELSE run[q]
        BY <3>1 DEF IInv, TypeOK
      <3>5. \A q \in Runs : Heeds(run[q], Said', KindOf', left')
        BY <3>2, StillHeeds DEF Heeded
      <3>6. \A q \in Runs : Heeds(run'[q], Said', KindOf', left')
        BY <3>3, <3>4, <3>5, IdleHeeds
      <3>7. "listed" \in left' /\ run[r].on \subseteq Said'
        BY <2>1, <2>2, <3>1 DEF Heeded, Heeds
      <3> QED
        BY <3>1, <3>2, <3>6, <3>7, HeededStep
    <2>3. CASE "marked" \notin left
      <3>1. Goes(r) /\ left' = left \cup {"listed"}
        BY <1>2, <2>3 DEF ListAddress
      <3>2. Grows
        BY <2>1, <3>1 DEF Grows
      <3> QED
        BY <2>1, <3>1, <3>2, GoesHeeds
    <2> QED
      BY <2>2, <2>3
  <1>3. CASE MarkPerson(r)
    <2>1. run[r].as = "stop" /\ run[r].at = 3 /\ Goes(r) /\ left' = left \cup {"marked"} /\ written' = written
      BY <1>3, ScriptSteps DEF MarkPerson
    <2>2. "listed" \in left
      BY <2>1 DEF Heeded, Heeds
    <2>3. Grows /\ Said' = Said
      BY <2>1, <2>2 DEF Grows, Said, KindOf
    <2> QED
      BY <2>1, <2>2, <2>3, GoesHeeds
  <1>4. CASE CannotAnswer(r)
    <2> DEFINE c == [run[r] EXCEPT !.as = "reply"]
    <2>1. run[r].as = "call" /\ run' = [run EXCEPT ![r] = c] /\ heard' = heard /\ written' = written /\ left' = left
      BY <1>4, ScriptSteps DEF CannotAnswer, told, hist, IInv, TypeOK
    <2>2. c.on = run[r].on /\ c.as = "reply"
      BY CallType DEF Call
    <2>3. Grows
      BY <2>1, KindsStay
    <2>4. Heeds(run[r], Said', KindOf', left')
      BY <2>3, StillHeeds DEF Heeded
    <2> HIDE DEF c
    <2>5. Heeds(c, Said', KindOf', left')
      BY <2>1, <2>2, <2>4 DEF Heeds
    <2> QED
      BY <2>1, <2>3, <2>5, OneCallHeeds
  <1>5. CASE Hold(r)
    <2>1. written' = written /\ left' = left /\ Said' = Said /\ run[r].as = "away" /\ At(r, "hold")
      BY <1>5, AtStep DEF Hold, Said
    <2>2. Grows
      BY <2>1, KindsStay
    <2>3. CASE Goes(r)
      BY <2>1, <2>2, <2>3, OtherActs
    <2>4. CASE run' = [run EXCEPT ![r].at = 3] /\ UNCHANGED heard
      <3> DEFINE c == [run[r] EXCEPT !.at = 3]
      <3>1. c.on = run[r].on /\ c.as = "away" /\ run' = [run EXCEPT ![r] = c]
        BY <2>1, <2>4, CallType DEF Call, IInv, TypeOK
      <3>2. Heeds(run[r], Said', KindOf', left')
        BY <2>2, StillHeeds DEF Heeded
      <3> HIDE DEF c
      <3>3. Heeds(c, Said', KindOf', left')
        BY <2>1, <3>1, <3>2 DEF Heeds
      <3> QED
        BY <2>2, <2>4, <3>1, <3>3, OneCallHeeds
    <2> QED
      BY <1>5, <2>3, <2>4 DEF Hold
  <1>6. CASE \/ EndCampaign(r) \/ DropQueued(r) \/ DeferQueued(r) \/ Pause(r) \/ Sweep(r)
             \/ AskSession(r) \/ Answer(r) \/ Settle(r)
    <2>1. written' = written /\ left' = left /\ Goes(r)
      BY <1>6 DEF EndCampaign, DropQueued, DeferQueued, Pause, Sweep, AskSession, Answer, Settle
    <2>2. \E step \in {"end", "drop", "defer", "pause", "sweep", "ask", "answer", "settle"} : At(r, step)
      BY <1>6 DEF EndCampaign, DropQueued, DeferQueued, Pause, Sweep, AskSession, Answer, Settle
    <2>3. Grows /\ Said' = Said
      BY <2>1, KindsStay DEF Said
    <2> QED
      BY <2>1, <2>2, <2>3, OtherActs
  <1> QED
    BY <1>1, <1>2, <1>3, <1>4, <1>5, <1>6 DEF Acts

LEMMA CallsHeed ==
  ASSUME IInv, Heeded, NEW r \in Runs,
         \/ List(r) \/ ListInVain(r) \/ Fetch(r) \/ FetchInVain(r) \/ Stamp(r) \/ Post(r) \/ Crash(r)
  PROVE  Heeded'
  <1>1. written' = written /\ left' = left /\ heard' = heard
    BY DEF List, ListInVain, Fetch, FetchInVain, Stamp, Post, Crash, told, hist
  <1>2. Grows /\ Said' = Said /\ KindOf' = KindOf
    BY <1>1, KindsStay DEF Said, KindOf
  <1>3. ASSUME NEW c, run' = [run EXCEPT ![r] = c], c.on = {}, c.as # "stop" PROVE Heeded'
    BY <1>1, <1>2, <1>3, IdleHeeds, OneCallHeeds
  <1>4. CASE List(r) \/ ListInVain(r) \/ Stamp(r) \/ Crash(r)
    <2>1. PICK S : \/ run' = [run EXCEPT ![r] = [Off EXCEPT !.pc = "poll", !.todo = S]]
                   \/ run' = [run EXCEPT ![r] = [Off EXCEPT !.pc = "poll"]]
                   \/ run' = [run EXCEPT ![r] = Off]
      BY <1>4 DEF List, ListInVain, Stamp, Crash
    <2>2. /\ [Off EXCEPT !.pc = "poll", !.todo = S].on = {} /\ [Off EXCEPT !.pc = "poll", !.todo = S].as # "stop"
          /\ [Off EXCEPT !.pc = "poll"].on = {} /\ [Off EXCEPT !.pc = "poll"].as # "stop"
          /\ Off.on = {} /\ Off.as # "stop"
      BY DEF Off
    <2> QED
      BY <1>3, <2>1, <2>2
  <1>5. CASE FetchInVain(r)
    <2>1. PICK m \in Newest(run[r].todo) : run' = [run EXCEPT ![r].todo = run[r].todo \ {m}]
      BY <1>5 DEF FetchInVain
    <2> DEFINE c == [run[r] EXCEPT !.todo = run[r].todo \ {m}]
    <2>2. run' = [run EXCEPT ![r] = c]
      BY <2>1 DEF IInv, TypeOK
    <2>3. c.on = run[r].on /\ c.as = run[r].as /\ c.at = run[r].at
      BY CallType DEF Call
    <2> HIDE DEF c
    <2>4. Heeds(c, Said', KindOf', left')
      BY <1>2, <2>3, StillHeeds DEF Heeded, Heeds
    <2> QED
      BY <1>1, <1>2, <2>2, <2>4, OneCallHeeds
  <1>6. CASE Fetch(r)
    <2>1. PICK m \in Newest(run[r].todo) :
            run' = [run EXCEPT ![r].todo = run[r].todo \ {m}, ![r].on = {m}, ![r].as = written[m].kind, ![r].at = 1]
      BY <1>6 DEF Fetch
    <2> DEFINE c == [run[r] EXCEPT !.todo = run[r].todo \ {m}, !.on = {m}, !.as = written[m].kind, !.at = 1]
    <2>2. run' = [run EXCEPT ![r] = c]
      BY <2>1 DEF IInv, TypeOK
    <2>3. c.on = {m} /\ c.as = written[m].kind /\ c.at = 1
      BY CallType DEF Call
    <2>4. m \in Said /\ m \in Mails
      BY CallType, SaidMails DEF Newest
    <2> HIDE DEF c
    <2>5. Heeds(c, Said', KindOf', left')
      BY <1>2, <2>3, <2>4 DEF Heeds, KindOf
    <2> QED
      BY <1>1, <1>2, <2>2, <2>5, OneCallHeeds
  <1>7. CASE Post(r)
    <2>1. PICK m \in Said :
            run' = [run EXCEPT ![r] = [Off EXCEPT !.pc = "hook", !.on = {m}, !.as = written[m].kind, !.at = 1]]
      BY <1>7 DEF Post
    <2> DEFINE c == [Off EXCEPT !.pc = "hook", !.on = {m}, !.as = written[m].kind, !.at = 1]
    <2>2. c.on = {m} /\ c.as = written[m].kind /\ c.at = 1
      BY DEF Off
    <2>3. m \in Mails
      BY SaidMails
    <2>4. run' = [run EXCEPT ![r] = c]
      BY <2>1
    <2> HIDE DEF c
    <2>5. Heeds(c, Said', KindOf', left')
      BY <1>2, <2>2, <2>3 DEF Heeds, KindOf
    <2> QED
      BY <1>1, <1>2, <2>4, <2>5, OneCallHeeds
  <1> QED
    BY <1>4, <1>5, <1>6, <1>7

LEMMA LeadAndClockHeed ==
  ASSUME IInv, Heeded, (\E m \in Mails : LeadWrites(m)) \/ Tick PROVE Heeded'
  <1>1. left' = left /\ heard' = heard
    BY DEF LeadWrites, Tick, told, hist
  <1>2. \A m \in Said : m \in Said' /\ KindOf'[m] = KindOf[m]
    <2>1. \A m \in Said : m \in Mails /\ written'[m].nth = written[m].nth /\ written'[m].kind = written[m].kind
      BY DEF LeadWrites, Tick, Said, IInv, TypeOK, Mail
    <2> QED
      BY <2>1 DEF Said, KindOf
  <1>3. Grows
    BY <1>1, <1>2 DEF Grows, Heeded
  <1>4. \A q \in Runs : run'[q].on = run[q].on /\ run'[q].as = run[q].as /\ run'[q].at = run[q].at
    BY CallType DEF LeadWrites, Tick, Call
  <1>5. \A q \in Runs : Heeds(run'[q], Said', KindOf', left')
    BY <1>3, <1>4, StillHeeds DEF Heeded, Heeds
  <1> QED
    BY <1>1, <1>3, <1>5, HeededStep

LEMMA RestHeeds ==
  ASSUME Heeded, UNCHANGED <<written, left, run, heard>> PROVE Heeded'
  BY DEF Heeded, Said, KindOf

LEMMA NextHeeds == IInv /\ Heeded /\ [Next]_vars => Heeded'
  <1> SUFFICES ASSUME IInv, Heeded, [Next]_vars PROVE Heeded'
    OBVIOUS
  <1>1. CASE (\E m \in Mails : LeadWrites(m)) \/ Tick
    BY <1>1, LeadAndClockHeed
  <1>2. CASE \E r \in Runs : \/ List(r) \/ ListInVain(r) \/ Fetch(r) \/ FetchInVain(r)
                            \/ Stamp(r) \/ Post(r) \/ Crash(r)
    BY <1>2, CallsHeed
  <1>3. CASE \E r \in Runs : Acts(r)
    BY <1>3, ActsHeed
  <1>4. CASE HoldEnds \/ UNCHANGED vars
    BY <1>4, RestHeeds DEF HoldEnds, vars, told, hist
  <1>5. CASE \E i \in Msgs : WriteRow(i) \/ Claim(i) \/ Skip(i) \/ Defer(i) \/ Clear(i) \/ Send(i)
    BY <1>5, RestHeeds DEF WriteRow, Claim, Skip, Defer, Clear, Send, hist
  <1> QED
    BY <1>1, <1>2, <1>3, <1>4, <1>5 DEF Next

LEMMA InitHeeded == Init => Heeded
  BY DEF Init, Heeded, Heeds, Off

LEMMA SpecHeeded == Spec => []Heeded
  BY InitHeeded, NextHeeds, SpecIInv, PTL DEF Spec

\* A message that passes the last check does so before any opt-out is heard.
LEMMA ClearsInTime ==
  ASSUME IInv, Heeded, Next, NEW i \in Msgs, rows[i].status = "sending", rows'[i].status = "cleared"
  PROVE  ~OptedOut
  <1>1. rows \in [Msgs -> Row]
    BY DEF IInv, TypeOK
  <1>2. Clear(i)
    <2>1. CASE UNCHANGED rows
      BY <2>1
    <2>2. ASSUME NEW those, rows' = Skipped(those) PROVE FALSE
      BY <2>2 DEF Skipped, NoRow
    <2>3. ASSUME \A o \in Msgs : rows'[o].status = rows[o].status PROVE FALSE
      BY <2>3
    <2>4. CASE \E r \in Runs : Acts(r)
      <3>1. PICK r \in Runs : Acts(r)
        BY <2>4
      <3>2. \/ UNCHANGED rows \/ rows' = Skipped(Waiting)
            \/ rows' = [o \in Msgs |-> IF o \in Waiting THEN [rows[o] EXCEPT !.later = TRUE] ELSE rows[o]]
        BY <3>1 DEF Acts, Record, ListAddress, MarkPerson, EndCampaign, DropQueued, Hold, DeferQueued,
           Pause, Sweep, AskSession, Answer, CannotAnswer, Settle, told
      <3>3. rows' = [o \in Msgs |-> IF o \in Waiting THEN [rows[o] EXCEPT !.later = TRUE] ELSE rows[o]]
            => \A o \in Msgs : rows'[o].status = rows[o].status
        BY <1>1 DEF Row
      <3> QED
        BY <2>1, <2>2, <2>3, <3>2, <3>3
    <2>5. CASE HoldEnds
      BY <1>1, <2>3, <2>5 DEF HoldEnds, Row
    <2>6. CASE \/ \E m \in Mails : LeadWrites(m)
               \/ Tick
               \/ \E r \in Runs : \/ List(r) \/ ListInVain(r) \/ Fetch(r) \/ FetchInVain(r)
                                  \/ Stamp(r) \/ Post(r) \/ Crash(r)
      BY <2>1, <2>6 DEF LeadWrites, Tick, List, ListInVain, Fetch, FetchInVain, Stamp, Post, Crash, told
    <2>7. ASSUME NEW o \in Msgs, WriteRow(o) \/ Claim(o) \/ Skip(o) \/ Defer(o) \/ Send(o) PROVE FALSE
      <3>1. CASE o # i
        BY <1>1, <2>7, <3>1 DEF WriteRow, Claim, Skip, Skipped, Defer, Send
      <3>2. CASE o = i
        BY <1>1, <2>7, <3>2 DEF WriteRow, Claim, Skip, Skipped, Defer, Send, NoRow, Row
      <3> QED
        BY <3>1, <3>2
    <2>8. ASSUME NEW o \in Msgs, Clear(o) PROVE Clear(i)
      BY <1>1, <2>8 DEF Clear
    <2> QED
      BY <2>4, <2>5, <2>6, <2>7, <2>8 DEF Next
  <1>3. "listed" \notin left
    BY <1>2 DEF Clear, Refused
  <1> QED
    BY <1>3 DEF OptedOut, Heeded, KindOf, IInv, TypeOK

\* Whoever has opted out, and been heard, is written to no more: however polls
\* and webhook calls overlap, and wherever an earlier one died (unsubscribe.ts,
\* fireDue.ts).
THEOREM OptOutStands == Spec => OptOutHolds
  <1>1. IInv /\ Heeded /\ [Next]_vars
        => [\A i \in Msgs : rows[i].status = "sending" /\ rows'[i].status = "cleared" => ~OptedOut]_vars
    BY ClearsInTime
  <1> QED
    BY <1>1, SpecIInv, SpecHeeded, PTL DEF Spec, OptOutHolds
=============================================================================
