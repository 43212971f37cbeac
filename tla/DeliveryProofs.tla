---------------------------- MODULE DeliveryProofs ----------------------------
(***************************************************************************)
(* Theorems about Delivery, for any messages, campaigns, budget and faults.*)
(***************************************************************************)
EXTENDS Delivery, FiniteSetTheorems, TLAPS

\* Where a message is in hand its row says so, and one on the books of the
\* provider is in nobody's hand but for being counted.
InHand ==
    \A m \in Msgs :
        /\ at[m] \in {"claimed", "go", "hold", "skip", "over", "calling"} => row[m].status = "sending"
        /\ at[m] \in Taking => row[m].status \in {"queued", "held"}

\* What a provider has answered for, or is asked about.
Final == {"dispatched", "sent", "failed"}

\* What a reconciliation has listed has been to the provider.
Asked == \A c \in Checks : \A m \in check[c].todo : row[m].status \in Final

\* What a pause held lies where it was.
AtRest == \A m \in stopped : at[m] = "rest"

\* Only messages on the account wait for the account.
OnAccountOnly ==
    \A m \in Msgs : row[m] = Is("held", "channel") \/ at[m] \in Taking \cup {"hold"} => m \in OnAccount

Stationed == at["console"] \in {"rest", "repair", "judge", "mark", "clear", "free"}

Calm == "crossing" \notin faults

\* While a person connects the account it takes the session, and nobody else
\* is taking the channel down or holding a message for it.
Alone ==
    Calm /\ Reconnecting =>
        account /\ \A h \in Hands \ {"console"} : at[h] \notin Taking \cup {"hold"}

\* Whoever takes the channel down has left it down.
LeftDown ==
    Calm => \A h \in Hands \ {"console"} :
        /\ at[h] = "judge" => ~chan.conn
        /\ at[h] = "mark" => ~found[h]
        /\ at[h] \in {"explain", "sweep", "mine", "hold"} => ~chan.healthy

IInv ==
    /\ TypeOK /\ InHand /\ Asked /\ AtRest /\ PauseHolds
    /\ OnAccountOnly /\ Stationed /\ Alone /\ LeftDown /\ HeldMeansDown

LEMMA HandsApart ==
    /\ {"poll", "console", "switch"} \subseteq Hands
    /\ \A m \in Msgs : m \in Hands /\ m # "poll" /\ m # "console" /\ m # "switch"
  BY DeliveryAssumption DEF Hands

LEMMA SessionEndsStep == ASSUME IInv, SessionEnds PROVE IInv'
  <1>1. TypeOK'
    BY HandsApart, DeliveryAssumption
    DEF IInv, SessionEnds, TypeOK, books, Row, Place, Taking, work, docs, Fault
  <1>2. InHand' /\ Asked'
    BY HandsApart
    DEF IInv, InHand, Asked, Final, SessionEnds, TypeOK, books, Taking, work, docs, Fault
  <1>3. AtRest' /\ PauseHolds'
    BY HandsApart
    DEF IInv, InHand, Asked, Final, AtRest, PauseHolds, SessionEnds, TypeOK, books, Taking, Is, work, docs, Fault
  <1>4. OnAccountOnly' /\ Stationed'
    BY HandsApart
    DEF IInv, OnAccountOnly, Stationed, SessionEnds, TypeOK, books, Taking, Is, work, docs, OnAccount,
        Fault
  <1>5. Alone' /\ LeftDown'
    BY HandsApart
    DEF IInv, Stationed, Alone, LeftDown, Calm, Reconnecting, SessionEnds, TypeOK, books, Taking, work,
        docs, Fault
  <1>6. HeldMeansDown'
    BY HandsApart
    DEF IInv, OnAccountOnly, Stationed, Alone, LeftDown, HeldMeansDown, Calm, Reconnecting,
        SessionEnds, TypeOK, books, Taking, Is, work, docs, OnAccount, Fault
  <1> QED
    BY <1>1, <1>2, <1>3, <1>4, <1>5, <1>6 DEF IInv

LEMMA StartStep == ASSUME IInv, Start PROVE IInv'
  <1>1. TypeOK'
    BY HandsApart, DeliveryAssumption
    DEF IInv, Start, TypeOK, books, Row, Place, Taking, world, docs, Fault, Turn, Due
  <1>2. InHand' /\ Asked'
    BY HandsApart
    DEF IInv, InHand, Asked, Final, Start, TypeOK, books, Taking, world, docs, Fault, Turn, Due
  <1>3. AtRest' /\ PauseHolds'
    BY HandsApart
    DEF IInv, InHand, Asked, Final, AtRest, PauseHolds, Start, TypeOK, books, Taking, Is, world, docs, Fault,
        Turn, Due
  <1>4. OnAccountOnly' /\ Stationed'
    BY HandsApart
    DEF IInv, OnAccountOnly, Stationed, Start, TypeOK, books, Taking, Is, world, docs, OnAccount, Fault,
        Turn, Due
  <1>5. Alone' /\ LeftDown'
    BY HandsApart
    DEF IInv, Stationed, Alone, LeftDown, Calm, Reconnecting, Start, TypeOK, books, Taking, world, docs,
        Fault, Turn, Due
  <1>6. HeldMeansDown'
    BY HandsApart
    DEF IInv, OnAccountOnly, Stationed, Alone, LeftDown, HeldMeansDown, Calm, Reconnecting, Start,
        TypeOK, books, Taking, Is, world, docs, OnAccount, Fault, Turn, Due
  <1> QED
    BY <1>1, <1>2, <1>3, <1>4, <1>5, <1>6 DEF IInv

LEMMA ClaimStep == ASSUME IInv, NEW m \in Msgs, Claim(m) PROVE IInv'
  <1>1. TypeOK'
    <2>1. run' \in [todo : SUBSET Msgs, room : Int]
      BY DEF IInv, TypeOK, Claim
    <2>2. row' \in [Msgs -> Row] /\ at' \in [Hands -> Place]
      <3>1. CASE m \in Due /\ at[m] = "rest"
        BY <3>1, HandsApart DEF IInv, TypeOK, Claim, Put, Is, Row, Step, Place
      <3>2. CASE ~(m \in Due /\ at[m] = "rest")
        BY <3>2 DEF IInv, TypeOK, Claim
      <3> QED
        BY <3>1, <3>2
    <2> QED
      BY <2>1, <2>2 DEF IInv, TypeOK, Claim, hist, books, world
  <1>2. InHand' /\ Asked'
    BY HandsApart
    DEF IInv, InHand, Asked, Final, Claim, TypeOK, books, Taking, Step, Put, Is, hist, world, Due
  <1>3. AtRest' /\ PauseHolds'
    BY HandsApart
    DEF IInv, InHand, Asked, Final, AtRest, PauseHolds, Claim, TypeOK, books, Taking, Step, Put, Is, hist,
        world, Due
  <1>4. OnAccountOnly' /\ Stationed'
    BY HandsApart
    DEF IInv, OnAccountOnly, Stationed, Claim, TypeOK, books, Taking, Step, Put, Is, hist, world,
        OnAccount, Due
  <1>5. Alone' /\ LeftDown'
    BY HandsApart
    DEF IInv, Stationed, Alone, LeftDown, Calm, Reconnecting, Claim, TypeOK, books, Taking, Step, Put,
        Is, hist, world, Due
  <1>6. HeldMeansDown'
    BY HandsApart
    DEF IInv, OnAccountOnly, Stationed, Alone, LeftDown, HeldMeansDown, Calm, Reconnecting, Claim,
        TypeOK, books, Taking, Step, Put, Is, hist, world, OnAccount, Due
  <1> QED
    BY <1>1, <1>2, <1>3, <1>4, <1>5, <1>6 DEF IInv

LEMMA LookStep == ASSUME IInv, NEW m \in Msgs, Look(m) PROVE IInv'
  <1>1. TypeOK'
    BY HandsApart, DeliveryAssumption
    DEF IInv, Look, TypeOK, books, Row, Place, Taking, Step, world, docs, OnAccount, Fault, Crosses,
        Blocked
  <1>2. InHand' /\ Asked'
    BY HandsApart
    DEF IInv, InHand, Asked, Final, Look, TypeOK, books, Taking, Step, world, docs, OnAccount, Fault, Crosses,
        Blocked
  <1>3. AtRest' /\ PauseHolds'
    BY HandsApart
    DEF IInv, InHand, Asked, Final, AtRest, PauseHolds, Look, TypeOK, books, Taking, Step, Is, world, docs,
        OnAccount, Fault, Crosses, Blocked
  <1>4. OnAccountOnly' /\ Stationed'
    BY HandsApart
    DEF IInv, OnAccountOnly, Stationed, Look, TypeOK, books, Taking, Step, Is, world, docs, OnAccount,
        Fault, Crosses, Blocked
  <1>5. Alone' /\ LeftDown'
    BY HandsApart
    DEF IInv, Stationed, Alone, LeftDown, Calm, Reconnecting, Look, TypeOK, books, Taking, Step, world,
        docs, OnAccount, Fault, Crosses, Blocked
  <1>6. HeldMeansDown'
    BY HandsApart
    DEF IInv, OnAccountOnly, Stationed, Alone, LeftDown, HeldMeansDown, Calm, Reconnecting, Look,
        TypeOK, books, Taking, Step, Is, world, docs, OnAccount, Fault, Crosses, Blocked
  <1> QED
    BY <1>1, <1>2, <1>3, <1>4, <1>5, <1>6 DEF IInv

LEMMA DecideStep == ASSUME IInv, NEW m \in Msgs, Decide(m) PROVE IInv'
  <1>1. TypeOK'
    BY HandsApart, DeliveryAssumption
    DEF IInv, Decide, TypeOK, books, Row, Place, Taking, Step, Is, hist, world, Outcome
  <1>2. InHand' /\ Asked'
    BY HandsApart
    DEF IInv, InHand, Asked, Final, Decide, TypeOK, books, Taking, Step, Is, hist, world, Outcome
  <1>3. AtRest' /\ PauseHolds'
    BY HandsApart
    DEF IInv, InHand, Asked, Final, AtRest, PauseHolds, Decide, TypeOK, books, Taking, Step, Is, hist, world,
        Outcome
  <1>4. OnAccountOnly' /\ Stationed'
    BY HandsApart
    DEF IInv, OnAccountOnly, Stationed, Decide, TypeOK, books, Taking, Step, Is, hist, world, OnAccount,
        Outcome
  <1>5. Alone' /\ LeftDown'
    BY HandsApart
    DEF IInv, Stationed, Alone, LeftDown, Calm, Reconnecting, Decide, TypeOK, books, Taking, Step, Is,
        hist, world, Outcome
  <1>6. HeldMeansDown'
    BY HandsApart
    DEF IInv, OnAccountOnly, Stationed, Alone, LeftDown, HeldMeansDown, Calm, Reconnecting,
        Decide, TypeOK, books, Taking, Step, Is, hist, world, OnAccount, Outcome
  <1> QED
    BY <1>1, <1>2, <1>3, <1>4, <1>5, <1>6 DEF IInv

LEMMA WindowFullStep == ASSUME IInv, NEW m \in Msgs, WindowFull(m) PROVE IInv'
  <1>1. TypeOK'
    BY HandsApart, DeliveryAssumption
    DEF IInv, WindowFull, TypeOK, books, Row, Place, Taking, Step, Put, Is, hist, world, OnAccount
  <1>2. InHand' /\ Asked'
    BY HandsApart
    DEF IInv, InHand, Asked, Final, WindowFull, TypeOK, books, Taking, Step, Put, Is, hist, world, OnAccount
  <1>3. AtRest' /\ PauseHolds'
    BY HandsApart
    DEF IInv, InHand, Asked, Final, AtRest, PauseHolds, WindowFull, TypeOK, books, Taking, Step, Put, Is, hist,
        world, OnAccount
  <1>4. OnAccountOnly' /\ Stationed'
    BY HandsApart
    DEF IInv, OnAccountOnly, Stationed, WindowFull, TypeOK, books, Taking, Step, Put, Is, hist, world,
        OnAccount
  <1>5. Alone' /\ LeftDown'
    BY HandsApart
    DEF IInv, Stationed, Alone, LeftDown, Calm, Reconnecting, WindowFull, TypeOK, books, Taking, Step,
        Put, Is, hist, world, OnAccount
  <1>6. HeldMeansDown'
    BY HandsApart
    DEF IInv, OnAccountOnly, Stationed, Alone, LeftDown, HeldMeansDown, Calm, Reconnecting,
        WindowFull, TypeOK, books, Taking, Step, Put, Is, hist, world, OnAccount
  <1> QED
    BY <1>1, <1>2, <1>3, <1>4, <1>5, <1>6 DEF IInv

LEMMA LaunchStep == ASSUME IInv, NEW m \in Msgs, Launch(m) PROVE IInv'
  <1>1. TypeOK'
    BY HandsApart, DeliveryAssumption
    DEF IInv, Launch, TypeOK, books, Row, Place, Taking, Step, hist, world, docs, OnAccount
  <1>2. InHand' /\ Asked'
    BY HandsApart
    DEF IInv, InHand, Asked, Final, Launch, TypeOK, books, Taking, Step, hist, world, docs, OnAccount
  <1>3. AtRest' /\ PauseHolds'
    BY HandsApart
    DEF IInv, InHand, Asked, Final, AtRest, PauseHolds, Launch, TypeOK, books, Taking, Step, Is, hist, world,
        docs, OnAccount
  <1>4. OnAccountOnly' /\ Stationed'
    BY HandsApart
    DEF IInv, OnAccountOnly, Stationed, Launch, TypeOK, books, Taking, Step, Is, hist, world, docs,
        OnAccount
  <1>5. Alone' /\ LeftDown'
    BY HandsApart
    DEF IInv, Stationed, Alone, LeftDown, Calm, Reconnecting, Launch, TypeOK, books, Taking, Step, hist,
        world, docs, OnAccount
  <1>6. HeldMeansDown'
    BY HandsApart
    DEF IInv, OnAccountOnly, Stationed, Alone, LeftDown, HeldMeansDown, Calm, Reconnecting,
        Launch, TypeOK, books, Taking, Step, Is, hist, world, docs, OnAccount
  <1> QED
    BY <1>1, <1>2, <1>3, <1>4, <1>5, <1>6 DEF IInv

LEMMA TakenStep == ASSUME IInv, NEW m \in Msgs, Taken(m) PROVE IInv'
  <1>1. TypeOK'
    BY HandsApart, DeliveryAssumption
    DEF IInv, Taken, TypeOK, books, Row, Place, Taking, Step, Put, Is, hist, OnAccount
  <1>2. InHand' /\ Asked'
    BY HandsApart
    DEF IInv, InHand, Asked, Final, Taken, TypeOK, books, Taking, Step, Put, Is, hist, OnAccount
  <1>3. AtRest' /\ PauseHolds'
    BY HandsApart
    DEF IInv, InHand, Asked, Final, AtRest, PauseHolds, Taken, TypeOK, books, Taking, Step, Put, Is, hist,
        OnAccount
  <1>4. OnAccountOnly' /\ Stationed'
    BY HandsApart
    DEF IInv, OnAccountOnly, Stationed, Taken, TypeOK, books, Taking, Step, Put, Is, hist, OnAccount
  <1>5. Alone' /\ LeftDown'
    BY HandsApart
    DEF IInv, Stationed, Alone, LeftDown, Calm, Reconnecting, Taken, TypeOK, books, Taking, Step, Put,
        Is, hist, OnAccount
  <1>6. HeldMeansDown'
    BY HandsApart
    DEF IInv, OnAccountOnly, Stationed, Alone, LeftDown, HeldMeansDown, Calm, Reconnecting, Taken,
        TypeOK, books, Taking, Step, Put, Is, hist, OnAccount
  <1> QED
    BY <1>1, <1>2, <1>3, <1>4, <1>5, <1>6 DEF IInv

LEMMA CountStep == ASSUME IInv, NEW m \in Msgs, Count(m) PROVE IInv'
  <1>1. TypeOK'
    BY HandsApart, DeliveryAssumption
    DEF IInv, Count, TypeOK, books, Row, Place, Taking, Step, hist, world
  <1>2. InHand' /\ Asked'
    BY HandsApart
    DEF IInv, InHand, Asked, Final, Count, TypeOK, books, Taking, Step, hist, world
  <1>3. AtRest' /\ PauseHolds'
    BY HandsApart
    DEF IInv, InHand, Asked, Final, AtRest, PauseHolds, Count, TypeOK, books, Taking, Step, Is, hist, world
  <1>4. OnAccountOnly' /\ Stationed'
    BY HandsApart
    DEF IInv, OnAccountOnly, Stationed, Count, TypeOK, books, Taking, Step, Is, hist, world, OnAccount
  <1>5. Alone' /\ LeftDown'
    BY HandsApart
    DEF IInv, Stationed, Alone, LeftDown, Calm, Reconnecting, Count, TypeOK, books, Taking, Step, hist,
        world
  <1>6. HeldMeansDown'
    BY HandsApart
    DEF IInv, OnAccountOnly, Stationed, Alone, LeftDown, HeldMeansDown, Calm, Reconnecting, Count,
        TypeOK, books, Taking, Step, Is, hist, world, OnAccount
  <1> QED
    BY <1>1, <1>2, <1>3, <1>4, <1>5, <1>6 DEF IInv

LEMMA ThrottledStep == ASSUME IInv, NEW m \in Msgs, Throttled(m) PROVE IInv'
  <1>1. TypeOK'
    BY HandsApart, DeliveryAssumption
    DEF IInv, Throttled, TypeOK, books, Row, Place, Taking, Step, Put, Is, world, OnAccount, Fault
  <1>2. InHand' /\ Asked'
    BY HandsApart
    DEF IInv, InHand, Asked, Final, Throttled, TypeOK, books, Taking, Step, Put, Is, world, OnAccount, Fault
  <1>3. AtRest' /\ PauseHolds'
    BY HandsApart
    DEF IInv, InHand, Asked, Final, AtRest, PauseHolds, Throttled, TypeOK, books, Taking, Step, Put, Is, world,
        OnAccount, Fault
  <1>4. OnAccountOnly' /\ Stationed'
    BY HandsApart
    DEF IInv, OnAccountOnly, Stationed, Throttled, TypeOK, books, Taking, Step, Put, Is, world,
        OnAccount, Fault
  <1>5. Alone' /\ LeftDown'
    BY HandsApart
    DEF IInv, Stationed, Alone, LeftDown, Calm, Reconnecting, Throttled, TypeOK, books, Taking, Step,
        Put, Is, world, OnAccount, Fault
  <1>6. HeldMeansDown'
    BY HandsApart
    DEF IInv, OnAccountOnly, Stationed, Alone, LeftDown, HeldMeansDown, Calm, Reconnecting,
        Throttled, TypeOK, books, Taking, Step, Put, Is, world, OnAccount, Fault
  <1> QED
    BY <1>1, <1>2, <1>3, <1>4, <1>5, <1>6 DEF IInv

LEMMA BouncedStep == ASSUME IInv, NEW m \in Msgs, Bounced(m) PROVE IInv'
  <1>1. TypeOK'
    BY HandsApart, DeliveryAssumption
    DEF IInv, Bounced, TypeOK, books, Row, Place, Taking, Step, Put, Is, hist, world, OnAccount
  <1>2. InHand' /\ Asked'
    BY HandsApart
    DEF IInv, InHand, Asked, Final, Bounced, TypeOK, books, Taking, Step, Put, Is, hist, world, OnAccount
  <1>3. AtRest' /\ PauseHolds'
    BY HandsApart
    DEF IInv, InHand, Asked, Final, AtRest, PauseHolds, Bounced, TypeOK, books, Taking, Step, Put, Is, hist,
        world, OnAccount
  <1>4. OnAccountOnly' /\ Stationed'
    BY HandsApart
    DEF IInv, OnAccountOnly, Stationed, Bounced, TypeOK, books, Taking, Step, Put, Is, hist, world,
        OnAccount
  <1>5. Alone' /\ LeftDown'
    BY HandsApart
    DEF IInv, Stationed, Alone, LeftDown, Calm, Reconnecting, Bounced, TypeOK, books, Taking, Step, Put,
        Is, hist, world, OnAccount
  <1>6. HeldMeansDown'
    BY HandsApart
    DEF IInv, OnAccountOnly, Stationed, Alone, LeftDown, HeldMeansDown, Calm, Reconnecting,
        Bounced, TypeOK, books, Taking, Step, Put, Is, hist, world, OnAccount
  <1> QED
    BY <1>1, <1>2, <1>3, <1>4, <1>5, <1>6 DEF IInv

LEMMA PollBouncedStep == ASSUME IInv, PollBounced PROVE IInv'
  <1>1. TypeOK'
    BY HandsApart, DeliveryAssumption
    DEF IInv, PollBounced, TypeOK, books, Row, Place, Taking, Step, world, docs, Fault, Turn
  <1>2. InHand' /\ Asked'
    BY HandsApart
    DEF IInv, InHand, Asked, Final, PollBounced, TypeOK, books, Taking, Step, world, docs, Fault, Turn
  <1>3. AtRest' /\ PauseHolds'
    BY HandsApart
    DEF IInv, InHand, Asked, Final, AtRest, PauseHolds, PollBounced, TypeOK, books, Taking, Step, Is, world,
        docs, Fault, Turn
  <1>4. OnAccountOnly' /\ Stationed'
    BY HandsApart
    DEF IInv, OnAccountOnly, Stationed, PollBounced, TypeOK, books, Taking, Step, Is, world, docs,
        OnAccount, Fault, Turn
  <1>5. Alone' /\ LeftDown'
    BY HandsApart
    DEF IInv, Stationed, Alone, LeftDown, Calm, Reconnecting, PollBounced, TypeOK, books, Taking, Step,
        world, docs, Fault, Turn
  <1>6. HeldMeansDown'
    BY HandsApart
    DEF IInv, OnAccountOnly, Stationed, Alone, LeftDown, HeldMeansDown, Calm, Reconnecting,
        PollBounced, TypeOK, books, Taking, Step, Is, world, docs, OnAccount, Fault, Turn
  <1> QED
    BY <1>1, <1>2, <1>3, <1>4, <1>5, <1>6 DEF IInv

LEMMA DegradeStep == ASSUME IInv, NEW h \in Hands, Degrade(h) PROVE IInv'
  <1>1. TypeOK'
    BY HandsApart, DeliveryAssumption
    DEF IInv, Degrade, TypeOK, books, Row, Place, Taking, Step, hist, world
  <1>2. InHand' /\ Asked'
    BY HandsApart
    DEF IInv, InHand, Asked, Final, Degrade, TypeOK, books, Taking, Step, hist, world
  <1>3. AtRest' /\ PauseHolds'
    BY HandsApart
    DEF IInv, InHand, Asked, Final, AtRest, PauseHolds, Degrade, TypeOK, books, Taking, Step, Is, hist, world
  <1>4. OnAccountOnly' /\ Stationed'
    BY HandsApart
    DEF IInv, OnAccountOnly, Stationed, Degrade, TypeOK, books, Taking, Step, Is, hist, world, OnAccount
  <1>5. Alone' /\ LeftDown'
    BY HandsApart
    DEF IInv, Stationed, Alone, LeftDown, Calm, Reconnecting, Degrade, TypeOK, books, Taking, Step, hist,
        world
  <1>6. HeldMeansDown'
    BY HandsApart
    DEF IInv, OnAccountOnly, Stationed, Alone, LeftDown, HeldMeansDown, Calm, Reconnecting,
        Degrade, TypeOK, books, Taking, Step, Is, hist, world, OnAccount
  <1> QED
    BY <1>1, <1>2, <1>3, <1>4, <1>5, <1>6 DEF IInv

LEMMA JudgeStep == ASSUME IInv, NEW h \in Hands, Judge(h) PROVE IInv'
  <1>1. TypeOK'
    BY HandsApart, DeliveryAssumption
    DEF IInv, Judge, TypeOK, books, Row, Place, Taking, Step, hist, world, docs
  <1>2. InHand' /\ Asked'
    BY HandsApart
    DEF IInv, InHand, Asked, Final, Judge, TypeOK, books, Taking, Step, hist, world, docs
  <1>3. AtRest' /\ PauseHolds'
    BY HandsApart
    DEF IInv, InHand, Asked, Final, AtRest, PauseHolds, Judge, TypeOK, books, Taking, Step, Is, hist, world, docs
  <1>4. OnAccountOnly' /\ Stationed'
    BY HandsApart
    DEF IInv, OnAccountOnly, Stationed, Judge, TypeOK, books, Taking, Step, Is, hist, world, docs,
        OnAccount
  <1>5. Alone' /\ LeftDown'
    BY HandsApart
    DEF IInv, Stationed, Alone, LeftDown, Calm, Reconnecting, Judge, TypeOK, books, Taking, Step, hist,
        world, docs
  <1>6. HeldMeansDown'
    BY HandsApart
    DEF IInv, OnAccountOnly, Stationed, Alone, LeftDown, HeldMeansDown, Calm, Reconnecting, Judge,
        TypeOK, books, Taking, Step, Is, hist, world, docs, OnAccount
  <1> QED
    BY <1>1, <1>2, <1>3, <1>4, <1>5, <1>6 DEF IInv

LEMMA MarkStep == ASSUME IInv, NEW h \in Hands, Mark(h) PROVE IInv'
  <1>1. TypeOK'
    BY HandsApart, DeliveryAssumption
    DEF IInv, Mark, TypeOK, books, Row, Place, Taking, Step, hist, world
  <1>2. InHand' /\ Asked'
    BY HandsApart
    DEF IInv, InHand, Asked, Final, Mark, TypeOK, books, Taking, Step, hist, world
  <1>3. AtRest' /\ PauseHolds'
    BY HandsApart
    DEF IInv, InHand, Asked, Final, AtRest, PauseHolds, Mark, TypeOK, books, Taking, Step, Is, hist, world
  <1>4. OnAccountOnly' /\ Stationed'
    BY HandsApart
    DEF IInv, OnAccountOnly, Stationed, Mark, TypeOK, books, Taking, Step, Is, hist, world, OnAccount
  <1>5. Alone' /\ LeftDown'
    BY HandsApart
    DEF IInv, Stationed, Alone, LeftDown, Calm, Reconnecting, Mark, TypeOK, books, Taking, Step, hist,
        world
  <1>6. HeldMeansDown'
    BY HandsApart
    DEF IInv, OnAccountOnly, Stationed, Alone, LeftDown, HeldMeansDown, Calm, Reconnecting, Mark,
        TypeOK, books, Taking, Step, Is, hist, world, OnAccount
  <1> QED
    BY <1>1, <1>2, <1>3, <1>4, <1>5, <1>6 DEF IInv

LEMMA ExplainStep == ASSUME IInv, NEW h \in Hands, Explain(h) PROVE IInv'
  <1>1. TypeOK'
    BY HandsApart, DeliveryAssumption
    DEF IInv, Explain, TypeOK, books, Row, Place, Taking, Step, hist, world
  <1>2. InHand' /\ Asked'
    BY HandsApart
    DEF IInv, InHand, Asked, Final, Explain, TypeOK, books, Taking, Step, hist, world
  <1>3. AtRest' /\ PauseHolds'
    BY HandsApart
    DEF IInv, InHand, Asked, Final, AtRest, PauseHolds, Explain, TypeOK, books, Taking, Step, Is, hist, world
  <1>4. OnAccountOnly' /\ Stationed'
    BY HandsApart
    DEF IInv, OnAccountOnly, Stationed, Explain, TypeOK, books, Taking, Step, Is, hist, world, OnAccount
  <1>5. Alone' /\ LeftDown'
    BY HandsApart
    DEF IInv, Stationed, Alone, LeftDown, Calm, Reconnecting, Explain, TypeOK, books, Taking, Step, hist,
        world
  <1>6. HeldMeansDown'
    BY HandsApart
    DEF IInv, OnAccountOnly, Stationed, Alone, LeftDown, HeldMeansDown, Calm, Reconnecting,
        Explain, TypeOK, books, Taking, Step, Is, hist, world, OnAccount
  <1> QED
    BY <1>1, <1>2, <1>3, <1>4, <1>5, <1>6 DEF IInv

LEMMA SweepStep == ASSUME IInv, NEW h \in Hands, Sweep(h) PROVE IInv'
  <1>1. TypeOK'
    BY HandsApart, DeliveryAssumption
    DEF IInv, Sweep, TypeOK, books, Row, Place, Taking, Step, Is, hist, world, OnAccount, Held, QueuedHere
  <1>2. InHand' /\ Asked'
    BY HandsApart
    DEF IInv, InHand, Asked, Final, Sweep, TypeOK, books, Taking, Step, Is, hist, world, OnAccount, Held,
        QueuedHere
  <1>3. AtRest' /\ PauseHolds'
    BY HandsApart
    DEF IInv, InHand, Asked, Final, AtRest, PauseHolds, Sweep, TypeOK, books, Taking, Step, Is, hist, world,
        OnAccount, Held, QueuedHere
  <1>4. OnAccountOnly' /\ Stationed'
    BY HandsApart
    DEF IInv, OnAccountOnly, Stationed, Sweep, TypeOK, books, Taking, Step, Is, hist, world, OnAccount,
        Held, QueuedHere
  <1>5. Alone' /\ LeftDown'
    BY HandsApart
    DEF IInv, Stationed, Alone, LeftDown, Calm, Reconnecting, Sweep, TypeOK, books, Taking, Step, Is,
        hist, world, OnAccount, Held, QueuedHere
  <1>6. HeldMeansDown'
    BY HandsApart
    DEF IInv, OnAccountOnly, Stationed, Alone, LeftDown, HeldMeansDown, Calm, Reconnecting, Sweep,
        TypeOK, books, Taking, Step, Is, hist, world, OnAccount, Held, QueuedHere
  <1> QED
    BY <1>1, <1>2, <1>3, <1>4, <1>5, <1>6 DEF IInv

LEMMA HoldMineStep == ASSUME IInv, NEW m \in Msgs, HoldMine(m) PROVE IInv'
  <1>1. TypeOK'
    BY HandsApart, DeliveryAssumption
    DEF IInv, HoldMine, TypeOK, books, Row, Place, Taking, Step, Put, Is, hist, world
  <1>2. InHand' /\ Asked'
    BY HandsApart
    DEF IInv, InHand, Asked, Final, HoldMine, TypeOK, books, Taking, Step, Put, Is, hist, world
  <1>3. AtRest' /\ PauseHolds'
    BY HandsApart
    DEF IInv, InHand, Asked, Final, AtRest, PauseHolds, HoldMine, TypeOK, books, Taking, Step, Put, Is, hist,
        world
  <1>4. OnAccountOnly' /\ Stationed'
    BY HandsApart
    DEF IInv, OnAccountOnly, Stationed, HoldMine, TypeOK, books, Taking, Step, Put, Is, hist, world,
        OnAccount
  <1>5. Alone' /\ LeftDown'
    BY HandsApart
    DEF IInv, Stationed, Alone, LeftDown, Calm, Reconnecting, HoldMine, TypeOK, books, Taking, Step, Put,
        Is, hist, world
  <1>6. HeldMeansDown'
    BY HandsApart
    DEF IInv, OnAccountOnly, Stationed, Alone, LeftDown, HeldMeansDown, Calm, Reconnecting,
        HoldMine, TypeOK, books, Taking, Step, Put, Is, hist, world, OnAccount
  <1> QED
    BY <1>1, <1>2, <1>3, <1>4, <1>5, <1>6 DEF IInv

LEMMA ReconnectStep == ASSUME IInv, Reconnect PROVE IInv'
  <1>1. TypeOK'
    BY HandsApart, DeliveryAssumption
    DEF IInv, Reconnect, TypeOK, books, Row, Place, Taking, Step, docs, Fault, Crosses, AtWork
  <1>2. InHand' /\ Asked'
    BY HandsApart
    DEF IInv, InHand, Asked, Final, Reconnect, TypeOK, books, Taking, Step, docs, Fault, Crosses, AtWork
  <1>3. AtRest' /\ PauseHolds'
    BY HandsApart
    DEF IInv, InHand, Asked, Final, AtRest, PauseHolds, Reconnect, TypeOK, books, Taking, Step, Is, docs, Fault,
        Crosses, AtWork
  <1>4. OnAccountOnly' /\ Stationed'
    BY HandsApart
    DEF IInv, OnAccountOnly, Stationed, Reconnect, TypeOK, books, Taking, Step, Is, docs, OnAccount,
        Fault, Crosses, AtWork
  <1>5. Alone' /\ LeftDown'
    BY HandsApart
    DEF IInv, Stationed, Alone, LeftDown, Calm, Reconnecting, Reconnect, TypeOK, books, Taking, Step,
        docs, Fault, Crosses, AtWork
  <1>6. HeldMeansDown'
    BY HandsApart
    DEF IInv, OnAccountOnly, Stationed, Alone, LeftDown, HeldMeansDown, Calm, Reconnecting,
        Reconnect, TypeOK, books, Taking, Step, Is, docs, OnAccount, Fault, Crosses, AtWork
  <1> QED
    BY <1>1, <1>2, <1>3, <1>4, <1>5, <1>6 DEF IInv

LEMMA RepairStep == ASSUME IInv, Repair PROVE IInv'
  <1>1. TypeOK'
    BY HandsApart, DeliveryAssumption
    DEF IInv, Repair, TypeOK, books, Row, Place, Taking, Step, hist, world
  <1>2. InHand' /\ Asked'
    BY HandsApart
    DEF IInv, InHand, Asked, Final, Repair, TypeOK, books, Taking, Step, hist, world
  <1>3. AtRest' /\ PauseHolds'
    BY HandsApart
    DEF IInv, InHand, Asked, Final, AtRest, PauseHolds, Repair, TypeOK, books, Taking, Step, Is, hist, world
  <1>4. OnAccountOnly' /\ Stationed'
    BY HandsApart
    DEF IInv, OnAccountOnly, Stationed, Repair, TypeOK, books, Taking, Step, Is, hist, world, OnAccount
  <1>5. Alone' /\ LeftDown'
    BY HandsApart
    DEF IInv, Stationed, Alone, LeftDown, Calm, Reconnecting, Repair, TypeOK, books, Taking, Step, hist,
        world
  <1>6. HeldMeansDown'
    BY HandsApart
    DEF IInv, OnAccountOnly, Stationed, Alone, LeftDown, HeldMeansDown, Calm, Reconnecting,
        Repair, TypeOK, books, Taking, Step, Is, hist, world, OnAccount
  <1> QED
    BY <1>1, <1>2, <1>3, <1>4, <1>5, <1>6 DEF IInv

LEMMA ClearStep == ASSUME IInv, Clear PROVE IInv'
  <1>1. TypeOK'
    BY HandsApart, DeliveryAssumption
    DEF IInv, Clear, TypeOK, books, Row, Place, Taking, Step, hist, world
  <1>2. InHand' /\ Asked'
    BY HandsApart
    DEF IInv, InHand, Asked, Final, Clear, TypeOK, books, Taking, Step, hist, world
  <1>3. AtRest' /\ PauseHolds'
    BY HandsApart
    DEF IInv, InHand, Asked, Final, AtRest, PauseHolds, Clear, TypeOK, books, Taking, Step, Is, hist, world
  <1>4. OnAccountOnly' /\ Stationed'
    BY HandsApart
    DEF IInv, OnAccountOnly, Stationed, Clear, TypeOK, books, Taking, Step, Is, hist, world, OnAccount
  <1>5. Alone' /\ LeftDown'
    BY HandsApart
    DEF IInv, Stationed, Alone, LeftDown, Calm, Reconnecting, Clear, TypeOK, books, Taking, Step, hist,
        world
  <1>6. HeldMeansDown'
    BY HandsApart
    DEF IInv, OnAccountOnly, Stationed, Alone, LeftDown, HeldMeansDown, Calm, Reconnecting, Clear,
        TypeOK, books, Taking, Step, Is, hist, world, OnAccount
  <1> QED
    BY <1>1, <1>2, <1>3, <1>4, <1>5, <1>6 DEF IInv

LEMMA FreeStep == ASSUME IInv, Free PROVE IInv'
  <1>1. TypeOK'
    BY HandsApart, DeliveryAssumption
    DEF IInv, Free, TypeOK, books, Row, Place, Taking, Step, Is, hist, world, OnAccount, Queued, HeldHere
  <1>2. InHand' /\ Asked'
    BY HandsApart
    DEF IInv, InHand, Asked, Final, Free, TypeOK, books, Taking, Step, Is, hist, world, OnAccount, Queued,
        HeldHere
  <1>3. AtRest' /\ PauseHolds'
    BY HandsApart
    DEF IInv, InHand, Asked, Final, AtRest, PauseHolds, Free, TypeOK, books, Taking, Step, Is, hist, world,
        OnAccount, Queued, HeldHere
  <1>4. OnAccountOnly' /\ Stationed'
    BY HandsApart
    DEF IInv, OnAccountOnly, Stationed, Free, TypeOK, books, Taking, Step, Is, hist, world, OnAccount,
        Queued, HeldHere
  <1>5. Alone' /\ LeftDown'
    BY HandsApart
    DEF IInv, Stationed, Alone, LeftDown, Calm, Reconnecting, Free, TypeOK, books, Taking, Step, Is,
        hist, world, OnAccount, Queued, HeldHere
  <1>6. HeldMeansDown'
    BY HandsApart
    DEF IInv, OnAccountOnly, Stationed, Alone, LeftDown, HeldMeansDown, Calm, Reconnecting, Free,
        TypeOK, books, Taking, Step, Is, hist, world, OnAccount, Queued, HeldHere
  <1> QED
    BY <1>1, <1>2, <1>3, <1>4, <1>5, <1>6 DEF IInv

LEMMA PauseStep == ASSUME IInv, NEW g \in Campaigns, Pause(g) PROVE IInv'
  <1>1. TypeOK'
    BY HandsApart, DeliveryAssumption
    DEF IInv, Pause, TypeOK, books, Row, Place, Taking, Step, world, Fault
  <1>2. InHand' /\ Asked'
    BY HandsApart
    DEF IInv, InHand, Asked, Final, Pause, TypeOK, books, Taking, Step, world, Fault
  <1>3. AtRest' /\ PauseHolds'
    BY HandsApart
    DEF IInv, InHand, Asked, Final, AtRest, PauseHolds, Pause, TypeOK, books, Taking, Step, Is, world, Fault
  <1>4. OnAccountOnly' /\ Stationed'
    BY HandsApart
    DEF IInv, OnAccountOnly, Stationed, Pause, TypeOK, books, Taking, Step, Is, world, OnAccount, Fault
  <1>5. Alone' /\ LeftDown'
    BY HandsApart
    DEF IInv, Stationed, Alone, LeftDown, Calm, Reconnecting, Pause, TypeOK, books, Taking, Step, world,
        Fault
  <1>6. HeldMeansDown'
    BY HandsApart
    DEF IInv, OnAccountOnly, Stationed, Alone, LeftDown, HeldMeansDown, Calm, Reconnecting, Pause,
        TypeOK, books, Taking, Step, Is, world, OnAccount, Fault
  <1> QED
    BY <1>1, <1>2, <1>3, <1>4, <1>5, <1>6 DEF IInv

LEMMA PausedStep == ASSUME IInv, Paused PROVE IInv'
  <1>1. TypeOK'
    BY HandsApart, DeliveryAssumption
    DEF IInv, Paused, TypeOK, books, Row, Place, Taking, Step, Is, world, Held, QueuedOff
  <1>2. InHand' /\ Asked'
    BY HandsApart
    DEF IInv, InHand, Asked, Final, Paused, TypeOK, books, Taking, Step, Is, world, Held, QueuedOff
  <1>3. AtRest' /\ PauseHolds'
    BY HandsApart
    DEF IInv, InHand, Asked, Final, AtRest, PauseHolds, Paused, TypeOK, books, Taking, Step, Is, world, Held,
        QueuedOff
  <1>4. OnAccountOnly' /\ Stationed'
    BY HandsApart
    DEF IInv, OnAccountOnly, Stationed, Paused, TypeOK, books, Taking, Step, Is, world, OnAccount, Held,
        QueuedOff
  <1>5. Alone' /\ LeftDown'
    BY HandsApart
    DEF IInv, Stationed, Alone, LeftDown, Calm, Reconnecting, Paused, TypeOK, books, Taking, Step, Is,
        world, Held, QueuedOff
  <1>6. HeldMeansDown'
    BY HandsApart
    DEF IInv, OnAccountOnly, Stationed, Alone, LeftDown, HeldMeansDown, Calm, Reconnecting,
        Paused, TypeOK, books, Taking, Step, Is, world, OnAccount, Held, QueuedOff
  <1> QED
    BY <1>1, <1>2, <1>3, <1>4, <1>5, <1>6 DEF IInv

LEMMA ResumeStep == ASSUME IInv, NEW g \in Campaigns, Resume(g) PROVE IInv'
  <1>1. TypeOK'
    BY HandsApart, DeliveryAssumption
    DEF IInv, Resume, TypeOK, books, Row, Place, Taking, Step, hist, world
  <1>2. InHand' /\ Asked'
    BY HandsApart
    DEF IInv, InHand, Asked, Final, Resume, TypeOK, books, Taking, Step, hist, world
  <1>3. AtRest' /\ PauseHolds'
    BY HandsApart
    DEF IInv, InHand, Asked, Final, AtRest, PauseHolds, Resume, TypeOK, books, Taking, Step, Is, hist, world
  <1>4. OnAccountOnly' /\ Stationed'
    BY HandsApart
    DEF IInv, OnAccountOnly, Stationed, Resume, TypeOK, books, Taking, Step, Is, hist, world, OnAccount
  <1>5. Alone' /\ LeftDown'
    BY HandsApart
    DEF IInv, Stationed, Alone, LeftDown, Calm, Reconnecting, Resume, TypeOK, books, Taking, Step, hist,
        world
  <1>6. HeldMeansDown'
    BY HandsApart
    DEF IInv, OnAccountOnly, Stationed, Alone, LeftDown, HeldMeansDown, Calm, Reconnecting,
        Resume, TypeOK, books, Taking, Step, Is, hist, world, OnAccount
  <1> QED
    BY <1>1, <1>2, <1>3, <1>4, <1>5, <1>6 DEF IInv

LEMMA ResumedStep == ASSUME IInv, Resumed PROVE IInv'
  <1>1. TypeOK'
    BY HandsApart, DeliveryAssumption
    DEF IInv, Resumed, TypeOK, books, Row, Place, Taking, Step, Is, world, Queued
  <1>2. InHand' /\ Asked'
    BY HandsApart
    DEF IInv, InHand, Asked, Final, Resumed, TypeOK, books, Taking, Step, Is, world, Queued
  <1>3. AtRest' /\ PauseHolds'
    BY HandsApart
    DEF IInv, InHand, Asked, Final, AtRest, PauseHolds, Resumed, TypeOK, books, Taking, Step, Is, world, Queued
  <1>4. OnAccountOnly' /\ Stationed'
    BY HandsApart
    DEF IInv, OnAccountOnly, Stationed, Resumed, TypeOK, books, Taking, Step, Is, world, OnAccount, Queued
  <1>5. Alone' /\ LeftDown'
    BY HandsApart
    DEF IInv, Stationed, Alone, LeftDown, Calm, Reconnecting, Resumed, TypeOK, books, Taking, Step, Is,
        world, Queued
  <1>6. HeldMeansDown'
    BY HandsApart
    DEF IInv, OnAccountOnly, Stationed, Alone, LeftDown, HeldMeansDown, Calm, Reconnecting,
        Resumed, TypeOK, books, Taking, Step, Is, world, OnAccount, Queued
  <1> QED
    BY <1>1, <1>2, <1>3, <1>4, <1>5, <1>6 DEF IInv

LEMMA ListStep == ASSUME IInv, NEW c \in Checks, List(c) PROVE IInv'
  <1>1. TypeOK'
    BY HandsApart, DeliveryAssumption
    DEF IInv, List, TypeOK, books, Row, Place, Taking, world, docs, Fault, Turn, NoCheck, Answered, Pending
  <1>2. InHand' /\ Asked'
    BY HandsApart
    DEF IInv, InHand, Asked, Final, List, TypeOK, books, Taking, world, docs, Fault, Turn, NoCheck, Answered,
        Pending
  <1>3. AtRest' /\ PauseHolds'
    BY HandsApart
    DEF IInv, InHand, Asked, Final, AtRest, PauseHolds, List, TypeOK, books, Taking, Is, world, docs, Fault,
        Turn, NoCheck, Answered, Pending
  <1>4. OnAccountOnly' /\ Stationed'
    BY HandsApart
    DEF IInv, OnAccountOnly, Stationed, List, TypeOK, books, Taking, Is, world, docs, OnAccount, Fault,
        Turn, NoCheck, Answered, Pending
  <1>5. Alone' /\ LeftDown'
    BY HandsApart
    DEF IInv, Stationed, Alone, LeftDown, Calm, Reconnecting, List, TypeOK, books, Taking, world, docs,
        Fault, Turn, NoCheck, Answered, Pending
  <1>6. HeldMeansDown'
    BY HandsApart
    DEF IInv, OnAccountOnly, Stationed, Alone, LeftDown, HeldMeansDown, Calm, Reconnecting, List,
        TypeOK, books, Taking, Is, world, docs, OnAccount, Fault, Turn, NoCheck, Answered, Pending
  <1> QED
    BY <1>1, <1>2, <1>3, <1>4, <1>5, <1>6 DEF IInv

LEMMA ConfirmStep == ASSUME IInv, NEW c \in Checks, NEW m \in Msgs, Confirm(c, m) PROVE IInv'
  <1>1. TypeOK'
    BY HandsApart, DeliveryAssumption
    DEF IInv, Confirm, TypeOK, books, Row, Place, Taking, Put, Is, hist, world
  <1>2. InHand' /\ Asked'
    BY HandsApart
    DEF IInv, InHand, Asked, Final, Confirm, TypeOK, books, Taking, Put, Is, hist, world
  <1>3. AtRest' /\ PauseHolds'
    BY HandsApart
    DEF IInv, InHand, Asked, Final, AtRest, PauseHolds, Confirm, TypeOK, books, Taking, Put, Is, hist, world
  <1>4. OnAccountOnly' /\ Stationed'
    BY HandsApart
    DEF IInv, OnAccountOnly, Stationed, Confirm, TypeOK, books, Taking, Put, Is, hist, world, OnAccount
  <1>5. Alone' /\ LeftDown'
    BY HandsApart
    DEF IInv, Stationed, Alone, LeftDown, Calm, Reconnecting, Confirm, TypeOK, books, Taking, Put, Is,
        hist, world
  <1>6. HeldMeansDown'
    BY HandsApart
    DEF IInv, OnAccountOnly, Stationed, Alone, LeftDown, HeldMeansDown, Calm, Reconnecting,
        Confirm, TypeOK, books, Taking, Put, Is, hist, world, OnAccount
  <1> QED
    BY <1>1, <1>2, <1>3, <1>4, <1>5, <1>6 DEF IInv

LEMMA FailStep == ASSUME IInv, NEW c \in Checks, NEW m \in Msgs, Fail(c, m) PROVE IInv'
  <1>1. TypeOK'
    BY HandsApart, DeliveryAssumption
    DEF IInv, Fail, TypeOK, books, Row, Place, Taking, Put, Is, hist, world
  <1>2. InHand' /\ Asked'
    BY HandsApart
    DEF IInv, InHand, Asked, Final, Fail, TypeOK, books, Taking, Put, Is, hist, world
  <1>3. AtRest' /\ PauseHolds'
    BY HandsApart
    DEF IInv, InHand, Asked, Final, AtRest, PauseHolds, Fail, TypeOK, books, Taking, Put, Is, hist, world
  <1>4. OnAccountOnly' /\ Stationed'
    BY HandsApart
    DEF IInv, OnAccountOnly, Stationed, Fail, TypeOK, books, Taking, Put, Is, hist, world, OnAccount
  <1>5. Alone' /\ LeftDown'
    BY HandsApart
    DEF IInv, Stationed, Alone, LeftDown, Calm, Reconnecting, Fail, TypeOK, books, Taking, Put, Is, hist,
        world
  <1>6. HeldMeansDown'
    BY HandsApart
    DEF IInv, OnAccountOnly, Stationed, Alone, LeftDown, HeldMeansDown, Calm, Reconnecting, Fail,
        TypeOK, books, Taking, Put, Is, hist, world, OnAccount
  <1> QED
    BY <1>1, <1>2, <1>3, <1>4, <1>5, <1>6 DEF IInv

LEMMA RefundStep == ASSUME IInv, NEW c \in Checks, Refund(c) PROVE IInv'
  <1>1. TypeOK'
    BY HandsApart, DeliveryAssumption
    DEF IInv, Refund, TypeOK, books, Row, Place, Taking, hist, world
  <1>2. InHand' /\ Asked'
    BY HandsApart
    DEF IInv, InHand, Asked, Final, Refund, TypeOK, books, Taking, hist, world
  <1>3. AtRest' /\ PauseHolds'
    BY HandsApart
    DEF IInv, InHand, Asked, Final, AtRest, PauseHolds, Refund, TypeOK, books, Taking, Is, hist, world
  <1>4. OnAccountOnly' /\ Stationed'
    BY HandsApart
    DEF IInv, OnAccountOnly, Stationed, Refund, TypeOK, books, Taking, Is, hist, world, OnAccount
  <1>5. Alone' /\ LeftDown'
    BY HandsApart
    DEF IInv, Stationed, Alone, LeftDown, Calm, Reconnecting, Refund, TypeOK, books, Taking, hist, world
  <1>6. HeldMeansDown'
    BY HandsApart
    DEF IInv, OnAccountOnly, Stationed, Alone, LeftDown, HeldMeansDown, Calm, Reconnecting,
        Refund, TypeOK, books, Taking, Is, hist, world, OnAccount
  <1> QED
    BY <1>1, <1>2, <1>3, <1>4, <1>5, <1>6 DEF IInv

LEMMA RunDiesStep == ASSUME IInv, RunDies PROVE IInv'
  <1>1. TypeOK'
    <2>1. run' \in [todo : SUBSET Msgs, room : Int]
      BY DEF RunDies
    <2>2. at' \in [Hands -> Place] /\ found' \in [Hands -> BOOLEAN]
      BY DEF IInv, TypeOK, RunDies, Place
    <2>3. torn' \in BOOLEAN /\ missed' \subseteq Msgs /\ faults' \subseteq Events
      BY DEF IInv, TypeOK, RunDies, Fault
    <2> QED
      BY <2>1, <2>2, <2>3 DEF IInv, TypeOK, RunDies, docs, world
  <1>2. InHand' /\ Asked'
    BY HandsApart
    DEF IInv, InHand, Asked, Final, RunDies, TypeOK, books, Taking, world, docs, Fault
  <1>3. AtRest' /\ PauseHolds'
    BY HandsApart
    DEF IInv, InHand, Asked, Final, AtRest, PauseHolds, RunDies, TypeOK, books, Taking, Is, world, docs, Fault
  <1>4. OnAccountOnly' /\ Stationed'
    BY HandsApart
    DEF IInv, OnAccountOnly, Stationed, RunDies, TypeOK, books, Taking, Is, world, docs, OnAccount, Fault
  <1>5. Alone' /\ LeftDown'
    BY HandsApart
    DEF IInv, Stationed, Alone, LeftDown, Calm, Reconnecting, RunDies, TypeOK, books, Taking, world,
        docs, Fault
  <1>6. HeldMeansDown'
    BY HandsApart
    DEF IInv, OnAccountOnly, Stationed, Alone, LeftDown, HeldMeansDown, Calm, Reconnecting,
        RunDies, TypeOK, books, Taking, Is, world, docs, OnAccount, Fault
  <1> QED
    BY <1>1, <1>2, <1>3, <1>4, <1>5, <1>6 DEF IInv

LEMMA PollDiesStep == ASSUME IInv, PollDies PROVE IInv'
  <1>1. TypeOK'
    BY HandsApart, DeliveryAssumption
    DEF IInv, PollDies, TypeOK, books, Row, Place, Taking, Step, world, docs, Fault
  <1>2. InHand' /\ Asked'
    BY HandsApart
    DEF IInv, InHand, Asked, Final, PollDies, TypeOK, books, Taking, Step, world, docs, Fault
  <1>3. AtRest' /\ PauseHolds'
    BY HandsApart
    DEF IInv, InHand, Asked, Final, AtRest, PauseHolds, PollDies, TypeOK, books, Taking, Step, Is, world, docs,
        Fault
  <1>4. OnAccountOnly' /\ Stationed'
    BY HandsApart
    DEF IInv, OnAccountOnly, Stationed, PollDies, TypeOK, books, Taking, Step, Is, world, docs,
        OnAccount, Fault
  <1>5. Alone' /\ LeftDown'
    BY HandsApart
    DEF IInv, Stationed, Alone, LeftDown, Calm, Reconnecting, PollDies, TypeOK, books, Taking, Step,
        world, docs, Fault
  <1>6. HeldMeansDown'
    BY HandsApart
    DEF IInv, OnAccountOnly, Stationed, Alone, LeftDown, HeldMeansDown, Calm, Reconnecting,
        PollDies, TypeOK, books, Taking, Step, Is, world, docs, OnAccount, Fault
  <1> QED
    BY <1>1, <1>2, <1>3, <1>4, <1>5, <1>6 DEF IInv

LEMMA CheckDiesStep == ASSUME IInv, NEW c \in Checks, CheckDies(c) PROVE IInv'
  <1>1. TypeOK'
    BY HandsApart, DeliveryAssumption
    DEF IInv, CheckDies, TypeOK, books, Row, Place, Taking, world, docs, Fault, NoCheck
  <1>2. InHand' /\ Asked'
    BY HandsApart
    DEF IInv, InHand, Asked, Final, CheckDies, TypeOK, books, Taking, world, docs, Fault, NoCheck
  <1>3. AtRest' /\ PauseHolds'
    BY HandsApart
    DEF IInv, InHand, Asked, Final, AtRest, PauseHolds, CheckDies, TypeOK, books, Taking, Is, world, docs,
        Fault, NoCheck
  <1>4. OnAccountOnly' /\ Stationed'
    BY HandsApart
    DEF IInv, OnAccountOnly, Stationed, CheckDies, TypeOK, books, Taking, Is, world, docs, OnAccount,
        Fault, NoCheck
  <1>5. Alone' /\ LeftDown'
    BY HandsApart
    DEF IInv, Stationed, Alone, LeftDown, Calm, Reconnecting, CheckDies, TypeOK, books, Taking, world,
        docs, Fault, NoCheck
  <1>6. HeldMeansDown'
    BY HandsApart
    DEF IInv, OnAccountOnly, Stationed, Alone, LeftDown, HeldMeansDown, Calm, Reconnecting,
        CheckDies, TypeOK, books, Taking, Is, world, docs, OnAccount, Fault, NoCheck
  <1> QED
    BY <1>1, <1>2, <1>3, <1>4, <1>5, <1>6 DEF IInv

-----------------------------------------------------------------------------
(* The campaign's books.                                                   *)

\* What is being counted, or was missed, has been to the provider, and is one
\* or the other.
Booked ==
    \A m \in Msgs :
        /\ at[m] = "count" \/ m \in missed => row[m].status \in Final
        /\ ~(at[m] = "count" /\ m \in missed)

\* A message in a list is on the books, or another reconciliation settled it
\* meanwhile.
Asking(c) ==
    \A m \in check[c].todo :
        \/ row[m].status = "dispatched"
        \/ row[m].status = "sent" /\ fate[m] = "landed"
        \/ row[m].status = "failed" /\ m \in twice

\* A reconciliation owes for one message at a time, that it failed.
OneOwed(c) ==
    /\ check[c].owes = {} \/ \E m \in Msgs : check[c].owes = {m}
    /\ \A m \in check[c].owes : row[m].status = "failed"

\* What is listed twice, or not given back, has been to the provider.
Settling ==
    /\ \A m \in twice : row[m].status \in Final
    /\ \A m \in kept : row[m].status = "failed"

\* Only messages that were listed twice are in two lists, or in one when a
\* reconciliation that had them died.
Apart ==
    \A c \in Checks : \A m \in Listed(c) :
        /\ m \in kept => m \in twice
        /\ \A o \in Checks : m \in Listed(o) /\ o # c => m \in twice

\* Only what the provider lost has failed.
Lost == \A m \in Msgs : row[m].status = "failed" => fate[m] = "lost"

\* A touch is given back after its message has left the books.
Even(g) == spent[g] + Cardinality(Uncounted(g)) = Cardinality(Landed(g)) + Cardinality(Unreturned(g))
Balanced(g) == Once(g) => Even(g)
Balance == \A g \in Campaigns : Balanced(g)

Orders == Booked /\ (\A c \in Checks : Asking(c) /\ OneOwed(c)) /\ Settling /\ Apart /\ Lost
Books == Orders /\ Balance

LEMMA Finite ==
  ASSUME NEW g
  PROVE  /\ IsFiniteSet(Uncounted(g)) /\ IsFiniteSet(Landed(g)) /\ IsFiniteSet(Unreturned(g))
         /\ Cardinality(Uncounted(g)) \in Nat /\ Cardinality(Landed(g)) \in Nat
         /\ Cardinality(Unreturned(g)) \in Nat
  <1>1. Uncounted(g) \subseteq Msgs /\ Landed(g) \subseteq Msgs /\ Unreturned(g) \subseteq Msgs
    BY DEF Uncounted, Landed, Unreturned
  <1>2. IsFiniteSet(Uncounted(g)) /\ IsFiniteSet(Landed(g)) /\ IsFiniteSet(Unreturned(g))
    BY <1>1, DeliveryAssumption, FS_Subset
  <1> QED
    BY <1>2, FS_CardinalityType

\* What a step that touches no book leaves as it was.
Kept ==
    /\ spent' = spent /\ check' = check /\ fate' = fate /\ twice' = twice /\ kept' = kept
    /\ \A m \in Msgs :
        /\ row[m].status \in Final \/ row'[m].status \in Final => row'[m].status = row[m].status
        /\ at'[m] = "count" \/ m \in missed' <=> at[m] = "count" \/ m \in missed
        /\ at'[m] = "count" /\ m \in missed' => at[m] = "count" /\ m \in missed

LEMMA KeptBooks == ASSUME IInv, Books, Kept PROVE Books'
  <1>1. Booked' /\ Settling' /\ Apart' /\ Lost'
    BY DeliveryAssumption DEF IInv, TypeOK, Books, Orders, Booked, Settling, Apart, Lost, Kept, Final, Listed
  <1>2. \A c \in Checks : Asking(c)' /\ OneOwed(c)'
    BY DEF IInv, TypeOK, Books, Orders, Asking, OneOwed, Kept, Final
  <1>3. \A g \in Campaigns :
          /\ Uncounted(g)' = Uncounted(g) /\ Landed(g)' = Landed(g)
          /\ Unreturned(g)' = Unreturned(g) /\ Once(g)' = Once(g)
    BY DEF Uncounted, Landed, Unreturned, Once, Kept, Final
  <1>4. Balance'
    BY <1>3 DEF Books, Balance, Balanced, Even, Kept
  <1> QED
    BY <1>1, <1>2, <1>4 DEF Books, Orders

LEMMA SessionEndsKeeps == ASSUME IInv, SessionEnds PROVE Kept
  BY HandsApart
  DEF Kept, books, Final, IInv, InHand, Asked, SessionEnds, TypeOK, Taking, work, docs, Fault

LEMMA StartKeeps == ASSUME IInv, Start PROVE Kept
  BY HandsApart
  DEF Kept, books, Final, IInv, InHand, Asked, Start, TypeOK, Taking, world, docs, Fault, Turn, Due

LEMMA ClaimKeeps == ASSUME IInv, NEW m \in Msgs, Claim(m) PROVE Kept
  BY HandsApart
  DEF Kept, books, Final, IInv, InHand, Asked, Claim, TypeOK, Taking, Step, Put, Is, hist, world, Due

LEMMA LookKeeps == ASSUME IInv, NEW m \in Msgs, Look(m) PROVE Kept
  BY HandsApart
  DEF Kept, books, Final, IInv, InHand, Asked, Look, TypeOK, Taking, Step, world, docs, OnAccount, Fault,
      Crosses, Blocked

LEMMA DecideKeeps == ASSUME IInv, NEW m \in Msgs, Decide(m) PROVE Kept
  BY HandsApart
  DEF Kept, books, Final, IInv, InHand, Asked, Decide, TypeOK, Taking, Step, Is, hist, world, Outcome

LEMMA WindowFullKeeps == ASSUME IInv, NEW m \in Msgs, WindowFull(m) PROVE Kept
  BY HandsApart
  DEF Kept, books, Final, IInv, InHand, Asked, WindowFull, TypeOK, Taking, Step, Put, Is, hist, world, OnAccount

LEMMA LaunchKeeps == ASSUME IInv, NEW m \in Msgs, Launch(m) PROVE Kept
  BY HandsApart
  DEF Kept, books, Final, IInv, InHand, Asked, Launch, TypeOK, Taking, Step, hist, world, docs, OnAccount

LEMMA ThrottledKeeps == ASSUME IInv, NEW m \in Msgs, Throttled(m) PROVE Kept
  BY HandsApart
  DEF Kept, books, Final, IInv, InHand, Asked, Throttled, TypeOK, Taking, Step, Put, Is, world, OnAccount, Fault

LEMMA BouncedKeeps == ASSUME IInv, NEW m \in Msgs, Bounced(m) PROVE Kept
  BY HandsApart
  DEF Kept, books, Final, IInv, InHand, Asked, Bounced, TypeOK, Taking, Step, Put, Is, hist, world, OnAccount

LEMMA PollBouncedKeeps == ASSUME IInv, PollBounced PROVE Kept
  BY HandsApart
  DEF Kept, books, Final, IInv, InHand, Asked, PollBounced, TypeOK, Taking, Step, world, docs, Fault, Turn

LEMMA DegradeKeeps == ASSUME IInv, NEW h \in Hands, Degrade(h) PROVE Kept
  BY HandsApart
  DEF Kept, books, Final, IInv, InHand, Asked, Degrade, TypeOK, Taking, Step, hist, world

LEMMA JudgeKeeps == ASSUME IInv, NEW h \in Hands, Judge(h) PROVE Kept
  BY HandsApart
  DEF Kept, books, Final, IInv, InHand, Asked, Judge, TypeOK, Taking, Step, hist, world, docs

LEMMA MarkKeeps == ASSUME IInv, NEW h \in Hands, Mark(h) PROVE Kept
  BY HandsApart
  DEF Kept, books, Final, IInv, InHand, Asked, Mark, TypeOK, Taking, Step, hist, world

LEMMA ExplainKeeps == ASSUME IInv, NEW h \in Hands, Explain(h) PROVE Kept
  BY HandsApart
  DEF Kept, books, Final, IInv, InHand, Asked, Explain, TypeOK, Taking, Step, hist, world

LEMMA SweepKeeps == ASSUME IInv, NEW h \in Hands, Sweep(h) PROVE Kept
  BY HandsApart
  DEF Kept, books, Final, IInv, InHand, Asked, Sweep, TypeOK, Taking, Step, Is, hist, world, OnAccount, Held,
      QueuedHere

LEMMA HoldMineKeeps == ASSUME IInv, NEW m \in Msgs, HoldMine(m) PROVE Kept
  BY HandsApart
  DEF Kept, books, Final, IInv, InHand, Asked, HoldMine, TypeOK, Taking, Step, Put, Is, hist, world

LEMMA ReconnectKeeps == ASSUME IInv, Reconnect PROVE Kept
  BY HandsApart
  DEF Kept, books, Final, IInv, InHand, Asked, Reconnect, TypeOK, Taking, Step, docs, Fault, Crosses, AtWork

LEMMA RepairKeeps == ASSUME IInv, Repair PROVE Kept
  BY HandsApart
  DEF Kept, books, Final, IInv, InHand, Asked, Repair, TypeOK, Taking, Step, hist, world

LEMMA ClearKeeps == ASSUME IInv, Clear PROVE Kept
  BY HandsApart
  DEF Kept, books, Final, IInv, InHand, Asked, Clear, TypeOK, Taking, Step, hist, world

LEMMA FreeKeeps == ASSUME IInv, Free PROVE Kept
  BY HandsApart
  DEF Kept, books, Final, IInv, InHand, Asked, Free, TypeOK, Taking, Step, Is, hist, world, OnAccount, Queued,
      HeldHere

LEMMA PauseKeeps == ASSUME IInv, NEW g \in Campaigns, Pause(g) PROVE Kept
  BY HandsApart
  DEF Kept, books, Final, IInv, InHand, Asked, Pause, TypeOK, Taking, Step, world, Fault

LEMMA PausedKeeps == ASSUME IInv, Paused PROVE Kept
  BY HandsApart
  DEF Kept, books, Final, IInv, InHand, Asked, Paused, TypeOK, Taking, Step, Is, world, Held, QueuedOff

LEMMA ResumeKeeps == ASSUME IInv, NEW g \in Campaigns, Resume(g) PROVE Kept
  BY HandsApart
  DEF Kept, books, Final, IInv, InHand, Asked, Resume, TypeOK, Taking, Step, hist, world

LEMMA ResumedKeeps == ASSUME IInv, Resumed PROVE Kept
  BY HandsApart
  DEF Kept, books, Final, IInv, InHand, Asked, Resumed, TypeOK, Taking, Step, Is, world, Queued

LEMMA PollDiesKeeps == ASSUME IInv, PollDies PROVE Kept
  BY HandsApart
  DEF Kept, books, Final, IInv, InHand, Asked, PollDies, TypeOK, Taking, Step, world, docs, Fault

\* A run that dies leaves what it had to count missed.
LEMMA RunDiesKeeps == ASSUME IInv, RunDies PROVE Kept
  BY HandsApart DEF Kept, books, Final, IInv, TypeOK, RunDies, docs, world

\* A message being sent is in no book yet.
LEMMA TakenBooks == ASSUME IInv, Books, NEW m \in Msgs, Taken(m) PROVE Books'
  <1> DEFINE g == CampaignOf[m]
  <1>1. /\ row[m].status = "sending" /\ at[m] = "calling" /\ m \notin missed /\ g \in Campaigns
        /\ m \notin twice /\ m \notin kept /\ \A c \in Checks : m \notin Listed(c)
    BY DeliveryAssumption
    DEF Taken, IInv, InHand, Asked, Books, Orders, Booked, Settling, OneOwed, Final, Listed
  <1>2. /\ row'[m].status \in {"dispatched", "sent"} /\ at'[m] = "count"
        /\ \A o \in Msgs \ {m} : row'[o] = row[o] /\ at'[o] = at[o] /\ fate'[o] = fate[o]
        /\ missed' = missed /\ twice' = twice /\ kept' = kept /\ check' = check /\ spent' = spent
    BY HandsApart DEF Taken, Step, Put, Is, hist, books, IInv, TypeOK
  <1>3. Booked' /\ Settling' /\ Apart' /\ Lost'
    <2>1. Booked' /\ Settling' /\ Lost'
      BY <1>1, <1>2 DEF Books, Orders, Booked, Settling, Lost, Final, IInv, TypeOK
    <2>2. Apart'
      BY <1>2 DEF Books, Orders, Apart, Listed
    <2> QED
      BY <2>1, <2>2
  <1>4. \A c \in Checks : Asking(c)' /\ OneOwed(c)'
    <2> SUFFICES ASSUME NEW c \in Checks PROVE Asking(c)' /\ OneOwed(c)'
      OBVIOUS
    <2>1. check[c].todo \subseteq Msgs \ {m} /\ check[c].owes \subseteq Msgs \ {m} /\ check'[c] = check[c]
      BY <1>1, <1>2 DEF Listed, IInv, TypeOK
    <2>2. Asking(c) /\ OneOwed(c)
      BY DEF Books, Orders
    <2>3. Asking(c)'
      BY <1>2, <2>1, <2>2 DEF Asking
    <2>4. OneOwed(c)'
      BY <1>2, <2>1, <2>2 DEF OneOwed
    <2> QED
      BY <2>3, <2>4
  <1>5. \A o \in Campaigns :
          /\ Once(o)' = Once(o) /\ Unreturned(o)' = Unreturned(o)
          /\ o # g => Uncounted(o)' = Uncounted(o) /\ Landed(o)' = Landed(o)
    BY <1>1, <1>2 DEF Once, Unreturned, Uncounted, Landed, IInv, TypeOK
  <1>6. /\ Uncounted(g)' = Uncounted(g) \cup {m} /\ m \notin Uncounted(g)
        /\ Landed(g)' = Landed(g) \cup {m} /\ m \notin Landed(g)
    BY <1>1, <1>2 DEF Uncounted, Landed
  <1>7. /\ Cardinality(Uncounted(g)') = Cardinality(Uncounted(g)) + 1
        /\ Cardinality(Landed(g)') = Cardinality(Landed(g)) + 1
    BY <1>6, Finite, FS_AddElement
  <1> HIDE DEF g
  <1>8. Balance'
    <2> SUFFICES ASSUME NEW o \in Campaigns, Once(o)' PROVE Even(o)'
      BY DEF Balance, Balanced
    <2>1. spent[o] \in Int /\ Even(o)
      BY <1>5 DEF IInv, TypeOK, Books, Balance, Balanced
    <2>2. CASE o = g
      <3>1. /\ Cardinality(Uncounted(g)) \in Nat /\ Cardinality(Landed(g)) \in Nat
            /\ Cardinality(Unreturned(g)) \in Nat
        BY Finite
      <3>2. spent[g] + (Cardinality(Uncounted(g)) + 1) = (Cardinality(Landed(g)) + 1) + Cardinality(Unreturned(g))
        BY <2>1, <2>2, <3>1 DEF Even
      <3> QED
        BY <1>1, <1>2, <1>5, <1>7, <2>2, <3>2 DEF Even
    <2>3. CASE o # g
      BY <1>2, <1>5, <2>1, <2>3 DEF Even
    <2> QED
      BY <2>2, <2>3
  <1> QED
    BY <1>3, <1>4, <1>8 DEF Books, Orders

LEMMA CountBooks == ASSUME IInv, Books, NEW m \in Msgs, Count(m) PROVE Books'
  <1> DEFINE g == CampaignOf[m]
  <1>1. /\ at[m] = "count" /\ g \in Campaigns /\ spent'[g] = spent[g] + 1 /\ m \notin missed
        /\ \A o \in Campaigns \ {g} : spent'[o] = spent[o]
    BY DeliveryAssumption DEF Count, IInv, TypeOK, Books, Orders, Booked
  <1>2. /\ row' = row /\ at'[m] = "rest" /\ missed' = missed /\ twice' = twice /\ kept' = kept
        /\ check' = check /\ fate' = fate /\ \A o \in Msgs \ {m} : at'[o] = at[o]
    BY HandsApart DEF Count, Step, hist, books, world, IInv, TypeOK
  <1>3. Booked' /\ Settling' /\ Apart' /\ Lost'
    BY <1>2 DEF Books, Orders, Booked, Settling, Apart, Lost, Listed
  <1>4. \A c \in Checks : Asking(c)' /\ OneOwed(c)'
    BY <1>2 DEF Books, Orders, Asking, OneOwed
  <1>5. \A o \in Campaigns :
          /\ Once(o)' = Once(o) /\ Unreturned(o)' = Unreturned(o) /\ Landed(o)' = Landed(o)
          /\ o # g => Uncounted(o)' = Uncounted(o)
    BY <1>2 DEF Once, Unreturned, Uncounted, Landed
  <1>6. Uncounted(g)' = Uncounted(g) \ {m} /\ m \in Uncounted(g)
    BY <1>1, <1>2 DEF Uncounted
  <1>7. Cardinality(Uncounted(g)') = Cardinality(Uncounted(g)) - 1
    BY <1>6, Finite, FS_RemoveElement
  <1> HIDE DEF g
  <1>8. Balance'
    <2> SUFFICES ASSUME NEW o \in Campaigns, Once(o)' PROVE Even(o)'
      BY DEF Balance, Balanced
    <2>1. spent[o] \in Int /\ Even(o)
      BY <1>5 DEF IInv, TypeOK, Books, Balance, Balanced
    <2>2. CASE o = g
      <3>1. /\ Cardinality(Uncounted(g)) \in Nat /\ Cardinality(Landed(g)) \in Nat
            /\ Cardinality(Unreturned(g)) \in Nat
        BY Finite
      <3>2. (spent[g] + 1) + (Cardinality(Uncounted(g)) - 1) = Cardinality(Landed(g)) + Cardinality(Unreturned(g))
        BY <2>1, <2>2, <3>1 DEF Even
      <3> QED
        BY <1>1, <1>2, <1>5, <1>7, <2>2, <3>2 DEF Even
    <2>3. CASE o # g
      BY <1>1, <1>2, <1>5, <2>1, <2>3 DEF Even
    <2> QED
      BY <2>2, <2>3
  <1> QED
    BY <1>3, <1>4, <1>8 DEF Books, Orders

\* What is listed while another has it listed is listed twice.
LEMMA ListBooks == ASSUME IInv, Books, NEW c \in Checks, List(c) PROVE Books'
  <1>1. /\ row' = row /\ at' = at /\ missed' = missed /\ kept' = kept /\ fate' = fate /\ spent' = spent
        /\ check[c].owes = {} /\ check'[c].todo = Answered /\ check'[c].owes = {}
        /\ \A o \in Checks \ {c} : check'[o] = check[o]
        /\ \A o \in Checks : check'[o].owes = check[o].owes
        /\ twice' = twice \cup {m \in Answered : \E o \in Checks : m \in Listed(o)}
    <2>1. /\ check' = [check EXCEPT ![c].todo = Answered]
          /\ check \in [Checks -> [todo : SUBSET Msgs, owes : SUBSET Msgs]]
      BY DEF List, IInv, TypeOK
    <2>2. check[c].owes = {}
      BY DEF List, NoCheck
    <2>3. /\ check'[c].todo = Answered /\ check'[c].owes = {}
          /\ \A o \in Checks \ {c} : check'[o] = check[o]
      BY <2>1, <2>2
    <2>4. \A o \in Checks : check'[o].owes = check[o].owes
      BY <2>2, <2>3
    <2> QED
      BY <2>2, <2>3, <2>4 DEF List, docs, world
  <1>2. /\ Answered \subseteq Msgs /\ twice \subseteq twice'
        /\ \A m \in Answered : row[m].status = "dispatched"
    BY <1>1 DEF Answered, Pending
  <1>3. Listed(c)' = Answered /\ \A o \in Checks \ {c} : Listed(o)' = Listed(o)
    BY <1>1 DEF Listed
  <1>4. Booked' /\ Settling' /\ Lost'
    BY <1>1, <1>2 DEF Books, Orders, Booked, Settling, Lost, Final
  <1>5. \A o \in Checks : Asking(o)' /\ OneOwed(o)'
    BY <1>1, <1>2 DEF Books, Orders, Asking, OneOwed
  <1>6. Apart'
    <2> SUFFICES ASSUME NEW a \in Checks, NEW m \in Listed(a)'
                 PROVE  /\ m \in kept' => m \in twice'
                        /\ \A o \in Checks : m \in Listed(o)' /\ o # a => m \in twice'
      BY DEF Apart
    <2>1. CASE a = c
      <3>1. m \in Answered /\ m \notin kept'
        BY <1>1, <1>2, <1>3, <2>1 DEF Books, Orders, Settling
      <3> QED
        BY <1>1, <1>3, <2>1, <3>1
    <2>2. CASE a # c
      <3>1. m \in Listed(a) /\ (m \in kept => m \in twice)
        BY <1>3, <2>2 DEF Books, Orders, Apart
      <3>2. \A o \in Checks : m \in Listed(o)' /\ o # a => m \in twice'
        BY <1>1, <1>2, <1>3, <2>2, <3>1 DEF Books, Orders, Apart
      <3> QED
        BY <1>1, <1>2, <3>1, <3>2
    <2> QED
      BY <2>1, <2>2
  <1>7. \A g \in Campaigns :
          /\ Once(g)' => Once(g) /\ Uncounted(g)' = Uncounted(g)
          /\ Unreturned(g)' = Unreturned(g) /\ Landed(g)' = Landed(g)
    BY <1>1, <1>2 DEF Once, Uncounted, Unreturned, Landed
  <1>8. Balance'
    BY <1>1, <1>7 DEF Books, Balance, Balanced, Even
  <1> QED
    BY <1>4, <1>5, <1>6, <1>8 DEF Books, Orders

LEMMA ConfirmBooks == ASSUME IInv, Books, NEW c \in Checks, NEW m \in Msgs, Confirm(c, m) PROVE Books'
  <1>1. /\ row'[m].status = "sent" /\ fate[m] = "landed" /\ row[m].status \in {"dispatched", "sent"}
        /\ \A o \in Msgs \ {m} : row'[o] = row[o]
    BY DEF Confirm, Put, Is, IInv, TypeOK, Asked, Final, Books, Orders, Lost
  <1>2. /\ at' = at /\ missed' = missed /\ twice' = twice /\ kept' = kept /\ fate' = fate /\ spent' = spent
        /\ \A o \in Checks : check'[o].owes = check[o].owes /\ check'[o].todo \subseteq check[o].todo
    BY DEF Confirm, hist, books, world, IInv, TypeOK
  <1>3. \A o \in Checks : Listed(o)' \subseteq Listed(o)
    BY <1>2 DEF Listed
  <1>4. Booked' /\ Settling' /\ Lost'
    BY <1>1, <1>2 DEF Books, Orders, Booked, Settling, Lost, Final, IInv, TypeOK
  <1>5. Apart'
    BY <1>2, <1>3 DEF Books, Orders, Apart
  <1>6. \A o \in Checks : Asking(o)' /\ OneOwed(o)'
    BY <1>1, <1>2 DEF Books, Orders, Asking, OneOwed, IInv, TypeOK
  <1>7. \A g \in Campaigns :
          /\ Once(g)' = Once(g) /\ Uncounted(g)' = Uncounted(g)
          /\ Unreturned(g)' = Unreturned(g) /\ Landed(g)' = Landed(g)
    BY <1>1, <1>2 DEF Once, Uncounted, Unreturned, Landed
  <1>8. Balance'
    BY <1>2, <1>7 DEF Books, Balance, Balanced, Even
  <1> QED
    BY <1>4, <1>5, <1>6, <1>8 DEF Books, Orders

LEMMA FailBooks == ASSUME IInv, Books, NEW c \in Checks, NEW m \in Msgs, Fail(c, m) PROVE Books'
  <1> DEFINE g == CampaignOf[m]
  <1>1. /\ m \in check[c].todo /\ check[c].owes = {} /\ fate[m] = "lost" /\ g \in Campaigns
        /\ row[m].status = "dispatched" \/ (row[m].status = "failed" /\ m \in twice)
    BY DeliveryAssumption DEF Fail, Books, Orders, Asking
  <1>2. /\ row'[m].status = "failed" /\ \A o \in Msgs \ {m} : row'[o] = row[o]
        /\ at' = at /\ missed' = missed /\ twice' = twice /\ kept' = kept /\ fate' = fate /\ spent' = spent
        /\ check'[c].owes = {m} /\ check'[c].todo = check[c].todo \ {m}
        /\ \A o \in Checks \ {c} : check'[o] = check[o]
    BY DEF Fail, Put, Is, hist, books, world, IInv, TypeOK
  <1>3. Listed(c)' = Listed(c) /\ \A o \in Checks \ {c} : Listed(o)' = Listed(o)
    BY <1>1, <1>2 DEF Listed
  <1>4. Booked' /\ Settling' /\ Lost'
    BY <1>1, <1>2 DEF Books, Orders, Booked, Settling, Lost, Final, IInv, TypeOK
  <1>5. Apart'
    BY <1>2, <1>3 DEF Books, Orders, Apart
  <1>6. \A o \in Checks : Asking(o)' /\ OneOwed(o)'
    <2> SUFFICES ASSUME NEW o \in Checks PROVE Asking(o)' /\ OneOwed(o)'
      OBVIOUS
    <2>1. CASE o = c
      BY <1>1, <1>2, <2>1 DEF Books, Orders, Asking, OneOwed, IInv, TypeOK
    <2>2. CASE o # c
      <3>1. m \in check[o].todo => m \in twice
        BY <1>1, <2>2 DEF Books, Orders, Apart, Listed
      <3>2. check'[o] = check[o] /\ check[o].todo \subseteq Msgs /\ Asking(o) /\ OneOwed(o)
        BY <1>2, <2>2 DEF IInv, TypeOK, Books, Orders
      <3>3. Asking(o)'
        BY <1>2, <3>1, <3>2 DEF Asking
      <3>4. OneOwed(o)'
        BY <1>2, <3>2 DEF OneOwed, IInv, TypeOK
      <3> QED
        BY <3>3, <3>4
    <2> QED
      BY <2>1, <2>2
  <1>7. \A o \in Campaigns :
          /\ Once(o)' = Once(o) /\ Uncounted(o)' = Uncounted(o)
          /\ o # g => Unreturned(o)' = Unreturned(o) /\ Landed(o)' = Landed(o)
    BY <1>1, <1>2 DEF Once, Uncounted, Unreturned, Landed
  <1>8. ASSUME Once(g)
        PROVE  /\ Landed(g)' = Landed(g) \ {m} /\ m \in Landed(g)
               /\ Unreturned(g)' = Unreturned(g) \cup {m} /\ m \notin Unreturned(g)
    <2>1. m \notin twice /\ row[m].status = "dispatched"
      BY <1>1, <1>8 DEF Once
    <2>2. m \notin Unreturned(g)
      BY <2>1 DEF Unreturned, Books, Orders, Settling, OneOwed
    <2>3. Unreturned(g)' = Unreturned(g) \cup {m}
      BY <1>1, <1>2 DEF Unreturned
    <2>4. Landed(g)' = Landed(g) \ {m} /\ m \in Landed(g)
      BY <1>2, <2>1 DEF Landed
    <2> QED
      BY <2>2, <2>3, <2>4
  <1>9. Balance'
    <2> SUFFICES ASSUME NEW o \in Campaigns, Once(o)' PROVE Even(o)'
      BY DEF Balance, Balanced
    <2>1. spent[o] \in Int /\ Even(o) /\ Once(o)
      BY <1>7 DEF IInv, TypeOK, Books, Balance, Balanced
    <2>2. CASE o = g
      <3> HIDE DEF g
      <3>1. /\ Cardinality(Uncounted(g)) \in Nat /\ Cardinality(Landed(g)) \in Nat
            /\ Cardinality(Unreturned(g)) \in Nat
        BY Finite
      <3>2. /\ Cardinality(Landed(g)') = Cardinality(Landed(g)) - 1
            /\ Cardinality(Unreturned(g)') = Cardinality(Unreturned(g)) + 1
        <4>1. /\ Landed(g)' = Landed(g) \ {m} /\ m \in Landed(g)
              /\ Unreturned(g)' = Unreturned(g) \cup {m} /\ m \notin Unreturned(g)
          BY <1>8, <2>1, <2>2
        <4>2. Cardinality(Landed(g)') = Cardinality(Landed(g)) - 1
          BY <4>1, Finite, FS_RemoveElement
        <4>3. Cardinality(Unreturned(g)') = Cardinality(Unreturned(g)) + 1
          BY <4>1, Finite, FS_AddElement
        <4> QED
          BY <4>2, <4>3
      <3>3. spent[g] + Cardinality(Uncounted(g)) = (Cardinality(Landed(g)) - 1) + (Cardinality(Unreturned(g)) + 1)
        BY <2>1, <2>2, <3>1 DEF Even
      <3> QED
        BY <1>1, <1>2, <1>7, <2>2, <3>2, <3>3 DEF Even
    <2>3. CASE o # g
      BY <1>2, <1>7, <2>1, <2>3 DEF Even
    <2> QED
      BY <2>2, <2>3
  <1> QED
    BY <1>4, <1>5, <1>6, <1>9 DEF Books, Orders

LEMMA RefundBooks == ASSUME IInv, Books, NEW c \in Checks, Refund(c) PROVE Books'
  <1>1. PICK m \in check[c].owes : spent' = [spent EXCEPT ![CampaignOf[m]] = @ - 1]
    BY DEF Refund
  <1> DEFINE g == CampaignOf[m]
  <1>2. m \in Msgs /\ check[c].owes = {m} /\ row[m].status = "failed" /\ fate[m] = "lost" /\ g \in Campaigns
    BY <1>1, DeliveryAssumption DEF Books, Orders, OneOwed, Lost, IInv, TypeOK
  <1>3. spent'[g] = spent[g] - 1 /\ \A o \in Campaigns \ {g} : spent'[o] = spent[o]
    BY <1>1, <1>2 DEF IInv, TypeOK
  <1>4. /\ row' = row /\ at' = at /\ missed' = missed /\ twice' = twice /\ kept' = kept /\ fate' = fate
        /\ check'[c].owes = {} /\ check'[c].todo = check[c].todo
        /\ \A o \in Checks \ {c} : check'[o] = check[o]
    BY DEF Refund, hist, books, world, IInv, TypeOK
  <1>5. \A o \in Checks : Listed(o)' \subseteq Listed(o)
    BY <1>4 DEF Listed
  <1>6. Booked' /\ Settling' /\ Lost' /\ Apart'
    BY <1>4, <1>5 DEF Books, Orders, Booked, Settling, Lost, Apart
  <1>7. \A o \in Checks : Asking(o)' /\ OneOwed(o)'
    BY <1>4 DEF Books, Orders, Asking, OneOwed
  <1>8. \A o \in Campaigns :
          /\ Once(o)' = Once(o) /\ Uncounted(o)' = Uncounted(o) /\ Landed(o)' = Landed(o)
          /\ o # g => Unreturned(o)' = Unreturned(o)
    BY <1>2, <1>4 DEF Once, Uncounted, Unreturned, Landed
  <1>9. ASSUME Once(g)
        PROVE  Unreturned(g)' = Unreturned(g) \ {m} /\ m \in Unreturned(g)
    <2>1. m \notin twice
      BY <1>2, <1>9 DEF Once
    <2>2. m \in Listed(c)
      BY <1>2 DEF Listed
    <2>3. m \notin kept /\ \A o \in Checks \ {c} : m \notin check[o].owes
      BY <2>1, <2>2 DEF Books, Orders, Apart, Listed
    <2> QED
      BY <1>2, <1>4, <2>3 DEF Unreturned
  <1>10. Balance'
    <2> SUFFICES ASSUME NEW o \in Campaigns, Once(o)' PROVE Even(o)'
      BY DEF Balance, Balanced
    <2>1. spent[o] \in Int /\ Even(o) /\ Once(o)
      BY <1>8 DEF IInv, TypeOK, Books, Balance, Balanced
    <2>2. CASE o = g
      <3> HIDE DEF g
      <3>1. /\ Cardinality(Uncounted(g)) \in Nat /\ Cardinality(Landed(g)) \in Nat
            /\ Cardinality(Unreturned(g)) \in Nat
        BY Finite
      <3>2. Cardinality(Unreturned(g)') = Cardinality(Unreturned(g)) - 1
        BY <1>9, <2>1, <2>2, Finite, FS_RemoveElement
      <3>3. (spent[g] - 1) + Cardinality(Uncounted(g)) = Cardinality(Landed(g)) + (Cardinality(Unreturned(g)) - 1)
        BY <2>1, <2>2, <3>1 DEF Even
      <3> QED
        BY <1>2, <1>3, <1>8, <2>2, <3>2, <3>3 DEF Even
    <2>3. CASE o # g
      BY <1>3, <1>8, <2>1, <2>3 DEF Even
    <2> QED
      BY <2>2, <2>3
  <1> QED
    BY <1>6, <1>7, <1>10 DEF Books, Orders

\* A reconciliation that dies keeps what it owed.
LEMMA CheckDiesBooks == ASSUME IInv, Books, NEW c \in Checks, CheckDies(c) PROVE Books'
  <1>1. /\ row' = row /\ at' = at /\ missed' = missed /\ twice' = twice /\ fate' = fate /\ spent' = spent
        /\ kept' = kept \cup check[c].owes /\ check'[c].todo = {} /\ check'[c].owes = {}
        /\ \A o \in Checks \ {c} : check'[o] = check[o]
    BY DEF CheckDies, NoCheck, docs, world, IInv, TypeOK
  <1>2. Listed(c)' = {} /\ \A o \in Checks \ {c} : Listed(o)' = Listed(o)
    BY <1>1 DEF Listed
  <1>3. Booked' /\ Settling' /\ Lost'
    BY <1>1 DEF Books, Orders, Booked, Settling, Lost, OneOwed
  <1>4. Apart'
    BY <1>1, <1>2 DEF Books, Orders, Apart, Listed
  <1>5. \A o \in Checks : Asking(o)' /\ OneOwed(o)'
    BY <1>1 DEF Books, Orders, Asking, OneOwed
  <1>6. \A g \in Campaigns :
          /\ Once(g)' = Once(g) /\ Uncounted(g)' = Uncounted(g)
          /\ Unreturned(g)' = Unreturned(g) /\ Landed(g)' = Landed(g)
    BY <1>1 DEF Once, Uncounted, Unreturned, Landed
  <1>7. Balance'
    BY <1>1, <1>6 DEF Books, Balance, Balanced, Even
  <1> QED
    BY <1>3, <1>4, <1>5, <1>7 DEF Books, Orders

-----------------------------------------------------------------------------
(* The invariants and the theorems.                                        *)

LEMMA InitIInv == Init => IInv
  <1> SUFFICES ASSUME Init PROVE IInv
    OBVIOUS
  <1>1. TypeOK
    <2>1. Is("queued", "none") \in Row /\ NoCheck \in [todo : SUBSET Msgs, owes : SUBSET Msgs]
      BY DEF Is, Row, NoCheck
    <2>2. [todo |-> {}, room |-> 0] \in [todo : SUBSET Msgs, room : Int]
      OBVIOUS
    <2> QED
      BY <2>1, <2>2 DEF Init, TypeOK, Place
  <1>2. InHand /\ Asked /\ AtRest /\ PauseHolds /\ OnAccountOnly /\ Stationed
    BY HandsApart
    DEF Init, InHand, Asked, AtRest, PauseHolds, OnAccountOnly, Stationed, NoCheck, Taking, Is
  <1>3. Alone /\ LeftDown /\ HeldMeansDown
    BY HandsApart DEF Init, Alone, LeftDown, HeldMeansDown, Reconnecting, Is
  <1> QED
    BY <1>1, <1>2, <1>3 DEF IInv

LEMMA InitBooks == Init => Books
  <1> SUFFICES ASSUME Init PROVE Books
    OBVIOUS
  <1>1. Booked /\ Settling /\ Lost /\ Apart
    BY HandsApart DEF Init, Booked, Settling, Lost, Apart, Listed, NoCheck, Is
  <1>2. \A c \in Checks : Asking(c) /\ OneOwed(c)
    BY DEF Init, Asking, OneOwed, NoCheck
  <1>3. \A g \in Campaigns : Uncounted(g) = {} /\ Landed(g) = {} /\ Unreturned(g) = {} /\ spent[g] = 0
    BY HandsApart DEF Init, Uncounted, Landed, Unreturned, NoCheck, Is
  <1>4. Balance
    BY <1>3, FS_EmptySet DEF Balance, Balanced, Even
  <1> QED
    BY <1>1, <1>2, <1>4 DEF Books, Orders

\* Every action keeps the invariant.
LEMMA NextIInv == IInv /\ [Next]_vars => IInv'
  <1> SUFFICES ASSUME IInv, [Next]_vars PROVE IInv'
    OBVIOUS
  <1>1. CASE SessionEnds \/ Start \/ PollBounced \/ Reconnect \/ Connects \/ Switches
    BY <1>1, SessionEndsStep, StartStep, PollBouncedStep, ReconnectStep, RepairStep, ClearStep,
       FreeStep, PausedStep, ResumedStep
    DEF Connects, Switches
  <1>2. CASE \E m \in Msgs : Sends(m) \/ Throttled(m)
    BY <1>2, ClaimStep, LookStep, DecideStep, WindowFullStep, LaunchStep, TakenStep, CountStep,
       BouncedStep, HoldMineStep, ThrottledStep
    DEF Sends
  <1>3. CASE \E h \in Hands : TakesDown(h)
    BY <1>3, DegradeStep, JudgeStep, MarkStep, ExplainStep, SweepStep DEF TakesDown
  <1>4. CASE \E g \in Campaigns : Pause(g) \/ Resume(g)
    BY <1>4, PauseStep, ResumeStep
  <1>5. CASE (\E c \in Checks : List(c) \/ Reconciles(c) \/ CheckDies(c)) \/ RunDies \/ PollDies
    BY <1>5, ListStep, RefundStep, ConfirmStep, FailStep, RunDiesStep, PollDiesStep, CheckDiesStep
    DEF Reconciles
  <1>6. CASE UNCHANGED vars
    BY <1>6
    DEF vars, docs, world, work, hist, books, IInv, TypeOK, InHand, Asked, AtRest, PauseHolds,
        OnAccountOnly, Stationed, Alone, LeftDown, HeldMeansDown, Calm, Reconnecting
  <1> QED
    BY <1>1, <1>2, <1>3, <1>4, <1>5, <1>6 DEF Next

\* Every action keeps the books.
LEMMA NextBooks == IInv /\ Books /\ [Next]_vars => Books'
  <1> SUFFICES ASSUME IInv, Books, [Next]_vars PROVE Books'
    OBVIOUS
  <1>1. CASE SessionEnds \/ Start \/ PollBounced \/ Reconnect \/ Connects \/ Switches
    BY <1>1, KeptBooks, SessionEndsKeeps, StartKeeps, PollBouncedKeeps, ReconnectKeeps,
       RepairKeeps, ClearKeeps, FreeKeeps, PausedKeeps, ResumedKeeps
    DEF Connects, Switches
  <1>2. CASE \E m \in Msgs : Sends(m) \/ Throttled(m)
    BY <1>2, KeptBooks, TakenBooks, CountBooks, ClaimKeeps, LookKeeps, DecideKeeps,
       WindowFullKeeps, LaunchKeeps, BouncedKeeps, HoldMineKeeps, ThrottledKeeps
    DEF Sends
  <1>3. CASE \E h \in Hands : TakesDown(h)
    BY <1>3, KeptBooks, DegradeKeeps, JudgeKeeps, MarkKeeps, ExplainKeeps, SweepKeeps DEF TakesDown
  <1>4. CASE \E g \in Campaigns : Pause(g) \/ Resume(g)
    BY <1>4, KeptBooks, PauseKeeps, ResumeKeeps
  <1>5. CASE (\E c \in Checks : List(c) \/ Reconciles(c) \/ CheckDies(c)) \/ RunDies \/ PollDies
    BY <1>5, KeptBooks, ListBooks, ConfirmBooks, FailBooks, RefundBooks, RunDiesKeeps,
       PollDiesKeeps, CheckDiesBooks
    DEF Reconciles
  <1>6. CASE UNCHANGED vars
    BY <1>6, KeptBooks DEF vars, docs, world, work, hist, books, Kept
  <1> QED
    BY <1>1, <1>2, <1>3, <1>4, <1>5, <1>6 DEF Next

LEMMA SpecIInv == Spec => []IInv
  BY InitIInv, NextIInv, PTL DEF Spec

LEMMA SpecBooks == Spec => []Books
  BY InitBooks, NextBooks, SpecIInv, PTL DEF Spec

\* Every variable keeps its type.
THEOREM TypeCorrect == Spec => []TypeOK
  BY SpecIInv, PTL DEF IInv

\* Nothing stays held behind a healthy channel, however many sends and polls
\* take it down, unless one crosses a reconnect (channelHealth.ts).
THEOREM ReconnectReleases == Spec => []HeldMeansDown
  BY SpecIInv, PTL DEF IInv

\* What a pause held stays held until a campaign is resumed, whatever becomes
\* of the channel meanwhile (channelHealth.ts).
THEOREM PauseStands == Spec => []PauseHolds
  BY SpecIInv, PTL DEF IInv

\* A campaign's touches are what went out, however messages are counted and
\* given back and whatever dies meanwhile, unless two reconciliations had one of
\* its lost messages listed at once (reconcile.ts).
THEOREM TouchesAreMatched == Spec => []TouchesMatch
  <1>1. Books => TouchesMatch
    BY DEF Books, Balance, Balanced, Even, TouchesMatch
  <1> QED
    BY <1>1, SpecBooks, PTL
=============================================================================
