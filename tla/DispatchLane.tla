---------------------------- MODULE DispatchLane ----------------------------
(***************************************************************************)
(* One lane of src/engine/dispatch.ts: which of the waiting decisions the  *)
(* minute's tick calls ready.  Urgent work first, then the campaigns named *)
(* in DISPATCH_PRIORITY_CAMPAIGNS, then deficit round robin over the rest. *)
(*                                                                         *)
(* Items of one campaign are alike, so a campaign is a count; a step is a  *)
(* phase of the tick or one campaign's turn in a round.  Nobody comes in   *)
(* between: WorkQueue has a tick's interleavings with everybody else.      *)
(***************************************************************************)
EXTENDS Integers, FiniteSets

CONSTANTS
    Campaigns,
    Key,        \* Key[c]: where the key of c sorts
    Favoured,   \* PRIORITY_CAMPAIGNS
    Quantum,    \* QUANTUM of the kind
    Slots,      \* READY_CEILING of the kind
    MaxWaiting, \* bound on what waits for one campaign, and on urgent work
    MaxTicks    \* bound on the ticks of a behaviour

\* Every kind's ceiling is at most twenty of its quanta (dispatch.ts 29-72).
ASSUME DispatchLaneAssumption ==
    /\ IsFiniteSet(Campaigns) /\ Favoured \subseteq Campaigns
    /\ Key \in [Campaigns -> Nat]
    /\ \A c, d \in Campaigns : Key[c] = Key[d] => c = d
    /\ {Quantum, Slots, MaxWaiting} \subseteq Nat \ {0}
    /\ Slots <= 20 * Quantum
    /\ MaxTicks \in Nat

VARIABLES
    waiting,  \* waiting[c]: queued, due, not urgent
    urgent,   \* queued, due, urgent
    ready,    \* ready or running
    deficits, \* the lane document's deficits
    cursor,   \* the lane document's cursor
    \* The tick: at rest, serving the favoured campaigns, or in its rounds.
    phase,
    budget,   \* slots left to give
    queues,   \* campaigns with work left when the rounds began
    start,    \* where in their list the rounds begin
    rounds,   \* rounds over
    turn,     \* turns over in this round
    gave,     \* spentThisRound
    surplus,  \* surplusServed: helpings after the first round
    grants,   \* grants[c]: what the rounds gave c
    \* History, read by no action of the code.
    ticks,    \* ticks so far
    listed,   \* the campaigns the last tick's rounds went over
    missed    \* missed[c]: ticks in a row over the same campaigns that left c out

lane     == <<waiting, urgent, ready>>
laneDoc  == <<deficits, cursor>>
round    == <<queues, start, rounds, turn, gave, surplus, grants>>
laneHist == <<ticks, listed, missed>>
laneVars == <<lane, laneDoc, phase, budget, round, laneHist>>

LaneTypeOK ==
    /\ waiting \in [Campaigns -> Nat] /\ urgent \in Nat /\ ready \in 0 .. Slots
    /\ deficits \in [Campaigns -> Nat] /\ cursor \in Nat
    /\ phase \in {"idle", "favoured", "round"} /\ budget \in 0 .. Slots
    /\ queues \subseteq Campaigns /\ start \in Nat
    /\ rounds \in Nat /\ turn \in Nat /\ gave \in Nat /\ surplus \in Nat
    /\ grants \in [Campaigns -> Nat]
    /\ ticks \in 0 .. MaxTicks /\ listed \subseteq Campaigns /\ missed \in [Campaigns -> Nat]

None == [c \in Campaigns |-> 0]

LaneInit ==
    /\ waiting \in [Campaigns -> {0, MaxWaiting}]
    /\ urgent = 0 /\ ready = 0
    /\ deficits = None /\ cursor = 0
    /\ phase = "idle" /\ budget = 0
    /\ queues = {} /\ start = 0 /\ rounds = 0 /\ turn = 0 /\ gave = 0 /\ surplus = 0
    /\ grants = None
    /\ ticks = 0 /\ listed = {} /\ missed = None

Least(a, b) == IF a <= b THEN a ELSE b

-----------------------------------------------------------------------------
(* The tiers before the rounds. *)

\* The headroom is counted and urgent work served from it.
CountAndServeUrgent ==
    /\ phase = "idle" /\ ticks < MaxTicks
    /\ LET first == Least(urgent, Slots - ready) IN
         /\ urgent' = urgent - first
         /\ ready' = ready + first
         /\ budget' = Slots - ready - first
    /\ phase' = "favoured" /\ ticks' = ticks + 1
    /\ UNCHANGED <<waiting, laneDoc, round, listed, missed>>

\* Favoured campaigns get what is left, oldest first whosever it is.
ServeFavoured(c) ==
    /\ phase = "favoured" /\ budget > 0 /\ waiting[c] > 0
    /\ waiting' = [waiting EXCEPT ![c] = @ - 1]
    /\ ready' = ready + 1 /\ budget' = budget - 1
    /\ UNCHANGED <<urgent, laneDoc, phase, round, laneHist>>

FavouredServed ==
    phase = "favoured" /\ (budget = 0 \/ \A c \in Favoured : waiting[c] = 0)

Rest ==
    /\ phase' = "idle" /\ budget' = 0
    /\ queues' = {} /\ start' = 0 /\ rounds' = 0 /\ turn' = 0 /\ gave' = 0 /\ surplus' = 0
    /\ grants' = None

\* The early returns: no slot left, or nothing waiting.
ReturnEarly ==
    /\ FavouredServed
    /\ budget = 0 \/ waiting = None
    /\ Rest
    /\ UNCHANGED <<lane, laneDoc, laneHist>>

BeginRounds ==
    /\ FavouredServed /\ budget > 0 /\ waiting # None
    /\ queues' = {c \in Campaigns : waiting[c] > 0}
    /\ start' = cursor % Cardinality(queues')
    /\ phase' = "round"
    /\ UNCHANGED <<lane, laneDoc, budget, rounds, turn, gave, surplus, grants, laneHist>>

-----------------------------------------------------------------------------
(* The rounds. *)

\* The list is sorted by key and rotated to begin at start.
Index(c) == Cardinality({d \in queues : Key[d] < Key[c]})
Turn(c)  == IF Index(c) >= start THEN Index(c) - start
            ELSE Index(c) + Cardinality(queues) - start

OnTurn(c) == phase = "round" /\ c \in queues /\ Turn(c) = turn

\* The budget ran out before its turn: the quantum is banked.
Bank(c) ==
    /\ OnTurn(c) /\ budget = 0
    /\ deficits' = IF waiting[c] > 0 THEN [deficits EXCEPT ![c] = @ + Quantum] ELSE deficits
    /\ turn' = turn + 1
    /\ UNCHANGED <<lane, cursor, phase, budget, queues, start, rounds, gave, surplus, grants, laneHist>>

\* Nothing is left to give it: its credit is dropped.
DropCredit(c) ==
    /\ OnTurn(c) /\ budget > 0 /\ waiting[c] = 0
    /\ deficits' = [deficits EXCEPT ![c] = 0]
    /\ turn' = turn + 1
    /\ UNCHANGED <<lane, cursor, phase, budget, queues, start, rounds, gave, surplus, grants, laneHist>>

Credit(c) == deficits[c] + Quantum
Take(c)   == Least(Credit(c), Least(waiting[c], budget))

Help(c) ==
    /\ OnTurn(c) /\ budget > 0 /\ waiting[c] > 0
    /\ waiting' = [waiting EXCEPT ![c] = @ - Take(c)]
    /\ ready' = ready + Take(c) /\ budget' = budget - Take(c) /\ gave' = gave + Take(c)
    /\ grants' = [grants EXCEPT ![c] = @ + Take(c)]
    /\ deficits' = [deficits EXCEPT ![c] = Credit(c) - Take(c)]
    /\ surplus' = IF rounds > 0 THEN surplus + 1 ELSE surplus
    /\ turn' = turn + 1
    /\ UNCHANGED <<urgent, cursor, phase, queues, start, rounds, laneHist>>

\* Variant: one round.
RoundsOne == 1
Rounds == 20

RoundOver == phase = "round" /\ turn = Cardinality(queues)

\* Rounds go on while budget and demand both remain.
GoesOn == budget > 0 /\ gave > 0 /\ rounds + 1 < Rounds

Again ==
    /\ RoundOver /\ GoesOn
    /\ rounds' = rounds + 1 /\ turn' = 0 /\ gave' = 0
    /\ UNCHANGED <<lane, laneDoc, phase, budget, queues, start, surplus, grants, laneHist>>

\* Variant: without the one at least.
AdvanceBySurplus(from, helpings, n) == (from + helpings) % n

\* The cursor moves past the surplus helpings, and by one at least.
Advance(from, helpings, n) == (from + (IF helpings > 1 THEN helpings ELSE 1)) % n

\* Bookkeeping of the properties.
Remember ==
    /\ listed' = queues
    /\ missed' = [c \in Campaigns |->
                    IF c \notin queues \/ grants[c] > 0 THEN 0
                    ELSE IF queues = listed THEN missed[c] + 1 ELSE 1]

WriteState ==
    /\ RoundOver /\ ~GoesOn
    /\ cursor' = Advance(start, surplus, Cardinality(queues))
    /\ Rest /\ Remember
    /\ UNCHANGED <<lane, deficits, ticks>>

Tick == \/ CountAndServeUrgent
        \/ \E c \in Favoured : ServeFavoured(c)
        \/ ReturnEarly \/ BeginRounds
        \/ \E c \in Campaigns : Bank(c) \/ DropCredit(c) \/ Help(c)
        \/ Again \/ WriteState

-----------------------------------------------------------------------------
(* The rest of the system: detectors ask, promotions make waiting work
   urgent, sessions finish what is ready. *)

Arrive(c) ==
    /\ phase = "idle" /\ waiting[c] < MaxWaiting
    /\ waiting' = [waiting EXCEPT ![c] = MaxWaiting]
    /\ UNCHANGED <<urgent, ready, laneDoc, phase, budget, round, laneHist>>

Promote(c) ==
    /\ phase = "idle" /\ waiting[c] > 0 /\ urgent < MaxWaiting
    /\ waiting' = [waiting EXCEPT ![c] = @ - 1]
    /\ urgent' = urgent + 1
    /\ UNCHANGED <<ready, laneDoc, phase, budget, round, laneHist>>

FinishReady ==
    /\ phase = "idle" /\ ready > 0
    /\ ready' \in 0 .. ready - 1
    /\ UNCHANGED <<waiting, urgent, laneDoc, phase, budget, round, laneHist>>

LaneNext == Tick \/ FinishReady \/ \E c \in Campaigns : Arrive(c) \/ Promote(c)

LaneSpec == LaneInit /\ [][LaneNext]_laneVars

-----------------------------------------------------------------------------
(* What the lane promises. *)

Ticked == phase # "idle" /\ phase' = "idle"

\* A tick fills the lane or leaves nothing waiting: twenty rounds are enough
\* for every leftover (dispatch.ts 263-306).
WorkConserving ==
    [][Ticked => ready' = Slots \/ (urgent' = 0 /\ waiting' = None)]_laneVars

\* While the same campaigns wait, the rotation reaches each of them in one
\* turn (dispatch.ts 248-257, 308-309).
RotationServes == \A c \in Campaigns : missed[c] < Cardinality(Campaigns)
=============================================================================
