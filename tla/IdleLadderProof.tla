-------------------------- MODULE IdleLadderProof --------------------------
(***************************************************************************)
(* Proofs about IdleLadder, for every set of strategies, every width of    *)
(* step and every grain of the clock.                                      *)
(***************************************************************************)
EXTENDS IdleLadder, TLAPS

\* No step leaves the inductive invariant.
LEMMA InvStep == IndInv /\ [Next]_vars => IndInv'
<1> SUFFICES ASSUME IndInv, [Next]_vars PROVE IndInv'
  OBVIOUS
<1> USE LadderAssumption DEF IndInv, TypeOK, WaitStrategy, SPINS, YIELDS, PARK_MIN, PARK_MAX, Idle, env, past
<1>1. ASSUME NEW s \in Strategies, Call(s) PROVE IndInv'
  <2>1. yield_only' \in BOOLEAN /\ (yield_only' <=> s = "BackoffYield")
    BY <1>1, Zenon DEF Call, for_strategy
  <2>2. /\ strategy' = s /\ step' = 0 /\ park' = PARK_MIN /\ pc' = "try" /\ waited' = 0
        /\ left' = left /\ ready' = ready /\ late' = late
    BY <1>1 DEF Call, for_strategy
  <2>3. early' \in BOOLEAN /\ left = 0 /\ late = 0
    BY <1>1 DEF Call
  <2> QED
    BY <2>1, <2>2, <2>3
<1>2. CASE Try
  BY <1>2 DEF Try
<1>3. CASE Spin
  BY <1>3 DEF Spin, NextStep, AtMost
<1>4. CASE Sleep
  BY <1>4 DEF Sleep, Rung
<1>5. CASE TimedOut
  BY <1>5 DEF TimedOut, Wake, NextStep, NextPark, AtMost
<1>6. CASE EarlyReturn
  BY <1>6 DEF EarlyReturn, Wake, NextStep, NextPark, AtMost
<1>7. CASE Tick
  BY <1>7 DEF Tick
<1>8. CASE Ready
  BY <1>8 DEF Ready
<1>9. CASE UsedUp
  <2>1. ready' \in BOOLEAN
    BY <1>9, Zenon DEF UsedUp
  <2> QED
    BY <1>9, <2>1 DEF UsedUp
<1>10. CASE UNCHANGED vars
  BY <1>10 DEF vars
<1> QED
  BY <1>1, <1>2, <1>3, <1>4, <1>5, <1>6, <1>7, <1>8, <1>9, <1>10 DEF Next, Loop

\* The inductive invariant holds in every reachable state.
THEOREM Invariance == Spec => []IndInv
<1>1. Init => IndInv
  <2> SUFFICES ASSUME Init PROVE IndInv
    OBVIOUS
  <2>1. yield_only \in BOOLEAN /\ ready \in BOOLEAN /\ early \in BOOLEAN
    BY Zenon DEF Init
  <2> QED
    BY <2>1, LadderAssumption DEF Init, IndInv, TypeOK, PARK_MIN, PARK_MAX
<1> QED
  BY <1>1, InvStep, PTL DEF Spec

\* Every variable keeps its type.
THEOREM TypeCorrect == Spec => []TypeOK
<1>1. IndInv => TypeOK
  BY DEF IndInv
<1> QED
  BY <1>1, Invariance, PTL

\* No waiter sleeps more than PARK_MAX over a ring that can serve it, and only
\* Backoff sleeps at all.
THEOREM DelayCorrect == Spec => []DelayBounded
<1>1. IndInv => DelayBounded
  BY DEF IndInv, TypeOK, DelayBounded, PARK_MIN, PARK_MAX
<1> QED
  BY <1>1, Invariance, PTL

\* While parks run their time, no waiter is later than it had slept before.
THEOREM ProportionCorrect == Spec => []DelayProportional
<1>1. IndInv => DelayProportional
  BY DEF IndInv, TypeOK, DelayProportional, PARK_MIN, PARK_MAX
<1> QED
  BY <1>1, Invariance, PTL

\* Within a call the rungs and the parks never get shorter.
LEMMA ClimbStep ==
    IndInv /\ [Next]_vars => [pc # "out" => Rung' >= Rung /\ park' >= park]_vars
<1> SUFFICES ASSUME IndInv, [Next]_vars, pc # "out" PROVE Rung' >= Rung /\ park' >= park
  BY DEF vars
<1> USE LadderAssumption DEF IndInv, TypeOK, WaitStrategy, SPINS, YIELDS, PARK_MIN, PARK_MAX, Idle, env, past, Rung
<1>1. ASSUME NEW s \in Strategies, Call(s) PROVE Rung' >= Rung /\ park' >= park
  BY <1>1 DEF Call, for_strategy
<1>2. CASE Try
  BY <1>2 DEF Try
<1>3. CASE Spin
  BY <1>3 DEF Spin, NextStep, AtMost
<1>4. CASE Sleep
  BY <1>4 DEF Sleep, Rung
<1>5. CASE TimedOut
  BY <1>5 DEF TimedOut, Wake, NextStep, NextPark, AtMost
<1>6. CASE EarlyReturn
  BY <1>6 DEF EarlyReturn, Wake, NextStep, NextPark, AtMost
<1>7. CASE Tick
  BY <1>7 DEF Tick
<1>8. CASE Ready
  BY <1>8 DEF Ready
<1>9. CASE UsedUp
  BY <1>9 DEF UsedUp
<1>10. CASE UNCHANGED vars
  BY <1>10 DEF vars
<1> QED
  BY <1>1, <1>2, <1>3, <1>4, <1>5, <1>6, <1>7, <1>8, <1>9, <1>10 DEF Next, Loop

\* The saturating step and the capped park never restart the ladder.
THEOREM ClimbCorrect == Spec => LadderOnlyClimbs
<1> QED
  BY ClimbStep, Invariance, PTL DEF Spec, LadderOnlyClimbs
=============================================================================
