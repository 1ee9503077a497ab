----------------------------- MODULE IdleLadder -----------------------------
(***************************************************************************)
(* The idle ladder of src/wait.rs under the retry loop of a blocking call: *)
(* try, idle(), try again.  The ring is the condition the call waits for;  *)
(* the other side makes it true at any moment, and another thread on the   *)
(* same side may use it up again.  Nobody notifies a self-waking waiter:   *)
(* how late it sees the condition is up to the ladder alone.               *)
(* Time is the timer's: it passes while park_timeout() sleeps, in steps of *)
(* Grain; spinning and yielding take none of it.                           *)
(***************************************************************************)
EXTENDS Integers

CONSTANTS
    Strategies,          \* the self-waking strategies calls are made with
    MaxStep,             \* the largest value of step: u32::MAX
    Grain                \* bound: the grain of the clock, in microseconds

WaitStrategy == {"BusySpin", "Backoff", "BackoffYield", "Park"}

SPINS    == 10
YIELDS   == 20
PARK_MIN == 64
PARK_MAX == 1000

ASSUME LadderAssumption ==
    /\ Strategies \subseteq WaitStrategy \ {"Park"}
    /\ MaxStep \in Nat /\ MaxStep >= SPINS + YIELDS
    /\ Grain \in Nat \ {0}

VARIABLES
    strategy,            \* Shared.strategy of the call's channel
    step, park,          \* Idle.step, Idle.park (microseconds)
    yield_only,          \* Idle.yield_only
    pc,                  \* "out" of a call, "try", "wait", or "asleep" in park_timeout()
    left,                \* what is left of the timed park
    ready,               \* the ring can serve the call
    late,                \* history: time slept since it can
    waited,              \* history: time slept in this call before, up to PARK_MAX
    early                \* history: a park of this call returned before its time

Idle == <<step, park, yield_only>>
env  == <<ready, late>>
past == <<waited, early>>
vars == <<strategy, Idle, pc, left, env, past>>

AtMost(a, b) == IF a < b THEN a ELSE b

\* Mutant of for_strategy: BackoffYield gets the parking ladder.
for_strategy_parks(s) ==
    /\ step' = 0
    /\ park' = PARK_MIN
    /\ yield_only' = FALSE

\* Idle::new and the fields for_strategy() sets over it.
for_strategy(s) ==
    /\ step' = 0
    /\ park' = PARK_MIN
    /\ yield_only' = (s = "BackoffYield")

Init ==
    /\ strategy \in Strategies
    /\ step = 0 /\ park = PARK_MIN /\ yield_only = FALSE
    /\ pc = "out" /\ left = 0
    /\ ready \in BOOLEAN /\ late = 0
    /\ waited = 0 /\ early = FALSE

-----------------------------------------------------------------------------

\* send() or recv(): a ladder of its own for every call.
Call(s) ==
    /\ pc = "out"
    /\ strategy' = s
    /\ for_strategy(s)
    /\ pc' = "try"
    /\ waited' = 0 /\ early' = FALSE
    /\ UNCHANGED <<left, env>>

Try ==
    /\ pc = "try"
    /\ pc' = IF ready THEN "out" ELSE "wait"
    /\ late' = 0
    /\ UNCHANGED <<strategy, Idle, left, ready, past>>

\* Mutant of NextStep: step + 1 wraps around.
NextStepWraps == IF step = MaxStep THEN 0 ELSE step + 1

\* step.saturating_add(1)
NextStep == AtMost(step + 1, MaxStep)

\* Mutant of NextPark: straight to the cap.
NextParkAtOnce == PARK_MAX

NextPark == AtMost(park * 2, PARK_MAX)

\* The branch idle() takes.
Rung == IF step < SPINS THEN 1 ELSE IF yield_only \/ step < SPINS + YIELDS THEN 2 ELSE 3

\* A branch that does not sleep, or the spin_loop() of BusySpin, which has no ladder.
Spin ==
    /\ pc = "wait"
    /\ \/ strategy = "BusySpin" /\ UNCHANGED step
       \/ strategy # "BusySpin" /\ Rung < 3 /\ step' = NextStep
    /\ pc' = "try"
    /\ UNCHANGED <<strategy, park, yield_only, left, env, past>>

\* Mutant of Sleep: a park without a timeout.
SleepUntimed ==
    /\ pc = "wait"
    /\ strategy # "BusySpin" /\ Rung = 3
    /\ pc' = "asleep" /\ left' = -1
    /\ UNCHANGED <<strategy, Idle, env, past>>

\* park_timeout(park): the thread goes to sleep ...
Sleep ==
    /\ pc = "wait"
    /\ strategy # "BusySpin" /\ Rung = 3
    /\ pc' = "asleep" /\ left' = park
    /\ UNCHANGED <<strategy, Idle, env, past>>

\* ... and idle() goes on when it is back.
Wake ==
    /\ park' = NextPark /\ step' = NextStep
    /\ waited' = AtMost(waited + park - left, PARK_MAX)
    /\ pc' = "try" /\ left' = 0
    /\ UNCHANGED <<strategy, yield_only, env>>

TimedOut ==
    /\ pc = "asleep" /\ left = 0
    /\ Wake
    /\ UNCHANGED early

\* A spurious return, or an unpark the thread was still owed by another channel.
EarlyReturn ==
    /\ pc = "asleep" /\ left > 0
    /\ Wake
    /\ early' = TRUE

-----------------------------------------------------------------------------
(* The clock and the other threads.                                        *)

Tick ==
    /\ pc = "asleep" /\ left > 0
    /\ left' = IF left > Grain THEN left - Grain ELSE 0
    /\ late' = IF ready THEN late + (left - left') ELSE 0
    /\ UNCHANGED <<strategy, Idle, pc, ready, past>>

Ready ==
    /\ ~ready
    /\ ready' = TRUE /\ late' = 0
    /\ UNCHANGED <<strategy, Idle, pc, left, past>>

UsedUp ==
    /\ ready
    /\ ready' = FALSE /\ late' = 0
    /\ UNCHANGED <<strategy, Idle, pc, left, past>>

-----------------------------------------------------------------------------

Loop == Try \/ Spin \/ Sleep \/ TimedOut

Next ==
    \/ \E s \in Strategies : Call(s)
    \/ Loop \/ EarlyReturn
    \/ Tick \/ Ready \/ UsedUp

Spec == Init /\ [][Next]_vars

\* The waiting thread keeps running and the timer keeps counting.
FairSpec == Spec /\ WF_vars(Loop) /\ WF_vars(Tick)

-----------------------------------------------------------------------------
(* Properties.                                                             *)

\* Every variable has its type; a timed park lies between the floor and the cap.
TypeOK ==
    /\ strategy \in Strategies
    /\ step \in 0..MaxStep /\ park \in PARK_MIN..PARK_MAX
    /\ yield_only \in BOOLEAN /\ ready \in BOOLEAN /\ early \in BOOLEAN
    /\ pc \in {"out", "try", "wait", "asleep"}
    /\ left \in 0..park
    /\ late \in Nat /\ waited \in 0..PARK_MAX

\* How long a self-waking waiter sleeps over a ring that could serve it: one park
\* of at most PARK_MAX with Backoff, not at all with BusySpin and BackoffYield,
\* however long the call has been waiting.
DelayBounded ==
    late <= IF strategy = "Backoff" THEN PARK_MAX ELSE 0

\* The doubling keeps the delay in proportion: as long as parks run their time, a
\* waiter is late by at most the time it had slept before, plus the floor.
DelayProportional ==
    ~early => late <= PARK_MIN + waited

\* Within a call the ladder only goes up: neither the saturation of step nor the
\* cap of park brings a waiter back to spinning, or to shorter parks.
LadderOnlyClimbs ==
    [][pc # "out" => Rung' >= Rung /\ park' >= park]_vars

\* Timed parks self-wake: a call whose ring stays ready returns without anyone
\* notifying it.
ReadyCallReturns ==
    (pc # "out" /\ ready) ~> (pc = "out" \/ ~ready)

-----------------------------------------------------------------------------

\* The inductive invariant: a waiter is late by no more than what it has slept
\* of the present park, which is no longer than all it slept before.
IndInv ==
    /\ TypeOK
    /\ pc # "out" => (yield_only <=> strategy = "BackoffYield")
    /\ pc = "asleep" => strategy = "Backoff" /\ step >= SPINS + YIELDS
    /\ pc # "asleep" => left = 0
    /\ pc \in {"out", "wait"} => late = 0
    /\ late > 0 => strategy = "Backoff" /\ late + left <= park
    /\ ~early => park <= PARK_MIN + waited
=============================================================================
