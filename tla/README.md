# Verification of ultima_rings

TLA+ models, TLC configurations and TLAPS proofs for the lock-free rings of this
repository: the SPSC ring (`src/spsc.rs`), the MPSC ring (`src/mpsc.rs`), the
sharded channel built of SPSC rings (`src/sharded.rs`), the notify layer the rings
block on (`src/notify.rs`) and the idle ladder of the self-waking strategies
(`src/wait.rs`).

## 1. Inventory

| Component | State | Operations | Talks to |
|---|---|---|---|
| SPSC ring, `spsc.rs` | `Shared`: `buf`, `tail`, `head`, `disconnected`, `strategy`, two parkers. `Sender`: `tail`, `cached_head`. `Receiver`: `head`, `cached_tail` | `channel`, `try_send`, `send`, `try_recv`, `recv`, `drain`, drop of either handle, `Shared::drop` | the two threads share `Shared`; both block through `Parker` |
| MPSC ring, `mpsc.rs` | `Shared`: slots of (`round`, `value`), `claim`, `head`, `senders`, `rx_dropped`, `strategy`, a parker, a waiter list. `Sender`: `cached_head`. `Receiver`: `head` | as above, and `clone` of a sender | any number of senders and one receiver share `Shared` |
| Notify layer, `notify.rs` | `Parker`: `parked`, `slot`. `WaiterList`: `waiting`, `list` | `prepare_park`, `cancel`, `park`, `wake`; `prepare_wait`, `park`, `wake_all` | `std::thread::park` and `unpark`; called from the rings. |
| Sharded MPSC, `sharded.rs` | one SPSC ring per producer; `cursor`, `budget` | `channel`, `try_send`, `send`, `try_recv`, `recv`, `drain` | calls the SPSC operations only; declares no atomics |
| Wait strategies, `wait.rs` | `Idle`: `step`, `park`, `yield_only` | `idle`, one rung of the ladder | called in the retry loops of the blocking operations |
| Crate root, `lib.rs` | none | `assert_cap`; the error types | called by the constructors |
| Atomics, `atomic.rs` | none | re-exports std or loom atomics | |
| Benches, examples | none of the crate's | measurement | public interface |

What is hard in this code is what several threads do between two lines of one
function:

- both SPSC sides decide from *cached* copies of the other's index;
- MPSC senders race a weak compare-exchange with a sequence and a free-space
  test that may both be stale, and a stalled winner leaves a *hole* behind which
  later messages are already published;
- a slot counts as published only in the exact round, so a wrap-around must not
  be mistaken for a message;
- parking is a Dekker protocol: the waiter registers, fences and looks again; the
  waker publishes, fences and looks for a registration. Registrations and
  `unpark` tokens can be left over from an earlier wait, and several wakers can
  be inside `wake` at once;
- a handle can be dropped at any moment between its calls, also just after its
  last message;
- the callback of `drain` can panic when messages have been moved out but not
  yet given back;
- whoever drops the last handle runs `Shared::drop`, which must destroy exactly
  the messages nobody received;
- the flags of the notify layer are `Relaxed`: on real hardware a store is seen
  late, and only the SeqCst fences keep waiter and waker from missing each other;
- the sharded receiver draws conclusions about *all* shards (`Empty`,
  `Disconnected`, a short batch) from answers it collected one by one while the
  senders went on, and must neither overlook a shard nor favour one for ever;
- nobody wakes a self-waking waiter: its delay is whatever its ladder makes it;
- counters are of the machine's width.

Correct means: order and exactly-once delivery, no two threads on one slot, an
honest `Disconnected`, no lost wake-up, blocking calls that return when they
can; for the sharded channel also that no shard is overlooked or starved; for the
ladder a bounded delay. The `hazards` of `PROJECT.json` place these dangers at their lines.

## 2. Modules

| Module | What it is |
|---|---|
| `Channel` | Abstract specification: a bounded FIFO between a sending and a receiving side, with the two disconnect answers and the destruction of what is left. |
| `Ring` | One SPSC ring as its callers see it: the contract between `Spsc` and `Sharded`. |
| `Spsc` | `spsc.rs` with its two `Parker`s. |
| `SpscInv`, `SpscProof` | The inductive invariant of `Spsc`; the theorems. |
| `Mpsc` | `mpsc.rs` with the consumer's `Parker` and the producers' `WaiterList`. |
| `MpscInv`, `MpscProof` | The inductive invariant of `Mpsc`; the theorems. |
| `Sharded` | `sharded.rs`: one bounded FIFO per shard, the sweeping receiver. |
| `ShardedInv`, `ShardedProof` | The inductive invariant of `Sharded`; the theorems. |
| `IdleLadder`, `IdleLadderProof` | `Idle` of `wait.rs` under the retry loop of a blocking call, against a clock. |
| `ParkerWeak`, `ParkerWeakProof` | `Parker` over store buffers: late stores, fences. |
| `WaiterListWeak`, `WaiterListWeakProof` | `WaiterList` over the same memory. |
| `MC...` | The instances TLC checks, one `.cfg` per run. |

`Channel` ties them together: `Spsc` and `Mpsc` implement it, `Sharded` implements
it once per shard. `Ring` is finer and carries the composition. `Channel` says what
may enter and leave; `Ring` also says at which places of a call the other side can
still change the answer (the flag, then the index, then the flag and the index
again), that `drain` holds its slots back until its guard is dropped, and who was
answered Disconnected. `Spsc` implements `Ring` with its cached indices, slots and
parkers; a shard of `Sharded`, whatever the sweep around it does, makes only steps
of `Ring`. What `Sharded` assumes of a shard is thus what `spsc.rs` is shown to
provide. `ParkerWeak` and
`WaiterListWeak` drop an assumption `Spsc` and `Mpsc` make, that there is one
memory all threads see at once, and keep of the ring only what the question needs.

### State and granularity

Variables keep the names of the fields. Where a handle has a field of the same
name as `Shared` it gets a prefix: `ptail` is `Sender.tail`, `chead` is
`Receiver.head`. `pc[t]` is the place of thread `t` inside a call, `op[t]` the
call, `refs` the handles that hold the `Arc`. `sent`, `delivered`, `dropped` and
`told` are history: no guard reads them.

An action is *one* access to shared memory together with the local computation
around it. `try_send` of the SPSC ring, for instance, is `TsDisconnected` (load
of the flag), `TsFull` (the cached test, and the load of `head` when it fails),
`TsWrite` (the slot) and `TsPublish` (the Release store), then, with `Park`,
`WakeLoad`, `WakeStore`, `WakeTake`. `send` and `recv` are the loop around them:
`Blocked` decides between the answer and the wait. A user's call is an action of
its own (`SenderCall`, `ReceiverCall`, `DrainCall`, `Clone`, `Drop...`) and can
come at any moment the handle is idle.

| Code | SPSC actions | MPSC actions |
|---|---|---|
| `try_send` | `TsDisconnected` `TsFull` `TsWrite` `TsPublish` | `TsDisconnected` `TsClaim` `TsFull` `TsCasOk` `TsCasLost` `TsCasSpurious` `TsWrite` `TsPublish` |
| `try_recv` | `TrCheck` `TrDisconnected` `TrLast` `Read` `TrPublish` | `TrCheck` `TrSenders` `TrLast` `Read` `TrPublish` |
| `drain` | `DrainCall` `DrCheck` `Read` `DrGuard` `DrUnwind` | the same |
| `send` waits | `PrepareSlot` `PrepareFlag` `Recheck` `RecheckDisconnected` `Withdraw` `Unpark` | `WaitPush` `WaitFlag` `RecheckClaim` `RecheckHead` `RecheckDisconnected` `Unpark` |
| `recv` waits | the same actions for thread `"C"` | `PreSpin` `PrepareSlot` `PrepareFlag` `Recheck` `RecheckSenders` `Withdraw` `Unpark` |
| `wake`, `wake_all` | `WakeLoad` `WakeStore` `WakeTake` | the same; `WakeSwap` `WakeList` |
| drop of a handle | `Drop` `NextWake` `ArcDrop` | `DropSender` `DropReceiver` `WakeDone` `ArcDrop` |
| `Shared::drop` | `SharedDrop` | `SharedDrop` |

### The sharded channel

A shard is `tail`, `head` and `chead` (the ring's shared indices and its
receiver's own), `live` and `refs`. The flag `disconnected` is one for both
directions, as in `spsc.rs`. The loads that decide what a sweep sees are steps of
their own (`TrTail`, `TrDisconnected`, `TrLast`); the cursor, the budget, the loop
counter `visited`, the local `disconnected` of the sweep (`gone`), and `count`
and `max` of `drain` are variables.

| `sharded.rs` | Actions |
|---|---|
| `channel` | the assumption `ChannelAssumption` (its four assertions), `Init` |
| `try_send`, `send` | `SenderCall` `TsDisconnected` `TsSend` |
| `try_recv` | `ReceiverCall` with `BeginSweep`, then per shard `TrTail` `TrDisconnected` `TrLast`, which end in `Take` or `Leave` |
| `recv` | the same, and `Retry` |
| `drain` | `DrainCall`, per message `DrTake`, per shard `DrEnd` (the loop's last look) and `DrShardDone` (the guard's store); `DrUnwind` |
| drops | `DropSender` `SenderArc`; `DropReceiver`, per shard `RxDrop` `RxArc` |

`mark`, `told`, `bypassed` and `answer` are history: what was published when the
sweep began, who was told Disconnected, how many messages of other shards were
taken while this one had some, and the last answer.

### The idle ladder

`Call` starts a ladder (`for_strategy`), `Try` is the attempt, `Spin` and `Sleep`
the branches of `idle`, `TimedOut` and `EarlyReturn` the two ways out of
`park_timeout`. `Tick` lets time pass while the thread sleeps, `Ready` and
`UsedUp` are the other threads. The constants are those of the code (10 spins,
20 yields, 64 to 1000 microseconds). Time spent spinning and yielding is not
counted: it is not what the ladder decides.

### Store buffers

In `ParkerWeak` and `WaiterListWeak` a store goes to the buffer of its thread
(`Store`) and reaches memory later (`Commit`), after loads that follow it in the
program. A SeqCst fence, and a release (unlock, unpark), wait for the buffer; an
atomic swap acts on memory. This is the reordering the Dekker protocol is about:
both mutants that remove a fence lose a wake-up. Reordering of loads among
themselves is not modelled. In `ParkerWeak` the senders also drop their handles:
`fetch_sub` acts on memory, the last one wakes, and the receiver looks at the slot,
at `senders` and at the slot again, each in a step of its own. In `WaiterListWeak`
the re-check of `send` loads `claim`, `head` and `rx_dropped` one after the other,
as in `Mpsc`; the claim of `try_send` is one step (below).

### Abstractions and assumptions

- **Memory model.** In `Spsc`, `Mpsc` and `Sharded` interleaving is sequentially
  consistent. The Release/Acquire edges on `tail`, `head` and `round` and the
  SeqCst fences of the wake protocol are what the code relies on for that view.
  That the fences suffice where stores are delayed is shown by `ParkerWeak` and
  `WaiterListWeak`; that the Release/Acquire edges suffice for the slots on
  hardware that reorders more is what `tests/loom.rs` explores and is *not* shown
  here.
- **Threads.** A handle stays on one thread, so the thread in a parker's slot is
  its side's own. An SPSC handle moved to another thread between calls leaves a
  registration of the old thread behind; that case is not modelled.
- **`std::thread::park`** is a one-place token that `unpark` sets; `park` returns
  when it finds it, or spuriously at any time. **`Arc`**: the last handle released
  runs `Shared::drop`. Both are external.
- **Mutexes** of the notify layer are held for a single action: `wake` keeps the
  guard of `slot` until `unpark` returned, `wake_all` that of `list` for its sweep.
- **Integers** are unbounded: an index is a count of messages and cannot reach
  2^64 in practice (on a 32-bit target it can reach 2^32, see section 5). `& mask` and `>> shift` are `%` and `\div` by a capacity that
  is a power of two (`assert_cap`), and `saturating_add` does not saturate.
- **Waiting** by spinning, yielding, timed parks, the claim backoff and the count
  of `PARK_SPINS` only delays a retry in the models of the rings; how long, is the
  subject of `IdleLadder`.
- **`Sharded`** takes a publish together with the load of `head` that found room,
  and a take together with the load of `tail` that found a message: only the
  shard's sender moves `tail` and only the receiver moves `head`, so nothing in
  between can make the test false. The shard's slots, messages and cached indices
  are what `SpscProof` proves things about and are left out; that this is sound is
  `ImplementsRing` of `Spsc`, whose `Ring` has the same coarse steps. The last look
  of a `drain` at a shard and the store of its guard stay two steps: a sender can
  publish in between.
- **`ParkerWeak`** has a ring that is never full, `WaiterListWeak` a ring of two
  counters: enough to say when a waiter may proceed. `WaiterListWeak` takes the
  loads of `claim` and `head` in `try_send` together with the exchange: `Full` is
  true at the load of `head`, a claim has room when it is won, and a lost exchange
  only tries again. `Mpsc` has these steps apart.
- **Messages** are numbered in the order they are offered.
- `val[p]`, `seq[p]` (MPSC) are reset when the call no longer uses them, `start`
  and `max` at the end of `drain`: this merges states that differ in dead locals.

Operators named `Mutant of ...` in a comment are plausible bugs that
`PROJECT.json` puts in place of the code's definition, to show that each property
can fail.

## 3. Runs

| Run | Bounds | Shows |
|---|---|---|
| `spsc_safety` | 2 slots, 6 messages, all drain limits 0, 1, 3, panics | Safety, `CachesDecideTruly` and both refinements. Six messages wrap the ring three times, so every slot is reused after either side went stale. |
| `spsc_live` | 2 slots, 4 messages, no panics | Producer wake-ups, no mutual sleep; blocking calls complete. Fairness below. |
| `spsc_panic_sleep` | 1 slot, 2 messages, panics | **Violated**, finding 1. |
| `spsc_drop_race` | 1 slot, 1 message | **Violated**, finding 2. |
| `mpsc_safety` | 2 senders, 2 slots, 3 messages, panics | Safety and refinement, holes and claims included: lost and spurious exchanges, holes, a slot used in a second round, clone and drop in any order. |
| `mpsc_live` | 2 senders, 1 slot, 2 messages, no panics | Producer wake-ups, no mutual sleep; blocking calls complete. One slot makes the second message block. At these bounds at most one sender is blocked and no message is published behind a hole; with the next larger ones (one slot or two, three messages: 2 to 6 million states) TLC's search for cycles no longer ends in minutes. Several blocked senders are the subject of `waiters_weak`, messages behind a hole of `mpsc_safety`, both of the theorems. |
| `sharded_safety` | 2 shards of 2 slots, 3 messages each, drain limits 0, 1, 3, 5, budget 2, panics | Honest answers, finite batches, both refinements per shard. A limit of 3 spans two shards, a limit of 1 stops inside one, a limit of 5 is more than the channel holds, so that only the single visit of each shard ends the batch; the budget is spent and reset. |
| `sharded_live` | 2 shards of 1 slot, 4 messages each, budget 1, no drain | The bound on bypasses, which four messages would exceed; `recv` completes without a cross-shard wake. |
| `sharded_bypass` | 2 shards of 1 slot, 4 messages, drain limit 1 | **Violated**, finding 3. |
| `idle_ladder` | the code's constants, clock of 40 us, `step` saturating at 36 | Delays, the direction of the ladder, a ready call returns. 36 lies behind the rung where `park` reaches its cap. |
| `parker_weak` | 2 senders, 4 messages | No lost wake-up over store buffers; what is published is received, and after the last sender's drop the consumer hears Disconnected. One sender can hold the slot while the other, with an older view of the flag, waits behind it. |
| `waiters_weak` | 3 senders, 1 slot, 2 messages | No sender left in the list, the list swept while senders enter it; all three can be blocked on the one slot, lose the race for it and register again; dropping the receiver ends every `send`. |

`BusySpin` stands for the three strategies that wake themselves: in the models
they take the same steps; `Sharded` runs with `Backoff` for the same reason. The bounds (`MaxOffers`, `Cap`, `DrainLimits`) keep the
runs to minutes; the safety properties of these runs are also theorems without
them. Deadlock is checked in every passing run: the system stops only in
`Terminated`, with every handle gone (in `WaiterListWeak` with the receiver gone and no sender
in a call), which includes that no reachable state has
all threads parked without a token and no spurious wake-up possible - since
spurious wake-ups are actions, it is the liveness runs, which give them no
fairness, that rule out an eternal sleep.

### Properties

- `TypeOK` is in the run of `Sharded`, where it says that the cursor stays inside the
  vector of shards. In the other modules it is a theorem (`TypeCorrect`) and part of
  every inductive invariant, so the runs spend their time elsewhere.
- `NoDataRace`: no slot is accessed by two threads at once.
- `Fifo`: what was moved out is what entered, in order; what is still inside is
  intact in its slot; for the MPSC ring no slot of an earlier round passes for a
  later one.
- `ExactlyOnce`: at destruction, received and dropped messages together are the
  sent ones.
- `DisconnectedMeansDrained`: the receiver hears `Disconnected` only when all is
  delivered and every sender gone.
- `ConsumerNeverMissesWake`, `ProducerNeverMissesWake`, `ProducersNeverMissWake`:
  a parked thread that could proceed has its token, or a waker is at a place from
  which it will set it.
- `NoMutualSleep`: the two sides never wait for each other. SPSC: a thread that
  sleeps without a token finds the other neither asleep nor gone. MPSC: a sleeping
  sender has a receiver that is not gone and, if that one sleeps too, another
  sender on its way to publish or to wake. The wake-up properties speak of one
  waiter and a ring that would let it go on; this one excludes that each side sees
  a ring that justifies its sleep. Finding 1 shows that it needs callbacks that do
  not panic.
- `CachesDecideTruly`: an action property. The caches save loads and change no
  decision: a side goes on exactly when the *shared* indices allow it at that
  moment. `Empty` is decided by the load of `tail` and answered one load later, so
  the answer itself may stand beside a message published in between. For the MPSC ring it is the claim of `docs/design.md` that every
  successful exchange has room "at that instant, for the true head".
- `HolesHaveWriters` (MPSC): a claimed sequence without its message has a sender
  at work on it, so the receiver never waits at a hole nobody will fill.
  `docs/design.md` (lines 617-625) says more than that, see below.
- `RecvCompletes`, `SendCompletes`: liveness.
- `ImplementsChannel`: refinement. A message enters the channel at the publish
  (SPSC) or at the claim (MPSC) and leaves when it is moved out of the slot; a
  side is gone when its flag is stored or the count of senders reaches zero.
- `ImplementsRing` (SPSC): refinement of the finer contract. `RingSpc`, `RingRpc`
  and `RingChead` map labels and the receiver's index: a message enters at the
  publish; `try_recv` takes it when it gives the slot back, `drain` when it moves it
  out; a blocked call is back at its first load, and parking, waking and the access
  to the slot are stutters.
- `NothingOverlooked` (sharded): `Empty`, or a batch shorter than asked for, means
  that all that was published when the sweep began is delivered.
- `DrainBounded` (sharded): a `drain` moves out at most `max` messages and at most
  the total capacity, although senders refill the shards behind it.
- `BoundedBypass` (sharded): a shard with a message is passed over by at most
  `VISIT_BUDGET` messages of each other shard.
- `ImplementsChannels` (sharded): every shard implements `Channel`, with its share
  of the capacity; every step of the whole is a step or a stutter of each.
- `ImplementsRings` (sharded): the same for `Ring`. The shard under the cursor sees
  the receiver's call, every other shard an idle receiver, until the sweep reaches
  it; the batch a shard is asked for is what the call still wants (`RingMax`).
- `DelayBounded`, `DelayProportional`, `LadderOnlyClimbs`, `ReadyCallReturns`
  (ladder): how late a self-waking waiter can be, absolutely and relative to what
  it slept before; it never goes back to an earlier rung; it does return.
- `NoLostWake`, `RecvAnswers` (`Parker` over store buffers): no lost wake-up, as an
  invariant and as liveness; what is published is received, and `Disconnected`
  comes after the last sender's drop and after all messages.
- `NobodyLeftParked`, `WaitersGoOn` (`WaiterList` over store buffers): a sender
  parked beside room returns, or another takes the room; a dropped receiver ends
  every `send`. A sender that loses the race for the slot and registers again is
  covered: the property speaks of every wait, not of the first.

### Fairness

`FairSpec` has weak fairness for the steps of each thread *inside a call*: the OS
keeps running a thread that is not blocked in `park`. Users need not make calls,
and `SpuriousUnpark` has no fairness: nothing may depend on it. The MPSC ring adds
strong fairness for the outcome of the exchange: `compare_exchange_weak` may fail
spuriously, but not for ever. `SendCompletes` of the MPSC ring promises only that
a sender does not stay while there is room: with other senders taking each slot
first, the code does not promise more. The other modules follow the same rule:
threads inside a call run; over store buffers every store reaches memory some
time (`Commit`), which the hardware guarantees; in `IdleLadder` the clock goes on
while a thread sleeps, and an early return of `park_timeout` has no fairness.

### Findings

1. `docs/design.md` (section 6) says that after a panic in `drain` a parked
   producer wakes on the next normal operation. `spsc_panic_sleep` shows one that
   does not: the next `recv` finds the ring empty, wakes nobody and parks; both
   threads sleep.
2. `docs/design.md` (section 5) says that no message disappears into a disconnect
   race on the send side. `spsc_drop_race` shows the receiver dropped between the
   check of the flag and the publish: `try_send` answers `Ok`, the message is
   destroyed with the ring. `Channel` therefore lets a message enter while the
   receiving side is already gone, and `ExactlyOnce` still holds.
3. `sharded.rs` says that `VISIT_BUDGET` bounds how long a hot producer can starve
   the others, and that `drain` holds its cursor by the same rule as `try_recv`.
   `sharded_bypass` shows a consumer that calls `drain(1)`: each call is filled by
   the shard under the cursor, which stays, and no budget is counted. As long as
   that producer keeps up, the other shard is never visited.

Two more passages of `docs/design.md` say more than the code does; they have no run
of their own. Lines 496-497 say that no MPSC send claims "a slot that no one will
ever drain": `try_send` checks `rx_dropped` once, before its claim, and so has the
window of finding 2; `Channel` lets a message enter there too, and `ExactlyOnce`
shows that `Shared::drop` destroys it. Lines 617-625 conclude, from senders that
block without a claim, that the receiver never meets a claimed slot without a
message and that all of those lie "beyond the consumer's position": a running
sender between its exchange and its publish leaves one at that very position. What
holds is `HolesHaveWriters`, and `slot_published` stops there.

## 4. Proofs

For each ring, `Spec => []P` for `TypeOK`, `NoDataRace`, `Fifo`, `ExactlyOnce`,
`DisconnectedMeansDrained`, the consumer's and (assuming `~CallbackPanics`) the
producers' wake-up property, and `Spec => ImplementsChannel`, for **every** power
of two `Cap`, every `MaxOffers`, every set of strategies and drain limits and, for
the MPSC ring, every finite set of senders. Assumptions: `CapAssumption`,
`ConstAssumption` and `SendersAssumption`.

None of the properties is inductive. `IndInv` strengthens them:

- `ControlInv` ties labels to calls and flags: who can be where in which call, the
  disconnect flags, and for the MPSC ring `senders = Cardinality(LiveSenders)`;
- `IndexInv` orders the indices. SPSC: `cachedHead <= head <= chead <= cachedTail
  <= tail = ptail <= cachedHead + Cap`. Only this makes a decision from a cached
  index safe. `head` lags behind `chead` exactly inside `drain` and before a
  publish, where it equals the guard's `start`;
- `OwnerInv` (MPSC): a sender between claim and publish owns a sequence of
  `chead..claim-1`, and no two own the same. A successful exchange preserves it
  because `claim = seq[p] < cachedHead[p] + Cap <= head + Cap`;
- `RoundInv` (MPSC): every claimed sequence not yet read is published or owned,
  never both, and no slot holds the round of a sequence not claimed;
- `ContentInv`: slots hold the messages of their sequences. It rests on
  `SlotDistinct`: sequences less than `Cap` apart have different slots, proved by
  division with remainder;
- `ToldInv`: once `senders = 0` was seen nothing is claimed any more, so the last
  look at the slot is conclusive;
- `WakeInv` (SPSC), `ConsumerWakeInv`, `ProducerWakeInv` (MPSC): from its
  registration on, a waiter is known to the wakers (token, or slot and flag, or a
  waker already past the flag), and from its re-check on a change of the ring
  puts a waker on the way. The producers' part needs callbacks that do not panic:
  `DrUnwind` is the one step that frees slots and wakes nobody;
- `FreedInv`: what `Shared::drop` destroyed is what was sent and not received.

The proofs have one lemma per part, one case per action. `ChannelStep` shows by
the same cases that every step is a step of `Channel` or a stutter.

From the same invariants, for the same constants:

- `NoMutualSleepCorrect` (both rings, assuming `~CallbackPanics`). A sleeping
  sender with no waker on the way means a full ring, a sleeping receiver an empty
  one; with `Cap > 0` it cannot be both. In the MPSC ring *empty* only means that
  the slot under `chead` is not published: `RoundInv` then names the sender that
  owns it;
- `CachesDecideTrulyCorrect` (both rings). A cached index is at most the true one,
  so a test it passes is true; a test it fails is repeated with the true one.
  For the exchange of the MPSC ring `claim = seq[p]` closes the gap in time;
- `HolesHaveWritersCorrect` (MPSC), from `RoundInv`;
- `RingRefinement` (SPSC): `Spec => ImplementsRing`. The steps fall into five
  kinds: what `Ring` does not see (`RingStutter`), the sender's, the receiver's and
  `drain`'s calls, and the handles. `Ring` tests again, at the publish, what `Spsc`
  tested some steps before: `IndexInv` carries the test across. For `drain` that
  takes a conjunct of its own: between `DrCheck` and `Read`, `chead - start < max`;
- `RingsRefinement` (sharded): `Spec => ImplementsRings`, for every number of
  shards. `Views` says what each shard sees of the sweep; a step of the sweep is
  a step for the shard it leaves, the beginning of a call for the one it reaches
  (`RingBegins`) and nothing for the others (`RingQuiet`).

The two last theorems together are the argument that `Sharded` may leave out what
is inside a ring: the module it leaves out implements the module it uses.

**Sharded channel** (`ShardedProof`), for every number of shards, power of two
per shard, budget, drain limits and number of messages, from `ChannelAssumption`
and `ConstAssumption`: `TypeOK`, `DisconnectedMeansDrained`, `NothingOverlooked`,
`DrainBounded`, `ImplementsChannels`, and `BoundedBypass` if `DrainLimits = {}`,
which finding 3 shows to be needed. A sweep is described by `Behind(s)`, how many
shards ago the cursor left `s`; `Visited(s) == Behind(s) <= visited`. `advance`
adds one to every `Behind(s)` and to `visited`, and gives the shard it left the
value 1 (`AdvanceFacts`), so that after `NShards` of them all are `Visited`.

- `GoneInv`: when every shard visited so far has answered Disconnected, all of
  them are `Dead` (no sender, nothing left). `Dead` is stable, which is the
  argument the code's comment gives, here the lemma `Stable`;
- `MarkInv`: what was published at the start of the sweep in a visited shard is
  delivered;
- `RingInv`, `BatchInv`: only the shard under the cursor of a `drain` holds back
  what it gave out, so a call cannot take more of a shard than it holds, and
  `count <= visited * PerShard`;
- `BypassInv`: a shard that has messages and was left `k` moves ago has been
  bypassed at most `VisitBudget * (k - 1)` times, plus the present budget.

The refinement sorts the steps into the six changes a shard can see (`ShardSteps`)
and shows each to be a step of `Channel` (`ShardMaps`).

**Idle ladder** (`IdleLadderProof`), for every grain of the clock, every `MaxStep`
of at least 30 and every set of self-waking strategies: all four safety
properties. A waiter is late by no more than what it has slept of the present
park, and a park is no longer than the floor plus all that was slept before.

**Store buffers** (`ParkerWeakProof`, `WaiterListWeakProof`), for every set of
senders, capacity and number of messages: `TypeOK`, `NoLostWake`,
`NobodyLeftParked`. `BufInv` says which store can be on its way at which label;
`SlotInv`/`ListInv` that a registered waiter can be found; `FlagInv` that after
its fence the flag is visible, or somebody who saw it is at work; `RecheckInv`
that what changes between the loads of one re-check (a publish before the load of
`senders`, room before the load of `rx_dropped`) comes with a wake.

Only model-checked: the liveness properties (fairness and `ENABLED` are outside the
prover; what each rests on is proved as a safety property: `ConsumerNeverMissesWake`,
`NoMutualSleep`, `HolesHaveWriters`, `NothingOverlooked`, `NoLostWake`), and that the
constants of the runs satisfy the assumptions.

## 5. Not modelled, and the plan

Not modelled:

- `atomic.rs`: re-exports and the padding of cache lines, no logic;
- the `Display` and `Error` implementations of `lib.rs`: formatting;
- benches and examples: they measure the rings from outside and print;
- the loom variants of `Parker` and `WaiterList` (`notify.rs`, lines 99-182): test
  doubles over a Mutex and a Condvar. Their list remembers an epoch, not the
  waiters, and behaves differently from the std list when several senders wait;
- memory orders weaker than store buffers: reordering of loads, and the
  Release/Acquire edges that carry the payload from slot to slot. A model of the
  C11 memory would be another project; `tests/loom.rs` explores it;
- the end of the range of `usize`: `saturating_add`, the range `head..tail` and the
  overflow of `+=` after 2^32 messages on a 32-bit target;
- SPSC handles that move to another thread between calls, and the registrations
  they leave behind;
- unwinding out of a payload's own destructor inside `Shared::drop`.

Order of work. All but the last two items are done.

1. `Channel`, `Spsc`, its runs; `SpscInv`, `SpscProof`.
2. `Mpsc`, its runs; `MpscInv`, `MpscProof`.
3. `Sharded`, its runs; `ShardedInv`, `ShardedProof`.
4. `IdleLadder` and its proof.
5. `ParkerWeak`, `WaiterListWeak` and their proofs.
6. `Ring`, and the two refinements that meet in it.
7. `Ring` implements `Channel` as a theorem of its own, so that the refinements of
   `Spsc` and of each shard follow by transitivity.
8. Handles that move between threads.
