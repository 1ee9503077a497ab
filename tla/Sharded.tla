------------------------------ MODULE Sharded ------------------------------
(***************************************************************************)
(* The sharded channel of src/sharded.rs: one SPSC ring per sender and a   *)
(* receiver that sweeps them with a sticky cursor.                         *)
(*                                                                         *)
(* A shard is what Spsc is proved to be, a bounded FIFO with a disconnect  *)
(* flag: slots, messages and cached indices are left out, the loads that   *)
(* decide what a sweep sees are separate steps.  Only the receiver moves head, so the  *)
(* load of tail that finds a message is one step with taking it; only the  *)
(* sender moves tail, so the load of head that finds room is one step with *)
(* the publish.  The accepted strategies wake themselves: waiting only     *)
(* delays the next attempt.                                                *)
(***************************************************************************)
EXTENDS Integers

CONSTANTS
    NShards, TotalCap, Strategy,   \* the arguments of channel()
    VisitBudget,                   \* VISIT_BUDGET
    DrainLimits,                   \* values users pass as max to drain()
    MaxOffers,                     \* bound: messages published per shard
    CallbackPanics                 \* whether the callback given to drain() may panic

\* The four assertions of channel().
channel_accepts(n_shards, total_cap, strategy) ==
    /\ n_shards > 0
    /\ total_cap % n_shards = 0
    /\ LET per_shard == total_cap \div n_shards
       IN  per_shard > 0 /\ \E k \in 0..per_shard : per_shard = 2^k
    /\ strategy # "Park"

ASSUME ChannelAssumption ==
    /\ NShards \in Nat /\ TotalCap \in Nat
    /\ Strategy \in {"BusySpin", "Backoff", "BackoffYield", "Park"}
    /\ channel_accepts(NShards, TotalCap, Strategy)
ASSUME ConstAssumption ==
    /\ VisitBudget \in Nat \ {0}
    /\ DrainLimits \subseteq Nat
    /\ MaxOffers \in Nat
    /\ CallbackPanics \in BOOLEAN

Shards   == 0..NShards-1
PerShard == TotalCap \div NShards

VARIABLES
    tail, head,          \* per shard: the ring's shared indices
    chead,               \* per shard: Receiver.head of the ring, what was moved out
    live, refs,          \* per shard: sides not yet dropped; sides that hold the Arc
    dropped,             \* per shard: how many messages were destroyed with the ring
    spc, sop,            \* per sender: label and call in progress
    cursor, budget,      \* Receiver.cursor, Receiver.budget
    rpc, rop,            \* the receiver's label and call in progress
    visited,             \* shards left behind in this sweep: the counter of the for loops
    gone,                \* the local disconnected of try_recv()
    count, max,          \* the locals of drain()
    answer,              \* history: what the receiver's last call answered
    mark,                \* history: per shard, messages published when the sweep began
    told,                \* history: per shard, sides the ring answered Disconnected
    bypassed             \* history: per shard, messages taken from others while it had some

shards  == <<tail, head, chead, live, refs, dropped>>
senders == <<spc, sop>>
sweep   == <<cursor, budget, visited, gone, count, max>>
rctl    == <<rpc, rop, answer>>
history == <<mark, told, bypassed>>
vars    == <<shards, senders, sweep, rctl, history>>

Pending(s) == tail[s] - chead[s]

\* The ring's flag: one serves both directions, each drop stores it.
disconnected(s) == live[s] # {"tx", "rx"}

-----------------------------------------------------------------------------

Init ==
    /\ tail = [s \in Shards |-> 0]
    /\ head = [s \in Shards |-> 0]
    /\ chead = [s \in Shards |-> 0]
    /\ live = [s \in Shards |-> {"tx", "rx"}]
    /\ refs = [s \in Shards |-> {"tx", "rx"}]
    /\ dropped = [s \in Shards |-> 0]
    /\ spc = [s \in Shards |-> "idle"]
    /\ sop = [s \in Shards |-> "none"]
    /\ cursor = 0 /\ budget = 0
    /\ rpc = "idle" /\ rop = "none" /\ answer = "none"
    /\ visited = 0 /\ gone = 0 /\ count = 0 /\ max = 0
    /\ mark = [s \in Shards |-> 0]
    /\ told = [s \in Shards |-> {}]
    /\ bypassed = [s \in Shards |-> 0]

-----------------------------------------------------------------------------
(* The sender of shard s.                                                  *)

SenderReturn(s) ==
    /\ spc' = [spc EXCEPT ![s] = "idle"]
    /\ sop' = [sop EXCEPT ![s] = "none"]

SenderCall(s, o) ==
    /\ spc[s] = "idle"
    /\ tail[s] < MaxOffers
    /\ spc' = [spc EXCEPT ![s] = "ts_disc"]
    /\ sop' = [sop EXCEPT ![s] = o]
    /\ UNCHANGED <<shards, sweep, rctl, history>>

TsDisconnected(s) ==
    /\ spc[s] = "ts_disc"
    /\ \/ /\ disconnected(s)
          /\ SenderReturn(s)
          /\ told' = [told EXCEPT ![s] = @ \cup {"tx"}]
       \/ /\ ~disconnected(s)
          /\ spc' = [spc EXCEPT ![s] = "ts_send"]
          /\ UNCHANGED <<sop, told>>
    /\ UNCHANGED <<shards, sweep, rctl, mark, bypassed>>

\* Mutant of TsSend: the whole capacity for every shard.
TsSendTotal(s) ==
    /\ spc[s] = "ts_send"
    /\ tail[s] - head[s] < TotalCap
    /\ tail' = [tail EXCEPT ![s] = @ + 1]
    /\ SenderReturn(s)
    /\ UNCHANGED <<head, chead, live, refs, dropped, sweep, rctl, history>>

\* Room in this shard: write and publish.  Full: try_send() answers it,
\* send() tries again.
TsSend(s) ==
    /\ spc[s] = "ts_send"
    /\ \/ /\ tail[s] - head[s] < PerShard
          /\ tail' = [tail EXCEPT ![s] = @ + 1]
          /\ SenderReturn(s)
       \/ /\ tail[s] - head[s] >= PerShard
          /\ IF sop[s] = "send"
             THEN spc' = [spc EXCEPT ![s] = "ts_disc"] /\ UNCHANGED sop
             ELSE SenderReturn(s)
          /\ UNCHANGED tail
    /\ UNCHANGED <<head, chead, live, refs, dropped, sweep, rctl, history>>

DropSender(s) ==
    /\ spc[s] = "idle"
    /\ live' = [live EXCEPT ![s] = @ \ {"tx"}]
    /\ spc' = [spc EXCEPT ![s] = "arc"]
    /\ UNCHANGED <<tail, head, chead, refs, dropped, sop, sweep, rctl, history>>

\* A side of shard s releases its Arc; the last one runs the ring's Shared::drop.
Release(s, side) ==
    /\ refs' = [refs EXCEPT ![s] = @ \ {side}]
    /\ dropped' = IF refs[s] = {side}
                  THEN [dropped EXCEPT ![s] = tail[s] - head[s]]
                  ELSE dropped
    /\ UNCHANGED <<tail, head, chead, live>>

SenderArc(s) ==
    /\ spc[s] = "arc"
    /\ Release(s, "tx")
    /\ spc' = [spc EXCEPT ![s] = "gone"]
    /\ UNCHANGED <<sop, sweep, rctl, history>>

-----------------------------------------------------------------------------
(* The receiver: try_recv() and recv().                                    *)

\* Mutant of advance: the end of the vector is tested one too late.
advance_past_end ==
    /\ cursor' = IF cursor = NShards THEN 0 ELSE cursor + 1
    /\ budget' = 0

advance ==
    /\ cursor' = IF cursor + 1 = NShards THEN 0 ELSE cursor + 1
    /\ budget' = 0

Answer(a) ==
    /\ answer' = a
    /\ rpc' = "idle" /\ rop' = "none"

\* The loops of the call end and their counters go out of scope.
SweepEnds == visited' = 0 /\ gone' = 0 /\ count' = 0 /\ max' = 0

\* Mutant of BeginSweep: no budget, the cursor stays while its shard has messages.
BeginSweepNoBudget ==
    /\ rpc' = "tr_tail"
    /\ visited' = 0 /\ gone' = 0
    /\ mark' = tail
    /\ UNCHANGED <<cursor, budget, count, max>>

\* The start of try_recv(): a spent budget moves the cursor on.
BeginSweep ==
    /\ IF budget >= VisitBudget THEN advance ELSE UNCHANGED <<cursor, budget>>
    /\ rpc' = "tr_tail"
    /\ visited' = 0 /\ gone' = 0
    /\ mark' = tail
    /\ UNCHANGED <<count, max>>

ReceiverCall(o) ==
    /\ rpc = "idle"
    /\ rop' = o /\ answer' = "none"
    /\ BeginSweep
    /\ UNCHANGED <<shards, senders, told, bypassed>>

\* Mutant of Retry: recv() sleeps until the cursor's own shard wakes it.
RetryOneShard ==
    /\ rpc = "retry"
    /\ Pending(cursor) > 0 \/ disconnected(cursor)
    /\ BeginSweep
    /\ UNCHANGED <<shards, senders, rop, answer, told, bypassed>>

\* recv() after a sweep that found nothing.
Retry ==
    /\ rpc = "retry"
    /\ BeginSweep
    /\ UNCHANGED <<shards, senders, rop, answer, told, bypassed>>

\* The oldest message of the cursor's shard is moved out.
MoveOut ==
    /\ chead' = [chead EXCEPT ![cursor] = @ + 1]
    /\ bypassed' = [s \in Shards |->
                       IF s = cursor \/ Pending(s) = 0 THEN 0 ELSE bypassed[s] + 1]

\* The shard's try_recv() answers Ok: it publishes its head, the budget shrinks.
Take ==
    /\ MoveOut
    /\ head' = [head EXCEPT ![cursor] = chead[cursor] + 1]
    /\ budget' = budget + 1
    /\ Answer("ok")
    /\ SweepEnds
    /\ UNCHANGED <<tail, live, refs, dropped, cursor, mark, told>>

\* Mutant of Leave: one disconnected shard is enough.
LeaveAnyGone(g) ==
    /\ advance
    /\ IF visited + 1 < NShards
       THEN /\ rpc' = "tr_tail"
            /\ visited' = visited + 1 /\ gone' = gone + g
            /\ UNCHANGED <<rop, answer, count, max>>
       ELSE /\ SweepEnds
            /\ \/ gone + g > 0 /\ Answer("disconnected")
               \/ gone + g = 0 /\ rop = "try_recv" /\ Answer("empty")
               \/ gone + g = 0 /\ rop = "recv" /\ rpc' = "retry" /\ UNCHANGED <<rop, answer>>
    /\ UNCHANGED <<shards, mark, bypassed>>

\* The shard had nothing, g = 1 if for good: on to the next one.  After a full
\* sweep try_recv() answers Disconnected or Empty; recv() tries again on Empty.
Leave(g) ==
    /\ advance
    /\ IF visited + 1 < NShards
       THEN /\ rpc' = "tr_tail"
            /\ visited' = visited + 1 /\ gone' = gone + g
            /\ UNCHANGED <<rop, answer, count, max>>
       ELSE /\ SweepEnds
            /\ \/ gone + g = NShards /\ Answer("disconnected")
               \/ gone + g # NShards /\ rop = "try_recv" /\ Answer("empty")
               \/ gone + g # NShards /\ rop = "recv" /\ rpc' = "retry" /\ UNCHANGED <<rop, answer>>
    /\ UNCHANGED <<shards, mark, bypassed>>

\* The shard's try_recv(): the load of tail ...
TrTail ==
    /\ rpc = "tr_tail"
    /\ \/ /\ Pending(cursor) > 0
          /\ Take
       \/ /\ Pending(cursor) = 0
          /\ rpc' = "tr_disc"
          /\ UNCHANGED <<shards, sweep, rop, answer, history>>
    /\ UNCHANGED senders

\* ... of the flag ...
TrDisconnected ==
    /\ rpc = "tr_disc"
    /\ \/ /\ disconnected(cursor)
          /\ rpc' = "tr_last"
          /\ UNCHANGED <<shards, sweep, rop, answer, history>>
       \/ /\ ~disconnected(cursor)
          /\ Leave(0)
          /\ UNCHANGED told
    /\ UNCHANGED senders

\* ... and of tail once more.
TrLast ==
    /\ rpc = "tr_last"
    /\ \/ /\ Pending(cursor) > 0
          /\ Take
       \/ /\ Pending(cursor) = 0
          /\ Leave(1)
          /\ told' = [told EXCEPT ![cursor] = @ \cup {"rx"}]
    /\ UNCHANGED senders

-----------------------------------------------------------------------------
(* The receiver: drain() and drop.                                         *)

\* With max = 0 the loop breaks at its first test.
DrainCall(m) ==
    /\ rpc = "idle"
    /\ \/ /\ m = 0
          /\ answer' = "batch"
          /\ UNCHANGED <<rpc, rop, max, mark>>
       \/ /\ m > 0
          /\ rpc' = "dr_take" /\ rop' = "drain" /\ answer' = "none"
          /\ max' = m
          /\ mark' = tail
    /\ UNCHANGED <<shards, senders, cursor, budget, visited, gone, count, told, bypassed>>

\* Messages this call has moved out of the cursor's shard and not yet given back.
took == chead[cursor] - head[cursor]

\* What drain() still wants of the cursor's shard.
Want == max - count

\* Mutant of DrTake: every slot is given back as soon as its message is moved out.
DrTakeReleases ==
    /\ rpc = "dr_take"
    /\ took < Want
    /\ Pending(cursor) > 0
    /\ MoveOut
    /\ head' = [head EXCEPT ![cursor] = chead[cursor] + 1]
    /\ rpc' \in {"dr_take"} \cup (IF CallbackPanics THEN {"dr_unwind"} ELSE {})
    /\ UNCHANGED <<tail, live, refs, dropped, senders, sweep, rop, answer, mark, told>>

\* The shard's drain(): one more message goes to the callback.
DrTake ==
    /\ rpc = "dr_take"
    /\ took < Want
    /\ Pending(cursor) > 0
    /\ MoveOut
    /\ rpc' \in {"dr_take"} \cup (IF CallbackPanics THEN {"dr_unwind"} ELSE {})
    /\ UNCHANGED <<tail, head, live, refs, dropped, senders, sweep, rop, answer, mark, told>>

\* The loop of the shard's drain() ends: enough, or nothing more in sight.  The
\* sender goes on publishing before the guard gives the slots back.
DrEnd ==
    /\ rpc = "dr_take"
    /\ took = Want \/ Pending(cursor) = 0
    /\ rpc' = "dr_guard"
    /\ UNCHANGED <<shards, senders, sweep, rop, answer, history>>

\* Its PublishGuard: the shared head catches up with what was moved out.
PublishGuardDrop ==
    /\ head' = [head EXCEPT ![cursor] = chead[cursor]]
    /\ UNCHANGED <<tail, chead, live, refs, dropped>>

\* Mutant of DrShardDone: the sweep stops one shard early.
DrShardDoneEarly ==
    /\ rpc = "dr_guard"
    /\ PublishGuardDrop
    /\ \/ /\ took = Want
          /\ Answer("batch") /\ SweepEnds
          /\ UNCHANGED <<cursor, budget>>
       \/ /\ took # Want
          /\ advance
          /\ IF visited + 2 < NShards
             THEN /\ rpc' = "dr_take"
                  /\ visited' = visited + 1 /\ count' = count + took
                  /\ UNCHANGED <<gone, max, rop, answer>>
             ELSE Answer("short") /\ SweepEnds
    /\ UNCHANGED <<senders, history>>

\* Mutant of DrShardDone: the sweep goes round as long as shards yield something.
DrShardDoneGoesOn ==
    /\ rpc = "dr_guard"
    /\ PublishGuardDrop
    /\ \/ /\ took = Want
          /\ Answer("batch") /\ SweepEnds
          /\ UNCHANGED <<cursor, budget>>
       \/ /\ took # Want
          /\ advance
          /\ IF took > 0 \/ visited + 1 < NShards
             THEN /\ rpc' = "dr_take"
                  /\ visited' = IF took > 0 THEN visited ELSE visited + 1
                  /\ count' = count + took
                  /\ UNCHANGED <<gone, max, rop, answer>>
             ELSE Answer("short") /\ SweepEnds
    /\ UNCHANGED <<senders, history>>

\* The shard's drain() returns.  A batch that is complete holds the cursor;
\* otherwise on to the next shard, each visited once.
DrShardDone ==
    /\ rpc = "dr_guard"
    /\ PublishGuardDrop
    /\ \/ /\ took = Want
          /\ Answer("batch") /\ SweepEnds
          /\ UNCHANGED <<cursor, budget>>
       \/ /\ took # Want
          /\ advance
          /\ IF visited + 1 < NShards
             THEN /\ rpc' = "dr_take"
                  /\ visited' = visited + 1 /\ count' = count + took
                  /\ UNCHANGED <<gone, max, rop, answer>>
             ELSE Answer("short") /\ SweepEnds
    /\ UNCHANGED <<senders, history>>

\* The callback panicked: the guard publishes, the sweep is abandoned where it is.
DrUnwind ==
    /\ rpc = "dr_unwind"
    /\ PublishGuardDrop
    /\ Answer("panic") /\ SweepEnds
    /\ UNCHANGED <<senders, cursor, budget, history>>

\* Dropping the receiver drops the rings' receivers one after the other.
DropReceiver ==
    /\ rpc = "idle"
    /\ rpc' = "rx_drop" /\ rop' = "drop"
    /\ UNCHANGED <<shards, senders, sweep, answer, history>>

RxDrop ==
    /\ rpc = "rx_drop"
    /\ live' = [live EXCEPT ![visited] = @ \ {"rx"}]
    /\ rpc' = "rx_arc"
    /\ UNCHANGED <<tail, head, chead, refs, dropped, senders, sweep, rop, answer, history>>

RxArc ==
    /\ rpc = "rx_arc"
    /\ Release(visited, "rx")
    /\ IF visited + 1 < NShards
       THEN visited' = visited + 1 /\ rpc' = "rx_drop"
       ELSE visited' = 0 /\ rpc' = "gone"
    /\ UNCHANGED <<senders, cursor, budget, gone, count, max, rop, answer, history>>

-----------------------------------------------------------------------------

SenderStep(s) == TsDisconnected(s) \/ TsSend(s) \/ SenderArc(s)

ReceiverStep ==
    \/ Retry \/ TrTail \/ TrDisconnected \/ TrLast
    \/ DrTake \/ DrEnd \/ DrShardDone \/ DrUnwind
    \/ RxDrop \/ RxArc

Calls ==
    \/ \E s \in Shards : \/ \E o \in {"try_send", "send"} : SenderCall(s, o)
                         \/ DropSender(s)
    \/ \E o \in {"try_recv", "recv"} : ReceiverCall(o)
    \/ \E m \in DrainLimits : DrainCall(m)
    \/ DropReceiver

\* Every handle is gone: the only way for the system to stop.
Terminated ==
    /\ rpc = "gone" /\ \A s \in Shards : spc[s] = "gone"
    /\ UNCHANGED vars

Next ==
    \/ \E s \in Shards : SenderStep(s)
    \/ ReceiverStep \/ Calls \/ Terminated

Spec == Init /\ [][Next]_vars

\* A thread inside a call keeps running; users need not call.
FairSpec == Spec /\ WF_vars(ReceiverStep) /\ \A s \in Shards : WF_vars(SenderStep(s))

-----------------------------------------------------------------------------
(* Properties.                                                             *)

SenderPcs   == {"idle", "ts_disc", "ts_send", "arc", "gone"}
ReceiverPcs == {"idle", "retry", "tr_tail", "tr_disc", "tr_last",
                "dr_take", "dr_guard", "dr_unwind", "rx_drop", "rx_arc", "gone"}

RingTypes ==
    /\ tail \in [Shards -> Nat] /\ head \in [Shards -> Nat] /\ chead \in [Shards -> Nat]
    /\ \A s \in Shards : head[s] <= chead[s] /\ chead[s] <= tail[s]
    /\ live \in [Shards -> SUBSET {"tx", "rx"}] /\ refs \in [Shards -> SUBSET {"tx", "rx"}]
    /\ dropped \in [Shards -> Nat]

SenderTypes ==
    /\ spc \in [Shards -> SenderPcs]
    /\ sop \in [Shards -> {"none", "try_send", "send"}]

ReceiverTypes ==
    /\ rpc \in ReceiverPcs
    /\ rop \in {"none", "try_recv", "recv", "drain", "drop"}
    /\ answer \in {"none", "ok", "empty", "disconnected", "batch", "short", "panic"}
    /\ cursor \in Shards /\ visited \in Shards
    /\ budget \in Nat /\ gone \in Nat /\ count \in Nat /\ max \in Nat

HistoryTypes ==
    /\ mark \in [Shards -> Nat] /\ bypassed \in [Shards -> Nat]
    /\ told \in [Shards -> SUBSET {"tx", "rx"}]

\* The rings, the handles and the locals of the receiver's calls have their
\* types; the cursor and the loop counters stay inside the vector of shards.
TypeOK == RingTypes /\ SenderTypes /\ ReceiverTypes /\ HistoryTypes

\* try_recv() and recv() answer Disconnected only when every sender is gone and
\* every message of every shard is delivered, although the count is taken shard
\* by shard while the other senders go on sending and dropping.
DisconnectedMeansDrained ==
    answer = "disconnected" =>
        \A s \in Shards : "tx" \notin live[s] /\ chead[s] = tail[s]

\* A call that answers Empty, or a drain() that returns fewer than asked for, has
\* overlooked nothing: what was published when its sweep began is delivered, in
\* whichever shard it was and wherever the cursor started.
NothingOverlooked ==
    answer \in {"empty", "short"} =>
        \A s \in Shards : chead[s] >= mark[s]

\* VISIT_BUDGET bounds how long a hot producer can starve the others: a shard
\* with a message waits for at most VISIT_BUDGET messages of each other shard.
BoundedBypass ==
    \A s \in Shards : bypassed[s] <= (NShards - 1) * VisitBudget

\* One drain() is finite while producers keep refilling: it moves out at most
\* max messages and at most what the channel can hold, because no shard gets
\* room back before the call has left it and no shard is visited twice.
DrainBounded ==
    rop = "drain" => count + took <= max /\ count + took <= TotalCap

\* The n messages after the k-th one, by their numbers in the shard.
Numbers(k, n) == [i \in 1..n |-> k + i]

\* Seen from outside every shard is the bounded FIFO of Channel, with the
\* capacity total_cap / n_shards: nothing lost, delivered twice or left over, the
\* rest destroyed with the ring, also when a drain() callback panics.
Shard(s) == INSTANCE Channel WITH
    Cap <- PerShard, Msgs <- 1..MaxOffers,
    sent <- Numbers(0, tail[s]), delivered <- Numbers(0, chead[s]),
    dropped <- Numbers(chead[s], dropped[s]),
    live <- [side \in {"tx", "rx"} |-> side \in live[s]],
    told <- told[s], freed <- refs[s] = {}

ImplementsChannels ==
    /\ \A s \in Shards : Shard(s)!Init
    /\ [][\A s \in Shards : [Shard(s)!Next]_(Shard(s)!vars)]_vars

\* Every shard is driven as the ring of spsc.rs is: the sweeps of the receiver
\* call try_recv() and drain() of one shard after the other, never of two at
\* once, and a drain() of the shard under the cursor asks for what the batch
\* still lacks.
Sweeps(s)  == s = cursor /\ rop \in {"try_recv", "recv", "drain"} /\ rpc # "retry"
RingSpc(s) == IF spc[s] \in {"ts_disc", "ts_send"} THEN spc[s] ELSE "idle"
RingRpc(s) == IF Sweeps(s) THEN rpc ELSE "idle"
RingMax(s) == IF Sweeps(s) /\ rop = "drain" THEN Want ELSE 0

R(s) == INSTANCE Ring WITH
    Cap <- PerShard,
    tail <- tail[s], head <- head[s], chead <- chead[s],
    live <- live[s], refs <- refs[s], dropped <- dropped[s], told <- told[s],
    spc <- RingSpc(s), rpc <- RingRpc(s), max <- RingMax(s)

ImplementsRings ==
    /\ \A s \in Shards : R(s)!Init
    /\ [][\A s \in Shards : [R(s)!Next]_(R(s)!vars)]_vars

\* A recv() that has something to return does return: a pending message in any
\* shard, or the end of all senders, ends the call.
RecvCompletes ==
    (/\ rop = "recv"
     /\ \/ \E s \in Shards : Pending(s) > 0
        \/ \A s \in Shards : "tx" \notin live[s]) ~> rop # "recv"
=============================================================================
