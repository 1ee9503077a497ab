---------------------------- MODULE ShardedInv ----------------------------
(***************************************************************************)
(* The inductive invariant behind the safety properties of Sharded, as a   *)
(* conjunction of named parts.  ShardedProof proves that every step        *)
(* preserves it.                                                           *)
(***************************************************************************)
EXTENDS Sharded

RecvPcs  == {"tr_tail", "tr_disc", "tr_last"}
DrainPcs == {"dr_take", "dr_guard", "dr_unwind"}
SweepPcs == RecvPcs \cup DrainPcs

\* How many shards ago the cursor left s: 1 for the one just left, NShards for
\* the one it is on.  It tells which shards this sweep has left behind.
Behind(s)  == IF s < cursor THEN cursor - s ELSE cursor + NShards - s
Visited(s) == Behind(s) <= visited

\* The sender is gone and everything it sent is delivered: for good.
Dead(s) == "tx" \notin live[s] /\ tail[s] = chead[s]

\* Where a sender can be in each call, and which of its handles that leaves.
SenderInv == \A s \in Shards :
    /\ spc[s] \in {"ts_disc", "ts_send"} <=> sop[s] # "none"
    /\ spc[s] \in {"ts_disc", "ts_send"} => tail[s] < MaxOffers
    /\ "tx" \in live[s] <=> spc[s] \notin {"arc", "gone"}
    /\ "tx" \in refs[s] <=> spc[s] # "gone"

\* Where the receiver can be in each call, which counters are in use there and
\* which rings it still holds.
ReceiverInv ==
    /\ rpc \in RecvPcs => rop \in {"try_recv", "recv"}
    /\ rpc = "retry" => rop = "recv"
    /\ rpc \in DrainPcs <=> rop = "drain"
    /\ rpc \in {"rx_drop", "rx_arc", "gone"} <=> rop = "drop"
    /\ rpc = "idle" => rop = "none"
    /\ rop \in {"try_recv", "recv", "drain"} => answer = "none"
    /\ rpc \in {"idle", "retry", "gone"} => visited = 0
    /\ rpc \notin RecvPcs => gone = 0
    /\ rpc \notin DrainPcs => count = 0
    /\ \A s \in Shards :
          /\ "rx" \notin live[s] <=>
                \/ rpc = "gone"
                \/ rop = "drop" /\ (s < visited \/ (s = visited /\ rpc = "rx_arc"))
          /\ "rx" \notin refs[s] <=> rpc = "gone" \/ (rop = "drop" /\ s < visited)

\* A ring holds at most its capacity; only a drain() in progress keeps back
\* what it has moved out.
RingInv == \A s \in Shards :
    /\ tail[s] <= head[s] + PerShard
    /\ head[s] = chead[s] \/ (rop = "drain" /\ s = cursor)

\* Who has been answered Disconnected, and what the count of a sweep stands for.
GoneInv ==
    /\ rpc = "tr_last" => "tx" \notin live[cursor]
    /\ gone <= visited
    /\ rpc \in RecvPcs /\ gone = visited => \A s \in Shards : Visited(s) => Dead(s)
    /\ answer = "disconnected" => \A s \in Shards : Dead(s)
    /\ \A s \in Shards : /\ "rx" \in told[s] => Dead(s)
                         /\ "tx" \in told[s] => "rx" \notin live[s]

\* What a sweep has left behind held nothing it should have taken.
MarkInv ==
    /\ \A s \in Shards : mark[s] <= tail[s]
    /\ rpc \in SweepPcs =>
          \A s \in Shards : Visited(s) => chead[s] >= mark[s]
    /\ rpc \in {"tr_disc", "tr_last"} => chead[cursor] >= mark[cursor]
    /\ rpc = "dr_guard" /\ took # Want => chead[cursor] >= mark[cursor]
    /\ NothingOverlooked

\* The batch of a drain().
BatchInv ==
    rop = "drain" => /\ count < max /\ count + took <= max
                     /\ count <= visited * PerShard

\* How far a shard with messages can have been bypassed when the cursor has
\* moved on k times since it was there.
Allowance(k) == VisitBudget * k

\* The budget of the shard under the cursor and the bypasses of the others.
BypassInv ==
    /\ rop # "drain"
    /\ budget <= VisitBudget
    /\ rpc \in RecvPcs => budget < VisitBudget
    /\ budget > 0 => bypassed[cursor] = 0
    /\ rpc \in {"tr_disc", "tr_last"} => bypassed[cursor] = 0
    /\ \A s \in Shards :
          /\ tail[s] = chead[s] => bypassed[s] = 0
          /\ bypassed[s] <= Allowance(Behind(s) - 1) + (IF s = cursor THEN 0 ELSE budget)

\* Nothing is destroyed before both sides have released the ring.
FreedInv == \A s \in Shards : refs[s] # {} => dropped[s] = 0

\* Everything below holds of every reachable state; only a receiver that never
\* calls drain() keeps the bound on bypasses.
IndInv ==
    /\ TypeOK /\ SenderInv /\ ReceiverInv /\ RingInv /\ GoneInv /\ MarkInv /\ BatchInv /\ FreedInv
    /\ DrainLimits = {} => BypassInv
=============================================================================
