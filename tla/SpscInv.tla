------------------------------ MODULE SpscInv ------------------------------
(***************************************************************************)
(* The inductive invariant behind the safety properties of Spsc, as a      *)
(* conjunction of named parts.  TLC checks it as an invariant of the       *)
(* model; SpscProof proves that every step preserves it.                   *)
(***************************************************************************)
EXTENDS Spsc

WakePcs    == {"wake_load", "wake_store", "wake_take"}
TrySendPcs == {"ts_disc", "ts_full", "write", "publish"}
TryRecvPcs == {"tr_check", "tr_disc", "tr_last", "tr_publish"}
DrainPcs   == {"dr_check", "dr_guard", "dr_unwind"}

\* Where a thread can be in each call, which parker it wakes, and what the
\* one disconnect flag stands for.
ControlInv ==
    /\ \A t \in Threads :
          /\ pc[t] = "idle" => op[t] = "none"
          /\ pc[t] \in {"arc", "gone"} => op[t] = "drop"
          /\ op[t] = "drop" => pc[t] \in WakePcs \cup {"arc", "gone"}
          /\ pc[t] \in ParkPcs => /\ op[t] = IF t = "P" THEN "send" ELSE "recv"
                                  /\ strategy = "Park"
          /\ pc[t] \in WakePcs => \/ waking[t] = Own(Other(t))
                                  \/ op[t] = "drop" /\ waking[t] \in Parkers
          /\ pc[t] \notin WakePcs => waking[t] = "none"
          /\ t \in refs <=> pc[t] # "gone"
    /\ pc["P"] \in TrySendPcs => op["P"] \in {"try_send", "send"}
    /\ pc["C"] \in TryRecvPcs => op["C"] \in {"try_recv", "recv"}
    /\ pc["C"] \in DrainPcs => op["C"] = "drain"
    /\ pc["C"] = "read" => op["C"] \in {"try_recv", "recv", "drain"}
    /\ pc["C"] = "dr_unwind" => CallbackPanics
    /\ disconnected <=> (op["P"] = "drop" \/ op["C"] = "drop")

\* drain() has moved messages out whose slots it has not yet given back.
InDrain == op["C"] = "drain" /\ pc["C"] \in DrainPcs \cup {"read"}

\* The order of the six indices: what a side has cached is never ahead of
\* what the other side has published.
IndexInv ==
    /\ cachedHead <= head /\ head <= chead /\ chead <= cachedTail /\ cachedTail <= tail
    /\ tail = ptail /\ ptail <= cachedHead + Cap
    /\ Len(sent) = tail /\ Len(delivered) = chead
    /\ pc["P"] \in {"write", "publish"} => ptail < cachedHead + Cap
    /\ pc["C"] = "read" => chead < cachedTail
    /\ pc["C"] = "read" /\ op["C"] = "drain" => chead - start < max
    /\ InDrain => start = head
    /\ ~InDrain /\ pc["C"] # "tr_publish" => head = chead

\* Slots between the two indices hold the messages published, in order.
ContentInv ==
    /\ op["P"] \in {"try_send", "send"} => offered \in 1..MaxOffers
    /\ pc["P"] = "publish" => buf[Slot(ptail)] = offered
    /\ \A n \in chead..tail-1 : buf[Slot(n)] = sent[n + 1]
    /\ \A i \in 1..chead : delivered[i] = sent[i]

\* Who has been answered Disconnected, or is about to be.
ToldInv ==
    /\ pc["C"] = "tr_last" => op["P"] = "drop"
    /\ "C" \in told => op["P"] = "drop" /\ chead = tail
    /\ "P" \in told => op["C"] = "drop"

\* A thread on its way to park is known to whoever will wake it: its token is
\* already there, or its Thread is in the slot and a waker will look.
Registered(t) ==
    \/ token[t]
    \/ /\ slot[Own(t)]
       /\ \/ parked[Own(t)]
          \/ waking[Other(t)] = Own(t) /\ pc[Other(t)] = "wake_take"

\* The protocol of prepare_park, re-check and wake, for thread t.
WakeInv(t) ==
    /\ pc[t] = "prepare_flag" => token[t] \/ slot[Own(t)]
    /\ pc[t] \in {"recheck", "recheck_disc", "park"} => Registered(t)
    /\ pc[t] = "recheck_disc" /\ RingReady(t) => WakePending(t)
    /\ pc[t] = "park" /\ (RingReady(t) \/ disconnected) => WakePending(t)

\* What is left in the ring when the last handle goes is dropped then.
FreedInv ==
    refs = {} => dropped = [i \in 1..(tail - chead) |-> sent[chead + i]]

\* Everything below holds of every state the ring can reach; the producer's
\* side of the wake protocol needs callbacks that do not panic.
IndInv ==
    /\ TypeOK /\ ControlInv /\ IndexInv /\ ContentInv /\ ToldInv /\ FreedInv
    /\ WakeInv("C")
    /\ ~CallbackPanics => WakeInv("P")
=============================================================================
