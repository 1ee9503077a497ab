------------------------------ MODULE MpscInv ------------------------------
(***************************************************************************)
(* The inductive invariant behind the safety properties of Mpsc, as a      *)
(* conjunction of named parts.  TLC checks it as an invariant of the       *)
(* model; MpscProof proves that every step preserves it.                   *)
(***************************************************************************)
EXTENDS Mpsc, FiniteSets

\* The senders are counted, so there are finitely many of them.
ASSUME SendersAssumption == IsFiniteSet(Senders)

WakePcs    == {"wake_load", "wake_store", "wake_take"}
WaitPcs    == {"wait_push", "wait_flag", "recheck_claim", "recheck_head", "recheck_disc", "park"}
TrySendPcs == {"ts_disc", "ts_claim", "ts_full", "ts_cas", "write", "publish"}
RecvPcs    == {"tr_check", "tr_senders", "tr_last", "tr_publish", "pre_spin", "prepare_slot",
               "prepare_flag", "recheck", "recheck_senders", "cancel", "park", "unparked"}
DrainPcs   == {"dr_check", "dr_guard", "dr_unwind"}

\* The handles Shared.senders counts.
LiveSenders == {p \in Senders : pc[p] # "unborn" /\ op[p] # "drop"}

\* Where a thread can be in each call, and what the counter and the flag of
\* the two disconnects stand for.
ControlInv ==
    /\ \A p \in Senders :
          /\ pc[p] \in {"idle", "unborn"} => op[p] = "none"
          /\ pc[p] \in {"arc", "gone"} => op[p] = "drop"
          /\ op[p] = "drop" => pc[p] \in WakePcs \cup {"arc", "gone"}
          /\ pc[p] \in TrySendPcs => op[p] \in {"try_send", "send"}
          /\ pc[p] \in WaitPcs => op[p] = "send" /\ strategy = "Park"
          /\ p \in refs <=> pc[p] \notin {"gone", "unborn"}
    /\ pc["C"] = "idle" => op["C"] = "none"
    /\ pc["C"] \in {"arc", "gone"} => op["C"] = "drop"
    /\ op["C"] = "drop" => pc["C"] \in {"wake_swap", "wake_list", "arc", "gone"}
    /\ pc["C"] \in RecvPcs => op["C"] \in {"try_recv", "recv"}
    /\ pc["C"] \in DrainPcs => op["C"] = "drain"
    /\ pc["C"] = "read" => op["C"] \in {"try_recv", "recv", "drain"}
    /\ pc["C"] = "dr_unwind" => CallbackPanics
    /\ "C" \in refs <=> pc["C"] # "gone"
    /\ rxDropped <=> op["C"] = "drop"
    /\ senders = Cardinality(LiveSenders)

\* drain() has moved messages out whose slots it has not yet given back.
InDrain == op["C"] = "drain" /\ pc["C"] \in DrainPcs \cup {"read"}

\* A sender between its claim and its publish: the owner of a sequence.
Owner(p) == pc[p] \in {"write", "publish"}

\* The order of the indices.
IndexInv ==
    /\ head <= chead /\ chead <= claim /\ claim <= head + Cap
    /\ Len(sent) = claim /\ Len(delivered) = chead
    /\ InDrain => start = head
    /\ ~InDrain /\ pc["C"] # "tr_publish" => head = chead

\* What a sender knows of them, and the sequences the senders own.
OwnerInv ==
    /\ \A p \in Senders :
          /\ cachedHead[p] <= head
          /\ pc[p] \in {"ts_full", "ts_cas", "recheck_head"} => seq[p] <= claim
          /\ pc[p] = "ts_cas" => seq[p] < cachedHead[p] + Cap
          /\ Owner(p) => chead <= seq[p] /\ seq[p] < claim
    /\ \A p, q \in Senders : Owner(p) /\ Owner(q) /\ p # q => seq[p] # seq[q]

\* Every claimed sequence is published or owned, never both; the rounds in
\* the slots are those of sequences already claimed.
RoundInv ==
    /\ \A i \in 0..Cap-1 : (Cap * round[i]) + i < claim
    /\ \A p \in Senders : Owner(p) => ~Published(seq[p])
    /\ \A n \in chead..claim-1 : Published(n) \/ \E p \in Senders : Owner(p) /\ seq[p] = n
    /\ pc["C"] = "read" => Published(chead)

\* Published slots hold the message of their sequence.
ContentInv ==
    /\ \A p \in Senders :
          /\ op[p] \in {"try_send", "send"} /\ pc[p] \notin WakePcs => val[p] \in 1..MaxOffers
          /\ Owner(p) => val[p] = sent[seq[p] + 1]
          /\ pc[p] = "publish" => value[Slot(seq[p])] = val[p]
    /\ \A n \in chead..claim-1 : Published(n) => value[Slot(n)] = sent[n + 1]
    /\ \A i \in 1..chead : delivered[i] = sent[i]

\* Who has been answered Disconnected, or is about to be.
ToldInv ==
    /\ pc["C"] = "tr_last" => senders = 0
    /\ "C" \in told => senders = 0 /\ chead = claim
    /\ told \cap Senders # {} => rxDropped

\* Some sender is inside wake() and will set the consumer's token.
ConsumerPending ==
    \/ token["C"]
    \/ slot /\ \E p \in Senders : \/ pc[p] \in {"wake_store", "wake_take"}
                                  \/ pc[p] = "wake_load" /\ parked

\* The consumer's way into park: known to the wakers from its registration on.
ConsumerWakeInv ==
    /\ pc["C"] \in {"pre_spin", "prepare_slot", "prepare_flag", "recheck", "recheck_senders",
                   "cancel", "park", "unparked"} => strategy = "Park"
    /\ pc["C"] = "prepare_flag" => token["C"] \/ slot
    /\ pc["C"] \in {"recheck", "recheck_senders", "park"} =>
          \/ token["C"]
          \/ slot /\ (parked \/ \E p \in Senders : pc[p] = "wake_take")
    /\ pc["C"] = "recheck_senders" /\ Published(chead) => ConsumerPending
    /\ pc["C"] = "park" /\ (Published(chead) \/ senders = 0) => ConsumerPending

\* The receiver is inside wake_all() and will set the token of p.
ProducerPending(p) ==
    \/ token[p]
    \/ p \in list /\ (pc["C"] = "wake_list" \/ (pc["C"] = "wake_swap" /\ waiting))

\* A sender's way into park.
ProducerWakeInv ==
    \A p \in Senders :
        /\ pc[p] = "wait_flag" => token[p] \/ p \in list
        /\ pc[p] \in {"recheck_claim", "recheck_head", "recheck_disc", "park"} =>
              token[p] \/ (p \in list /\ (waiting \/ pc["C"] = "wake_list"))
        /\ pc[p] = "recheck_disc" /\ ~IsFull(claim, head) => ProducerPending(p)
        /\ pc[p] = "park" /\ (~IsFull(claim, head) \/ rxDropped) => ProducerPending(p)

\* What is left in the ring when the last handle goes is dropped then.
FreedInv ==
    refs = {} => dropped = [i \in 1..(claim - chead) |-> sent[chead + i]]

\* Everything below holds of every state the ring can reach; the producers'
\* side of the wake protocol needs callbacks that do not panic.
IndInv ==
    /\ TypeOK /\ ControlInv /\ IndexInv /\ OwnerInv /\ RoundInv /\ ContentInv
    /\ ToldInv /\ FreedInv
    /\ ConsumerWakeInv
    /\ ~CallbackPanics => ProducerWakeInv
=============================================================================
