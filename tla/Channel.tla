------------------------------ MODULE Channel ------------------------------
(***************************************************************************)
(* What one ring promises its users: a bounded FIFO between a sending and  *)
(* a receiving side, each of which can be dropped.  Every message that     *)
(* entered leaves exactly once, to the receiver or to the destructor of    *)
(* the ring.  "Disconnected" is an answer a side may only get when the     *)
(* other side is gone and, for the receiver, nothing is left to deliver.   *)
(* Detailed specifications implement this one through INSTANCE.            *)
(***************************************************************************)
EXTENDS Integers, Sequences

CONSTANTS
    Cap,                 \* capacity of the ring
    Msgs                 \* the messages users may send

VARIABLES
    sent,                \* messages that entered, in the order they entered
    delivered,           \* messages handed to the receiver
    dropped,             \* messages destroyed with the ring
    live,                \* live[s]: side s ("tx" or "rx") is not yet dropped
    told,                \* sides that were answered Disconnected
    freed                \* the ring itself is destroyed

vars == <<sent, delivered, dropped, live, told, freed>>

Pending == Len(sent) - Len(delivered)

Init ==
    /\ sent = <<>>
    /\ delivered = <<>>
    /\ dropped = <<>>
    /\ live = [s \in {"tx", "rx"} |-> TRUE]
    /\ told = {}
    /\ freed = FALSE

\* A message enters.  The receiving side may already be gone: the check for
\* it and the insertion are two steps of the code.
Send ==
    /\ live["tx"]
    /\ Pending < Cap
    /\ \E v \in Msgs : sent' = Append(sent, v)
    /\ UNCHANGED <<delivered, dropped, live, told, freed>>

\* The oldest message leaves.
Recv ==
    /\ live["rx"]
    /\ Pending > 0
    /\ delivered' = Append(delivered, sent[Len(delivered) + 1])
    /\ UNCHANGED <<sent, dropped, live, told, freed>>

DropSide(s) ==
    /\ live[s]
    /\ live' = [live EXCEPT ![s] = FALSE]
    /\ UNCHANGED <<sent, delivered, dropped, told, freed>>

\* The sending side learns that the receiver is gone.
TellSender ==
    /\ live["tx"] /\ ~live["rx"]
    /\ told' = told \cup {"tx"}
    /\ UNCHANGED <<sent, delivered, dropped, live, freed>>

\* The receiving side learns that no message will ever come again.
TellReceiver ==
    /\ live["rx"] /\ ~live["tx"]
    /\ Pending = 0
    /\ told' = told \cup {"rx"}
    /\ UNCHANGED <<sent, delivered, dropped, live, freed>>

\* Both sides are gone: what was never delivered is destroyed, once.
Free ==
    /\ ~live["tx"] /\ ~live["rx"] /\ ~freed
    /\ freed' = TRUE
    /\ dropped' = [i \in 1..Pending |-> sent[Len(delivered) + i]]
    /\ UNCHANGED <<sent, delivered, live, told>>

Next ==
    \/ Send \/ Recv
    \/ \E s \in {"tx", "rx"} : DropSide(s)
    \/ TellSender \/ TellReceiver
    \/ Free

Spec == Init /\ [][Next]_vars
=============================================================================
