-------------------------------- MODULE Ring --------------------------------
(***************************************************************************)
(* One SPSC ring as its two callers see it: the contract between Spsc and  *)
(* Sharded.  A call is cut into steps only where the other side can change *)
(* what it answers: the flag, the index, the flag again.  There are no     *)
(* slots, cached indices or parkers; the load of an index that finds room  *)
(* or a message is one step with the publish it leads to.  Spsc implements *)
(* this module with everything it does underneath, and every shard of      *)
(* Sharded makes only steps of this module.                                *)
(***************************************************************************)
EXTENDS Integers

CONSTANT
    Cap                  \* capacity of the ring

VARIABLES
    tail, head,          \* the shared indices
    chead,               \* Receiver.head: what was moved out
    live, refs,          \* sides not yet dropped; sides that hold the Arc
    dropped,             \* how many messages were destroyed with the ring
    told,                \* sides that were answered Disconnected
    spc, rpc,            \* where the sender's and the receiver's calls are
    max                  \* what a drain() in progress was asked for

handles == <<live, refs, dropped>>
vars    == <<tail, head, chead, handles, told, spc, rpc, max>>

Pending == tail - chead

\* Messages a drain() has moved out and not yet given back.
took == chead - head

disconnected == live # {"tx", "rx"}

Init ==
    /\ tail = 0 /\ head = 0 /\ chead = 0
    /\ live = {"tx", "rx"} /\ refs = {"tx", "rx"} /\ dropped = 0
    /\ told = {}
    /\ spc = "idle" /\ rpc = "idle" /\ max = 0

-----------------------------------------------------------------------------
(* try_send() and send().                                                  *)

SenderCall ==
    /\ spc = "idle" /\ "tx" \in live
    /\ spc' = "ts_disc"
    /\ UNCHANGED <<tail, head, chead, handles, told, rpc, max>>

TsDisconnected ==
    /\ spc = "ts_disc"
    /\ IF disconnected
       THEN spc' = "idle" /\ told' = told \cup {"tx"}
       ELSE spc' = "ts_send" /\ UNCHANGED told
    /\ UNCHANGED <<tail, head, chead, handles, rpc, max>>

\* Room: the message enters.  Full: the call answers it or starts again.
TsSend ==
    /\ spc = "ts_send"
    /\ \/ tail - head < Cap /\ tail' = tail + 1 /\ spc' = "idle"
       \/ tail - head = Cap /\ UNCHANGED tail /\ spc' \in {"idle", "ts_disc"}
    /\ UNCHANGED <<head, chead, handles, told, rpc, max>>

-----------------------------------------------------------------------------
(* try_recv() and recv().                                                  *)

ReceiverCall ==
    /\ rpc = "idle" /\ "rx" \in live
    /\ rpc' = "tr_tail"
    /\ UNCHANGED <<tail, head, chead, handles, told, spc, max>>

\* The oldest message leaves and its slot is free again at once.
Take ==
    /\ Pending > 0
    /\ chead' = chead + 1 /\ head' = chead + 1
    /\ rpc' = "idle"
    /\ UNCHANGED told

TrTail ==
    /\ rpc = "tr_tail"
    /\ \/ Take
       \/ Pending = 0 /\ rpc' = "tr_disc" /\ UNCHANGED <<head, chead, told>>
    /\ UNCHANGED <<tail, handles, spc, max>>

\* Empty: the call answers it or starts again.
TrDisconnected ==
    /\ rpc = "tr_disc"
    /\ rpc' \in IF disconnected THEN {"tr_last"} ELSE {"idle", "tr_tail"}
    /\ UNCHANGED <<tail, head, chead, handles, told, spc, max>>

\* A message published before the drop is taken, now or in a moment.
TrLast ==
    /\ rpc = "tr_last"
    /\ \/ Take
       \/ Pending > 0 /\ rpc' = "tr_tail" /\ UNCHANGED <<head, chead, told>>
       \/ Pending = 0 /\ rpc' = "idle" /\ told' = told \cup {"rx"} /\ UNCHANGED <<head, chead>>
    /\ UNCHANGED <<tail, handles, spc, max>>

-----------------------------------------------------------------------------
(* drain(): messages leave one by one, their slots are given back together. *)

DrainCall ==
    /\ rpc = "idle" /\ "rx" \in live
    /\ rpc' = "dr_take" /\ max' \in Nat
    /\ UNCHANGED <<tail, head, chead, handles, told, spc>>

\* After each message the callback returns or panics.
DrTake ==
    /\ rpc = "dr_take"
    /\ took < max /\ Pending > 0
    /\ chead' = chead + 1
    /\ rpc' \in {"dr_take", "dr_unwind"}
    /\ UNCHANGED <<tail, head, handles, told, spc, max>>

DrEnd ==
    /\ rpc = "dr_take"
    /\ took >= max \/ Pending = 0
    /\ rpc' = "dr_guard"
    /\ UNCHANGED <<tail, head, chead, handles, told, spc, max>>

PublishGuardDrop ==
    /\ rpc \in {"dr_guard", "dr_unwind"}
    /\ head' = chead
    /\ rpc' = "idle" /\ max' = 0
    /\ UNCHANGED <<tail, chead, handles, told, spc>>

-----------------------------------------------------------------------------
(* Dropping a handle: the flag first, the Arc last.                        *)

Drop(side) ==
    /\ side \in live
    /\ IF side = "tx" THEN spc = "idle" ELSE rpc = "idle"
    /\ live' = live \ {side}
    /\ UNCHANGED <<tail, head, chead, refs, dropped, told, spc, rpc, max>>

\* The last side destroys what is left between the two shared indices.
Release(side) ==
    /\ side \in refs \ live
    /\ refs' = refs \ {side}
    /\ dropped' = IF refs = {side} THEN tail - head ELSE dropped
    /\ UNCHANGED <<tail, head, chead, live, told, spc, rpc, max>>

Next ==
    \/ SenderCall \/ TsDisconnected \/ TsSend
    \/ ReceiverCall \/ TrTail \/ TrDisconnected \/ TrLast
    \/ DrainCall \/ DrTake \/ DrEnd \/ PublishGuardDrop
    \/ \E side \in {"tx", "rx"} : Drop(side) \/ Release(side)

Spec == Init /\ [][Next]_vars
=============================================================================
