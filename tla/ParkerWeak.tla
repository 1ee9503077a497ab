----------------------------- MODULE ParkerWeak -----------------------------
(***************************************************************************)
(* The park protocol of src/notify.rs on weakly ordered memory.            *)
(*                                                                         *)
(* Spsc and Mpsc interleave accesses to one memory.  Here a store goes to  *)
(* a buffer of its thread and becomes visible later: a Relaxed or Release  *)
(* store may pass the loads that follow it.  A SeqCst fence waits for the  *)
(* buffer; so does a release: the unlock of a Mutex, an unpark.  Between   *)
(* two stores of a thread there is always one of these, so a buffer holds  *)
(* one store.                                                              *)
(*                                                                         *)
(* "C" is the consumer in recv() with WaitStrategy::Park; the others are   *)
(* senders, who publish and wake, and drop their handles; the last one to  *)
(* drop wakes too.  The ring is its sequence of publishes, never full.     *)
(***************************************************************************)
EXTENDS Integers

CONSTANTS
    Senders,             \* the sending threads
    MaxClaims            \* bound: messages sent

ASSUME ConstAssumption == "C" \notin Senders /\ MaxClaims \in Nat

Threads == Senders \cup {"C"}

VARIABLES
    published,           \* memory: sequences whose slot is published
    senders,             \* memory: the senders Shared.senders counts
    parked,              \* memory: Parker.parked
    buf,                 \* per thread: the store on its way to memory
    slot,                \* Parker.slot: whether the Thread is in it
    token,               \* the token of the consumer's std::thread::park
    claim, seq,          \* sequences claimed so far; per sender: its own
    chead,               \* Receiver.head: the sequence awaited
    took,                \* per sender: wake() found the Thread in the slot
    pc                   \* per thread: label

Parker == <<parked, slot, token>>
vars   == <<published, senders, Parker, buf, claim, seq, chead, took, pc>>

Stores == {"none", "publish", "true", "false"}

Init ==
    /\ published = {} /\ senders = Senders /\ claim = 0 /\ chead = 0
    /\ parked = FALSE /\ slot = FALSE /\ token = FALSE
    /\ buf = [t \in Threads |-> "none"]
    /\ seq = [s \in Senders |-> 0]
    /\ took = [s \in Senders |-> FALSE]
    /\ pc = [t \in Threads |-> IF t = "C" THEN "try" ELSE "idle"]

-----------------------------------------------------------------------------
(* Memory.                                                                 *)

GoTo(t, label) == pc' = [pc EXCEPT ![t] = label]

\* A store enters the buffer of its thread ...
Store(t, store) ==
    /\ buf[t] = "none"
    /\ buf' = [buf EXCEPT ![t] = store]
    /\ UNCHANGED <<published, senders, Parker>>

\* ... and leaves it for memory.
Commit(t) ==
    /\ buf[t] # "none"
    /\ published' = IF buf[t] = "publish" THEN published \cup {seq[t]} ELSE published
    /\ parked' = IF buf[t] = "publish" THEN parked ELSE buf[t] = "true"
    /\ buf' = [buf EXCEPT ![t] = "none"]
    /\ UNCHANGED <<senders, slot, token, claim, seq, chead, took, pc>>

\* What a fence, an unlock or an unpark waits for.
Drained(t) == buf[t] = "none"

\* Mutant of FenceC, FenceP: the fence is missing.
NoFence(t) == TRUE

\* fence(SeqCst) between prepare_park() and the re-check.
FenceC(t) == Drained(t)

\* fence(SeqCst) between the publish and wake().
FenceP(t) == Drained(t)

\* A sender holds the Mutex of the slot.
Locked == \E s \in Senders : pc[s] = "unpark"

-----------------------------------------------------------------------------
(* A sender: try_send() on a ring with room, then Parker::wake.            *)

\* Where a sender goes when its wake() ends.
Done(s) == IF s \in senders THEN "idle" ELSE "gone"

Claim(s) ==
    /\ pc[s] = "idle" /\ claim < MaxClaims
    /\ seq' = [seq EXCEPT ![s] = claim]
    /\ claim' = claim + 1
    /\ GoTo(s, "publish")
    /\ UNCHANGED <<published, senders, Parker, buf, chead, took>>

Publish(s) ==
    /\ pc[s] = "publish"
    /\ Store(s, "publish")
    /\ GoTo(s, "wake")
    /\ UNCHANGED <<claim, seq, chead, took>>

WakeLoad(s) ==
    /\ pc[s] = "wake"
    /\ FenceP(s)
    /\ GoTo(s, IF parked THEN "clear" ELSE Done(s))
    /\ UNCHANGED <<published, senders, Parker, buf, claim, seq, chead, took>>

WakeStore(s) ==
    /\ pc[s] = "clear"
    /\ Store(s, "false")
    /\ GoTo(s, "take")
    /\ UNCHANGED <<claim, seq, chead, took>>

\* The slot is locked and emptied ...
WakeTake(s) ==
    /\ pc[s] = "take" /\ ~Locked
    /\ took' = [took EXCEPT ![s] = slot]
    /\ slot' = FALSE
    /\ GoTo(s, "unpark")
    /\ UNCHANGED <<published, senders, parked, token, buf, claim, seq, chead>>

\* ... and unlocked after the unpark, if there was a Thread.
WakeUnpark(s) ==
    /\ pc[s] = "unpark"
    /\ Drained(s)
    /\ token' = (token \/ took[s])
    /\ took' = [took EXCEPT ![s] = FALSE]
    /\ GoTo(s, Done(s))
    /\ UNCHANGED <<published, senders, parked, slot, buf, claim, seq, chead>>

\* Drop for Sender: fetch_sub acts on memory; the last sender wakes the consumer.
DropSender(s) ==
    /\ pc[s] = "idle"
    /\ Drained(s)
    /\ senders' = senders \ {s}
    /\ GoTo(s, IF senders = {s} THEN "wake" ELSE "gone")
    /\ UNCHANGED <<published, Parker, buf, claim, seq, chead, took>>

-----------------------------------------------------------------------------
(* The consumer: recv(), again and again, until it answers Disconnected.   *)

Published == chead \in published

\* One look at the awaited slot: its message is received, or the call goes on.
Look(other) ==
    /\ \/ Published /\ chead' = chead + 1 /\ GoTo("C", "try")
       \/ ~Published /\ GoTo("C", other) /\ UNCHANGED chead
    /\ UNCHANGED <<published, senders, Parker, buf, claim, seq, took>>

TrCheck == pc["C"] = "try" /\ Look("senders")

TrSenders ==
    /\ pc["C"] = "senders"
    /\ GoTo("C", IF senders = {} THEN "last" ELSE "slot")
    /\ UNCHANGED <<published, senders, Parker, buf, claim, seq, chead, took>>

TrLast == pc["C"] = "last" /\ Look("gone")

\* prepare_park(): the slot is locked, filled and unlocked, then the flag is set.
PrepareSlot ==
    /\ pc["C"] = "slot" /\ ~Locked
    /\ Drained("C")
    /\ slot' = TRUE
    /\ GoTo("C", "flag")
    /\ UNCHANGED <<published, senders, parked, token, buf, claim, seq, chead, took>>

PrepareFlag ==
    /\ pc["C"] = "flag"
    /\ Store("C", "true")
    /\ GoTo("C", "recheck")
    /\ UNCHANGED <<claim, seq, chead, took>>

Recheck ==
    /\ pc["C"] = "recheck"
    /\ FenceC("C")
    /\ GoTo("C", IF Published THEN "withdraw" ELSE "recheck_senders")
    /\ UNCHANGED <<published, senders, Parker, buf, claim, seq, chead, took>>

RecheckSenders ==
    /\ pc["C"] = "recheck_senders"
    /\ GoTo("C", IF senders = {} THEN "withdraw" ELSE "park")
    /\ UNCHANGED <<published, senders, Parker, buf, claim, seq, chead, took>>

\* cancel(), and the end of park().
Withdraw ==
    /\ pc["C"] = "withdraw"
    /\ Store("C", "false")
    /\ GoTo("C", "try")
    /\ UNCHANGED <<claim, seq, chead, took>>

Unpark ==
    /\ pc["C"] = "park" /\ token
    /\ token' = FALSE
    /\ GoTo("C", "withdraw")
    /\ UNCHANGED <<published, senders, parked, slot, buf, claim, seq, chead, took>>

SpuriousUnpark ==
    /\ pc["C"] = "park" /\ ~token
    /\ GoTo("C", "withdraw")
    /\ UNCHANGED <<published, senders, Parker, buf, claim, seq, chead, took>>

-----------------------------------------------------------------------------

SenderStep(s) == Publish(s) \/ WakeLoad(s) \/ WakeStore(s) \/ WakeTake(s) \/ WakeUnpark(s)

ConsumerStep ==
    \/ TrCheck \/ TrSenders \/ TrLast
    \/ PrepareSlot \/ PrepareFlag \/ Recheck \/ RecheckSenders \/ Withdraw \/ Unpark

\* Every sender is dropped and the consumer told: the way this model stops.
Terminated ==
    /\ \A t \in Threads : pc[t] = "gone"
    /\ UNCHANGED vars

Next ==
    \/ \E t \in Threads : Commit(t)
    \/ \E s \in Senders : Claim(s) \/ DropSender(s) \/ SenderStep(s)
    \/ ConsumerStep \/ SpuriousUnpark \/ Terminated

Spec == Init /\ [][Next]_vars

\* Threads inside a call keep running, buffers drain; nobody need send or drop and no
\* park need return by itself.
FairSpec ==
    /\ Spec
    /\ \A t \in Threads : WF_vars(Commit(t))
    /\ \A s \in Senders : WF_vars(SenderStep(s))
    /\ WF_vars(ConsumerStep)

-----------------------------------------------------------------------------
(* Properties.                                                             *)

SenderPcs   == {"idle", "publish", "wake", "clear", "take", "unpark", "gone"}
ConsumerPcs == {"try", "senders", "last", "slot", "flag", "recheck", "recheck_senders",
                "withdraw", "park", "gone"}

\* Every variable has its type; nothing is published or received before it is claimed.
TypeOK ==
    /\ claim \in 0..MaxClaims /\ chead \in 0..claim /\ published \subseteq 0..claim-1
    /\ senders \subseteq Senders
    /\ parked \in BOOLEAN /\ slot \in BOOLEAN /\ token \in BOOLEAN
    /\ buf \in [Threads -> Stores]
    /\ seq \in [Senders -> Nat] /\ took \in [Senders -> BOOLEAN]
    /\ pc \in [Threads -> SenderPcs \cup ConsumerPcs]
    /\ pc["C"] \in ConsumerPcs /\ \A s \in Senders : pc[s] \in SenderPcs

\* A sender that is going to unpark the consumer, or to look at its flag.
Waking(s) ==
    \/ pc[s] \in {"wake", "clear", "take"}
    \/ pc[s] = "unpark" /\ took[s]

\* No lost wakeup, with Relaxed accesses to the flag and stores that are late:
\* when the message the parked consumer waits for is there, or the last sender is
\* dropped, some sender still has its wake() before it.
NoLostWake ==
    pc["C"] = "park" /\ ~token /\ (Published \/ senders = {}) => \E s \in Senders : Waking(s)

\* recv() answers: what is published is received, and when the last sender is
\* dropped the consumer is told after that and sleeps no more.
RecvAnswers ==
    /\ \A n \in 0..MaxClaims-1 : n \in published ~> chead > n
    /\ senders = {} ~> pc["C"] = "gone" /\ chead = claim

-----------------------------------------------------------------------------
(* The inductive invariant.                                                *)

\* Which store a thread can have on its way at each label.
BufInv ==
    /\ buf["C"] # "publish"
    /\ buf["C"] = "true" => pc["C"] = "recheck"
    /\ buf["C"] = "false" => pc["C"] \in {"try", "senders", "last", "slot", "gone"}
    /\ \A s \in Senders :
          /\ buf[s] # "true"
          /\ buf[s] = "publish" => pc[s] = "wake"
          /\ buf[s] = "false" => pc[s] \in {"take", "unpark"}
          /\ pc[s] = "publish" => seq[s] < claim
          /\ buf[s] = "publish" => seq[s] < claim

\* The Mutex: one holder, who has emptied the slot.
LockInv == \A s \in Senders :
    /\ took[s] => pc[s] = "unpark"
    /\ pc[s] = "unpark" => ~slot /\ \A r \in Senders : pc[r] = "unpark" => r = s

Unparking == \E s \in Senders : pc[s] = "unpark" /\ took[s]

\* From prepare_park() on the consumer is in the slot, or about to be unparked.
SlotInv ==
    pc["C"] \in {"flag", "recheck", "recheck_senders", "park"} /\ ~token => slot \/ Unparking

\* Once its fence is passed, the flag is seen, or somebody is about to unpark.
FlagInv ==
    (pc["C"] = "recheck" /\ buf["C"] = "none") \/ pc["C"] \in {"recheck_senders", "park"} =>
        token \/ parked \/ Unparking \/ \E s \in Senders : pc[s] = "take"

\* A message the re-check came too early to see is one its sender will tell of.
RecheckInv ==
    pc["C"] = "recheck_senders" /\ ~token /\ Published => \E s \in Senders : Waking(s)

IndInv == TypeOK /\ BufInv /\ LockInv /\ SlotInv /\ FlagInv /\ RecheckInv /\ NoLostWake
=============================================================================
