-------------------------------- MODULE Mpsc --------------------------------
(***************************************************************************)
(* The bounded multi-producer single-consumer ring of src/mpsc.rs with the *)
(* Parker of its consumer and the WaiterList of its producers              *)
(* (src/notify.rs).                                                        *)
(*                                                                         *)
(* Each sender handle lives on a thread of its own; "C" is the receiver.   *)
(* An action is one access to shared memory together with the local        *)
(* computation around it; a SeqCst fence is part of the load that follows  *)
(* it.  Interleaving of these actions is sequentially consistent.          *)
(***************************************************************************)
EXTENDS Integers, Sequences

CONSTANTS
    Senders, First,      \* sender handles that can come to exist; the one channel() returns
    Cap,                 \* capacity given to channel()
    Strategies,          \* wait strategies a channel is created with
    DrainLimits,         \* values users pass as max to drain()
    MaxOffers,           \* bound: messages offered to try_send() and send()
    CallbackPanics       \* whether the callback given to drain() may panic

\* assert_cap: the capacity is a positive power of two.
assert_cap(n) == \E k \in 0..n : n = 2^k

ASSUME CapAssumption == Cap \in Nat \ {0} /\ assert_cap(Cap)
ASSUME ConstAssumption ==
    /\ First \in Senders /\ "C" \notin Senders
    /\ Strategies \subseteq {"BusySpin", "Backoff", "BackoffYield", "Park"}
    /\ DrainLimits \subseteq Nat
    /\ MaxOffers \in Nat
    /\ CallbackPanics \in BOOLEAN

VARIABLES
    strategy,            \* Shared.strategy
    round, value,        \* Shared.slots: the published round, the payload
    claim, head,         \* Shared.claim, Shared.head
    senders, rxDropped,  \* Shared.senders, Shared.rx_dropped
    parked, slot,        \* consumer_parker: the flag; whether a Thread is in the slot
    waiting, list,       \* prod_waiters: the flag; the threads in the list
    token,               \* per thread: the token of std::thread::park
    seq, cachedHead,     \* per sender: the sequence (local claim) and Sender.cached_head
    val,                 \* per sender: the message in hand
    chead, start, max,   \* Receiver.head; drain(): the guard's start, the argument max
    pc, op,              \* per thread: label and call in progress
    offers,              \* the number of messages offered so far
    refs,                \* threads whose handle holds the Arc
    sent, delivered,     \* history: messages by claimed sequence; messages moved out
    dropped,             \* history: messages dropped by Shared::drop
    told                 \* history: threads that were answered Disconnected

ring      == <<strategy, round, value, claim, head, senders, rxDropped>>
waiters   == <<parked, slot, waiting, list, token>>
sender    == <<seq, cachedHead, val, offers>>
receiver  == <<chead, start, max>>
control   == <<pc, op>>
history   == <<sent, delivered, dropped, told>>
vars      == <<ring, waiters, sender, receiver, control, refs, history>>

Threads == Senders \cup {"C"}

\* n & mask and n >> shift, for a capacity that is a power of two.
Slot(n)  == n % Cap
Round(n) == n \div Cap

\* Mutant of IsFull: the ring takes one message too many.
IsFullOffByOne(n, h) == n > h + Cap

\* seq >= h.saturating_add(cap), far below the largest usize.
IsFull(n, h) == n >= h + Cap

\* Mutant of Published: any round will do.
PublishedAnyRound(n) == round[Slot(n)] >= 0

\* slot_published, and the same load in drain() and in Shared::drop.
Published(n) == round[Slot(n)] = Round(n)

-----------------------------------------------------------------------------

\* channel(): one sender, one receiver, no slot ever published.
Init ==
    /\ strategy \in Strategies
    /\ round = [i \in 0..Cap-1 |-> -1]
    /\ value = [i \in 0..Cap-1 |-> 0]
    /\ claim = 0 /\ head = 0
    /\ senders = 1
    /\ rxDropped = FALSE
    /\ parked = FALSE /\ slot = FALSE
    /\ waiting = FALSE /\ list = {}
    /\ token = [t \in Threads |-> FALSE]
    /\ seq = [p \in Senders |-> 0]
    /\ cachedHead = [p \in Senders |-> 0]
    /\ val = [p \in Senders |-> 0]
    /\ chead = 0 /\ start = 0 /\ max = 0
    /\ pc = [t \in Threads |-> IF t \in {First, "C"} THEN "idle" ELSE "unborn"]
    /\ refs = {First, "C"}
    /\ op = [t \in Threads |-> "none"]
    /\ offers = 0
    /\ sent = <<>> /\ delivered = <<>> /\ dropped = <<>>
    /\ told = {}

-----------------------------------------------------------------------------
(* Control flow shared by the operations.                                  *)

GoTo(t, label) ==
    /\ pc' = [pc EXCEPT ![t] = label]
    /\ UNCHANGED op

\* The call answers its caller.
Return(t) ==
    /\ pc' = [pc EXCEPT ![t] = "idle"]
    /\ op' = [op EXCEPT ![t] = "none"]

\* Start of wake() on the consumer's parker, of wake_all() on the producers' list.
WakeLabel(t) == IF t = "C" THEN "wake_swap" ELSE "wake_load"

WakeOrReturn(t) ==
    IF strategy = "Park" THEN GoTo(t, WakeLabel(t)) ELSE Return(t)

\* The end of a wake: of the call, or of the body of a drop.
WakeDone(t) ==
    IF op[t] = "drop" THEN GoTo(t, "arc") ELSE Return(t)

\* Full or Empty: the try_ call answers it, the blocking call waits.  The
\* ladders of BusySpin and of both Backoffs only delay the next attempt.
Blocked(t, retry, wait) ==
    \/ /\ op[t] \in {"try_send", "try_recv"}
       /\ Return(t)
    \/ /\ op[t] \in {"send", "recv"}
       /\ GoTo(t, IF strategy = "Park" THEN wait ELSE retry)

-----------------------------------------------------------------------------
(* A sender.                                                               *)

SenderCall(p, o) ==
    /\ pc[p] = "idle"
    /\ offers < MaxOffers
    /\ offers' = offers + 1
    /\ val' = [val EXCEPT ![p] = offers + 1]
    /\ pc' = [pc EXCEPT ![p] = "ts_disc"]
    /\ op' = [op EXCEPT ![p] = o]
    /\ UNCHANGED <<ring, waiters, seq, cachedHead, receiver, refs, history>>

TsDisconnected(p) ==
    /\ pc[p] = "ts_disc"
    /\ IF rxDropped
       THEN Return(p) /\ told' = told \cup {p}
       ELSE GoTo(p, "ts_claim") /\ UNCHANGED told
    /\ UNCHANGED <<ring, waiters, sender, receiver, refs, sent, delivered, dropped>>

TsClaim(p) ==
    /\ pc[p] = "ts_claim"
    /\ seq' = [seq EXCEPT ![p] = claim]
    /\ GoTo(p, "ts_full")
    /\ UNCHANGED <<ring, waiters, cachedHead, val, offers, receiver, refs, history>>

\* Mutant of TsFull: Full is answered from the cached head alone.
TsFullNoReload(p) ==
    /\ pc[p] = "ts_full"
    /\ IF IsFull(seq[p], cachedHead[p])
       THEN Blocked(p, "ts_disc", "wait_push")
       ELSE GoTo(p, "ts_cas")
    /\ UNCHANGED <<ring, waiters, sender, receiver, refs, history>>

\* The shared head is loaded only when the cached one says that the ring is full.
TsFull(p) ==
    /\ pc[p] = "ts_full"
    /\ \/ /\ ~IsFull(seq[p], cachedHead[p])
          /\ GoTo(p, "ts_cas")
          /\ UNCHANGED cachedHead
       \/ /\ IsFull(seq[p], cachedHead[p])
          /\ cachedHead' = [cachedHead EXCEPT ![p] = head]
          /\ IF IsFull(seq[p], head)
             THEN Blocked(p, "ts_disc", "wait_push")
             ELSE GoTo(p, "ts_cas")
    /\ UNCHANGED <<ring, waiters, seq, val, offers, receiver, refs, history>>

\* Mutant of TsCasOk: a plain store where the exchange is.
TsCasStore(p) ==
    /\ pc[p] = "ts_cas"
    /\ claim' = seq[p] + 1
    /\ sent' = Append(sent, val[p])
    /\ GoTo(p, "write")
    /\ UNCHANGED <<strategy, round, value, head, senders, rxDropped, waiters, sender, receiver,
                   refs, delivered, dropped, told>>

\* compare_exchange_weak on claim: the sequence is this sender's own ...
TsCasOk(p) ==
    /\ pc[p] = "ts_cas"
    /\ claim = seq[p]
    /\ claim' = claim + 1
    /\ sent' = Append(sent, val[p])
    /\ GoTo(p, "write")
    /\ UNCHANGED <<strategy, round, value, head, senders, rxDropped, waiters, sender, receiver,
                   refs, delivered, dropped, told>>

\* ... or another sender took it ...
TsCasLost(p) ==
    /\ pc[p] = "ts_cas"
    /\ claim # seq[p]
    /\ seq' = [seq EXCEPT ![p] = claim]
    /\ GoTo(p, "ts_full")
    /\ UNCHANGED <<ring, waiters, cachedHead, val, offers, receiver, refs, history>>

\* ... or the weak exchange failed for no reason.
TsCasSpurious(p) ==
    /\ pc[p] = "ts_cas"
    /\ claim = seq[p]
    /\ GoTo(p, "ts_full")
    /\ UNCHANGED <<ring, waiters, sender, receiver, refs, history>>

TsWrite(p) ==
    /\ pc[p] = "write"
    /\ value' = [value EXCEPT ![Slot(seq[p])] = val[p]]
    /\ GoTo(p, "publish")
    /\ UNCHANGED <<strategy, round, claim, head, senders, rxDropped, waiters, sender, receiver,
                   refs, history>>

\* Mutant of TsPublish: the slot is marked, but not with its round.
TsPublishFirstRound(p) ==
    /\ pc[p] = "publish"
    /\ round' = [round EXCEPT ![Slot(seq[p])] = 0]
    /\ seq' = [seq EXCEPT ![p] = 0]
    /\ val' = [val EXCEPT ![p] = 0]
    /\ WakeOrReturn(p)
    /\ UNCHANGED <<strategy, value, claim, head, senders, rxDropped, waiters, cachedHead, offers,
                   receiver, refs, history>>

\* The message can be received; seq and v are not used any more.
TsPublish(p) ==
    /\ pc[p] = "publish"
    /\ round' = [round EXCEPT ![Slot(seq[p])] = Round(seq[p])]
    /\ seq' = [seq EXCEPT ![p] = 0]
    /\ val' = [val EXCEPT ![p] = 0]
    /\ WakeOrReturn(p)
    /\ UNCHANGED <<strategy, value, claim, head, senders, rxDropped, waiters, cachedHead, offers,
                   receiver, refs, history>>

\* Clone of a sender: counted, with an empty cache.
Clone(p, q) ==
    /\ pc[p] = "idle"
    /\ pc[q] = "unborn"
    /\ senders' = senders + 1
    /\ refs' = refs \cup {q}
    /\ GoTo(q, "idle")
    /\ UNCHANGED <<strategy, round, value, claim, head, rxDropped, waiters, sender, receiver,
                   history>>

\* WaiterList::prepare_wait: the list under its mutex, then the flag.
WaitPush(p) ==
    /\ pc[p] = "wait_push"
    /\ list' = list \cup {p}
    /\ GoTo(p, "wait_flag")
    /\ UNCHANGED <<ring, parked, slot, waiting, token, sender, receiver, refs, history>>

WaitFlag(p) ==
    /\ pc[p] = "wait_flag"
    /\ waiting' = TRUE
    /\ GoTo(p, "recheck_claim")
    /\ UNCHANGED <<ring, parked, slot, list, token, sender, receiver, refs, history>>

RecheckClaim(p) ==
    /\ pc[p] = "recheck_claim"
    /\ seq' = [seq EXCEPT ![p] = claim]
    /\ GoTo(p, "recheck_head")
    /\ UNCHANGED <<ring, waiters, cachedHead, val, offers, receiver, refs, history>>

\* Mutant of RecheckHead: wait without looking at the ring again.
RecheckHeadSkipped(p) ==
    /\ pc[p] = "recheck_head"
    /\ GoTo(p, "recheck_disc")
    /\ UNCHANGED <<ring, waiters, sender, receiver, refs, history>>

\* Space appeared: try again, the registration stays behind.
RecheckHead(p) ==
    /\ pc[p] = "recheck_head"
    /\ GoTo(p, IF IsFull(seq[p], head) THEN "recheck_disc" ELSE "ts_disc")
    /\ UNCHANGED <<ring, waiters, sender, receiver, refs, history>>

RecheckDisconnected(p) ==
    /\ pc[p] = "recheck_disc"
    /\ GoTo(p, IF rxDropped THEN "ts_disc" ELSE "park")
    /\ UNCHANGED <<ring, waiters, sender, receiver, refs, history>>

\* Parker::wake on the consumer's parker; several senders can be inside it.
WakeLoad(p) ==
    /\ pc[p] = "wake_load"
    /\ IF parked THEN GoTo(p, "wake_store") ELSE WakeDone(p)
    /\ UNCHANGED <<ring, waiters, sender, receiver, refs, history>>

WakeStore(p) ==
    /\ pc[p] = "wake_store"
    /\ parked' = FALSE
    /\ GoTo(p, "wake_take")
    /\ UNCHANGED <<ring, slot, waiting, list, token, sender, receiver, refs, history>>

WakeTake(p) ==
    /\ pc[p] = "wake_take"
    /\ slot' = FALSE
    /\ token' = [token EXCEPT !["C"] = token["C"] \/ slot]
    /\ WakeDone(p)
    /\ UNCHANGED <<ring, parked, waiting, list, sender, receiver, refs, history>>

\* Mutant of DropSender: the count after the decrement is compared with one.
DropSenderOffByOne(p) ==
    /\ pc[p] = "idle"
    /\ senders' = senders - 1
    /\ op' = [op EXCEPT ![p] = "drop"]
    /\ pc' = [pc EXCEPT ![p] = IF senders' = 1 THEN "wake_load" ELSE "arc"]
    /\ UNCHANGED <<strategy, round, value, claim, head, rxDropped, waiters, sender, receiver,
                   refs, history>>

\* Only the last sender wakes the consumer.
DropSender(p) ==
    /\ pc[p] = "idle"
    /\ senders' = senders - 1
    /\ op' = [op EXCEPT ![p] = "drop"]
    /\ pc' = [pc EXCEPT ![p] = IF senders = 1 THEN "wake_load" ELSE "arc"]
    /\ UNCHANGED <<strategy, round, value, claim, head, rxDropped, waiters, sender, receiver,
                   refs, history>>

-----------------------------------------------------------------------------
(* The receiver.                                                           *)

ReceiverCall(o) ==
    /\ pc["C"] = "idle"
    /\ pc' = [pc EXCEPT !["C"] = "tr_check"]
    /\ op' = [op EXCEPT !["C"] = o]
    /\ UNCHANGED <<ring, waiters, sender, receiver, refs, history>>

TrCheck ==
    /\ pc["C"] = "tr_check"
    /\ GoTo("C", IF Published(chead) THEN "read" ELSE "tr_senders")
    /\ UNCHANGED <<ring, waiters, sender, receiver, refs, history>>

TrSenders ==
    /\ pc["C"] = "tr_senders"
    /\ IF senders = 0 THEN GoTo("C", "tr_last") ELSE Blocked("C", "tr_check", "pre_spin")
    /\ UNCHANGED <<ring, waiters, sender, receiver, refs, history>>

\* Mutant of TrLast: Disconnected without the second look at the slot.
TrLastNoLook ==
    /\ pc["C"] = "tr_last"
    /\ Return("C")
    /\ told' = told \cup {"C"}
    /\ UNCHANGED <<ring, waiters, sender, receiver, refs, sent, delivered, dropped>>

\* One more look at the slot decides between Disconnected and a last message.
TrLast ==
    /\ pc["C"] = "tr_last"
    /\ IF Published(chead)
       THEN GoTo("C", "read") /\ UNCHANGED told
       ELSE Return("C") /\ told' = told \cup {"C"}
    /\ UNCHANGED <<ring, waiters, sender, receiver, refs, sent, delivered, dropped>>

\* The message is moved out of its slot; in drain() it is passed to the
\* callback, which returns or panics.
Read ==
    /\ pc["C"] = "read"
    /\ delivered' = Append(delivered, value[Slot(chead)])
    /\ chead' = chead + 1
    /\ \/ op["C"] # "drain" /\ GoTo("C", "tr_publish")
       \/ op["C"] = "drain" /\ GoTo("C", "dr_check")
       \/ op["C"] = "drain" /\ CallbackPanics /\ GoTo("C", "dr_unwind")
    /\ UNCHANGED <<ring, waiters, sender, start, max, refs, sent, dropped, told>>

TrPublish ==
    /\ pc["C"] = "tr_publish"
    /\ head' = chead
    /\ WakeOrReturn("C")
    /\ UNCHANGED <<strategy, round, value, claim, senders, rxDropped, waiters, sender, receiver,
                   refs, history>>

DrainCall ==
    /\ pc["C"] = "idle"
    /\ start' = chead
    /\ max' \in DrainLimits
    /\ pc' = [pc EXCEPT !["C"] = "dr_check"]
    /\ op' = [op EXCEPT !["C"] = "drain"]
    /\ UNCHANGED <<ring, waiters, sender, chead, refs, history>>

\* The loop head of drain(): a slot not yet published ends it; count is chead - start.
DrCheck ==
    /\ pc["C"] = "dr_check"
    /\ GoTo("C", IF chead - start < max /\ Published(chead) THEN "read" ELSE "dr_guard")
    /\ UNCHANGED <<ring, waiters, sender, receiver, refs, history>>

\* Mutant of PublishGuardDrop: the guard forgets the batch.
PublishGuardForgets == UNCHANGED head

\* PublishGuard::drop
PublishGuardDrop ==
    head' = IF chead # start THEN chead ELSE head

DrGuard ==
    /\ pc["C"] = "dr_guard"
    /\ PublishGuardDrop
    /\ IF chead # start THEN WakeOrReturn("C") ELSE Return("C")
    /\ start' = 0 /\ max' = 0
    /\ UNCHANGED <<strategy, round, value, claim, senders, rxDropped, waiters, sender, chead,
                   refs, history>>

\* Unwinding: the guard publishes; the wake after it is not reached.
DrUnwind ==
    /\ pc["C"] = "dr_unwind"
    /\ PublishGuardDrop
    /\ Return("C")
    /\ start' = 0 /\ max' = 0
    /\ UNCHANGED <<strategy, round, value, claim, senders, rxDropped, waiters, sender, chead,
                   refs, history>>

\* The PARK_SPINS looks before the park protocol; looks that find nothing are
\* not told apart from the last of them.
PreSpin ==
    /\ pc["C"] = "pre_spin"
    /\ GoTo("C", IF Published(chead) THEN "tr_check" ELSE "prepare_slot")
    /\ UNCHANGED <<ring, waiters, sender, receiver, refs, history>>

PrepareSlot ==
    /\ pc["C"] = "prepare_slot"
    /\ slot' = TRUE
    /\ GoTo("C", "prepare_flag")
    /\ UNCHANGED <<ring, parked, waiting, list, token, sender, receiver, refs, history>>

PrepareFlag ==
    /\ pc["C"] = "prepare_flag"
    /\ parked' = TRUE
    /\ GoTo("C", "recheck")
    /\ UNCHANGED <<ring, slot, waiting, list, token, sender, receiver, refs, history>>

Recheck ==
    /\ pc["C"] = "recheck"
    /\ GoTo("C", IF Published(chead) THEN "cancel" ELSE "recheck_senders")
    /\ UNCHANGED <<ring, waiters, sender, receiver, refs, history>>

RecheckSenders ==
    /\ pc["C"] = "recheck_senders"
    /\ GoTo("C", IF senders = 0 THEN "cancel" ELSE "park")
    /\ UNCHANGED <<ring, waiters, sender, receiver, refs, history>>

\* Parker::cancel, and the store of Parker::park after thread::park returned.
Withdraw ==
    /\ pc["C"] \in {"cancel", "unparked"}
    /\ parked' = FALSE
    /\ GoTo("C", "tr_check")
    /\ UNCHANGED <<ring, slot, waiting, list, token, sender, receiver, refs, history>>

\* WaiterList::wake_all: swap the flag, then unpark the whole list under its mutex.
WakeSwap ==
    /\ pc["C"] = "wake_swap"
    /\ waiting' = FALSE
    /\ IF waiting THEN GoTo("C", "wake_list") ELSE WakeDone("C")
    /\ UNCHANGED <<ring, parked, slot, list, token, sender, receiver, refs, history>>

WakeList ==
    /\ pc["C"] = "wake_list"
    /\ token' = [t \in Threads |-> token[t] \/ t \in list]
    /\ list' = {}
    /\ WakeDone("C")
    /\ UNCHANGED <<ring, parked, slot, waiting, sender, receiver, refs, history>>

DropReceiver ==
    /\ pc["C"] = "idle"
    /\ rxDropped' = TRUE
    /\ op' = [op EXCEPT !["C"] = "drop"]
    /\ pc' = [pc EXCEPT !["C"] = "wake_swap"]
    /\ UNCHANGED <<strategy, round, value, claim, head, senders, waiters, sender, receiver,
                   refs, history>>

-----------------------------------------------------------------------------
(* Both sides: std::thread::park and the Arc.                              *)

\* Where a thread continues after thread::park.
Unparked(t) == IF t = "C" THEN "unparked" ELSE "ts_disc"

\* thread::park returns because it finds a token, which it consumes ...
Unpark(t) ==
    /\ pc[t] = "park"
    /\ token[t]
    /\ token' = [token EXCEPT ![t] = FALSE]
    /\ GoTo(t, Unparked(t))
    /\ UNCHANGED <<ring, parked, slot, waiting, list, sender, receiver, refs, history>>

\* ... or for no reason at all.
SpuriousUnpark(t) ==
    /\ pc[t] = "park"
    /\ GoTo(t, Unparked(t))
    /\ UNCHANGED <<ring, waiters, sender, receiver, refs, history>>

\* Shared::drop destroys the messages from head to the first slot whose round
\* is not that of its sequence: after at most Cap slots, since a slot has one round.
SharedDrop ==
    \E n \in 0..Cap :
        /\ ~Published(head + n)
        /\ \A i \in 0..n-1 : Published(head + i)
        /\ dropped' = [i \in 1..n |-> value[Slot(head + i - 1)]]

\* The last handle to release the Arc runs Shared::drop.
ArcDrop(t) ==
    /\ pc[t] = "arc"
    /\ refs' = refs \ {t}
    /\ IF refs = {t} THEN SharedDrop ELSE UNCHANGED dropped
    /\ GoTo(t, "gone")
    /\ UNCHANGED <<ring, waiters, sender, receiver, sent, delivered, told>>

-----------------------------------------------------------------------------

\* The steps a thread takes inside a call.
SenderStep(p) ==
    \/ TsDisconnected(p) \/ TsClaim(p) \/ TsFull(p) \/ TsCasOk(p) \/ TsCasLost(p)
    \/ TsWrite(p) \/ TsPublish(p)
    \/ WaitPush(p) \/ WaitFlag(p) \/ RecheckClaim(p) \/ RecheckHead(p) \/ RecheckDisconnected(p)
    \/ WakeLoad(p) \/ WakeStore(p) \/ WakeTake(p)
    \/ Unpark(p) \/ ArcDrop(p)

ReceiverStep ==
    \/ TrCheck \/ TrSenders \/ TrLast \/ Read \/ TrPublish
    \/ DrCheck \/ DrGuard \/ DrUnwind
    \/ PreSpin \/ PrepareSlot \/ PrepareFlag \/ Recheck \/ RecheckSenders \/ Withdraw
    \/ WakeSwap \/ WakeList
    \/ Unpark("C") \/ ArcDrop("C")

\* The calls users choose to make.
Calls ==
    \/ \E p \in Senders : \/ \E o \in {"try_send", "send"} : SenderCall(p, o)
                          \/ \E q \in Senders : Clone(p, q)
                          \/ DropSender(p)
    \/ \E o \in {"try_recv", "recv"} : ReceiverCall(o)
    \/ DrainCall
    \/ DropReceiver

\* Every handle is gone: the only way for the system to stop.
Terminated ==
    /\ \A t \in Threads : pc[t] \in {"gone", "unborn"}
    /\ UNCHANGED vars

Next ==
    \/ \E p \in Senders : SenderStep(p) \/ TsCasSpurious(p)
    \/ ReceiverStep
    \/ Calls
    \/ \E t \in Threads : SpuriousUnpark(t)
    \/ Terminated

Spec == Init /\ [][Next]_vars

\* A thread inside a call keeps running unless thread::park blocks it; users
\* need not call and spurious wake-ups need not happen.  Strong fairness of the
\* exchange: a weak compare-exchange does not fail spuriously for ever.
FairSpec ==
    /\ Spec
    /\ \A p \in Senders : WF_vars(SenderStep(p)) /\ SF_vars(TsCasOk(p) \/ TsCasLost(p))
    /\ WF_vars(ReceiverStep)

-----------------------------------------------------------------------------
(* Properties.                                                             *)

SenderPcs == {"unborn", "idle", "ts_disc", "ts_claim", "ts_full", "ts_cas", "write", "publish",
              "wait_push", "wait_flag", "recheck_claim", "recheck_head", "recheck_disc", "park",
              "wake_load", "wake_store", "wake_take", "arc", "gone"}
ReceiverPcs == {"idle", "tr_check", "tr_senders", "tr_last", "read", "tr_publish", "dr_check",
                "dr_guard", "dr_unwind", "pre_spin", "prepare_slot", "prepare_flag", "recheck",
                "recheck_senders", "cancel", "park", "unparked", "wake_swap", "wake_list", "arc",
                "gone"}

RingType ==
    /\ strategy \in Strategies
    /\ round \in [0..Cap-1 -> Int]
    /\ value \in [0..Cap-1 -> 0..MaxOffers]
    /\ claim \in Nat /\ head \in Nat /\ senders \in Int
    /\ rxDropped \in BOOLEAN

WaitersType ==
    /\ parked \in BOOLEAN /\ slot \in BOOLEAN /\ waiting \in BOOLEAN
    /\ list \subseteq Senders
    /\ token \in [Threads -> BOOLEAN]

SenderType ==
    /\ seq \in [Senders -> Nat]
    /\ cachedHead \in [Senders -> Nat]
    /\ val \in [Senders -> 0..MaxOffers]
    /\ offers \in 0..MaxOffers

ReceiverType == chead \in Nat /\ start \in Nat /\ max \in Nat

ControlType ==
    /\ pc \in [Threads -> SenderPcs \cup ReceiverPcs]
    /\ \A p \in Senders : pc[p] \in SenderPcs
    /\ pc["C"] \in ReceiverPcs
    /\ op \in [Threads -> {"none", "try_send", "send", "try_recv", "recv", "drain", "drop"}]

HistoryType ==
    /\ sent \in Seq(0..MaxOffers)
    /\ delivered \in Seq(0..MaxOffers)
    /\ dropped \in Seq(0..MaxOffers)
    /\ told \subseteq Threads

\* Every variable ranges over the values its declaration in mpsc.rs and notify.rs gives it.
TypeOK ==
    /\ RingType /\ WaitersType /\ SenderType /\ ReceiverType /\ ControlType /\ HistoryType
    /\ refs \subseteq Threads

\* No slot is accessed by two threads at once: not by two senders that both
\* won a claim, and not by a sender and the receiver.
NoDataRace ==
    \A p \in Senders : pc[p] = "write" =>
        /\ pc["C"] = "read" => Slot(seq[p]) # Slot(chead)
        /\ \A q \in Senders \ {p} :
              pc[q] \in {"write", "publish"} => Slot(seq[p]) # Slot(seq[q])

\* The receiver gets the messages in the order in which their sequences were
\* claimed, however late each was published, and a slot it finds published
\* holds the message of exactly that sequence, never of an earlier round.
Fifo ==
    /\ Len(delivered) <= Len(sent)
    /\ \A i \in 1..Len(delivered) : delivered[i] = sent[i]
    /\ \A i \in Len(delivered)+1..Len(sent) :
          Published(i - 1) => value[Slot(i - 1)] = sent[i]
    /\ ~Published(claim)

\* When the ring is destroyed every claimed message has been moved out or is
\* dropped by Shared::drop, never both and never neither.
ExactlyOnce ==
    refs = {} => delivered \o dropped = sent

\* try_recv() and recv() answer Disconnected only if every sender is gone and
\* every message any of them sent has been moved out.
DisconnectedMeansDrained ==
    "C" \in told => /\ \A p \in Senders : op[p] = "drop" \/ pc[p] = "unborn"
                    /\ delivered = sent

\* A consumer blocked in recv() with the next message published, or with no
\* sender left, is about to be woken, although several senders wake at once
\* and one may clear a flag that a later registration has set.
ConsumerNeverMissesWake ==
    pc["C"] = "park" /\ (Published(chead) \/ senders = 0) =>
        \/ token["C"]
        \/ slot /\ \E p \in Senders : \/ pc[p] \in {"wake_store", "wake_take"}
                                      \/ pc[p] = "wake_load" /\ parked

\* A sender blocked in send() while the ring has room, or no receiver, is about
\* to be woken, as long as no callback of drain() panics: its registration is
\* in the list and the receiver is inside wake_all().
ProducersNeverMissWake ==
    \A p \in Senders :
        pc[p] = "park" /\ (~IsFull(claim, head) \/ rxDropped) =>
            \/ token[p]
            \/ p \in list /\ (pc["C"] = "wake_list" \/ (pc["C"] = "wake_swap" /\ waiting))

\* docs/design.md, section 7: a producer that decides to block "holds no
\* claimed-but-unwritten sequence".  Every hole in front of the receiver has a
\* sender at work on it, however many claims were lost, retried or wrapped
\* around the ring in between; it never belongs to one that sleeps or is gone.
\* Holes as such exist, also at the receiver's own position: a running sender
\* between its exchange and its publish leaves one.
HolesHaveWriters ==
    \A n \in chead..claim-1 :
        ~Published(n) => \E p \in Senders : pc[p] \in {"write", "publish"} /\ seq[p] = n

\* A thread that only an unpark gets going again.
Asleep(t) == pc[t] = "park" /\ ~token[t]

\* Nobody waits in a circle, as long as no callback of drain() panics: a sender
\* asleep in send() has a receiver that is not gone and, if that one sleeps in
\* recv() too, some other sender that is about to publish or to wake it.
NoMutualSleep ==
    \A p \in Senders : Asleep(p) =>
        /\ pc["C"] # "gone"
        /\ Asleep("C") => \E q \in Senders :
               pc[q] \in {"write", "publish", "wake_load", "wake_store", "wake_take"}

\* docs/design.md, section 1: "every CAS that succeeds does so with
\* seq - head < cap true at that instant, for the true head".  Whatever claim
\* and head a sender loaded before, it goes on to the exchange exactly when its
\* sequence has room now, wins it only while the ring has room, and answers
\* Full only while the ring is full.
CachesDecideTruly ==
    [][\A p \in Senders :
        /\ pc[p] = "ts_full" /\ pc'[p] # "ts_full" =>
              /\ pc'[p] = "ts_cas" <=> ~IsFull(seq[p], head)
              /\ pc'[p] # "ts_cas" => IsFull(claim, head)
        /\ pc[p] = "ts_cas" /\ pc'[p] = "write" => ~IsFull(claim, head)]_vars

\* A recv() with any claimed message to wait for, or nothing to wait for,
\* returns: the senders ahead of the hole publish, and the last one wakes it.
RecvCompletes ==
    (op["C"] = "recv" /\ (claim > chead \/ senders = 0)) ~> (op["C"] # "recv")

\* A send() leaves its wait while the ring has room or the receiver is gone.
SendCompletes ==
    \A p \in Senders :
        (op[p] = "send" /\ (~IsFull(claim, head) \/ rxDropped)) ~>
            (op[p] # "send" \/ (IsFull(claim, head) /\ ~rxDropped))

\* The ring is a bounded FIFO channel: a message enters when its sequence is
\* claimed and leaves when it is moved out of its slot.
Chan == INSTANCE Channel WITH
    Msgs  <- 1..MaxOffers,
    live  <- [s \in {"tx", "rx"} |-> IF s = "tx" THEN senders > 0 ELSE op["C"] # "drop"],
    told  <- {s \in {"tx", "rx"} : IF s = "tx" THEN told \cap Senders # {} ELSE "C" \in told},
    freed <- refs = {}

ImplementsChannel == Chan!Spec

=============================================================================
