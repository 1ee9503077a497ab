-------------------------------- MODULE Spsc --------------------------------
(***************************************************************************)
(* The bounded single-producer single-consumer ring of src/spsc.rs with    *)
(* the Parker of src/notify.rs it blocks on.                               *)
(*                                                                         *)
(* Thread "P" owns the Sender, thread "C" the Receiver.  An action is one  *)
(* access to memory the two share (an atomic, a slot of the buffer, the    *)
(* mutex of a parker) together with the thread-local computation around    *)
(* it; a SeqCst fence is part of the load that follows it.  Interleaving   *)
(* of these actions is sequentially consistent.                            *)
(***************************************************************************)
EXTENDS Integers, Sequences

CONSTANTS
    Cap,                 \* capacity given to channel()
    Strategies,          \* wait strategies a channel is created with
    DrainLimits,         \* values users pass as max to drain()
    MaxOffers,           \* bound: messages offered to try_send() and send()
    CallbackPanics       \* whether the callback given to drain() may panic

\* assert_cap: the capacity is a positive power of two.
assert_cap(n) == \E k \in 0..n : n = 2^k

ASSUME CapAssumption == Cap \in Nat \ {0} /\ assert_cap(Cap)
ASSUME ConstAssumption ==
    /\ Strategies \subseteq {"BusySpin", "Backoff", "BackoffYield", "Park"}
    /\ DrainLimits \subseteq Nat
    /\ MaxOffers \in Nat
    /\ CallbackPanics \in BOOLEAN

VARIABLES
    strategy,            \* Shared.strategy, fixed by channel()
    buf,                 \* Shared.buf, 0 for a slot never written
    tail, head,          \* Shared.tail, Shared.head
    disconnected,        \* Shared.disconnected
    parked, slot,        \* per Parker: the flag; whether a Thread is in the slot
    token,               \* per thread: the token of std::thread::park
    ptail, cachedHead,   \* Sender.tail, Sender.cached_head
    chead, cachedTail,   \* Receiver.head, Receiver.cached_tail
    start, max,          \* drain(): the guard's start and the argument max
    pc, op, waking,      \* per thread: label, call in progress, parker in wake()
    offered,             \* the number, and so the name, of the last message offered
    refs,                \* threads whose handle still holds the Arc
    sent, delivered,     \* history: messages published, messages moved out
    dropped,             \* history: messages dropped by Shared::drop
    told                 \* history: threads that were answered Disconnected

ring      == <<strategy, buf, tail, head, disconnected>>
parkers   == <<parked, slot, token>>
sender    == <<ptail, cachedHead, offered>>
receiver  == <<chead, cachedTail, start, max>>
control   == <<pc, op, waking>>
history   == <<sent, delivered, dropped, told>>
vars      == <<ring, parkers, sender, receiver, control, refs, history>>

Threads == {"P", "C"}
Parkers == {"producer", "consumer"}
Own(t)   == IF t = "P" THEN "producer" ELSE "consumer"
Other(t) == IF t = "P" THEN "C" ELSE "P"

\* seq & mask, for a capacity that is a power of two.
Slot(seq) == seq % Cap

\* Mutant of IsFull: the ring takes one message too many.
IsFullOffByOne(h) == ptail - h = Cap + 1

\* self.tail - h == sh.cap
IsFull(h) == ptail - h = Cap

-----------------------------------------------------------------------------

\* channel(): empty ring, both handles live, nobody registered.
Init ==
    /\ strategy \in Strategies
    /\ buf = [i \in 0..Cap-1 |-> 0]
    /\ tail = 0 /\ head = 0
    /\ disconnected = FALSE
    /\ parked = [q \in Parkers |-> FALSE]
    /\ slot = [q \in Parkers |-> FALSE]
    /\ token = [t \in Threads |-> FALSE]
    /\ ptail = 0 /\ cachedHead = 0 /\ offered = 0
    /\ chead = 0 /\ cachedTail = 0 /\ start = 0 /\ max = 0
    /\ pc = [t \in Threads |-> "idle"]
    /\ op = [t \in Threads |-> "none"]
    /\ waking = [t \in Threads |-> "none"]
    /\ refs = Threads
    /\ sent = <<>> /\ delivered = <<>> /\ dropped = <<>>
    /\ told = {}

-----------------------------------------------------------------------------
(* Control flow shared by the operations.                                  *)

GoTo(t, label) ==
    /\ pc' = [pc EXCEPT ![t] = label]
    /\ UNCHANGED <<op, waking>>

\* The call answers its caller.
Return(t) ==
    /\ pc' = [pc EXCEPT ![t] = "idle"]
    /\ op' = [op EXCEPT ![t] = "none"]
    /\ waking' = [waking EXCEPT ![t] = "none"]

\* Mutant of WakeOrReturn: nobody is woken after a publish.
WakeOrReturnSilent(t) == Return(t)

\* After an index was published: wake the other side if the strategy parks.
WakeOrReturn(t) ==
    IF strategy = "Park"
    THEN /\ pc' = [pc EXCEPT ![t] = "wake_load"]
         /\ waking' = [waking EXCEPT ![t] = Own(Other(t))]
         /\ UNCHANGED op
    ELSE Return(t)

\* First label of try_send() and of try_recv().
Retry(t) == IF t = "P" THEN "ts_disc" ELSE "tr_check"

\* Full or Empty: the try_ call answers it, the blocking call waits.  The
\* ladders of BusySpin and of both Backoffs only delay the next attempt.
Blocked(t) ==
    \/ /\ op[t] \in {"try_send", "try_recv"}
       /\ Return(t)
    \/ /\ op[t] \in {"send", "recv"}
       /\ GoTo(t, IF strategy = "Park" THEN "prepare_slot" ELSE Retry(t))

-----------------------------------------------------------------------------
(* The sender.                                                             *)

SenderCall(o) ==
    /\ pc["P"] = "idle"
    /\ offered < MaxOffers
    /\ offered' = offered + 1
    /\ pc' = [pc EXCEPT !["P"] = "ts_disc"]
    /\ op' = [op EXCEPT !["P"] = o]
    /\ UNCHANGED <<ring, parkers, ptail, cachedHead, receiver, waking, refs, history>>

TsDisconnected ==
    /\ pc["P"] = "ts_disc"
    /\ IF disconnected
       THEN Return("P") /\ told' = told \cup {"P"}
       ELSE GoTo("P", "ts_full") /\ UNCHANGED told
    /\ UNCHANGED <<ring, parkers, sender, receiver, refs, sent, delivered, dropped>>

\* Mutant of TsFull: Full is answered from the cached head alone.
TsFullNoReload ==
    /\ pc["P"] = "ts_full"
    /\ IF IsFull(cachedHead) THEN Blocked("P") ELSE GoTo("P", "write")
    /\ UNCHANGED <<ring, parkers, sender, receiver, refs, history>>

\* The shared head is loaded only when the cached one says that the ring is full.
TsFull ==
    /\ pc["P"] = "ts_full"
    /\ \/ /\ ~IsFull(cachedHead)
          /\ GoTo("P", "write")
          /\ UNCHANGED cachedHead
       \/ /\ IsFull(cachedHead)
          /\ cachedHead' = head
          /\ IF IsFull(head) THEN Blocked("P") ELSE GoTo("P", "write")
    /\ UNCHANGED <<ring, parkers, ptail, offered, receiver, refs, history>>

TsWrite ==
    /\ pc["P"] = "write"
    /\ buf' = [buf EXCEPT ![Slot(ptail)] = offered]
    /\ GoTo("P", "publish")
    /\ UNCHANGED <<strategy, tail, head, disconnected, parkers, sender, receiver, refs, history>>

TsPublish ==
    /\ pc["P"] = "publish"
    /\ ptail' = ptail + 1
    /\ tail' = ptail + 1
    /\ sent' = Append(sent, offered)
    /\ WakeOrReturn("P")
    /\ UNCHANGED <<strategy, buf, head, disconnected, parkers, cachedHead, offered, receiver,
                   refs, delivered, dropped, told>>

-----------------------------------------------------------------------------
(* The receiver.                                                           *)

ReceiverCall(o) ==
    /\ pc["C"] = "idle"
    /\ pc' = [pc EXCEPT !["C"] = "tr_check"]
    /\ op' = [op EXCEPT !["C"] = o]
    /\ UNCHANGED <<ring, parkers, sender, receiver, waking, refs, history>>

\* The shared tail is loaded only when the cached one says that the ring is empty.
TrCheck ==
    /\ pc["C"] = "tr_check"
    /\ \/ /\ chead # cachedTail
          /\ GoTo("C", "read")
          /\ UNCHANGED cachedTail
       \/ /\ chead = cachedTail
          /\ cachedTail' = tail
          /\ GoTo("C", IF chead = tail THEN "tr_disc" ELSE "read")
    /\ UNCHANGED <<ring, parkers, sender, chead, start, max, refs, history>>

TrDisconnected ==
    /\ pc["C"] = "tr_disc"
    /\ IF disconnected THEN GoTo("C", "tr_last") ELSE Blocked("C")
    /\ UNCHANGED <<ring, parkers, sender, receiver, refs, history>>

\* Mutant of TrLast: Disconnected without the second load of tail.
TrLastNoReload ==
    /\ pc["C"] = "tr_last"
    /\ Return("C")
    /\ told' = told \cup {"C"}
    /\ UNCHANGED <<ring, parkers, sender, receiver, refs, sent, delivered, dropped>>

\* One more load of tail decides between Disconnected and a last message.
TrLast ==
    /\ pc["C"] = "tr_last"
    /\ IF tail = chead
       THEN Return("C") /\ told' = told \cup {"C"} /\ UNCHANGED cachedTail
       ELSE GoTo("C", "read") /\ cachedTail' = tail /\ UNCHANGED told
    /\ UNCHANGED <<ring, parkers, sender, chead, start, max, refs, sent, delivered, dropped>>

\* The message is moved out of its slot; in drain() it is passed to the
\* callback, which returns or panics.
Read ==
    /\ pc["C"] = "read"
    /\ delivered' = Append(delivered, buf[Slot(chead)])
    /\ chead' = chead + 1
    /\ \/ op["C"] # "drain" /\ GoTo("C", "tr_publish")
       \/ op["C"] = "drain" /\ GoTo("C", "dr_check")
       \/ op["C"] = "drain" /\ CallbackPanics /\ GoTo("C", "dr_unwind")
    /\ UNCHANGED <<ring, parkers, sender, cachedTail, start, max, refs, sent, dropped, told>>

TrPublish ==
    /\ pc["C"] = "tr_publish"
    /\ head' = chead
    /\ WakeOrReturn("C")
    /\ UNCHANGED <<strategy, buf, tail, disconnected, parkers, sender, receiver, refs, history>>

DrainCall ==
    /\ pc["C"] = "idle"
    /\ start' = chead
    /\ max' \in DrainLimits
    /\ pc' = [pc EXCEPT !["C"] = "dr_check"]
    /\ op' = [op EXCEPT !["C"] = "drain"]
    /\ UNCHANGED <<ring, parkers, sender, chead, cachedTail, waking, refs, history>>

\* The loop head of drain(); count is chead - start.
DrCheck ==
    /\ pc["C"] = "dr_check"
    /\ \/ /\ chead - start >= max
          /\ GoTo("C", "dr_guard")
          /\ UNCHANGED cachedTail
       \/ /\ chead - start < max
          /\ chead # cachedTail
          /\ GoTo("C", "read")
          /\ UNCHANGED cachedTail
       \/ /\ chead - start < max
          /\ chead = cachedTail
          /\ cachedTail' = tail
          /\ GoTo("C", IF chead = tail THEN "dr_guard" ELSE "read")
    /\ UNCHANGED <<ring, parkers, sender, chead, start, max, refs, history>>

\* Mutant of PublishGuardDrop: the guard forgets the batch.
PublishGuardForgets == UNCHANGED head

\* PublishGuard::drop
PublishGuardDrop ==
    head' = IF chead # start THEN chead ELSE head

\* Mutant of DrGuard: a parked producer is not woken after a batch.
DrGuardSilent ==
    /\ pc["C"] = "dr_guard"
    /\ PublishGuardDrop
    /\ Return("C")
    /\ start' = 0 /\ max' = 0
    /\ UNCHANGED <<strategy, buf, tail, disconnected, parkers, sender, chead, cachedTail,
                   refs, history>>

\* Normal end: the guard publishes, then a parked producer is woken.
DrGuard ==
    /\ pc["C"] = "dr_guard"
    /\ PublishGuardDrop
    /\ IF chead # start THEN WakeOrReturn("C") ELSE Return("C")
    /\ start' = 0 /\ max' = 0
    /\ UNCHANGED <<strategy, buf, tail, disconnected, parkers, sender, chead, cachedTail,
                   refs, history>>

\* Unwinding: the guard publishes; the wake after it is not reached.
DrUnwind ==
    /\ pc["C"] = "dr_unwind"
    /\ PublishGuardDrop
    /\ Return("C")
    /\ start' = 0 /\ max' = 0
    /\ UNCHANGED <<strategy, buf, tail, disconnected, parkers, sender, chead, cachedTail,
                   refs, history>>

-----------------------------------------------------------------------------
(* Blocking on a Parker: prepare_park, fence, re-check, then cancel or park. *)

\* What the re-check of send() and of recv() looks for in the ring.
RingReady(t) == IF t = "P" THEN ptail - head < Cap ELSE tail # chead

PrepareSlot(t) ==
    /\ pc[t] = "prepare_slot"
    /\ slot' = [slot EXCEPT ![Own(t)] = TRUE]
    /\ GoTo(t, "prepare_flag")
    /\ UNCHANGED <<ring, parked, token, sender, receiver, refs, history>>

PrepareFlag(t) ==
    /\ pc[t] = "prepare_flag"
    /\ parked' = [parked EXCEPT ![Own(t)] = TRUE]
    /\ GoTo(t, "recheck")
    /\ UNCHANGED <<ring, slot, token, sender, receiver, refs, history>>

\* Mutant of Recheck: park without looking at the ring again.
RecheckSkipped(t) ==
    /\ pc[t] = "recheck"
    /\ GoTo(t, "recheck_disc")
    /\ UNCHANGED <<ring, parkers, sender, receiver, refs, history>>

Recheck(t) ==
    /\ pc[t] = "recheck"
    /\ GoTo(t, IF RingReady(t) THEN "cancel" ELSE "recheck_disc")
    /\ UNCHANGED <<ring, parkers, sender, receiver, refs, history>>

RecheckDisconnected(t) ==
    /\ pc[t] = "recheck_disc"
    /\ GoTo(t, IF disconnected THEN "cancel" ELSE "park")
    /\ UNCHANGED <<ring, parkers, sender, receiver, refs, history>>

\* Parker::cancel, and the store of Parker::park after thread::park returned.
\* The registered Thread stays in the slot.
Withdraw(t) ==
    /\ pc[t] \in {"cancel", "unparked"}
    /\ parked' = [parked EXCEPT ![Own(t)] = FALSE]
    /\ GoTo(t, Retry(t))
    /\ UNCHANGED <<ring, slot, token, sender, receiver, refs, history>>

\* thread::park returns because it finds a token, which it consumes ...
Unpark(t) ==
    /\ pc[t] = "park"
    /\ token[t]
    /\ token' = [token EXCEPT ![t] = FALSE]
    /\ GoTo(t, "unparked")
    /\ UNCHANGED <<ring, parked, slot, sender, receiver, refs, history>>

\* ... or for no reason at all.
SpuriousUnpark(t) ==
    /\ pc[t] = "park"
    /\ GoTo(t, "unparked")
    /\ UNCHANGED <<ring, parkers, sender, receiver, refs, history>>

ParkStep(t) ==
    \/ PrepareSlot(t) \/ PrepareFlag(t)
    \/ Recheck(t) \/ RecheckDisconnected(t)
    \/ Withdraw(t) \/ Unpark(t)

-----------------------------------------------------------------------------
(* Parker::wake, called after a publish and, on both parkers, by a drop.   *)

\* The consumer's parker first, then the producer's, then the Arc.
NextWake(t) ==
    IF op[t] # "drop"
    THEN Return(t)
    ELSE /\ \/ /\ waking[t] = "consumer"
               /\ pc' = [pc EXCEPT ![t] = "wake_load"]
               /\ waking' = [waking EXCEPT ![t] = "producer"]
            \/ /\ waking[t] # "consumer"
               /\ pc' = [pc EXCEPT ![t] = "arc"]
               /\ waking' = [waking EXCEPT ![t] = "none"]
         /\ UNCHANGED op

WakeLoad(t) ==
    /\ pc[t] = "wake_load"
    /\ IF parked[waking[t]] THEN GoTo(t, "wake_store") ELSE NextWake(t)
    /\ UNCHANGED <<ring, parkers, sender, receiver, refs, history>>

WakeStore(t) ==
    /\ pc[t] = "wake_store"
    /\ parked' = [parked EXCEPT ![waking[t]] = FALSE]
    /\ GoTo(t, "wake_take")
    /\ UNCHANGED <<ring, slot, token, sender, receiver, refs, history>>

\* The thread a parker's slot can hold: handles stay on their threads.
Waiter(q) == IF q = "producer" THEN "P" ELSE "C"

\* Take the Thread out of the slot under its mutex and unpark it.
WakeTake(t) ==
    /\ pc[t] = "wake_take"
    /\ slot' = [slot EXCEPT ![waking[t]] = FALSE]
    /\ token' = IF slot[waking[t]]
                THEN [token EXCEPT ![Waiter(waking[t])] = TRUE]
                ELSE token
    /\ NextWake(t)
    /\ UNCHANGED <<ring, parked, sender, receiver, refs, history>>

WakeStep(t) == WakeLoad(t) \/ WakeStore(t) \/ WakeTake(t)

-----------------------------------------------------------------------------
(* Dropping the handles.                                                   *)

Drop(t) ==
    /\ pc[t] = "idle"
    /\ disconnected' = TRUE
    /\ op' = [op EXCEPT ![t] = "drop"]
    /\ waking' = [waking EXCEPT ![t] = "consumer"]
    /\ pc' = [pc EXCEPT ![t] = "wake_load"]
    /\ UNCHANGED <<strategy, buf, tail, head, parkers, sender, receiver, refs, history>>

\* Shared::drop destroys the messages in head..tail.
SharedDrop ==
    dropped' = [i \in 1..(tail - head) |-> buf[Slot(head + i - 1)]]

\* The last of the two handles to release the Arc runs Shared::drop.
ArcDrop(t) ==
    /\ pc[t] = "arc"
    /\ refs' = refs \ {t}
    /\ IF refs = {t} THEN SharedDrop ELSE UNCHANGED dropped
    /\ GoTo(t, "gone")
    /\ UNCHANGED <<ring, parkers, sender, receiver, sent, delivered, told>>

-----------------------------------------------------------------------------

\* The steps a thread takes inside a call.
SenderStep ==
    \/ TsDisconnected \/ TsFull \/ TsWrite \/ TsPublish
    \/ ParkStep("P") \/ WakeStep("P") \/ ArcDrop("P")

ReceiverStep ==
    \/ TrCheck \/ TrDisconnected \/ TrLast \/ Read \/ TrPublish
    \/ DrCheck \/ DrGuard \/ DrUnwind
    \/ ParkStep("C") \/ WakeStep("C") \/ ArcDrop("C")

\* The calls users choose to make.
Calls ==
    \/ \E o \in {"try_send", "send"} : SenderCall(o)
    \/ \E o \in {"try_recv", "recv"} : ReceiverCall(o)
    \/ DrainCall
    \/ \E t \in Threads : Drop(t)

\* Both handles are gone: the only way for the system to stop.
Terminated ==
    /\ \A t \in Threads : pc[t] = "gone"
    /\ UNCHANGED vars

Next ==
    \/ SenderStep \/ ReceiverStep
    \/ Calls
    \/ \E t \in Threads : SpuriousUnpark(t)
    \/ Terminated

Spec == Init /\ [][Next]_vars

\* A thread inside a call keeps running unless thread::park blocks it; users
\* need not call, and spurious wake-ups need not happen.
FairSpec == Spec /\ WF_vars(SenderStep) /\ WF_vars(ReceiverStep)

-----------------------------------------------------------------------------
(* Properties.                                                             *)

CommonPcs == {"idle", "prepare_slot", "prepare_flag", "recheck", "recheck_disc", "cancel",
              "park", "unparked", "wake_load", "wake_store", "wake_take", "arc", "gone"}
SenderPcs == CommonPcs \cup {"ts_disc", "ts_full", "write", "publish"}
ReceiverPcs == CommonPcs \cup {"tr_check", "tr_disc", "tr_last", "read", "tr_publish",
                               "dr_check", "dr_guard", "dr_unwind"}

\* Every variable ranges over the values its declaration in spsc.rs and notify.rs gives it.
TypeOK ==
    /\ strategy \in Strategies
    /\ buf \in [0..Cap-1 -> 0..MaxOffers]
    /\ tail \in Nat /\ head \in Nat
    /\ disconnected \in BOOLEAN
    /\ parked \in [Parkers -> BOOLEAN]
    /\ slot \in [Parkers -> BOOLEAN]
    /\ token \in [Threads -> BOOLEAN]
    /\ ptail \in Nat /\ cachedHead \in Nat /\ offered \in 0..MaxOffers
    /\ chead \in Nat /\ cachedTail \in Nat /\ start \in Nat /\ max \in Nat
    /\ pc \in [Threads -> SenderPcs \cup ReceiverPcs]
    /\ pc["P"] \in SenderPcs /\ pc["C"] \in ReceiverPcs
    /\ op \in [Threads -> {"none", "try_send", "send", "try_recv", "recv", "drain", "drop"}]
    /\ waking \in [Threads -> Parkers \cup {"none"}]
    /\ refs \subseteq Threads
    /\ sent \in Seq(0..MaxOffers)
    /\ delivered \in Seq(0..MaxOffers)
    /\ dropped \in Seq(0..MaxOffers)
    /\ told \subseteq Threads

\* The two sides never touch one slot at the same time: while the sender is
\* about to write a slot the receiver is not about to move a message out of it.
NoDataRace ==
    ~(pc["P"] = "write" /\ pc["C"] = "read" /\ Slot(ptail) = Slot(chead))

\* What the receiver moved out is what the sender published, in order, and the
\* messages published but not yet moved out are intact in their slots although
\* both sides work from cached indices.
Fifo ==
    /\ Len(delivered) <= Len(sent)
    /\ \A i \in 1..Len(delivered) : delivered[i] = sent[i]
    /\ \A i \in Len(delivered)+1..Len(sent) : sent[i] = buf[Slot(i - 1)]
    /\ Len(sent) - Len(delivered) <= Cap

\* When the ring is destroyed every message published has been moved out or is
\* dropped by Shared::drop, never both and never neither; a panic in the
\* callback of drain() does not change that.
ExactlyOnce ==
    refs = {} => delivered \o dropped = sent

\* try_recv() and recv() answer Disconnected only if the sender is gone and
\* every message it published, the one published just before the drop
\* included, has been moved out.
DisconnectedMeansDrained ==
    "C" \in told => op["P"] = "drop" /\ delivered = sent

\* A wake() in progress, or still to come in a drop, that will set the token
\* of thread t.
WakePending(t) ==
    LET q == Own(t)
        o == Other(t)
    IN  \/ token[t]
        \/ /\ slot[q]
           /\ \/ waking[o] = q /\ pc[o] \in {"wake_store", "wake_take"}
              \/ waking[o] = q /\ pc[o] = "wake_load" /\ parked[q]
              \/ op[o] = "drop" /\ waking[o] = "consumer" /\ q = "producer" /\ parked[q]

\* A consumer blocked in recv() while a message is published or the sender is
\* gone is about to be woken: no interleaving of prepare_park, re-check and
\* park with publish, drop and wake loses the wake-up.
ConsumerNeverMissesWake ==
    pc["C"] = "park" /\ (RingReady("C") \/ disconnected) => WakePending("C")

\* The same for a producer blocked in send() while there is room or the
\* receiver is gone, as long as no callback of drain() panics.
ProducerNeverMissesWake ==
    pc["P"] = "park" /\ (RingReady("P") \/ disconnected) => WakePending("P")

\* A thread that only an unpark gets going again.
Asleep(t) == pc[t] = "park" /\ ~token[t]

\* The two sides never wait for each other, as long as no callback of drain()
\* panics: a sender asleep in send() finds its receiver neither asleep in
\* recv() nor gone, and the other way round, in whatever order the two
\* registered, re-checked, published and woke.
NoMutualSleep ==
    \A t \in Threads : Asleep(t) => ~Asleep(Other(t)) /\ pc[Other(t)] # "gone"

\* docs/design.md, section 1: only a stale cache makes a side reload the index
\* of the other.  The caches save loads and change no decision: try_send()
\* writes, try_recv() and each turn of drain() read, exactly when the shared
\* indices themselves allow it at that moment.  Full is thus true at the
\* load of head that decides it, Empty at the load of tail; the answer Empty
\* comes a step later, after the load of disconnected, and may stand beside a
\* message published in between.
CachesDecideTruly ==
    [][/\ pc["P"] = "ts_full" /\ pc'["P"] # "ts_full" =>
            (pc'["P"] = "write" <=> tail - head < Cap)
       /\ pc["C"] = "tr_check" /\ pc'["C"] # "tr_check" =>
            (pc'["C"] = "read" <=> tail # chead)
       /\ pc["C"] = "dr_check" /\ pc'["C"] # "dr_check" =>
            (pc'["C"] = "read" <=> chead - start < max /\ tail # chead)]_vars

\* A recv() that has something to return, or nothing to wait for, returns.
RecvCompletes ==
    (op["C"] = "recv" /\ (RingReady("C") \/ disconnected)) ~> (op["C"] # "recv")

\* A send() that has room, or nobody to wait for, returns.
SendCompletes ==
    (op["P"] = "send" /\ (RingReady("P") \/ disconnected)) ~> (op["P"] # "send")

\* The ring is a bounded FIFO channel: a message enters when tail is published,
\* leaves when it is moved out of its slot, and a side is gone once its drop
\* has stored the flag.
Chan == INSTANCE Channel WITH
    Msgs  <- 1..MaxOffers,
    live  <- [s \in {"tx", "rx"} |-> IF s = "tx" THEN op["P"] # "drop" ELSE op["C"] # "drop"],
    told  <- {s \in {"tx", "rx"} : (IF s = "tx" THEN "P" ELSE "C") \in told},
    freed <- refs = {}

ImplementsChannel == Chan!Spec

\* The calls as Ring sees them: a thread that blocks or has given up a turn is
\* about to try again, one that wakes the other side has nothing left to do,
\* and a message found in tr_check leaves when its slot is given back.
ParkPcs == {"prepare_slot", "prepare_flag", "recheck", "recheck_disc", "cancel", "park",
            "unparked"}
RingSpc ==
    CASE pc["P"] \in ParkPcs \cup {"ts_disc"}          -> "ts_disc"
      [] pc["P"] \in {"ts_full", "write", "publish"}   -> "ts_send"
      [] OTHER                                         -> "idle"
RingRpc ==
    CASE pc["C"] \in ParkPcs \cup {"tr_check", "tr_publish"}        -> "tr_tail"
      [] pc["C"] \in {"tr_disc", "tr_last", "dr_guard", "dr_unwind"} -> pc["C"]
      [] pc["C"] = "read" -> IF op["C"] = "drain" THEN "dr_take" ELSE "tr_tail"
      [] pc["C"] = "dr_check"                                        -> "dr_take"
      [] OTHER                                                       -> "idle"
RingChead == IF pc["C"] = "tr_publish" THEN chead - 1 ELSE chead
Sides(ts) == {s \in {"tx", "rx"} : (IF s = "tx" THEN "P" ELSE "C") \in ts}
RingLive  == Sides({t \in Threads : op[t] # "drop"})

\* The contract Sharded builds on: however the two sides interleave their
\* loads, caches, slots, parks and wakes, each call is one of the steps of Ring,
\* decided by the true indices at the moment it takes effect.
R == INSTANCE Ring WITH
    chead <- RingChead, live <- RingLive, spc <- RingSpc, rpc <- RingRpc,
    refs <- Sides(refs), told <- Sides(told), dropped <- Len(dropped)

ImplementsRing == R!Spec

\* docs/design.md, section 5: "No message ever disappears into a disconnect
\* race on the send side."  try_send() publishes only while the receiver lives.
PublishOnlyToLiveReceiver ==
    [][sent' # sent => op["C"] # "drop"]_vars

\* docs/design.md, section 6, on a panicking callback: "A parked producer then
\* wakes on the next normal operation, or on receiver drop."  A producer parked
\* beside a ring with room is woken once the receiver starts another recv().
PanickedDrainWakesLater ==
    (pc["P"] = "park" /\ RingReady("P") /\ op["C"] = "recv") ~> (pc["P"] # "park")

=============================================================================
