--------------------------- MODULE WaiterListWeak ---------------------------
(***************************************************************************)
(* The WaiterList of src/notify.rs on weakly ordered memory: senders wait  *)
(* for room in a full ring, the receiver makes room or goes away and wakes *)
(* them all.  Memory is that of ParkerWeak: a store waits in a buffer of   *)
(* its thread until a fence or a release pushes it out; a swap acts on     *)
(* memory itself.                                                          *)
(*                                                                         *)
(* The ring is two counters: a claim also publishes, since only the wait   *)
(* for room is in question here.  The loads of claim and head in try_send()*)
(* are one step with the exchange: a Full is true when head is loaded, a   *)
(* claim has room when it is won, and a lost exchange only tries again.    *)
(***************************************************************************)
EXTENDS Integers

CONSTANTS
    Senders,             \* the sending threads
    Cap,                 \* capacity given to channel()
    MaxClaims            \* bound: messages sent

ASSUME ConstAssumption == "C" \notin Senders /\ Cap \in Nat \ {0} /\ MaxClaims \in Nat

Threads == Senders \cup {"C"}

VARIABLES
    claim, head,         \* memory: Shared.claim, Shared.head
    rxDropped,           \* memory: Shared.rx_dropped
    waiting,             \* memory: WaiterList.waiting
    buf,                 \* per thread: the store on its way to memory
    list,                \* WaiterList.list: the threads in it
    token,               \* per sender: the token of std::thread::park
    chead,               \* Receiver.head
    seen,                \* per sender: the claim its re-check loaded
    pc                   \* per thread: label

ring   == <<claim, head, rxDropped>>
vars   == <<ring, waiting, buf, list, token, chead, seen, pc>>

Stores == {"none", "head", "dropped", "waiting"}

Init ==
    /\ claim = 0 /\ head = 0 /\ chead = 0
    /\ rxDropped = FALSE /\ waiting = FALSE
    /\ buf = [t \in Threads |-> "none"]
    /\ list = {} /\ token = [s \in Senders |-> FALSE]
    /\ seen = [s \in Senders |-> 0]
    /\ pc = [t \in Threads |-> "idle"]

-----------------------------------------------------------------------------
(* Memory.                                                                 *)

GoTo(t, label) == pc' = [pc EXCEPT ![t] = label]

Store(t, store) ==
    /\ buf[t] = "none"
    /\ buf' = [buf EXCEPT ![t] = store]
    /\ UNCHANGED <<ring, waiting>>

Commit(t) ==
    /\ buf[t] # "none"
    /\ head' = IF buf[t] = "head" THEN chead ELSE head
    /\ rxDropped' = (rxDropped \/ buf[t] = "dropped")
    /\ waiting' = (waiting \/ buf[t] = "waiting")
    /\ buf' = [buf EXCEPT ![t] = "none"]
    /\ UNCHANGED <<claim, list, token, chead, seen, pc>>

\* Mutant of FenceP, FenceC: the fence is missing.
NoFence(t) == TRUE

\* fence(SeqCst) between prepare_wait() and the re-check.
FenceP(t) == buf[t] = "none"

\* fence(SeqCst) between the receiver's store and wake_all().
FenceC(t) == buf[t] = "none"

\* The receiver holds the Mutex of the list.
Locked == pc["C"] = "drain"

-----------------------------------------------------------------------------
(* A sender: send() with WaitStrategy::Park.                               *)

Room == claim < head + Cap

Call(s) ==
    /\ pc[s] = "idle" /\ claim < MaxClaims
    /\ GoTo(s, "try")
    /\ UNCHANGED <<ring, waiting, buf, list, token, chead, seen>>

\* try_send(): Disconnected ...
TsDisconnected(s) ==
    /\ pc[s] = "try"
    /\ GoTo(s, IF rxDropped THEN "idle" ELSE "claim")
    /\ UNCHANGED <<ring, waiting, buf, list, token, chead, seen>>

\* ... or a slot is claimed and filled, or Full.
TsClaim(s) ==
    /\ pc[s] = "claim"
    /\ \/ Room /\ GoTo(s, "idle") /\ claim' = claim + 1
       \/ ~Room /\ GoTo(s, "push") /\ UNCHANGED claim
    /\ UNCHANGED <<head, rxDropped, waiting, buf, list, token, chead, seen>>

\* prepare_wait(): into the list, then the flag.
WaitPush(s) ==
    /\ pc[s] = "push" /\ ~Locked
    /\ list' = list \cup {s}
    /\ GoTo(s, "flag")
    /\ UNCHANGED <<ring, waiting, buf, token, chead, seen>>

WaitFlag(s) ==
    /\ pc[s] = "flag"
    /\ Store(s, "waiting")
    /\ GoTo(s, "recheck")
    /\ UNCHANGED <<list, token, chead, seen>>

\* The re-check loads claim, then head, then rx_dropped.
RecheckClaim(s) ==
    /\ pc[s] = "recheck"
    /\ FenceP(s)
    /\ seen' = [seen EXCEPT ![s] = claim]
    /\ GoTo(s, "recheck_head")
    /\ UNCHANGED <<ring, waiting, buf, list, token, chead>>

RecheckHead(s) ==
    /\ pc[s] = "recheck_head"
    /\ GoTo(s, IF seen[s] < head + Cap THEN "try" ELSE "recheck_disc")
    /\ seen' = [seen EXCEPT ![s] = 0]
    /\ UNCHANGED <<ring, waiting, buf, list, token, chead>>

RecheckDisconnected(s) ==
    /\ pc[s] = "recheck_disc"
    /\ GoTo(s, IF rxDropped THEN "try" ELSE "park")
    /\ UNCHANGED <<ring, waiting, buf, list, token, chead, seen>>

Unpark(s) ==
    /\ pc[s] = "park" /\ token[s]
    /\ token' = [token EXCEPT ![s] = FALSE]
    /\ GoTo(s, "try")
    /\ UNCHANGED <<ring, waiting, buf, list, chead, seen>>

SpuriousUnpark(s) ==
    /\ pc[s] = "park" /\ ~token[s]
    /\ GoTo(s, "try")
    /\ UNCHANGED <<ring, waiting, buf, list, token, chead, seen>>

-----------------------------------------------------------------------------
(* The receiver.                                                           *)

\* try_recv() that finds a message; nothing else of it concerns the waiters.
TryRecv ==
    /\ pc["C"] = "idle" /\ chead < claim
    /\ chead' = chead + 1
    /\ Store("C", "head")
    /\ GoTo("C", "swap")
    /\ UNCHANGED <<list, token, seen>>

DropReceiver ==
    /\ pc["C"] = "idle"
    /\ Store("C", "dropped")
    /\ GoTo("C", "drop_swap")
    /\ UNCHANGED <<list, token, chead, seen>>

\* Where the receiver goes when its wake_all() ends.
Done == IF rxDropped THEN "gone" ELSE "idle"

\* wake_all(): waiting.swap(false) ...
WakeSwap ==
    /\ pc["C"] \in {"swap", "drop_swap"}
    /\ FenceC("C")
    /\ waiting' = FALSE
    /\ GoTo("C", IF waiting THEN "lock" ELSE Done)
    /\ UNCHANGED <<ring, buf, list, token, chead, seen>>

WakeLock ==
    /\ pc["C"] = "lock"
    /\ GoTo("C", "drain")
    /\ UNCHANGED <<ring, waiting, buf, list, token, chead, seen>>

\* Mutant of WakeDrain: the first thread of the list only.
WakeDrainOne ==
    /\ pc["C"] = "drain"
    /\ \/ \E s \in list : /\ list' = list \ {s}
                          /\ token' = [token EXCEPT ![s] = TRUE]
                          /\ GoTo("C", Done)
       \/ list = {} /\ GoTo("C", Done) /\ UNCHANGED <<list, token>>
    /\ UNCHANGED <<ring, waiting, buf, chead, seen>>

\* ... and everybody in the list is unparked, one after the other.
WakeDrain ==
    /\ pc["C"] = "drain"
    /\ \/ \E s \in list : /\ list' = list \ {s}
                          /\ token' = [token EXCEPT ![s] = TRUE]
                          /\ UNCHANGED pc
       \/ list = {} /\ GoTo("C", Done) /\ UNCHANGED <<list, token>>
    /\ UNCHANGED <<ring, waiting, buf, chead, seen>>

-----------------------------------------------------------------------------

SenderStep(s) ==
    \/ TsDisconnected(s) \/ TsClaim(s) \/ WaitPush(s) \/ WaitFlag(s)
    \/ RecheckClaim(s) \/ RecheckHead(s) \/ RecheckDisconnected(s) \/ Unpark(s)

ReceiverStep == WakeSwap \/ WakeLock \/ WakeDrain

\* No receiver and no call: the way this model stops.
Terminated ==
    /\ pc["C"] = "gone" /\ \A s \in Senders : pc[s] = "idle"
    /\ UNCHANGED vars

Next ==
    \/ \E t \in Threads : Commit(t)
    \/ \E s \in Senders : Call(s) \/ SenderStep(s) \/ SpuriousUnpark(s)
    \/ TryRecv \/ DropReceiver \/ ReceiverStep
    \/ Terminated

Spec == Init /\ [][Next]_vars

\* Threads inside a call keep running and buffers drain; nobody need call, and no
\* park need return by itself.
FairSpec ==
    /\ Spec
    /\ \A t \in Threads : WF_vars(Commit(t))
    /\ \A s \in Senders : WF_vars(SenderStep(s))
    /\ WF_vars(ReceiverStep)

-----------------------------------------------------------------------------
(* Properties.                                                             *)

WaitPcs     == {"recheck_head", "recheck_disc", "park"}
SenderPcs   == {"idle", "try", "claim", "push", "flag", "recheck"} \cup WaitPcs
ReceiverPcs == {"idle", "swap", "drop_swap", "lock", "drain", "gone"}

\* Every variable has its type; at most Cap messages are in the ring.
TypeOK ==
    /\ claim \in Nat /\ head \in Nat /\ chead \in Nat
    /\ head <= chead /\ chead <= claim /\ claim <= head + Cap
    /\ rxDropped \in BOOLEAN /\ waiting \in BOOLEAN
    /\ buf \in [Threads -> Stores]
    /\ list \subseteq Senders /\ token \in [Senders -> BOOLEAN]
    /\ seen \in [Senders -> Nat] /\ \A s \in Senders : seen[s] <= claim
    /\ pc \in [Threads -> SenderPcs \cup ReceiverPcs]
    /\ pc["C"] \in ReceiverPcs /\ \A s \in Senders : pc[s] \in SenderPcs

\* The receiver is about to look at the flag, or to unpark s.
WakeComing(s) ==
    \/ pc["C"] \in {"swap", "drop_swap"}
    \/ pc["C"] \in {"lock", "drain"} /\ s \in list

\* No sender is left behind: when one is parked although there is room, or no
\* receiver any more, the receiver is still about to wake it.
NobodyLeftParked ==
    \A s \in Senders : pc[s] = "park" /\ ~token[s] /\ (Room \/ rxDropped) => WakeComing(s)

\* Every blocked sender goes on, however many are blocked on one slot and lose
\* the race for it: one that is parked beside a free slot returns from park(), or
\* the slot is taken by another; and the last wake_all() of a dropped receiver
\* reaches everyone and ends every send().
WaitersGoOn ==
    \A s \in Senders :
        /\ (pc[s] = "park" /\ Room) ~> (pc[s] # "park" \/ ~Room)
        /\ (rxDropped /\ pc[s] # "idle") ~> pc[s] = "idle"

-----------------------------------------------------------------------------
(* The inductive invariant.                                                *)

\* Which store a thread can have on its way at each label.
BufInv ==
    /\ buf["C"] # "waiting"
    /\ buf["C"] = "head" => pc["C"] = "swap"
    /\ buf["C"] = "dropped" => pc["C"] = "drop_swap"
    /\ head = chead \/ buf["C"] = "head"
    /\ rxDropped => pc["C"] \notin {"idle", "swap"}
    /\ \A s \in Senders :
          /\ buf[s] \in {"none", "waiting"}
          /\ buf[s] = "waiting" => pc[s] = "recheck"

\* From prepare_wait() on a sender is in the list, or has been unparked.
ListInv == \A s \in Senders :
    pc[s] \in {"flag", "recheck"} \cup WaitPcs => s \in list \/ token[s]

\* Once its fence is passed, the flag is up, or the receiver is on its way to the list.
FlagInv == \A s \in Senders :
    (pc[s] = "recheck" /\ buf[s] = "none") \/ pc[s] \in WaitPcs =>
        token[s] \/ waiting \/ pc["C"] \in {"lock", "drain"}

\* Room that came after the load of head is room the receiver will tell of.
RecheckInv == \A s \in Senders :
    pc[s] = "recheck_disc" /\ ~token[s] /\ Room => WakeComing(s)

IndInv == TypeOK /\ BufInv /\ ListInv /\ FlagInv /\ RecheckInv /\ NobodyLeftParked
=============================================================================
