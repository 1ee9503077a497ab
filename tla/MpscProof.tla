------------------------------ MODULE MpscProof ------------------------------
(***************************************************************************)
(* Proofs about Mpsc, for every finite set of senders, every capacity and  *)
(* every bound on the offers.                                              *)
(***************************************************************************)
EXTENDS MpscInv, SequenceTheorems, FiniteSetTheorems, TLAPS

\* A function on 1..n is a sequence of length n.
LEMMA FunIsSeq ==
    ASSUME NEW S, NEW n \in Nat, NEW f \in [1..n -> S]
    PROVE  f \in Seq(S) /\ Len(f) = n
<1>1. f \in Seq(S)
  BY SeqDef
<1>2. DOMAIN f = 1..Len(f) /\ Len(f) \in Nat
  BY <1>1, LenProperties
<1> QED
  BY <1>1, <1>2

\* Division with remainder by the capacity.
LEMMA DivMod ==
    ASSUME NEW a \in Nat
    PROVE  /\ a \div Cap \in Int
           /\ a = (Cap * (a \div Cap)) + (a % Cap)
BY CapAssumption

\* A positive multiple of the capacity is at least the capacity.
LEMMA PositiveMultiple ==
    ASSUME NEW k \in Int, Cap * k > 0
    PROVE  Cap * k >= Cap
<1> USE CapAssumption
<1>1. k > 0
  OBVIOUS
<1>2. k - 1 \in Nat
  BY <1>1
<1>3. Cap * k = Cap + (Cap * (k - 1))
  OBVIOUS
<1>4. Cap * (k - 1) >= 0
  BY <1>2
<1> QED
  BY <1>3, <1>4

\* A sequence number selects a slot of the buffer.
LEMMA SlotRange ==
    ASSUME NEW n \in Nat
    PROVE  Slot(n) \in 0..Cap-1
BY CapAssumption DEF Slot

\* A sequence number is its round and its slot.
LEMMA RoundSlot ==
    ASSUME NEW n \in Nat
    PROVE  /\ Round(n) \in Int
           /\ n = (Cap * Round(n)) + Slot(n)
BY DivMod DEF Round, Slot

\* Sequence numbers less than a capacity apart select different slots: the
\* sender's next slot is never one that still holds a message.
LEMMA SlotDistinct ==
    ASSUME NEW a \in Nat, NEW b \in Nat, a < b, b < a + Cap
    PROVE  Slot(a) # Slot(b)
<1> DEFINE k == (b \div Cap) - (a \div Cap)
<1> SUFFICES ASSUME a % Cap = b % Cap PROVE FALSE
  BY DEF Slot
<1>1. /\ a \div Cap \in Int
      /\ b \div Cap \in Int
      /\ a = (Cap * (a \div Cap)) + (a % Cap)
      /\ b = (Cap * (b \div Cap)) + (b % Cap)
  BY DivMod
<1>2. k \in Int /\ b - a = Cap * k
  BY <1>1, CapAssumption
<1> HIDE DEF k
<1>3. Cap * k > 0 /\ Cap * k < Cap
  BY <1>2, CapAssumption
<1> QED
  BY <1>2, <1>3, PositiveMultiple, CapAssumption

\* A part of the state that a step leaves alone keeps its type.
LEMMA TypeKept ==
    ASSUME TypeOK
    PROVE  /\ UNCHANGED ring => RingType'
           /\ UNCHANGED waiters => WaitersType'
           /\ UNCHANGED sender => SenderType'
           /\ UNCHANGED receiver => ReceiverType'
           /\ UNCHANGED control => ControlType'
           /\ UNCHANGED history => HistoryType'
BY DEF TypeOK, RingType, WaitersType, SenderType, ReceiverType, ControlType, HistoryType, Threads,
       ring, waiters, sender, receiver, control, history

\* Every variable keeps its type: one step of any action.
LEMMA TypeStep ==
    TypeOK /\ [Next]_vars => TypeOK'
<1> SUFFICES ASSUME TypeOK, [Next]_vars
             PROVE  TypeOK'
  OBVIOUS
<1> USE CapAssumption, ConstAssumption, TypeKept
<1> USE DEF TypeOK, ControlType, Threads, SenderPcs, ReceiverPcs, GoTo, Return
<1>1. ASSUME NEW p \in Senders, NEW o \in {"try_send", "send"}, SenderCall(p, o) PROVE TypeOK'
  BY <1>1 DEF SenderCall, SenderType, sender
<1>2. ASSUME NEW p \in Senders, TsDisconnected(p) PROVE TypeOK'
  BY <1>2 DEF TsDisconnected, HistoryType, history
<1>3. ASSUME NEW p \in Senders, TsClaim(p) PROVE TypeOK'
  BY <1>3 DEF TsClaim, SenderType, RingType, sender
<1>4. ASSUME NEW p \in Senders, TsFull(p) PROVE TypeOK'
  <2>1. ControlType'
    BY <1>4 DEF TsFull, Blocked
  <2>2. SenderType'
    <3>1. cachedHead' = cachedHead \/ cachedHead' = [cachedHead EXCEPT ![p] = head]
      BY <1>4 DEF TsFull
    <3>2. UNCHANGED <<seq, val, offers>>
      BY <1>4 DEF TsFull
    <3>3. seq' \in [Senders -> Nat] /\ val' \in [Senders -> 0..MaxOffers] /\ offers' \in 0..MaxOffers
      BY <3>2 DEF SenderType
    <3>4. cachedHead' \in [Senders -> Nat]
      BY <3>1 DEF SenderType, RingType
    <3> QED
      BY <3>3, <3>4 DEF SenderType
  <2> QED
    BY <1>4, <2>1, <2>2 DEF TsFull
<1>5. ASSUME NEW p \in Senders, TsCasOk(p) PROVE TypeOK'
  <2>1. RingType'
    BY <1>5 DEF TsCasOk, RingType
  <2>2. HistoryType'
    <3>1. sent \in Seq(0..MaxOffers) /\ val[p] \in 0..MaxOffers
      BY DEF HistoryType, SenderType
    <3>2. Append(sent, val[p]) \in Seq(0..MaxOffers)
      BY ONLY <3>1, AppendProperties
    <3> QED
      BY <1>5, <3>2 DEF TsCasOk, HistoryType
  <2> QED
    BY <1>5, <2>1, <2>2 DEF TsCasOk
<1>6. ASSUME NEW p \in Senders, TsCasLost(p) PROVE TypeOK'
  BY <1>6 DEF TsCasLost, SenderType, RingType, sender
<1>7. ASSUME NEW p \in Senders, TsCasSpurious(p) PROVE TypeOK'
  BY <1>7 DEF TsCasSpurious
<1>8. ASSUME NEW p \in Senders, TsWrite(p) PROVE TypeOK'
  <2>1. RingType'
    BY <1>8 DEF TsWrite, RingType, SenderType
  <2> QED
    BY <1>8, <2>1 DEF TsWrite
<1>9. ASSUME NEW p \in Senders, TsPublish(p) PROVE TypeOK'
  <2>1. ControlType'
    BY <1>9 DEF TsPublish, WakeOrReturn, WakeLabel
  <2>2. SenderType'
    BY <1>9 DEF TsPublish, SenderType
  <2>3. Round(seq[p]) \in Int
    BY RoundSlot DEF SenderType
  <2>4. RingType'
    BY <1>9, <2>3 DEF TsPublish, RingType
  <2> QED
    BY <1>9, <2>1, <2>2, <2>4 DEF TsPublish
<1>10. ASSUME NEW p \in Senders, WaitPush(p) PROVE TypeOK'
  BY <1>10 DEF WaitPush, WaitersType, waiters
<1>11. ASSUME NEW p \in Senders, WaitFlag(p) PROVE TypeOK'
  BY <1>11 DEF WaitFlag, WaitersType, waiters
<1>12. ASSUME NEW p \in Senders, RecheckClaim(p) PROVE TypeOK'
  BY <1>12 DEF RecheckClaim, SenderType, RingType, sender
<1>13. ASSUME NEW p \in Senders, RecheckHead(p) PROVE TypeOK'
  BY <1>13 DEF RecheckHead
<1>14. ASSUME NEW p \in Senders, RecheckDisconnected(p) PROVE TypeOK'
  BY <1>14 DEF RecheckDisconnected
<1>15. ASSUME NEW p \in Senders, WakeLoad(p) PROVE TypeOK'
  BY <1>15 DEF WakeLoad, WakeDone
<1>16. ASSUME NEW p \in Senders, WakeStore(p) PROVE TypeOK'
  BY <1>16 DEF WakeStore, WaitersType, waiters
<1>17. ASSUME NEW p \in Senders, WakeTake(p) PROVE TypeOK'
  <2>1. ControlType'
    BY <1>17 DEF WakeTake, WakeDone
  <2>2. WaitersType'
    BY <1>17 DEF WakeTake, WaitersType
  <2> QED
    BY <1>17, <2>1, <2>2 DEF WakeTake
<1>18. ASSUME NEW p \in Senders, DropSender(p) PROVE TypeOK'
  BY <1>18 DEF DropSender, RingType, ring
<1>19. ASSUME NEW p \in Senders, NEW q \in Senders, Clone(p, q) PROVE TypeOK'
  BY <1>19 DEF Clone, RingType, ring
<1>20. ASSUME NEW o \in {"try_recv", "recv"}, ReceiverCall(o) PROVE TypeOK'
  BY <1>20 DEF ReceiverCall
<1>21. CASE TrCheck
  BY <1>21 DEF TrCheck
<1>22. CASE TrSenders
  BY <1>22 DEF TrSenders, Blocked
<1>23. CASE TrLast
  <2>1. ControlType'
    BY <1>23 DEF TrLast
  <2>2. HistoryType'
    <3>1. told' \subseteq Threads
      BY <1>23 DEF TrLast, HistoryType
    <3> QED
      BY <1>23, <3>1 DEF TrLast, HistoryType
  <2> QED
    BY <1>23, <2>1, <2>2 DEF TrLast
<1>24. CASE Read
  <2>1. ControlType' /\ ReceiverType'
    BY <1>24 DEF Read, ReceiverType
  <2>2. HistoryType'
    <3>1. value[Slot(chead)] \in 0..MaxOffers
      BY SlotRange DEF RingType, ReceiverType
    <3>2. delivered \in Seq(0..MaxOffers)
      BY DEF HistoryType
    <3>3. Append(delivered, value[Slot(chead)]) \in Seq(0..MaxOffers)
      BY ONLY <3>1, <3>2, AppendProperties
    <3> QED
      BY <1>24, <3>3 DEF Read, HistoryType
  <2> QED
    BY <1>24, <2>1, <2>2 DEF Read
<1>25. CASE TrPublish
  <2>1. ControlType'
    BY <1>25 DEF TrPublish, WakeOrReturn, WakeLabel
  <2>2. RingType'
    BY <1>25 DEF TrPublish, RingType, ReceiverType
  <2> QED
    BY <1>25, <2>1, <2>2 DEF TrPublish
<1>26. CASE DrainCall
  BY <1>26 DEF DrainCall, ReceiverType, receiver
<1>27. CASE DrCheck
  BY <1>27 DEF DrCheck
<1>28. CASE DrGuard
  <2>1. ControlType'
    BY <1>28 DEF DrGuard, WakeOrReturn, WakeLabel
  <2>2. RingType' /\ ReceiverType'
    BY <1>28 DEF DrGuard, PublishGuardDrop, RingType, ReceiverType
  <2> QED
    BY <1>28, <2>1, <2>2 DEF DrGuard
<1>29. CASE DrUnwind
  BY <1>29 DEF DrUnwind, PublishGuardDrop, RingType, ReceiverType, ring, receiver
<1>30. CASE PreSpin
  BY <1>30 DEF PreSpin
<1>31. CASE PrepareSlot
  BY <1>31 DEF PrepareSlot, WaitersType, waiters
<1>32. CASE PrepareFlag
  BY <1>32 DEF PrepareFlag, WaitersType, waiters
<1>33. CASE Recheck
  BY <1>33 DEF Recheck
<1>34. CASE RecheckSenders
  BY <1>34 DEF RecheckSenders
<1>35. CASE Withdraw
  BY <1>35 DEF Withdraw, WaitersType, waiters
<1>36. CASE WakeSwap
  <2>1. ControlType'
    BY <1>36 DEF WakeSwap, WakeDone
  <2>2. WaitersType'
    BY <1>36 DEF WakeSwap, WaitersType
  <2> QED
    BY <1>36, <2>1, <2>2 DEF WakeSwap
<1>37. CASE WakeList
  BY <1>37 DEF WakeList, WakeDone, WaitersType, waiters
<1>38. CASE DropReceiver
  BY <1>38 DEF DropReceiver, RingType, ring
<1>39. ASSUME NEW t \in Threads, Unpark(t) PROVE TypeOK'
  BY <1>39 DEF Unpark, Unparked, WaitersType, waiters
<1>40. ASSUME NEW t \in Threads, SpuriousUnpark(t) PROVE TypeOK'
  BY <1>40 DEF SpuriousUnpark, Unparked
<1>41. ASSUME NEW t \in Threads, ArcDrop(t) PROVE TypeOK'
  <2>1. ControlType'
    BY <1>41 DEF ArcDrop
  <2>2. dropped' \in Seq(0..MaxOffers)
    <3>1. CASE refs = {t}
      <4>1. PICK n \in 0..Cap : dropped' = [i \in 1..n |-> value[Slot(head + i - 1)]]
        BY <1>41, <3>1 DEF ArcDrop, SharedDrop
      <4>2. ASSUME NEW i \in 1..n PROVE value[Slot(head + i - 1)] \in 0..MaxOffers
        <5>1. head + i - 1 \in Nat
          BY DEF RingType
        <5> QED
          BY <5>1, SlotRange DEF RingType
      <4>3. dropped' \in [1..n -> 0..MaxOffers] /\ n \in Nat
        BY <4>1, <4>2
      <4> QED
        BY <4>3, FunIsSeq
    <3>2. CASE refs # {t}
      BY <1>41, <3>2 DEF ArcDrop, HistoryType
    <3> QED
      BY <3>1, <3>2
  <2>3. HistoryType'
    BY <1>41, <2>2 DEF ArcDrop, HistoryType
  <2> QED
    BY <1>41, <2>1, <2>3 DEF ArcDrop
<1>42. CASE UNCHANGED vars
  BY <1>42 DEF vars, control
<1> QED
  BY <1>1, <1>2, <1>3, <1>4, <1>5, <1>6, <1>7, <1>8, <1>9, <1>10, <1>11, <1>12, <1>13,
     <1>14, <1>15, <1>16, <1>17, <1>18, <1>19, <1>20, <1>21, <1>22, <1>23, <1>24, <1>25,
     <1>26, <1>27, <1>28, <1>29, <1>30, <1>31, <1>32, <1>33, <1>34, <1>35, <1>36, <1>37,
     <1>38, <1>39, <1>40, <1>41, <1>42
     DEF Next, SenderStep, ReceiverStep, Calls, Terminated, Threads

\* The live senders are finitely many.
LEMMA LiveSendersFinite ==
    IsFiniteSet(LiveSenders)
BY SendersAssumption, FS_Subset DEF LiveSenders

\* Their number is natural, and zero only if there is none.
LEMMA LiveSendersCount ==
    /\ Cardinality(LiveSenders) \in Nat
    /\ Cardinality(LiveSenders) = 0 <=> LiveSenders = {}
BY LiveSendersFinite, FS_CardinalityType, FS_EmptySet

\* Every step keeps the control facts.
LEMMA ControlStep ==
    TypeOK /\ ControlInv /\ [Next]_vars => ControlInv'
<1> SUFFICES ASSUME TypeOK, ControlInv, [Next]_vars
             PROVE  ControlInv'
  OBVIOUS
<1> USE ConstAssumption
<1> USE DEF TypeOK, ControlType, ControlInv, LiveSenders, Threads, WakePcs, WaitPcs, TrySendPcs,
            RecvPcs, DrainPcs, SenderPcs, ReceiverPcs,
            ring, waiters, sender, receiver, history, GoTo, Return
<1>1. ASSUME NEW p \in Senders, NEW o \in {"try_send", "send"}, SenderCall(p, o) PROVE ControlInv'
  BY <1>1 DEF SenderCall
<1>2. ASSUME NEW p \in Senders, TsDisconnected(p) PROVE ControlInv'
  BY <1>2 DEF TsDisconnected
<1>3. ASSUME NEW p \in Senders, TsClaim(p) PROVE ControlInv'
  BY <1>3 DEF TsClaim
<1>4. ASSUME NEW p \in Senders, TsFull(p) PROVE ControlInv'
  BY <1>4 DEF TsFull, Blocked
<1>5. ASSUME NEW p \in Senders, TsCasOk(p) PROVE ControlInv'
  BY <1>5 DEF TsCasOk
<1>6. ASSUME NEW p \in Senders, TsCasLost(p) PROVE ControlInv'
  BY <1>6 DEF TsCasLost
<1>7. ASSUME NEW p \in Senders, TsCasSpurious(p) PROVE ControlInv'
  BY <1>7 DEF TsCasSpurious
<1>8. ASSUME NEW p \in Senders, TsWrite(p) PROVE ControlInv'
  BY <1>8 DEF TsWrite
<1>9. ASSUME NEW p \in Senders, TsPublish(p) PROVE ControlInv'
  BY <1>9 DEF TsPublish, WakeOrReturn, WakeLabel
<1>10. ASSUME NEW p \in Senders, WaitPush(p) PROVE ControlInv'
  BY <1>10 DEF WaitPush
<1>11. ASSUME NEW p \in Senders, WaitFlag(p) PROVE ControlInv'
  BY <1>11 DEF WaitFlag
<1>12. ASSUME NEW p \in Senders, RecheckClaim(p) PROVE ControlInv'
  BY <1>12 DEF RecheckClaim
<1>13. ASSUME NEW p \in Senders, RecheckHead(p) PROVE ControlInv'
  BY <1>13 DEF RecheckHead
<1>14. ASSUME NEW p \in Senders, RecheckDisconnected(p) PROVE ControlInv'
  BY <1>14 DEF RecheckDisconnected
<1>15. ASSUME NEW p \in Senders, WakeLoad(p) PROVE ControlInv'
  BY <1>15 DEF WakeLoad, WakeDone
<1>16. ASSUME NEW p \in Senders, WakeStore(p) PROVE ControlInv'
  BY <1>16 DEF WakeStore
<1>17. ASSUME NEW p \in Senders, WakeTake(p) PROVE ControlInv'
  BY <1>17 DEF WakeTake, WakeDone
<1>18. ASSUME NEW p \in Senders, DropSender(p) PROVE ControlInv'
  <2>1. IsFiniteSet(LiveSenders)
    BY LiveSendersFinite
  <2>2. LiveSenders' = LiveSenders \ {p} /\ p \in LiveSenders
    BY <1>18 DEF DropSender
  <2>3. Cardinality(LiveSenders') = Cardinality(LiveSenders) - 1
    BY ONLY <2>1, <2>2, FS_RemoveElement
  <2>4. senders' = Cardinality(LiveSenders')
    BY <1>18, <2>3 DEF DropSender
  <2> HIDE DEF LiveSenders
  <2> QED
    BY <1>18, <2>4 DEF DropSender
<1>19. ASSUME NEW p \in Senders, NEW q \in Senders, Clone(p, q) PROVE ControlInv'
  <2>1. IsFiniteSet(LiveSenders)
    BY LiveSendersFinite
  <2>2. LiveSenders' = LiveSenders \cup {q} /\ q \notin LiveSenders
    BY <1>19 DEF Clone
  <2>3. Cardinality(LiveSenders') = Cardinality(LiveSenders) + 1
    BY ONLY <2>1, <2>2, FS_AddElement
  <2>4. senders' = Cardinality(LiveSenders')
    BY <1>19, <2>3 DEF Clone
  <2> HIDE DEF LiveSenders
  <2> QED
    BY <1>19, <2>4 DEF Clone
<1>20. ASSUME NEW o \in {"try_recv", "recv"}, ReceiverCall(o) PROVE ControlInv'
  BY <1>20 DEF ReceiverCall
<1>21. CASE TrCheck
  BY <1>21 DEF TrCheck
<1>22. CASE TrSenders
  BY <1>22 DEF TrSenders, Blocked
<1>23. CASE TrLast
  BY <1>23 DEF TrLast
<1>24. CASE Read
  <2>1. /\ op' = op /\ \E l \in {"tr_publish", "dr_check", "dr_unwind"} :
              /\ pc' = [pc EXCEPT !["C"] = l]
              /\ l = "tr_publish" => op["C"] # "drain"
              /\ l # "tr_publish" => op["C"] = "drain"
              /\ l = "dr_unwind" => CallbackPanics
    BY <1>24 DEF Read
  <2>2. UNCHANGED <<strategy, refs, rxDropped, senders>> /\ pc["C"] = "read"
    BY <1>24 DEF Read
  <2>3. LiveSenders' = LiveSenders
    BY <2>1
  <2> QED
    BY <2>1, <2>2, <2>3
<1>25. CASE TrPublish
  BY <1>25 DEF TrPublish, WakeOrReturn, WakeLabel
<1>26. CASE DrainCall
  BY <1>26 DEF DrainCall
<1>27. CASE DrCheck
  BY <1>27 DEF DrCheck
<1>28. CASE DrGuard
  BY <1>28 DEF DrGuard, PublishGuardDrop, WakeOrReturn, WakeLabel
<1>29. CASE DrUnwind
  BY <1>29 DEF DrUnwind, PublishGuardDrop
<1>30. CASE PreSpin
  BY <1>30 DEF PreSpin
<1>31. CASE PrepareSlot
  BY <1>31 DEF PrepareSlot
<1>32. CASE PrepareFlag
  BY <1>32 DEF PrepareFlag
<1>33. CASE Recheck
  BY <1>33 DEF Recheck
<1>34. CASE RecheckSenders
  BY <1>34 DEF RecheckSenders
<1>35. CASE Withdraw
  BY <1>35 DEF Withdraw
<1>36. CASE WakeSwap
  BY <1>36 DEF WakeSwap, WakeDone
<1>37. CASE WakeList
  BY <1>37 DEF WakeList, WakeDone
<1>38. CASE DropReceiver
  BY <1>38 DEF DropReceiver
<1>39. ASSUME NEW t \in Threads, Unpark(t) PROVE ControlInv'
  BY <1>39 DEF Unpark, Unparked
<1>40. ASSUME NEW t \in Threads, SpuriousUnpark(t) PROVE ControlInv'
  BY <1>40 DEF SpuriousUnpark, Unparked
<1>41. ASSUME NEW t \in Threads, ArcDrop(t) PROVE ControlInv'
  BY <1>41 DEF ArcDrop
<1>42. CASE UNCHANGED vars
  BY <1>42 DEF vars, control
<1> HIDE DEF ControlInv
<1> QED
  BY <1>1, <1>2, <1>3, <1>4, <1>5, <1>6, <1>7, <1>8, <1>9, <1>10, <1>11, <1>12, <1>13,
     <1>14, <1>15, <1>16, <1>17, <1>18, <1>19, <1>20, <1>21, <1>22, <1>23, <1>24, <1>25,
     <1>26, <1>27, <1>28, <1>29, <1>30, <1>31, <1>32, <1>33, <1>34, <1>35, <1>36, <1>37,
     <1>38, <1>39, <1>40, <1>41, <1>42
     DEF Next, SenderStep, ReceiverStep, Calls, Terminated, Threads

\* A slot whose round is that of n belongs to a claimed sequence.
LEMMA PublishedClaimed ==
    ASSUME TypeOK, RoundInv, NEW n \in Nat, Published(n)
    PROVE  n < claim
<1>1. Slot(n) \in 0..Cap-1
  BY SlotRange
<1>2. (Cap * round[Slot(n)]) + Slot(n) < claim
  BY <1>1 DEF RoundInv
<1>3. round[Slot(n)] = Round(n)
  BY DEF Published
<1>4. (Cap * Round(n)) + Slot(n) < claim
  BY <1>2, <1>3
<1> QED
  BY <1>4, RoundSlot

\* The types the arguments about indices need.
LEMMA IndexTypes ==
    ASSUME TypeOK
    PROVE  /\ head \in Nat /\ chead \in Nat /\ claim \in Nat /\ start \in Nat
           /\ Cap \in Nat /\ Cap > 0
           /\ seq \in [Senders -> Nat] /\ cachedHead \in [Senders -> Nat]
           /\ pc \in [Threads -> SenderPcs \cup ReceiverPcs]
           /\ op \in [Threads -> {"none", "try_send", "send", "try_recv", "recv", "drain", "drop"}]
BY CapAssumption DEF TypeOK, RingType, ReceiverType, SenderType, ControlType

\* What the receiver's label says about the call it is in.
LEMMA ReceiverOp ==
    ASSUME ControlInv
    PROVE  /\ pc["C"] = "idle" => op["C"] = "none"
           /\ pc["C"] \in RecvPcs => op["C"] \in {"try_recv", "recv"}
           /\ pc["C"] \in DrainPcs => op["C"] = "drain"
BY DEF ControlInv

\* Every step keeps the order of the indices.
LEMMA IndexStep ==
    TypeOK /\ ControlInv /\ IndexInv /\ OwnerInv /\ RoundInv /\ [Next]_vars => IndexInv'
<1> SUFFICES ASSUME TypeOK, ControlInv, IndexInv, OwnerInv, RoundInv, [Next]_vars
             PROVE  IndexInv'
  OBVIOUS
<1>t. /\ head \in Nat /\ chead \in Nat /\ claim \in Nat /\ start \in Nat
      /\ Cap \in Nat /\ Cap > 0
      /\ pc \in [Threads -> SenderPcs \cup ReceiverPcs]
      /\ op \in [Threads -> {"none", "try_send", "send", "try_recv", "recv", "drain", "drop"}]
  BY IndexTypes
<1> USE ConstAssumption, ReceiverOp
<1> USE DEF IndexInv, InDrain, Threads, DrainPcs, RecvPcs, ring, receiver, history, GoTo, Return
<1>1. ASSUME NEW p \in Senders, NEW o \in {"try_send", "send"}, SenderCall(p, o) PROVE IndexInv'
  BY <1>1, <1>t DEF SenderCall
<1>2. ASSUME NEW p \in Senders, TsDisconnected(p) PROVE IndexInv'
  BY <1>2, <1>t DEF TsDisconnected
<1>3. ASSUME NEW p \in Senders, TsClaim(p) PROVE IndexInv'
  BY <1>3, <1>t DEF TsClaim
<1>4. ASSUME NEW p \in Senders, TsFull(p) PROVE IndexInv'
  BY <1>4, <1>t DEF TsFull, Blocked
<1>5. ASSUME NEW p \in Senders, TsCasOk(p) PROVE IndexInv'
  <2>1. Len(sent') = claim + 1
    <3>1. sent \in Seq(0..MaxOffers) /\ val[p] \in 0..MaxOffers
      BY DEF TypeOK, HistoryType, SenderType
    <3>2. Len(Append(sent, val[p])) = Len(sent) + 1
      BY ONLY <3>1, AppendProperties
    <3> QED
      BY <1>5, <3>2 DEF TsCasOk
  <2>2. claim + 1 <= head + Cap
    BY <1>5, <1>t, IndexTypes DEF TsCasOk, OwnerInv
  <2> QED
    BY <1>5, <2>1, <2>2, <1>t DEF TsCasOk
<1>6. ASSUME NEW p \in Senders, TsCasLost(p) PROVE IndexInv'
  BY <1>6, <1>t DEF TsCasLost
<1>7. ASSUME NEW p \in Senders, TsCasSpurious(p) PROVE IndexInv'
  BY <1>7, <1>t DEF TsCasSpurious
<1>8. ASSUME NEW p \in Senders, TsWrite(p) PROVE IndexInv'
  BY <1>8, <1>t DEF TsWrite
<1>9. ASSUME NEW p \in Senders, TsPublish(p) PROVE IndexInv'
  BY <1>9, <1>t DEF TsPublish, WakeOrReturn, WakeLabel
<1>10. ASSUME NEW p \in Senders, WaitPush(p) PROVE IndexInv'
  BY <1>10, <1>t DEF WaitPush
<1>11. ASSUME NEW p \in Senders, WaitFlag(p) PROVE IndexInv'
  BY <1>11, <1>t DEF WaitFlag
<1>12. ASSUME NEW p \in Senders, RecheckClaim(p) PROVE IndexInv'
  BY <1>12, <1>t DEF RecheckClaim
<1>13. ASSUME NEW p \in Senders, RecheckHead(p) PROVE IndexInv'
  BY <1>13, <1>t DEF RecheckHead
<1>14. ASSUME NEW p \in Senders, RecheckDisconnected(p) PROVE IndexInv'
  BY <1>14, <1>t DEF RecheckDisconnected
<1>15. ASSUME NEW p \in Senders, WakeLoad(p) PROVE IndexInv'
  BY <1>15, <1>t DEF WakeLoad, WakeDone
<1>16. ASSUME NEW p \in Senders, WakeStore(p) PROVE IndexInv'
  BY <1>16, <1>t DEF WakeStore
<1>17. ASSUME NEW p \in Senders, WakeTake(p) PROVE IndexInv'
  BY <1>17, <1>t DEF WakeTake, WakeDone
<1>18. ASSUME NEW p \in Senders, DropSender(p) PROVE IndexInv'
  BY <1>18, <1>t DEF DropSender
<1>19. ASSUME NEW p \in Senders, NEW q \in Senders, Clone(p, q) PROVE IndexInv'
  BY <1>19, <1>t DEF Clone
<1>20. ASSUME NEW o \in {"try_recv", "recv"}, ReceiverCall(o) PROVE IndexInv'
  BY <1>20, <1>t DEF ReceiverCall
<1>21. CASE TrCheck
  BY <1>21, <1>t DEF TrCheck
<1>22. CASE TrSenders
  BY <1>22, <1>t DEF TrSenders, Blocked
<1>23. CASE TrLast
  BY <1>23, <1>t DEF TrLast
<1>24. CASE Read
  <2>1. chead < claim
    BY <1>24, <1>t, PublishedClaimed DEF Read, RoundInv
  <2>2. Len(delivered') = chead + 1
    <3>1. value[Slot(chead)] \in 0..MaxOffers /\ delivered \in Seq(0..MaxOffers)
      BY <1>t, SlotRange DEF TypeOK, RingType, HistoryType
    <3>2. Len(Append(delivered, value[Slot(chead)])) = Len(delivered) + 1
      BY ONLY <3>1, AppendProperties
    <3> QED
      BY <1>24, <3>2 DEF Read
  <2> QED
    BY <1>24, <2>1, <2>2, <1>t DEF Read
<1>25. CASE TrPublish
  BY <1>25, <1>t DEF TrPublish, WakeOrReturn, WakeLabel
<1>26. CASE DrainCall
  BY <1>26, <1>t DEF DrainCall
<1>27. CASE DrCheck
  BY <1>27, <1>t DEF DrCheck
<1>28. CASE DrGuard
  BY <1>28, <1>t DEF DrGuard, PublishGuardDrop, WakeOrReturn, WakeLabel
<1>29. CASE DrUnwind
  BY <1>29, <1>t DEF DrUnwind, PublishGuardDrop
<1>30. CASE PreSpin
  BY <1>30, <1>t DEF PreSpin
<1>31. CASE PrepareSlot
  BY <1>31, <1>t DEF PrepareSlot
<1>32. CASE PrepareFlag
  BY <1>32, <1>t DEF PrepareFlag
<1>33. CASE Recheck
  BY <1>33, <1>t DEF Recheck
<1>34. CASE RecheckSenders
  BY <1>34, <1>t DEF RecheckSenders
<1>35. CASE Withdraw
  BY <1>35, <1>t DEF Withdraw
<1>36. CASE WakeSwap
  BY <1>36, <1>t DEF WakeSwap, WakeDone
<1>37. CASE WakeList
  BY <1>37, <1>t DEF WakeList, WakeDone
<1>38. CASE DropReceiver
  BY <1>38, <1>t DEF DropReceiver
<1>39. ASSUME NEW t \in Threads, Unpark(t) PROVE IndexInv'
  BY <1>39, <1>t DEF Unpark, Unparked
<1>40. ASSUME NEW t \in Threads, SpuriousUnpark(t) PROVE IndexInv'
  BY <1>40, <1>t DEF SpuriousUnpark, Unparked
<1>41. ASSUME NEW t \in Threads, ArcDrop(t) PROVE IndexInv'
  BY <1>41, <1>t DEF ArcDrop
<1>42. CASE UNCHANGED vars
  BY <1>42, <1>t DEF vars, control
<1> HIDE DEF IndexInv
<1> QED
  BY <1>1, <1>2, <1>3, <1>4, <1>5, <1>6, <1>7, <1>8, <1>9, <1>10, <1>11, <1>12, <1>13,
     <1>14, <1>15, <1>16, <1>17, <1>18, <1>19, <1>20, <1>21, <1>22, <1>23, <1>24, <1>25,
     <1>26, <1>27, <1>28, <1>29, <1>30, <1>31, <1>32, <1>33, <1>34, <1>35, <1>36, <1>37,
     <1>38, <1>39, <1>40, <1>41, <1>42
     DEF Next, SenderStep, ReceiverStep, Calls, Terminated, Threads

\* Every step keeps what senders know of the indices and what they own: a
\* claim that succeeds takes a sequence nobody owns, in a slot already free.
LEMMA OwnerStep ==
    TypeOK /\ IndexInv /\ OwnerInv /\ RoundInv /\ [Next]_vars => OwnerInv'
<1> SUFFICES ASSUME TypeOK, IndexInv, OwnerInv, RoundInv, [Next]_vars
             PROVE  OwnerInv'
  OBVIOUS
<1>t. /\ head \in Nat /\ chead \in Nat /\ claim \in Nat /\ Cap \in Nat /\ Cap > 0
      /\ seq \in [Senders -> Nat] /\ cachedHead \in [Senders -> Nat]
      /\ pc \in [Threads -> SenderPcs \cup ReceiverPcs]
  BY IndexTypes
<1> USE ConstAssumption
<1> USE DEF OwnerInv, Owner, Threads, ring, sender, receiver, GoTo, Return
<1>1. ASSUME NEW p \in Senders, NEW o \in {"try_send", "send"}, SenderCall(p, o) PROVE OwnerInv'
  BY <1>1, <1>t DEF SenderCall
<1>2. ASSUME NEW p \in Senders, TsDisconnected(p) PROVE OwnerInv'
  BY <1>2, <1>t DEF TsDisconnected
<1>3. ASSUME NEW p \in Senders, TsClaim(p) PROVE OwnerInv'
  BY <1>3, <1>t DEF TsClaim
<1>4. ASSUME NEW p \in Senders, TsFull(p) PROVE OwnerInv'
  <2>1. UNCHANGED <<head, chead, claim, seq>>
    BY <1>4 DEF TsFull
  <2>2. PICK l \in {"ts_cas", "idle", "wait_push", "ts_disc"} : pc' = [pc EXCEPT ![p] = l]
    BY <1>4 DEF TsFull, Blocked
  <2>3. cachedHead' = cachedHead \/ cachedHead' = [cachedHead EXCEPT ![p] = head]
    BY <1>4 DEF TsFull
  <2>4. l = "ts_cas" => seq[p] < cachedHead'[p] + Cap
    BY <1>4, <2>2, <1>t DEF TsFull, Blocked, IsFull
  <2>5. seq[p] <= claim
    BY <1>4 DEF TsFull
  <2> QED
    BY <2>1, <2>2, <2>3, <2>4, <2>5, <1>t
<1>5. ASSUME NEW p \in Senders, TsCasOk(p) PROVE OwnerInv'
  <2>1. \A r \in Senders : Owner(r) => seq[r] # seq[p]
    BY <1>5, <1>t DEF TsCasOk
  <2>2. chead <= claim
    BY DEF IndexInv
  <2> QED
    BY <1>5, <2>1, <2>2, <1>t DEF TsCasOk
<1>6. ASSUME NEW p \in Senders, TsCasLost(p) PROVE OwnerInv'
  BY <1>6, <1>t DEF TsCasLost
<1>7. ASSUME NEW p \in Senders, TsCasSpurious(p) PROVE OwnerInv'
  BY <1>7, <1>t DEF TsCasSpurious
<1>8. ASSUME NEW p \in Senders, TsWrite(p) PROVE OwnerInv'
  BY <1>8, <1>t DEF TsWrite
<1>9. ASSUME NEW p \in Senders, TsPublish(p) PROVE OwnerInv'
  BY <1>9, <1>t DEF TsPublish, WakeOrReturn, WakeLabel
<1>10. ASSUME NEW p \in Senders, WaitPush(p) PROVE OwnerInv'
  BY <1>10, <1>t DEF WaitPush
<1>11. ASSUME NEW p \in Senders, WaitFlag(p) PROVE OwnerInv'
  BY <1>11, <1>t DEF WaitFlag
<1>12. ASSUME NEW p \in Senders, RecheckClaim(p) PROVE OwnerInv'
  BY <1>12, <1>t DEF RecheckClaim
<1>13. ASSUME NEW p \in Senders, RecheckHead(p) PROVE OwnerInv'
  BY <1>13, <1>t DEF RecheckHead
<1>14. ASSUME NEW p \in Senders, RecheckDisconnected(p) PROVE OwnerInv'
  BY <1>14, <1>t DEF RecheckDisconnected
<1>15. ASSUME NEW p \in Senders, WakeLoad(p) PROVE OwnerInv'
  BY <1>15, <1>t DEF WakeLoad, WakeDone
<1>16. ASSUME NEW p \in Senders, WakeStore(p) PROVE OwnerInv'
  BY <1>16, <1>t DEF WakeStore
<1>17. ASSUME NEW p \in Senders, WakeTake(p) PROVE OwnerInv'
  BY <1>17, <1>t DEF WakeTake, WakeDone
<1>18. ASSUME NEW p \in Senders, DropSender(p) PROVE OwnerInv'
  BY <1>18, <1>t DEF DropSender
<1>19. ASSUME NEW p \in Senders, NEW q \in Senders, Clone(p, q) PROVE OwnerInv'
  BY <1>19, <1>t DEF Clone
<1>20. ASSUME NEW o \in {"try_recv", "recv"}, ReceiverCall(o) PROVE OwnerInv'
  BY <1>20, <1>t DEF ReceiverCall
<1>21. CASE TrCheck
  BY <1>21, <1>t DEF TrCheck
<1>22. CASE TrSenders
  BY <1>22, <1>t DEF TrSenders, Blocked
<1>23. CASE TrLast
  BY <1>23, <1>t DEF TrLast
<1>24. CASE Read
  <2>1. \A p \in Senders : Owner(p) => seq[p] # chead
    BY <1>24 DEF Read, RoundInv
  <2> QED
    BY <1>24, <2>1, <1>t DEF Read
<1>25. CASE TrPublish
  <2>1. head <= chead
    BY DEF IndexInv
  <2> QED
    BY <1>25, <2>1, <1>t DEF TrPublish, WakeOrReturn, WakeLabel
<1>26. CASE DrainCall
  BY <1>26, <1>t DEF DrainCall
<1>27. CASE DrCheck
  BY <1>27, <1>t DEF DrCheck
<1>28. CASE DrGuard
  <2>1. head <= chead
    BY DEF IndexInv
  <2> QED
    BY <1>28, <2>1, <1>t DEF DrGuard, PublishGuardDrop, WakeOrReturn, WakeLabel
<1>29. CASE DrUnwind
  <2>1. head <= chead
    BY DEF IndexInv
  <2> QED
    BY <1>29, <2>1, <1>t DEF DrUnwind, PublishGuardDrop
<1>30. CASE PreSpin
  BY <1>30, <1>t DEF PreSpin
<1>31. CASE PrepareSlot
  BY <1>31, <1>t DEF PrepareSlot
<1>32. CASE PrepareFlag
  BY <1>32, <1>t DEF PrepareFlag
<1>33. CASE Recheck
  BY <1>33, <1>t DEF Recheck
<1>34. CASE RecheckSenders
  BY <1>34, <1>t DEF RecheckSenders
<1>35. CASE Withdraw
  BY <1>35, <1>t DEF Withdraw
<1>36. CASE WakeSwap
  BY <1>36, <1>t DEF WakeSwap, WakeDone
<1>37. CASE WakeList
  BY <1>37, <1>t DEF WakeList, WakeDone
<1>38. CASE DropReceiver
  BY <1>38, <1>t DEF DropReceiver
<1>39. ASSUME NEW t \in Threads, Unpark(t) PROVE OwnerInv'
  BY <1>39, <1>t DEF Unpark, Unparked
<1>40. ASSUME NEW t \in Threads, SpuriousUnpark(t) PROVE OwnerInv'
  BY <1>40, <1>t DEF SpuriousUnpark, Unparked
<1>41. ASSUME NEW t \in Threads, ArcDrop(t) PROVE OwnerInv'
  BY <1>41, <1>t DEF ArcDrop
<1>42. CASE UNCHANGED vars
  BY <1>42, <1>t DEF vars, control
<1> HIDE DEF OwnerInv
<1> QED
  BY <1>1, <1>2, <1>3, <1>4, <1>5, <1>6, <1>7, <1>8, <1>9, <1>10, <1>11, <1>12, <1>13,
     <1>14, <1>15, <1>16, <1>17, <1>18, <1>19, <1>20, <1>21, <1>22, <1>23, <1>24, <1>25,
     <1>26, <1>27, <1>28, <1>29, <1>30, <1>31, <1>32, <1>33, <1>34, <1>35, <1>36, <1>37,
     <1>38, <1>39, <1>40, <1>41, <1>42
     DEF Next, SenderStep, ReceiverStep, Calls, Terminated, Threads

\* Two claimed, unconsumed sequences never share a slot.
LEMMA ClaimedSlots ==
    ASSUME TypeOK, IndexInv, NEW m \in chead..claim-1, NEW n \in chead..claim-1, m # n
    PROVE  Slot(m) # Slot(n) /\ Slot(m) \in 0..Cap-1 /\ Slot(n) \in 0..Cap-1
<1>1. /\ m \in Nat /\ n \in Nat
      /\ m < n + Cap /\ n < m + Cap
  BY IndexTypes DEF IndexInv
<1>2. m < n \/ n < m
  BY <1>1
<1> QED
  BY <1>1, <1>2, SlotDistinct, SlotRange

\* Every step keeps the agreement between rounds, claims and owners.
LEMMA RoundStep ==
    TypeOK /\ IndexInv /\ OwnerInv /\ RoundInv /\ [Next]_vars => RoundInv'
<1> SUFFICES ASSUME TypeOK, IndexInv, OwnerInv, RoundInv, [Next]_vars
             PROVE  RoundInv'
  OBVIOUS
<1>t. /\ chead \in Nat /\ claim \in Nat /\ seq \in [Senders -> Nat]
      /\ pc \in [Threads -> SenderPcs \cup ReceiverPcs]
  BY IndexTypes
<1> USE ConstAssumption
<1> USE DEF RoundInv, Owner, Published, Threads, ring, sender, receiver, GoTo, Return
<1>1. ASSUME NEW p \in Senders, NEW o \in {"try_send", "send"}, SenderCall(p, o) PROVE RoundInv'
  BY <1>1, <1>t DEF SenderCall
<1>2. ASSUME NEW p \in Senders, TsDisconnected(p) PROVE RoundInv'
  BY <1>2, <1>t DEF TsDisconnected
<1>3. ASSUME NEW p \in Senders, TsClaim(p) PROVE RoundInv'
  BY <1>3, <1>t DEF TsClaim
<1>4. ASSUME NEW p \in Senders, TsFull(p) PROVE RoundInv'
  BY <1>4, <1>t DEF TsFull, Blocked
<1>5. ASSUME NEW p \in Senders, TsCasOk(p) PROVE RoundInv'
  <2>1. UNCHANGED <<round, chead, seq>> /\ claim' = claim + 1 /\ seq[p] = claim
    BY <1>5 DEF TsCasOk
  <2>2. pc' = [pc EXCEPT ![p] = "write"]
    BY <1>5 DEF TsCasOk
  <2>3. ~Published(claim)
    BY <1>t, PublishedClaimed
  <2>5. ASSUME NEW i \in 0..Cap-1 PROVE (Cap * round'[i]) + i < claim'
    <3>0. round \in [0..Cap-1 -> Int]
      BY ONLY TypeOK DEF TypeOK, RingType
    <3>1. round[i] \in Int /\ Cap \in Int
      BY ONLY <3>0, i \in 0..Cap-1, CapAssumption
    <3>2. PICK x \in Int : x = (Cap * round[i]) + i
      BY ONLY <3>1, i \in 0..Cap-1
    <3>3. x < claim
      BY <3>2
    <3> QED
      BY ONLY <2>1, <3>2, <3>3, <1>t
  <2>6. \A r \in Senders : Owner(r)' => ~Published(seq[r])'
    BY <2>1, <2>2, <2>3, <1>t
  <2>7. ASSUME NEW n \in chead'..claim'-1
        PROVE  Published(n)' \/ \E r \in Senders : Owner(r)' /\ seq'[r] = n
    <3>1. CASE n = claim
      BY <2>1, <2>2, <3>1, <1>t
    <3>2. CASE n # claim
      <4>1. n \in chead..claim-1
        BY <2>1, <3>2, <1>t
      <4> QED
        BY <2>1, <2>2, <4>1, <1>t
    <3> QED
      BY <3>1, <3>2
  <2>8. pc'["C"] = "read" => Published(chead)'
    BY <2>1, <2>2, <1>t
  <2> QED
    BY <2>5, <2>6, <2>7, <2>8
<1>6. ASSUME NEW p \in Senders, TsCasLost(p) PROVE RoundInv'
  BY <1>6, <1>t DEF TsCasLost
<1>7. ASSUME NEW p \in Senders, TsCasSpurious(p) PROVE RoundInv'
  BY <1>7, <1>t DEF TsCasSpurious
<1>8. ASSUME NEW p \in Senders, TsWrite(p) PROVE RoundInv'
  BY <1>8, <1>t DEF TsWrite
<1>9. ASSUME NEW p \in Senders, TsPublish(p) PROVE RoundInv'
  <2>0. PICK s \in Nat : s = seq[p]
    BY <1>t
  <2>1. /\ UNCHANGED <<claim, chead>> /\ seq' = [seq EXCEPT ![p] = 0]
        /\ round' = [round EXCEPT ![Slot(s)] = Round(s)]
    BY <1>9, <2>0 DEF TsPublish
  <2>2. PICK l \in {"idle", "wake_load"} : pc' = [pc EXCEPT ![p] = l]
    BY <1>9 DEF TsPublish, WakeOrReturn, WakeLabel
  <2>3. s \in chead..claim-1
    BY <1>9, <2>0, <1>t DEF TsPublish, OwnerInv
  <2>4. Slot(s) \in 0..Cap-1 /\ s = (Cap * Round(s)) + Slot(s) /\ round \in [0..Cap-1 -> Int]
    BY <2>3, SlotRange, RoundSlot DEF TypeOK, RingType
  <2>5. \A n \in chead..claim-1 : n # s => (Published(n)' <=> Published(n))
    BY <2>1, <2>3, <2>4, ClaimedSlots
  <2>6. Published(s)'
    BY <2>1, <2>4
  <2>7. \A r \in Senders : Owner(r)' => r # p /\ Owner(r) /\ seq'[r] = seq[r] /\ seq[r] # s
    BY <1>9, <2>0, <2>1, <2>2, <1>t DEF OwnerInv, TsPublish
  <2>8. \A r \in Senders : Owner(r) => seq[r] \in chead..claim-1
    BY <1>t DEF OwnerInv
  <2>9. \A r \in Senders : Owner(r)' => ~Published(seq[r])'
    <3> SUFFICES ASSUME NEW r \in Senders, Owner(r)' PROVE ~Published(seq[r])'
      OBVIOUS
    <3>1. Owner(r) /\ seq'[r] = seq[r] /\ seq[r] # s /\ seq[r] \in chead..claim-1
      BY <2>7, <2>8
    <3>2. ~Published(seq[r])
      BY <3>1
    <3> QED
      BY <2>5, <3>1, <3>2
  <2>10. ASSUME NEW n \in chead'..claim'-1
         PROVE  Published(n)' \/ \E r \in Senders : Owner(r)' /\ seq'[r] = n
    <3>1. CASE n = s
      BY <2>6, <3>1
    <3>2. CASE n # s
      <4>1. Published(n) \/ \E r \in Senders : Owner(r) /\ seq[r] = n
        BY <2>1
      <4>2. ASSUME NEW r \in Senders, Owner(r), seq[r] = n PROVE Owner(r)' /\ seq'[r] = n
        BY <2>0, <2>1, <2>2, <3>2, <4>2, <1>t
      <4> QED
        BY <2>1, <2>5, <3>2, <4>1, <4>2
    <3> QED
      BY <3>1, <3>2
  <2>11. pc'["C"] = "read" => Published(chead)'
    <3>1. ASSUME pc["C"] = "read" PROVE chead \in chead..claim-1
      BY <3>1, <1>t, PublishedClaimed
    <3>2. pc'["C"] = pc["C"]
      BY <2>2, <1>t
    <3> QED
      BY <2>1, <2>5, <2>6, <3>1, <3>2
  <2>12. ASSUME NEW i \in 0..Cap-1 PROVE (Cap * round'[i]) + i < claim'
    <3>1. CASE i = Slot(s)
      BY <2>1, <2>3, <2>4, <3>1, <1>t
    <3>2. CASE i # Slot(s)
      BY <2>1, <2>4, <3>2
    <3> QED
      BY <3>1, <3>2
  <2> QED
    BY <2>9, <2>10, <2>11, <2>12
<1>10. ASSUME NEW p \in Senders, WaitPush(p) PROVE RoundInv'
  BY <1>10, <1>t DEF WaitPush
<1>11. ASSUME NEW p \in Senders, WaitFlag(p) PROVE RoundInv'
  BY <1>11, <1>t DEF WaitFlag
<1>12. ASSUME NEW p \in Senders, RecheckClaim(p) PROVE RoundInv'
  BY <1>12, <1>t DEF RecheckClaim
<1>13. ASSUME NEW p \in Senders, RecheckHead(p) PROVE RoundInv'
  BY <1>13, <1>t DEF RecheckHead
<1>14. ASSUME NEW p \in Senders, RecheckDisconnected(p) PROVE RoundInv'
  BY <1>14, <1>t DEF RecheckDisconnected
<1>15. ASSUME NEW p \in Senders, WakeLoad(p) PROVE RoundInv'
  BY <1>15, <1>t DEF WakeLoad, WakeDone
<1>16. ASSUME NEW p \in Senders, WakeStore(p) PROVE RoundInv'
  BY <1>16, <1>t DEF WakeStore
<1>17. ASSUME NEW p \in Senders, WakeTake(p) PROVE RoundInv'
  BY <1>17, <1>t DEF WakeTake, WakeDone
<1>18. ASSUME NEW p \in Senders, DropSender(p) PROVE RoundInv'
  BY <1>18, <1>t DEF DropSender
<1>19. ASSUME NEW p \in Senders, NEW q \in Senders, Clone(p, q) PROVE RoundInv'
  BY <1>19, <1>t DEF Clone
<1>20. ASSUME NEW o \in {"try_recv", "recv"}, ReceiverCall(o) PROVE RoundInv'
  BY <1>20, <1>t DEF ReceiverCall
<1>21. CASE TrCheck
  BY <1>21, <1>t DEF TrCheck
<1>22. CASE TrSenders
  BY <1>22, <1>t DEF TrSenders, Blocked
<1>23. CASE TrLast
  BY <1>23, <1>t DEF TrLast
<1>24. CASE Read
  <2>1. UNCHANGED <<round, claim, seq>> /\ chead' = chead + 1
    BY <1>24 DEF Read
  <2>2. PICK l \in {"tr_publish", "dr_check", "dr_unwind"} : pc' = [pc EXCEPT !["C"] = l]
    BY <1>24 DEF Read
  <2>3. \A n \in chead'..claim'-1 : n \in chead..claim-1
    BY <2>1, <1>t
  <2> QED
    BY <2>1, <2>2, <2>3, <1>t
<1>25. CASE TrPublish
  BY <1>25, <1>t DEF TrPublish, WakeOrReturn, WakeLabel
<1>26. CASE DrainCall
  BY <1>26, <1>t DEF DrainCall
<1>27. CASE DrCheck
  BY <1>27, <1>t DEF DrCheck
<1>28. CASE DrGuard
  BY <1>28, <1>t DEF DrGuard, PublishGuardDrop, WakeOrReturn, WakeLabel
<1>29. CASE DrUnwind
  BY <1>29, <1>t DEF DrUnwind, PublishGuardDrop
<1>30. CASE PreSpin
  BY <1>30, <1>t DEF PreSpin
<1>31. CASE PrepareSlot
  BY <1>31, <1>t DEF PrepareSlot
<1>32. CASE PrepareFlag
  BY <1>32, <1>t DEF PrepareFlag
<1>33. CASE Recheck
  BY <1>33, <1>t DEF Recheck
<1>34. CASE RecheckSenders
  BY <1>34, <1>t DEF RecheckSenders
<1>35. CASE Withdraw
  BY <1>35, <1>t DEF Withdraw
<1>36. CASE WakeSwap
  BY <1>36, <1>t DEF WakeSwap, WakeDone
<1>37. CASE WakeList
  BY <1>37, <1>t DEF WakeList, WakeDone
<1>38. CASE DropReceiver
  BY <1>38, <1>t DEF DropReceiver
<1>39. ASSUME NEW t \in Threads, Unpark(t) PROVE RoundInv'
  BY <1>39, <1>t DEF Unpark, Unparked
<1>40. ASSUME NEW t \in Threads, SpuriousUnpark(t) PROVE RoundInv'
  BY <1>40, <1>t DEF SpuriousUnpark, Unparked
<1>41. ASSUME NEW t \in Threads, ArcDrop(t) PROVE RoundInv'
  BY <1>41, <1>t DEF ArcDrop
<1>42. CASE UNCHANGED vars
  BY <1>42, <1>t DEF vars, control
<1> HIDE DEF RoundInv
<1> QED
  BY <1>1, <1>2, <1>3, <1>4, <1>5, <1>6, <1>7, <1>8, <1>9, <1>10, <1>11, <1>12, <1>13,
     <1>14, <1>15, <1>16, <1>17, <1>18, <1>19, <1>20, <1>21, <1>22, <1>23, <1>24, <1>25,
     <1>26, <1>27, <1>28, <1>29, <1>30, <1>31, <1>32, <1>33, <1>34, <1>35, <1>36, <1>37,
     <1>38, <1>39, <1>40, <1>41, <1>42
     DEF Next, SenderStep, ReceiverStep, Calls, Terminated, Threads

\* Every step keeps the messages of published and of owned sequences in place.
LEMMA ContentStep ==
    TypeOK /\ ControlInv /\ IndexInv /\ OwnerInv /\ RoundInv /\ ContentInv /\ [Next]_vars => ContentInv'
<1> SUFFICES ASSUME TypeOK, ControlInv, IndexInv, OwnerInv, RoundInv, ContentInv, [Next]_vars
             PROVE  ContentInv'
  OBVIOUS
<1>t. /\ chead \in Nat /\ claim \in Nat /\ seq \in [Senders -> Nat]
      /\ pc \in [Threads -> SenderPcs \cup ReceiverPcs]
      /\ op \in [Threads -> {"none", "try_send", "send", "try_recv", "recv", "drain", "drop"}]
  BY IndexTypes
<1>v. /\ val \in [Senders -> 0..MaxOffers] /\ offers \in 0..MaxOffers /\ MaxOffers \in Nat
      /\ value \in [0..Cap-1 -> 0..MaxOffers]
      /\ sent \in Seq(0..MaxOffers) /\ delivered \in Seq(0..MaxOffers)
  BY ConstAssumption DEF TypeOK, SenderType, RingType, HistoryType
<1>o. \A r \in Senders : Owner(r) => seq[r] \in chead..claim-1 /\ ~Published(seq[r])
  BY <1>t DEF OwnerInv, RoundInv
<1> DEFINE InHand(r) == op[r] \in {"try_send", "send"} /\ pc[r] \notin WakePcs
                           => val[r] \in 1..MaxOffers
           Quiet == /\ UNCHANGED <<round, value, chead, claim, sent, delivered>>
                    /\ \A r \in Senders :
                          /\ InHand(r)'
                          /\ Owner(r)' => /\ pc'[r] = pc[r] /\ seq'[r] = seq[r]
                                          /\ val'[r] = val[r]
<1>h. \A r \in Senders : InHand(r)
  BY DEF ContentInv
<1>q. Quiet => ContentInv'
  BY DEF ContentInv, Owner, Published
<1>s. "C" \notin Senders
  BY ConstAssumption
<1> USE DEF Owner, Threads, WakePcs, ring, sender, receiver, history, GoTo, Return
<1>1. ASSUME NEW p \in Senders, NEW o \in {"try_send", "send"}, SenderCall(p, o) PROVE ContentInv'
  BY <1>1, <1>q, <1>h, <1>s, <1>t, <1>v DEF SenderCall
<1>2. ASSUME NEW p \in Senders, TsDisconnected(p) PROVE ContentInv'
  BY <1>2, <1>q, <1>h, <1>s, <1>t DEF TsDisconnected
<1>3. ASSUME NEW p \in Senders, TsClaim(p) PROVE ContentInv'
  BY <1>3, <1>q, <1>h, <1>s, <1>t DEF TsClaim
<1>4. ASSUME NEW p \in Senders, TsFull(p) PROVE ContentInv'
  BY <1>4, <1>q, <1>h, <1>s, <1>t DEF TsFull, Blocked
<1>5. ASSUME NEW p \in Senders, TsCasOk(p) PROVE ContentInv'
  <2> USE DEF ContentInv, Published
  <2>1. /\ UNCHANGED <<round, value, chead, seq, val, delivered, op>> /\ claim' = claim + 1
        /\ seq[p] = claim /\ pc[p] = "ts_cas" /\ pc' = [pc EXCEPT ![p] = "write"]
        /\ sent' = Append(sent, val[p])
    BY <1>5 DEF TsCasOk
  <2>2. /\ \A i \in 1..claim : sent'[i] = sent[i]
        /\ sent'[claim + 1] = val[p]
    <3>1. val[p] \in 0..MaxOffers /\ Len(sent) = claim
      BY <1>v DEF IndexInv
    <3>2. /\ \A i \in 1..Len(sent) : Append(sent, val[p])[i] = sent[i]
          /\ Append(sent, val[p])[Len(sent) + 1] = val[p]
      BY ONLY <1>v, <3>1, AppendProperties
    <3> QED
      BY ONLY <2>1, <3>1, <3>2
  <2>3. ~Published(claim)
    BY <1>t, PublishedClaimed
  <2>4. ASSUME NEW r \in Senders PROVE Owner(r)' => val'[r] = sent'[seq'[r] + 1]
    <3>1. CASE r = p
      BY <2>1, <2>2, <3>1
    <3>2. CASE r # p
      <4>1. ASSUME Owner(r) PROVE seq[r] + 1 \in 1..claim
        BY ONLY <1>o, <1>t, <4>1, r \in Senders
      <4> QED
        BY <2>1, <2>2, <3>2, <4>1, <1>t
    <3> QED
      BY <3>1, <3>2
  <2>5. ASSUME NEW n \in chead'..claim'-1, Published(n)' PROVE value'[Slot(n)] = sent'[n + 1]
    <3>1. Published(n) /\ n # claim
      BY <2>1, <2>3, <2>5
    <3>2. n \in chead..claim-1 /\ n + 1 \in 1..claim
      BY ONLY <2>1, <3>1, <1>t, n \in chead'..claim'-1
    <3> QED
      BY <2>1, <2>2, <3>1, <3>2
  <2>6. ASSUME NEW i \in 1..chead' PROVE delivered'[i] = sent'[i]
    <3>1. chead <= claim
      BY DEF IndexInv
    <3>2. i \in 1..chead /\ i \in 1..claim
      BY ONLY <2>1, <3>1, <1>t, i \in 1..chead'
    <3> QED
      BY <2>1, <2>2, <3>2
  <2>7. ASSUME NEW r \in Senders
        PROVE  /\ op'[r] \in {"try_send", "send"} /\ pc'[r] \notin WakePcs => val'[r] \in 1..MaxOffers
               /\ pc'[r] = "publish" => value'[Slot(seq'[r])] = val'[r]
    BY <2>1, <1>t
  <2> QED
    BY <2>4, <2>5, <2>6, <2>7
<1>6. ASSUME NEW p \in Senders, TsCasLost(p) PROVE ContentInv'
  BY <1>6, <1>q, <1>h, <1>s, <1>t DEF TsCasLost
<1>7. ASSUME NEW p \in Senders, TsCasSpurious(p) PROVE ContentInv'
  BY <1>7, <1>q, <1>h, <1>s, <1>t DEF TsCasSpurious
<1>8. ASSUME NEW p \in Senders, TsWrite(p) PROVE ContentInv'
  <2> USE DEF ContentInv, Published
  <2>0. PICK s \in chead..claim-1 : s = seq[p]
    BY <1>8, <1>o DEF TsWrite
  <2>1. /\ UNCHANGED <<round, chead, claim, seq, val, sent, delivered, op>>
        /\ pc[p] = "write" /\ pc' = [pc EXCEPT ![p] = "publish"]
        /\ value' = [value EXCEPT ![Slot(s)] = val[p]]
    BY <1>8, <2>0 DEF TsWrite
  <2>2. Slot(s) \in 0..Cap-1 /\ ~Published(s)
    BY <1>o, <2>0, <2>1, <1>t, SlotRange
  <2>3. ASSUME NEW n \in chead..claim-1, n # s PROVE value'[Slot(n)] = value[Slot(n)]
    <3>1. Slot(n) # Slot(s) /\ Slot(n) \in 0..Cap-1
      BY <2>3, ClaimedSlots
    <3> QED
      BY ONLY <2>1, <2>2, <3>1, <1>v
  <2>4. ASSUME NEW r \in Senders, pc'[r] = "publish" PROVE value'[Slot(seq'[r])] = val'[r]
    <3>1. CASE r = p
      BY <2>0, <2>1, <2>2, <3>1, <1>v
    <3>2. CASE r # p
      <4>1. pc[r] = "publish"
        BY <2>1, <2>4, <3>2, <1>t
      <4>2. seq[r] \in chead..claim-1 /\ seq[r] # s
        BY <1>o, <2>0, <2>1, <3>2, <4>1 DEF OwnerInv
      <4> QED
        BY <2>1, <2>3, <4>1, <4>2
    <3> QED
      BY <3>1, <3>2
  <2>5. ASSUME NEW n \in chead'..claim'-1, Published(n)' PROVE value'[Slot(n)] = sent'[n + 1]
    <3>1. n \in chead..claim-1 /\ Published(n) /\ n # s
      BY <2>1, <2>2, <2>5
    <3> QED
      BY <2>1, <2>3, <3>1
  <2>6. ASSUME NEW r \in Senders
        PROVE  /\ op'[r] \in {"try_send", "send"} /\ pc'[r] \notin WakePcs => val'[r] \in 1..MaxOffers
               /\ Owner(r)' => val'[r] = sent'[seq'[r] + 1]
    BY <2>1, <1>t
  <2>7. \A i \in 1..chead' : delivered'[i] = sent'[i]
    BY <2>1
  <2> QED
    BY <2>4, <2>5, <2>6, <2>7
<1>9. ASSUME NEW p \in Senders, TsPublish(p) PROVE ContentInv'
  <2> USE DEF ContentInv, Published
  <2>0. PICK s \in chead..claim-1 : s = seq[p]
    BY <1>9, <1>o DEF TsPublish
  <2>1. /\ UNCHANGED <<chead, claim, value, sent, delivered>>
        /\ pc[p] = "publish" /\ seq' = [seq EXCEPT ![p] = 0] /\ val' = [val EXCEPT ![p] = 0]
        /\ round' = [round EXCEPT ![Slot(s)] = Round(s)]
    BY <1>9, <2>0 DEF TsPublish
  <2>2. \/ pc' = [pc EXCEPT ![p] = "wake_load"] /\ op' = op
        \/ pc' = [pc EXCEPT ![p] = "idle"] /\ op' = [op EXCEPT ![p] = "none"]
    BY <1>9, <1>s DEF TsPublish, WakeOrReturn, WakeLabel
  <2>3. value[Slot(s)] = sent[s + 1]
    BY <2>0, <2>1
  <2>4. ASSUME NEW n \in chead..claim-1, n # s, Published(n)' PROVE Published(n)
    BY <2>1, <2>4, ClaimedSlots
  <2>5. ASSUME NEW n \in chead'..claim'-1, Published(n)' PROVE value'[Slot(n)] = sent'[n + 1]
    BY <2>1, <2>3, <2>4, <2>5
  <2>6. ASSUME NEW r \in Senders
        PROVE  /\ op'[r] \in {"try_send", "send"} /\ pc'[r] \notin WakePcs => val'[r] \in 1..MaxOffers
               /\ Owner(r)' => val'[r] = sent'[seq'[r] + 1]
               /\ pc'[r] = "publish" => value'[Slot(seq'[r])] = val'[r]
    <3>1. CASE r = p
      BY <2>2, <3>1, <1>t
    <3>2. CASE r # p
      BY <2>1, <2>2, <3>2, <1>t, <1>v
    <3> QED
      BY <3>1, <3>2
  <2>7. \A i \in 1..chead' : delivered'[i] = sent'[i]
    BY <2>1
  <2> QED
    BY <2>5, <2>6, <2>7
<1>10. ASSUME NEW p \in Senders, WaitPush(p) PROVE ContentInv'
  BY <1>10, <1>q, <1>h, <1>s, <1>t DEF WaitPush
<1>11. ASSUME NEW p \in Senders, WaitFlag(p) PROVE ContentInv'
  BY <1>11, <1>q, <1>h, <1>s, <1>t DEF WaitFlag
<1>12. ASSUME NEW p \in Senders, RecheckClaim(p) PROVE ContentInv'
  BY <1>12, <1>q, <1>h, <1>s, <1>t DEF RecheckClaim
<1>13. ASSUME NEW p \in Senders, RecheckHead(p) PROVE ContentInv'
  BY <1>13, <1>q, <1>h, <1>s, <1>t DEF RecheckHead
<1>14. ASSUME NEW p \in Senders, RecheckDisconnected(p) PROVE ContentInv'
  BY <1>14, <1>q, <1>h, <1>s, <1>t DEF RecheckDisconnected
<1>15. ASSUME NEW p \in Senders, WakeLoad(p) PROVE ContentInv'
  BY <1>15, <1>q, <1>h, <1>s, <1>t DEF WakeLoad, WakeDone
<1>16. ASSUME NEW p \in Senders, WakeStore(p) PROVE ContentInv'
  BY <1>16, <1>q, <1>h, <1>s, <1>t DEF WakeStore
<1>17. ASSUME NEW p \in Senders, WakeTake(p) PROVE ContentInv'
  BY <1>17, <1>q, <1>h, <1>s, <1>t DEF WakeTake, WakeDone
<1>18. ASSUME NEW p \in Senders, DropSender(p) PROVE ContentInv'
  BY <1>18, <1>q, <1>h, <1>s, <1>t DEF DropSender
<1>19. ASSUME NEW p \in Senders, NEW q \in Senders, Clone(p, q) PROVE ContentInv'
  BY <1>19, <1>q, <1>h, <1>s, <1>t DEF Clone
<1>20. ASSUME NEW o \in {"try_recv", "recv"}, ReceiverCall(o) PROVE ContentInv'
  BY <1>20, <1>q, <1>h, <1>s, <1>t DEF ReceiverCall
<1>21. CASE TrCheck
  BY <1>21, <1>q, <1>h, <1>s, <1>t DEF TrCheck
<1>22. CASE TrSenders
  BY <1>22, <1>q, <1>h, <1>s, <1>t DEF TrSenders, Blocked
<1>23. CASE TrLast
  BY <1>23, <1>q, <1>h, <1>s, <1>t DEF TrLast
<1>24. CASE Read
  <2> USE DEF ContentInv, Published
  <2>1. /\ UNCHANGED <<round, claim, value, seq, val, sent>> /\ chead' = chead + 1
        /\ pc["C"] = "read" /\ delivered' = Append(delivered, value[Slot(chead)])
    BY <1>24 DEF Read
  <2>2. ASSUME NEW r \in Senders PROVE pc'[r] = pc[r] /\ op'[r] = op[r]
    BY <1>24, <1>t, <1>s DEF Read
  <2>3. Published(chead) /\ chead \in chead..claim-1
    BY <2>1, <1>t, PublishedClaimed DEF RoundInv
  <2>4. value[Slot(chead)] \in 0..MaxOffers /\ value[Slot(chead)] = sent[chead + 1]
    BY <2>3, <1>t, <1>v, SlotRange
  <2>5. /\ \A i \in 1..chead : delivered'[i] = delivered[i]
        /\ delivered'[chead + 1] = sent[chead + 1]
    <3>1. Len(delivered) = chead
      BY DEF IndexInv
    <3>2. /\ \A i \in 1..Len(delivered) : Append(delivered, value[Slot(chead)])[i] = delivered[i]
          /\ Append(delivered, value[Slot(chead)])[Len(delivered) + 1] = value[Slot(chead)]
      BY ONLY <1>v, <2>4, AppendProperties
    <3> QED
      BY ONLY <2>1, <2>4, <3>1, <3>2
  <2>6. ASSUME NEW i \in 1..chead' PROVE delivered'[i] = sent'[i]
    <3>1. CASE i = chead + 1
      BY <2>1, <2>5, <3>1
    <3>2. CASE i # chead + 1
      <4>1. i \in 1..chead
        BY <2>1, <3>2, <1>t
      <4> QED
        BY <2>1, <2>5, <4>1
    <3> QED
      BY <3>1, <3>2
  <2>7. \A n \in chead'..claim'-1 : n \in chead..claim-1
    BY <2>1, <1>t
  <2> QED
    BY <2>1, <2>2, <2>6, <2>7
<1>25. CASE TrPublish
  BY <1>25, <1>q, <1>h, <1>s, <1>t DEF TrPublish, WakeOrReturn, WakeLabel
<1>26. CASE DrainCall
  BY <1>26, <1>q, <1>h, <1>s, <1>t DEF DrainCall
<1>27. CASE DrCheck
  BY <1>27, <1>q, <1>h, <1>s, <1>t DEF DrCheck
<1>28. CASE DrGuard
  BY <1>28, <1>q, <1>h, <1>s, <1>t DEF DrGuard, PublishGuardDrop, WakeOrReturn, WakeLabel
<1>29. CASE DrUnwind
  BY <1>29, <1>q, <1>h, <1>s, <1>t DEF DrUnwind, PublishGuardDrop
<1>30. CASE PreSpin
  BY <1>30, <1>q, <1>h, <1>s, <1>t DEF PreSpin
<1>31. CASE PrepareSlot
  BY <1>31, <1>q, <1>h, <1>s, <1>t DEF PrepareSlot
<1>32. CASE PrepareFlag
  BY <1>32, <1>q, <1>h, <1>s, <1>t DEF PrepareFlag
<1>33. CASE Recheck
  BY <1>33, <1>q, <1>h, <1>s, <1>t DEF Recheck
<1>34. CASE RecheckSenders
  BY <1>34, <1>q, <1>h, <1>s, <1>t DEF RecheckSenders
<1>35. CASE Withdraw
  BY <1>35, <1>q, <1>h, <1>s, <1>t DEF Withdraw
<1>36. CASE WakeSwap
  BY <1>36, <1>q, <1>h, <1>s, <1>t DEF WakeSwap, WakeDone
<1>37. CASE WakeList
  BY <1>37, <1>q, <1>h, <1>s, <1>t DEF WakeList, WakeDone
<1>38. CASE DropReceiver
  BY <1>38, <1>q, <1>h, <1>s, <1>t DEF DropReceiver
<1>39. ASSUME NEW t \in Threads, Unpark(t) PROVE ContentInv'
  BY <1>39, <1>q, <1>h, <1>s, <1>t DEF Unpark, Unparked
<1>40. ASSUME NEW t \in Threads, SpuriousUnpark(t) PROVE ContentInv'
  BY <1>40, <1>q, <1>h, <1>s, <1>t DEF SpuriousUnpark, Unparked
<1>41. ASSUME NEW t \in Threads, ArcDrop(t) PROVE ContentInv'
  BY <1>41, <1>q, <1>h, <1>s, <1>t DEF ArcDrop
<1>42. CASE UNCHANGED vars
  BY <1>42, <1>q, <1>h, <1>s, <1>t DEF vars, control
<1> HIDE DEF ContentInv
<1> QED
  BY <1>1, <1>2, <1>3, <1>4, <1>5, <1>6, <1>7, <1>8, <1>9, <1>10, <1>11, <1>12, <1>13,
     <1>14, <1>15, <1>16, <1>17, <1>18, <1>19, <1>20, <1>21, <1>22, <1>23, <1>24, <1>25,
     <1>26, <1>27, <1>28, <1>29, <1>30, <1>31, <1>32, <1>33, <1>34, <1>35, <1>36, <1>37,
     <1>38, <1>39, <1>40, <1>41, <1>42
     DEF Next, SenderStep, ReceiverStep, Calls, Terminated, Threads

\* Once the count of senders is zero every handle that came to exist is being
\* dropped: no sequence is owned and every claimed one is published.
LEMMA NoSenders ==
    ASSUME TypeOK, ControlInv, RoundInv, senders = 0
    PROVE  /\ \A p \in Senders : op[p] = "drop" \/ pc[p] = "unborn"
           /\ \A p \in Senders : pc[p] \in WakePcs \cup {"arc", "gone", "unborn"}
           /\ \A n \in chead..claim-1 : Published(n)
<1>1. LiveSenders = {}
  BY LiveSendersCount DEF ControlInv
<1>2. \A p \in Senders : op[p] = "drop" \/ pc[p] = "unborn"
  BY <1>1 DEF LiveSenders
<1>3. \A p \in Senders : pc[p] \in WakePcs \cup {"arc", "gone", "unborn"}
  BY <1>2 DEF ControlInv
<1>4. \A p \in Senders : ~Owner(p)
  BY <1>3 DEF Owner, WakePcs
<1> QED
  BY <1>2, <1>3, <1>4 DEF RoundInv

\* Every step keeps what the answers Disconnected stand for.
LEMMA ToldStep ==
    TypeOK /\ ControlInv /\ IndexInv /\ RoundInv /\ ToldInv /\ [Next]_vars => ToldInv'
<1> SUFFICES ASSUME TypeOK, ControlInv, IndexInv, RoundInv, ToldInv, [Next]_vars
             PROVE  ToldInv'
  OBVIOUS
<1>t. /\ chead \in Nat /\ claim \in Nat /\ chead <= claim
      /\ pc \in [Threads -> SenderPcs \cup ReceiverPcs]
      /\ senders \in Int /\ rxDropped \in BOOLEAN
  BY IndexTypes DEF IndexInv, TypeOK, RingType
<1>n. senders = 0 => \A p \in Senders : pc[p] \in WakePcs \cup {"arc", "gone", "unborn"}
  BY NoSenders
<1>s. "C" \notin Senders
  BY ConstAssumption
<1> USE DEF ToldInv, Threads, WakePcs, ring, sender, receiver, history, GoTo, Return
<1>1. ASSUME NEW p \in Senders, NEW o \in {"try_send", "send"}, SenderCall(p, o) PROVE ToldInv'
  BY <1>1, <1>n, <1>s, <1>t DEF SenderCall
<1>2. ASSUME NEW p \in Senders, TsDisconnected(p) PROVE ToldInv'
  BY <1>2, <1>n, <1>s, <1>t DEF TsDisconnected
<1>3. ASSUME NEW p \in Senders, TsClaim(p) PROVE ToldInv'
  BY <1>3, <1>n, <1>s, <1>t DEF TsClaim
<1>4. ASSUME NEW p \in Senders, TsFull(p) PROVE ToldInv'
  BY <1>4, <1>n, <1>s, <1>t DEF TsFull, Blocked
<1>5. ASSUME NEW p \in Senders, TsCasOk(p) PROVE ToldInv'
  BY <1>5, <1>n, <1>s, <1>t DEF TsCasOk
<1>6. ASSUME NEW p \in Senders, TsCasLost(p) PROVE ToldInv'
  BY <1>6, <1>n, <1>s, <1>t DEF TsCasLost
<1>7. ASSUME NEW p \in Senders, TsCasSpurious(p) PROVE ToldInv'
  BY <1>7, <1>n, <1>s, <1>t DEF TsCasSpurious
<1>8. ASSUME NEW p \in Senders, TsWrite(p) PROVE ToldInv'
  BY <1>8, <1>n, <1>s, <1>t DEF TsWrite
<1>9. ASSUME NEW p \in Senders, TsPublish(p) PROVE ToldInv'
  BY <1>9, <1>n, <1>s, <1>t DEF TsPublish, WakeOrReturn, WakeLabel
<1>10. ASSUME NEW p \in Senders, WaitPush(p) PROVE ToldInv'
  BY <1>10, <1>n, <1>s, <1>t DEF WaitPush
<1>11. ASSUME NEW p \in Senders, WaitFlag(p) PROVE ToldInv'
  BY <1>11, <1>n, <1>s, <1>t DEF WaitFlag
<1>12. ASSUME NEW p \in Senders, RecheckClaim(p) PROVE ToldInv'
  BY <1>12, <1>n, <1>s, <1>t DEF RecheckClaim
<1>13. ASSUME NEW p \in Senders, RecheckHead(p) PROVE ToldInv'
  BY <1>13, <1>n, <1>s, <1>t DEF RecheckHead
<1>14. ASSUME NEW p \in Senders, RecheckDisconnected(p) PROVE ToldInv'
  BY <1>14, <1>n, <1>s, <1>t DEF RecheckDisconnected
<1>15. ASSUME NEW p \in Senders, WakeLoad(p) PROVE ToldInv'
  BY <1>15, <1>n, <1>s, <1>t DEF WakeLoad, WakeDone
<1>16. ASSUME NEW p \in Senders, WakeStore(p) PROVE ToldInv'
  BY <1>16, <1>n, <1>s, <1>t DEF WakeStore
<1>17. ASSUME NEW p \in Senders, WakeTake(p) PROVE ToldInv'
  BY <1>17, <1>n, <1>s, <1>t DEF WakeTake, WakeDone
<1>18. ASSUME NEW p \in Senders, DropSender(p) PROVE ToldInv'
  BY <1>18, <1>n, <1>s, <1>t DEF DropSender
<1>19. ASSUME NEW p \in Senders, NEW q \in Senders, Clone(p, q) PROVE ToldInv'
  BY <1>19, <1>n, <1>s, <1>t DEF Clone
<1>20. ASSUME NEW o \in {"try_recv", "recv"}, ReceiverCall(o) PROVE ToldInv'
  BY <1>20, <1>n, <1>s, <1>t DEF ReceiverCall
<1>21. CASE TrCheck
  BY <1>21, <1>n, <1>s, <1>t DEF TrCheck
<1>22. CASE TrSenders
  BY <1>22, <1>n, <1>s, <1>t DEF TrSenders, Blocked
<1>23. CASE TrLast
  <2>1. /\ UNCHANGED <<senders, rxDropped, chead, claim>> /\ senders = 0
        /\ told' \cap Senders = told \cap Senders /\ pc'["C"] # "tr_last"
    BY <1>23, <1>t, <1>s DEF TrLast
  <2>2. CASE Published(chead)
    BY <1>23, <2>1, <2>2 DEF TrLast
  <2>3. CASE ~Published(chead)
    <3>1. chead = claim
      BY <1>t, <2>1, <2>3, NoSenders
    <3> QED
      BY <2>1, <3>1
  <2> QED
    BY <2>2, <2>3
<1>24. CASE Read
  <2>1. UNCHANGED <<senders, rxDropped, claim, told>> /\ pc["C"] = "read" /\ pc'["C"] # "tr_last"
    BY <1>24, <1>t DEF Read
  <2>2. chead < claim
    BY <1>t, <2>1, PublishedClaimed DEF RoundInv
  <2> QED
    BY <1>t, <2>1, <2>2
<1>25. CASE TrPublish
  BY <1>25, <1>n, <1>s, <1>t DEF TrPublish, WakeOrReturn, WakeLabel
<1>26. CASE DrainCall
  BY <1>26, <1>n, <1>s, <1>t DEF DrainCall
<1>27. CASE DrCheck
  BY <1>27, <1>n, <1>s, <1>t DEF DrCheck
<1>28. CASE DrGuard
  BY <1>28, <1>n, <1>s, <1>t DEF DrGuard, PublishGuardDrop, WakeOrReturn, WakeLabel
<1>29. CASE DrUnwind
  BY <1>29, <1>n, <1>s, <1>t DEF DrUnwind, PublishGuardDrop
<1>30. CASE PreSpin
  BY <1>30, <1>n, <1>s, <1>t DEF PreSpin
<1>31. CASE PrepareSlot
  BY <1>31, <1>n, <1>s, <1>t DEF PrepareSlot
<1>32. CASE PrepareFlag
  BY <1>32, <1>n, <1>s, <1>t DEF PrepareFlag
<1>33. CASE Recheck
  BY <1>33, <1>n, <1>s, <1>t DEF Recheck
<1>34. CASE RecheckSenders
  BY <1>34, <1>n, <1>s, <1>t DEF RecheckSenders
<1>35. CASE Withdraw
  BY <1>35, <1>n, <1>s, <1>t DEF Withdraw
<1>36. CASE WakeSwap
  BY <1>36, <1>n, <1>s, <1>t DEF WakeSwap, WakeDone
<1>37. CASE WakeList
  BY <1>37, <1>n, <1>s, <1>t DEF WakeList, WakeDone
<1>38. CASE DropReceiver
  BY <1>38, <1>n, <1>s, <1>t DEF DropReceiver
<1>39. ASSUME NEW t \in Threads, Unpark(t) PROVE ToldInv'
  BY <1>39, <1>n, <1>s, <1>t DEF Unpark, Unparked
<1>40. ASSUME NEW t \in Threads, SpuriousUnpark(t) PROVE ToldInv'
  BY <1>40, <1>n, <1>s, <1>t DEF SpuriousUnpark, Unparked
<1>41. ASSUME NEW t \in Threads, ArcDrop(t) PROVE ToldInv'
  BY <1>41, <1>n, <1>s, <1>t DEF ArcDrop
<1>42. CASE UNCHANGED vars
  BY <1>42, <1>n, <1>s, <1>t DEF vars, control
<1> HIDE DEF ToldInv
<1> QED
  BY <1>1, <1>2, <1>3, <1>4, <1>5, <1>6, <1>7, <1>8, <1>9, <1>10, <1>11, <1>12, <1>13,
     <1>14, <1>15, <1>16, <1>17, <1>18, <1>19, <1>20, <1>21, <1>22, <1>23, <1>24, <1>25,
     <1>26, <1>27, <1>28, <1>29, <1>30, <1>31, <1>32, <1>33, <1>34, <1>35, <1>36, <1>37,
     <1>38, <1>39, <1>40, <1>41, <1>42
     DEF Next, SenderStep, ReceiverStep, Calls, Terminated, Threads

\* Every step keeps the consumer's registration known to the senders that will wake it.
LEMMA ConsumerWakeStep ==
    TypeOK /\ ControlInv /\ ConsumerWakeInv /\ [Next]_vars => ConsumerWakeInv'
<1> SUFFICES ASSUME TypeOK, ControlInv, ConsumerWakeInv, [Next]_vars
             PROVE  ConsumerWakeInv'
  OBVIOUS
<1>t. /\ pc \in [Threads -> SenderPcs \cup ReceiverPcs] /\ senders \in Nat
      /\ token \in [Threads -> BOOLEAN] /\ parked \in BOOLEAN /\ slot \in BOOLEAN
  BY IndexTypes, LiveSendersCount DEF ControlInv, TypeOK, WaitersType
<1>s. "C" \notin Senders
  BY ConstAssumption
<1> USE DEF ConsumerWakeInv, ConsumerPending, Published, Threads, ring, waiters, sender, receiver,
            GoTo, Return
<1>1. ASSUME NEW p \in Senders, NEW o \in {"try_send", "send"}, SenderCall(p, o) PROVE ConsumerWakeInv'
  BY <1>1, <1>s, <1>t DEF SenderCall
<1>2. ASSUME NEW p \in Senders, TsDisconnected(p) PROVE ConsumerWakeInv'
  BY <1>2, <1>s, <1>t DEF TsDisconnected
<1>3. ASSUME NEW p \in Senders, TsClaim(p) PROVE ConsumerWakeInv'
  BY <1>3, <1>s, <1>t DEF TsClaim
<1>4. ASSUME NEW p \in Senders, TsFull(p) PROVE ConsumerWakeInv'
  BY <1>4, <1>s, <1>t DEF TsFull, Blocked
<1>5. ASSUME NEW p \in Senders, TsCasOk(p) PROVE ConsumerWakeInv'
  BY <1>5, <1>s, <1>t DEF TsCasOk
<1>6. ASSUME NEW p \in Senders, TsCasLost(p) PROVE ConsumerWakeInv'
  BY <1>6, <1>s, <1>t DEF TsCasLost
<1>7. ASSUME NEW p \in Senders, TsCasSpurious(p) PROVE ConsumerWakeInv'
  BY <1>7, <1>s, <1>t DEF TsCasSpurious
<1>8. ASSUME NEW p \in Senders, TsWrite(p) PROVE ConsumerWakeInv'
  BY <1>8, <1>s, <1>t DEF TsWrite
<1>9. ASSUME NEW p \in Senders, TsPublish(p) PROVE ConsumerWakeInv'
  BY <1>9, <1>s, <1>t DEF TsPublish, WakeOrReturn, WakeLabel
<1>10. ASSUME NEW p \in Senders, WaitPush(p) PROVE ConsumerWakeInv'
  BY <1>10, <1>s, <1>t DEF WaitPush
<1>11. ASSUME NEW p \in Senders, WaitFlag(p) PROVE ConsumerWakeInv'
  BY <1>11, <1>s, <1>t DEF WaitFlag
<1>12. ASSUME NEW p \in Senders, RecheckClaim(p) PROVE ConsumerWakeInv'
  BY <1>12, <1>s, <1>t DEF RecheckClaim
<1>13. ASSUME NEW p \in Senders, RecheckHead(p) PROVE ConsumerWakeInv'
  BY <1>13, <1>s, <1>t DEF RecheckHead
<1>14. ASSUME NEW p \in Senders, RecheckDisconnected(p) PROVE ConsumerWakeInv'
  BY <1>14, <1>s, <1>t DEF RecheckDisconnected
<1>15. ASSUME NEW p \in Senders, WakeLoad(p) PROVE ConsumerWakeInv'
  BY <1>15, <1>s, <1>t DEF WakeLoad, WakeDone
<1>16. ASSUME NEW p \in Senders, WakeStore(p) PROVE ConsumerWakeInv'
  BY <1>16, <1>s, <1>t DEF WakeStore
<1>17. ASSUME NEW p \in Senders, WakeTake(p) PROVE ConsumerWakeInv'
  BY <1>17, <1>s, <1>t DEF WakeTake, WakeDone
<1>18. ASSUME NEW p \in Senders, DropSender(p) PROVE ConsumerWakeInv'
  BY <1>18, <1>s, <1>t DEF DropSender
<1>19. ASSUME NEW p \in Senders, NEW q \in Senders, Clone(p, q) PROVE ConsumerWakeInv'
  BY <1>19, <1>s, <1>t DEF Clone
<1>20. ASSUME NEW o \in {"try_recv", "recv"}, ReceiverCall(o) PROVE ConsumerWakeInv'
  BY <1>20, <1>s, <1>t DEF ReceiverCall
<1>21. CASE TrCheck
  BY <1>21, <1>s, <1>t DEF TrCheck
<1>22. CASE TrSenders
  BY <1>22, <1>s, <1>t DEF TrSenders, Blocked
<1>23. CASE TrLast
  BY <1>23, <1>s, <1>t DEF TrLast
<1>24. CASE Read
  BY <1>24, <1>s, <1>t DEF Read
<1>25. CASE TrPublish
  BY <1>25, <1>s, <1>t DEF TrPublish, WakeOrReturn, WakeLabel
<1>26. CASE DrainCall
  BY <1>26, <1>s, <1>t DEF DrainCall
<1>27. CASE DrCheck
  BY <1>27, <1>s, <1>t DEF DrCheck
<1>28. CASE DrGuard
  BY <1>28, <1>s, <1>t DEF DrGuard, PublishGuardDrop, WakeOrReturn, WakeLabel
<1>29. CASE DrUnwind
  BY <1>29, <1>s, <1>t DEF DrUnwind, PublishGuardDrop
<1>30. CASE PreSpin
  BY <1>30, <1>s, <1>t DEF PreSpin
<1>31. CASE PrepareSlot
  BY <1>31, <1>s, <1>t DEF PrepareSlot
<1>32. CASE PrepareFlag
  BY <1>32, <1>s, <1>t DEF PrepareFlag
<1>33. CASE Recheck
  BY <1>33, <1>s, <1>t DEF Recheck
<1>34. CASE RecheckSenders
  BY <1>34, <1>s, <1>t DEF RecheckSenders
<1>35. CASE Withdraw
  BY <1>35, <1>s, <1>t DEF Withdraw
<1>36. CASE WakeSwap
  BY <1>36, <1>s, <1>t DEF WakeSwap, WakeDone
<1>37. CASE WakeList
  BY <1>37, <1>s, <1>t DEF WakeList, WakeDone
<1>38. CASE DropReceiver
  BY <1>38, <1>s, <1>t DEF DropReceiver
<1>39. ASSUME NEW t \in Threads, Unpark(t) PROVE ConsumerWakeInv'
  BY <1>39, <1>s, <1>t DEF Unpark, Unparked
<1>40. ASSUME NEW t \in Threads, SpuriousUnpark(t) PROVE ConsumerWakeInv'
  BY <1>40, <1>s, <1>t DEF SpuriousUnpark, Unparked
<1>41. ASSUME NEW t \in Threads, ArcDrop(t) PROVE ConsumerWakeInv'
  BY <1>41, <1>s, <1>t DEF ArcDrop
<1>42. CASE UNCHANGED vars
  BY <1>42, <1>s, <1>t DEF vars, control
<1> HIDE DEF ConsumerWakeInv
<1> QED
  BY <1>1, <1>2, <1>3, <1>4, <1>5, <1>6, <1>7, <1>8, <1>9, <1>10, <1>11, <1>12, <1>13,
     <1>14, <1>15, <1>16, <1>17, <1>18, <1>19, <1>20, <1>21, <1>22, <1>23, <1>24, <1>25,
     <1>26, <1>27, <1>28, <1>29, <1>30, <1>31, <1>32, <1>33, <1>34, <1>35, <1>36, <1>37,
     <1>38, <1>39, <1>40, <1>41, <1>42
     DEF Next, SenderStep, ReceiverStep, Calls, Terminated, Threads

\* Without panics in callbacks every step keeps the senders' registrations known to
\* the receiver that will wake them.
LEMMA ProducerWakeStep ==
    ~CallbackPanics /\ TypeOK /\ ControlInv /\ OwnerInv /\ ProducerWakeInv /\ [Next]_vars => ProducerWakeInv'
<1> SUFFICES ASSUME ~CallbackPanics, TypeOK, ControlInv, OwnerInv, ProducerWakeInv, [Next]_vars
             PROVE  ProducerWakeInv'
  OBVIOUS
<1>t. /\ pc \in [Threads -> SenderPcs \cup ReceiverPcs]
      /\ claim \in Nat /\ head \in Nat /\ Cap \in Nat /\ seq \in [Senders -> Nat]
      /\ token \in [Threads -> BOOLEAN] /\ waiting \in BOOLEAN /\ rxDropped \in BOOLEAN
  BY IndexTypes DEF TypeOK, WaitersType, RingType
<1>s. "C" \notin Senders
  BY ConstAssumption
<1>w. \A r \in Senders : pc[r] \in {"recheck_claim", "recheck_head", "recheck_disc", "park"}
                         => strategy = "Park"
  BY DEF ControlInv, WaitPcs
<1> USE DEF ProducerWakeInv, ProducerPending, IsFull, Threads, ring, waiters, sender, receiver,
            GoTo, Return
<1>1. ASSUME NEW p \in Senders, NEW o \in {"try_send", "send"}, SenderCall(p, o) PROVE ProducerWakeInv'
  BY <1>1, <1>s, <1>t DEF SenderCall
<1>2. ASSUME NEW p \in Senders, TsDisconnected(p) PROVE ProducerWakeInv'
  BY <1>2, <1>s, <1>t DEF TsDisconnected
<1>3. ASSUME NEW p \in Senders, TsClaim(p) PROVE ProducerWakeInv'
  BY <1>3, <1>s, <1>t DEF TsClaim
<1>4. ASSUME NEW p \in Senders, TsFull(p) PROVE ProducerWakeInv'
  BY <1>4, <1>s, <1>t DEF TsFull, Blocked
<1>5. ASSUME NEW p \in Senders, TsCasOk(p) PROVE ProducerWakeInv'
  BY <1>5, <1>s, <1>t DEF TsCasOk
<1>6. ASSUME NEW p \in Senders, TsCasLost(p) PROVE ProducerWakeInv'
  BY <1>6, <1>s, <1>t DEF TsCasLost
<1>7. ASSUME NEW p \in Senders, TsCasSpurious(p) PROVE ProducerWakeInv'
  BY <1>7, <1>s, <1>t DEF TsCasSpurious
<1>8. ASSUME NEW p \in Senders, TsWrite(p) PROVE ProducerWakeInv'
  BY <1>8, <1>s, <1>t DEF TsWrite
<1>9. ASSUME NEW p \in Senders, TsPublish(p) PROVE ProducerWakeInv'
  BY <1>9, <1>s, <1>t DEF TsPublish, WakeOrReturn, WakeLabel
<1>10. ASSUME NEW p \in Senders, WaitPush(p) PROVE ProducerWakeInv'
  BY <1>10, <1>s, <1>t DEF WaitPush
<1>11. ASSUME NEW p \in Senders, WaitFlag(p) PROVE ProducerWakeInv'
  BY <1>11, <1>s, <1>t DEF WaitFlag
<1>12. ASSUME NEW p \in Senders, RecheckClaim(p) PROVE ProducerWakeInv'
  BY <1>12, <1>s, <1>t DEF RecheckClaim
<1>13. ASSUME NEW p \in Senders, RecheckHead(p) PROVE ProducerWakeInv'
  BY <1>13, <1>s, <1>t DEF RecheckHead, OwnerInv
<1>14. ASSUME NEW p \in Senders, RecheckDisconnected(p) PROVE ProducerWakeInv'
  BY <1>14, <1>s, <1>t DEF RecheckDisconnected
<1>15. ASSUME NEW p \in Senders, WakeLoad(p) PROVE ProducerWakeInv'
  BY <1>15, <1>s, <1>t DEF WakeLoad, WakeDone
<1>16. ASSUME NEW p \in Senders, WakeStore(p) PROVE ProducerWakeInv'
  BY <1>16, <1>s, <1>t DEF WakeStore
<1>17. ASSUME NEW p \in Senders, WakeTake(p) PROVE ProducerWakeInv'
  BY <1>17, <1>s, <1>t DEF WakeTake, WakeDone
<1>18. ASSUME NEW p \in Senders, DropSender(p) PROVE ProducerWakeInv'
  BY <1>18, <1>s, <1>t DEF DropSender
<1>19. ASSUME NEW p \in Senders, NEW q \in Senders, Clone(p, q) PROVE ProducerWakeInv'
  BY <1>19, <1>s, <1>t DEF Clone
<1>20. ASSUME NEW o \in {"try_recv", "recv"}, ReceiverCall(o) PROVE ProducerWakeInv'
  BY <1>20, <1>s, <1>t DEF ReceiverCall
<1>21. CASE TrCheck
  BY <1>21, <1>s, <1>t DEF TrCheck
<1>22. CASE TrSenders
  BY <1>22, <1>s, <1>t DEF TrSenders, Blocked
<1>23. CASE TrLast
  BY <1>23, <1>s, <1>t DEF TrLast
<1>24. CASE Read
  BY <1>24, <1>s, <1>t DEF Read
<1>25. CASE TrPublish
  BY <1>25, <1>s, <1>t, <1>w DEF TrPublish, WakeOrReturn, WakeLabel
<1>26. CASE DrainCall
  BY <1>26, <1>s, <1>t DEF DrainCall
<1>27. CASE DrCheck
  BY <1>27, <1>s, <1>t DEF DrCheck
<1>28. CASE DrGuard
  BY <1>28, <1>s, <1>t, <1>w DEF DrGuard, PublishGuardDrop, WakeOrReturn, WakeLabel
<1>29. CASE DrUnwind
  BY <1>29, ~CallbackPanics DEF DrUnwind, ControlInv
<1>30. CASE PreSpin
  BY <1>30, <1>s, <1>t DEF PreSpin
<1>31. CASE PrepareSlot
  BY <1>31, <1>s, <1>t DEF PrepareSlot
<1>32. CASE PrepareFlag
  BY <1>32, <1>s, <1>t DEF PrepareFlag
<1>33. CASE Recheck
  BY <1>33, <1>s, <1>t DEF Recheck
<1>34. CASE RecheckSenders
  BY <1>34, <1>s, <1>t DEF RecheckSenders
<1>35. CASE Withdraw
  BY <1>35, <1>s, <1>t DEF Withdraw
<1>36. CASE WakeSwap
  BY <1>36, <1>s, <1>t DEF WakeSwap, WakeDone
<1>37. CASE WakeList
  BY <1>37, <1>s, <1>t DEF WakeList, WakeDone
<1>38. CASE DropReceiver
  BY <1>38, <1>s, <1>t DEF DropReceiver
<1>39. ASSUME NEW t \in Threads, Unpark(t) PROVE ProducerWakeInv'
  BY <1>39, <1>s, <1>t DEF Unpark, Unparked
<1>40. ASSUME NEW t \in Threads, SpuriousUnpark(t) PROVE ProducerWakeInv'
  BY <1>40, <1>s, <1>t DEF SpuriousUnpark, Unparked
<1>41. ASSUME NEW t \in Threads, ArcDrop(t) PROVE ProducerWakeInv'
  BY <1>41, <1>s, <1>t DEF ArcDrop
<1>42. CASE UNCHANGED vars
  BY <1>42, <1>s, <1>t DEF vars, control
<1> HIDE DEF ProducerWakeInv
<1> QED
  BY <1>1, <1>2, <1>3, <1>4, <1>5, <1>6, <1>7, <1>8, <1>9, <1>10, <1>11, <1>12, <1>13,
     <1>14, <1>15, <1>16, <1>17, <1>18, <1>19, <1>20, <1>21, <1>22, <1>23, <1>24, <1>25,
     <1>26, <1>27, <1>28, <1>29, <1>30, <1>31, <1>32, <1>33, <1>34, <1>35, <1>36, <1>37,
     <1>38, <1>39, <1>40, <1>41, <1>42
     DEF Next, SenderStep, ReceiverStep, Calls, Terminated, Threads

\* When the last handle goes, Shared::drop destroys exactly the messages nobody received.
LEMMA FreedStep ==
    TypeOK /\ ControlInv /\ IndexInv /\ RoundInv /\ ContentInv /\ FreedInv /\ [Next]_vars => FreedInv'
<1> SUFFICES ASSUME TypeOK, ControlInv, IndexInv, RoundInv, ContentInv, FreedInv, [Next]_vars
             PROVE  FreedInv'
  OBVIOUS
<1>t. /\ chead \in Nat /\ claim \in Nat /\ chead <= claim /\ Cap \in Nat
      /\ pc \in [Threads -> SenderPcs \cup ReceiverPcs]
  BY IndexTypes DEF IndexInv
<1>g. refs = {} => \A t \in Threads : pc[t] \in {"gone", "unborn"}
  BY DEF ControlInv, Threads
<1> USE DEF FreedInv, Threads, history, ring, receiver
<1>1. ASSUME NEW p \in Senders, NEW o \in {"try_send", "send"}, SenderCall(p, o) PROVE FreedInv'
  BY <1>1, <1>g DEF SenderCall
<1>2. ASSUME NEW p \in Senders, TsDisconnected(p) PROVE FreedInv'
  BY <1>2, <1>g DEF TsDisconnected
<1>3. ASSUME NEW p \in Senders, TsClaim(p) PROVE FreedInv'
  BY <1>3, <1>g DEF TsClaim
<1>4. ASSUME NEW p \in Senders, TsFull(p) PROVE FreedInv'
  BY <1>4, <1>g DEF TsFull, Blocked
<1>5. ASSUME NEW p \in Senders, TsCasOk(p) PROVE FreedInv'
  BY <1>5, <1>g DEF TsCasOk
<1>6. ASSUME NEW p \in Senders, TsCasLost(p) PROVE FreedInv'
  BY <1>6, <1>g DEF TsCasLost
<1>7. ASSUME NEW p \in Senders, TsCasSpurious(p) PROVE FreedInv'
  BY <1>7, <1>g DEF TsCasSpurious
<1>8. ASSUME NEW p \in Senders, TsWrite(p) PROVE FreedInv'
  BY <1>8, <1>g DEF TsWrite
<1>9. ASSUME NEW p \in Senders, TsPublish(p) PROVE FreedInv'
  BY <1>9, <1>g DEF TsPublish, WakeOrReturn, WakeLabel
<1>10. ASSUME NEW p \in Senders, WaitPush(p) PROVE FreedInv'
  BY <1>10, <1>g DEF WaitPush
<1>11. ASSUME NEW p \in Senders, WaitFlag(p) PROVE FreedInv'
  BY <1>11, <1>g DEF WaitFlag
<1>12. ASSUME NEW p \in Senders, RecheckClaim(p) PROVE FreedInv'
  BY <1>12, <1>g DEF RecheckClaim
<1>13. ASSUME NEW p \in Senders, RecheckHead(p) PROVE FreedInv'
  BY <1>13, <1>g DEF RecheckHead
<1>14. ASSUME NEW p \in Senders, RecheckDisconnected(p) PROVE FreedInv'
  BY <1>14, <1>g DEF RecheckDisconnected
<1>15. ASSUME NEW p \in Senders, WakeLoad(p) PROVE FreedInv'
  BY <1>15, <1>g DEF WakeLoad, WakeDone
<1>16. ASSUME NEW p \in Senders, WakeStore(p) PROVE FreedInv'
  BY <1>16, <1>g DEF WakeStore
<1>17. ASSUME NEW p \in Senders, WakeTake(p) PROVE FreedInv'
  BY <1>17, <1>g DEF WakeTake, WakeDone
<1>18. ASSUME NEW p \in Senders, DropSender(p) PROVE FreedInv'
  BY <1>18, <1>g DEF DropSender
<1>19. ASSUME NEW p \in Senders, NEW q \in Senders, Clone(p, q) PROVE FreedInv'
  BY <1>19, <1>g DEF Clone
<1>20. ASSUME NEW o \in {"try_recv", "recv"}, ReceiverCall(o) PROVE FreedInv'
  BY <1>20, <1>g DEF ReceiverCall
<1>21. CASE TrCheck
  BY <1>21, <1>g DEF TrCheck
<1>22. CASE TrSenders
  BY <1>22, <1>g DEF TrSenders, Blocked
<1>23. CASE TrLast
  BY <1>23, <1>g DEF TrLast
<1>24. CASE Read
  BY <1>24, <1>g DEF Read
<1>25. CASE TrPublish
  BY <1>25, <1>g DEF TrPublish, WakeOrReturn, WakeLabel
<1>26. CASE DrainCall
  BY <1>26, <1>g DEF DrainCall
<1>27. CASE DrCheck
  BY <1>27, <1>g DEF DrCheck
<1>28. CASE DrGuard
  BY <1>28, <1>g DEF DrGuard, PublishGuardDrop, WakeOrReturn, WakeLabel
<1>29. CASE DrUnwind
  BY <1>29, <1>g DEF DrUnwind, PublishGuardDrop
<1>30. CASE PreSpin
  BY <1>30, <1>g DEF PreSpin
<1>31. CASE PrepareSlot
  BY <1>31, <1>g DEF PrepareSlot
<1>32. CASE PrepareFlag
  BY <1>32, <1>g DEF PrepareFlag
<1>33. CASE Recheck
  BY <1>33, <1>g DEF Recheck
<1>34. CASE RecheckSenders
  BY <1>34, <1>g DEF RecheckSenders
<1>35. CASE Withdraw
  BY <1>35, <1>g DEF Withdraw
<1>36. CASE WakeSwap
  BY <1>36, <1>g DEF WakeSwap, WakeDone
<1>37. CASE WakeList
  BY <1>37, <1>g DEF WakeList, WakeDone
<1>38. CASE DropReceiver
  BY <1>38, <1>g DEF DropReceiver
<1>39. ASSUME NEW t \in Threads, Unpark(t) PROVE FreedInv'
  BY <1>39, <1>g DEF Unpark, Unparked
<1>40. ASSUME NEW t \in Threads, SpuriousUnpark(t) PROVE FreedInv'
  BY <1>40, <1>g DEF SpuriousUnpark, Unparked
<1>41. ASSUME NEW t \in Threads, ArcDrop(t) PROVE FreedInv'
  <2>1. CASE refs # {t}
    BY <1>41, <2>1, <1>g, <1>t DEF ArcDrop
  <2>2. CASE refs = {t}
    <3>1. SharedDrop /\ UNCHANGED <<chead, claim, sent>> /\ pc[t] = "arc"
      BY <1>41, <2>2 DEF ArcDrop, ring, receiver
    <3>2. \A p \in Senders : op[p] = "drop" \/ pc[p] = "unborn"
      BY <2>2, <3>1 DEF ControlInv
    <3>3. senders = 0
      <4>1. LiveSenders = {}
        BY <3>2 DEF LiveSenders
      <4> QED
        BY <4>1, LiveSendersCount DEF ControlInv
    <3>4. head = chead
      <4>1. pc["C"] \in {"arc", "gone"}
        BY <2>2, <3>1 DEF ControlInv
      <4> QED
        BY <4>1 DEF IndexInv, InDrain, DrainPcs
    <3>5. \A n \in chead..claim-1 : Published(n) /\ value[Slot(n)] = sent[n + 1]
      BY <3>3, NoSenders DEF ContentInv
    <3>6. ~Published(claim)
      BY <1>t, PublishedClaimed
    <3>7. PICK n \in 0..Cap :
            /\ ~Published(chead + n)
            /\ \A i \in 0..n-1 : Published(chead + i)
            /\ dropped' = [i \in 1..n |-> value[Slot(chead + i - 1)]]
      BY <3>1, <3>4 DEF SharedDrop
    <3>8. n = claim - chead
      <4>1. ~(n < claim - chead)
        BY <1>t, <3>5, <3>7
      <4>2. ~(claim - chead < n)
        <5> SUFFICES ASSUME claim - chead < n PROVE FALSE
          OBVIOUS
        <5>1. claim - chead \in 0..n-1 /\ chead + (claim - chead) = claim
          BY <1>t
        <5> QED
          BY <3>6, <3>7, <5>1
      <4> QED
        BY <1>t, <4>1, <4>2
    <3>9. ASSUME NEW i \in 1..n PROVE value[Slot(chead + i - 1)] = sent[chead + i]
      <4>1. chead + i - 1 \in chead..claim-1 /\ (chead + i - 1) + 1 = chead + i
        BY <1>t, <3>8
      <4> QED
        BY <3>5, <4>1
    <3> QED
      BY <3>1, <3>7, <3>8, <3>9
  <2> QED
    BY <2>1, <2>2
<1>42. CASE UNCHANGED vars
  BY <1>42, <1>g DEF vars, control
<1> HIDE DEF FreedInv
<1> QED
  BY <1>1, <1>2, <1>3, <1>4, <1>5, <1>6, <1>7, <1>8, <1>9, <1>10, <1>11, <1>12, <1>13,
     <1>14, <1>15, <1>16, <1>17, <1>18, <1>19, <1>20, <1>21, <1>22, <1>23, <1>24, <1>25,
     <1>26, <1>27, <1>28, <1>29, <1>30, <1>31, <1>32, <1>33, <1>34, <1>35, <1>36, <1>37,
     <1>38, <1>39, <1>40, <1>41, <1>42
     DEF Next, SenderStep, ReceiverStep, Calls, Terminated, Threads

\* A fresh channel satisfies the inductive invariant.
LEMMA IndInvInit == Init => IndInv
<1> SUFFICES ASSUME Init PROVE IndInv
  OBVIOUS
<1> USE CapAssumption, ConstAssumption
<1>0. /\ pc = [t \in Threads |-> IF t \in {First, "C"} THEN "idle" ELSE "unborn"]
      /\ op = [t \in Threads |-> "none"]
      /\ refs = {First, "C"} /\ senders = 1 /\ rxDropped = FALSE
  BY DEF Init
<1>1. TypeOK
  <2>1. RingType /\ WaitersType
    BY DEF Init, RingType, WaitersType
  <2>2. SenderType /\ ReceiverType
    BY DEF Init, SenderType, ReceiverType
  <2>3. ControlType
    BY <1>0 DEF ControlType, Threads, SenderPcs, ReceiverPcs
  <2>4. HistoryType
    BY EmptySeq DEF Init, HistoryType
  <2> QED
    BY <1>0, <2>1, <2>2, <2>3, <2>4 DEF TypeOK, Threads
<1>2. ControlInv
  <2>1. LiveSenders = {First}
    BY <1>0 DEF LiveSenders, Threads
  <2>2. senders = Cardinality(LiveSenders)
    BY <1>0, <2>1, FS_Singleton
  <2> QED
    BY <1>0, <2>2 DEF ControlInv, Threads, WakePcs, WaitPcs, TrySendPcs, RecvPcs, DrainPcs
<1>3. IndexInv /\ OwnerInv
  BY DEF Init, IndexInv, OwnerInv, Owner, InDrain, Threads, DrainPcs
<1>4. RoundInv
  <2>1. \A i \in 0..Cap-1 : (Cap * (-1)) + i < 0
    BY ONLY CapAssumption
  <2>2. \A i \in 0..Cap-1 : (Cap * round[i]) + i < claim
    BY <2>1 DEF Init
  <2> QED
    BY <1>0, <2>2 DEF Init, RoundInv, Owner, Threads
<1>5. ContentInv /\ ToldInv
  BY <1>0 DEF Init, ContentInv, ToldInv, Owner, Threads
<1>6. FreedInv /\ ConsumerWakeInv /\ ProducerWakeInv
  BY <1>0 DEF Init, FreedInv, ConsumerWakeInv, ProducerWakeInv, Threads
<1> QED
  BY <1>1, <1>2, <1>3, <1>4, <1>5, <1>6 DEF IndInv

\* Every step of the ring keeps the inductive invariant.
LEMMA IndInvStep == IndInv /\ [Next]_vars => IndInv'
<1> SUFFICES ASSUME IndInv, [Next]_vars PROVE IndInv'
  OBVIOUS
<1> USE DEF IndInv
<1>1. TypeOK' /\ ControlInv'
  BY TypeStep, ControlStep
<1>2. IndexInv' /\ OwnerInv'
  BY IndexStep, OwnerStep
<1>3. RoundInv' /\ ContentInv'
  BY RoundStep, ContentStep
<1>4. ToldInv' /\ FreedInv'
  BY ToldStep, FreedStep
<1>5. ConsumerWakeInv'
  BY ConsumerWakeStep
<1>6. ~CallbackPanics => ProducerWakeInv'
  BY ProducerWakeStep
<1> QED
  BY <1>1, <1>2, <1>3, <1>4, <1>5, <1>6

\* The inductive invariant holds in every reachable state of the ring, for
\* every capacity and every finite set of senders.
THEOREM Invariance == Spec => []IndInv
BY IndInvInit, IndInvStep, PTL DEF Spec

\* Every variable of the ring, of its parker and of its waiter list keeps its type.
THEOREM TypeCorrect == Spec => []TypeOK
<1>1. IndInv => TypeOK
  BY DEF IndInv
<1> QED
  BY <1>1, Invariance, PTL

\* The receiver gets the messages in the order of their claims, and a slot that
\* is published holds the message of its own sequence.
THEOREM FifoCorrect == Spec => []Fifo
<1>1. IndInv => Fifo
  <2> SUFFICES ASSUME IndInv PROVE Fifo
    OBVIOUS
  <2>1. /\ Len(delivered) = chead /\ Len(sent) = claim /\ chead \in Nat /\ claim \in Nat
        /\ chead <= claim
    BY IndexTypes DEF IndInv, IndexInv
  <2>2. \A i \in 1..chead : delivered[i] = sent[i]
    BY DEF IndInv, ContentInv
  <2>3. ASSUME NEW i \in chead+1..claim, Published(i - 1) PROVE value[Slot(i - 1)] = sent[i]
    <3>1. i - 1 \in chead..claim-1 /\ (i - 1) + 1 = i
      BY <2>1
    <3> QED
      BY <2>3, <3>1 DEF IndInv, ContentInv
  <2>4. ~Published(claim)
    BY <2>1, PublishedClaimed DEF IndInv
  <2> QED
    BY <2>1, <2>2, <2>3, <2>4 DEF Fifo
<1> QED
  BY <1>1, Invariance, PTL

\* No slot is accessed by two threads at once.
THEOREM NoDataRaceCorrect == Spec => []NoDataRace
<1>1. IndInv => NoDataRace
  <2> SUFFICES ASSUME IndInv, NEW p \in Senders, pc[p] = "write"
               PROVE  /\ pc["C"] = "read" => Slot(seq[p]) # Slot(chead)
                      /\ \A q \in Senders \ {p} : Owner(q) => Slot(seq[p]) # Slot(seq[q])
    BY DEF NoDataRace, Owner
  <2>1. TypeOK /\ IndexInv /\ OwnerInv /\ RoundInv
    BY DEF IndInv
  <2>2. \A r \in Senders : Owner(r) => seq[r] \in chead..claim-1
    BY <2>1, IndexTypes DEF OwnerInv
  <2>3. Owner(p) /\ ~Published(seq[p])
    BY <2>1 DEF Owner, RoundInv
  <2>4. ASSUME pc["C"] = "read" PROVE Slot(seq[p]) # Slot(chead)
    <3>1. Published(chead) /\ chead \in chead..claim-1
      BY <2>1, <2>4, IndexTypes, PublishedClaimed DEF RoundInv
    <3> QED
      BY <2>1, <2>2, <2>3, <3>1, ClaimedSlots
  <2>5. ASSUME NEW q \in Senders \ {p}, Owner(q) PROVE Slot(seq[p]) # Slot(seq[q])
    <3>1. seq[p] # seq[q]
      BY <2>1, <2>3, <2>5 DEF OwnerInv
    <3> QED
      BY <2>1, <2>2, <2>3, <2>5, <3>1, ClaimedSlots
  <2> QED
    BY <2>4, <2>5
<1> QED
  BY <1>1, Invariance, PTL

\* When the ring is destroyed every message was moved out or is dropped, once.
THEOREM ExactlyOnceCorrect == Spec => []ExactlyOnce
<1>1. IndInv => ExactlyOnce
  <2> SUFFICES ASSUME IndInv, refs = {} PROVE delivered \o dropped = sent
    BY DEF ExactlyOnce
  <2>1. /\ delivered \in Seq(0..MaxOffers) /\ dropped \in Seq(0..MaxOffers)
        /\ sent \in Seq(0..MaxOffers)
    BY DEF IndInv, TypeOK, HistoryType
  <2>2. /\ Len(delivered) = chead /\ Len(sent) = claim /\ chead \in Nat /\ claim \in Nat
        /\ chead <= claim
    BY IndexTypes DEF IndInv, IndexInv
  <2>3. dropped = [i \in 1..(claim - chead) |-> sent[chead + i]]
    BY DEF IndInv, FreedInv
  <2>4. Len(dropped) = claim - chead
    <3>1. DOMAIN dropped = 1..Len(dropped) /\ Len(dropped) \in Nat
      BY ONLY <2>1, LenProperties
    <3>2. DOMAIN dropped = 1..(claim - chead)
      BY <2>3
    <3> QED
      BY ONLY <2>2, <3>1, <3>2
  <2>5. \A i \in 1..chead : delivered[i] = sent[i]
    BY DEF IndInv, ContentInv
  <2>6. /\ delivered \o dropped \in Seq(0..MaxOffers)
        /\ Len(delivered \o dropped) = Len(delivered) + Len(dropped)
        /\ \A i \in 1..Len(delivered) + Len(dropped) :
              (delivered \o dropped)[i] = IF i <= Len(delivered) THEN delivered[i]
                                          ELSE dropped[i - Len(delivered)]
    BY ONLY <2>1, ConcatProperties
  <2>7. Len(delivered \o dropped) = Len(sent)
    BY ONLY <2>2, <2>4, <2>6
  <2>8. ASSUME NEW i \in 1..Len(delivered \o dropped)
        PROVE  (delivered \o dropped)[i] = sent[i]
    <3>1. i \in 1..Len(delivered) + Len(dropped) /\ i \in 1..claim
      BY ONLY <2>2, <2>7, <2>6, i \in 1..Len(delivered \o dropped)
    <3>2. CASE i <= chead
      BY ONLY <2>2, <2>5, <2>6, <3>1, <3>2
    <3>3. CASE ~(i <= chead)
      <4>1. i - chead \in 1..(claim - chead) /\ chead + (i - chead) = i
        BY ONLY <2>2, <3>1, <3>3
      <4>2. dropped[i - chead] = sent[i]
        BY ONLY <2>3, <4>1
      <4> QED
        BY ONLY <2>2, <2>6, <3>1, <3>3, <4>2
    <3> QED
      BY ONLY <3>2, <3>3
  <2> QED
    BY ONLY <2>1, <2>6, <2>7, <2>8, SeqEqual
<1> QED
  BY <1>1, Invariance, PTL

\* Disconnected means that every sender is gone and nothing is left.
THEOREM DisconnectedCorrect == Spec => []DisconnectedMeansDrained
<1>1. IndInv => DisconnectedMeansDrained
  <2> SUFFICES ASSUME IndInv, "C" \in told
               PROVE  /\ \A p \in Senders : op[p] = "drop" \/ pc[p] = "unborn"
                      /\ delivered = sent
    BY DEF DisconnectedMeansDrained
  <2>1. senders = 0 /\ chead = claim
    BY DEF IndInv, ToldInv
  <2>2. \A p \in Senders : op[p] = "drop" \/ pc[p] = "unborn"
    BY <2>1, NoSenders DEF IndInv
  <2>3. /\ delivered \in Seq(0..MaxOffers) /\ sent \in Seq(0..MaxOffers)
        /\ Len(delivered) = Len(sent)
        /\ \A i \in 1..Len(delivered) : delivered[i] = sent[i]
    BY <2>1 DEF IndInv, TypeOK, HistoryType, IndexInv, ContentInv
  <2>4. delivered = sent
    BY ONLY <2>3, SeqEqual
  <2> QED
    BY <2>2, <2>4
<1> QED
  BY <1>1, Invariance, PTL

\* A parked consumer with a message to read, or with no sender left, is always
\* about to be woken.
THEOREM ConsumerWakeCorrect == Spec => []ConsumerNeverMissesWake
<1>1. IndInv => ConsumerNeverMissesWake
  BY DEF IndInv, ConsumerWakeInv, ConsumerPending, ConsumerNeverMissesWake
<1> QED
  BY <1>1, Invariance, PTL

\* So is every parked sender with room to send, if callbacks do not panic.
THEOREM ProducersWakeCorrect ==
    ASSUME ~CallbackPanics
    PROVE  Spec => []ProducersNeverMissWake
<1>1. IndInv => ProducersNeverMissWake
  BY DEF IndInv, ProducerWakeInv, ProducerPending, ProducersNeverMissWake
<1> QED
  BY <1>1, Invariance, PTL

\* Every sequence claimed and not yet published has a sender at work on it.
THEOREM HolesHaveWritersCorrect == Spec => []HolesHaveWriters
<1>1. IndInv => HolesHaveWriters
  BY DEF IndInv, RoundInv, HolesHaveWriters, Owner
<1> QED
  BY <1>1, Invariance, PTL

\* If callbacks do not panic, nobody sleeps in a circle.  A sender with nothing
\* on its way to wake it sleeps beside a full ring; the sequence the receiver
\* waits for is then claimed, so it is owned or published, and in either case
\* some other sender is inside its call.
THEOREM NoMutualSleepCorrect ==
    ASSUME ~CallbackPanics
    PROVE  Spec => []NoMutualSleep
<1>1. IndInv => NoMutualSleep
  <2> SUFFICES ASSUME IndInv, NEW p \in Senders, Asleep(p)
               PROVE  /\ pc["C"] # "gone"
                      /\ Asleep("C") => \E q \in Senders :
                            pc[q] \in {"write", "publish", "wake_load", "wake_store", "wake_take"}
    BY DEF NoMutualSleep
  <2>0. /\ TypeOK /\ ControlInv /\ IndexInv /\ RoundInv /\ ConsumerWakeInv /\ ProducerWakeInv
        /\ pc[p] = "park" /\ ~token[p]
    BY DEF IndInv, Asleep
  <2>1. ASSUME pc["C"] \in {"park", "gone"} PROVE IsFull(claim, head) /\ ~rxDropped
    BY <2>0, <2>1 DEF ProducerWakeInv, ProducerPending
  <2>2. pc["C"] # "gone"
    BY <2>0, <2>1 DEF ControlInv
  <2>3. ASSUME Asleep("C")
        PROVE  \E q \in Senders :
                  pc[q] \in {"write", "publish", "wake_load", "wake_store", "wake_take"}
    <3>1. head = chead /\ pc["C"] = "park" /\ ~token["C"]
      BY <2>0, <2>3 DEF Asleep, IndexInv, InDrain, DrainPcs
    <3>2. chead \in chead..claim-1
      BY <2>0, <2>1, <3>1, CapAssumption DEF IsFull, TypeOK, RingType, ReceiverType
    <3>3. CASE Published(chead)
      <4>1. ConsumerPending
        BY <2>0, <3>1, <3>3 DEF ConsumerWakeInv
      <4> QED
        BY <3>1, <4>1 DEF ConsumerPending
    <3>4. CASE ~Published(chead)
      BY <2>0, <3>2, <3>4 DEF RoundInv, Owner
    <3> QED
      BY <3>3, <3>4
  <2> QED
    BY <2>2, <2>3
<1> QED
  BY <1>1, Invariance, PTL

\* A sender decides as if it had just loaded claim and head.
THEOREM CachesDecideTrulyCorrect == Spec => CachesDecideTruly
<1> DEFINE Truly(p) ==
        /\ pc[p] = "ts_full" /\ pc'[p] # "ts_full" =>
              /\ pc'[p] = "ts_cas" <=> ~IsFull(seq[p], head)
              /\ pc'[p] # "ts_cas" => IsFull(claim, head)
        /\ pc[p] = "ts_cas" /\ pc'[p] = "write" => ~IsFull(claim, head)
<1>1. IndInv /\ [Next]_vars => [\A p \in Senders : Truly(p)]_vars
  <2> SUFFICES ASSUME IndInv, Next, NEW p \in Senders PROVE Truly(p)
    OBVIOUS
  <2>0. /\ TypeOK /\ OwnerInv /\ Cap \in Nat \ {0}
        /\ pc \in [Threads -> SenderPcs \cup ReceiverPcs]
        /\ p \in Threads /\ p # "C" /\ claim \in Nat /\ head \in Nat
        /\ seq[p] \in Nat /\ cachedHead[p] \in Nat
    BY CapAssumption, ConstAssumption
       DEF IndInv, TypeOK, RingType, SenderType, ControlType, Threads
  <2>1. CASE TsFull(p)
    <3>1. /\ pc[p] = "ts_full"
          /\ pc'[p] = "ts_cas" <=> ~IsFull(seq[p], cachedHead[p]) \/ ~IsFull(seq[p], head)
      BY <2>0, <2>1 DEF TsFull, Blocked, GoTo, Return
    <3>2. cachedHead[p] <= head /\ seq[p] <= claim
      BY <2>0, <3>1 DEF OwnerInv
    <3> QED
      BY <2>0, <3>1, <3>2 DEF IsFull
  <2>2. CASE TsCasOk(p)
    <3>1. pc[p] = "ts_cas" /\ claim = seq[p]
      BY <2>2 DEF TsCasOk
    <3>2. cachedHead[p] <= head /\ seq[p] < cachedHead[p] + Cap
      BY <2>0, <3>1 DEF OwnerInv
    <3> QED
      BY <2>0, <3>1, <3>2 DEF IsFull
  <2>3. ASSUME ~TsFull(p), ~TsCasOk(p)
        PROVE  /\ pc[p] = "ts_full" => pc'[p] = "ts_full"
               /\ pc[p] = "ts_cas" => pc'[p] # "write"
    <3> USE <2>0 DEF GoTo, Return, WakeOrReturn, WakeDone
    <3>1. ASSUME NEW q \in Senders, SenderStep(q) \/ TsCasSpurious(q)
          PROVE  /\ pc[p] = "ts_full" => pc'[p] = "ts_full"
                 /\ pc[p] = "ts_cas" => pc'[p] # "write"
      <4>1. CASE q = p
        BY <2>3, <3>1, <4>1 DEF SenderStep, TsCasSpurious, TsDisconnected, TsClaim, TsCasLost,
           TsWrite, TsPublish, WaitPush, WaitFlag, RecheckClaim, RecheckHead,
           RecheckDisconnected, WakeLoad, WakeStore, WakeTake, Unpark, ArcDrop
      <4>2. CASE q # p
        <5>1. pc'[p] = pc[p]
          BY <3>1, <4>2 DEF SenderStep, TsCasSpurious, TsDisconnected, TsClaim, TsFull, TsCasOk,
             TsCasLost, TsWrite, TsPublish, WaitPush, WaitFlag, RecheckClaim, RecheckHead,
             RecheckDisconnected, WakeLoad, WakeStore, WakeTake, Unpark, ArcDrop, Blocked
        <5> QED
          BY <5>1
      <4> QED
        BY <4>1, <4>2
    <3>2. CASE ReceiverStep
      <4>1. pc'[p] = pc[p]
        BY <3>2 DEF ReceiverStep, TrCheck, TrSenders, TrLast, Read, TrPublish, DrCheck, DrGuard,
           DrUnwind, PreSpin, PrepareSlot, PrepareFlag, Recheck, RecheckSenders, Withdraw,
           WakeSwap, WakeList, Unpark, ArcDrop, Blocked
      <4> QED
        BY <4>1
    <3>3. CASE Calls
      BY <3>3 DEF Calls, SenderCall, Clone, DropSender, ReceiverCall, DrainCall, DropReceiver
    <3>4. CASE \E t \in Threads : SpuriousUnpark(t)
      BY <3>4 DEF SpuriousUnpark
    <3>5. CASE Terminated
      BY <3>5 DEF Terminated, vars, control
    <3> QED
      BY <3>1, <3>2, <3>3, <3>4, <3>5 DEF Next
  <2> QED
    BY <2>1, <2>2, <2>3
<1> QED
  BY <1>1, Invariance, PTL DEF Spec, CachesDecideTruly

-----------------------------------------------------------------------------
(* The ring implements the abstract channel.                               *)

\* A step that claims, moves, drops, answers and frees nothing and keeps both
\* sides is a stutter of the channel.
LEMMA ChannelStutter ==
    ASSUME UNCHANGED <<sent, delivered, dropped, told>>,
           refs' = {} <=> refs = {},
           senders' > 0 <=> senders > 0,
           op'["C"] = "drop" <=> op["C"] = "drop"
    PROVE  UNCHANGED Chan!vars
BY DEF Chan!vars

\* Every step of the ring is a step of the channel or a stutter.
LEMMA ChannelStep ==
    IndInv /\ [Next]_vars => [Chan!Next]_(Chan!vars)
<1> SUFFICES ASSUME IndInv, [Next]_vars
             PROVE  Chan!Next \/ UNCHANGED Chan!vars
  OBVIOUS
<1>t. TypeOK /\ ControlInv /\ IndexInv /\ OwnerInv /\ RoundInv /\ ContentInv /\ ToldInv /\ FreedInv
  BY DEF IndInv
<1>i. /\ chead \in Nat /\ claim \in Nat /\ senders \in Nat
      /\ Len(sent) = claim /\ Len(delivered) = chead
  BY <1>t, IndexTypes, LiveSendersCount DEF ControlInv, IndexInv
<1>o. op \in [Threads -> {"none", "try_send", "send", "try_recv", "recv", "drain", "drop"}]
  BY <1>t, IndexTypes
<1>c. op["C"] = "drop" => pc["C"] \in {"wake_swap", "wake_list", "arc", "gone"}
  BY <1>t DEF ControlInv
<1>l. ASSUME NEW r \in Senders, pc[r] \in {"idle"} \cup TrySendPcs PROVE senders > 0
  <2>1. senders # 0
    BY <1>l, <1>t, NoSenders DEF WakePcs, TrySendPcs
  <2> QED
    BY <2>1, <1>i
<1>s. "C" \notin Senders
  BY ConstAssumption
<1> USE DEF Threads, ring, sender, receiver, history, GoTo, Return
<1>1. ASSUME NEW p \in Senders, NEW o \in {"try_send", "send"}, SenderCall(p, o) PROVE Chan!Next \/ UNCHANGED Chan!vars
  BY <1>1, <1>c, <1>o, <1>s, ChannelStutter DEF SenderCall
<1>2. ASSUME NEW p \in Senders, TsDisconnected(p) PROVE Chan!Next \/ UNCHANGED Chan!vars
  <2>1. CASE rxDropped
    <3>1. /\ op["C"] = "drop" /\ op'["C"] = "drop" /\ senders > 0 /\ senders' = senders
      BY <1>2, <2>1, <1>l, <1>o, <1>s, <1>t DEF TsDisconnected, ControlInv, TrySendPcs
    <3>2. told' = told \cup {p} /\ UNCHANGED <<sent, delivered, dropped, refs>>
      BY <1>2, <2>1 DEF TsDisconnected
    <3>3. Chan!TellSender
      BY <3>1, <3>2, <1>s DEF Chan!TellSender
    <3> QED
      BY <3>3 DEF Chan!Next
  <2>2. CASE ~rxDropped
    BY <1>2, <2>2, ChannelStutter DEF TsDisconnected
  <2> QED
    BY <2>1, <2>2
<1>3. ASSUME NEW p \in Senders, TsClaim(p) PROVE Chan!Next \/ UNCHANGED Chan!vars
  BY <1>3, <1>c, <1>o, <1>s, ChannelStutter DEF TsClaim
<1>4. ASSUME NEW p \in Senders, TsFull(p) PROVE Chan!Next \/ UNCHANGED Chan!vars
  BY <1>4, <1>c, <1>o, <1>s, ChannelStutter DEF TsFull, Blocked
<1>5. ASSUME NEW p \in Senders, TsCasOk(p) PROVE Chan!Next \/ UNCHANGED Chan!vars
  <2>1. /\ op' = op /\ senders' = senders /\ sent' = Append(sent, val[p])
        /\ UNCHANGED <<delivered, dropped, told, refs>> /\ pc[p] = "ts_cas" /\ claim = seq[p]
    BY <1>5 DEF TsCasOk
  <2>2. senders > 0
    BY <2>1, <1>l DEF TrySendPcs
  <2>3. val[p] \in 1..MaxOffers
    BY <2>1, <1>t DEF ContentInv, ControlInv, TrySendPcs, WakePcs
  <2>4. Len(sent) - Len(delivered) < Cap
    <3>1. claim < cachedHead[p] + Cap /\ cachedHead[p] <= head /\ head <= chead
      BY <2>1, <1>t DEF OwnerInv, IndexInv
    <3>2. cachedHead[p] \in Nat /\ head \in Nat /\ Cap \in Nat
      BY <1>t, IndexTypes
    <3> QED
      BY ONLY <1>i, <3>1, <3>2
  <2>5. Chan!Send
    BY <2>1, <2>2, <2>3, <2>4 DEF Chan!Send, Chan!Pending
  <2> QED
    BY <2>5 DEF Chan!Next
<1>6. ASSUME NEW p \in Senders, TsCasLost(p) PROVE Chan!Next \/ UNCHANGED Chan!vars
  BY <1>6, <1>c, <1>o, <1>s, ChannelStutter DEF TsCasLost
<1>7. ASSUME NEW p \in Senders, TsCasSpurious(p) PROVE Chan!Next \/ UNCHANGED Chan!vars
  BY <1>7, <1>c, <1>o, <1>s, ChannelStutter DEF TsCasSpurious
<1>8. ASSUME NEW p \in Senders, TsWrite(p) PROVE Chan!Next \/ UNCHANGED Chan!vars
  BY <1>8, <1>c, <1>o, <1>s, ChannelStutter DEF TsWrite
<1>9. ASSUME NEW p \in Senders, TsPublish(p) PROVE Chan!Next \/ UNCHANGED Chan!vars
  BY <1>9, <1>c, <1>o, <1>s, ChannelStutter DEF TsPublish, WakeOrReturn, WakeLabel
<1>10. ASSUME NEW p \in Senders, WaitPush(p) PROVE Chan!Next \/ UNCHANGED Chan!vars
  BY <1>10, <1>c, <1>o, <1>s, ChannelStutter DEF WaitPush
<1>11. ASSUME NEW p \in Senders, WaitFlag(p) PROVE Chan!Next \/ UNCHANGED Chan!vars
  BY <1>11, <1>c, <1>o, <1>s, ChannelStutter DEF WaitFlag
<1>12. ASSUME NEW p \in Senders, RecheckClaim(p) PROVE Chan!Next \/ UNCHANGED Chan!vars
  BY <1>12, <1>c, <1>o, <1>s, ChannelStutter DEF RecheckClaim
<1>13. ASSUME NEW p \in Senders, RecheckHead(p) PROVE Chan!Next \/ UNCHANGED Chan!vars
  BY <1>13, <1>c, <1>o, <1>s, ChannelStutter DEF RecheckHead
<1>14. ASSUME NEW p \in Senders, RecheckDisconnected(p) PROVE Chan!Next \/ UNCHANGED Chan!vars
  BY <1>14, <1>c, <1>o, <1>s, ChannelStutter DEF RecheckDisconnected
<1>15. ASSUME NEW p \in Senders, WakeLoad(p) PROVE Chan!Next \/ UNCHANGED Chan!vars
  BY <1>15, <1>c, <1>o, <1>s, ChannelStutter DEF WakeLoad, WakeDone
<1>16. ASSUME NEW p \in Senders, WakeStore(p) PROVE Chan!Next \/ UNCHANGED Chan!vars
  BY <1>16, <1>c, <1>o, <1>s, ChannelStutter DEF WakeStore
<1>17. ASSUME NEW p \in Senders, WakeTake(p) PROVE Chan!Next \/ UNCHANGED Chan!vars
  BY <1>17, <1>c, <1>o, <1>s, ChannelStutter DEF WakeTake, WakeDone
<1>18. ASSUME NEW p \in Senders, DropSender(p) PROVE Chan!Next \/ UNCHANGED Chan!vars
  <2>1. /\ senders' = senders - 1 /\ pc[p] = "idle" /\ op'["C"] = op["C"]
        /\ UNCHANGED <<sent, delivered, dropped, told, refs>>
    BY <1>18, <1>o, <1>s DEF DropSender
  <2>2. senders > 0
    BY <2>1, <1>l
  <2>3. CASE senders = 1
    <3>1. Chan!DropSide("tx")
      <4>1. (senders' > 0) = FALSE
        BY <2>1, <2>3
      <4>2. UNCHANGED <<sent, delivered, dropped, told, refs>>
        BY <2>1
      <4>3. (op'["C"] # "drop") = (op["C"] # "drop")
        BY <2>1
      <4> QED
        BY ONLY <2>2, <4>1, <4>2, <4>3 DEF Chan!DropSide
    <3> QED
      BY <3>1 DEF Chan!Next
  <2>4. CASE senders # 1
    BY <2>1, <2>2, <2>4, <1>i, ChannelStutter
  <2> QED
    BY <2>3, <2>4
<1>19. ASSUME NEW p \in Senders, NEW q \in Senders, Clone(p, q) PROVE Chan!Next \/ UNCHANGED Chan!vars
  <2>1. /\ op'["C"] = op["C"] /\ senders' = senders + 1 /\ refs' = refs \cup {q} /\ pc[p] = "idle"
        /\ UNCHANGED <<sent, delivered, dropped, told>>
    BY <1>19, <1>o, <1>s DEF Clone
  <2>2. senders > 0 /\ senders' > 0
    BY <2>1, <1>i, <1>l
  <2>3. refs # {} /\ refs' # {}
    BY <2>1, <1>t DEF ControlInv
  <2> QED
    BY <2>1, <2>2, <2>3, ChannelStutter
<1>20. ASSUME NEW o \in {"try_recv", "recv"}, ReceiverCall(o) PROVE Chan!Next \/ UNCHANGED Chan!vars
  BY <1>20, <1>c, <1>o, <1>s, ChannelStutter DEF ReceiverCall
<1>21. CASE TrCheck
  BY <1>21, <1>c, <1>o, <1>s, ChannelStutter DEF TrCheck
<1>22. CASE TrSenders
  BY <1>22, <1>c, <1>o, <1>s, ChannelStutter DEF TrSenders, Blocked
<1>23. CASE TrLast
  <2>1. op["C"] # "drop" /\ op'["C"] # "drop" /\ UNCHANGED <<senders, sent, delivered, dropped, refs>>
    BY <1>23, <1>c, <1>o DEF TrLast
  <2>2. CASE ~Published(chead)
    <3>1. senders = 0
      BY <1>23, <1>t DEF TrLast, ToldInv
    <3>2. Len(sent) - Len(delivered) = 0
      <4>1. chead = claim
        BY <2>2, <3>1, <1>i, <1>t, NoSenders DEF IndexInv
      <4> QED
        BY ONLY <4>1, <1>i
    <3>3. told' = told \cup {"C"}
      BY <1>23, <2>2 DEF TrLast
    <3>4. Chan!TellReceiver
      <4>1. /\ ~(senders > 0) /\ senders' = senders
            /\ told' \cap Senders = told \cap Senders /\ "C" \in told'
        BY <2>1, <3>1, <3>3, <1>s
      <4> QED
        BY ONLY <2>1, <3>2, <4>1 DEF Chan!TellReceiver, Chan!Pending
    <3> QED
      BY <3>4 DEF Chan!Next
  <2>3. CASE Published(chead)
    BY <1>23, <2>1, <2>3, ChannelStutter DEF TrLast
  <2> QED
    BY <2>2, <2>3
<1>24. CASE Read
  <2>1. /\ op["C"] # "drop" /\ op' = op /\ senders' = senders
        /\ delivered' = Append(delivered, value[Slot(chead)])
        /\ UNCHANGED <<sent, dropped, told, refs>>
    BY <1>24, <1>c DEF Read
  <2>2. Published(chead) /\ chead \in chead..claim-1
    BY <1>24, <1>i, <1>t, PublishedClaimed DEF Read, RoundInv
  <2>3. Len(sent) - Len(delivered) > 0
    BY ONLY <1>i, <2>2
  <2>4. value[Slot(chead)] = sent[Len(delivered) + 1]
    BY <2>2, <1>i, <1>t DEF ContentInv
  <2>5. Chan!Recv
    BY <2>1, <2>3, <2>4 DEF Chan!Recv, Chan!Pending
  <2> QED
    BY <2>5 DEF Chan!Next
<1>25. CASE TrPublish
  BY <1>25, <1>c, <1>o, <1>s, ChannelStutter DEF TrPublish, WakeOrReturn, WakeLabel
<1>26. CASE DrainCall
  BY <1>26, <1>c, <1>o, <1>s, ChannelStutter DEF DrainCall
<1>27. CASE DrCheck
  BY <1>27, <1>c, <1>o, <1>s, ChannelStutter DEF DrCheck
<1>28. CASE DrGuard
  BY <1>28, <1>c, <1>o, <1>s, ChannelStutter DEF DrGuard, PublishGuardDrop, WakeOrReturn, WakeLabel
<1>29. CASE DrUnwind
  BY <1>29, <1>c, <1>o, <1>s, ChannelStutter DEF DrUnwind, PublishGuardDrop
<1>30. CASE PreSpin
  BY <1>30, <1>c, <1>o, <1>s, ChannelStutter DEF PreSpin
<1>31. CASE PrepareSlot
  BY <1>31, <1>c, <1>o, <1>s, ChannelStutter DEF PrepareSlot
<1>32. CASE PrepareFlag
  BY <1>32, <1>c, <1>o, <1>s, ChannelStutter DEF PrepareFlag
<1>33. CASE Recheck
  BY <1>33, <1>c, <1>o, <1>s, ChannelStutter DEF Recheck
<1>34. CASE RecheckSenders
  BY <1>34, <1>c, <1>o, <1>s, ChannelStutter DEF RecheckSenders
<1>35. CASE Withdraw
  BY <1>35, <1>c, <1>o, <1>s, ChannelStutter DEF Withdraw
<1>36. CASE WakeSwap
  BY <1>36, <1>c, <1>o, <1>s, ChannelStutter DEF WakeSwap, WakeDone
<1>37. CASE WakeList
  BY <1>37, <1>c, <1>o, <1>s, ChannelStutter DEF WakeList, WakeDone
<1>38. CASE DropReceiver
  <2>1. op["C"] # "drop" /\ op'["C"] = "drop"
        /\ UNCHANGED <<senders, sent, delivered, dropped, told, refs>>
    BY <1>38, <1>c, <1>o DEF DropReceiver
  <2>2. Chan!DropSide("rx")
    BY <2>1 DEF Chan!DropSide
  <2> QED
    BY <2>2 DEF Chan!Next
<1>39. ASSUME NEW t \in Threads, Unpark(t) PROVE Chan!Next \/ UNCHANGED Chan!vars
  BY <1>39, <1>c, <1>o, <1>s, ChannelStutter DEF Unpark, Unparked
<1>40. ASSUME NEW t \in Threads, SpuriousUnpark(t) PROVE Chan!Next \/ UNCHANGED Chan!vars
  BY <1>40, <1>c, <1>o, <1>s, ChannelStutter DEF SpuriousUnpark, Unparked
<1>41. ASSUME NEW t \in Threads, ArcDrop(t) PROVE Chan!Next \/ UNCHANGED Chan!vars
  <2>1. t \in refs /\ op' = op /\ UNCHANGED <<senders, chead, claim, sent, delivered, told>>
    BY <1>41, <1>t DEF ArcDrop, ControlInv
  <2>2. CASE refs = {t}
    <3>1. op["C"] = "drop" /\ \A p \in Senders : op[p] = "drop" \/ pc[p] = "unborn"
      BY <1>41, <2>2, <1>t DEF ArcDrop, ControlInv
    <3>2. senders = 0
      <4>1. LiveSenders = {}
        BY <3>1 DEF LiveSenders
      <4> QED
        BY <4>1, <1>t, LiveSendersCount DEF ControlInv
    <3>3. refs # {} /\ refs' = {}
      BY <1>41, <2>2 DEF ArcDrop
    <3>4. FreedInv'
      BY FreedStep, <1>t
    <3>5. dropped' = [i \in 1..(Len(sent) - Len(delivered)) |-> sent[Len(delivered) + i]]
      BY <1>i, <2>1, <3>3, <3>4 DEF FreedInv
    <3>6. Chan!Free
      <4>1. ~(senders > 0) /\ senders' = senders
        BY <2>1, <3>2
      <4> QED
        BY ONLY <2>1, <3>1, <3>3, <3>5, <4>1 DEF Chan!Free, Chan!Pending
    <3> QED
      BY <3>6 DEF Chan!Next
  <2>3. CASE refs # {t}
    <3>1. refs # {} /\ refs' # {} /\ dropped' = dropped
      BY <1>41, <2>1, <2>3 DEF ArcDrop
    <3> QED
      BY <2>1, <3>1, ChannelStutter
  <2> QED
    BY <2>2, <2>3
<1>42. CASE UNCHANGED vars
  BY <1>42, <1>c, <1>o, <1>s, ChannelStutter DEF vars, control
<1> QED
  BY <1>1, <1>2, <1>3, <1>4, <1>5, <1>6, <1>7, <1>8, <1>9, <1>10, <1>11, <1>12, <1>13,
     <1>14, <1>15, <1>16, <1>17, <1>18, <1>19, <1>20, <1>21, <1>22, <1>23, <1>24, <1>25,
     <1>26, <1>27, <1>28, <1>29, <1>30, <1>31, <1>32, <1>33, <1>34, <1>35, <1>36, <1>37,
     <1>38, <1>39, <1>40, <1>41, <1>42
     DEF Next, SenderStep, ReceiverStep, Calls, Terminated, Threads

\* The ring implements the abstract bounded channel, for every capacity and
\* every finite set of senders.
THEOREM Refinement == Spec => ImplementsChannel
<1>1. Init => Chan!Init
  <2> SUFFICES ASSUME Init PROVE Chan!Init
    OBVIOUS
  <2>1. /\ sent = <<>> /\ delivered = <<>> /\ dropped = <<>> /\ told = {} /\ refs # {}
        /\ senders > 0 /\ op["C"] = "none"
    BY DEF Init, Threads
  <2> QED
    BY ONLY <2>1 DEF Chan!Init
<1> QED
  BY <1>1, ChannelStep, Invariance, PTL DEF Spec, ImplementsChannel, Chan!Spec

=============================================================================
