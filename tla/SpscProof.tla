------------------------------ MODULE SpscProof ------------------------------
(***************************************************************************)
(* Proofs about Spsc, for every capacity, every bound on the offers and    *)
(* every choice of strategies.                                             *)
(***************************************************************************)
EXTENDS SpscInv, SequenceTheorems, TLAPS

\* A function on 1..n is a sequence of length n.
LEMMA FunIsSeq ==
    ASSUME NEW S, NEW n \in Nat, NEW f \in [1..n -> S]
    PROVE  f \in Seq(S) /\ Len(f) = n
<1>1. f \in Seq(S)
  BY SeqDef
<1>2. DOMAIN f = 1..Len(f) /\ Len(f) \in Nat
  BY <1>1, LenProperties
<1> QED
  BY <1>1, <1>2

\* Division with remainder by the capacity.
LEMMA DivMod ==
    ASSUME NEW a \in Nat
    PROVE  /\ a \div Cap \in Int
           /\ a = (Cap * (a \div Cap)) + (a % Cap)
BY CapAssumption

\* A positive multiple of the capacity is at least the capacity.
LEMMA PositiveMultiple ==
    ASSUME NEW k \in Int, Cap * k > 0
    PROVE  Cap * k >= Cap
<1> USE CapAssumption
<1>1. k > 0
  OBVIOUS
<1>2. k - 1 \in Nat
  BY <1>1
<1>3. Cap * k = Cap + (Cap * (k - 1))
  OBVIOUS
<1>4. Cap * (k - 1) >= 0
  BY <1>2
<1> QED
  BY <1>3, <1>4

\* A sequence number selects a slot of the buffer.
LEMMA SlotRange ==
    ASSUME NEW n \in Nat
    PROVE  Slot(n) \in 0..Cap-1
BY CapAssumption DEF Slot

\* Sequence numbers less than a capacity apart select different slots: the
\* sender's next slot is never one that still holds a message.
LEMMA SlotDistinct ==
    ASSUME NEW a \in Nat, NEW b \in Nat, a < b, b < a + Cap
    PROVE  Slot(a) # Slot(b)
<1> DEFINE k == (b \div Cap) - (a \div Cap)
<1> SUFFICES ASSUME a % Cap = b % Cap PROVE FALSE
  BY DEF Slot
<1>1. /\ a \div Cap \in Int
      /\ b \div Cap \in Int
      /\ a = (Cap * (a \div Cap)) + (a % Cap)
      /\ b = (Cap * (b \div Cap)) + (b % Cap)
  BY DivMod
<1>2. k \in Int /\ b - a = Cap * k
  BY <1>1, CapAssumption
<1> HIDE DEF k
<1>3. Cap * k > 0 /\ Cap * k < Cap
  BY <1>2, CapAssumption
<1> QED
  BY <1>2, <1>3, PositiveMultiple, CapAssumption

\* Every variable keeps its type: one step of any action.
LEMMA TypeStep == TypeOK /\ [Next]_vars => TypeOK'
<1> SUFFICES ASSUME TypeOK, [Next]_vars PROVE TypeOK'
  OBVIOUS
<1> USE CapAssumption, ConstAssumption
<1> USE DEF TypeOK, Threads, Parkers, SenderPcs, ReceiverPcs, CommonPcs,
            ring, parkers, sender, receiver, history, GoTo, Return, Own, Other, Slot
<1>1. ASSUME NEW o \in {"try_send", "send"}, SenderCall(o) PROVE TypeOK'
  BY <1>1 DEF SenderCall
<1>2. CASE TsDisconnected
  <2>1. CASE disconnected
    <3>1. told' \subseteq Threads
      BY <1>2, <2>1 DEF TsDisconnected
    <3> QED
      BY <1>2, <2>1, <3>1 DEF TsDisconnected
  <2>2. CASE ~disconnected
    BY <1>2, <2>2 DEF TsDisconnected
  <2> QED
    BY <2>1, <2>2
<1>3. CASE TsFull
  BY <1>3 DEF TsFull, Blocked, Retry
<1>4. CASE TsWrite
  BY <1>4 DEF TsWrite
<1>5. CASE TsPublish
  BY <1>5 DEF TsPublish, WakeOrReturn
<1>6. ASSUME NEW o \in {"try_recv", "recv"}, ReceiverCall(o) PROVE TypeOK'
  BY <1>6 DEF ReceiverCall
<1>7. CASE TrCheck
  BY <1>7 DEF TrCheck
<1>8. CASE TrDisconnected
  BY <1>8 DEF TrDisconnected, Blocked, Retry
<1>9. CASE TrLast
  <2>1. CASE tail = chead
    <3>1. told' \subseteq Threads
      BY <1>9, <2>1 DEF TrLast
    <3> QED
      BY <1>9, <2>1, <3>1 DEF TrLast
  <2>2. CASE tail # chead
    BY <1>9, <2>2 DEF TrLast
  <2> QED
    BY <2>1, <2>2
<1>10. CASE Read
  BY <1>10 DEF Read
<1>11. CASE TrPublish
  BY <1>11 DEF TrPublish, WakeOrReturn
<1>12. CASE DrainCall
  BY <1>12 DEF DrainCall
<1>13. CASE DrCheck
  BY <1>13 DEF DrCheck
<1>14. CASE DrGuard
  BY <1>14 DEF DrGuard, PublishGuardDrop, WakeOrReturn
<1>15. CASE DrUnwind
  BY <1>15 DEF DrUnwind, PublishGuardDrop
<1>16. ASSUME NEW t \in Threads, ParkStep(t) \/ SpuriousUnpark(t) PROVE TypeOK'
  <2>1. CASE PrepareSlot(t)
    BY <2>1 DEF PrepareSlot
  <2>2. CASE PrepareFlag(t)
    BY <2>2 DEF PrepareFlag
  <2>3. CASE Recheck(t)
    BY <2>3 DEF Recheck
  <2>4. CASE RecheckDisconnected(t)
    BY <2>4 DEF RecheckDisconnected
  <2>5. CASE Withdraw(t)
    BY <2>5 DEF Withdraw, Retry
  <2>6. CASE Unpark(t)
    BY <2>6 DEF Unpark
  <2>7. CASE SpuriousUnpark(t)
    BY <2>7 DEF SpuriousUnpark
  <2> QED
    BY <1>16, <2>1, <2>2, <2>3, <2>4, <2>5, <2>6, <2>7 DEF ParkStep
<1>17. ASSUME NEW t \in Threads, WakeStep(t) PROVE TypeOK'
  <2>1. CASE WakeLoad(t)
    BY <2>1 DEF WakeLoad, NextWake
  <2>2. CASE WakeStore(t)
    BY <2>2 DEF WakeStore
  <2>3. CASE WakeTake(t)
    <3>1. token' \in [Threads -> BOOLEAN] /\ slot' \in [Parkers -> BOOLEAN]
      BY <2>3 DEF WakeTake, Waiter
    <3>2. UNCHANGED <<ring, parked, sender, receiver, refs, history>> /\ NextWake(t)
      BY <2>3 DEF WakeTake
    <3> HIDE <2>3
    <3> QED
      BY <3>1, <3>2 DEF NextWake
  <2> QED
    BY <1>17, <2>1, <2>2, <2>3 DEF WakeStep
<1>18. ASSUME NEW t \in Threads, Drop(t) PROVE TypeOK'
  BY <1>18 DEF Drop
<1>19. ASSUME NEW t \in Threads, ArcDrop(t) PROVE TypeOK'
  <2>1. \A n \in Nat : buf[n % Cap] \in 0..MaxOffers
    OBVIOUS
  <2>2. dropped' \in Seq(0..MaxOffers)
    <3>1. CASE refs = {t} /\ tail >= head
      <4>1. \A i \in 1..(tail - head) : head + i - 1 \in Nat
        OBVIOUS
      <4>2. \A i \in 1..(tail - head) : buf[(head + i - 1) % Cap] \in 0..MaxOffers
        BY <2>1, <4>1
      <4>3. dropped' \in [1..(tail - head) -> 0..MaxOffers]
        BY <1>19, <3>1, <4>2 DEF ArcDrop, SharedDrop
      <4>4. tail - head \in Nat
        BY <3>1
      <4> QED
        BY <4>3, <4>4, FunIsSeq
    <3>2. CASE refs = {t} /\ tail < head
      BY <1>19, <3>2 DEF ArcDrop, SharedDrop
    <3>3. CASE refs # {t}
      BY <1>19, <3>3 DEF ArcDrop
    <3> QED
      BY <3>1, <3>2, <3>3
  <2> QED
    BY <1>19, <2>2 DEF ArcDrop
<1>20. CASE UNCHANGED vars
  BY <1>20 DEF vars, control
<1> QED
  BY <1>1, <1>2, <1>3, <1>4, <1>5, <1>6, <1>7, <1>8, <1>9, <1>10, <1>11, <1>12, <1>13,
     <1>14, <1>15, <1>16, <1>17, <1>18, <1>19, <1>20
     DEF Next, SenderStep, ReceiverStep, Calls, Terminated

\* Every step keeps the control facts.
LEMMA ControlStep == TypeOK /\ ControlInv /\ [Next]_vars => ControlInv'
<1> SUFFICES ASSUME TypeOK, ControlInv, [Next]_vars PROVE ControlInv'
  OBVIOUS
<1> USE DEF TypeOK, ControlInv, Threads, Parkers, WakePcs, ParkPcs, TrySendPcs, TryRecvPcs,
            DrainPcs, SenderPcs, ReceiverPcs, CommonPcs, ring, parkers, sender, receiver,
            history, GoTo, Return, Own, Other
<1>1. ASSUME NEW o \in {"try_send", "send"}, SenderCall(o) PROVE ControlInv'
  BY <1>1 DEF SenderCall
<1>2. CASE TsDisconnected
  BY <1>2 DEF TsDisconnected
<1>3. CASE TsFull
  BY <1>3 DEF TsFull, IsFull, Blocked, Retry
<1>4. CASE TsWrite
  BY <1>4 DEF TsWrite
<1>5. CASE TsPublish
  BY <1>5 DEF TsPublish, WakeOrReturn
<1>6. ASSUME NEW o \in {"try_recv", "recv"}, ReceiverCall(o) PROVE ControlInv'
  BY <1>6 DEF ReceiverCall
<1>7. CASE TrCheck
  BY <1>7 DEF TrCheck
<1>8. CASE TrDisconnected
  BY <1>8 DEF TrDisconnected, Blocked, Retry
<1>9. CASE TrLast
  BY <1>9 DEF TrLast
<1>10. CASE Read
  BY <1>10 DEF Read
<1>11. CASE TrPublish
  BY <1>11 DEF TrPublish, WakeOrReturn
<1>12. CASE DrainCall
  BY <1>12 DEF DrainCall
<1>13. CASE DrCheck
  BY <1>13 DEF DrCheck
<1>14. CASE DrGuard
  BY <1>14 DEF DrGuard, PublishGuardDrop, WakeOrReturn
<1>15. CASE DrUnwind
  BY <1>15 DEF DrUnwind, PublishGuardDrop
<1>16. ASSUME NEW t \in Threads, PrepareSlot(t) PROVE ControlInv'
  BY <1>16 DEF PrepareSlot
<1>17. ASSUME NEW t \in Threads, PrepareFlag(t) PROVE ControlInv'
  BY <1>17 DEF PrepareFlag
<1>18. ASSUME NEW t \in Threads, Recheck(t) PROVE ControlInv'
  BY <1>18 DEF Recheck
<1>19. ASSUME NEW t \in Threads, RecheckDisconnected(t) PROVE ControlInv'
  BY <1>19 DEF RecheckDisconnected
<1>20. ASSUME NEW t \in Threads, Withdraw(t) PROVE ControlInv'
  BY <1>20 DEF Withdraw, Retry
<1>21. ASSUME NEW t \in Threads, Unpark(t) PROVE ControlInv'
  BY <1>21 DEF Unpark
<1>22. ASSUME NEW t \in Threads, SpuriousUnpark(t) PROVE ControlInv'
  BY <1>22 DEF SpuriousUnpark
<1>23. ASSUME NEW t \in Threads, WakeLoad(t) PROVE ControlInv'
  BY <1>23 DEF WakeLoad, NextWake
<1>24. ASSUME NEW t \in Threads, WakeStore(t) PROVE ControlInv'
  BY <1>24 DEF WakeStore
<1>25. ASSUME NEW t \in Threads, WakeTake(t) PROVE ControlInv'
  BY <1>25 DEF WakeTake, NextWake, Waiter
<1>26. ASSUME NEW t \in Threads, Drop(t) PROVE ControlInv'
  BY <1>26 DEF Drop
<1>27. ASSUME NEW t \in Threads, ArcDrop(t) PROVE ControlInv'
  BY <1>27 DEF ArcDrop
<1>28. CASE UNCHANGED vars
  BY <1>28 DEF vars, control
<1> QED
  BY <1>1, <1>2, <1>3, <1>4, <1>5, <1>6, <1>7, <1>8, <1>9, <1>10, <1>11, <1>12, <1>13,
     <1>14, <1>15, <1>16, <1>17, <1>18, <1>19, <1>20, <1>21, <1>22, <1>23, <1>24, <1>25,
     <1>26, <1>27, <1>28
     DEF Next, SenderStep, ReceiverStep, Calls, Terminated, ParkStep, WakeStep

\* Every step keeps the order of the indices.
LEMMA IndexStep ==
    TypeOK /\ ControlInv /\ IndexInv /\ [Next]_vars => IndexInv'
<1> SUFFICES ASSUME TypeOK, ControlInv, IndexInv, [Next]_vars PROVE IndexInv'
  OBVIOUS
<1> USE CapAssumption
<1> USE DEF TypeOK, ControlInv, IndexInv, InDrain, Threads, Parkers, WakePcs, ParkPcs,
            TrySendPcs, TryRecvPcs, DrainPcs, SenderPcs, ReceiverPcs, CommonPcs,
            ring, parkers, sender, receiver, history, GoTo, Return
<1>1. ASSUME NEW o \in {"try_send", "send"}, SenderCall(o) PROVE IndexInv'
  BY <1>1 DEF SenderCall
<1>2. CASE TsDisconnected
  BY <1>2 DEF TsDisconnected
<1>3. CASE TsFull
  BY <1>3 DEF TsFull, IsFull, Blocked, Retry
<1>4. CASE TsWrite
  BY <1>4 DEF TsWrite
<1>5. CASE TsPublish
  <2>1. sent' = Append(sent, offered) /\ sent \in Seq(0..MaxOffers) /\ offered \in 0..MaxOffers
    BY <1>5 DEF TsPublish
  <2>2. Len(Append(sent, offered)) = Len(sent) + 1
    BY ONLY <2>1, AppendProperties
  <2>3. Len(sent') = Len(sent) + 1
    BY <2>1, <2>2
  <2>4. pc'["P"] \in {"wake_load", "idle"} /\ pc'["C"] = pc["C"] /\ op'["C"] = op["C"]
    BY <1>5 DEF TsPublish, WakeOrReturn
  <2> QED
    BY <1>5, <2>3, <2>4 DEF TsPublish
<1>6. ASSUME NEW o \in {"try_recv", "recv"}, ReceiverCall(o) PROVE IndexInv'
  BY <1>6 DEF ReceiverCall
<1>7. CASE TrCheck
  BY <1>7 DEF TrCheck
<1>8. CASE TrDisconnected
  BY <1>8 DEF TrDisconnected, Blocked, Retry
<1>9. CASE TrLast
  BY <1>9 DEF TrLast
<1>10. CASE Read
  <2>1. buf[Slot(chead)] \in 0..MaxOffers
    BY SlotRange
  <2>2. Len(Append(delivered, buf[Slot(chead)])) = Len(delivered) + 1
    BY <2>1, AppendProperties
  <2> QED
    BY <1>10, <2>2 DEF Read
<1>11. CASE TrPublish
  BY <1>11 DEF TrPublish, WakeOrReturn
<1>12. CASE DrainCall
  BY <1>12 DEF DrainCall
<1>13. CASE DrCheck
  BY <1>13 DEF DrCheck
<1>14. CASE DrGuard
  BY <1>14 DEF DrGuard, PublishGuardDrop, WakeOrReturn
<1>15. CASE DrUnwind
  BY <1>15 DEF DrUnwind, PublishGuardDrop
<1>16. ASSUME NEW t \in Threads, PrepareSlot(t) PROVE IndexInv'
  BY <1>16 DEF PrepareSlot
<1>17. ASSUME NEW t \in Threads, PrepareFlag(t) PROVE IndexInv'
  BY <1>17 DEF PrepareFlag
<1>18. ASSUME NEW t \in Threads, Recheck(t) PROVE IndexInv'
  BY <1>18 DEF Recheck
<1>19. ASSUME NEW t \in Threads, RecheckDisconnected(t) PROVE IndexInv'
  BY <1>19 DEF RecheckDisconnected
<1>20. ASSUME NEW t \in Threads, Withdraw(t) PROVE IndexInv'
  BY <1>20 DEF Withdraw, Retry
<1>21. ASSUME NEW t \in Threads, Unpark(t) PROVE IndexInv'
  BY <1>21 DEF Unpark
<1>22. ASSUME NEW t \in Threads, SpuriousUnpark(t) PROVE IndexInv'
  BY <1>22 DEF SpuriousUnpark
<1>23. ASSUME NEW t \in Threads, WakeLoad(t) PROVE IndexInv'
  BY <1>23 DEF WakeLoad, NextWake
<1>24. ASSUME NEW t \in Threads, WakeStore(t) PROVE IndexInv'
  BY <1>24 DEF WakeStore
<1>25. ASSUME NEW t \in Threads, WakeTake(t) PROVE IndexInv'
  BY <1>25 DEF WakeTake, NextWake, Waiter
<1>26. ASSUME NEW t \in Threads, Drop(t) PROVE IndexInv'
  BY <1>26 DEF Drop
<1>27. ASSUME NEW t \in Threads, ArcDrop(t) PROVE IndexInv'
  BY <1>27 DEF ArcDrop
<1>28. CASE UNCHANGED vars
  BY <1>28 DEF vars, control
<1> QED
  BY <1>1, <1>2, <1>3, <1>4, <1>5, <1>6, <1>7, <1>8, <1>9, <1>10, <1>11, <1>12, <1>13,
     <1>14, <1>15, <1>16, <1>17, <1>18, <1>19, <1>20, <1>21, <1>22, <1>23, <1>24, <1>25,
     <1>26, <1>27, <1>28
     DEF Next, SenderStep, ReceiverStep, Calls, Terminated, ParkStep, WakeStep

\* Every step keeps the messages in the ring and the order of delivery.
LEMMA ContentStep ==
    TypeOK /\ ControlInv /\ IndexInv /\ ContentInv /\ [Next]_vars => ContentInv'
<1> SUFFICES ASSUME TypeOK, ControlInv, IndexInv, ContentInv, [Next]_vars PROVE ContentInv'
  OBVIOUS
<1> USE CapAssumption, ConstAssumption
<1> USE DEF TypeOK, ControlInv, IndexInv, ContentInv, Threads, TrySendPcs,
            ring, parkers, sender, receiver, history, GoTo, Return
<1>1. ASSUME NEW o \in {"try_send", "send"}, SenderCall(o) PROVE ContentInv'
  BY <1>1 DEF SenderCall
<1>2. CASE TsDisconnected
  BY <1>2 DEF TsDisconnected
<1>3. CASE TsFull
  BY <1>3 DEF TsFull, IsFull, Blocked, Retry
<1>4. CASE TsWrite
  <2>1. Slot(ptail) \in 0..Cap-1
    BY SlotRange
  <2>2. ASSUME NEW n \in chead..tail-1 PROVE buf'[Slot(n)] = sent[n + 1]
    <3>1. n \in Nat /\ n < ptail /\ ptail < n + Cap
      BY <1>4 DEF TsWrite
    <3>2. Slot(n) # Slot(ptail) /\ Slot(n) \in 0..Cap-1
      BY <3>1, SlotDistinct, SlotRange
    <3>3. buf[Slot(n)] = sent[n + 1]
      OBVIOUS
    <3> QED
      BY <1>4, <3>2, <3>3 DEF TsWrite
  <2> QED
    BY <1>4, <2>1, <2>2 DEF TsWrite
<1>5. CASE TsPublish
  <2>0. /\ sent' = Append(sent, offered) /\ Len(sent) = tail /\ tail \in Nat
        /\ sent \in Seq(0..MaxOffers) /\ offered \in 0..MaxOffers
    BY <1>5 DEF TsPublish
  <2>1. /\ \A i \in 1..tail : sent'[i] = sent[i]
        /\ sent'[tail + 1] = offered
    <3>1. /\ \A i \in 1..Len(sent) : Append(sent, offered)[i] = sent[i]
          /\ Append(sent, offered)[Len(sent) + 1] = offered
      BY ONLY <2>0, AppendProperties
    <3> QED
      BY <2>0, <3>1
  <2>2. pc'["P"] \in {"wake_load", "idle"} /\ op'["P"] \in {op["P"], "none"}
    BY <1>5 DEF TsPublish, WakeOrReturn
  <2>3. UNCHANGED <<buf, chead, delivered, offered>> /\ tail' = tail + 1 /\ buf[Slot(tail)] = offered
    BY <1>5 DEF TsPublish
  <2>4. ASSUME NEW n \in chead'..tail'-1 PROVE buf'[Slot(n)] = sent'[n + 1]
    <3>1. CASE n = tail
      BY <2>1, <2>3, <3>1
    <3>2. CASE n # tail
      <4>1. n \in chead..tail-1 /\ n + 1 \in 1..tail
        BY <2>3, <3>2
      <4> QED
        BY <2>1, <2>3, <4>1
    <3> QED
      BY <3>1, <3>2
  <2>5. \A i \in 1..chead' : delivered'[i] = sent'[i]
    BY <2>1, <2>3
  <2> QED
    BY <1>5, <2>2, <2>3, <2>4, <2>5 DEF TsPublish
<1>6. ASSUME NEW o \in {"try_recv", "recv"}, ReceiverCall(o) PROVE ContentInv'
  BY <1>6 DEF ReceiverCall
<1>7. CASE TrCheck
  BY <1>7 DEF TrCheck
<1>8. CASE TrDisconnected
  BY <1>8 DEF TrDisconnected, Blocked, Retry
<1>9. CASE TrLast
  BY <1>9 DEF TrLast
<1>10. CASE Read
  <2>1. buf[Slot(chead)] \in 0..MaxOffers
    BY SlotRange
  <2>0. /\ delivered' = Append(delivered, buf[Slot(chead)]) /\ Len(delivered) = chead
        /\ delivered \in Seq(0..MaxOffers) /\ chead \in Nat
    BY <1>10 DEF Read
  <2>2. /\ \A i \in 1..chead : delivered'[i] = delivered[i]
        /\ delivered'[chead + 1] = buf[Slot(chead)]
    <3>1. /\ \A i \in 1..Len(delivered) :
                Append(delivered, buf[Slot(chead)])[i] = delivered[i]
          /\ Append(delivered, buf[Slot(chead)])[Len(delivered) + 1] = buf[Slot(chead)]
      BY ONLY <2>0, <2>1, AppendProperties
    <3> QED
      BY <2>0, <3>1
  <2>3. buf[Slot(chead)] = sent[chead + 1]
    BY <1>10 DEF Read
  <2>5. /\ UNCHANGED <<buf, tail, ptail, offered, sent>>
        /\ chead' = chead + 1
        /\ pc'["P"] = pc["P"] /\ op'["P"] = op["P"]
    BY <1>10 DEF Read
  <2>4. ASSUME NEW i \in 1..chead' PROVE delivered'[i] = sent'[i]
    <3>1. CASE i = chead + 1
      BY <2>2, <2>3, <2>5, <3>1
    <3>2. CASE i # chead + 1
      <4>1. i \in 1..chead
        BY <2>5, <3>2
      <4> QED
        BY <2>2, <2>5, <4>1
    <3> QED
      BY <3>1, <3>2
  <2> QED
    BY <2>4, <2>5
<1>11. CASE TrPublish
  BY <1>11 DEF TrPublish, WakeOrReturn
<1>12. CASE DrainCall
  BY <1>12 DEF DrainCall
<1>13. CASE DrCheck
  BY <1>13 DEF DrCheck
<1>14. CASE DrGuard
  BY <1>14 DEF DrGuard, PublishGuardDrop, WakeOrReturn
<1>15. CASE DrUnwind
  BY <1>15 DEF DrUnwind, PublishGuardDrop
<1>16. ASSUME NEW t \in Threads, PrepareSlot(t) PROVE ContentInv'
  BY <1>16 DEF PrepareSlot
<1>17. ASSUME NEW t \in Threads, PrepareFlag(t) PROVE ContentInv'
  BY <1>17 DEF PrepareFlag
<1>18. ASSUME NEW t \in Threads, Recheck(t) PROVE ContentInv'
  BY <1>18 DEF Recheck
<1>19. ASSUME NEW t \in Threads, RecheckDisconnected(t) PROVE ContentInv'
  BY <1>19 DEF RecheckDisconnected
<1>20. ASSUME NEW t \in Threads, Withdraw(t) PROVE ContentInv'
  BY <1>20 DEF Withdraw, Retry
<1>21. ASSUME NEW t \in Threads, Unpark(t) PROVE ContentInv'
  BY <1>21 DEF Unpark
<1>22. ASSUME NEW t \in Threads, SpuriousUnpark(t) PROVE ContentInv'
  BY <1>22 DEF SpuriousUnpark
<1>23. ASSUME NEW t \in Threads, WakeLoad(t) PROVE ContentInv'
  BY <1>23 DEF WakeLoad, NextWake
<1>24. ASSUME NEW t \in Threads, WakeStore(t) PROVE ContentInv'
  BY <1>24 DEF WakeStore
<1>25. ASSUME NEW t \in Threads, WakeTake(t) PROVE ContentInv'
  BY <1>25 DEF WakeTake, NextWake, Waiter
<1>26. ASSUME NEW t \in Threads, Drop(t) PROVE ContentInv'
  BY <1>26 DEF Drop
<1>27. ASSUME NEW t \in Threads, ArcDrop(t) PROVE ContentInv'
  BY <1>27 DEF ArcDrop
<1>28. CASE UNCHANGED vars
  BY <1>28 DEF vars, control
<1> QED
  BY <1>1, <1>2, <1>3, <1>4, <1>5, <1>6, <1>7, <1>8, <1>9, <1>10, <1>11, <1>12, <1>13,
     <1>14, <1>15, <1>16, <1>17, <1>18, <1>19, <1>20, <1>21, <1>22, <1>23, <1>24, <1>25,
     <1>26, <1>27, <1>28
     DEF Next, SenderStep, ReceiverStep, Calls, Terminated, ParkStep, WakeStep

\* Every step keeps what the answer Disconnected stands for.
LEMMA ToldStep ==
    TypeOK /\ ControlInv /\ IndexInv /\ ToldInv /\ [Next]_vars => ToldInv'
<1> SUFFICES ASSUME TypeOK, ControlInv, IndexInv, ToldInv, [Next]_vars PROVE ToldInv'
  OBVIOUS
<1> USE DEF TypeOK, ControlInv, IndexInv, ToldInv, Threads, Parkers, WakePcs, TrySendPcs,
            TryRecvPcs, DrainPcs, ring, parkers, sender, receiver, history, GoTo, Return
<1>1. ASSUME NEW o \in {"try_send", "send"}, SenderCall(o) PROVE ToldInv'
  BY <1>1 DEF SenderCall
<1>2. CASE TsDisconnected
  BY <1>2 DEF TsDisconnected
<1>3. CASE TsFull
  BY <1>3 DEF TsFull, IsFull, Blocked, Retry
<1>4. CASE TsWrite
  BY <1>4 DEF TsWrite
<1>5. CASE TsPublish
  BY <1>5 DEF TsPublish, WakeOrReturn
<1>6. ASSUME NEW o \in {"try_recv", "recv"}, ReceiverCall(o) PROVE ToldInv'
  BY <1>6 DEF ReceiverCall
<1>7. CASE TrCheck
  BY <1>7 DEF TrCheck
<1>8. CASE TrDisconnected
  BY <1>8 DEF TrDisconnected, Blocked, Retry
<1>9. CASE TrLast
  BY <1>9 DEF TrLast
<1>10. CASE Read
  BY <1>10 DEF Read
<1>11. CASE TrPublish
  BY <1>11 DEF TrPublish, WakeOrReturn
<1>12. CASE DrainCall
  BY <1>12 DEF DrainCall
<1>13. CASE DrCheck
  BY <1>13 DEF DrCheck
<1>14. CASE DrGuard
  BY <1>14 DEF DrGuard, PublishGuardDrop, WakeOrReturn
<1>15. CASE DrUnwind
  BY <1>15 DEF DrUnwind, PublishGuardDrop
<1>16. ASSUME NEW t \in Threads, PrepareSlot(t) PROVE ToldInv'
  BY <1>16 DEF PrepareSlot
<1>17. ASSUME NEW t \in Threads, PrepareFlag(t) PROVE ToldInv'
  BY <1>17 DEF PrepareFlag
<1>18. ASSUME NEW t \in Threads, Recheck(t) PROVE ToldInv'
  BY <1>18 DEF Recheck
<1>19. ASSUME NEW t \in Threads, RecheckDisconnected(t) PROVE ToldInv'
  BY <1>19 DEF RecheckDisconnected
<1>20. ASSUME NEW t \in Threads, Withdraw(t) PROVE ToldInv'
  BY <1>20 DEF Withdraw, Retry
<1>21. ASSUME NEW t \in Threads, Unpark(t) PROVE ToldInv'
  BY <1>21 DEF Unpark
<1>22. ASSUME NEW t \in Threads, SpuriousUnpark(t) PROVE ToldInv'
  BY <1>22 DEF SpuriousUnpark
<1>23. ASSUME NEW t \in Threads, WakeLoad(t) PROVE ToldInv'
  BY <1>23 DEF WakeLoad, NextWake
<1>24. ASSUME NEW t \in Threads, WakeStore(t) PROVE ToldInv'
  BY <1>24 DEF WakeStore
<1>25. ASSUME NEW t \in Threads, WakeTake(t) PROVE ToldInv'
  BY <1>25 DEF WakeTake, NextWake, Waiter
<1>26. ASSUME NEW t \in Threads, Drop(t) PROVE ToldInv'
  BY <1>26 DEF Drop
<1>27. ASSUME NEW t \in Threads, ArcDrop(t) PROVE ToldInv'
  BY <1>27 DEF ArcDrop
<1>28. CASE UNCHANGED vars
  BY <1>28 DEF vars, control
<1> QED
  BY <1>1, <1>2, <1>3, <1>4, <1>5, <1>6, <1>7, <1>8, <1>9, <1>10, <1>11, <1>12, <1>13,
     <1>14, <1>15, <1>16, <1>17, <1>18, <1>19, <1>20, <1>21, <1>22, <1>23, <1>24, <1>25,
     <1>26, <1>27, <1>28
     DEF Next, SenderStep, ReceiverStep, Calls, Terminated, ParkStep, WakeStep

\* No step loses the wake-up of a consumer on its way to park, or parked.
LEMMA ConsumerWakeStep ==
    TypeOK /\ ControlInv /\ IndexInv /\ WakeInv("C") /\ [Next]_vars => WakeInv("C")'
<1> SUFFICES ASSUME TypeOK, ControlInv, IndexInv, WakeInv("C"), [Next]_vars PROVE WakeInv("C")'
  OBVIOUS
<1> USE CapAssumption
<1> USE DEF TypeOK, ControlInv, IndexInv, WakeInv, Registered, WakePending, RingReady,
            Threads, Parkers, WakePcs, ParkPcs, TrySendPcs, TryRecvPcs, DrainPcs, InDrain,
            ring, parkers, sender, receiver, history, GoTo, Return, Own, Other
<1>1. ASSUME NEW o \in {"try_send", "send"}, SenderCall(o) PROVE WakeInv("C")'
  BY <1>1 DEF SenderCall
<1>2. CASE TsDisconnected
  BY <1>2 DEF TsDisconnected
<1>3. CASE TsFull
  BY <1>3 DEF TsFull, IsFull, Blocked, Retry
<1>4. CASE TsWrite
  BY <1>4 DEF TsWrite
<1>5. CASE TsPublish
  BY <1>5 DEF TsPublish, WakeOrReturn
<1>6. ASSUME NEW o \in {"try_recv", "recv"}, ReceiverCall(o) PROVE WakeInv("C")'
  BY <1>6 DEF ReceiverCall
<1>7. CASE TrCheck
  BY <1>7 DEF TrCheck
<1>8. CASE TrDisconnected
  BY <1>8 DEF TrDisconnected, Blocked, Retry
<1>9. CASE TrLast
  BY <1>9 DEF TrLast
<1>10. CASE Read
  BY <1>10 DEF Read
<1>11. CASE TrPublish
  BY <1>11 DEF TrPublish, WakeOrReturn
<1>12. CASE DrainCall
  BY <1>12 DEF DrainCall
<1>13. CASE DrCheck
  BY <1>13 DEF DrCheck
<1>14. CASE DrGuard
  BY <1>14 DEF DrGuard, PublishGuardDrop, WakeOrReturn
<1>15. CASE DrUnwind
  BY <1>15 DEF DrUnwind, PublishGuardDrop
<1>16. ASSUME NEW t \in Threads, PrepareSlot(t) PROVE WakeInv("C")'
  BY <1>16 DEF PrepareSlot
<1>17. ASSUME NEW t \in Threads, PrepareFlag(t) PROVE WakeInv("C")'
  BY <1>17 DEF PrepareFlag
<1>18. ASSUME NEW t \in Threads, Recheck(t) PROVE WakeInv("C")'
  BY <1>18 DEF Recheck
<1>19. ASSUME NEW t \in Threads, RecheckDisconnected(t) PROVE WakeInv("C")'
  BY <1>19 DEF RecheckDisconnected
<1>20. ASSUME NEW t \in Threads, Withdraw(t) PROVE WakeInv("C")'
  BY <1>20 DEF Withdraw, Retry
<1>21. ASSUME NEW t \in Threads, Unpark(t) PROVE WakeInv("C")'
  BY <1>21 DEF Unpark
<1>22. ASSUME NEW t \in Threads, SpuriousUnpark(t) PROVE WakeInv("C")'
  BY <1>22 DEF SpuriousUnpark
<1>23. ASSUME NEW t \in Threads, WakeLoad(t) PROVE WakeInv("C")'
  BY <1>23 DEF WakeLoad, NextWake
<1>24. ASSUME NEW t \in Threads, WakeStore(t) PROVE WakeInv("C")'
  BY <1>24 DEF WakeStore
<1>25. ASSUME NEW t \in Threads, WakeTake(t) PROVE WakeInv("C")'
  BY <1>25 DEF WakeTake, NextWake, Waiter
<1>26. ASSUME NEW t \in Threads, Drop(t) PROVE WakeInv("C")'
  BY <1>26 DEF Drop
<1>27. ASSUME NEW t \in Threads, ArcDrop(t) PROVE WakeInv("C")'
  BY <1>27 DEF ArcDrop
<1>28. CASE UNCHANGED vars
  BY <1>28 DEF vars, control
<1> QED
  BY <1>1, <1>2, <1>3, <1>4, <1>5, <1>6, <1>7, <1>8, <1>9, <1>10, <1>11, <1>12, <1>13,
     <1>14, <1>15, <1>16, <1>17, <1>18, <1>19, <1>20, <1>21, <1>22, <1>23, <1>24, <1>25,
     <1>26, <1>27, <1>28
     DEF Next, SenderStep, ReceiverStep, Calls, Terminated, ParkStep, WakeStep

\* The same for a producer, when callbacks do not panic.
LEMMA ProducerWakeStep ==
    ~CallbackPanics /\ TypeOK /\ ControlInv /\ IndexInv /\ WakeInv("P") /\ [Next]_vars => WakeInv("P")'
<1> SUFFICES ASSUME ~CallbackPanics, TypeOK, ControlInv, IndexInv, WakeInv("P"), [Next]_vars PROVE WakeInv("P")'
  OBVIOUS
<1> USE CapAssumption
<1> USE DEF TypeOK, ControlInv, IndexInv, WakeInv, Registered, WakePending, RingReady,
            Threads, Parkers, WakePcs, ParkPcs, TrySendPcs, TryRecvPcs, DrainPcs, InDrain,
            ring, parkers, sender, receiver, history, GoTo, Return, Own, Other
<1>1. ASSUME NEW o \in {"try_send", "send"}, SenderCall(o) PROVE WakeInv("P")'
  BY <1>1 DEF SenderCall
<1>2. CASE TsDisconnected
  BY <1>2 DEF TsDisconnected
<1>3. CASE TsFull
  BY <1>3 DEF TsFull, IsFull, Blocked, Retry
<1>4. CASE TsWrite
  BY <1>4 DEF TsWrite
<1>5. CASE TsPublish
  BY <1>5 DEF TsPublish, WakeOrReturn
<1>6. ASSUME NEW o \in {"try_recv", "recv"}, ReceiverCall(o) PROVE WakeInv("P")'
  BY <1>6 DEF ReceiverCall
<1>7. CASE TrCheck
  BY <1>7 DEF TrCheck
<1>8. CASE TrDisconnected
  BY <1>8 DEF TrDisconnected, Blocked, Retry
<1>9. CASE TrLast
  BY <1>9 DEF TrLast
<1>10. CASE Read
  BY <1>10 DEF Read
<1>11. CASE TrPublish
  BY <1>11 DEF TrPublish, WakeOrReturn
<1>12. CASE DrainCall
  BY <1>12 DEF DrainCall
<1>13. CASE DrCheck
  BY <1>13 DEF DrCheck
<1>14. CASE DrGuard
  BY <1>14 DEF DrGuard, PublishGuardDrop, WakeOrReturn
<1>15. CASE DrUnwind
  BY <1>15 DEF DrUnwind, PublishGuardDrop
<1>16. ASSUME NEW t \in Threads, PrepareSlot(t) PROVE WakeInv("P")'
  BY <1>16 DEF PrepareSlot
<1>17. ASSUME NEW t \in Threads, PrepareFlag(t) PROVE WakeInv("P")'
  BY <1>17 DEF PrepareFlag
<1>18. ASSUME NEW t \in Threads, Recheck(t) PROVE WakeInv("P")'
  BY <1>18 DEF Recheck
<1>19. ASSUME NEW t \in Threads, RecheckDisconnected(t) PROVE WakeInv("P")'
  BY <1>19 DEF RecheckDisconnected
<1>20. ASSUME NEW t \in Threads, Withdraw(t) PROVE WakeInv("P")'
  BY <1>20 DEF Withdraw, Retry
<1>21. ASSUME NEW t \in Threads, Unpark(t) PROVE WakeInv("P")'
  BY <1>21 DEF Unpark
<1>22. ASSUME NEW t \in Threads, SpuriousUnpark(t) PROVE WakeInv("P")'
  BY <1>22 DEF SpuriousUnpark
<1>23. ASSUME NEW t \in Threads, WakeLoad(t) PROVE WakeInv("P")'
  BY <1>23 DEF WakeLoad, NextWake
<1>24. ASSUME NEW t \in Threads, WakeStore(t) PROVE WakeInv("P")'
  BY <1>24 DEF WakeStore
<1>25. ASSUME NEW t \in Threads, WakeTake(t) PROVE WakeInv("P")'
  BY <1>25 DEF WakeTake, NextWake, Waiter
<1>26. ASSUME NEW t \in Threads, Drop(t) PROVE WakeInv("P")'
  BY <1>26 DEF Drop
<1>27. ASSUME NEW t \in Threads, ArcDrop(t) PROVE WakeInv("P")'
  BY <1>27 DEF ArcDrop
<1>28. CASE UNCHANGED vars
  BY <1>28 DEF vars, control
<1> QED
  BY <1>1, <1>2, <1>3, <1>4, <1>5, <1>6, <1>7, <1>8, <1>9, <1>10, <1>11, <1>12, <1>13,
     <1>14, <1>15, <1>16, <1>17, <1>18, <1>19, <1>20, <1>21, <1>22, <1>23, <1>24, <1>25,
     <1>26, <1>27, <1>28
     DEF Next, SenderStep, ReceiverStep, Calls, Terminated, ParkStep, WakeStep

\* Shared::drop, run by the last handle, drops what was not moved out.
LEMMA FreedStep ==
    TypeOK /\ ControlInv /\ IndexInv /\ ContentInv /\ FreedInv /\ [Next]_vars => FreedInv'
<1> SUFFICES ASSUME TypeOK, ControlInv, IndexInv, ContentInv, FreedInv, [Next]_vars
             PROVE  FreedInv'
  OBVIOUS
<1>1. ASSUME NEW t \in Threads, ArcDrop(t) PROVE FreedInv'
  <2>1. CASE refs = {t}
    <3>1. \A u \in Threads : u # t => pc[u] = "gone"
      BY <2>1 DEF ControlInv, Threads
    <3>2. pc["C"] \in {"arc", "gone"}
      BY <1>1, <3>1 DEF ArcDrop, Threads
    <3>3. head = chead
      BY <3>2 DEF ControlInv, IndexInv, InDrain, Threads, DrainPcs
    <3>4. dropped' = [i \in 1..(tail - chead) |-> buf[Slot(chead + i - 1)]]
      BY <1>1, <2>1, <3>3 DEF ArcDrop, SharedDrop
    <3>5. ASSUME NEW i \in 1..(tail - chead)
          PROVE  buf[Slot(chead + i - 1)] = sent[chead + i]
      <4>1. chead + i - 1 \in chead..tail-1 /\ (chead + i - 1) + 1 = chead + i
        BY DEF TypeOK
      <4> QED
        BY <4>1 DEF ContentInv
    <3>6. UNCHANGED <<tail, chead, sent>>
      BY <1>1 DEF ArcDrop, ring, receiver
    <3> QED
      BY <3>4, <3>5, <3>6 DEF FreedInv
  <2>2. CASE refs # {t}
    <3>1. t \in refs
      BY <1>1 DEF ArcDrop, ControlInv
    <3>2. refs' # {}
      BY <1>1, <2>2, <3>1 DEF ArcDrop
    <3> QED
      BY <3>2 DEF FreedInv
  <2> QED
    BY <2>1, <2>2
<1>2. CASE ~\E t \in Threads : ArcDrop(t)
  <2>1. refs' = refs /\ dropped' = dropped
    BY <1>2 DEF Next, SenderStep, ReceiverStep, Calls, Terminated, ParkStep, WakeStep,
      SenderCall, TsDisconnected, TsFull, TsWrite, TsPublish, ReceiverCall, TrCheck,
      TrDisconnected, TrLast, Read, TrPublish, DrainCall, DrCheck, DrGuard, DrUnwind,
      PrepareSlot, PrepareFlag, Recheck, RecheckDisconnected, Withdraw, Unpark,
      SpuriousUnpark, WakeLoad, WakeStore, WakeTake, Drop, history, vars, Threads
  <2>2. CASE refs = {}
    <3>1. pc["P"] = "gone" /\ pc["C"] = "gone"
      BY <2>2 DEF ControlInv, Threads
    <3>2. UNCHANGED <<tail, chead, sent>>
      BY <1>2, <3>1 DEF Next, SenderStep, ReceiverStep, Calls, Terminated, ParkStep, WakeStep,
        SenderCall, TsDisconnected, TsFull, TsWrite, TsPublish, ReceiverCall, TrCheck,
        TrDisconnected, TrLast, Read, TrPublish, DrainCall, DrCheck, DrGuard, DrUnwind,
        PrepareSlot, PrepareFlag, Recheck, RecheckDisconnected, Withdraw, Unpark,
        SpuriousUnpark, WakeLoad, WakeStore, WakeTake, Drop, history, ring, receiver, vars,
        Threads
    <3> QED
      BY <2>1, <2>2, <3>2 DEF FreedInv
  <2>3. CASE refs # {}
    BY <2>1, <2>3 DEF FreedInv
  <2> QED
    BY <2>2, <2>3
<1> QED
  BY <1>1, <1>2

-----------------------------------------------------------------------------
(* Invariance.                                                             *)

\* A fresh channel satisfies the inductive invariant.
LEMMA IndInvInit == Init => IndInv
<1> SUFFICES ASSUME Init PROVE IndInv
  OBVIOUS
<1> USE CapAssumption, ConstAssumption
<1>1. TypeOK
  <2>1. buf \in [0..Cap-1 -> 0..MaxOffers]
    BY DEF Init
  <2>2. /\ sent \in Seq(0..MaxOffers) /\ delivered \in Seq(0..MaxOffers)
        /\ dropped \in Seq(0..MaxOffers)
    BY EmptySeq DEF Init
  <2>3. refs \subseteq Threads /\ told \subseteq Threads
    BY DEF Init
  <2>4. /\ parked \in [Parkers -> BOOLEAN] /\ slot \in [Parkers -> BOOLEAN]
        /\ token \in [Threads -> BOOLEAN] /\ disconnected \in BOOLEAN
    BY DEF Init
  <2>5. /\ pc \in [Threads -> SenderPcs \cup ReceiverPcs]
        /\ pc["P"] \in SenderPcs /\ pc["C"] \in ReceiverPcs
        /\ op \in [Threads -> {"none", "try_send", "send", "try_recv", "recv", "drain", "drop"}]
        /\ waking \in [Threads -> Parkers \cup {"none"}]
    BY DEF Init, Threads, SenderPcs, ReceiverPcs, CommonPcs
  <2>6. /\ strategy \in Strategies
        /\ tail \in Nat /\ head \in Nat
        /\ ptail \in Nat /\ cachedHead \in Nat /\ offered \in 0..MaxOffers
        /\ chead \in Nat /\ cachedTail \in Nat /\ start \in Nat /\ max \in Nat
    BY DEF Init
  <2> QED
    BY <2>1, <2>2, <2>3, <2>4, <2>5, <2>6 DEF TypeOK
<1>2. ControlInv
  BY DEF Init, ControlInv, Threads, WakePcs, ParkPcs, TrySendPcs, TryRecvPcs, DrainPcs
<1>3. IndexInv /\ ContentInv
  BY DEF Init, IndexInv, ContentInv, InDrain, Threads, DrainPcs
<1>4. ToldInv /\ FreedInv /\ WakeInv("C") /\ WakeInv("P")
  BY DEF Init, ToldInv, FreedInv, WakeInv, Threads
<1> QED
  BY <1>1, <1>2, <1>3, <1>4 DEF IndInv

\* Every step of the ring keeps the inductive invariant.
LEMMA IndInvStep == IndInv /\ [Next]_vars => IndInv'
<1> SUFFICES ASSUME IndInv, [Next]_vars PROVE IndInv'
  OBVIOUS
<1> USE DEF IndInv
<1>1. TypeOK' /\ ControlInv'
  BY TypeStep, ControlStep
<1>2. IndexInv' /\ ContentInv'
  BY IndexStep, ContentStep
<1>3. ToldInv' /\ FreedInv'
  BY ToldStep, FreedStep
<1>4. WakeInv("C")'
  BY ConsumerWakeStep
<1>5. ~CallbackPanics => WakeInv("P")'
  BY ProducerWakeStep
<1> QED
  BY <1>1, <1>2, <1>3, <1>4, <1>5

\* The inductive invariant holds in every reachable state of the ring.
THEOREM Invariance == Spec => []IndInv
BY IndInvInit, IndInvStep, PTL DEF Spec

\* Every variable of the ring and of its parkers keeps its type.
THEOREM TypeCorrect == Spec => []TypeOK
<1>1. IndInv => TypeOK
  BY DEF IndInv
<1> QED
  BY <1>1, Invariance, PTL

\* The receiver gets what the sender published, in order, and what is still in
\* the ring is intact, for every capacity.
THEOREM FifoCorrect == Spec => []Fifo
<1>1. IndInv => Fifo
  <2> SUFFICES ASSUME IndInv PROVE Fifo
    OBVIOUS
  <2>1. /\ Len(delivered) = chead /\ Len(sent) = tail /\ chead \in Nat /\ tail \in Nat
        /\ chead <= tail /\ tail - chead <= Cap /\ Cap \in Nat
    BY CapAssumption DEF IndInv, TypeOK, IndexInv
  <2>2. \A i \in 1..chead : delivered[i] = sent[i]
    BY DEF IndInv, ContentInv
  <2>3. ASSUME NEW i \in chead+1..tail PROVE sent[i] = buf[Slot(i - 1)]
    <3>1. i - 1 \in chead..tail-1 /\ (i - 1) + 1 = i
      BY <2>1
    <3> QED
      BY <3>1 DEF IndInv, ContentInv
  <2> QED
    BY <2>1, <2>2, <2>3 DEF Fifo
<1> QED
  BY <1>1, Invariance, PTL

\* Sender and receiver never access one slot at the same time.
THEOREM NoDataRaceCorrect == Spec => []NoDataRace
<1>1. IndInv => NoDataRace
  <2> SUFFICES ASSUME IndInv, pc["P"] = "write", pc["C"] = "read" PROVE Slot(ptail) # Slot(chead)
    BY DEF NoDataRace
  <2>1. chead \in Nat /\ ptail \in Nat /\ chead < ptail /\ ptail < chead + Cap
    BY CapAssumption DEF IndInv, TypeOK, IndexInv
  <2> QED
    BY <2>1, SlotDistinct
<1> QED
  BY <1>1, Invariance, PTL

\* When the ring is destroyed every message was moved out or is dropped, once.
THEOREM ExactlyOnceCorrect == Spec => []ExactlyOnce
<1>1. IndInv => ExactlyOnce
  <2> SUFFICES ASSUME IndInv, refs = {} PROVE delivered \o dropped = sent
    BY DEF ExactlyOnce
  <2>1. /\ delivered \in Seq(0..MaxOffers) /\ dropped \in Seq(0..MaxOffers)
        /\ sent \in Seq(0..MaxOffers)
    BY DEF IndInv, TypeOK
  <2>2. /\ Len(delivered) = chead /\ Len(sent) = tail /\ chead \in Nat /\ tail \in Nat
        /\ chead <= tail
    BY DEF IndInv, TypeOK, IndexInv
  <2>3. dropped = [i \in 1..(tail - chead) |-> sent[chead + i]]
    BY DEF IndInv, FreedInv
  <2>4. Len(dropped) = tail - chead
    <3>1. DOMAIN dropped = 1..Len(dropped) /\ Len(dropped) \in Nat
      BY ONLY <2>1, LenProperties
    <3>2. DOMAIN dropped = 1..(tail - chead)
      BY <2>3
    <3> QED
      BY ONLY <2>2, <3>1, <3>2
  <2>5. \A i \in 1..chead : delivered[i] = sent[i]
    BY DEF IndInv, ContentInv
  <2>6. /\ delivered \o dropped \in Seq(0..MaxOffers)
        /\ Len(delivered \o dropped) = Len(delivered) + Len(dropped)
        /\ \A i \in 1..Len(delivered) + Len(dropped) :
              (delivered \o dropped)[i] = IF i <= Len(delivered) THEN delivered[i]
                                          ELSE dropped[i - Len(delivered)]
    BY ONLY <2>1, ConcatProperties
  <2>7. Len(delivered \o dropped) = Len(sent)
    BY ONLY <2>2, <2>4, <2>6
  <2>8. ASSUME NEW i \in 1..Len(delivered \o dropped)
        PROVE  (delivered \o dropped)[i] = sent[i]
    <3>1. i \in 1..Len(delivered) + Len(dropped) /\ i \in 1..tail
      BY ONLY <2>2, <2>7, <2>6, i \in 1..Len(delivered \o dropped)
    <3>2. CASE i <= chead
      BY ONLY <2>2, <2>5, <2>6, <3>1, <3>2
    <3>3. CASE ~(i <= chead)
      <4>1. i - chead \in 1..(tail - chead) /\ chead + (i - chead) = i
        BY ONLY <2>2, <3>1, <3>3
      <4>2. dropped[i - chead] = sent[i]
        BY ONLY <2>3, <4>1
      <4> QED
        BY ONLY <2>2, <2>6, <3>1, <3>3, <4>2
    <3> QED
      BY ONLY <3>2, <3>3
  <2> QED
    BY ONLY <2>1, <2>6, <2>7, <2>8, SeqEqual
<1> QED
  BY <1>1, Invariance, PTL

\* Disconnected means that the sender is gone and nothing is left.
THEOREM DisconnectedCorrect == Spec => []DisconnectedMeansDrained
<1>1. IndInv => DisconnectedMeansDrained
  <2> SUFFICES ASSUME IndInv, "C" \in told PROVE op["P"] = "drop" /\ delivered = sent
    BY DEF DisconnectedMeansDrained
  <2>1. op["P"] = "drop" /\ chead = tail
    BY DEF IndInv, ToldInv
  <2>2. /\ delivered \in Seq(0..MaxOffers) /\ sent \in Seq(0..MaxOffers)
        /\ Len(delivered) = Len(sent)
        /\ \A i \in 1..Len(delivered) : delivered[i] = sent[i]
    BY <2>1 DEF IndInv, TypeOK, IndexInv, ContentInv
  <2>3. delivered = sent
    BY ONLY <2>2, SeqEqual
  <2> QED
    BY <2>1, <2>3
<1> QED
  BY <1>1, Invariance, PTL

\* A parked consumer with something to receive is always about to be woken.
THEOREM ConsumerWakeCorrect == Spec => []ConsumerNeverMissesWake
<1>1. IndInv => ConsumerNeverMissesWake
  BY DEF IndInv, WakeInv, ConsumerNeverMissesWake
<1> QED
  BY <1>1, Invariance, PTL

\* So is a parked producer with room to send, if callbacks do not panic.
THEOREM ProducerWakeCorrect ==
    ASSUME ~CallbackPanics
    PROVE  Spec => []ProducerNeverMissesWake
<1>1. IndInv => ProducerNeverMissesWake
  BY DEF IndInv, WakeInv, ProducerNeverMissesWake
<1> QED
  BY <1>1, Invariance, PTL

\* If callbacks do not panic, the two sides are never asleep together, nor one
\* asleep after the other has gone.  An empty ring has room, so that one of two
\* parked threads has something to go on with and its token is on the way.
THEOREM NoMutualSleepCorrect ==
    ASSUME ~CallbackPanics
    PROVE  Spec => []NoMutualSleep
<1>1. IndInv => NoMutualSleep
  <2> SUFFICES ASSUME IndInv, NEW t \in Threads, Asleep(t)
               PROVE  ~Asleep(Other(t)) /\ pc[Other(t)] # "gone"
    BY DEF NoMutualSleep
  <2>0. TypeOK /\ ControlInv /\ IndexInv /\ WakeInv("C") /\ WakeInv("P")
    BY DEF IndInv
  <2>1. WakeInv(t) /\ Other(t) \in Threads /\ pc[t] = "park" /\ ~token[t]
    BY <2>0 DEF Threads, Other, Asleep
  <2>2. ASSUME pc[Other(t)] \in {"park", "gone"} PROVE ~(RingReady(t) \/ disconnected)
    <3>1. waking[Other(t)] = "none"
      BY <2>0, <2>1, <2>2 DEF ControlInv, WakePcs
    <3>2. ~WakePending(t)
      BY <2>1, <3>1 DEF WakePending, Own
    <3> QED
      BY <2>1, <3>2 DEF WakeInv
  <2>3. pc[Other(t)] # "gone"
    <3>1. pc[Other(t)] = "gone" => disconnected
      BY <2>0, <2>1 DEF ControlInv, Threads
    <3> QED
      BY <2>2, <3>1
  <2>4. ASSUME Asleep(Other(t)) PROVE FALSE
    <3>1. pc["P"] = "park" /\ pc["C"] = "park" /\ ~token["P"] /\ ~token["C"]
      BY <2>1, <2>4 DEF Asleep, Other, Threads
    <3>2. waking["P"] = "none" /\ waking["C"] = "none"
      BY <2>0, <3>1 DEF ControlInv, WakePcs, Threads
    <3>3. ~WakePending("P") /\ ~WakePending("C")
      BY <3>1, <3>2 DEF WakePending, Own, Other
    <3>4. ~RingReady("P") /\ ~RingReady("C")
      BY <2>0, <3>1, <3>3 DEF WakeInv
    <3>5. head = chead
      BY <2>0, <3>1 DEF IndexInv, InDrain, DrainPcs
    <3> QED
      BY <2>0, <3>4, <3>5, CapAssumption DEF RingReady, IndexInv, TypeOK
  <2> QED
    BY <2>3, <2>4
<1> QED
  BY <1>1, Invariance, PTL

\* The cached indices change no decision.
THEOREM CachesDecideTrulyCorrect == Spec => CachesDecideTruly
<1> DEFINE Truly ==
       /\ pc["P"] = "ts_full" /\ pc'["P"] # "ts_full" =>
            (pc'["P"] = "write" <=> tail - head < Cap)
       /\ pc["C"] = "tr_check" /\ pc'["C"] # "tr_check" =>
            (pc'["C"] = "read" <=> tail # chead)
       /\ pc["C"] = "dr_check" /\ pc'["C"] # "dr_check" =>
            (pc'["C"] = "read" <=> chead - start < max /\ tail # chead)
<1>1. IndInv /\ [Next]_vars => [Truly]_vars
  <2> SUFFICES ASSUME IndInv, Next PROVE Truly
    OBVIOUS
  <2>0. /\ TypeOK /\ IndexInv /\ Cap \in Nat \ {0}
        /\ pc \in [Threads -> SenderPcs \cup ReceiverPcs]
    BY CapAssumption DEF IndInv, TypeOK
  <2>1. CASE TsFull
    <3>1. pc'["C"] = pc["C"] /\ pc'["P"] \in {"write", "idle", "ts_disc", "prepare_slot"}
      BY <2>0, <2>1 DEF TsFull, Blocked, GoTo, Return, Retry, Threads
    <3>2. pc'["P"] = "write" <=> ~IsFull(cachedHead) \/ ~IsFull(head)
      BY <2>0, <2>1 DEF TsFull, Blocked, GoTo, Return, Retry, Threads
    <3>3. ~IsFull(cachedHead) \/ ~IsFull(head) <=> tail - head < Cap
      BY <2>0 DEF IsFull, IndexInv, TypeOK
    <3> QED
      BY <3>1, <3>2, <3>3
  <2>2. CASE TrCheck
    <3>1. /\ pc'["P"] = pc["P"] /\ pc["C"] = "tr_check"
          /\ pc'["C"] = "read" <=> chead # cachedTail \/ chead # tail
      BY <2>0, <2>2 DEF TrCheck, GoTo, Threads
    <3>2. chead # cachedTail \/ chead # tail <=> tail # chead
      BY <2>0 DEF IndexInv, TypeOK
    <3> QED
      BY <3>1, <3>2
  <2>3. CASE DrCheck
    <3>1. /\ pc'["P"] = pc["P"] /\ pc["C"] = "dr_check"
          /\ pc'["C"] = "read" <=> chead - start < max /\ (chead # cachedTail \/ chead # tail)
      <4>1. chead - start >= max <=> ~(chead - start < max)
        BY <2>0 DEF TypeOK
      <4> QED
        BY <2>0, <2>3, <4>1 DEF DrCheck, GoTo, Threads
    <3>2. chead # cachedTail \/ chead # tail <=> tail # chead
      BY <2>0 DEF IndexInv, TypeOK
    <3> QED
      BY <3>1, <3>2
  <2>4. ASSUME ~TsFull, ~TrCheck, ~DrCheck
        PROVE  /\ pc["P"] = "ts_full" => pc'["P"] = "ts_full"
               /\ pc["C"] \in {"tr_check", "dr_check"} => pc'["C"] = pc["C"]
    <3> USE <2>0 DEF Threads, GoTo, Return, WakeOrReturn, NextWake
    <3>1. CASE SenderStep
      BY <2>4, <3>1 DEF SenderStep, TsDisconnected, TsWrite, TsPublish, ParkStep, PrepareSlot,
         PrepareFlag, Recheck, RecheckDisconnected, Withdraw, Unpark, WakeStep, WakeLoad,
         WakeStore, WakeTake, ArcDrop
    <3>2. CASE ReceiverStep
      BY <2>4, <3>2 DEF ReceiverStep, TrDisconnected, TrLast, Read, TrPublish, DrGuard, DrUnwind,
         Blocked, ParkStep, PrepareSlot, PrepareFlag, Recheck, RecheckDisconnected, Withdraw,
         Unpark, WakeStep, WakeLoad, WakeStore, WakeTake, ArcDrop
    <3>3. CASE Calls
      BY <3>3 DEF Calls, SenderCall, ReceiverCall, DrainCall, Drop
    <3>4. CASE \E t \in Threads : SpuriousUnpark(t)
      BY <3>4 DEF SpuriousUnpark
    <3>5. CASE Terminated
      BY <3>5 DEF Terminated, vars, control
    <3> QED
      BY <3>1, <3>2, <3>3, <3>4, <3>5 DEF Next
  <2> QED
    BY <2>1, <2>2, <2>3, <2>4
<1> QED
  BY <1>1, Invariance, PTL DEF Spec, CachesDecideTruly

-----------------------------------------------------------------------------
(* The ring implements the abstract channel.                               *)

\* A step that publishes, moves, drops, answers and frees nothing is a stutter.
LEMMA ChannelStutter ==
    ASSUME UNCHANGED <<sent, delivered, dropped, told, refs>>,
           op'["P"] = "drop" <=> op["P"] = "drop",
           op'["C"] = "drop" <=> op["C"] = "drop"
    PROVE  UNCHANGED Chan!vars
BY DEF Chan!vars

\* Every step of the ring is a step of the channel or a stutter.
LEMMA ChannelStep == IndInv /\ [Next]_vars => [Chan!Next]_(Chan!vars)
<1> SUFFICES ASSUME IndInv, [Next]_vars PROVE Chan!Next \/ UNCHANGED Chan!vars
  OBVIOUS
<1> USE DEF ring, parkers, sender, receiver, history, GoTo, Return
<1>t. TypeOK /\ ControlInv /\ IndexInv /\ ContentInv /\ ToldInv
  BY DEF IndInv
<1>o. op \in [Threads -> {"none", "try_send", "send", "try_recv", "recv", "drain", "drop"}]
  BY <1>t DEF TypeOK
<1>1. ASSUME NEW o \in {"try_send", "send"}, SenderCall(o)
      PROVE  UNCHANGED Chan!vars
  BY <1>1, <1>t, <1>o, ChannelStutter DEF SenderCall, ControlInv, Threads
<1>2. CASE TsDisconnected
  <2>1. CASE disconnected
    <3>1. op["P"] # "drop" /\ op["C"] = "drop" /\ op'["P"] # "drop" /\ op'["C"] = "drop"
      BY <1>2, <2>1, <1>t, <1>o DEF TsDisconnected, ControlInv, TrySendPcs, Threads
    <3>2. told' = told \cup {"P"} /\ UNCHANGED <<sent, delivered, dropped, refs>>
      BY <1>2, <2>1 DEF TsDisconnected
    <3> QED
      BY <3>1, <3>2 DEF Chan!TellSender, Chan!Next
  <2>2. CASE ~disconnected
    BY <1>2, <2>2, ChannelStutter DEF TsDisconnected
  <2> QED
    BY <2>1, <2>2
<1>3. CASE TsFull
  <2>1. UNCHANGED <<sent, delivered, dropped, told, refs>>
    BY <1>3 DEF TsFull
  <2>2. op'["C"] = op["C"] /\ op["P"] # "drop" /\ op'["P"] # "drop"
    BY <1>3, <1>t, <1>o DEF TsFull, Blocked, ControlInv, TrySendPcs, Threads
  <2> QED
    BY <2>1, <2>2, ChannelStutter
<1>4. CASE TsWrite
  BY <1>4, ChannelStutter DEF TsWrite
<1>5. CASE TsPublish
  <2>1. op["P"] # "drop" /\ op'["P"] # "drop" /\ op'["C"] = op["C"]
    BY <1>5, <1>t, <1>o DEF TsPublish, WakeOrReturn, ControlInv, TrySendPcs, Threads
  <2>2. /\ sent' = Append(sent, offered) /\ offered \in 1..MaxOffers
        /\ UNCHANGED <<delivered, dropped, told, refs>>
    BY <1>5, <1>t DEF TsPublish, ContentInv, ControlInv, TrySendPcs
  <2>3. Len(sent) - Len(delivered) < Cap
    BY <1>5, <1>t, CapAssumption DEF TsPublish, IndexInv, TypeOK
  <2> QED
    BY <2>1, <2>2, <2>3 DEF Chan!Send, Chan!Pending, Chan!Next
<1>6. ASSUME NEW o \in {"try_recv", "recv"}, ReceiverCall(o)
      PROVE  UNCHANGED Chan!vars
  BY <1>6, <1>t, <1>o, ChannelStutter DEF ReceiverCall, ControlInv, Threads
<1>7. CASE TrCheck
  BY <1>7, ChannelStutter DEF TrCheck
<1>8. CASE TrDisconnected
  <2>1. UNCHANGED <<sent, delivered, dropped, told, refs>>
    BY <1>8 DEF TrDisconnected
  <2>2. op'["P"] = op["P"] /\ op["C"] # "drop" /\ op'["C"] # "drop"
    BY <1>8, <1>t, <1>o DEF TrDisconnected, Blocked, ControlInv, TryRecvPcs, Threads
  <2> QED
    BY <2>1, <2>2, ChannelStutter
<1>9. CASE TrLast
  <2>1. CASE tail = chead
    <3>1. op["P"] = "drop" /\ op["C"] # "drop" /\ op'["P"] = "drop" /\ op'["C"] # "drop"
      BY <1>9, <2>1, <1>t, <1>o DEF TrLast, ControlInv, ToldInv, TryRecvPcs, Threads
    <3>2. told' = told \cup {"C"} /\ UNCHANGED <<sent, delivered, dropped, refs>>
      BY <1>9, <2>1 DEF TrLast
    <3>3. Len(sent) - Len(delivered) = 0
      <4>1. Len(sent) = tail /\ Len(delivered) = chead
        BY <1>t DEF IndexInv
      <4>2. tail \in Nat
        BY <1>t DEF TypeOK
      <4> QED
        BY <2>1, <4>1, <4>2
    <3> QED
      BY <3>1, <3>2, <3>3 DEF Chan!TellReceiver, Chan!Pending, Chan!Next
  <2>2. CASE tail # chead
    BY <1>9, <2>2, ChannelStutter DEF TrLast
  <2> QED
    BY <2>1, <2>2
<1>10. CASE Read
  <2>1. op["C"] # "drop" /\ op' = op
    BY <1>10, <1>t DEF Read, ControlInv
  <2>2. /\ delivered' = Append(delivered, buf[Slot(chead)])
        /\ UNCHANGED <<sent, dropped, told, refs>>
    BY <1>10 DEF Read
  <2>3. chead \in chead..tail-1 /\ chead = Len(delivered) /\ Len(sent) - Len(delivered) > 0
    BY <1>10, <1>t DEF Read, IndexInv, TypeOK
  <2>4. buf[Slot(chead)] = sent[Len(delivered) + 1]
    BY <2>3, <1>t DEF ContentInv
  <2> QED
    BY <2>1, <2>2, <2>3, <2>4 DEF Chan!Recv, Chan!Pending, Chan!Next
<1>11. CASE TrPublish
  BY <1>11, <1>t, <1>o, ChannelStutter
     DEF TrPublish, WakeOrReturn, ControlInv, TryRecvPcs, Threads
<1>12. CASE DrainCall
  BY <1>12, <1>t, <1>o, ChannelStutter DEF DrainCall, ControlInv, Threads
<1>13. CASE DrCheck
  BY <1>13, ChannelStutter DEF DrCheck
<1>14. CASE DrGuard
  <2>1. UNCHANGED <<sent, delivered, dropped, told, refs>>
    BY <1>14 DEF DrGuard
  <2>2. op'["P"] = op["P"] /\ op["C"] # "drop" /\ op'["C"] # "drop"
    BY <1>14, <1>t, <1>o DEF DrGuard, WakeOrReturn, ControlInv, DrainPcs, Threads
  <2> QED
    BY <2>1, <2>2, ChannelStutter
<1>15. CASE DrUnwind
  BY <1>15, <1>t, <1>o, ChannelStutter DEF DrUnwind, ControlInv, DrainPcs, Threads
<1>16. ASSUME NEW t \in Threads, ParkStep(t) \/ SpuriousUnpark(t)
       PROVE  UNCHANGED Chan!vars
  BY <1>16, ChannelStutter
     DEF ParkStep, PrepareSlot, PrepareFlag, Recheck, RecheckDisconnected, Withdraw, Unpark,
         SpuriousUnpark
<1>17. ASSUME NEW t \in Threads, WakeStep(t) PROVE UNCHANGED Chan!vars
  <2>1. UNCHANGED <<sent, delivered, dropped, told, refs>>
    BY <1>17 DEF WakeStep, WakeLoad, WakeStore, WakeTake
  <2>2. op' = op \/ (op[t] # "drop" /\ op' = [op EXCEPT ![t] = "none"])
    BY <1>17 DEF WakeStep, WakeLoad, WakeStore, WakeTake, NextWake
  <2> QED
    BY <2>1, <2>2, <1>o, ChannelStutter DEF Threads
<1>18. ASSUME NEW t \in Threads, Drop(t) PROVE Chan!Next
  <2>1. op[t] # "drop" /\ op' = [op EXCEPT ![t] = "drop"]
    BY <1>18, <1>t DEF Drop, ControlInv
  <2>2. UNCHANGED <<sent, delivered, dropped, told, refs>>
    BY <1>18 DEF Drop
  <2>3. CASE t = "P"
    <3>1. Chan!DropSide("tx")
      BY <2>1, <2>2, <2>3, <1>o DEF Chan!DropSide, Threads
    <3> QED
      BY <3>1 DEF Chan!Next
  <2>4. CASE t = "C"
    <3>1. Chan!DropSide("rx")
      BY <2>1, <2>2, <2>4, <1>o DEF Chan!DropSide, Threads
    <3> QED
      BY <3>1 DEF Chan!Next
  <2> QED
    BY <2>3, <2>4 DEF Threads
<1>19. ASSUME NEW t \in Threads, ArcDrop(t) PROVE Chan!Next \/ UNCHANGED Chan!vars
  <2>1. t \in refs /\ op' = op /\ UNCHANGED <<sent, delivered, told>>
    BY <1>19, <1>t DEF ArcDrop, ControlInv
  <2>2. CASE refs = {t}
    <3>1. op["P"] = "drop" /\ op["C"] = "drop"
      BY <1>19, <2>2, <1>t DEF ArcDrop, ControlInv, Threads
    <3>2. refs # {} /\ refs' = {}
      BY <1>19, <2>2 DEF ArcDrop
    <3>3. FreedInv'
      BY FreedStep, <1>t DEF IndInv
    <3>4. dropped' = [i \in 1..(Len(sent) - Len(delivered)) |-> sent[Len(delivered) + i]]
      <4>1. tail' = tail /\ chead' = chead /\ Len(sent) = tail /\ Len(delivered) = chead
        BY <1>19, <1>t DEF ArcDrop, IndexInv
      <4> QED
        BY <3>2, <3>3, <4>1, <2>1 DEF FreedInv
    <3> QED
      BY <2>1, <3>1, <3>2, <3>4 DEF Chan!Free, Chan!Pending, Chan!Next
  <2>3. CASE refs # {t}
    <3>1. refs # {} /\ refs' # {} /\ dropped' = dropped
      BY <1>19, <2>1, <2>3 DEF ArcDrop
    <3> QED
      BY <2>1, <3>1 DEF Chan!vars
  <2> QED
    BY <2>2, <2>3
<1>20. CASE UNCHANGED vars
  BY <1>20, ChannelStutter DEF vars, control
<1> QED
  BY <1>1, <1>2, <1>3, <1>4, <1>5, <1>6, <1>7, <1>8, <1>9, <1>10, <1>11, <1>12, <1>13,
     <1>14, <1>15, <1>16, <1>17, <1>18, <1>19, <1>20
     DEF Next, SenderStep, ReceiverStep, Calls, Terminated, Threads

\* The ring implements the abstract bounded channel.
THEOREM Refinement == Spec => ImplementsChannel
<1>1. Init => Chan!Init
  BY DEF Init, Chan!Init, Threads
<1> QED
  BY <1>1, ChannelStep, Invariance, PTL DEF Spec, ImplementsChannel, Chan!Spec

-----------------------------------------------------------------------------
(* The ring implements Ring, the contract Sharded builds on.               *)

\* The labels of Ring, label by label.
Labels ==
    /\ pc["P"] \in ParkPcs \cup {"ts_disc"} => RingSpc = "ts_disc"
    /\ pc["P"] \in {"ts_full", "write", "publish"} => RingSpc = "ts_send"
    /\ pc["P"] \in WakePcs \cup {"idle", "arc", "gone"} => RingSpc = "idle"
    /\ pc["C"] \in ParkPcs \cup {"tr_check", "tr_publish"} => RingRpc = "tr_tail"
    /\ pc["C"] \in {"tr_disc", "tr_last", "dr_guard", "dr_unwind"} => RingRpc = pc["C"]
    /\ pc["C"] = "read" => RingRpc = IF op["C"] = "drain" THEN "dr_take" ELSE "tr_tail"
    /\ pc["C"] = "dr_check" => RingRpc = "dr_take"
    /\ pc["C"] \in WakePcs \cup {"idle", "arc", "gone"} => RingRpc = "idle"
    /\ pc["C"] = "tr_publish" => RingChead = chead - 1
    /\ pc["C"] # "tr_publish" => RingChead = chead
    /\ "tx" \in RingLive <=> op["P"] # "drop"
    /\ "rx" \in RingLive <=> op["C"] # "drop"
    /\ RingLive \subseteq {"tx", "rx"}

\* What Ring sees of the state follows from the labels of the two threads.
LEMMA RingLabels == Labels /\ Labels'
<1>1. Labels
  BY DEF Labels, RingSpc, RingRpc, RingChead, RingLive, Sides, Threads, ParkPcs, WakePcs
<1>2. Labels'
  BY DEF Labels, RingSpc, RingRpc, RingChead, RingLive, Sides, Threads, ParkPcs, WakePcs
<1> QED
  BY <1>1, <1>2

\* A side that does not move looks the same to Ring.
LEMMA RingFrame ==
    /\ pc'["P"] = pc["P"] => RingSpc' = RingSpc
    /\ pc'["C"] = pc["C"] /\ op'["C"] = op["C"] => RingRpc' = RingRpc
    /\ (pc'["C"] = "tr_publish" <=> pc["C"] = "tr_publish") /\ UNCHANGED chead => RingChead' = RingChead
    /\ (\A t \in Threads : op'[t] = "drop" <=> op[t] = "drop") => RingLive' = RingLive
    /\ op' = op => RingLive' = RingLive
BY DEF RingSpc, RingRpc, RingChead, RingLive, Sides, Threads

\* A step that leaves all Ring sees alone is a stutter.
LEMMA RingStutter ==
    ASSUME UNCHANGED <<tail, head, max, refs, dropped, told>>,
           UNCHANGED <<RingChead, RingLive, RingSpc, RingRpc>>
    PROVE  UNCHANGED R!vars
BY DEF R!vars, R!handles

\* Every step of the sender is a step of Ring or a stutter.
LEMMA RingSenderStep ==
    ASSUME IndInv,
           \/ \E o \in {"try_send", "send"} : SenderCall(o)
           \/ TsDisconnected \/ TsFull \/ TsWrite \/ TsPublish
    PROVE  R!Next \/ UNCHANGED R!vars
<1>t. TypeOK /\ ControlInv /\ IndexInv
  BY DEF IndInv
<1>o. /\ op \in [Threads -> {"none", "try_send", "send", "try_recv", "recv", "drain", "drop"}]
      /\ pc \in [Threads -> SenderPcs \cup ReceiverPcs]
      /\ tail \in Nat /\ head \in Nat /\ chead \in Nat
  BY <1>t DEF TypeOK
<1>l. Labels /\ Labels'
  BY RingLabels
<1> USE DEF ring, parkers, sender, receiver, history, GoTo, Return, R!handles
<1>1. ASSUME NEW o \in {"try_send", "send"}, SenderCall(o) PROVE R!Next
  <2>1. pc["P"] = "idle" /\ pc'["P"] = "ts_disc" /\ pc'["C"] = pc["C"] /\ op'["C"] = op["C"]
        /\ op["P"] = "none" /\ op'["P"] # "drop"
    BY <1>1, <1>t, <1>o DEF SenderCall, ControlInv, Threads
  <2>2. UNCHANGED <<tail, head, chead, max, refs, dropped, told>>
    BY <1>1 DEF SenderCall
  <2>3. UNCHANGED <<RingChead, RingRpc, RingLive>>
    BY <2>1, <2>2, RingFrame DEF Threads
  <2>4. RingSpc = "idle" /\ RingSpc' = "ts_disc" /\ "tx" \in RingLive
    BY <1>l, <2>1 DEF Labels
  <2> QED
    BY <2>2, <2>3, <2>4 DEF R!SenderCall, R!Next
<1>2. CASE TsDisconnected
  <2>1. pc["P"] = "ts_disc" /\ pc'["C"] = pc["C"] /\ op'["C"] = op["C"]
        /\ op["P"] # "drop" /\ op'["P"] # "drop"
    BY <1>2, <1>t, <1>o DEF TsDisconnected, ControlInv, TrySendPcs, Threads
  <2>2. UNCHANGED <<tail, head, chead, max, refs, dropped>>
    BY <1>2 DEF TsDisconnected
  <2>3. UNCHANGED <<RingChead, RingRpc, RingLive>>
    BY <2>1, <2>2, RingFrame DEF Threads
  <2>4. disconnected <=> R!disconnected
    BY <1>t, <1>l, <2>1 DEF ControlInv, Labels, R!disconnected
  <2>5. CASE disconnected
    <3>1. pc'["P"] = "idle" /\ told' = told \cup {"P"}
      BY <1>2, <1>o, <2>5 DEF TsDisconnected, Threads
    <3>2. Sides(told)' = Sides(told) \cup {"tx"}
      BY <3>1 DEF Sides
    <3>3. RingSpc = "ts_disc" /\ RingSpc' = "idle"
      BY <1>l, <2>1, <3>1 DEF Labels
    <3> QED
      BY <2>2, <2>3, <2>4, <2>5, <3>2, <3>3 DEF R!TsDisconnected, R!Next
  <2>6. CASE ~disconnected
    <3>1. pc'["P"] = "ts_full" /\ told' = told
      BY <1>2, <1>o, <2>6 DEF TsDisconnected, Threads
    <3>2. RingSpc = "ts_disc" /\ RingSpc' = "ts_send"
      BY <1>l, <2>1, <3>1 DEF Labels
    <3> QED
      BY <2>2, <2>3, <2>4, <2>6, <3>1, <3>2 DEF R!TsDisconnected, R!Next
  <2> QED
    BY <2>5, <2>6
<1>3. CASE TsFull
  <2>1. pc["P"] = "ts_full" /\ pc'["C"] = pc["C"] /\ op'["C"] = op["C"]
        /\ op["P"] # "drop" /\ op'["P"] # "drop"
    BY <1>3, <1>t, <1>o DEF TsFull, Blocked, ControlInv, TrySendPcs, Threads
  <2>2. UNCHANGED <<tail, head, chead, max, refs, dropped, told>>
    BY <1>3 DEF TsFull
  <2>3. UNCHANGED <<RingChead, RingRpc, RingLive>>
    BY <2>1, <2>2, RingFrame DEF Threads
  <2>4. CASE pc'["P"] = "write"
    <3>1. RingSpc' = RingSpc
      BY <1>l, <2>1, <2>4 DEF Labels
    <3> QED
      BY <2>2, <2>3, <3>1, RingStutter
  <2>5. CASE pc'["P"] # "write"
    <3>1. IsFull(head) /\ Blocked("P")
      BY <1>3, <1>o, <2>5 DEF TsFull, Threads
    <3>2. tail - head = Cap
      BY <1>t, <3>1 DEF IsFull, IndexInv
    <3>3. pc'["P"] \in {"idle", "prepare_slot", "ts_disc"}
      BY <1>o, <3>1 DEF Blocked, Retry, Threads
    <3>4. RingSpc = "ts_send" /\ RingSpc' \in {"idle", "ts_disc"}
      BY <1>l, <2>1, <3>3 DEF Labels, ParkPcs
    <3> QED
      BY <2>2, <2>3, <3>2, <3>4 DEF R!TsSend, R!Next
  <2> QED
    BY <2>4, <2>5
<1>4. CASE TsWrite
  <2>1. pc["P"] = "write" /\ pc'["P"] = "publish" /\ pc'["C"] = pc["C"] /\ op' = op
    BY <1>4, <1>o DEF TsWrite, Threads
  <2>2. UNCHANGED <<tail, head, chead, max, refs, dropped, told>>
    BY <1>4 DEF TsWrite
  <2>3. UNCHANGED <<RingChead, RingRpc, RingLive>>
    BY <2>1, <2>2, RingFrame
  <2>4. RingSpc' = RingSpc
    BY <1>l, <2>1 DEF Labels
  <2> QED
    BY <2>2, <2>3, <2>4, RingStutter
<1>5. CASE TsPublish
  <2>1. pc["P"] = "publish" /\ pc'["P"] \in {"wake_load", "idle"} /\ pc'["C"] = pc["C"] /\ op'["C"] = op["C"]
        /\ op["P"] # "drop" /\ op'["P"] # "drop"
    BY <1>5, <1>t, <1>o DEF TsPublish, WakeOrReturn, ControlInv, TrySendPcs, Threads
  <2>2. UNCHANGED <<head, chead, max, refs, dropped, told>> /\ tail' = tail + 1
    BY <1>5, <1>t DEF TsPublish, IndexInv
  <2>3. UNCHANGED <<RingChead, RingRpc, RingLive>>
    BY <2>1, <2>2, RingFrame DEF Threads
  <2>4. RingSpc = "ts_send" /\ RingSpc' = "idle"
    BY <1>l, <2>1 DEF Labels, WakePcs
  <2>5. tail - head < Cap
    BY <1>t, <1>o, <2>1, CapAssumption DEF IndexInv, TypeOK
  <2> QED
    BY <2>2, <2>3, <2>4, <2>5 DEF R!TsSend, R!Next
<1> QED
  BY <1>1, <1>2, <1>3, <1>4, <1>5

\* Every step of try_recv() and recv() is a step of Ring or a stutter.
LEMMA RingReceiverStep ==
    ASSUME IndInv,
           \/ \E o \in {"try_recv", "recv"} : ReceiverCall(o)
           \/ TrCheck \/ TrDisconnected \/ TrLast \/ TrPublish
           \/ Read /\ op["C"] # "drain"
    PROVE  R!Next \/ UNCHANGED R!vars
<1>t. TypeOK /\ ControlInv /\ IndexInv
  BY DEF IndInv
<1>o. /\ op \in [Threads -> {"none", "try_send", "send", "try_recv", "recv", "drain", "drop"}]
      /\ pc \in [Threads -> SenderPcs \cup ReceiverPcs]
      /\ tail \in Nat /\ head \in Nat /\ chead \in Nat
  BY <1>t DEF TypeOK
<1>l. Labels /\ Labels'
  BY RingLabels
<1> USE DEF ring, parkers, sender, receiver, history, GoTo, Return, R!handles
<1>1. ASSUME NEW o \in {"try_recv", "recv"}, ReceiverCall(o) PROVE R!Next
  <2>1. pc["C"] = "idle" /\ pc'["C"] = "tr_check" /\ pc'["P"] = pc["P"] /\ op'["P"] = op["P"]
        /\ op["C"] = "none" /\ op'["C"] # "drop"
    BY <1>1, <1>t, <1>o DEF ReceiverCall, ControlInv, Threads
  <2>2. UNCHANGED <<tail, head, chead, max, refs, dropped, told>>
    BY <1>1 DEF ReceiverCall
  <2>3. UNCHANGED <<RingChead, RingSpc, RingLive>>
    BY <2>1, <2>2, RingFrame DEF Threads
  <2>4. RingRpc = "idle" /\ RingRpc' = "tr_tail" /\ "rx" \in RingLive
    BY <1>l, <2>1 DEF Labels
  <2> QED
    BY <2>2, <2>3, <2>4 DEF R!ReceiverCall, R!Next
<1>2. CASE TrCheck
  <2>1. pc["C"] = "tr_check" /\ pc'["C"] \in {"read", "tr_disc"} /\ pc'["P"] = pc["P"] /\ op' = op
        /\ op["C"] # "drain"
    BY <1>2, <1>t, <1>o DEF TrCheck, ControlInv, TryRecvPcs, Threads
  <2>2. UNCHANGED <<tail, head, chead, max, refs, dropped, told>>
    BY <1>2 DEF TrCheck
  <2>3. UNCHANGED <<RingChead, RingSpc, RingLive>> /\ RingChead = chead
    BY <1>l, <2>1, <2>2, RingFrame DEF Labels
  <2>4. CASE pc'["C"] = "read"
    <3>1. RingRpc' = RingRpc
      BY <1>l, <2>1, <2>4 DEF Labels
    <3> QED
      BY <2>2, <2>3, <3>1, RingStutter
  <2>5. CASE pc'["C"] = "tr_disc"
    <3>1. tail - chead = 0
      BY <1>2, <1>o, <2>5 DEF TrCheck, Threads
    <3>2. RingRpc = "tr_tail" /\ RingRpc' = "tr_disc"
      BY <1>l, <2>1, <2>5 DEF Labels
    <3> QED
      BY <2>2, <2>3, <3>1, <3>2 DEF R!TrTail, R!Pending, R!Next
  <2> QED
    BY <2>1, <2>4, <2>5
<1>3. CASE TrDisconnected
  <2>1. pc["C"] = "tr_disc" /\ pc'["P"] = pc["P"] /\ op'["P"] = op["P"]
        /\ op["C"] # "drop" /\ op'["C"] # "drop"
    BY <1>3, <1>t, <1>o DEF TrDisconnected, Blocked, ControlInv, TryRecvPcs, Threads
  <2>2. UNCHANGED <<tail, head, chead, max, refs, dropped, told>>
    BY <1>3 DEF TrDisconnected
  <2>3. disconnected <=> R!disconnected
    BY <1>t, <1>l, <2>1 DEF ControlInv, Labels, R!disconnected
  <2>4. pc'["C"] \in IF disconnected THEN {"tr_last"} ELSE {"idle", "prepare_slot", "tr_check"}
    BY <1>3, <1>o DEF TrDisconnected, Blocked, Retry, Threads
  <2>5. UNCHANGED <<RingChead, RingSpc, RingLive>>
    BY <2>1, <2>2, <2>4, RingFrame DEF Threads
  <2>6. RingRpc = "tr_disc" /\ RingRpc' \in IF disconnected THEN {"tr_last"} ELSE {"idle", "tr_tail"}
    BY <1>l, <2>1, <2>4 DEF Labels, ParkPcs
  <2> QED
    BY <2>2, <2>3, <2>5, <2>6 DEF R!TrDisconnected, R!Next
<1>4. CASE TrLast
  <2>1. pc["C"] = "tr_last" /\ pc'["P"] = pc["P"] /\ op'["P"] = op["P"]
        /\ op["C"] \in {"try_recv", "recv"} /\ op'["C"] # "drop"
    BY <1>4, <1>t, <1>o DEF TrLast, ControlInv, TryRecvPcs, Threads
  <2>2. UNCHANGED <<tail, head, chead, max, refs, dropped>>
    BY <1>4 DEF TrLast
  <2>3. pc'["C"] = (IF tail = chead THEN "idle" ELSE "read") /\ (tail # chead => op' = op)
    BY <1>4, <1>o DEF TrLast, Threads
  <2>4. UNCHANGED <<RingChead, RingSpc, RingLive>> /\ RingChead = chead /\ RingRpc = "tr_last"
    BY <1>l, <2>1, <2>2, <2>3, RingFrame DEF Labels, Threads
  <2>5. CASE tail = chead
    <3>1. Sides(told)' = Sides(told) \cup {"rx"}
      BY <1>4, <2>5 DEF TrLast, Sides
    <3>2. RingRpc' = "idle"
      BY <1>l, <2>3, <2>5 DEF Labels
    <3> QED
      BY <1>o, <2>2, <2>4, <2>5, <3>1, <3>2 DEF R!TrLast, R!Pending, R!Next
  <2>6. CASE tail # chead
    <3>1. told' = told /\ tail - chead > 0
      BY <1>4, <1>o, <1>t, <2>6 DEF TrLast, IndexInv, TypeOK
    <3>2. RingRpc' = "tr_tail"
      BY <1>l, <2>1, <2>3, <2>6 DEF Labels
    <3> QED
      BY <2>2, <2>4, <3>1, <3>2 DEF R!TrLast, R!Pending, R!Next
  <2> QED
    BY <2>5, <2>6
<1>5. CASE TrPublish
  <2>1. pc["C"] = "tr_publish" /\ pc'["C"] \in {"wake_load", "idle"} /\ pc'["P"] = pc["P"]
        /\ op'["P"] = op["P"] /\ op["C"] # "drop" /\ op'["C"] # "drop"
    BY <1>5, <1>t, <1>o DEF TrPublish, WakeOrReturn, ControlInv, TryRecvPcs, Threads
  <2>2. UNCHANGED <<tail, chead, max, refs, dropped, told>> /\ head' = chead
    BY <1>5 DEF TrPublish
  <2>3. UNCHANGED <<RingSpc, RingLive>>
    BY <2>1, <2>2, RingFrame DEF Threads
  <2>4. RingChead = chead - 1 /\ RingChead' = chead /\ RingRpc = "tr_tail" /\ RingRpc' = "idle"
    BY <1>l, <2>1, <2>2 DEF Labels, WakePcs
  <2>5. tail - RingChead > 0 /\ RingChead' = RingChead + 1 /\ head' = RingChead + 1
    BY <1>t, <1>o, <2>2, <2>4 DEF IndexInv, TypeOK
  <2> QED
    BY <2>2, <2>3, <2>4, <2>5 DEF R!TrTail, R!Take, R!Pending, R!Next
<1>6. CASE Read /\ op["C"] # "drain"
  <2>1. pc["C"] = "read" /\ pc'["C"] = "tr_publish" /\ pc'["P"] = pc["P"] /\ op' = op
    BY <1>6, <1>o DEF Read, Threads
  <2>2. UNCHANGED <<tail, head, max, refs, dropped, told>> /\ chead' = chead + 1
    BY <1>6 DEF Read
  <2>3. UNCHANGED <<RingSpc, RingLive, RingRpc>>
    BY <1>6, <1>l, <2>1, RingFrame DEF Labels
  <2>4. RingChead' = RingChead
    BY <1>l, <1>o, <2>1, <2>2 DEF Labels
  <2> QED
    BY <2>2, <2>3, <2>4, RingStutter
<1> QED
  BY <1>1, <1>2, <1>3, <1>4, <1>5, <1>6

\* Every step of drain() is a step of Ring or a stutter.
LEMMA RingDrainStep ==
    ASSUME IndInv, DrainCall \/ DrCheck \/ DrGuard \/ DrUnwind \/ (Read /\ op["C"] = "drain")
    PROVE  R!Next \/ UNCHANGED R!vars
<1>t. TypeOK /\ ControlInv /\ IndexInv
  BY DEF IndInv
<1>o. /\ op \in [Threads -> {"none", "try_send", "send", "try_recv", "recv", "drain", "drop"}]
      /\ pc \in [Threads -> SenderPcs \cup ReceiverPcs]
      /\ tail \in Nat /\ head \in Nat /\ chead \in Nat /\ max \in Nat
  BY <1>t DEF TypeOK
<1>l. Labels /\ Labels'
  BY RingLabels
<1> USE DEF ring, parkers, sender, receiver, history, GoTo, Return, R!handles
<1>1. CASE DrainCall
  <2>1. pc["C"] = "idle" /\ pc'["C"] = "dr_check" /\ pc'["P"] = pc["P"] /\ op'["P"] = op["P"]
        /\ op["C"] = "none" /\ op'["C"] = "drain"
    BY <1>1, <1>t, <1>o DEF DrainCall, ControlInv, Threads
  <2>2. UNCHANGED <<tail, head, chead, refs, dropped, told>> /\ max' \in Nat
    BY <1>1, ConstAssumption DEF DrainCall
  <2>3. UNCHANGED <<RingChead, RingSpc, RingLive>>
    BY <2>1, <2>2, RingFrame DEF Threads
  <2>4. RingRpc = "idle" /\ RingRpc' = "dr_take" /\ "rx" \in RingLive
    BY <1>l, <2>1 DEF Labels
  <2> QED
    BY <2>2, <2>3, <2>4 DEF R!DrainCall, R!Next
<1>2. CASE DrCheck
  <2>1. pc["C"] = "dr_check" /\ pc'["C"] \in {"read", "dr_guard"} /\ pc'["P"] = pc["P"] /\ op' = op
        /\ op["C"] = "drain"
    BY <1>2, <1>t, <1>o DEF DrCheck, ControlInv, DrainPcs, Threads
  <2>2. UNCHANGED <<tail, head, chead, max, refs, dropped, told>>
    BY <1>2 DEF DrCheck
  <2>3. UNCHANGED <<RingChead, RingSpc, RingLive>> /\ RingChead = chead
    BY <1>l, <2>1, <2>2, RingFrame DEF Labels
  <2>4. CASE pc'["C"] = "read"
    <3>1. RingRpc' = RingRpc
      BY <1>l, <2>1, <2>4 DEF Labels
    <3> QED
      BY <2>2, <2>3, <3>1, RingStutter
  <2>5. CASE pc'["C"] = "dr_guard"
    <3>1. start = head
      BY <1>t, <2>1 DEF IndexInv, InDrain, DrainPcs
    <3>2. chead - head >= max \/ tail - chead = 0
      BY <1>2, <1>o, <2>5, <3>1 DEF DrCheck, Threads
    <3>3. RingRpc = "dr_take" /\ RingRpc' = "dr_guard"
      BY <1>l, <2>1, <2>5 DEF Labels
    <3> QED
      BY <2>2, <2>3, <3>2, <3>3 DEF R!DrEnd, R!Pending, R!took, R!Next
  <2> QED
    BY <2>1, <2>4, <2>5
<1>3. CASE Read /\ op["C"] = "drain"
  <2>1. pc["C"] = "read" /\ pc'["C"] \in {"dr_check", "dr_unwind"} /\ pc'["P"] = pc["P"] /\ op' = op
    BY <1>3, <1>o DEF Read, Threads
  <2>2. UNCHANGED <<tail, head, max, refs, dropped, told>> /\ chead' = chead + 1
    BY <1>3 DEF Read
  <2>3. UNCHANGED <<RingSpc, RingLive>> /\ RingChead = chead /\ RingChead' = chead + 1
    BY <1>l, <2>1, <2>2, RingFrame DEF Labels
  <2>4. RingRpc = "dr_take" /\ RingRpc' \in {"dr_take", "dr_unwind"}
    BY <1>3, <1>l, <2>1 DEF Labels
  <2>5. chead - head < max /\ tail - chead > 0
    BY <1>3, <1>t, <1>o, <2>1 DEF IndexInv, InDrain, TypeOK
  <2> QED
    BY <2>2, <2>3, <2>4, <2>5 DEF R!DrTake, R!Pending, R!took, R!Next
<1>4. ASSUME DrGuard \/ DrUnwind PROVE R!Next
  <2>1. pc["C"] \in {"dr_guard", "dr_unwind"} /\ pc'["C"] \in {"wake_load", "idle"} /\ pc'["P"] = pc["P"]
        /\ op'["P"] = op["P"] /\ op["C"] = "drain" /\ op'["C"] # "drop"
    BY <1>4, <1>t, <1>o DEF DrGuard, DrUnwind, WakeOrReturn, ControlInv, DrainPcs, Threads
  <2>2. UNCHANGED <<tail, chead, refs, dropped, told>> /\ max' = 0
    BY <1>4 DEF DrGuard, DrUnwind
  <2>3. start = head
    BY <1>t, <2>1 DEF IndexInv, InDrain, DrainPcs
  <2>4. head' = chead
    BY <1>4, <2>3 DEF DrGuard, DrUnwind, PublishGuardDrop
  <2>5. UNCHANGED <<RingSpc, RingLive, RingChead>> /\ RingChead = chead
    BY <1>l, <2>1, <2>2, RingFrame DEF Labels, Threads
  <2>6. RingRpc \in {"dr_guard", "dr_unwind"} /\ RingRpc' = "idle"
    BY <1>l, <2>1 DEF Labels, WakePcs
  <2> QED
    BY <2>2, <2>4, <2>5, <2>6 DEF R!PublishGuardDrop, R!Next
<1> QED
  BY <1>1, <1>2, <1>3, <1>4

\* Blocking and waking are stutters of Ring, dropping a handle is two steps.
LEMMA RingHandleStep ==
    ASSUME IndInv, NEW t \in Threads,
           ParkStep(t) \/ SpuriousUnpark(t) \/ WakeStep(t) \/ Drop(t) \/ ArcDrop(t)
    PROVE  R!Next \/ UNCHANGED R!vars
<1>t. TypeOK /\ ControlInv /\ IndexInv
  BY DEF IndInv
<1>o. /\ op \in [Threads -> {"none", "try_send", "send", "try_recv", "recv", "drain", "drop"}]
      /\ pc \in [Threads -> SenderPcs \cup ReceiverPcs]
      /\ tail \in Nat /\ head \in Nat /\ chead \in Nat
  BY <1>t DEF TypeOK
<1>l. Labels /\ Labels'
  BY RingLabels
<1> USE DEF ring, parkers, sender, receiver, history, GoTo, Return, R!handles
<1>1. ASSUME ParkStep(t) \/ SpuriousUnpark(t) PROVE UNCHANGED R!vars
  <2>1. UNCHANGED <<tail, head, chead, max, refs, dropped, told, op>>
    BY <1>1 DEF ParkStep, PrepareSlot, PrepareFlag, Recheck, RecheckDisconnected, Withdraw, Unpark,
                SpuriousUnpark
  <2>2. /\ pc[t] \in ParkPcs
        /\ \E q \in ParkPcs \cup {Retry(t)} : pc' = [pc EXCEPT ![t] = q]
    BY <1>1 DEF ParkStep, PrepareSlot, PrepareFlag, Recheck, RecheckDisconnected, Withdraw, Unpark,
                SpuriousUnpark, ParkPcs
  <2>3. CASE t = "P"
    <3>1. pc["P"] \in ParkPcs /\ pc'["P"] \in ParkPcs \cup {"ts_disc"} /\ pc'["C"] = pc["C"]
      BY <1>o, <2>2, <2>3 DEF Retry, Threads
    <3>2. RingSpc' = RingSpc
      BY <1>l, <3>1 DEF Labels
    <3> QED
      BY <2>1, <3>1, <3>2, RingFrame, RingStutter
  <2>4. CASE t = "C"
    <3>1. pc["C"] \in ParkPcs /\ pc'["C"] \in ParkPcs \cup {"tr_check"} /\ pc'["P"] = pc["P"]
      BY <1>o, <2>2, <2>4 DEF Retry, Threads
    <3>2. RingRpc' = RingRpc /\ RingChead' = RingChead
      BY <1>l, <2>1, <3>1 DEF Labels, ParkPcs
    <3> QED
      BY <2>1, <3>1, <3>2, RingFrame, RingStutter
  <2> QED
    BY <2>3, <2>4 DEF Threads
<1>2. ASSUME WakeStep(t) PROVE UNCHANGED R!vars
  <2>1. UNCHANGED <<tail, head, chead, max, refs, dropped, told>>
    BY <1>2 DEF WakeStep, WakeLoad, WakeStore, WakeTake
  <2>2. /\ pc[t] \in WakePcs
        /\ \E q \in WakePcs \cup {"idle", "arc"} : pc' = [pc EXCEPT ![t] = q]
        /\ op' = op \/ (op[t] # "drop" /\ op' = [op EXCEPT ![t] = "none"])
    BY <1>2 DEF WakeStep, WakeLoad, WakeStore, WakeTake, NextWake, WakePcs
  <2>3. RingLive' = RingLive
    BY <1>o, <2>2, RingFrame DEF Threads
  <2>4. CASE t = "P"
    <3>1. pc["P"] \in WakePcs /\ pc'["P"] \in WakePcs \cup {"idle", "arc"} /\ pc'["C"] = pc["C"] /\ op'["C"] = op["C"]
      BY <1>o, <2>2, <2>4 DEF Threads
    <3>2. RingSpc' = RingSpc
      BY <1>l, <3>1 DEF Labels
    <3> QED
      BY <2>1, <2>3, <3>1, <3>2, RingFrame, RingStutter
  <2>5. CASE t = "C"
    <3>1. pc["C"] \in WakePcs /\ pc'["C"] \in WakePcs \cup {"idle", "arc"} /\ pc'["P"] = pc["P"]
      BY <1>o, <2>2, <2>5 DEF Threads
    <3>2. RingRpc' = RingRpc /\ RingChead' = RingChead
      BY <1>l, <2>1, <3>1 DEF Labels, WakePcs
    <3> QED
      BY <2>1, <2>3, <3>1, <3>2, RingFrame, RingStutter
  <2> QED
    BY <2>4, <2>5 DEF Threads
<1> DEFINE side == IF t = "P" THEN "tx" ELSE "rx"
<1>s. side \in {"tx", "rx"} /\ (side = "tx" <=> t = "P") /\ (side = "rx" <=> t = "C")
  BY DEF Threads
<1> HIDE DEF side
<1>3. ASSUME Drop(t) PROVE R!Next
  <2>1. UNCHANGED <<tail, head, chead, max, refs, dropped, told>>
    BY <1>3 DEF Drop
  <2>2. pc[t] = "idle" /\ op[t] # "drop" /\ op' = [op EXCEPT ![t] = "drop"] /\ pc' = [pc EXCEPT ![t] = "wake_load"]
    BY <1>3, <1>t DEF Drop, ControlInv
  <2>3. side \in RingLive /\ RingLive' = RingLive \ {side}
    BY <1>o, <1>s, <2>2 DEF RingLive, Sides, Threads
  <2>4. UNCHANGED <<RingSpc, RingRpc, RingChead>> /\ (IF side = "tx" THEN RingSpc = "idle" ELSE RingRpc = "idle")
    <3>1. CASE t = "P"
      <4>1. pc["P"] = "idle" /\ pc'["P"] = "wake_load" /\ pc'["C"] = pc["C"] /\ op'["C"] = op["C"]
        BY <1>o, <2>2, <3>1 DEF Threads
      <4>2. RingSpc = "idle" /\ RingSpc' = "idle"
        BY <1>l, <4>1 DEF Labels, WakePcs
      <4> QED
        BY <1>s, <2>1, <3>1, <4>1, <4>2, RingFrame
    <3>2. CASE t = "C"
      <4>1. pc["C"] = "idle" /\ pc'["C"] = "wake_load" /\ pc'["P"] = pc["P"]
        BY <1>o, <2>2, <3>2 DEF Threads
      <4>2. RingRpc = "idle" /\ RingRpc' = "idle"
        BY <1>l, <4>1 DEF Labels, WakePcs
      <4> QED
        BY <1>s, <2>1, <3>2, <4>1, <4>2, RingFrame
    <3> QED
      BY <3>1, <3>2 DEF Threads
  <2>5. R!Drop(side)
    BY <2>1, <2>3, <2>4 DEF R!Drop
  <2> QED
    BY <1>s, <2>5 DEF R!Next
<1>4. ASSUME ArcDrop(t) PROVE R!Next
  <2>1. UNCHANGED <<tail, head, chead, max, told, op>> /\ refs' = refs \ {t}
    BY <1>4 DEF ArcDrop
  <2>2. pc[t] = "arc" /\ op[t] = "drop" /\ t \in refs /\ pc' = [pc EXCEPT ![t] = "gone"] /\ refs \subseteq Threads
    BY <1>4, <1>t DEF ArcDrop, ControlInv, TypeOK
  <2>3. side \in Sides(refs) /\ Sides(refs)' = Sides(refs) \ {side} /\ (refs = {t} <=> Sides(refs) = {side})
    BY <1>s, <2>1, <2>2 DEF Sides, Threads
  <2>4. side \notin RingLive
    BY <1>l, <1>s, <2>2 DEF Labels
  <2>5. UNCHANGED <<RingSpc, RingRpc, RingChead, RingLive>>
    <3>1. CASE t = "P"
      <4>1. pc["P"] = "arc" /\ pc'["P"] = "gone" /\ pc'["C"] = pc["C"]
        BY <1>o, <2>2, <3>1 DEF Threads
      <4>2. RingSpc' = RingSpc
        BY <1>l, <4>1 DEF Labels
      <4> QED
        BY <2>1, <4>1, <4>2, RingFrame
    <3>2. CASE t = "C"
      <4>1. pc["C"] = "arc" /\ pc'["C"] = "gone" /\ pc'["P"] = pc["P"]
        BY <1>o, <2>2, <3>2 DEF Threads
      <4>2. RingRpc' = RingRpc
        BY <1>l, <4>1 DEF Labels
      <4> QED
        BY <2>1, <4>1, <4>2, RingFrame
    <3> QED
      BY <3>1, <3>2 DEF Threads
  <2>6. Len(dropped)' = IF Sides(refs) = {side} THEN tail - head ELSE Len(dropped)
    <3>1. CASE refs = {t}
      <4>1. dropped' = [i \in 1..(tail - head) |-> buf[Slot(head + i - 1)]]
        BY <1>4, <3>1 DEF ArcDrop, SharedDrop
      <4>2. tail - head \in Nat
        BY <1>t, <1>o DEF IndexInv, TypeOK
      <4>3. Len(dropped') = tail - head
        <5> DEFINE f == [i \in 1..(tail - head) |-> buf[Slot(head + i - 1)]]
                   S == {f[i] : i \in 1..(tail - head)}
        <5>1. f \in [1..(tail - head) -> S]
          OBVIOUS
        <5> HIDE DEF f, S
        <5>2. Len(f) = tail - head
          BY <4>2, <5>1, FunIsSeq
        <5> QED
          BY <4>1, <5>2 DEF f
      <4> QED
        BY <2>3, <3>1, <4>3
    <3>2. CASE refs # {t}
      <4>1. dropped' = dropped
        BY <1>4, <3>2 DEF ArcDrop
      <4> QED
        BY <2>3, <3>2, <4>1
    <3> QED
      BY <3>1, <3>2
  <2>7. R!Release(side)
    BY <2>1, <2>3, <2>4, <2>5, <2>6 DEF R!Release
  <2> QED
    BY <1>s, <2>7 DEF R!Next
<1> QED
  BY <1>1, <1>2, <1>3, <1>4

\* The ring implements Ring: each call of spsc.rs, with the caches, slots,
\* parks and wakes inside it, is a few steps decided by the true indices.
THEOREM RingRefinement == Spec => ImplementsRing
<1>1. Init => R!Init
  <2> SUFFICES ASSUME Init PROVE R!Init
    OBVIOUS
  <2>1. RingSpc = "idle" /\ RingRpc = "idle" /\ RingChead = 0
    BY DEF Init, RingSpc, RingRpc, RingChead, ParkPcs, Threads
  <2>2. RingLive = {"tx", "rx"} /\ Sides(refs) = {"tx", "rx"} /\ Sides(told) = {}
    BY DEF Init, RingLive, Sides, Threads
  <2>3. Len(dropped) = 0
    BY DEF Init
  <2> QED
    BY <2>1, <2>2, <2>3 DEF Init, R!Init
<1>2. IndInv /\ [Next]_vars => [R!Next]_(R!vars)
  <2> SUFFICES ASSUME IndInv, [Next]_vars PROVE R!Next \/ UNCHANGED R!vars
    OBVIOUS
  <2>1. CASE UNCHANGED vars
    <3>1. UNCHANGED <<tail, head, chead, max, refs, dropped, told, pc, op>>
      BY <2>1 DEF vars, ring, receiver, control, history
    <3> QED
      BY <3>1, RingFrame, RingStutter
  <2>2. CASE SenderStep \/ Calls
    BY <2>2, RingSenderStep, RingReceiverStep, RingDrainStep, RingHandleStep DEF SenderStep, Calls, Threads
  <2>3. CASE ReceiverStep
    BY <2>3, RingReceiverStep, RingDrainStep, RingHandleStep DEF ReceiverStep, Threads
  <2>4. CASE \E t \in Threads : SpuriousUnpark(t)
    BY <2>4, RingHandleStep
  <2> QED
    BY <2>1, <2>2, <2>3, <2>4 DEF Next, Terminated
<1> QED
  BY <1>1, <1>2, Invariance, PTL DEF Spec, ImplementsRing, R!Spec

=============================================================================
