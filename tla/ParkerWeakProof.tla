-------------------------- MODULE ParkerWeakProof --------------------------
(***************************************************************************)
(* Proofs about ParkerWeak, for every set of senders and every number of   *)
(* messages.                                                               *)
(***************************************************************************)
EXTENDS ParkerWeak, TLAPS

\* Every variable keeps its type.
LEMMA TypeOKStep == IndInv /\ [Next]_vars => TypeOK'
<1> SUFFICES ASSUME IndInv, [Next]_vars PROVE TypeOK'
  OBVIOUS
<1>0. TypeOK /\ BufInv
  BY DEF IndInv
<1> USE <1>0, ConstAssumption DEF TypeOK, BufInv, Threads, Parker, SenderPcs, ConsumerPcs, Stores
<1>1. ASSUME NEW t \in Threads, Commit(t) PROVE TypeOK'
  <2>1. parked' \in BOOLEAN
    <3>1. CASE buf[t] = "publish"
      BY <1>1, <3>1 DEF Commit
    <3>2. CASE buf[t] # "publish"
      BY <1>1, <3>2, Zenon DEF Commit
    <3> QED
      BY <3>1, <3>2
  <2>2. published' \subseteq 0..claim-1
    <3>1. buf[t] = "publish" => t \in Senders /\ seq[t] \in 0..claim-1
      BY <1>1
    <3>2. published \subseteq 0..claim-1
      OBVIOUS
    <3> QED
      BY <1>1, <3>1, <3>2 DEF Commit
  <2>3. /\ buf' \in [Threads -> Stores]
        /\ UNCHANGED <<senders, slot, token, claim, seq, chead, took, pc>>
    BY <1>1 DEF Commit
  <2> QED
    BY <2>1, <2>2, <2>3
<1>2. ASSUME NEW s \in Senders, Claim(s) PROVE TypeOK'
  BY <1>2 DEF Claim, GoTo
<1>3. ASSUME NEW s \in Senders, Publish(s) PROVE TypeOK'
  BY <1>3 DEF Publish, GoTo, Store
<1>4. ASSUME NEW s \in Senders, DropSender(s) PROVE TypeOK'
  BY <1>4 DEF DropSender, GoTo, Drained
<1>5. ASSUME NEW s \in Senders, WakeLoad(s) PROVE TypeOK'
  BY <1>5 DEF WakeLoad, GoTo, Done, FenceP, Drained
<1>6. ASSUME NEW s \in Senders, WakeStore(s) PROVE TypeOK'
  BY <1>6 DEF WakeStore, GoTo, Store
<1>7. ASSUME NEW s \in Senders, WakeTake(s) PROVE TypeOK'
  BY <1>7 DEF WakeTake, GoTo, Locked
<1>8. ASSUME NEW s \in Senders, WakeUnpark(s) PROVE TypeOK'
  BY <1>8 DEF WakeUnpark, GoTo, Done, Drained
<1>9. CASE TrCheck
  BY <1>9 DEF TrCheck, Look, GoTo, Published
<1>10. CASE TrSenders
  BY <1>10 DEF TrSenders, GoTo
<1>11. CASE TrLast
  BY <1>11 DEF TrLast, Look, GoTo, Published
<1>12. CASE PrepareSlot
  BY <1>12 DEF PrepareSlot, GoTo, Locked, Drained
<1>13. CASE PrepareFlag
  BY <1>13 DEF PrepareFlag, GoTo, Store
<1>14. CASE Recheck
  BY <1>14 DEF Recheck, GoTo, FenceC, Drained, Published
<1>15. CASE RecheckSenders
  BY <1>15 DEF RecheckSenders, GoTo
<1>16. CASE Withdraw
  BY <1>16 DEF Withdraw, GoTo, Store
<1>17. CASE Unpark
  BY <1>17 DEF Unpark, GoTo
<1>18. CASE SpuriousUnpark
  BY <1>18 DEF SpuriousUnpark, GoTo
<1>19. CASE UNCHANGED vars
  BY <1>19 DEF vars
<1> QED
  BY <1>1, <1>2, <1>3, <1>4, <1>5, <1>6, <1>7, <1>8, <1>9, <1>10, <1>11, <1>12, <1>13, <1>14, <1>15, <1>16, <1>17, <1>18, <1>19 DEF Next, SenderStep, ConsumerStep, Terminated

\* Buffers and labels stay consistent.
LEMMA BufInvStep == IndInv /\ [Next]_vars => BufInv'
<1> SUFFICES ASSUME IndInv, [Next]_vars PROVE BufInv'
  OBVIOUS
<1>0. TypeOK /\ BufInv
  BY DEF IndInv
<1> USE <1>0, ConstAssumption DEF TypeOK, BufInv, Threads, Parker, SenderPcs, ConsumerPcs, Stores
<1>1. ASSUME NEW t \in Threads, Commit(t) PROVE BufInv'
  BY <1>1 DEF Commit
<1>2. ASSUME NEW s \in Senders, Claim(s) PROVE BufInv'
  BY <1>2 DEF Claim, GoTo
<1>3. ASSUME NEW s \in Senders, Publish(s) PROVE BufInv'
  BY <1>3 DEF Publish, GoTo, Store
<1>4. ASSUME NEW s \in Senders, DropSender(s) PROVE BufInv'
  BY <1>4 DEF DropSender, GoTo, Drained
<1>5. ASSUME NEW s \in Senders, WakeLoad(s) PROVE BufInv'
  BY <1>5 DEF WakeLoad, GoTo, Done, FenceP, Drained
<1>6. ASSUME NEW s \in Senders, WakeStore(s) PROVE BufInv'
  BY <1>6 DEF WakeStore, GoTo, Store
<1>7. ASSUME NEW s \in Senders, WakeTake(s) PROVE BufInv'
  BY <1>7 DEF WakeTake, GoTo, Locked
<1>8. ASSUME NEW s \in Senders, WakeUnpark(s) PROVE BufInv'
  BY <1>8 DEF WakeUnpark, GoTo, Done, Drained
<1>9. CASE TrCheck
  BY <1>9 DEF TrCheck, Look, GoTo, Published
<1>10. CASE TrSenders
  BY <1>10 DEF TrSenders, GoTo
<1>11. CASE TrLast
  BY <1>11 DEF TrLast, Look, GoTo, Published
<1>12. CASE PrepareSlot
  BY <1>12 DEF PrepareSlot, GoTo, Locked, Drained
<1>13. CASE PrepareFlag
  BY <1>13 DEF PrepareFlag, GoTo, Store
<1>14. CASE Recheck
  BY <1>14 DEF Recheck, GoTo, FenceC, Drained, Published
<1>15. CASE RecheckSenders
  BY <1>15 DEF RecheckSenders, GoTo
<1>16. CASE Withdraw
  BY <1>16 DEF Withdraw, GoTo, Store
<1>17. CASE Unpark
  BY <1>17 DEF Unpark, GoTo
<1>18. CASE SpuriousUnpark
  BY <1>18 DEF SpuriousUnpark, GoTo
<1>19. CASE UNCHANGED vars
  BY <1>19 DEF vars
<1> QED
  BY <1>1, <1>2, <1>3, <1>4, <1>5, <1>6, <1>7, <1>8, <1>9, <1>10, <1>11, <1>12, <1>13, <1>14, <1>15, <1>16, <1>17, <1>18, <1>19 DEF Next, SenderStep, ConsumerStep, Terminated

\* One sender at a time holds the slot, and leaves it empty.
LEMMA LockInvStep == IndInv /\ [Next]_vars => LockInv'
<1> SUFFICES ASSUME IndInv, [Next]_vars PROVE LockInv'
  OBVIOUS
<1>0. TypeOK /\ LockInv
  BY DEF IndInv
<1> USE <1>0, ConstAssumption DEF TypeOK, LockInv, Threads, Parker, SenderPcs, ConsumerPcs, Stores
<1>1. ASSUME NEW t \in Threads, Commit(t) PROVE LockInv'
  BY <1>1 DEF Commit
<1>2. ASSUME NEW s \in Senders, Claim(s) PROVE LockInv'
  BY <1>2 DEF Claim, GoTo
<1>3. ASSUME NEW s \in Senders, Publish(s) PROVE LockInv'
  BY <1>3 DEF Publish, GoTo, Store
<1>4. ASSUME NEW s \in Senders, DropSender(s) PROVE LockInv'
  BY <1>4 DEF DropSender, GoTo, Drained
<1>5. ASSUME NEW s \in Senders, WakeLoad(s) PROVE LockInv'
  BY <1>5 DEF WakeLoad, GoTo, Done, FenceP, Drained
<1>6. ASSUME NEW s \in Senders, WakeStore(s) PROVE LockInv'
  BY <1>6 DEF WakeStore, GoTo, Store
<1>7. ASSUME NEW s \in Senders, WakeTake(s) PROVE LockInv'
  BY <1>7 DEF WakeTake, GoTo, Locked
<1>8. ASSUME NEW s \in Senders, WakeUnpark(s) PROVE LockInv'
  BY <1>8 DEF WakeUnpark, GoTo, Done, Drained
<1>9. CASE TrCheck
  BY <1>9 DEF TrCheck, Look, GoTo, Published
<1>10. CASE TrSenders
  BY <1>10 DEF TrSenders, GoTo
<1>11. CASE TrLast
  BY <1>11 DEF TrLast, Look, GoTo, Published
<1>12. CASE PrepareSlot
  BY <1>12 DEF PrepareSlot, GoTo, Locked, Drained
<1>13. CASE PrepareFlag
  BY <1>13 DEF PrepareFlag, GoTo, Store
<1>14. CASE Recheck
  BY <1>14 DEF Recheck, GoTo, FenceC, Drained, Published
<1>15. CASE RecheckSenders
  BY <1>15 DEF RecheckSenders, GoTo
<1>16. CASE Withdraw
  BY <1>16 DEF Withdraw, GoTo, Store
<1>17. CASE Unpark
  BY <1>17 DEF Unpark, GoTo
<1>18. CASE SpuriousUnpark
  BY <1>18 DEF SpuriousUnpark, GoTo
<1>19. CASE UNCHANGED vars
  BY <1>19 DEF vars
<1> QED
  BY <1>1, <1>2, <1>3, <1>4, <1>5, <1>6, <1>7, <1>8, <1>9, <1>10, <1>11, <1>12, <1>13, <1>14, <1>15, <1>16, <1>17, <1>18, <1>19 DEF Next, SenderStep, ConsumerStep, Terminated

\* A consumer that has registered stays registered until it is unparked.
LEMMA SlotInvStep == IndInv /\ [Next]_vars => SlotInv'
<1> SUFFICES ASSUME IndInv, [Next]_vars PROVE SlotInv'
  OBVIOUS
<1>0. TypeOK /\ LockInv /\ SlotInv
  BY DEF IndInv
<1> USE <1>0, ConstAssumption DEF TypeOK, LockInv, SlotInv, Unparking, Threads, Parker, SenderPcs, ConsumerPcs, Stores
<1>1. ASSUME NEW t \in Threads, Commit(t) PROVE SlotInv'
  BY <1>1 DEF Commit
<1>2. ASSUME NEW s \in Senders, Claim(s) PROVE SlotInv'
  BY <1>2 DEF Claim, GoTo
<1>3. ASSUME NEW s \in Senders, Publish(s) PROVE SlotInv'
  BY <1>3 DEF Publish, GoTo, Store
<1>4. ASSUME NEW s \in Senders, DropSender(s) PROVE SlotInv'
  BY <1>4 DEF DropSender, GoTo, Drained
<1>5. ASSUME NEW s \in Senders, WakeLoad(s) PROVE SlotInv'
  BY <1>5 DEF WakeLoad, GoTo, Done, FenceP, Drained
<1>6. ASSUME NEW s \in Senders, WakeStore(s) PROVE SlotInv'
  BY <1>6 DEF WakeStore, GoTo, Store
<1>7. ASSUME NEW s \in Senders, WakeTake(s) PROVE SlotInv'
  BY <1>7 DEF WakeTake, GoTo, Locked
<1>8. ASSUME NEW s \in Senders, WakeUnpark(s) PROVE SlotInv'
  BY <1>8 DEF WakeUnpark, GoTo, Done, Drained
<1>9. CASE TrCheck
  BY <1>9 DEF TrCheck, Look, GoTo, Published
<1>10. CASE TrSenders
  BY <1>10 DEF TrSenders, GoTo
<1>11. CASE TrLast
  BY <1>11 DEF TrLast, Look, GoTo, Published
<1>12. CASE PrepareSlot
  BY <1>12 DEF PrepareSlot, GoTo, Locked, Drained
<1>13. CASE PrepareFlag
  BY <1>13 DEF PrepareFlag, GoTo, Store
<1>14. CASE Recheck
  BY <1>14 DEF Recheck, GoTo, FenceC, Drained, Published
<1>15. CASE RecheckSenders
  BY <1>15 DEF RecheckSenders, GoTo
<1>16. CASE Withdraw
  BY <1>16 DEF Withdraw, GoTo, Store
<1>17. CASE Unpark
  BY <1>17 DEF Unpark, GoTo
<1>18. CASE SpuriousUnpark
  BY <1>18 DEF SpuriousUnpark, GoTo
<1>19. CASE UNCHANGED vars
  BY <1>19 DEF vars
<1> QED
  BY <1>1, <1>2, <1>3, <1>4, <1>5, <1>6, <1>7, <1>8, <1>9, <1>10, <1>11, <1>12, <1>13, <1>14, <1>15, <1>16, <1>17, <1>18, <1>19 DEF Next, SenderStep, ConsumerStep, Terminated

\* After the fence the flag is seen by whoever looks.
LEMMA FlagInvStep == IndInv /\ [Next]_vars => FlagInv'
<1> SUFFICES ASSUME IndInv, [Next]_vars PROVE FlagInv'
  OBVIOUS
<1>0. TypeOK /\ BufInv /\ LockInv /\ SlotInv /\ FlagInv
  BY DEF IndInv
<1> USE <1>0, ConstAssumption DEF TypeOK, BufInv, LockInv, SlotInv, FlagInv, Unparking, Threads, Parker, SenderPcs, ConsumerPcs, Stores
<1>1. ASSUME NEW t \in Threads, Commit(t) PROVE FlagInv'
  BY <1>1 DEF Commit
<1>2. ASSUME NEW s \in Senders, Claim(s) PROVE FlagInv'
  BY <1>2 DEF Claim, GoTo
<1>3. ASSUME NEW s \in Senders, Publish(s) PROVE FlagInv'
  BY <1>3 DEF Publish, GoTo, Store
<1>4. ASSUME NEW s \in Senders, DropSender(s) PROVE FlagInv'
  BY <1>4 DEF DropSender, GoTo, Drained
<1>5. ASSUME NEW s \in Senders, WakeLoad(s) PROVE FlagInv'
  BY <1>5 DEF WakeLoad, GoTo, Done, FenceP, Drained
<1>6. ASSUME NEW s \in Senders, WakeStore(s) PROVE FlagInv'
  BY <1>6 DEF WakeStore, GoTo, Store
<1>7. ASSUME NEW s \in Senders, WakeTake(s) PROVE FlagInv'
  BY <1>7 DEF WakeTake, GoTo, Locked
<1>8. ASSUME NEW s \in Senders, WakeUnpark(s) PROVE FlagInv'
  BY <1>8 DEF WakeUnpark, GoTo, Done, Drained
<1>9. CASE TrCheck
  BY <1>9 DEF TrCheck, Look, GoTo, Published
<1>10. CASE TrSenders
  BY <1>10 DEF TrSenders, GoTo
<1>11. CASE TrLast
  BY <1>11 DEF TrLast, Look, GoTo, Published
<1>12. CASE PrepareSlot
  BY <1>12 DEF PrepareSlot, GoTo, Locked, Drained
<1>13. CASE PrepareFlag
  BY <1>13 DEF PrepareFlag, GoTo, Store
<1>14. CASE Recheck
  BY <1>14 DEF Recheck, GoTo, FenceC, Drained, Published
<1>15. CASE RecheckSenders
  BY <1>15 DEF RecheckSenders, GoTo
<1>16. CASE Withdraw
  BY <1>16 DEF Withdraw, GoTo, Store
<1>17. CASE Unpark
  BY <1>17 DEF Unpark, GoTo
<1>18. CASE SpuriousUnpark
  BY <1>18 DEF SpuriousUnpark, GoTo
<1>19. CASE UNCHANGED vars
  BY <1>19 DEF vars
<1> QED
  BY <1>1, <1>2, <1>3, <1>4, <1>5, <1>6, <1>7, <1>8, <1>9, <1>10, <1>11, <1>12, <1>13, <1>14, <1>15, <1>16, <1>17, <1>18, <1>19 DEF Next, SenderStep, ConsumerStep, Terminated

\* A message published after the first half of the re-check is still announced.
LEMMA RecheckInvStep == IndInv /\ [Next]_vars => RecheckInv'
<1> SUFFICES ASSUME IndInv, [Next]_vars PROVE RecheckInv'
  OBVIOUS
<1>0. TypeOK /\ BufInv /\ LockInv /\ SlotInv /\ FlagInv /\ RecheckInv
  BY DEF IndInv
<1> USE <1>0, ConstAssumption DEF TypeOK, BufInv, LockInv, SlotInv, FlagInv, RecheckInv, Unparking, Waking, Published, Threads, Parker, SenderPcs, ConsumerPcs, Stores
<1>1. ASSUME NEW t \in Threads, Commit(t) PROVE RecheckInv'
  BY <1>1 DEF Commit
<1>2. ASSUME NEW s \in Senders, Claim(s) PROVE RecheckInv'
  BY <1>2 DEF Claim, GoTo
<1>3. ASSUME NEW s \in Senders, Publish(s) PROVE RecheckInv'
  BY <1>3 DEF Publish, GoTo, Store
<1>4. ASSUME NEW s \in Senders, DropSender(s) PROVE RecheckInv'
  BY <1>4 DEF DropSender, GoTo, Drained
<1>5. ASSUME NEW s \in Senders, WakeLoad(s) PROVE RecheckInv'
  BY <1>5 DEF WakeLoad, GoTo, Done, FenceP, Drained
<1>6. ASSUME NEW s \in Senders, WakeStore(s) PROVE RecheckInv'
  BY <1>6 DEF WakeStore, GoTo, Store
<1>7. ASSUME NEW s \in Senders, WakeTake(s) PROVE RecheckInv'
  BY <1>7 DEF WakeTake, GoTo, Locked
<1>8. ASSUME NEW s \in Senders, WakeUnpark(s) PROVE RecheckInv'
  BY <1>8 DEF WakeUnpark, GoTo, Done, Drained
<1>9. CASE TrCheck
  BY <1>9 DEF TrCheck, Look, GoTo, Published
<1>10. CASE TrSenders
  BY <1>10 DEF TrSenders, GoTo
<1>11. CASE TrLast
  BY <1>11 DEF TrLast, Look, GoTo, Published
<1>12. CASE PrepareSlot
  BY <1>12 DEF PrepareSlot, GoTo, Locked, Drained
<1>13. CASE PrepareFlag
  BY <1>13 DEF PrepareFlag, GoTo, Store
<1>14. CASE Recheck
  BY <1>14 DEF Recheck, GoTo, FenceC, Drained, Published
<1>15. CASE RecheckSenders
  BY <1>15 DEF RecheckSenders, GoTo
<1>16. CASE Withdraw
  BY <1>16 DEF Withdraw, GoTo, Store
<1>17. CASE Unpark
  BY <1>17 DEF Unpark, GoTo
<1>18. CASE SpuriousUnpark
  BY <1>18 DEF SpuriousUnpark, GoTo
<1>19. CASE UNCHANGED vars
  BY <1>19 DEF vars
<1> QED
  BY <1>1, <1>2, <1>3, <1>4, <1>5, <1>6, <1>7, <1>8, <1>9, <1>10, <1>11, <1>12, <1>13, <1>14, <1>15, <1>16, <1>17, <1>18, <1>19 DEF Next, SenderStep, ConsumerStep, Terminated

\* No step loses the wakeup.
LEMMA NoLostWakeStep == IndInv /\ [Next]_vars => NoLostWake'
<1> SUFFICES ASSUME IndInv, [Next]_vars PROVE NoLostWake'
  OBVIOUS
<1>0. TypeOK /\ BufInv /\ LockInv /\ SlotInv /\ FlagInv /\ RecheckInv /\ NoLostWake
  BY DEF IndInv
<1> USE <1>0, ConstAssumption DEF TypeOK, BufInv, LockInv, SlotInv, FlagInv, RecheckInv, NoLostWake, Unparking, Waking, Published, Threads, Parker, SenderPcs, ConsumerPcs, Stores
<1>1. ASSUME NEW t \in Threads, Commit(t) PROVE NoLostWake'
  BY <1>1 DEF Commit
<1>2. ASSUME NEW s \in Senders, Claim(s) PROVE NoLostWake'
  BY <1>2 DEF Claim, GoTo
<1>3. ASSUME NEW s \in Senders, Publish(s) PROVE NoLostWake'
  BY <1>3 DEF Publish, GoTo, Store
<1>4. ASSUME NEW s \in Senders, DropSender(s) PROVE NoLostWake'
  BY <1>4 DEF DropSender, GoTo, Drained
<1>5. ASSUME NEW s \in Senders, WakeLoad(s) PROVE NoLostWake'
  BY <1>5 DEF WakeLoad, GoTo, Done, FenceP, Drained
<1>6. ASSUME NEW s \in Senders, WakeStore(s) PROVE NoLostWake'
  BY <1>6 DEF WakeStore, GoTo, Store
<1>7. ASSUME NEW s \in Senders, WakeTake(s) PROVE NoLostWake'
  BY <1>7 DEF WakeTake, GoTo, Locked
<1>8. ASSUME NEW s \in Senders, WakeUnpark(s) PROVE NoLostWake'
  BY <1>8 DEF WakeUnpark, GoTo, Done, Drained
<1>9. CASE TrCheck
  BY <1>9 DEF TrCheck, Look, GoTo, Published
<1>10. CASE TrSenders
  BY <1>10 DEF TrSenders, GoTo
<1>11. CASE TrLast
  BY <1>11 DEF TrLast, Look, GoTo, Published
<1>12. CASE PrepareSlot
  BY <1>12 DEF PrepareSlot, GoTo, Locked, Drained
<1>13. CASE PrepareFlag
  BY <1>13 DEF PrepareFlag, GoTo, Store
<1>14. CASE Recheck
  BY <1>14 DEF Recheck, GoTo, FenceC, Drained, Published
<1>15. CASE RecheckSenders
  BY <1>15 DEF RecheckSenders, GoTo
<1>16. CASE Withdraw
  BY <1>16 DEF Withdraw, GoTo, Store
<1>17. CASE Unpark
  BY <1>17 DEF Unpark, GoTo
<1>18. CASE SpuriousUnpark
  BY <1>18 DEF SpuriousUnpark, GoTo
<1>19. CASE UNCHANGED vars
  BY <1>19 DEF vars
<1> QED
  BY <1>1, <1>2, <1>3, <1>4, <1>5, <1>6, <1>7, <1>8, <1>9, <1>10, <1>11, <1>12, <1>13, <1>14, <1>15, <1>16, <1>17, <1>18, <1>19 DEF Next, SenderStep, ConsumerStep, Terminated

\* The inductive invariant holds in every reachable state.
THEOREM Invariance == Spec => []IndInv
<1>1. Init => IndInv
  <2> SUFFICES ASSUME Init PROVE IndInv
    OBVIOUS
  <2>1. TypeOK
    <3>1. parked \in BOOLEAN /\ slot \in BOOLEAN /\ token \in BOOLEAN /\ took \in [Senders -> BOOLEAN]
      BY DEF Init
    <3>2. /\ buf \in [Threads -> Stores] /\ seq \in [Senders -> Nat]
          /\ pc \in [Threads -> SenderPcs \cup ConsumerPcs]
          /\ pc["C"] \in ConsumerPcs /\ \A s \in Senders : pc[s] \in SenderPcs
      BY ConstAssumption DEF Init, Threads, SenderPcs, ConsumerPcs, Stores
    <3> QED
      BY <3>1, <3>2, ConstAssumption DEF Init, TypeOK
  <2>2. BufInv /\ LockInv /\ SlotInv /\ FlagInv /\ RecheckInv /\ NoLostWake
    BY ConstAssumption DEF Init, BufInv, LockInv, SlotInv, FlagInv, RecheckInv, NoLostWake, Threads
  <2> QED
    BY <2>1, <2>2 DEF IndInv
<1>2. IndInv /\ [Next]_vars => IndInv'
  BY TypeOKStep, BufInvStep, LockInvStep, SlotInvStep, FlagInvStep, RecheckInvStep, NoLostWakeStep DEF IndInv
<1> QED
  BY <1>1, <1>2, PTL DEF Spec

\* Every variable keeps its type.
THEOREM TypeCorrect == Spec => []TypeOK
<1>1. IndInv => TypeOK
  BY DEF IndInv
<1> QED
  BY <1>1, Invariance, PTL

\* The two fences are enough: with any number of senders, and stores that are as
\* late as they like, the consumer is never left parked over a message or
\* after the last sender was dropped.
THEOREM WakeCorrect == Spec => []NoLostWake
<1>1. IndInv => NoLostWake
  BY DEF IndInv
<1> QED
  BY <1>1, Invariance, PTL
=============================================================================
