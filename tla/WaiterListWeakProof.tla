------------------------ MODULE WaiterListWeakProof ------------------------
(***************************************************************************)
(* Proofs about WaiterListWeak, for every set of senders, every capacity   *)
(* and every number of messages.                                           *)
(***************************************************************************)
EXTENDS WaiterListWeak, TLAPS

\* Every variable keeps its type.
LEMMA TypeOKStep == IndInv /\ [Next]_vars => TypeOK'
<1> SUFFICES ASSUME IndInv, [Next]_vars PROVE TypeOK'
  OBVIOUS
<1>0. TypeOK /\ BufInv
  BY DEF IndInv
<1> USE <1>0, ConstAssumption DEF TypeOK, BufInv, Threads, ring, SenderPcs, WaitPcs, ReceiverPcs, Stores
<1>1. ASSUME NEW t \in Threads, Commit(t) PROVE TypeOK'
  BY <1>1 DEF Commit
<1>2. ASSUME NEW s \in Senders, Call(s) PROVE TypeOK'
  BY <1>2 DEF Call, GoTo
<1>3. ASSUME NEW s \in Senders, TsDisconnected(s) PROVE TypeOK'
  BY <1>3 DEF TsDisconnected, GoTo
<1>4. ASSUME NEW s \in Senders, TsClaim(s) PROVE TypeOK'
  BY <1>4 DEF TsClaim, GoTo, Room
<1>5. ASSUME NEW s \in Senders, WaitPush(s) PROVE TypeOK'
  BY <1>5 DEF WaitPush, GoTo, Locked
<1>6. ASSUME NEW s \in Senders, WaitFlag(s) PROVE TypeOK'
  BY <1>6 DEF WaitFlag, GoTo, Store
<1>7. ASSUME NEW s \in Senders, RecheckClaim(s) PROVE TypeOK'
  BY <1>7 DEF RecheckClaim, GoTo, FenceP
<1>8. ASSUME NEW s \in Senders, RecheckHead(s) PROVE TypeOK'
  BY <1>8 DEF RecheckHead, GoTo
<1>9. ASSUME NEW s \in Senders, RecheckDisconnected(s) PROVE TypeOK'
  BY <1>9 DEF RecheckDisconnected, GoTo
<1>10. ASSUME NEW s \in Senders, Unpark(s) PROVE TypeOK'
  BY <1>10 DEF Unpark, GoTo
<1>11. ASSUME NEW s \in Senders, SpuriousUnpark(s) PROVE TypeOK'
  BY <1>11 DEF SpuriousUnpark, GoTo
<1>12. CASE TryRecv
  BY <1>12 DEF TryRecv, GoTo, Store
<1>13. CASE DropReceiver
  BY <1>13 DEF DropReceiver, GoTo, Store
<1>14. CASE WakeSwap
  BY <1>14 DEF WakeSwap, GoTo, FenceC, Done
<1>15. CASE WakeLock
  BY <1>15 DEF WakeLock, GoTo
<1>16. CASE WakeDrain
  BY <1>16 DEF WakeDrain, GoTo, Done
<1>17. CASE UNCHANGED vars
  BY <1>17 DEF vars
<1> QED
  BY <1>1, <1>2, <1>3, <1>4, <1>5, <1>6, <1>7, <1>8, <1>9, <1>10, <1>11, <1>12, <1>13, <1>14, <1>15, <1>16, <1>17 DEF Next, SenderStep, ReceiverStep, Terminated

\* Buffers and labels stay consistent.
LEMMA BufInvStep == IndInv /\ [Next]_vars => BufInv'
<1> SUFFICES ASSUME IndInv, [Next]_vars PROVE BufInv'
  OBVIOUS
<1>0. TypeOK /\ BufInv
  BY DEF IndInv
<1> USE <1>0, ConstAssumption DEF TypeOK, BufInv, Threads, ring, SenderPcs, WaitPcs, ReceiverPcs, Stores
<1>1. ASSUME NEW t \in Threads, Commit(t) PROVE BufInv'
  BY <1>1 DEF Commit
<1>2. ASSUME NEW s \in Senders, Call(s) PROVE BufInv'
  BY <1>2 DEF Call, GoTo
<1>3. ASSUME NEW s \in Senders, TsDisconnected(s) PROVE BufInv'
  BY <1>3 DEF TsDisconnected, GoTo
<1>4. ASSUME NEW s \in Senders, TsClaim(s) PROVE BufInv'
  BY <1>4 DEF TsClaim, GoTo, Room
<1>5. ASSUME NEW s \in Senders, WaitPush(s) PROVE BufInv'
  BY <1>5 DEF WaitPush, GoTo, Locked
<1>6. ASSUME NEW s \in Senders, WaitFlag(s) PROVE BufInv'
  BY <1>6 DEF WaitFlag, GoTo, Store
<1>7. ASSUME NEW s \in Senders, RecheckClaim(s) PROVE BufInv'
  BY <1>7 DEF RecheckClaim, GoTo, FenceP
<1>8. ASSUME NEW s \in Senders, RecheckHead(s) PROVE BufInv'
  BY <1>8 DEF RecheckHead, GoTo
<1>9. ASSUME NEW s \in Senders, RecheckDisconnected(s) PROVE BufInv'
  BY <1>9 DEF RecheckDisconnected, GoTo
<1>10. ASSUME NEW s \in Senders, Unpark(s) PROVE BufInv'
  BY <1>10 DEF Unpark, GoTo
<1>11. ASSUME NEW s \in Senders, SpuriousUnpark(s) PROVE BufInv'
  BY <1>11 DEF SpuriousUnpark, GoTo
<1>12. CASE TryRecv
  BY <1>12 DEF TryRecv, GoTo, Store
<1>13. CASE DropReceiver
  BY <1>13 DEF DropReceiver, GoTo, Store
<1>14. CASE WakeSwap
  BY <1>14 DEF WakeSwap, GoTo, FenceC, Done
<1>15. CASE WakeLock
  BY <1>15 DEF WakeLock, GoTo
<1>16. CASE WakeDrain
  BY <1>16 DEF WakeDrain, GoTo, Done
<1>17. CASE UNCHANGED vars
  BY <1>17 DEF vars
<1> QED
  BY <1>1, <1>2, <1>3, <1>4, <1>5, <1>6, <1>7, <1>8, <1>9, <1>10, <1>11, <1>12, <1>13, <1>14, <1>15, <1>16, <1>17 DEF Next, SenderStep, ReceiverStep, Terminated

\* A sender that has registered stays in the list until it is unparked.
LEMMA ListInvStep == IndInv /\ [Next]_vars => ListInv'
<1> SUFFICES ASSUME IndInv, [Next]_vars PROVE ListInv'
  OBVIOUS
<1>0. TypeOK /\ ListInv
  BY DEF IndInv
<1> USE <1>0, ConstAssumption DEF TypeOK, ListInv, Threads, ring, SenderPcs, WaitPcs, ReceiverPcs, Stores
<1>1. ASSUME NEW t \in Threads, Commit(t) PROVE ListInv'
  BY <1>1 DEF Commit
<1>2. ASSUME NEW s \in Senders, Call(s) PROVE ListInv'
  BY <1>2 DEF Call, GoTo
<1>3. ASSUME NEW s \in Senders, TsDisconnected(s) PROVE ListInv'
  BY <1>3 DEF TsDisconnected, GoTo
<1>4. ASSUME NEW s \in Senders, TsClaim(s) PROVE ListInv'
  BY <1>4 DEF TsClaim, GoTo, Room
<1>5. ASSUME NEW s \in Senders, WaitPush(s) PROVE ListInv'
  BY <1>5 DEF WaitPush, GoTo, Locked
<1>6. ASSUME NEW s \in Senders, WaitFlag(s) PROVE ListInv'
  BY <1>6 DEF WaitFlag, GoTo, Store
<1>7. ASSUME NEW s \in Senders, RecheckClaim(s) PROVE ListInv'
  BY <1>7 DEF RecheckClaim, GoTo, FenceP
<1>8. ASSUME NEW s \in Senders, RecheckHead(s) PROVE ListInv'
  BY <1>8 DEF RecheckHead, GoTo
<1>9. ASSUME NEW s \in Senders, RecheckDisconnected(s) PROVE ListInv'
  BY <1>9 DEF RecheckDisconnected, GoTo
<1>10. ASSUME NEW s \in Senders, Unpark(s) PROVE ListInv'
  BY <1>10 DEF Unpark, GoTo
<1>11. ASSUME NEW s \in Senders, SpuriousUnpark(s) PROVE ListInv'
  BY <1>11 DEF SpuriousUnpark, GoTo
<1>12. CASE TryRecv
  BY <1>12 DEF TryRecv, GoTo, Store
<1>13. CASE DropReceiver
  BY <1>13 DEF DropReceiver, GoTo, Store
<1>14. CASE WakeSwap
  BY <1>14 DEF WakeSwap, GoTo, FenceC, Done
<1>15. CASE WakeLock
  BY <1>15 DEF WakeLock, GoTo
<1>16. CASE WakeDrain
  BY <1>16 DEF WakeDrain, GoTo, Done
<1>17. CASE UNCHANGED vars
  BY <1>17 DEF vars
<1> QED
  BY <1>1, <1>2, <1>3, <1>4, <1>5, <1>6, <1>7, <1>8, <1>9, <1>10, <1>11, <1>12, <1>13, <1>14, <1>15, <1>16, <1>17 DEF Next, SenderStep, ReceiverStep, Terminated

\* After its fence a sender's flag is up until the receiver goes to the list.
LEMMA FlagInvStep == IndInv /\ [Next]_vars => FlagInv'
<1> SUFFICES ASSUME IndInv, [Next]_vars PROVE FlagInv'
  OBVIOUS
<1>0. TypeOK /\ BufInv /\ ListInv /\ FlagInv
  BY DEF IndInv
<1> USE <1>0, ConstAssumption DEF TypeOK, BufInv, ListInv, FlagInv, Threads, ring, SenderPcs, WaitPcs, ReceiverPcs, Stores
<1>1. ASSUME NEW t \in Threads, Commit(t) PROVE FlagInv'
  BY <1>1 DEF Commit
<1>2. ASSUME NEW s \in Senders, Call(s) PROVE FlagInv'
  BY <1>2 DEF Call, GoTo
<1>3. ASSUME NEW s \in Senders, TsDisconnected(s) PROVE FlagInv'
  BY <1>3 DEF TsDisconnected, GoTo
<1>4. ASSUME NEW s \in Senders, TsClaim(s) PROVE FlagInv'
  BY <1>4 DEF TsClaim, GoTo, Room
<1>5. ASSUME NEW s \in Senders, WaitPush(s) PROVE FlagInv'
  BY <1>5 DEF WaitPush, GoTo, Locked
<1>6. ASSUME NEW s \in Senders, WaitFlag(s) PROVE FlagInv'
  BY <1>6 DEF WaitFlag, GoTo, Store
<1>7. ASSUME NEW s \in Senders, RecheckClaim(s) PROVE FlagInv'
  BY <1>7 DEF RecheckClaim, GoTo, FenceP
<1>8. ASSUME NEW s \in Senders, RecheckHead(s) PROVE FlagInv'
  BY <1>8 DEF RecheckHead, GoTo
<1>9. ASSUME NEW s \in Senders, RecheckDisconnected(s) PROVE FlagInv'
  BY <1>9 DEF RecheckDisconnected, GoTo
<1>10. ASSUME NEW s \in Senders, Unpark(s) PROVE FlagInv'
  BY <1>10 DEF Unpark, GoTo
<1>11. ASSUME NEW s \in Senders, SpuriousUnpark(s) PROVE FlagInv'
  BY <1>11 DEF SpuriousUnpark, GoTo
<1>12. CASE TryRecv
  BY <1>12 DEF TryRecv, GoTo, Store
<1>13. CASE DropReceiver
  BY <1>13 DEF DropReceiver, GoTo, Store
<1>14. CASE WakeSwap
  BY <1>14 DEF WakeSwap, GoTo, FenceC, Done
<1>15. CASE WakeLock
  BY <1>15 DEF WakeLock, GoTo
<1>16. CASE WakeDrain
  BY <1>16 DEF WakeDrain, GoTo, Done
<1>17. CASE UNCHANGED vars
  BY <1>17 DEF vars
<1> QED
  BY <1>1, <1>2, <1>3, <1>4, <1>5, <1>6, <1>7, <1>8, <1>9, <1>10, <1>11, <1>12, <1>13, <1>14, <1>15, <1>16, <1>17 DEF Next, SenderStep, ReceiverStep, Terminated

\* Room that a re-check came too early to see is still announced.
LEMMA RecheckInvStep == IndInv /\ [Next]_vars => RecheckInv'
<1> SUFFICES ASSUME IndInv, [Next]_vars PROVE RecheckInv'
  OBVIOUS
<1>0. TypeOK /\ BufInv /\ ListInv /\ FlagInv /\ RecheckInv
  BY DEF IndInv
<1> USE <1>0, ConstAssumption DEF TypeOK, BufInv, ListInv, FlagInv, RecheckInv, WakeComing, Room, Threads, ring, SenderPcs, WaitPcs, ReceiverPcs, Stores
<1>1. ASSUME NEW t \in Threads, Commit(t) PROVE RecheckInv'
  BY <1>1 DEF Commit
<1>2. ASSUME NEW s \in Senders, Call(s) PROVE RecheckInv'
  BY <1>2 DEF Call, GoTo
<1>3. ASSUME NEW s \in Senders, TsDisconnected(s) PROVE RecheckInv'
  BY <1>3 DEF TsDisconnected, GoTo
<1>4. ASSUME NEW s \in Senders, TsClaim(s) PROVE RecheckInv'
  BY <1>4 DEF TsClaim, GoTo, Room
<1>5. ASSUME NEW s \in Senders, WaitPush(s) PROVE RecheckInv'
  BY <1>5 DEF WaitPush, GoTo, Locked
<1>6. ASSUME NEW s \in Senders, WaitFlag(s) PROVE RecheckInv'
  BY <1>6 DEF WaitFlag, GoTo, Store
<1>7. ASSUME NEW s \in Senders, RecheckClaim(s) PROVE RecheckInv'
  BY <1>7 DEF RecheckClaim, GoTo, FenceP
<1>8. ASSUME NEW s \in Senders, RecheckHead(s) PROVE RecheckInv'
  BY <1>8 DEF RecheckHead, GoTo
<1>9. ASSUME NEW s \in Senders, RecheckDisconnected(s) PROVE RecheckInv'
  BY <1>9 DEF RecheckDisconnected, GoTo
<1>10. ASSUME NEW s \in Senders, Unpark(s) PROVE RecheckInv'
  BY <1>10 DEF Unpark, GoTo
<1>11. ASSUME NEW s \in Senders, SpuriousUnpark(s) PROVE RecheckInv'
  BY <1>11 DEF SpuriousUnpark, GoTo
<1>12. CASE TryRecv
  BY <1>12 DEF TryRecv, GoTo, Store
<1>13. CASE DropReceiver
  BY <1>13 DEF DropReceiver, GoTo, Store
<1>14. CASE WakeSwap
  BY <1>14 DEF WakeSwap, GoTo, FenceC, Done
<1>15. CASE WakeLock
  BY <1>15 DEF WakeLock, GoTo
<1>16. CASE WakeDrain
  BY <1>16 DEF WakeDrain, GoTo, Done
<1>17. CASE UNCHANGED vars
  BY <1>17 DEF vars
<1> QED
  BY <1>1, <1>2, <1>3, <1>4, <1>5, <1>6, <1>7, <1>8, <1>9, <1>10, <1>11, <1>12, <1>13, <1>14, <1>15, <1>16, <1>17 DEF Next, SenderStep, ReceiverStep, Terminated

\* No step leaves a sender behind.
LEMMA NobodyLeftParkedStep == IndInv /\ [Next]_vars => NobodyLeftParked'
<1> SUFFICES ASSUME IndInv, [Next]_vars PROVE NobodyLeftParked'
  OBVIOUS
<1>0. TypeOK /\ BufInv /\ ListInv /\ FlagInv /\ RecheckInv /\ NobodyLeftParked
  BY DEF IndInv
<1> USE <1>0, ConstAssumption DEF TypeOK, BufInv, ListInv, FlagInv, RecheckInv, NobodyLeftParked, WakeComing, Room, Threads, ring, SenderPcs, WaitPcs, ReceiverPcs, Stores
<1>1. ASSUME NEW t \in Threads, Commit(t) PROVE NobodyLeftParked'
  BY <1>1 DEF Commit
<1>2. ASSUME NEW s \in Senders, Call(s) PROVE NobodyLeftParked'
  BY <1>2 DEF Call, GoTo
<1>3. ASSUME NEW s \in Senders, TsDisconnected(s) PROVE NobodyLeftParked'
  BY <1>3 DEF TsDisconnected, GoTo
<1>4. ASSUME NEW s \in Senders, TsClaim(s) PROVE NobodyLeftParked'
  BY <1>4 DEF TsClaim, GoTo, Room
<1>5. ASSUME NEW s \in Senders, WaitPush(s) PROVE NobodyLeftParked'
  BY <1>5 DEF WaitPush, GoTo, Locked
<1>6. ASSUME NEW s \in Senders, WaitFlag(s) PROVE NobodyLeftParked'
  BY <1>6 DEF WaitFlag, GoTo, Store
<1>7. ASSUME NEW s \in Senders, RecheckClaim(s) PROVE NobodyLeftParked'
  BY <1>7 DEF RecheckClaim, GoTo, FenceP
<1>8. ASSUME NEW s \in Senders, RecheckHead(s) PROVE NobodyLeftParked'
  BY <1>8 DEF RecheckHead, GoTo
<1>9. ASSUME NEW s \in Senders, RecheckDisconnected(s) PROVE NobodyLeftParked'
  BY <1>9 DEF RecheckDisconnected, GoTo
<1>10. ASSUME NEW s \in Senders, Unpark(s) PROVE NobodyLeftParked'
  BY <1>10 DEF Unpark, GoTo
<1>11. ASSUME NEW s \in Senders, SpuriousUnpark(s) PROVE NobodyLeftParked'
  BY <1>11 DEF SpuriousUnpark, GoTo
<1>12. CASE TryRecv
  BY <1>12 DEF TryRecv, GoTo, Store
<1>13. CASE DropReceiver
  BY <1>13 DEF DropReceiver, GoTo, Store
<1>14. CASE WakeSwap
  BY <1>14 DEF WakeSwap, GoTo, FenceC, Done
<1>15. CASE WakeLock
  BY <1>15 DEF WakeLock, GoTo
<1>16. CASE WakeDrain
  BY <1>16 DEF WakeDrain, GoTo, Done
<1>17. CASE UNCHANGED vars
  BY <1>17 DEF vars
<1> QED
  BY <1>1, <1>2, <1>3, <1>4, <1>5, <1>6, <1>7, <1>8, <1>9, <1>10, <1>11, <1>12, <1>13, <1>14, <1>15, <1>16, <1>17 DEF Next, SenderStep, ReceiverStep, Terminated

\* The inductive invariant holds in every reachable state.
THEOREM Invariance == Spec => []IndInv
<1>1. Init => IndInv
  <2> SUFFICES ASSUME Init PROVE IndInv
    OBVIOUS
  <2>1. TypeOK
    <3>1. rxDropped \in BOOLEAN /\ waiting \in BOOLEAN /\ token \in [Senders -> BOOLEAN]
          /\ seen \in [Senders -> Nat]
      BY DEF Init
    <3>2. /\ buf \in [Threads -> Stores]
          /\ pc \in [Threads -> SenderPcs \cup ReceiverPcs]
          /\ pc["C"] \in ReceiverPcs /\ \A s \in Senders : pc[s] \in SenderPcs
      BY DEF Init, Threads, SenderPcs, WaitPcs, ReceiverPcs, Stores
    <3> QED
      BY <3>1, <3>2, ConstAssumption DEF Init, TypeOK
  <2>2. BufInv /\ ListInv /\ FlagInv /\ RecheckInv /\ NobodyLeftParked
    BY DEF Init, BufInv, ListInv, FlagInv, RecheckInv, NobodyLeftParked, WaitPcs, Threads
  <2> QED
    BY <2>1, <2>2 DEF IndInv
<1>2. IndInv /\ [Next]_vars => IndInv'
  BY TypeOKStep, BufInvStep, ListInvStep, FlagInvStep, RecheckInvStep, NobodyLeftParkedStep DEF IndInv
<1> QED
  BY <1>1, <1>2, PTL DEF Spec

\* Every variable keeps its type, and the ring its capacity.
THEOREM TypeCorrect == Spec => []TypeOK
<1>1. IndInv => TypeOK
  BY DEF IndInv
<1> QED
  BY <1>1, Invariance, PTL

\* With any number of senders, and stores that are as late as they like, none of
\* them stays parked over room or over a receiver that is gone.
THEOREM WakeAllCorrect == Spec => []NobodyLeftParked
<1>1. IndInv => NobodyLeftParked
  BY DEF IndInv
<1> QED
  BY <1>1, Invariance, PTL
=============================================================================
