--------------------------- MODULE ShardedProof ---------------------------
(***************************************************************************)
(* Proofs about Sharded, for every number of shards, every capacity, every *)
(* visit budget and every bound on the messages.                           *)
(***************************************************************************)
EXTENDS ShardedInv, SequenceTheorems, TLAPS

\* There is a shard, and it has room for a message.
LEMMA Positive == NShards \in Nat \ {0} /\ PerShard \in Nat \ {0}
<1>1. NShards \in Nat \ {0} /\ TotalCap \in Nat
  BY ChannelAssumption DEF channel_accepts
<1>2. PerShard \in Int
  BY <1>1 DEF PerShard
<1>3. PerShard > 0
  BY ChannelAssumption DEF channel_accepts, PerShard
<1> QED
  BY <1>1, <1>2, <1>3

\* Capacities divide evenly: the shards share all of total_cap.
LEMMA Capacities == TotalCap = NShards * PerShard
<1>1. NShards \in Nat \ {0} /\ TotalCap \in Nat /\ TotalCap % NShards = 0
  BY ChannelAssumption DEF channel_accepts
<1>2. TotalCap = (NShards * PerShard) + (TotalCap % NShards)
  BY <1>1 DEF PerShard
<1> QED
  BY <1>1, <1>2, Positive

\* The types of the rings survive a step of any action.
LEMMA RingTypesStep == TypeOK /\ [Next]_vars => RingTypes'
<1> SUFFICES ASSUME TypeOK, [Next]_vars PROVE RingTypes'
  OBVIOUS
<1>0. RingTypes /\ cursor \in Shards /\ visited \in Shards
  BY DEF TypeOK, RingTypes, ReceiverTypes
<1> USE <1>0, Positive, ConstAssumption DEF RingTypes, shards, senders, sweep, rctl, history
<1>1. ASSUME NEW s \in Shards, NEW o \in {"try_send", "send"}, SenderCall(s, o) PROVE RingTypes'
  BY <1>1 DEF SenderCall
<1>2. ASSUME NEW s \in Shards, TsDisconnected(s) PROVE RingTypes'
  BY <1>2 DEF TsDisconnected, SenderReturn
<1>3. ASSUME NEW s \in Shards, TsSend(s) PROVE RingTypes'
  BY <1>3 DEF TsSend, SenderReturn
<1>4. ASSUME NEW s \in Shards, DropSender(s) PROVE RingTypes'
  BY <1>4 DEF DropSender
<1>5. ASSUME NEW s \in Shards, SenderArc(s) PROVE RingTypes'
  BY <1>5 DEF SenderArc, Release
<1>6. ASSUME NEW o \in {"try_recv", "recv"}, ReceiverCall(o) PROVE RingTypes'
  BY <1>6 DEF ReceiverCall
<1>7. CASE Retry
  BY <1>7 DEF Retry
<1>8. CASE TrTail
  <2>1. CASE Pending(cursor) > 0 /\ Take
    BY <2>1 DEF Take, MoveOut, Pending
  <2>2. CASE UNCHANGED shards
    BY <2>2
  <2> QED
    BY <1>8, <2>1, <2>2 DEF TrTail
<1>9. CASE TrDisconnected
  BY <1>9 DEF TrDisconnected, Leave
<1>10. CASE TrLast
  <2>1. CASE Pending(cursor) > 0 /\ Take
    BY <2>1 DEF Take, MoveOut, Pending
  <2>2. CASE Leave(1)
    BY <2>2 DEF Leave
  <2> QED
    BY <1>10, <2>1, <2>2 DEF TrLast
<1>11. ASSUME NEW m \in DrainLimits, DrainCall(m) PROVE RingTypes'
  BY <1>11 DEF DrainCall
<1>12. CASE DrTake
  BY <1>12 DEF DrTake, MoveOut, Pending
<1>19. CASE DrEnd
  BY <1>19 DEF DrEnd
<1>13. CASE DrShardDone
  BY <1>13 DEF DrShardDone, PublishGuardDrop
<1>14. CASE DrUnwind
  BY <1>14 DEF DrUnwind, PublishGuardDrop
<1>15. CASE DropReceiver
  BY <1>15 DEF DropReceiver
<1>16. CASE RxDrop
  BY <1>16 DEF RxDrop
<1>17. CASE RxArc
  BY <1>17 DEF RxArc, Release
<1>18. CASE UNCHANGED vars
  BY <1>18 DEF vars
<1> QED
  BY <1>1, <1>2, <1>3, <1>4, <1>5, <1>6, <1>7, <1>8, <1>9, <1>10, <1>11, <1>12, <1>13, <1>14, <1>15, <1>16, <1>17, <1>18, <1>19 DEF Next, SenderStep, ReceiverStep, Calls, Terminated

\* The types of the senders survive a step of any action.
LEMMA SenderTypesStep == TypeOK /\ [Next]_vars => SenderTypes'
<1> SUFFICES ASSUME TypeOK, [Next]_vars PROVE SenderTypes'
  OBVIOUS
<1>0. SenderTypes
  BY DEF TypeOK, RingTypes, ReceiverTypes
<1> USE <1>0, Positive, ConstAssumption DEF SenderTypes, SenderPcs, shards, senders, sweep, rctl, history
<1>1. ASSUME NEW s \in Shards, NEW o \in {"try_send", "send"}, SenderCall(s, o) PROVE SenderTypes'
  BY <1>1 DEF SenderCall
<1>2. ASSUME NEW s \in Shards, TsDisconnected(s) PROVE SenderTypes'
  BY <1>2 DEF TsDisconnected, SenderReturn
<1>3. ASSUME NEW s \in Shards, TsSend(s) PROVE SenderTypes'
  BY <1>3 DEF TsSend, SenderReturn
<1>4. ASSUME NEW s \in Shards, DropSender(s) PROVE SenderTypes'
  BY <1>4 DEF DropSender
<1>5. ASSUME NEW s \in Shards, SenderArc(s) PROVE SenderTypes'
  BY <1>5 DEF SenderArc, Release
<1>6. ASSUME NEW o \in {"try_recv", "recv"}, ReceiverCall(o) PROVE SenderTypes'
  BY <1>6 DEF ReceiverCall, BeginSweep, advance
<1>7. CASE Retry
  BY <1>7 DEF Retry, BeginSweep, advance
<1>8. CASE TrTail
  BY <1>8 DEF TrTail, Take, MoveOut, Answer, SweepEnds
<1>9. CASE TrDisconnected
  BY <1>9 DEF TrDisconnected, Leave, advance, Answer, SweepEnds
<1>10. CASE TrLast
  BY <1>10 DEF TrLast, Take, MoveOut, Leave, advance, Answer, SweepEnds
<1>11. ASSUME NEW m \in DrainLimits, DrainCall(m) PROVE SenderTypes'
  BY <1>11 DEF DrainCall
<1>12. CASE DrTake
  BY <1>12 DEF DrTake, MoveOut
<1>19. CASE DrEnd
  BY <1>19 DEF DrEnd
<1>13. CASE DrShardDone
  BY <1>13 DEF DrShardDone, PublishGuardDrop, advance, Answer, SweepEnds
<1>14. CASE DrUnwind
  BY <1>14 DEF DrUnwind, PublishGuardDrop, Answer, SweepEnds
<1>15. CASE DropReceiver
  BY <1>15 DEF DropReceiver
<1>16. CASE RxDrop
  BY <1>16 DEF RxDrop
<1>17. CASE RxArc
  BY <1>17 DEF RxArc, Release
<1>18. CASE UNCHANGED vars
  BY <1>18 DEF vars
<1> QED
  BY <1>1, <1>2, <1>3, <1>4, <1>5, <1>6, <1>7, <1>8, <1>9, <1>10, <1>11, <1>12, <1>13, <1>14, <1>15, <1>16, <1>17, <1>18, <1>19 DEF Next, SenderStep, ReceiverStep, Calls, Terminated

\* The types of the receiver's locals survive a step of any action.
LEMMA ReceiverTypesStep == TypeOK /\ [Next]_vars => ReceiverTypes'
<1> SUFFICES ASSUME TypeOK, [Next]_vars PROVE ReceiverTypes'
  OBVIOUS
<1>0. ReceiverTypes /\ (\A s \in Shards : chead[s] - head[s] \in Nat)
  BY DEF TypeOK, RingTypes, ReceiverTypes
<1> USE <1>0, Positive, ConstAssumption DEF ReceiverTypes, ReceiverPcs, took, Shards, shards, senders, sweep, rctl, history
<1>1. ASSUME NEW s \in Shards, NEW o \in {"try_send", "send"}, SenderCall(s, o) PROVE ReceiverTypes'
  BY <1>1 DEF SenderCall
<1>2. ASSUME NEW s \in Shards, TsDisconnected(s) PROVE ReceiverTypes'
  BY <1>2 DEF TsDisconnected, SenderReturn
<1>3. ASSUME NEW s \in Shards, TsSend(s) PROVE ReceiverTypes'
  BY <1>3 DEF TsSend, SenderReturn
<1>4. ASSUME NEW s \in Shards, DropSender(s) PROVE ReceiverTypes'
  BY <1>4 DEF DropSender
<1>5. ASSUME NEW s \in Shards, SenderArc(s) PROVE ReceiverTypes'
  BY <1>5 DEF SenderArc, Release
<1>6. ASSUME NEW o \in {"try_recv", "recv"}, ReceiverCall(o) PROVE ReceiverTypes'
  BY <1>6 DEF ReceiverCall, BeginSweep, advance
<1>7. CASE Retry
  BY <1>7 DEF Retry, BeginSweep, advance
<1>8. CASE TrTail
  BY <1>8 DEF TrTail, Take, MoveOut, Answer, SweepEnds
<1>9. CASE TrDisconnected
  BY <1>9 DEF TrDisconnected, Leave, advance, Answer, SweepEnds
<1>10. CASE TrLast
  BY <1>10 DEF TrLast, Take, MoveOut, Leave, advance, Answer, SweepEnds
<1>11. ASSUME NEW m \in DrainLimits, DrainCall(m) PROVE ReceiverTypes'
  BY <1>11 DEF DrainCall
<1>12. CASE DrTake
  BY <1>12 DEF DrTake, MoveOut
<1>19. CASE DrEnd
  BY <1>19 DEF DrEnd
<1>13. CASE DrShardDone
  BY <1>13 DEF DrShardDone, PublishGuardDrop, advance, Answer, SweepEnds
<1>14. CASE DrUnwind
  BY <1>14 DEF DrUnwind, PublishGuardDrop, Answer, SweepEnds
<1>15. CASE DropReceiver
  BY <1>15 DEF DropReceiver
<1>16. CASE RxDrop
  BY <1>16 DEF RxDrop
<1>17. CASE RxArc
  BY <1>17 DEF RxArc, Release
<1>18. CASE UNCHANGED vars
  BY <1>18 DEF vars
<1> QED
  BY <1>1, <1>2, <1>3, <1>4, <1>5, <1>6, <1>7, <1>8, <1>9, <1>10, <1>11, <1>12, <1>13, <1>14, <1>15, <1>16, <1>17, <1>18, <1>19 DEF Next, SenderStep, ReceiverStep, Calls, Terminated

\* The types of the history survive a step of any action.
LEMMA HistoryTypesStep == TypeOK /\ [Next]_vars => HistoryTypes'
<1> SUFFICES ASSUME TypeOK, [Next]_vars PROVE HistoryTypes'
  OBVIOUS
<1>0. HistoryTypes /\ tail \in [Shards -> Nat] /\ cursor \in Shards
  BY DEF TypeOK, RingTypes, ReceiverTypes
<1> USE <1>0, Positive, ConstAssumption DEF HistoryTypes, shards, senders, sweep, rctl, history
<1>1. ASSUME NEW s \in Shards, NEW o \in {"try_send", "send"}, SenderCall(s, o) PROVE HistoryTypes'
  BY <1>1 DEF SenderCall
<1>2. ASSUME NEW s \in Shards, TsDisconnected(s) PROVE HistoryTypes'
  BY <1>2 DEF TsDisconnected, SenderReturn
<1>3. ASSUME NEW s \in Shards, TsSend(s) PROVE HistoryTypes'
  BY <1>3 DEF TsSend, SenderReturn
<1>4. ASSUME NEW s \in Shards, DropSender(s) PROVE HistoryTypes'
  BY <1>4 DEF DropSender
<1>5. ASSUME NEW s \in Shards, SenderArc(s) PROVE HistoryTypes'
  BY <1>5 DEF SenderArc, Release
<1>6. ASSUME NEW o \in {"try_recv", "recv"}, ReceiverCall(o) PROVE HistoryTypes'
  BY <1>6 DEF ReceiverCall, BeginSweep, advance
<1>7. CASE Retry
  BY <1>7 DEF Retry, BeginSweep, advance
<1>8. CASE TrTail
  BY <1>8 DEF TrTail, Take, MoveOut
<1>9. CASE TrDisconnected
  BY <1>9 DEF TrDisconnected, Leave, advance, Answer, SweepEnds
<1>10. CASE TrLast
  <2>1. CASE Take
    BY <2>1 DEF Take, MoveOut
  <2>2. CASE Leave(1) /\ told' = [told EXCEPT ![cursor] = @ \cup {"rx"}]
    BY <2>2 DEF Leave
  <2> QED
    BY <1>10, <2>1, <2>2 DEF TrLast
<1>11. ASSUME NEW m \in DrainLimits, DrainCall(m) PROVE HistoryTypes'
  BY <1>11 DEF DrainCall
<1>12. CASE DrTake
  BY <1>12 DEF DrTake, MoveOut
<1>19. CASE DrEnd
  BY <1>19 DEF DrEnd
<1>13. CASE DrShardDone
  BY <1>13 DEF DrShardDone, PublishGuardDrop, advance, Answer, SweepEnds
<1>14. CASE DrUnwind
  BY <1>14 DEF DrUnwind, PublishGuardDrop, Answer, SweepEnds
<1>15. CASE DropReceiver
  BY <1>15 DEF DropReceiver
<1>16. CASE RxDrop
  BY <1>16 DEF RxDrop
<1>17. CASE RxArc
  BY <1>17 DEF RxArc, Release
<1>18. CASE UNCHANGED vars
  BY <1>18 DEF vars
<1> QED
  BY <1>1, <1>2, <1>3, <1>4, <1>5, <1>6, <1>7, <1>8, <1>9, <1>10, <1>11, <1>12, <1>13, <1>14, <1>15, <1>16, <1>17, <1>18, <1>19 DEF Next, SenderStep, ReceiverStep, Calls, Terminated

\* TypeOK is preserved: its four parts are.
LEMMA TypeStep == TypeOK /\ [Next]_vars => TypeOK'
BY RingTypesStep, SenderTypesStep, ReceiverTypesStep, HistoryTypesStep DEF TypeOK

\* A sender's label, call and handles stay consistent.
LEMMA SenderInvStep == IndInv /\ [Next]_vars => SenderInv'
<1> SUFFICES ASSUME IndInv, [Next]_vars PROVE SenderInv'
  OBVIOUS
<1>0. SenderInv /\ SenderTypes /\ RingTypes /\ visited \in Shards
  BY DEF IndInv, TypeOK, ReceiverTypes
<1> USE <1>0, ConstAssumption DEF SenderInv, SenderTypes, RingTypes, SenderPcs, shards, senders, sweep, rctl, history
<1>1. ASSUME NEW s \in Shards, NEW o \in {"try_send", "send"}, SenderCall(s, o) PROVE SenderInv'
  BY <1>1 DEF SenderCall
<1>2. ASSUME NEW s \in Shards, TsDisconnected(s) PROVE SenderInv'
  BY <1>2 DEF TsDisconnected, SenderReturn
<1>3. ASSUME NEW s \in Shards, TsSend(s) PROVE SenderInv'
  BY <1>3 DEF TsSend, SenderReturn
<1>4. ASSUME NEW s \in Shards, DropSender(s) PROVE SenderInv'
  BY <1>4 DEF DropSender
<1>5. ASSUME NEW s \in Shards, SenderArc(s) PROVE SenderInv'
  BY <1>5 DEF SenderArc, Release
<1>6. ASSUME NEW o \in {"try_recv", "recv"}, ReceiverCall(o) PROVE SenderInv'
  BY <1>6 DEF ReceiverCall
<1>7. CASE Retry
  BY <1>7 DEF Retry
<1>8. CASE TrTail
  BY <1>8 DEF TrTail, Take, MoveOut
<1>9. CASE TrDisconnected
  BY <1>9 DEF TrDisconnected, Leave
<1>10. CASE TrLast
  BY <1>10 DEF TrLast, Take, MoveOut, Leave
<1>11. ASSUME NEW m \in DrainLimits, DrainCall(m) PROVE SenderInv'
  BY <1>11 DEF DrainCall
<1>12. CASE DrTake
  BY <1>12 DEF DrTake, MoveOut
<1>19. CASE DrEnd
  BY <1>19 DEF DrEnd
<1>13. CASE DrShardDone
  BY <1>13 DEF DrShardDone, PublishGuardDrop
<1>14. CASE DrUnwind
  BY <1>14 DEF DrUnwind, PublishGuardDrop
<1>15. CASE DropReceiver
  BY <1>15 DEF DropReceiver
<1>16. CASE RxDrop
  BY <1>16 DEF RxDrop
<1>17. CASE RxArc
  BY <1>17 DEF RxArc, Release
<1>18. CASE UNCHANGED vars
  BY <1>18 DEF vars
<1> QED
  BY <1>1, <1>2, <1>3, <1>4, <1>5, <1>6, <1>7, <1>8, <1>9, <1>10, <1>11, <1>12, <1>13, <1>14, <1>15, <1>16, <1>17, <1>18, <1>19 DEF Next, SenderStep, ReceiverStep, Calls, Terminated

\* The receiver's label, call, counters and rings stay consistent.
LEMMA ReceiverInvStep == IndInv /\ [Next]_vars => ReceiverInv'
<1> SUFFICES ASSUME IndInv, [Next]_vars PROVE ReceiverInv'
  OBVIOUS
<1>0. ReceiverInv /\ ReceiverTypes /\ live \in [Shards -> SUBSET {"tx", "rx"}] /\ refs \in [Shards -> SUBSET {"tx", "rx"}]
  BY DEF IndInv, TypeOK, RingTypes
<1> USE <1>0, Positive DEF ReceiverInv, ReceiverTypes, ReceiverPcs, RecvPcs, DrainPcs, Shards, shards, senders, sweep, rctl, history
<1>1. ASSUME NEW s \in Shards, NEW o \in {"try_send", "send"}, SenderCall(s, o) PROVE ReceiverInv'
  BY <1>1 DEF SenderCall
<1>2. ASSUME NEW s \in Shards, TsDisconnected(s) PROVE ReceiverInv'
  BY <1>2 DEF TsDisconnected, SenderReturn
<1>3. ASSUME NEW s \in Shards, TsSend(s) PROVE ReceiverInv'
  BY <1>3 DEF TsSend, SenderReturn
<1>4. ASSUME NEW s \in Shards, DropSender(s) PROVE ReceiverInv'
  BY <1>4 DEF DropSender
<1>5. ASSUME NEW s \in Shards, SenderArc(s) PROVE ReceiverInv'
  BY <1>5 DEF SenderArc, Release
<1>6. ASSUME NEW o \in {"try_recv", "recv"}, ReceiverCall(o) PROVE ReceiverInv'
  BY <1>6 DEF ReceiverCall, BeginSweep, advance
<1>7. CASE Retry
  BY <1>7 DEF Retry, BeginSweep, advance
<1>8. CASE TrTail
  BY <1>8 DEF TrTail, Take, MoveOut, Answer, SweepEnds
<1>9. CASE TrDisconnected
  BY <1>9 DEF TrDisconnected, Leave, advance, Answer, SweepEnds
<1>10. CASE TrLast
  BY <1>10 DEF TrLast, Take, MoveOut, Leave, advance, Answer, SweepEnds
<1>11. ASSUME NEW m \in DrainLimits, DrainCall(m) PROVE ReceiverInv'
  BY <1>11 DEF DrainCall
<1>12. CASE DrTake
  BY <1>12 DEF DrTake, MoveOut
<1>19. CASE DrEnd
  BY <1>19 DEF DrEnd
<1>13. CASE DrShardDone
  BY <1>13 DEF DrShardDone, PublishGuardDrop, advance, Answer, SweepEnds
<1>14. CASE DrUnwind
  BY <1>14 DEF DrUnwind, PublishGuardDrop, Answer, SweepEnds
<1>15. CASE DropReceiver
  BY <1>15 DEF DropReceiver
<1>16. CASE RxDrop
  BY <1>16 DEF RxDrop
<1>17. CASE RxArc
  BY <1>17 DEF RxArc, Release
<1>18. CASE UNCHANGED vars
  BY <1>18 DEF vars
<1> QED
  BY <1>1, <1>2, <1>3, <1>4, <1>5, <1>6, <1>7, <1>8, <1>9, <1>10, <1>11, <1>12, <1>13, <1>14, <1>15, <1>16, <1>17, <1>18, <1>19 DEF Next, SenderStep, ReceiverStep, Calls, Terminated

\* No shard ever holds more than its capacity.
LEMMA RingInvStep == IndInv /\ [Next]_vars => RingInv'
<1> SUFFICES ASSUME IndInv, [Next]_vars PROVE RingInv'
  OBVIOUS
<1>0. RingInv /\ RingTypes /\ cursor \in Shards /\ visited \in Shards
      /\ (rop = "drain" <=> rpc \in {"dr_take", "dr_guard", "dr_unwind"})
  BY DEF IndInv, TypeOK, ReceiverTypes, ReceiverInv, DrainPcs
<1> USE <1>0, Positive DEF RingInv, RingTypes, shards, senders, sweep, rctl, history
<1>1. ASSUME NEW s \in Shards, NEW o \in {"try_send", "send"}, SenderCall(s, o) PROVE RingInv'
  BY <1>1 DEF SenderCall
<1>2. ASSUME NEW s \in Shards, TsDisconnected(s) PROVE RingInv'
  BY <1>2 DEF TsDisconnected, SenderReturn
<1>3. ASSUME NEW s \in Shards, TsSend(s) PROVE RingInv'
  BY <1>3 DEF TsSend, SenderReturn
<1>4. ASSUME NEW s \in Shards, DropSender(s) PROVE RingInv'
  BY <1>4 DEF DropSender
<1>5. ASSUME NEW s \in Shards, SenderArc(s) PROVE RingInv'
  BY <1>5 DEF SenderArc, Release
<1>6. ASSUME NEW o \in {"try_recv", "recv"}, ReceiverCall(o) PROVE RingInv'
  BY <1>6 DEF ReceiverCall, BeginSweep, advance
<1>7. CASE Retry
  BY <1>7 DEF Retry, BeginSweep, advance
<1>8. CASE TrTail
  BY <1>8 DEF TrTail, Take, MoveOut, Answer, SweepEnds
<1>9. CASE TrDisconnected
  BY <1>9 DEF TrDisconnected, Leave, advance, Answer, SweepEnds
<1>10. CASE TrLast
  BY <1>10 DEF TrLast, Take, MoveOut, Leave, advance, Answer, SweepEnds
<1>11. ASSUME NEW m \in DrainLimits, DrainCall(m) PROVE RingInv'
  BY <1>11 DEF DrainCall
<1>12. CASE DrTake
  BY <1>12 DEF DrTake, MoveOut
<1>19. CASE DrEnd
  BY <1>19 DEF DrEnd
<1>13. CASE DrShardDone
  BY <1>13 DEF DrShardDone, PublishGuardDrop, advance, Answer, SweepEnds
<1>14. CASE DrUnwind
  BY <1>14 DEF DrUnwind, PublishGuardDrop, Answer, SweepEnds
<1>15. CASE DropReceiver
  BY <1>15 DEF DropReceiver
<1>16. CASE RxDrop
  BY <1>16 DEF RxDrop
<1>17. CASE RxArc
  BY <1>17 DEF RxArc, Release
<1>18. CASE UNCHANGED vars
  BY <1>18 DEF vars
<1> QED
  BY <1>1, <1>2, <1>3, <1>4, <1>5, <1>6, <1>7, <1>8, <1>9, <1>10, <1>11, <1>12, <1>13, <1>14, <1>15, <1>16, <1>17, <1>18, <1>19 DEF Next, SenderStep, ReceiverStep, Calls, Terminated

\* Nothing is destroyed before the last handle of a ring goes.
LEMMA FreedInvStep == IndInv /\ [Next]_vars => FreedInv'
<1> SUFFICES ASSUME IndInv, [Next]_vars PROVE FreedInv'
  OBVIOUS
<1>0. FreedInv /\ visited \in Shards /\ refs \in [Shards -> SUBSET {"tx", "rx"}]
      /\ dropped \in [Shards -> Nat]
  BY DEF IndInv, TypeOK, RingTypes, ReceiverTypes
<1> USE <1>0 DEF FreedInv, shards, senders, sweep, rctl, history
<1>1. ASSUME NEW s \in Shards, NEW o \in {"try_send", "send"}, SenderCall(s, o) PROVE FreedInv'
  BY <1>1 DEF SenderCall
<1>2. ASSUME NEW s \in Shards, TsDisconnected(s) PROVE FreedInv'
  BY <1>2 DEF TsDisconnected, SenderReturn
<1>3. ASSUME NEW s \in Shards, TsSend(s) PROVE FreedInv'
  BY <1>3 DEF TsSend, SenderReturn
<1>4. ASSUME NEW s \in Shards, DropSender(s) PROVE FreedInv'
  BY <1>4 DEF DropSender
<1>5. ASSUME NEW s \in Shards, SenderArc(s) PROVE FreedInv'
  BY <1>5 DEF SenderArc, Release
<1>6. ASSUME NEW o \in {"try_recv", "recv"}, ReceiverCall(o) PROVE FreedInv'
  BY <1>6 DEF ReceiverCall
<1>7. CASE Retry
  BY <1>7 DEF Retry
<1>8. CASE TrTail
  BY <1>8 DEF TrTail, Take, MoveOut
<1>9. CASE TrDisconnected
  BY <1>9 DEF TrDisconnected, Leave
<1>10. CASE TrLast
  BY <1>10 DEF TrLast, Take, MoveOut, Leave
<1>11. ASSUME NEW m \in DrainLimits, DrainCall(m) PROVE FreedInv'
  BY <1>11 DEF DrainCall
<1>12. CASE DrTake
  BY <1>12 DEF DrTake, MoveOut
<1>19. CASE DrEnd
  BY <1>19 DEF DrEnd
<1>13. CASE DrShardDone
  BY <1>13 DEF DrShardDone, PublishGuardDrop
<1>14. CASE DrUnwind
  BY <1>14 DEF DrUnwind, PublishGuardDrop
<1>15. CASE DropReceiver
  BY <1>15 DEF DropReceiver
<1>16. CASE RxDrop
  BY <1>16 DEF RxDrop
<1>17. CASE RxArc
  BY <1>17 DEF RxArc, Release
<1>18. CASE UNCHANGED vars
  BY <1>18 DEF vars
<1> QED
  BY <1>1, <1>2, <1>3, <1>4, <1>5, <1>6, <1>7, <1>8, <1>9, <1>10, <1>11, <1>12, <1>13, <1>14, <1>15, <1>16, <1>17, <1>18, <1>19 DEF Next, SenderStep, ReceiverStep, Calls, Terminated

\* The cursor is always at least one step away from where it was.
LEMMA Distance ==
    ASSUME NEW s \in Nat, NEW n \in Nat, NEW c \in Nat, c < n, s < n
    PROVE  ~((IF s < c THEN c - s ELSE c + n - s) <= 0)
OBVIOUS

\* What the cursor's move does to the distance of each shard.
LEMMA BehindFacts ==
    ASSUME cursor \in Shards, visited \in Shards, NEW s \in Shards
    PROVE  /\ Behind(s) \in 1..NShards
           /\ Behind(s) = NShards <=> s = cursor
           /\ visited + 1 >= NShards => s = cursor \/ Visited(s)
BY Positive DEF Behind, Visited, Shards

LEMMA AdvanceFacts ==
    ASSUME cursor \in Shards, advance, NEW s \in Shards
    PROVE  /\ cursor' \in Shards
           /\ s = cursor => Behind(s)' = 1
           /\ s # cursor => Behind(s)' = Behind(s) + 1
BY Positive DEF Behind, Shards, advance

\* Which shards a sweep has left behind after a step of the receiver.
LEMMA VisitedFacts ==
    ASSUME cursor \in Shards, visited \in Shards, NEW s \in Shards
    PROVE  /\ cursor' \in Shards /\ visited' = 0 => ~Visited(s)'
           /\ UNCHANGED <<cursor, visited>> => (Visited(s)' <=> Visited(s))
           /\ advance /\ visited' = visited + 1 => (Visited(s)' <=> s = cursor \/ Visited(s))
<1>1. ASSUME cursor' \in Shards, visited' = 0 PROVE ~Visited(s)'
  <2>1. /\ s \in Nat /\ s < NShards /\ NShards \in Nat
        /\ cursor' \in Nat /\ cursor' < NShards
    BY <1>1, Positive DEF Shards
  <2> QED
    BY <1>1, <2>1, Distance DEF Visited, Behind
<1>2. UNCHANGED <<cursor, visited>> => (Visited(s)' <=> Visited(s))
  BY DEF Behind, Visited
<1>3. ASSUME advance, visited' = visited + 1
      PROVE  Visited(s)' <=> s = cursor \/ Visited(s)
  <2>1. Behind(s) \in Int /\ visited \in Nat
    BY BehindFacts, Positive DEF Shards
  <2>2. Visited(s)' <=> Behind(s)' <= visited'
    BY DEF Visited
  <2> QED
    BY <1>3, <2>1, <2>2, AdvanceFacts DEF Visited
<1> QED
  BY <1>1, <1>2, <1>3

\* A shard that is dead stays dead; indices only grow, handles only go.
LEMMA Stable ==
    ASSUME IndInv, [Next]_vars, NEW x \in Shards
    PROVE  /\ Dead(x) => Dead(x)'
           /\ live'[x] \subseteq live[x]
           /\ chead[x] \in Nat /\ chead'[x] \in Nat /\ chead'[x] >= chead[x]
           /\ tail[x] \in Nat /\ tail'[x] \in Nat /\ tail'[x] >= tail[x]
<1> DEFINE Goal == /\ Dead(x) => Dead(x)'
                   /\ live'[x] \subseteq live[x]
                   /\ chead'[x] >= chead[x] /\ tail'[x] >= tail[x]
<1>0. /\ RingTypes /\ RingTypes' /\ cursor \in Shards /\ visited \in Shards
      /\ \A s \in Shards : spc[s] = "ts_send" => "tx" \in live[s]
  BY RingTypesStep DEF IndInv, TypeOK, ReceiverTypes, SenderInv
<1>a. chead[x] \in Nat /\ chead'[x] \in Nat /\ tail[x] \in Nat /\ tail'[x] \in Nat
  BY <1>0 DEF RingTypes
<1>b. ASSUME UNCHANGED <<tail, chead>>, live'[x] \subseteq live[x] PROVE Goal
  BY <1>a, <1>b DEF Dead
<1>u. UNCHANGED <<tail, chead, live>> => Goal
  BY <1>b
<1>c. Pending(cursor) > 0 /\ MoveOut /\ UNCHANGED <<tail, live>> => Goal
  BY <1>0, <1>a DEF MoveOut, Pending, Dead, RingTypes
<1> HIDE DEF Goal
<1> SUFFICES Goal
  BY <1>a DEF Goal
<1> USE DEF shards, senders, sweep, rctl, history
<1>1. ASSUME NEW s \in Shards, NEW o \in {"try_send", "send"}, SenderCall(s, o) PROVE Goal
  BY <1>1, <1>u DEF SenderCall
<1>2. ASSUME NEW s \in Shards, TsDisconnected(s) PROVE Goal
  BY <1>2, <1>u DEF TsDisconnected
<1>3. ASSUME NEW s \in Shards, TsSend(s) PROVE Goal
  BY <1>0, <1>a, <1>3 DEF TsSend, RingTypes, Dead, Goal
<1>4. ASSUME NEW s \in Shards, DropSender(s) PROVE Goal
  <2>1. live'[x] \subseteq live[x]
    BY <1>0, <1>4 DEF DropSender, RingTypes
  <2> QED
    BY <1>4, <2>1, <1>b DEF DropSender
<1>5. ASSUME NEW s \in Shards, SenderArc(s) PROVE Goal
  BY <1>5, <1>u DEF SenderArc, Release
<1>6. ASSUME NEW o \in {"try_recv", "recv"}, ReceiverCall(o) PROVE Goal
  BY <1>6, <1>u DEF ReceiverCall
<1>7. CASE Retry
  BY <1>7, <1>u DEF Retry
<1>8. CASE TrTail
  BY <1>8, <1>u, <1>c DEF TrTail, Take
<1>9. CASE TrDisconnected
  BY <1>9, <1>u DEF TrDisconnected, Leave
<1>10. CASE TrLast
  BY <1>10, <1>u, <1>c DEF TrLast, Take, Leave
<1>11. ASSUME NEW m \in DrainLimits, DrainCall(m) PROVE Goal
  BY <1>11, <1>u DEF DrainCall
<1>12. CASE DrTake
  BY <1>12, <1>c DEF DrTake
<1>19. CASE DrEnd
  BY <1>19, <1>u DEF DrEnd
<1>13. CASE DrShardDone
  BY <1>13, <1>u DEF DrShardDone, PublishGuardDrop
<1>14. CASE DrUnwind
  BY <1>14, <1>u DEF DrUnwind, PublishGuardDrop
<1>15. CASE DropReceiver
  BY <1>15, <1>u DEF DropReceiver
<1>16. CASE RxDrop
  <2>1. live'[x] \subseteq live[x]
    BY <1>0, <1>16 DEF RxDrop, RingTypes
  <2> QED
    BY <1>16, <2>1, <1>b DEF RxDrop
<1>17. CASE RxArc
  BY <1>17, <1>u DEF RxArc, Release
<1>18. CASE UNCHANGED vars
  BY <1>18, <1>u DEF vars
<1> QED
  BY <1>1, <1>2, <1>3, <1>4, <1>5, <1>6, <1>7, <1>8, <1>9, <1>10, <1>11, <1>12, <1>13, <1>14,
     <1>15, <1>16, <1>17, <1>18, <1>19 DEF Next, SenderStep, ReceiverStep, Calls, Terminated

\* The count of disconnected shards and the Disconnected answers mean what they say.
LEMMA GoneInvStep == IndInv /\ [Next]_vars => GoneInv'
<1> SUFFICES ASSUME IndInv, [Next]_vars PROVE GoneInv'
  OBVIOUS
<1> DEFINE GoneTold == \A s \in Shards : /\ "rx" \in told[s] => Dead(s)
                                         /\ "tx" \in told[s] => "rx" \notin live[s]
<1>m. TypeOK /\ TypeOK' /\ GoneInv
  BY TypeStep DEF IndInv
<1>n. cursor \in Shards /\ cursor' \in Shards /\ visited \in Shards /\ gone \in Nat
  BY <1>m DEF TypeOK, ReceiverTypes
<1>o. visited \in Nat /\ gone <= visited
  BY <1>m, <1>n, Positive DEF GoneInv, Shards
<1>0. /\ GoneInv /\ cursor \in Shards /\ cursor' \in Shards /\ visited \in Shards
      /\ visited \in Nat /\ gone \in Nat /\ gone <= visited
      /\ told \in [Shards -> SUBSET {"tx", "rx"}] /\ live \in [Shards -> SUBSET {"tx", "rx"}]
      /\ \A s \in Shards : chead[s] \in Nat /\ tail[s] \in Nat /\ chead[s] <= tail[s]
  BY <1>m, <1>n, <1>o DEF TypeOK, RingTypes, HistoryTypes
<1>t. /\ rop \in {"try_recv", "recv", "drain"} => answer = "none"
      /\ rpc \in SweepPcs \cup {"retry"} => rop \in {"try_recv", "recv", "drain"}
      /\ rpc \in SweepPcs \cup {"idle", "retry"} => \A s \in Shards : "rx" \in live[s]
      /\ rpc = "idle" => rop = "none"
      /\ rpc \notin RecvPcs => gone = 0
  BY DEF IndInv, ReceiverInv, SweepPcs, RecvPcs, DrainPcs
<1>a. \A s \in Shards : /\ Dead(s) => Dead(s)'
                        /\ live'[s] \subseteq live[s]
  BY Stable
<1>v. \A s \in Shards :
         /\ visited' = 0 => ~Visited(s)'
         /\ UNCHANGED <<cursor, visited>> => (Visited(s)' <=> Visited(s))
         /\ advance /\ visited' = visited + 1 => (Visited(s)' <=> s = cursor \/ Visited(s))
         /\ visited + 1 >= NShards => s = cursor \/ Visited(s)
  BY <1>0, VisitedFacts, BehindFacts
<1>d. GoneTold /\ UNCHANGED told => GoneTold'
  BY <1>a
<1>e. GoneTold
  BY <1>0 DEF GoneInv
<1>f. answer = "disconnected" => \A s \in Shards : Dead(s)'
  BY <1>0, <1>a DEF GoneInv
<1>g. rpc \in RecvPcs /\ gone = visited => \A s \in Shards : Visited(s) => Dead(s)'
  BY <1>0, <1>a DEF GoneInv
<1>h. rpc = "tr_last" => "tx" \notin live[cursor] /\ "tx" \notin live'[cursor]
  BY <1>0, <1>a DEF GoneInv
<1> HIDE DEF GoneTold
\* A step that leaves the sweep alone, and one that ends or restarts it.
<1>b. ASSUME UNCHANGED <<cursor, visited, gone, rpc, answer>>, GoneTold' PROVE GoneInv'
  BY <1>0, <1>b, <1>f, <1>g, <1>h, <1>v DEF GoneInv, GoneTold
<1>c. ASSUME visited' = 0, gone' = 0, rpc' # "tr_last", GoneTold',
             answer' = "disconnected" => \A s \in Shards : Dead(s)'
      PROVE GoneInv'
  BY <1>0, <1>c, <1>v DEF GoneInv, GoneTold
<1> USE DEF shards, senders, sweep, rctl, history
\* Leaving the cursor's shard, counted or not.
<1>l. ASSUME NEW g \in {0, 1}, Leave(g), g = 1 => Dead(cursor), rpc \in RecvPcs, GoneTold' PROVE GoneInv'
  <2>0. \A s \in Shards : g = 1 /\ s = cursor => Dead(s)'
    BY <1>0, <1>a, <1>l
  <2>1. CASE visited + 1 < NShards
    <3>1. /\ advance /\ visited' = visited + 1 /\ gone' = gone + g
          /\ rpc' = "tr_tail" /\ UNCHANGED answer
      BY <1>l, <2>1 DEF Leave
    <3>2. gone' <= visited'
      BY <1>0, <1>l, <3>1
    <3>3. gone' = visited' => gone = visited /\ g = 1
      BY <1>0, <1>l, <3>1
    <3>4. gone' = visited' => \A s \in Shards : Visited(s)' => Dead(s)'
      BY <1>l, <1>g, <1>v, <2>0, <3>1, <3>3
    <3> QED
      BY <1>l, <1>f, <3>1, <3>2, <3>4 DEF GoneInv, GoneTold
  <2>2. CASE ~(visited + 1 < NShards)
    <3>1. /\ visited' = 0 /\ gone' = 0 /\ rpc' # "tr_last"
          /\ answer' = "disconnected" => gone + g = NShards \/ UNCHANGED answer
      BY <1>l, <2>2 DEF Leave, SweepEnds, Answer
    <3>2. ASSUME gone + g = NShards PROVE \A s \in Shards : Dead(s)'
      <4>1. gone = visited /\ g = 1 /\ visited + 1 >= NShards
        BY <1>0, <1>l, <3>2, Positive DEF Shards
      <4> QED
        BY <1>l, <1>g, <1>v, <2>0, <4>1
    <3> QED
      BY <1>l, <1>c, <1>f, <3>1, <3>2
  <2> QED
    BY <2>1, <2>2
<1>1. ASSUME NEW s \in Shards, NEW o \in {"try_send", "send"}, SenderCall(s, o) PROVE GoneInv'
  BY <1>1, <1>b, <1>d, <1>e DEF SenderCall
<1>2. ASSUME NEW s \in Shards, TsDisconnected(s) PROVE GoneInv'
  <2>1. CASE disconnected(s)
    <3>1. "tx" \in live[s]
      BY <1>2 DEF IndInv, SenderInv, TsDisconnected
    <3>2. "rx" \notin live[s] /\ told' = [told EXCEPT ![s] = @ \cup {"tx"}] /\ UNCHANGED live
      BY <1>0, <1>2, <2>1, <3>1 DEF TsDisconnected, disconnected
    <3>3. GoneTold'
      BY <1>0, <1>a, <1>e, <3>2 DEF GoneTold
    <3> QED
      BY <1>2, <1>b, <3>3 DEF TsDisconnected
  <2>2. CASE ~disconnected(s)
    BY <1>2, <2>2, <1>b, <1>d, <1>e DEF TsDisconnected
  <2> QED
    BY <2>1, <2>2
<1>3. ASSUME NEW s \in Shards, TsSend(s) PROVE GoneInv'
  BY <1>3, <1>b, <1>d, <1>e DEF TsSend
<1>4. ASSUME NEW s \in Shards, DropSender(s) PROVE GoneInv'
  BY <1>4, <1>b, <1>d, <1>e DEF DropSender
<1>5. ASSUME NEW s \in Shards, SenderArc(s) PROVE GoneInv'
  BY <1>5, <1>b, <1>d, <1>e DEF SenderArc
<1>6. ASSUME NEW o \in {"try_recv", "recv"}, ReceiverCall(o) PROVE GoneInv'
  BY <1>6, <1>c, <1>d, <1>e DEF ReceiverCall, BeginSweep
<1>7. CASE Retry
  BY <1>7, <1>c, <1>d, <1>e, <1>f DEF Retry, BeginSweep
<1>8. CASE TrTail
  <2>1. CASE Take
    BY <1>8, <2>1, <1>c, <1>d, <1>e DEF Take, Answer, SweepEnds
  <2>2. CASE rpc' = "tr_disc" /\ UNCHANGED <<shards, sweep, rop, answer, history>>
    <3>1. GoneTold'
      BY <2>2, <1>d, <1>e
    <3> QED
      BY <1>0, <1>8, <2>2, <3>1, <1>f, <1>g, <1>v DEF GoneInv, GoneTold, RecvPcs, TrTail
  <2> QED
    BY <1>8, <2>1, <2>2 DEF TrTail
<1>9. CASE TrDisconnected
  <2>0. rpc \in RecvPcs
    BY <1>9 DEF TrDisconnected, RecvPcs
  <2>1. CASE disconnected(cursor)
    <3>1. GoneTold'
      BY <1>9, <2>1, <1>d, <1>e DEF TrDisconnected, Leave
    <3>2. /\ rpc' = "tr_last" /\ UNCHANGED <<shards, sweep, answer>>
      BY <1>9, <2>1 DEF TrDisconnected
    <3>3. "rx" \in live[cursor]
      BY <1>0, <1>t, <2>0 DEF SweepPcs
    <3>4. "tx" \notin live'[cursor']
      BY <1>0, <2>1, <3>2, <3>3 DEF disconnected
    <3> QED
      BY <1>0, <2>0, <3>1, <3>2, <3>4, <1>f, <1>g, <1>v DEF GoneInv, GoneTold
  <2>2. CASE Leave(0) /\ UNCHANGED told
    BY <2>0, <2>2, <1>l, <1>d, <1>e
  <2> QED
    BY <1>9, <2>1, <2>2 DEF TrDisconnected
<1>10. CASE TrLast
  <2>1. CASE Take
    BY <1>10, <2>1, <1>c, <1>d, <1>e DEF Take, Answer, SweepEnds
  <2>2. CASE Pending(cursor) = 0 /\ Leave(1) /\ told' = [told EXCEPT ![cursor] = @ \cup {"rx"}]
    <3>1. Dead(cursor)
      BY <1>0, <1>10, <1>h, <2>2 DEF TrLast, Dead, Pending
    <3>2. GoneTold'
      BY <1>0, <1>a, <1>e, <2>2, <3>1 DEF GoneTold
    <3>3. rpc \in RecvPcs
      BY <1>10 DEF TrLast, RecvPcs
    <3> QED
      BY <2>2, <3>1, <3>2, <3>3, <1>l
  <2> QED
    BY <1>10, <2>1, <2>2 DEF TrLast
<1>11. ASSUME NEW m \in DrainLimits, DrainCall(m) PROVE GoneInv'
  BY <1>0, <1>11, <1>d, <1>e, <1>v DEF DrainCall, GoneInv, GoneTold, RecvPcs
<1>12. CASE DrTake
  BY <1>0, <1>12, <1>d, <1>e, <1>f, <1>v DEF DrTake, GoneInv, GoneTold, RecvPcs, MoveOut
<1>19. CASE DrEnd
  BY <1>0, <1>19, <1>d, <1>e, <1>f, <1>v DEF DrEnd, GoneInv, GoneTold, RecvPcs
<1>13. CASE DrShardDone
  BY <1>0, <1>13, <1>d, <1>e, <1>f, <1>v DEF DrShardDone, GoneInv, GoneTold, RecvPcs, Answer, SweepEnds
<1>14. CASE DrUnwind
  BY <1>14, <1>c, <1>d, <1>e DEF DrUnwind, Answer, SweepEnds
<1>15. CASE DropReceiver
  BY <1>0, <1>15, <1>d, <1>e, <1>f, <1>v DEF DropReceiver, GoneInv, GoneTold, RecvPcs
<1>16. CASE RxDrop
  BY <1>0, <1>16, <1>d, <1>e, <1>f, <1>v DEF RxDrop, GoneInv, GoneTold, RecvPcs
<1>17. CASE RxArc
  BY <1>0, <1>t, <1>17, <1>d, <1>e, <1>f, <1>v DEF RxArc, GoneInv, GoneTold, RecvPcs
<1>18. CASE UNCHANGED vars
  BY <1>18, <1>b, <1>d, <1>e DEF vars
<1> QED
  BY <1>1, <1>2, <1>3, <1>4, <1>5, <1>6, <1>7, <1>8, <1>9, <1>10, <1>11, <1>12, <1>13, <1>14,
     <1>15, <1>16, <1>17, <1>18, <1>19 DEF Next, SenderStep, ReceiverStep, Calls, Terminated

\* A sweep leaves nothing behind that was there when it began.
LEMMA MarkInvStep == IndInv /\ [Next]_vars => MarkInv'
<1> SUFFICES ASSUME IndInv, [Next]_vars PROVE MarkInv'
  OBVIOUS
<1>m. TypeOK /\ TypeOK' /\ MarkInv
  BY TypeStep DEF IndInv
<1>0. /\ cursor \in Shards /\ cursor' \in Shards /\ visited \in Shards
      /\ \A s \in Shards : mark[s] \in Nat /\ mark'[s] \in Nat
      /\ \A s \in Shards : chead[s] <= tail[s]
  BY <1>m DEF TypeOK, ReceiverTypes, HistoryTypes, RingTypes
<1>t. /\ rpc = "retry" \/ rpc \in SweepPcs => answer = "none"
      /\ rpc = "idle" => visited = 0
  BY DEF IndInv, ReceiverInv, SweepPcs, RecvPcs, DrainPcs
<1>a. \A s \in Shards : /\ chead[s] \in Nat /\ chead'[s] \in Nat /\ chead'[s] >= chead[s]
                        /\ tail[s] \in Nat /\ tail'[s] \in Nat /\ tail'[s] >= tail[s]
  BY Stable
<1>v. \A s \in Shards :
         /\ visited' = 0 => ~Visited(s)'
         /\ UNCHANGED <<cursor, visited>> => (Visited(s)' <=> Visited(s))
         /\ advance /\ visited' = visited + 1 => (Visited(s)' <=> s = cursor \/ Visited(s))
         /\ visited + 1 >= NShards => s = cursor \/ Visited(s)
  BY <1>0, VisitedFacts, BehindFacts
\* What the invariant says of the old marks still holds: nothing moves back.
<1>d. /\ \A s \in Shards : mark[s] <= tail'[s]
      /\ rpc \in SweepPcs => \A s \in Shards : Visited(s) => chead'[s] >= mark[s]
      /\ rpc \in {"tr_disc", "tr_last"} => \A s \in Shards : s = cursor => chead'[s] >= mark[s]
      /\ rpc = "dr_guard" /\ took # Want => \A s \in Shards : s = cursor => chead'[s] >= mark[s]
      /\ answer \in {"empty", "short"} => \A s \in Shards : chead'[s] >= mark[s]
  BY <1>m, <1>0, <1>a DEF MarkInv, NothingOverlooked
<1>b. ASSUME UNCHANGED <<cursor, visited, rpc, answer, mark, chead, head, max, count>> PROVE MarkInv'
  <2>1. took' = took /\ Want' = Want
    BY <1>b DEF took, Want
  <2> QED
    BY <1>0, <1>b, <1>d, <1>v, <2>1 DEF MarkInv, NothingOverlooked
<1>c. ASSUME visited' = 0, rpc' \notin {"tr_disc", "tr_last", "dr_guard"}, UNCHANGED mark,
             answer' \in {"empty", "short"} => \A s \in Shards : chead'[s] >= mark[s]
      PROVE MarkInv'
  BY <1>c, <1>d, <1>v DEF MarkInv, NothingOverlooked
<1>g. ASSUME visited' = 0, rpc' \notin {"tr_disc", "tr_last", "dr_guard"}, mark' = tail, UNCHANGED tail,
             answer' = "none"
      PROVE MarkInv'
  BY <1>a, <1>g, <1>v DEF MarkInv, NothingOverlooked
<1> USE DEF shards, senders, sweep, rctl, history
\* On to the next shard, or the end of the sweep, once the cursor's shard is seen off.
<1>l. ASSUME rpc \in SweepPcs, \A s \in Shards : s = cursor => chead'[s] >= mark[s],
             advance, UNCHANGED mark, rpc' \notin {"tr_disc", "tr_last", "dr_guard"},
             \/ visited' = visited + 1 /\ UNCHANGED answer
             \/ visited' = 0 /\ (visited + 1 >= NShards \/ answer' = "none")
      PROVE MarkInv'
  <2>1. CASE visited' = visited + 1 /\ UNCHANGED answer
    BY <1>d, <1>l, <1>t, <1>v, <2>1 DEF MarkInv, NothingOverlooked
  <2>2. CASE visited' = 0 /\ (visited + 1 >= NShards \/ answer' = "none")
    <3>1. answer' \in {"empty", "short"} => \A s \in Shards : chead'[s] >= mark[s]
      BY <1>d, <1>l, <1>v, <2>2
    <3> QED
      BY <1>c, <1>l, <2>2, <3>1
  <2> QED
    BY <1>l, <2>1, <2>2
<1>k. ASSUME NEW g, Leave(g), rpc \in {"tr_disc", "tr_last"} PROVE MarkInv'
  <2>1. rpc \in SweepPcs
    BY <1>k DEF SweepPcs, RecvPcs
  <2>2. /\ advance /\ UNCHANGED mark /\ rpc' \notin {"tr_disc", "tr_last", "dr_guard"}
    BY <1>k DEF Leave, Answer
  <2>3. CASE visited + 1 < NShards
    BY <1>k, <1>d, <1>l, <2>1, <2>2, <2>3 DEF Leave
  <2>4. CASE ~(visited + 1 < NShards)
    <3>1. visited' = 0 /\ visited + 1 >= NShards
      BY <1>k, <1>0, <2>4, Positive DEF Leave, SweepEnds, Shards
    <3> QED
      BY <1>k, <1>d, <1>l, <2>1, <2>2, <3>1
  <2> QED
    BY <2>3, <2>4
<1>1. ASSUME NEW s \in Shards, NEW o \in {"try_send", "send"}, SenderCall(s, o) PROVE MarkInv'
  BY <1>1, <1>b DEF SenderCall
<1>2. ASSUME NEW s \in Shards, TsDisconnected(s) PROVE MarkInv'
  BY <1>2, <1>b DEF TsDisconnected
<1>3. ASSUME NEW s \in Shards, TsSend(s) PROVE MarkInv'
  BY <1>3, <1>b DEF TsSend
<1>4. ASSUME NEW s \in Shards, DropSender(s) PROVE MarkInv'
  BY <1>4, <1>b DEF DropSender
<1>5. ASSUME NEW s \in Shards, SenderArc(s) PROVE MarkInv'
  BY <1>5, <1>b DEF SenderArc, Release
<1>6. ASSUME NEW o \in {"try_recv", "recv"}, ReceiverCall(o) PROVE MarkInv'
  BY <1>6, <1>g DEF ReceiverCall, BeginSweep
<1>7. CASE Retry
  BY <1>7, <1>g, <1>t DEF Retry, BeginSweep
<1>8. CASE TrTail
  <2>1. CASE Take
    BY <2>1, <1>c DEF Take, Answer, SweepEnds
  <2>2. CASE Pending(cursor) = 0 /\ rpc' = "tr_disc"
             /\ UNCHANGED <<shards, sweep, rop, answer, history>>
    <3>1. chead[cursor] = tail[cursor]
      BY <1>0, <1>a, <2>2 DEF Pending
    <3>2. chead'[cursor'] >= mark'[cursor']
      BY <1>0, <1>d, <2>2, <3>1
    <3>3. rpc \in SweepPcs
      BY <1>8 DEF TrTail, SweepPcs, RecvPcs
    <3> QED
      BY <1>d, <1>v, <2>2, <3>2, <3>3 DEF MarkInv, NothingOverlooked
  <2> QED
    BY <1>8, <2>1, <2>2 DEF TrTail
<1>9. CASE TrDisconnected
  <2>1. CASE rpc' = "tr_last" /\ UNCHANGED <<shards, sweep, rop, answer, history>>
    <3>1. rpc \in SweepPcs /\ rpc = "tr_disc"
      BY <1>9 DEF TrDisconnected, SweepPcs, RecvPcs
    <3>2. chead'[cursor'] >= mark'[cursor']
      BY <1>0, <1>d, <2>1, <3>1
    <3> QED
      BY <1>d, <1>v, <2>1, <3>1, <3>2 DEF MarkInv, NothingOverlooked
  <2>2. CASE Leave(0)
    BY <1>9, <1>k, <2>2 DEF TrDisconnected
  <2> QED
    BY <1>9, <2>1, <2>2 DEF TrDisconnected
<1>10. CASE TrLast
  <2>1. CASE Take
    BY <2>1, <1>c DEF Take, Answer, SweepEnds
  <2>2. CASE Leave(1)
    BY <1>10, <1>k, <2>2 DEF TrLast
  <2> QED
    BY <1>10, <2>1, <2>2 DEF TrLast
<1>11. ASSUME NEW m \in DrainLimits, DrainCall(m) PROVE MarkInv'
  <2>1. CASE m = 0
    BY <1>11, <2>1, <1>c, <1>t DEF DrainCall
  <2>2. CASE m # 0
    BY <1>11, <2>2, <1>g, <1>t DEF DrainCall
  <2> QED
    BY <2>1, <2>2
<1>12. CASE DrTake
  <2>1. rpc \in SweepPcs /\ rpc' \in SweepPcs /\ rpc' \notin {"tr_disc", "tr_last", "dr_guard"}
    BY <1>12 DEF DrTake, SweepPcs, DrainPcs
  <2> QED
    BY <1>12, <1>d, <1>v, <2>1 DEF DrTake, MarkInv, NothingOverlooked
<1>19. CASE DrEnd
  <2>1. rpc = "dr_take" /\ rpc \in SweepPcs /\ rpc' = "dr_guard" /\ UNCHANGED <<shards, sweep, answer, mark>>
    BY <1>19 DEF DrEnd, SweepPcs, DrainPcs
  <2>2. took' # Want' => chead'[cursor'] >= mark'[cursor']
    <3>1. took' = took /\ Want' = Want
      BY <2>1 DEF took, Want
    <3>2. took # Want => chead[cursor] = tail[cursor]
      BY <1>0, <1>a, <1>19 DEF DrEnd, Pending
    <3>3. mark[cursor] <= tail[cursor]
      BY <1>m, <1>0 DEF MarkInv
    <3> QED
      BY <2>1, <3>1, <3>2, <3>3
  <2> QED
    BY <1>d, <1>v, <2>1, <2>2 DEF MarkInv, NothingOverlooked
<1>13. CASE DrShardDone
  <2>0. rpc \in SweepPcs /\ rpc = "dr_guard" /\ UNCHANGED mark
    BY <1>13 DEF DrShardDone, SweepPcs, DrainPcs, PublishGuardDrop
  <2>1. CASE took = Want
    BY <1>13, <2>1, <1>c DEF DrShardDone, Answer, SweepEnds
  <2>2. CASE took # Want
    <3>1. \A s \in Shards : s = cursor => chead'[s] >= mark[s]
      BY <1>d, <2>0, <2>2
    <3>2. /\ advance /\ rpc' \notin {"tr_disc", "tr_last", "dr_guard"}
          /\ visited + 1 < NShards => visited' = visited + 1 /\ UNCHANGED answer
          /\ ~(visited + 1 < NShards) => visited' = 0
      BY <1>13, <2>0, <2>2 DEF DrShardDone, Answer, SweepEnds
    <3>3. visited + 1 < NShards \/ visited + 1 >= NShards
      BY <1>0, Positive DEF Shards
    <3> QED
      BY <1>l, <2>0, <3>1, <3>2, <3>3
  <2> QED
    BY <2>1, <2>2
<1>14. CASE DrUnwind
  BY <1>14, <1>c DEF DrUnwind, Answer, SweepEnds
<1>15. CASE DropReceiver
  BY <1>15, <1>d, <1>v DEF DropReceiver, MarkInv, NothingOverlooked, SweepPcs, RecvPcs, DrainPcs
<1>16. CASE RxDrop
  BY <1>16, <1>d, <1>v DEF RxDrop, MarkInv, NothingOverlooked, SweepPcs, RecvPcs, DrainPcs
<1>17. CASE RxArc
  BY <1>17, <1>d, <1>v DEF RxArc, MarkInv, NothingOverlooked, SweepPcs, RecvPcs, DrainPcs
<1>18. CASE UNCHANGED vars
  BY <1>18, <1>b DEF vars
<1> QED
  BY <1>1, <1>2, <1>3, <1>4, <1>5, <1>6, <1>7, <1>8, <1>9, <1>10, <1>11, <1>12, <1>13, <1>14,
     <1>15, <1>16, <1>17, <1>18, <1>19 DEF Next, SenderStep, ReceiverStep, Calls, Terminated

\* One more shard's worth of messages.
LEMMA Product ==
    ASSUME NEW a \in Nat, NEW b \in Nat
    PROVE  a * b \in Nat /\ (a + 1) * b = a * b + b
OBVIOUS

\* A drain() never exceeds its max, nor what the shards it visited could hold.
LEMMA BatchInvStep == IndInv /\ [Next]_vars => BatchInv'
<1> SUFFICES ASSUME IndInv, [Next]_vars PROVE BatchInv'
  OBVIOUS
<1>m. TypeOK /\ TypeOK' /\ BatchInv /\ RingInv
  BY TypeStep DEF IndInv
<1>0. /\ cursor \in Shards /\ cursor' \in Shards /\ visited \in Shards
      /\ count \in Nat /\ max \in Nat
      /\ chead \in [Shards -> Nat] /\ head \in [Shards -> Nat] /\ tail \in [Shards -> Nat]
      /\ \A s \in Shards : head[s] <= chead[s] /\ chead[s] <= tail[s]
  BY <1>m DEF TypeOK, ReceiverTypes, RingTypes
<1>r. \A s \in Shards : /\ tail[s] <= head[s] + PerShard
                        /\ head[s] = chead[s] \/ (rop = "drain" /\ s = cursor)
  BY <1>m DEF RingInv
<1>t. /\ rpc \in {"dr_take", "dr_guard", "dr_unwind"} <=> rop = "drain"
      /\ rpc = "idle" => visited = 0 /\ count = 0
  BY DEF IndInv, ReceiverInv, DrainPcs
<1>b. UNCHANGED <<rop, count, max, visited, cursor, chead, head>> => BatchInv'
  BY <1>m DEF BatchInv, took
<1>c. rop' # "drain" => BatchInv'
  BY DEF BatchInv
<1> USE DEF shards, senders, sweep, rctl, history
<1>1. ASSUME NEW s \in Shards, NEW o \in {"try_send", "send"}, SenderCall(s, o) PROVE BatchInv'
  BY <1>1, <1>b DEF SenderCall
<1>2. ASSUME NEW s \in Shards, TsDisconnected(s) PROVE BatchInv'
  BY <1>2, <1>b DEF TsDisconnected
<1>3. ASSUME NEW s \in Shards, TsSend(s) PROVE BatchInv'
  BY <1>3, <1>b DEF TsSend
<1>4. ASSUME NEW s \in Shards, DropSender(s) PROVE BatchInv'
  BY <1>4, <1>b DEF DropSender
<1>5. ASSUME NEW s \in Shards, SenderArc(s) PROVE BatchInv'
  BY <1>5, <1>b DEF SenderArc, Release
<1>6. ASSUME NEW o \in {"try_recv", "recv"}, ReceiverCall(o) PROVE BatchInv'
  BY <1>6, <1>c DEF ReceiverCall
<1>7. CASE Retry
  BY <1>7, <1>c, <1>t DEF Retry
<1>8. CASE TrTail
  BY <1>8, <1>c, <1>t DEF TrTail, Take, Answer
<1>9. CASE TrDisconnected
  BY <1>9, <1>c, <1>t DEF TrDisconnected, Leave, Answer
<1>10. CASE TrLast
  BY <1>10, <1>c, <1>t DEF TrLast, Take, Leave, Answer
<1>11. ASSUME NEW m \in DrainLimits, DrainCall(m) PROVE BatchInv'
  <2>1. CASE m = 0
    BY <1>11, <1>c, <1>t, <2>1 DEF DrainCall
  <2>2. CASE m # 0
    <3>1. m \in Nat /\ m > 0
      BY <2>2, ConstAssumption
    <3>2. /\ UNCHANGED <<chead, head, cursor, count, visited>> /\ max' = m
          /\ count = 0 /\ visited = 0 /\ head[cursor] = chead[cursor]
      BY <1>0, <1>r, <1>t, <1>11, <2>2 DEF DrainCall
    <3>3. took' = 0
      BY <1>0, <3>2 DEF took
    <3>4. 0 * PerShard = 0
      BY Positive
    <3> QED
      BY <3>1, <3>2, <3>3, <3>4 DEF BatchInv
  <2> QED
    BY <2>1, <2>2
<1>12. CASE DrTake
  <2>1. /\ UNCHANGED <<head, cursor, count, max, visited>> /\ took < max - count
        /\ chead' = [chead EXCEPT ![cursor] = chead[cursor] + 1] /\ rop = "drain"
    BY <1>0, <1>12, <1>t DEF DrTake, MoveOut, Want
  <2>2. took \in Nat /\ took' = took + 1
    BY <1>0, <2>1 DEF took
  <2>3. count < max /\ count <= visited * PerShard
    BY <1>m, <2>1 DEF BatchInv
  <2> QED
    BY <1>0, <2>1, <2>2, <2>3 DEF BatchInv
<1>19. CASE DrEnd
  BY <1>19, <1>b DEF DrEnd
<1>13. CASE DrShardDone
  <2>1. CASE rop' # "drain"
    BY <1>c, <2>1
  <2>2. CASE rop' = "drain"
    <3>1. /\ took # max - count /\ count' = count + took /\ visited' = visited + 1 /\ UNCHANGED max
          /\ UNCHANGED chead /\ head' = [head EXCEPT ![cursor] = chead[cursor]] /\ rop = "drain"
      BY <1>13, <1>t, <2>2 DEF DrShardDone, Answer, Want, PublishGuardDrop
    <3>2. took' = 0
      BY <1>0, <1>r, <3>1 DEF took
    <3>3. took \in Nat /\ took <= PerShard
      BY <1>0, <1>r, Positive DEF took
    <3>4. count + took < max /\ count <= visited * PerShard
      BY <1>m, <1>0, <3>1, <3>3 DEF BatchInv
    <3>5. visited \in Nat /\ PerShard \in Nat
      BY <1>0, Positive DEF Shards
    <3>6. visited * PerShard \in Nat /\ (visited + 1) * PerShard = visited * PerShard + PerShard
      BY <3>5, Product
    <3>7. count + took <= (visited + 1) * PerShard
      BY <1>0, <3>3, <3>4, <3>5, <3>6
    <3> QED
      BY <1>0, <3>1, <3>2, <3>3, <3>4, <3>7 DEF BatchInv
  <2> QED
    BY <2>1, <2>2
<1>14. CASE DrUnwind
  BY <1>14, <1>c DEF DrUnwind, Answer
<1>15. CASE DropReceiver
  BY <1>15, <1>c DEF DropReceiver
<1>16. CASE RxDrop
  BY <1>16, <1>b DEF RxDrop
<1>17. CASE RxArc
  BY <1>17, <1>c, <1>t DEF RxArc
<1>18. CASE UNCHANGED vars
  BY <1>18, <1>b DEF vars
<1> QED
  BY <1>1, <1>2, <1>3, <1>4, <1>5, <1>6, <1>7, <1>8, <1>9, <1>10, <1>11, <1>12, <1>13, <1>14,
     <1>15, <1>16, <1>17, <1>18, <1>19 DEF Next, SenderStep, ReceiverStep, Calls, Terminated

\* The products of the budget that BypassInv speaks of.
LEMMA Allowances ==
    ASSUME NEW k \in Nat
    PROVE  Allowance(k) \in Nat /\ Allowance(k + 1) = Allowance(k) + VisitBudget
<1>1. VisitBudget \in Nat
  BY ConstAssumption
<1>2. VisitBudget * (k + 1) = VisitBudget * k + VisitBudget /\ VisitBudget * k \in Nat
  BY <1>1
<1> QED
  BY <1>2 DEF Allowance

\* A receiver that only calls try_recv() and recv() bypasses no shard for long.
LEMMA BypassInvStep == DrainLimits = {} /\ IndInv /\ [Next]_vars => BypassInv'
<1> SUFFICES ASSUME DrainLimits = {}, IndInv, [Next]_vars PROVE BypassInv'
  OBVIOUS
<1>m. TypeOK /\ TypeOK' /\ BypassInv
  BY TypeStep DEF IndInv
<1>0. /\ cursor \in Shards /\ cursor' \in Shards /\ budget \in Nat
      /\ bypassed \in [Shards -> Nat] /\ bypassed' \in [Shards -> Nat]
      /\ \A s \in Shards : chead[s] <= tail[s]
      /\ VisitBudget \in Nat /\ VisitBudget > 0
  BY <1>m, ConstAssumption DEF TypeOK, ReceiverTypes, HistoryTypes, RingTypes
<1>t. rpc \in {"dr_take", "dr_guard", "dr_unwind"} => rop = "drain"
  BY DEF IndInv, ReceiverInv, DrainPcs
<1>a. \A s \in Shards : /\ chead[s] \in Nat /\ chead'[s] \in Nat
                        /\ tail[s] \in Nat /\ tail'[s] \in Nat /\ tail'[s] >= tail[s]
  BY Stable
<1>p. \A s \in Shards : /\ Behind(s) \in Nat /\ Behind(s) - 1 \in Nat
                        /\ Allowance(Behind(s) - 1) \in Nat
                        /\ Allowance(Behind(s)) = Allowance(Behind(s) - 1) + VisitBudget
  <2> TAKE s \in Shards
  <2>1. Behind(s) \in 1..NShards
    <3>1. visited \in Shards
      BY <1>m DEF TypeOK, ReceiverTypes
    <3> QED
      BY <1>0, <3>1, BehindFacts
  <2>2. Behind(s) \in Nat /\ Behind(s) - 1 \in Nat /\ Behind(s) = (Behind(s) - 1) + 1
    BY <2>1, Positive
  <2> HIDE DEF Behind
  <2> QED
    BY <2>2, Allowances
<1>q. /\ rop # "drain" /\ budget <= VisitBudget
      /\ budget > 0 => bypassed[cursor] = 0
      /\ \A s \in Shards :
            /\ tail[s] = chead[s] => bypassed[s] = 0
            /\ bypassed[s] <= Allowance(Behind(s) - 1) + (IF s = cursor THEN 0 ELSE budget)
  BY <1>m DEF BypassInv
\* The cursor stays and nothing is taken.
<1>b. ASSUME UNCHANGED <<cursor, budget, bypassed, chead>>, rop' # "drain",
             rpc' \in RecvPcs => budget < VisitBudget,
             rpc' \in {"tr_disc", "tr_last"} => bypassed[cursor] = 0
      PROVE BypassInv'
  <2>1. \A s \in Shards : Behind(s)' = Behind(s)
    BY <1>b DEF Behind
  <2>2. \A s \in Shards : tail'[s] = chead'[s] => tail[s] = chead[s]
    BY <1>0, <1>a, <1>b
  <2>3. \A s \in Shards :
            /\ tail'[s] = chead'[s] => bypassed'[s] = 0
            /\ bypassed'[s] <= Allowance(Behind(s)' - 1) + (IF s = cursor' THEN 0 ELSE budget')
    BY <1>b, <1>q, <2>1, <2>2
  <2> QED
    BY <1>b, <1>q, <2>3 DEF BypassInv
\* The cursor moves on from a shard that was served.
<1>c. ASSUME advance, UNCHANGED <<bypassed, tail, chead>>, rop' # "drain",
             bypassed[cursor] = 0, rpc' \notin {"tr_disc", "tr_last"}
      PROVE BypassInv'
  <2>1. budget' = 0
    BY <1>c DEF advance
  <2>2. \A s \in Shards : bypassed'[s] <= Allowance(Behind(s)' - 1)
    <3> TAKE s \in Shards
    <3>0. Behind(s) \in Int /\ bypassed[s] \in Nat
      BY <1>0, <1>p
    <3>1. CASE s = cursor
      <4>1. Behind(s)' = 1
        BY <1>0, <1>c, <3>1, AdvanceFacts
      <4>2. Allowance(Behind(s)' - 1) = Allowance(0)
        BY <4>1
      <4> QED
        BY <1>0, <1>c, <3>1, <4>2, Allowances
    <3>2. CASE s # cursor
      <4>1. Behind(s)' - 1 = Behind(s)
        BY <1>0, <1>c, <3>0, <3>2, AdvanceFacts
      <4>2. bypassed[s] <= Allowance(Behind(s))
        BY <1>0, <1>p, <1>q, <3>0, <3>2
      <4> QED
        BY <1>c, <4>1, <4>2
    <3> QED
      BY <3>1, <3>2
  <2>3. \A s \in Shards : Allowance(Behind(s)' - 1) + (IF s = cursor' THEN 0 ELSE budget')
                             = Allowance(Behind(s)' - 1)
    <3> TAKE s \in Shards
    <3>1. Behind(s)' = 1 \/ Behind(s)' = Behind(s) + 1
      BY <1>0, <1>c, AdvanceFacts
    <3>2. Behind(s)' - 1 \in Nat
      BY <1>p, <3>1
    <3> QED
      BY <2>1, <3>2, Allowances
  <2>4. \A s \in Shards : tail'[s] = chead'[s] => bypassed'[s] = 0
    BY <1>c, <1>q
  <2> QED
    BY <1>0, <1>c, <2>1, <2>2, <2>3, <2>4 DEF BypassInv
\* A message is taken from the cursor's shard.
<1>d. ASSUME Take, Pending(cursor) > 0, rpc \in RecvPcs PROVE BypassInv'
  <2>1. /\ UNCHANGED <<cursor, tail>> /\ budget' = budget + 1 /\ rpc' = "idle" /\ rop' = "none"
        /\ chead' = [chead EXCEPT ![cursor] = chead[cursor] + 1]
        /\ bypassed' = [s \in Shards |->
                          IF s = cursor \/ Pending(s) = 0 THEN 0 ELSE bypassed[s] + 1]
    BY <1>0, <1>d DEF Take, MoveOut, Answer
  <2>2. budget < VisitBudget
    BY <1>m, <1>d DEF BypassInv
  <2>3. \A s \in Shards : Behind(s)' = Behind(s)
    BY <2>1 DEF Behind
  <2>4. \A s \in Shards : s # cursor => chead'[s] = chead[s]
    BY <1>m, <2>1 DEF TypeOK, RingTypes
  <2>5. \A s \in Shards : tail'[s] = chead'[s] => bypassed'[s] = 0
    BY <1>a, <2>1, <2>4 DEF Pending
  <2>6. \A s \in Shards :
            bypassed'[s] <= Allowance(Behind(s)' - 1) + (IF s = cursor' THEN 0 ELSE budget')
    <3> TAKE s \in Shards
    <3>1. Allowance(Behind(s)' - 1) = Allowance(Behind(s) - 1) /\ Allowance(Behind(s) - 1) \in Nat
      BY <1>p, <2>3
    <3>2. CASE s = cursor \/ Pending(s) = 0
      BY <1>0, <2>1, <3>1, <3>2
    <3>3. CASE ~(s = cursor \/ Pending(s) = 0)
      <4>1. bypassed'[s] = bypassed[s] + 1 /\ bypassed[s] <= Allowance(Behind(s) - 1) + budget
        BY <1>q, <2>1, <3>3
      <4> QED
        BY <1>0, <2>1, <3>1, <3>3, <4>1
    <3> QED
      BY <3>2, <3>3
  <2>7. bypassed'[cursor'] = 0
    BY <1>0, <2>1
  <2> QED
    BY <1>0, <2>1, <2>2, <2>5, <2>6, <2>7 DEF BypassInv, RecvPcs
<1>l. ASSUME NEW g, Leave(g), rpc \in {"tr_disc", "tr_last"} PROVE BypassInv'
  <2>1. bypassed[cursor] = 0
    BY <1>m, <1>l DEF BypassInv
  <2>2. advance /\ UNCHANGED <<bypassed, tail, chead>> /\ rop' # "drain"
        /\ rpc' \notin {"tr_disc", "tr_last"}
    BY <1>l, <1>q DEF Leave, Answer, shards
  <2> QED
    BY <1>c, <2>1, <2>2
<1>s. ASSUME BeginSweep, rop' # "drain", UNCHANGED <<bypassed, tail, chead>> PROVE BypassInv'
  <2>1. rpc' = "tr_tail"
    BY <1>s DEF BeginSweep
  <2>2. CASE budget >= VisitBudget
    <3>1. advance /\ bypassed[cursor] = 0
      BY <1>0, <1>q, <1>s, <2>2 DEF BeginSweep
    <3> QED
      BY <1>c, <1>s, <2>1, <3>1
  <2>3. CASE ~(budget >= VisitBudget)
    <3>1. UNCHANGED <<cursor, budget>> /\ budget < VisitBudget
      BY <1>0, <1>s, <2>3 DEF BeginSweep
    <3> QED
      BY <1>b, <1>s, <2>1, <3>1
  <2> QED
    BY <2>2, <2>3
<1>e. /\ rpc \in RecvPcs => budget < VisitBudget
      /\ rpc \in {"tr_disc", "tr_last"} => bypassed[cursor] = 0
  BY <1>m DEF BypassInv
<1> USE DEF shards, senders, sweep, rctl, history
<1>1. ASSUME NEW s \in Shards, NEW o \in {"try_send", "send"}, SenderCall(s, o) PROVE BypassInv'
  BY <1>1, <1>b, <1>e, <1>q DEF SenderCall
<1>2. ASSUME NEW s \in Shards, TsDisconnected(s) PROVE BypassInv'
  BY <1>2, <1>b, <1>e, <1>q DEF TsDisconnected
<1>3. ASSUME NEW s \in Shards, TsSend(s) PROVE BypassInv'
  BY <1>3, <1>b, <1>e, <1>q DEF TsSend
<1>4. ASSUME NEW s \in Shards, DropSender(s) PROVE BypassInv'
  BY <1>4, <1>b, <1>e, <1>q DEF DropSender
<1>5. ASSUME NEW s \in Shards, SenderArc(s) PROVE BypassInv'
  BY <1>5, <1>b, <1>e, <1>q DEF SenderArc, Release
<1>6. ASSUME NEW o \in {"try_recv", "recv"}, ReceiverCall(o) PROVE BypassInv'
  BY <1>6, <1>s DEF ReceiverCall
<1>7. CASE Retry
  BY <1>7, <1>s, <1>q DEF Retry
<1>8. CASE TrTail
  <2>0. rpc \in RecvPcs
    BY <1>8 DEF TrTail, RecvPcs
  <2>1. CASE Pending(cursor) > 0 /\ Take
    BY <2>0, <2>1, <1>d
  <2>2. CASE Pending(cursor) = 0 /\ UNCHANGED <<shards, sweep, rop, answer, history>>
    <3>1. bypassed[cursor] = 0
      BY <1>0, <1>a, <1>q, <2>2 DEF Pending
    <3> QED
      BY <1>b, <1>e, <1>q, <2>0, <2>2, <3>1
  <2> QED
    BY <1>8, <2>1, <2>2 DEF TrTail
<1>9. CASE TrDisconnected
  <2>0. rpc \in RecvPcs /\ rpc = "tr_disc"
    BY <1>9 DEF TrDisconnected, RecvPcs
  <2>1. CASE UNCHANGED <<shards, sweep, rop, answer, history>>
    BY <1>b, <1>e, <1>q, <2>0, <2>1
  <2>2. CASE Leave(0)
    BY <1>l, <2>0, <2>2
  <2> QED
    BY <1>9, <2>1, <2>2 DEF TrDisconnected
<1>10. CASE TrLast
  <2>0. rpc \in RecvPcs /\ rpc = "tr_last"
    BY <1>10 DEF TrLast, RecvPcs
  <2>1. CASE Pending(cursor) > 0 /\ Take
    BY <2>0, <2>1, <1>d
  <2>2. CASE Leave(1)
    BY <1>l, <2>0, <2>2
  <2> QED
    BY <1>10, <2>1, <2>2 DEF TrLast
<1>11. ASSUME NEW m \in DrainLimits, DrainCall(m) PROVE BypassInv'
  OBVIOUS
<1>12. CASE DrTake \/ DrEnd \/ DrShardDone \/ DrUnwind
  BY <1>12, <1>q, <1>t DEF DrTake, DrEnd, DrShardDone, DrUnwind
<1>13. CASE DropReceiver
  BY <1>13, <1>b DEF DropReceiver, RecvPcs
<1>14. CASE RxDrop
  BY <1>14, <1>b, <1>q DEF RxDrop, RecvPcs
<1>15. CASE RxArc
  BY <1>15, <1>b, <1>q DEF RxArc, Release, RecvPcs
<1>16. CASE UNCHANGED vars
  BY <1>16, <1>b, <1>e, <1>q DEF vars
<1> QED
  BY <1>1, <1>2, <1>3, <1>4, <1>5, <1>6, <1>7, <1>8, <1>9, <1>10, <1>11, <1>12, <1>13, <1>14,
     <1>15, <1>16 DEF Next, SenderStep, ReceiverStep, Calls, Terminated

\* The invariant holds initially.
LEMMA InitInv == Init => IndInv
<1> SUFFICES ASSUME Init PROVE IndInv
  OBVIOUS
<1> USE Positive, ConstAssumption DEF Init
<1>1. TypeOK
  BY DEF TypeOK, RingTypes, SenderTypes, ReceiverTypes, HistoryTypes, SenderPcs, ReceiverPcs, Shards
<1>2. SenderInv /\ ReceiverInv /\ RingInv /\ BatchInv /\ FreedInv
  BY DEF SenderInv, ReceiverInv, RingInv, BatchInv, FreedInv, RecvPcs, DrainPcs, Shards
<1>3. GoneInv /\ MarkInv
  BY DEF GoneInv, MarkInv, NothingOverlooked, SweepPcs, RecvPcs, DrainPcs
<1>4. BypassInv
  <2>1. \A s \in Shards : Behind(s) - 1 \in Nat
    BY DEF Behind, Shards
  <2>2. \A s \in Shards : Allowance(Behind(s) - 1) \in Nat
    BY <2>1, Allowances
  <2> QED
    BY <2>2 DEF BypassInv, RecvPcs, Shards
<1> QED
  BY <1>1, <1>2, <1>3, <1>4 DEF IndInv

\* The inductive invariant holds in every reachable state.
THEOREM Invariance == Spec => []IndInv
<1>1. IndInv /\ [Next]_vars => IndInv'
  BY TypeStep, SenderInvStep, ReceiverInvStep, RingInvStep, GoneInvStep, MarkInvStep,
     BatchInvStep, FreedInvStep, BypassInvStep DEF IndInv
<1> QED
  BY InitInv, <1>1, PTL DEF Spec

\* Every variable keeps its type; the cursor never leaves the vector of shards.
THEOREM TypeCorrect == Spec => []TypeOK
<1>1. IndInv => TypeOK
  BY DEF IndInv
<1> QED
  BY <1>1, Invariance, PTL

\* The sum try_recv() makes of its shards' Disconnected answers is right: the
\* receiver hears it only when no sender is left and nothing is undelivered.
THEOREM DisconnectedCorrect == Spec => []DisconnectedMeansDrained
<1>1. IndInv => DisconnectedMeansDrained
  BY DEF IndInv, GoneInv, DisconnectedMeansDrained, Dead
<1> QED
  BY <1>1, Invariance, PTL

\* Empty from try_recv(), or a short drain(), overlooks no message that was
\* published when the sweep began.
THEOREM SweepCorrect == Spec => []NothingOverlooked
<1>1. IndInv => NothingOverlooked
  BY DEF IndInv, MarkInv
<1> QED
  BY <1>1, Invariance, PTL

\* One drain() takes at most max messages and at most the channel's capacity.
THEOREM DrainCorrect == Spec => []DrainBounded
<1>1. ASSUME IndInv, rop = "drain" PROVE count + took <= max /\ count + took <= TotalCap
  <2>1. /\ count <= visited * PerShard /\ count + took <= max
    BY <1>1 DEF IndInv, BatchInv
  <2>2. took \in Int /\ took <= PerShard /\ count \in Nat
    BY <1>1, Positive DEF IndInv, TypeOK, RingTypes, ReceiverTypes, RingInv, took
  <2>3. visited \in 0..NShards-1
    BY <1>1 DEF IndInv, TypeOK, ReceiverTypes, Shards
  <2>4. /\ visited * PerShard \in Nat
        /\ (visited + 1) * PerShard = visited * PerShard + PerShard
    BY <2>3, Positive, Product
  <2>5. (visited + 1) * PerShard <= NShards * PerShard
    <3>1. NShards - (visited + 1) \in Nat /\ PerShard \in Nat /\ visited \in Nat /\ NShards \in Nat
      BY <2>3, Positive
    <3>2. (NShards - (visited + 1)) * PerShard \in Nat
      BY <3>1, Product
    <3>3. NShards * PerShard = (visited + 1) * PerShard + (NShards - (visited + 1)) * PerShard
      BY <3>1
    <3>4. (visited + 1) * PerShard \in Nat
      BY <2>4, Positive
    <3> QED
      BY <3>2, <3>3, <3>4
  <2>6. NShards * PerShard \in Nat
    BY Positive, Product
  <2>7. count + took <= (visited + 1) * PerShard
    BY <2>1, <2>2, <2>4, Positive
  <2>8. count + took \in Int /\ (visited + 1) * PerShard \in Int
    BY <2>2, <2>4, Positive
  <2> QED
    BY <2>1, <2>5, <2>6, <2>7, <2>8, Capacities
<1> QED
  BY <1>1, Invariance, PTL DEF DrainBounded

\* VISIT_BUDGET bounds the wait of a shard with messages when the receiver
\* calls try_recv() and recv() only.
THEOREM BypassCorrect == DrainLimits = {} => (Spec => []BoundedBypass)
<1>1. ASSUME DrainLimits = {}, IndInv PROVE BoundedBypass
  <2> SUFFICES ASSUME NEW s \in Shards PROVE bypassed[s] <= (NShards - 1) * VisitBudget
    BY DEF BoundedBypass
  <2>0. /\ BypassInv /\ cursor \in Shards /\ visited \in Shards /\ budget \in Nat
        /\ VisitBudget \in Nat /\ bypassed[s] \in Nat
    BY <1>1, ConstAssumption DEF IndInv, TypeOK, ReceiverTypes, HistoryTypes
  <2>1. /\ bypassed[s] <= Allowance(Behind(s) - 1) + (IF s = cursor THEN 0 ELSE budget)
        /\ budget <= VisitBudget
    BY <2>0 DEF BypassInv
  <2>2. Behind(s) \in 1..NShards /\ (Behind(s) = NShards <=> s = cursor)
    BY <2>0, BehindFacts
  <2>3. NShards - 1 \in Nat /\ Allowance(NShards - 1) = (NShards - 1) * VisitBudget
    BY <2>0, Positive DEF Allowance
  <2> HIDE DEF Behind, Allowance
  <2>4. CASE s = cursor
    BY <2>1, <2>2, <2>3, <2>4, Allowances
  <2>5. CASE s # cursor
    <3>1. Behind(s) - 1 \in Nat /\ Behind(s) \in Nat /\ Behind(s) = (Behind(s) - 1) + 1
          /\ NShards - 1 - Behind(s) \in Nat
      BY <2>2, <2>5, Positive
    <3>2. /\ Allowance(Behind(s) - 1) \in Nat /\ Allowance(Behind(s)) \in Nat
          /\ Allowance(Behind(s)) = Allowance(Behind(s) - 1) + VisitBudget
      BY <3>1, Allowances
    <3>3. bypassed[s] <= Allowance(Behind(s))
      BY <2>0, <2>1, <2>5, <3>2
    <3>4. Allowance(Behind(s)) <= Allowance(NShards - 1)
      <4>1. Allowance(NShards - 1) = Allowance(Behind(s)) + Allowance(NShards - 1 - Behind(s))
        BY <2>0, <3>1, Positive DEF Allowance
      <4>2. Allowance(NShards - 1 - Behind(s)) \in Nat
        BY <3>1, Allowances
      <4> QED
        BY <3>2, <4>1, <4>2
    <3>5. Allowance(NShards - 1) \in Nat
      BY <2>3, Allowances
    <3> QED
      BY <2>0, <2>3, <3>2, <3>3, <3>4, <3>5
  <2> QED
    BY <2>4, <2>5
<1>2. CASE DrainLimits = {}
  <2>1. IndInv => BoundedBypass
    BY <1>1, <1>2
  <2> QED
    BY <2>1, Invariance, PTL
<1> QED
  BY <1>2


-----------------------------------------------------------------------------
(* Every shard implements Channel.  A step changes what Channel sees of shard  *)
(* k in one of six ways, or not at all.                                        *)

SameIndices(k) == tail'[k] = tail[k] /\ chead'[k] = chead[k]
SameHandles(k) == live'[k] = live[k] /\ told'[k] = told[k]
SameRing(k)    == dropped'[k] = dropped[k] /\ (refs'[k] = {} <=> refs[k] = {})

Quiet(k) == SameIndices(k) /\ SameHandles(k) /\ SameRing(k)

Sends(k) ==
    /\ "tx" \in live[k] /\ tail[k] < MaxOffers /\ tail[k] - chead[k] < PerShard
    /\ tail'[k] = tail[k] + 1 /\ chead'[k] = chead[k]
    /\ SameHandles(k) /\ SameRing(k)

Receives(k) ==
    /\ "rx" \in live[k] /\ chead[k] < tail[k]
    /\ chead'[k] = chead[k] + 1 /\ tail'[k] = tail[k]
    /\ SameHandles(k) /\ SameRing(k)

Drops(k, side) ==
    /\ side \in live[k] /\ live'[k] = live[k] \ {side} /\ told'[k] = told[k]
    /\ SameIndices(k) /\ SameRing(k)

Tells(k, side) ==
    /\ side \in live[k] /\ live[k] # {"tx", "rx"}
    /\ side = "rx" => tail[k] = chead[k]
    /\ live'[k] = live[k] /\ told'[k] = told[k] \cup {side}
    /\ SameIndices(k) /\ SameRing(k)

Frees(k) ==
    /\ live[k] = {} /\ refs[k] # {} /\ refs'[k] = {}
    /\ dropped'[k] = tail[k] - chead[k]
    /\ SameIndices(k) /\ SameHandles(k)

ShardStep(k) ==
    \/ Quiet(k) \/ Sends(k) \/ Receives(k) \/ Frees(k)
    \/ \E side \in {"tx", "rx"} : Drops(k, side) \/ Tells(k, side)

\* No step of the model does anything else to a shard.
LEMMA ShardSteps == IndInv /\ [Next]_vars => \A k \in Shards : ShardStep(k)
<1> SUFFICES ASSUME IndInv, [Next]_vars, NEW k \in Shards PROVE ShardStep(k)
  OBVIOUS
<1>0. /\ RingTypes /\ SenderInv /\ ReceiverInv /\ RingInv /\ FreedInv
      /\ cursor \in Shards /\ visited \in Shards /\ told \in [Shards -> SUBSET {"tx", "rx"}]
      /\ (rpc = "tr_last" => "tx" \notin live[cursor])
  BY DEF IndInv, TypeOK, ReceiverTypes, HistoryTypes, GoneInv
<1> USE <1>0, Positive DEF RingTypes, shards, senders, sweep, rctl, history,
    ShardStep, Quiet, SameIndices, SameHandles, SameRing
<1>1. ASSUME NEW s \in Shards, NEW o \in {"try_send", "send"}, SenderCall(s, o) PROVE ShardStep(k)
  BY <1>1 DEF SenderCall
<1>2. ASSUME NEW s \in Shards, TsDisconnected(s) PROVE ShardStep(k)
  <2>1. CASE k = s /\ disconnected(s) /\ told' = [told EXCEPT ![s] = @ \cup {"tx"}]
    BY <1>2, <2>1 DEF TsDisconnected, disconnected, Tells, SenderInv
  <2>2. CASE k # s \/ UNCHANGED told
    BY <1>2, <2>2 DEF TsDisconnected
  <2>3. \/ disconnected(s) /\ told' = [told EXCEPT ![s] = @ \cup {"tx"}]
        \/ UNCHANGED told
    BY <1>2 DEF TsDisconnected
  <2> QED
    BY <2>1, <2>2, <2>3
<1>3. ASSUME NEW s \in Shards, TsSend(s) PROVE ShardStep(k)
  <2>1. CASE k = s /\ tail[s] - head[s] < PerShard /\ tail' = [tail EXCEPT ![s] = tail[s] + 1]
    <3>1. head[s] <= chead[s] /\ "tx" \in live[s] /\ tail[s] < MaxOffers
      BY <1>3 DEF TsSend, SenderInv
    <3>2. tail[s] - chead[s] < PerShard
      BY <2>1, <3>1
    <3> QED
      BY <1>3, <2>1, <3>1, <3>2 DEF TsSend, Sends
  <2>2. CASE k # s \/ UNCHANGED tail
    BY <1>3, <2>2 DEF TsSend
  <2>3. \/ tail[s] - head[s] < PerShard /\ tail' = [tail EXCEPT ![s] = tail[s] + 1]
        \/ UNCHANGED tail
    BY <1>3 DEF TsSend
  <2> QED
    BY <2>1, <2>2, <2>3
<1>4. ASSUME NEW s \in Shards, DropSender(s) PROVE ShardStep(k)
  <2>1. CASE k = s
    BY <1>4, <2>1 DEF DropSender, Drops, SenderInv
  <2>2. CASE k # s
    BY <1>4, <2>2 DEF DropSender
  <2> QED
    BY <2>1, <2>2
<1>5. ASSUME NEW s \in Shards, SenderArc(s) PROVE ShardStep(k)
  <2>1. CASE k = s /\ refs[s] = {"tx"}
    <3>1. live[s] = {} /\ head[s] = chead[s]
      BY <1>5, <2>1 DEF SenderArc, SenderInv, ReceiverInv, RingInv
    <3> QED
      BY <1>5, <2>1, <3>1 DEF SenderArc, Release, Frees
  <2>2. CASE k = s /\ refs[s] # {"tx"}
    <3>1. "tx" \in refs[s]
      BY <1>5 DEF SenderArc, SenderInv
    <3> QED
      BY <1>5, <2>2, <3>1 DEF SenderArc, Release
  <2>3. CASE k # s
    BY <1>5, <2>3 DEF SenderArc, Release
  <2> QED
    BY <2>1, <2>2, <2>3
<1>6. ASSUME NEW o \in {"try_recv", "recv"}, ReceiverCall(o) PROVE ShardStep(k)
  BY <1>6 DEF ReceiverCall
<1>7. CASE Retry
  BY <1>7 DEF Retry
<1>8. CASE TrTail
  <2>1. CASE Pending(cursor) > 0 /\ Take
    <3>1. "rx" \in live[cursor]
      BY <1>8 DEF TrTail, ReceiverInv, RecvPcs
    <3>2. k = cursor => Receives(k)
      BY <2>1, <3>1 DEF Take, MoveOut, Pending, Receives
    <3>3. k # cursor => Quiet(k)
      BY <2>1 DEF Take, MoveOut
    <3> QED
      BY <3>2, <3>3
  <2>2. CASE UNCHANGED <<shards, history>>
    BY <2>2
  <2> QED
    BY <1>8, <2>1, <2>2 DEF TrTail
<1>9. CASE TrDisconnected
  BY <1>9 DEF TrDisconnected, Leave
<1>10. CASE TrLast
  <2>1. CASE Pending(cursor) > 0 /\ Take
    <3>1. "rx" \in live[cursor]
      BY <1>10 DEF TrLast, ReceiverInv, RecvPcs
    <3>2. k = cursor => Receives(k)
      BY <2>1, <3>1 DEF Take, MoveOut, Pending, Receives
    <3>3. k # cursor => Quiet(k)
      BY <2>1 DEF Take, MoveOut
    <3> QED
      BY <3>2, <3>3
  <2>2. CASE Pending(cursor) = 0 /\ Leave(1) /\ told' = [told EXCEPT ![cursor] = @ \cup {"rx"}]
    <3>1. "rx" \in live[cursor] /\ "tx" \notin live[cursor]
      BY <1>10 DEF TrLast, ReceiverInv, RecvPcs
    <3>2. k = cursor => Tells(k, "rx")
      <4>1. tail[cursor] = chead[cursor] /\ live[cursor] # {"tx", "rx"}
        BY <2>2, <3>1 DEF Pending
      <4>2. told'[cursor] = told[cursor] \cup {"rx"}
        BY <2>2
      <4>3. UNCHANGED shards
        BY <2>2 DEF Leave
      <4> QED
        BY <3>1, <4>1, <4>2, <4>3 DEF Tells
    <3>3. k # cursor => Quiet(k)
      BY <2>2 DEF Leave
    <3> QED
      BY <3>2, <3>3
  <2>3. \/ Pending(cursor) > 0 /\ Take
        \/ Pending(cursor) = 0 /\ Leave(1) /\ told' = [told EXCEPT ![cursor] = @ \cup {"rx"}]
    BY <1>10 DEF TrLast
  <2> QED
    BY <2>1, <2>2, <2>3
<1>11. ASSUME NEW m \in DrainLimits, DrainCall(m) PROVE ShardStep(k)
  BY <1>11 DEF DrainCall
<1>12. CASE DrTake
  <2>1. "rx" \in live[cursor]
    BY <1>12 DEF DrTake, ReceiverInv, DrainPcs
  <2>2. k = cursor => Receives(k)
    BY <1>12, <2>1 DEF DrTake, MoveOut, Pending, Receives
  <2>3. k # cursor => Quiet(k)
    BY <1>12 DEF DrTake, MoveOut
  <2> QED
    BY <2>2, <2>3
<1>19. CASE DrEnd
  BY <1>19 DEF DrEnd
<1>13. CASE DrShardDone
  BY <1>13 DEF DrShardDone, PublishGuardDrop
<1>14. CASE DrUnwind
  BY <1>14 DEF DrUnwind, PublishGuardDrop
<1>15. CASE DropReceiver
  BY <1>15 DEF DropReceiver
<1>16. CASE RxDrop
  <2>1. CASE k = visited
    <3>1. "rx" \in live[visited]
      BY <1>16 DEF RxDrop, ReceiverInv, Shards
    <3> QED
      BY <1>16, <2>1, <3>1 DEF RxDrop, Drops
  <2>2. CASE k # visited
    BY <1>16, <2>2 DEF RxDrop
  <2> QED
    BY <2>1, <2>2
<1>17. CASE RxArc
  <2>0. "rx" \in refs[visited] /\ "rx" \notin live[visited]
    BY <1>17 DEF RxArc, ReceiverInv, Shards
  <2>1. CASE k = visited /\ refs[visited] = {"rx"}
    <3>1. live[visited] = {} /\ head[visited] = chead[visited]
      BY <1>17, <2>0, <2>1 DEF RxArc, SenderInv, ReceiverInv, RingInv
    <3> QED
      BY <1>17, <2>1, <3>1 DEF RxArc, Release, Frees
  <2>2. CASE k = visited /\ refs[visited] # {"rx"}
    BY <1>17, <2>0, <2>2 DEF RxArc, Release
  <2>3. CASE k # visited
    BY <1>17, <2>3 DEF RxArc, Release
  <2> QED
    BY <2>1, <2>2, <2>3
<1>18. CASE UNCHANGED vars
  BY <1>18 DEF vars
<1> QED
  BY <1>1, <1>2, <1>3, <1>4, <1>5, <1>6, <1>7, <1>8, <1>9, <1>10, <1>11, <1>12, <1>13, <1>14, <1>15, <1>16, <1>17, <1>18, <1>19 DEF Next, SenderStep, ReceiverStep, Calls, Terminated

\* A function on 1..n is a sequence of length n.
LEMMA FunIsSeq ==
    ASSUME NEW S, NEW n \in Nat, NEW f \in [1..n -> S]
    PROVE  f \in Seq(S) /\ Len(f) = n
<1>1. f \in Seq(S)
  BY SeqDef
<1>2. DOMAIN f = 1..Len(f) /\ Len(f) \in Nat
  BY <1>1, LenProperties
<1> QED
  BY <1>1, <1>2

\* What the sequences of the refinement mapping are.
LEMMA NumbersFacts ==
    ASSUME NEW b \in Nat, NEW n \in Nat
    PROVE  /\ Numbers(b, n) \in Seq(Nat) /\ Len(Numbers(b, n)) = n
           /\ \A i \in 1..n : Numbers(b, n)[i] = b + i
           /\ Numbers(b, n + 1) = Append(Numbers(b, n), b + n + 1)
           /\ Numbers(b, 0) = <<>>
<1>1. \A m \in Nat : Numbers(b, m) \in [1..m -> Nat]
  BY DEF Numbers
<1>2. \A m \in Nat : Numbers(b, m) \in Seq(Nat)
  BY <1>1, FunIsSeq
<1>3. \A m \in Nat : Len(Numbers(b, m)) = m
  BY <1>1, FunIsSeq
<1>4. \A i \in 1..n : Numbers(b, n)[i] = b + i
  BY DEF Numbers
<1>5. Numbers(b, n + 1) = Append(Numbers(b, n), b + n + 1)
  <2>1. b + n + 1 \in Nat /\ n + 1 \in Nat
    OBVIOUS
  <2>2. /\ Append(Numbers(b, n), b + n + 1) \in Seq(Nat)
        /\ Len(Append(Numbers(b, n), b + n + 1)) = n + 1
        /\ \A i \in 1..n : Append(Numbers(b, n), b + n + 1)[i] = Numbers(b, n)[i]
        /\ Append(Numbers(b, n), b + n + 1)[n + 1] = b + n + 1
    BY <1>2, <1>3, <2>1, AppendProperties
  <2>3. \A i \in 1..n+1 : Append(Numbers(b, n), b + n + 1)[i] = b + i
    BY <1>4, <2>2
  <2>4. \A i \in 1..n+1 : Numbers(b, n + 1)[i] = b + i
    BY DEF Numbers
  <2>5. Numbers(b, n + 1) \in Seq(Nat) /\ Len(Numbers(b, n + 1)) = n + 1
    BY <1>2, <1>3, <2>1
  <2> QED
    <3>1. /\ Len(Numbers(b, n + 1)) = Len(Append(Numbers(b, n), b + n + 1))
          /\ \A i \in 1..Len(Numbers(b, n + 1)) :
                Numbers(b, n + 1)[i] = Append(Numbers(b, n), b + n + 1)[i]
      BY <2>2, <2>3, <2>4, <2>5
    <3> HIDE DEF Numbers
    <3> QED
      BY <2>2, <2>5, <3>1, SeqEqual
<1>6. Numbers(b, 0) = <<>>
  BY <1>2, <1>3, EmptySeq
<1> QED
  BY <1>2, <1>3, <1>4, <1>5, <1>6

\* Each of the six changes is a step of the shard's Channel.
LEMMA ShardMaps ==
    ASSUME IndInv, IndInv', NEW k \in Shards, ShardStep(k)
    PROVE  [Shard(k)!Next]_(Shard(k)!vars)
<1>0. /\ tail[k] \in Nat /\ chead[k] \in Nat /\ tail[k] >= chead[k] /\ dropped[k] \in Nat
      /\ live[k] \subseteq {"tx", "rx"} /\ (refs[k] # {} => dropped[k] = 0)
      /\ ("tx" \in live[k] => refs[k] # {}) /\ ("rx" \in live[k] => refs[k] # {})
  BY DEF IndInv, TypeOK, RingTypes, FreedInv, SenderInv, ReceiverInv
<1>1. /\ Len(Numbers(0, tail[k])) = tail[k] /\ Len(Numbers(0, chead[k])) = chead[k]
      /\ Numbers(0, tail[k] + 1) = Append(Numbers(0, tail[k]), tail[k] + 1)
      /\ Numbers(0, chead[k] + 1) = Append(Numbers(0, chead[k]), chead[k] + 1)
      /\ \A i \in 1..tail[k] : Numbers(0, tail[k])[i] = i
      /\ \A b \in Nat : Numbers(b, 0) = <<>>
  <2>1. 0 \in Nat /\ \A i \in Nat : 0 + i = i /\ 0 + i + 1 = i + 1
    OBVIOUS
  <2>2. \A n \in Nat : Len(Numbers(0, n)) = n
    BY <2>1, NumbersFacts
  <2>3. \A n \in Nat : Numbers(0, n + 1) = Append(Numbers(0, n), n + 1)
    BY <2>1, NumbersFacts
  <2>4. \A n \in Nat : \A i \in 1..n : Numbers(0, n)[i] = i
    BY DEF Numbers
  <2>5. \A b \in Nat : Numbers(b, 0) = <<>>
    BY <2>1, NumbersFacts
  <2> QED
    BY <1>0, <2>2, <2>3, <2>4, <2>5
<1> USE <1>0
<1> USE DEF SameIndices, SameHandles, SameRing
<1>2. CASE Quiet(k)
  BY <1>2 DEF Quiet, Shard!vars
<1>3. CASE Sends(k)
  <2>1. UNCHANGED <<Numbers(0, chead[k]), Numbers(chead[k], dropped[k]), told[k], refs[k] = {},
                    [side \in {"tx", "rx"} |-> side \in live[k]]>>
    BY <1>3 DEF Sends
  <2>2. \E v \in 1..MaxOffers : Numbers(0, tail[k])' = Append(Numbers(0, tail[k]), v)
    BY <1>1, <1>3, ConstAssumption DEF Sends
  <2>3. Shard(k)!Send
    BY <1>1, <1>3, <2>1, <2>2 DEF Sends, Shard!Send, Shard!Pending
  <2> QED
    BY <2>3 DEF Shard!Next
<1>4. CASE Receives(k)
  <2>1. Numbers(chead[k], dropped[k])' = Numbers(chead[k], dropped[k])
    <3>1. dropped[k] = 0 /\ dropped'[k] = 0 /\ chead'[k] \in Nat
      BY <1>4 DEF Receives
    <3> QED
      BY <1>1, <3>1
  <2>2. UNCHANGED <<Numbers(0, tail[k]), told[k], refs[k] = {},
                    [side \in {"tx", "rx"} |-> side \in live[k]]>>
    BY <1>4 DEF Receives
  <2>3. Numbers(0, chead[k])' = Append(Numbers(0, chead[k]), Numbers(0, tail[k])[chead[k] + 1])
    BY <1>1, <1>4 DEF Receives
  <2>4. Shard(k)!Recv
    <3>1. Len(Numbers(0, tail[k])) - Len(Numbers(0, chead[k])) > 0
      BY <1>1, <1>4 DEF Receives
    <3>2. Len(Numbers(0, chead[k])) = chead[k] /\ "rx" \in live[k]
      BY <1>1, <1>4 DEF Receives
    <3> QED
      BY <2>1, <2>2, <2>3, <3>1, <3>2 DEF Shard!Recv, Shard!Pending
  <2> QED
    BY <2>4 DEF Shard!Next
<1>5. ASSUME NEW side \in {"tx", "rx"}, Drops(k, side) PROVE Shard(k)!Next
  <2>1. UNCHANGED <<Numbers(0, tail[k]), Numbers(0, chead[k]), Numbers(chead[k], dropped[k]),
                    told[k], refs[k] = {}>>
    BY <1>5 DEF Drops
  <2>2. [d \in {"tx", "rx"} |-> d \in live[k]]' =
        [[d \in {"tx", "rx"} |-> d \in live[k]] EXCEPT ![side] = FALSE]
    <3>1. \A d \in {"tx", "rx"} : d \in live'[k] <=> (d # side /\ d \in live[k])
      BY <1>5 DEF Drops
    <3> QED
      <4> DEFINE F == [d \in {"tx", "rx"} |-> d \in live[k]]
                 G == [d \in {"tx", "rx"} |-> d \in live'[k]]
      <4>1. G = [d \in {"tx", "rx"} |-> IF d = side THEN FALSE ELSE F[d]]
        <5>1. ASSUME NEW d \in {"tx", "rx"}
              PROVE (d \in live'[k]) = (IF d = side THEN FALSE ELSE d \in live[k])
          <6>1. CASE d = side
            <7>1. (d \in live'[k]) = FALSE
              BY <3>1, <6>1
            <7> QED
              BY <6>1, <7>1, Zenon
          <6>2. CASE d # side
            <7>1. (d \in live'[k]) = (d \in live[k])
              BY <3>1, <6>2
            <7> QED
              BY <6>2, <7>1, Zenon
          <6> QED
            BY <6>1, <6>2
        <5>2. \A d \in {"tx", "rx"} : F[d] = (d \in live[k])
          BY Zenon
        <5> QED
          BY <5>1, <5>2, Zenon
      <4>2. [F EXCEPT ![side] = FALSE] = [d \in {"tx", "rx"} |-> IF d = side THEN FALSE ELSE F[d]]
        BY Zenon
      <4> QED
        BY <4>1, <4>2
  <2>3. Shard(k)!DropSide(side)
    BY <1>5, <2>1, <2>2 DEF Drops, Shard!DropSide
  <2> QED
    BY <2>3 DEF Shard!Next
<1>6. ASSUME NEW side \in {"tx", "rx"}, Tells(k, side) PROVE Shard(k)!Next
  <2>1. UNCHANGED <<Numbers(0, tail[k]), Numbers(0, chead[k]), Numbers(chead[k], dropped[k]),
                    [d \in {"tx", "rx"} |-> d \in live[k]], refs[k] = {}>>
    BY <1>6 DEF Tells
  <2>2. CASE side = "tx"
    BY <1>6, <2>1, <2>2 DEF Tells, Shard!Next, Shard!TellSender
  <2>3. CASE side = "rx"
    <3>1. /\ Len(Numbers(0, tail[k])) - Len(Numbers(0, chead[k])) = 0
          /\ "rx" \in live[k] /\ "tx" \notin live[k] /\ told'[k] = told[k] \cup {"rx"}
      BY <1>1, <1>6, <2>3 DEF Tells
    <3> QED
      BY <2>1, <3>1 DEF Shard!Next, Shard!TellReceiver, Shard!Pending
  <2> QED
    BY <2>2, <2>3
<1>7. CASE Frees(k)
  <2>1. UNCHANGED <<Numbers(0, tail[k]), Numbers(0, chead[k]), told[k],
                    [d \in {"tx", "rx"} |-> d \in live[k]]>>
    BY <1>7 DEF Frees
  <2>2. Numbers(chead[k], dropped[k])' =
        [i \in 1..(tail[k] - chead[k]) |-> Numbers(0, tail[k])[chead[k] + i]]
    <3>1. Numbers(chead[k], dropped[k])' = [i \in 1..(tail[k] - chead[k]) |-> chead[k] + i]
      BY <1>7 DEF Frees, Numbers
    <3>2. \A i \in 1..(tail[k] - chead[k]) : Numbers(0, tail[k])[chead[k] + i] = chead[k] + i
      BY <1>1
    <3> QED
      BY <3>1, <3>2
  <2>3. Shard(k)!Free
    BY <1>1, <1>7, <2>1, <2>2 DEF Frees, Shard!Free, Shard!Pending
  <2> QED
    BY <2>3 DEF Shard!Next
<1> QED
  BY <1>2, <1>3, <1>4, <1>5, <1>6, <1>7 DEF ShardStep

\* Every shard implements the bounded FIFO of Channel.
THEOREM Refinement == Spec => ImplementsChannels
<1>1. Init => \A s \in Shards : Shard(s)!Init
  <2> SUFFICES ASSUME Init, NEW s \in Shards PROVE Shard(s)!Init
    OBVIOUS
  <2>1. Numbers(0, tail[s]) = <<>> /\ Numbers(0, chead[s]) = <<>>
        /\ Numbers(chead[s], dropped[s]) = <<>>
    BY NumbersFacts DEF Init
  <2>2. [side \in {"tx", "rx"} |-> side \in live[s]] = [side \in {"tx", "rx"} |-> TRUE]
    BY DEF Init
  <2>3. told[s] = {} /\ (refs[s] = {}) = FALSE
    BY DEF Init
  <2> QED
    BY <2>1, <2>2, <2>3 DEF Shard!Init
<1>2. IndInv /\ IndInv' /\ [Next]_vars => [\A s \in Shards : [Shard(s)!Next]_(Shard(s)!vars)]_vars
  BY ShardSteps, ShardMaps
<1> QED
  BY <1>1, <1>2, Invariance, PTL DEF Spec, ImplementsChannels

-----------------------------------------------------------------------------
(* Every shard is a Ring.                                                  *)

\* What Ring sees of the receiver: the shard under the cursor is in the call the
\* sweep makes, the others are in none.
View(k) ==
    /\ RingRpc(k) = IF rpc \in SweepPcs /\ k = cursor THEN rpc ELSE "idle"
    /\ RingMax(k) = IF rpc \in DrainPcs /\ k = cursor THEN max - count ELSE 0

\* The call in progress and the receiver's label say the same.
LEMMA Views ==
    ASSUME NEW k, IndInv, IndInv'
    PROVE  View(k) /\ View(k)'
<1>1. /\ rop \in {"try_recv", "recv", "drain"} /\ rpc # "retry" <=> rpc \in SweepPcs
      /\ rop = "drain" <=> rpc \in DrainPcs
  BY DEF IndInv, TypeOK, ReceiverTypes, ReceiverPcs, ReceiverInv, SweepPcs, RecvPcs, DrainPcs
<1>2. /\ rop' \in {"try_recv", "recv", "drain"} /\ rpc' # "retry" <=> rpc' \in SweepPcs
      /\ rop' = "drain" <=> rpc' \in DrainPcs
  BY DEF IndInv, TypeOK, ReceiverTypes, ReceiverPcs, ReceiverInv, SweepPcs, RecvPcs, DrainPcs
<1>3. View(k)
  BY <1>1 DEF View, RingRpc, RingMax, Sweeps, Want, SweepPcs
<1>4. View(k)'
  BY <1>2 DEF View, RingRpc, RingMax, Sweeps, Want, SweepPcs
<1> QED
  BY <1>3, <1>4

\* Nothing of shard k changes but perhaps where the receiver is.
SameShard(k) ==
    /\ tail'[k] = tail[k] /\ head'[k] = head[k] /\ chead'[k] = chead[k]
    /\ live'[k] = live[k] /\ refs'[k] = refs[k] /\ dropped'[k] = dropped[k]
    /\ told'[k] = told[k] /\ RingSpc(k)' = RingSpc(k)

\* A sweep elsewhere leaves a ring alone.
LEMMA RingQuiet ==
    ASSUME NEW k, SameShard(k), RingRpc(k)' = RingRpc(k), RingMax(k)' = RingMax(k)
    PROVE  UNCHANGED R(k)!vars
BY DEF SameShard, R!vars, R!handles

\* A sweep that comes to a ring begins a call of it.
LEMMA RingBegins ==
    ASSUME NEW k, SameShard(k), "rx" \in live[k], RingRpc(k) = "idle",
           \/ RingRpc(k)' = "tr_tail" /\ RingMax(k)' = RingMax(k)
           \/ RingRpc(k)' = "dr_take" /\ RingMax(k)' \in Nat
    PROVE  R(k)!Next
BY DEF SameShard, R!handles, R!ReceiverCall, R!DrainCall, R!Next

\* Every step of a sender is a step of its ring, and of no other.
LEMMA RingSenderStep ==
    ASSUME IndInv, IndInv', NEW s \in Shards, NEW k \in Shards,
           \/ \E o \in {"try_send", "send"} : SenderCall(s, o)
           \/ TsDisconnected(s) \/ TsSend(s) \/ DropSender(s) \/ SenderArc(s)
    PROVE  R(k)!Next \/ UNCHANGED R(k)!vars
<1>0. RingTypes /\ SenderTypes /\ told \in [Shards -> SUBSET {"tx", "rx"}]
  BY DEF IndInv, TypeOK, HistoryTypes
<1> USE DEF shards, senders, sweep, rctl, history
<1>1. UNCHANGED <<head, chead, rpc, rop, cursor, max, count>>
  BY DEF SenderCall, TsDisconnected, TsSend, DropSender, SenderArc, Release
<1>2. RingRpc(k)' = RingRpc(k) /\ RingMax(k)' = RingMax(k)
  BY <1>1 DEF RingRpc, RingMax, Sweeps, Want
<1>3. CASE k # s
  <2>1. SameShard(k)
    BY <1>0, <1>3 DEF RingTypes, SenderTypes, SameShard, RingSpc, SenderReturn,
          SenderCall, TsDisconnected, TsSend, DropSender, SenderArc, Release
  <2> QED
    BY <1>2, <2>1, RingQuiet
<1>4. CASE k = s
  <2>i. /\ spc[k] \in {"ts_disc", "ts_send"} => "tx" \in live[k]
        /\ spc[k] = "idle" => "tx" \in live[k]
        /\ spc[k] = "arc" => "tx" \in refs[k] /\ "tx" \notin live[k]
        /\ tail[k] \in Nat /\ head[k] \in Nat /\ tail[k] <= head[k] + PerShard
    BY <1>0 DEF IndInv, SenderInv, RingInv, RingTypes
  <2>1. ASSUME NEW o \in {"try_send", "send"}, SenderCall(k, o) PROVE R(k)!Next
    <3>1. RingSpc(k) = "idle" /\ RingSpc(k)' = "ts_disc" /\ "tx" \in live[k]
      BY <1>0, <2>i, <2>1 DEF SenderCall, RingSpc, SenderTypes
    <3>2. UNCHANGED <<shards, told>>
      BY <2>1 DEF SenderCall
    <3> QED
      BY <1>2, <3>1, <3>2 DEF R!SenderCall, R!handles, R!Next
  <2>2. CASE TsDisconnected(k)
    <3>1. RingSpc(k) = "ts_disc" /\ UNCHANGED shards
      BY <2>2 DEF TsDisconnected, RingSpc
    <3>2. disconnected(k) => RingSpc(k)' = "idle" /\ told'[k] = told[k] \cup {"tx"}
      BY <1>0, <2>2 DEF TsDisconnected, SenderReturn, RingSpc, SenderTypes
    <3>3. ~disconnected(k) => RingSpc(k)' = "ts_send" /\ told'[k] = told[k]
      BY <1>0, <2>2 DEF TsDisconnected, RingSpc, SenderTypes
    <3>4. disconnected(k) <=> R(k)!disconnected
      BY DEF disconnected, R!disconnected
    <3> QED
      BY <1>2, <3>1, <3>2, <3>3, <3>4 DEF R!TsDisconnected, R!handles, R!Next
  <2>3. CASE TsSend(k)
    <3>1. RingSpc(k) = "ts_send" /\ UNCHANGED <<head, chead, live, refs, dropped, told>>
      BY <2>3 DEF TsSend, RingSpc
    <3>2. \/ tail[k] - head[k] < PerShard /\ tail'[k] = tail[k] + 1 /\ RingSpc(k)' = "idle"
          \/ tail[k] - head[k] = PerShard /\ tail'[k] = tail[k] /\ RingSpc(k)' \in {"idle", "ts_disc"}
      BY <1>0, <2>i, <2>3, Positive DEF TsSend, SenderReturn, RingSpc, SenderTypes, RingTypes
    <3> QED
      BY <1>2, <3>1, <3>2 DEF R!TsSend, R!handles, R!Next
  <2>4. CASE DropSender(k)
    <3>1. RingSpc(k) = "idle" /\ RingSpc(k)' = "idle" /\ "tx" \in live[k]
      BY <1>0, <2>i, <2>4 DEF DropSender, RingSpc, SenderTypes
    <3>2. live'[k] = live[k] \ {"tx"} /\ UNCHANGED <<tail, head, chead, refs, dropped, told>>
      BY <1>0, <2>4 DEF DropSender, RingTypes
    <3>3. R(k)!Drop("tx")
      BY <1>2, <3>1, <3>2 DEF R!Drop
    <3> QED
      BY <3>3 DEF R!Next
  <2>5. CASE SenderArc(k)
    <3>1. RingSpc(k) = "idle" /\ RingSpc(k)' = "idle" /\ "tx" \in refs[k] \ live[k]
      BY <1>0, <2>i, <2>5 DEF SenderArc, RingSpc, SenderTypes
    <3>2. /\ refs'[k] = refs[k] \ {"tx"} /\ UNCHANGED <<tail, head, chead, live, told>>
          /\ dropped'[k] = IF refs[k] = {"tx"} THEN tail[k] - head[k] ELSE dropped[k]
      BY <1>0, <2>5 DEF SenderArc, Release, RingTypes
    <3>3. R(k)!Release("tx")
      BY <1>2, <3>1, <3>2 DEF R!Release
    <3> QED
      BY <3>3 DEF R!Next
  <2> QED
    BY <1>4, <2>1, <2>2, <2>3, <2>4, <2>5
<1> QED
  BY <1>3, <1>4

\* Every step of a receiver is a step of the ring under its cursor, of the one
\* the cursor comes to, or of the one it drops.
LEMMA RingReceiverStep ==
    ASSUME IndInv, IndInv', NEW k \in Shards,
           \/ ReceiverStep \/ DropReceiver
           \/ \E o \in {"try_recv", "recv"} : ReceiverCall(o)
           \/ \E m \in DrainLimits : DrainCall(m)
    PROVE  R(k)!Next \/ UNCHANGED R(k)!vars
<1> DEFINE Goal == R(k)!Next \/ UNCHANGED R(k)!vars
<1>0. /\ RingTypes /\ ReceiverTypes /\ told \in [Shards -> SUBSET {"tx", "rx"}]
      /\ cursor \in Shards /\ visited \in Shards /\ cursor' \in Shards
      /\ chead[k] \in Nat /\ head[k] \in Nat /\ tail[k] \in Nat /\ chead[k] <= tail[k]
      /\ max \in Nat /\ count \in Nat /\ max' \in Nat /\ count' \in Nat
  BY DEF IndInv, TypeOK, ReceiverTypes, HistoryTypes, RingTypes
<1>r. /\ rpc \in SweepPcs \cup {"idle", "retry"} => "rx" \in live[k]
      /\ rpc = "idle" => count = 0
      /\ rpc' \in DrainPcs => max' - count' \in Nat
  <2>1. ReceiverInv /\ ReceiverInv' /\ BatchInv'
    BY DEF IndInv
  <2>2. rpc' \in DrainPcs => count' < max'
    BY <2>1 DEF ReceiverInv, BatchInv
  <2>3. rpc' \in DrainPcs => max' - count' \in Nat
    BY <1>0, <2>2
  <2> QED
    BY <2>1, <2>3 DEF ReceiverInv, SweepPcs, RecvPcs, DrainPcs
<1>v. View(k) /\ View(k)'
  BY Views
<1>s. UNCHANGED spc => RingSpc(k)' = RingSpc(k)
  BY DEF RingSpc
<1> USE DEF shards, senders, sweep, rctl, history
\* The sweep begins at the new cursor, or comes to it.
<1>b. ASSUME SameShard(k), rpc \in SweepPcs \cup {"idle", "retry"},
             rpc \in {"idle", "retry"} \/ k # cursor,
             rpc' \in {"idle", "retry", "tr_tail", "dr_take", "rx_drop"}
      PROVE  Goal
  <2>1. RingRpc(k) = "idle" /\ RingMax(k) = 0
    BY <1>b, <1>v DEF View, SweepPcs, RecvPcs, DrainPcs
  <2>2. CASE k = cursor' /\ rpc' = "tr_tail"
    BY <1>b, <1>r, <1>v, <2>1, <2>2, RingBegins DEF View, SweepPcs, RecvPcs, DrainPcs
  <2>3. CASE k = cursor' /\ rpc' = "dr_take"
    BY <1>b, <1>r, <1>v, <2>1, <2>3, RingBegins DEF View, SweepPcs, RecvPcs, DrainPcs
  <2>4. CASE k # cursor' \/ rpc' \in {"idle", "retry", "rx_drop"}
    <3>1. RingRpc(k)' = "idle" /\ RingMax(k)' = 0
      BY <2>4, <1>v DEF View, SweepPcs, RecvPcs, DrainPcs
    <3> QED
      BY <1>b, <2>1, <3>1, RingQuiet
  <2> QED
    BY <1>b, <2>2, <2>3, <2>4
\* The shard under the cursor is left: its call is over.
<1>e. ASSUME k = cursor, \/ rpc' \in {"idle", "retry"}
                         \/ advance /\ visited + 1 < NShards
      PROVE  RingRpc(k)' = "idle" /\ RingMax(k)' = 0
  <2>1. CASE rpc' \in {"idle", "retry"}
    BY <2>1, <1>v DEF View, SweepPcs, RecvPcs, DrainPcs
  <2>2. CASE advance /\ visited + 1 < NShards
    <3>1. cursor' # cursor
      BY <1>0, <2>2, Positive DEF advance, Shards
    <3> QED
      BY <1>e, <1>v, <3>1 DEF View
  <2> QED
    BY <1>e, <2>1, <2>2
\* A message is taken from the ring under the cursor.
<1>k. ASSUME Take, UNCHANGED spc, Pending(cursor) > 0, rpc \in {"tr_tail", "tr_last"} PROVE Goal
  <2>1. rpc' = "idle" /\ UNCHANGED <<tail, live, refs, dropped, told, cursor>>
    BY <1>k DEF Take, Answer
  <2>2. CASE k = cursor
    <3>1. RingRpc(k) = rpc /\ RingMax(k) = 0 /\ RingRpc(k)' = "idle" /\ RingMax(k)' = 0
      BY <1>k, <1>e, <1>v, <2>1, <2>2 DEF View, SweepPcs, RecvPcs, DrainPcs
    <3>2. chead'[k] = chead[k] + 1 /\ head'[k] = chead[k] + 1 /\ tail[k] - chead[k] > 0
      BY <1>0, <1>k, <2>2 DEF Take, MoveOut, Pending, RingTypes
    <3>3. R(k)!Take
      BY <2>1, <3>1, <3>2 DEF R!Take, R!Pending
    <3> QED
      BY <1>k, <1>s, <2>1, <3>1, <3>3 DEF R!TrTail, R!TrLast, R!handles, R!Next
  <2>3. CASE k # cursor
    <3>1. SameShard(k)
      BY <1>0, <1>k, <1>s, <2>1, <2>3 DEF SameShard, Take, MoveOut, RingTypes
    <3> QED
      BY <1>b, <1>k, <2>1, <2>3, <3>1 DEF SweepPcs, RecvPcs
  <2> QED
    BY <2>2, <2>3
\* What Leave does to the two shards it concerns.
<1>l. ASSUME NEW g, Leave(g), UNCHANGED spc, rpc \in {"tr_disc", "tr_last"}
      PROVE  /\ k = cursor => RingRpc(k)' = "idle" /\ RingMax(k)' = RingMax(k) /\ RingRpc(k) = rpc
             /\ k # cursor /\ told'[k] = told[k] => Goal
  <2>1. rpc' \in {"idle", "retry", "tr_tail"} /\ UNCHANGED shards
        /\ (rpc' \in {"idle", "retry"} \/ (advance /\ visited + 1 < NShards))
    BY <1>l DEF Leave, Answer
  <2>2. k = cursor => RingRpc(k) = rpc /\ RingMax(k) = 0
    BY <1>l, <1>v DEF View, SweepPcs, RecvPcs, DrainPcs
  <2>3. ASSUME k # cursor, told'[k] = told[k] PROVE Goal
    <3>1. SameShard(k)
      BY <1>l, <1>s, <2>1, <2>3 DEF SameShard
    <3> QED
      BY <1>b, <1>l, <2>1, <2>3, <3>1 DEF SweepPcs, RecvPcs
  <2> QED
    BY <1>e, <2>1, <2>2, <2>3
\* The guard of a drain() publishes and the call is over.
<1>g. ASSUME PublishGuardDrop, UNCHANGED <<spc, told>>, rpc \in {"dr_guard", "dr_unwind"},
             rpc' \in {"idle", "dr_take"},
             rpc' = "idle" \/ (advance /\ visited + 1 < NShards)
      PROVE  Goal
  <2>1. CASE k = cursor
    <3>1. RingRpc(k) = rpc /\ RingRpc(k)' = "idle" /\ RingMax(k)' = 0
      BY <1>e, <1>g, <1>v, <2>1 DEF View, SweepPcs, RecvPcs, DrainPcs
    <3>2. head'[k] = chead[k] /\ UNCHANGED <<tail, chead, live, refs, dropped>>
      BY <1>0, <1>g, <2>1 DEF PublishGuardDrop, RingTypes
    <3> QED
      BY <1>g, <1>s, <3>1, <3>2 DEF R!PublishGuardDrop, R!handles, R!Next
  <2>2. CASE k # cursor
    <3>1. SameShard(k)
      BY <1>0, <1>g, <1>s, <2>2 DEF SameShard, PublishGuardDrop, RingTypes
    <3> QED
      BY <1>b, <1>g, <2>2, <3>1 DEF SweepPcs, DrainPcs
  <2> QED
    BY <2>1, <2>2
<1>6. ASSUME NEW o \in {"try_recv", "recv"}, ReceiverCall(o) PROVE Goal
  <2>1. rpc = "idle" /\ rpc' = "tr_tail" /\ SameShard(k)
    BY <1>6, <1>s DEF ReceiverCall, BeginSweep, SameShard
  <2> QED
    BY <1>b, <2>1
<1>7. CASE Retry
  <2>1. rpc = "retry" /\ rpc' = "tr_tail" /\ SameShard(k)
    BY <1>7, <1>s DEF Retry, BeginSweep, SameShard
  <2> QED
    BY <1>b, <2>1
<1>8. CASE TrTail
  <2>1. CASE Pending(cursor) > 0 /\ Take
    BY <1>8, <1>k, <2>1 DEF TrTail
  <2>2. CASE Pending(cursor) = 0 /\ rpc' = "tr_disc" /\ UNCHANGED <<shards, sweep, history>>
    <3>1. rpc = "tr_tail" /\ UNCHANGED spc
      BY <1>8 DEF TrTail
    <3>2. SameShard(k)
      BY <1>s, <2>2, <3>1 DEF SameShard
    <3>3. k # cursor => RingRpc(k)' = RingRpc(k) /\ RingMax(k)' = RingMax(k)
      BY <1>v, <2>2 DEF View
    <3>4. k = cursor => /\ RingRpc(k) = "tr_tail" /\ RingRpc(k)' = "tr_disc"
                        /\ RingMax(k)' = RingMax(k) /\ tail[k] - chead[k] = 0
      BY <1>v, <2>2, <3>1 DEF View, Pending, SweepPcs, RecvPcs, DrainPcs
    <3> QED
      BY <3>2, <3>3, <3>4, RingQuiet DEF SameShard, R!TrTail, R!Pending, R!handles, R!Next
  <2> QED
    BY <1>8, <2>1, <2>2 DEF TrTail
<1>9. CASE TrDisconnected
  <2>0. rpc = "tr_disc" /\ UNCHANGED spc
    BY <1>9 DEF TrDisconnected
  <2>1. CASE disconnected(cursor) /\ rpc' = "tr_last" /\ UNCHANGED <<shards, sweep, history>>
    <3>1. SameShard(k)
      BY <1>s, <2>0, <2>1 DEF SameShard
    <3>2. k # cursor => RingRpc(k)' = RingRpc(k) /\ RingMax(k)' = RingMax(k)
      BY <1>v, <2>1 DEF View
    <3>3. k = cursor => /\ RingRpc(k) = "tr_disc" /\ RingRpc(k)' = "tr_last"
                        /\ RingMax(k)' = RingMax(k) /\ R(k)!disconnected
      BY <1>v, <2>0, <2>1 DEF View, disconnected, R!disconnected, SweepPcs, RecvPcs, DrainPcs
    <3> QED
      BY <3>1, <3>2, <3>3, RingQuiet DEF SameShard, R!TrDisconnected, R!handles, R!Next
  <2>2. CASE ~disconnected(cursor) /\ Leave(0) /\ UNCHANGED told
    <3>1. SameShard(k)
      BY <1>s, <2>0, <2>2 DEF SameShard, Leave
    <3>2. k = cursor => ~R(k)!disconnected
      BY <2>2 DEF disconnected, R!disconnected
    <3>3. k = cursor => RingRpc(k)' = "idle" /\ RingMax(k)' = RingMax(k) /\ RingRpc(k) = "tr_disc"
      BY <1>l, <2>0, <2>2
    <3>4. k # cursor => Goal
      BY <1>l, <2>0, <2>2
    <3> QED
      BY <3>1, <3>2, <3>3, <3>4 DEF SameShard, R!TrDisconnected, R!handles, R!Next
  <2> QED
    BY <1>9, <2>1, <2>2 DEF TrDisconnected
<1>10. CASE TrLast
  <2>0. rpc = "tr_last" /\ UNCHANGED spc
    BY <1>10 DEF TrLast
  <2>1. CASE Pending(cursor) > 0 /\ Take
    BY <1>k, <2>0, <2>1
  <2>2. CASE Pending(cursor) = 0 /\ Leave(1) /\ told' = [told EXCEPT ![cursor] = @ \cup {"rx"}]
    <3>1. UNCHANGED shards /\ RingSpc(k)' = RingSpc(k)
      BY <1>s, <2>0, <2>2 DEF Leave
    <3>2. k = cursor => tail[k] - chead[k] = 0 /\ told'[k] = told[k] \cup {"rx"}
      BY <1>0, <2>2 DEF Pending
    <3>3. k = cursor => RingRpc(k)' = "idle" /\ RingMax(k)' = RingMax(k) /\ RingRpc(k) = "tr_last"
      BY <1>l, <2>0, <2>2
    <3>4. k # cursor => Goal
      BY <1>0, <1>l, <2>0, <2>2
    <3> QED
      BY <3>1, <3>2, <3>3, <3>4 DEF R!TrLast, R!Pending, R!handles, R!Next
  <2> QED
    BY <1>10, <2>1, <2>2 DEF TrLast
<1>11. ASSUME NEW m \in DrainLimits, DrainCall(m) PROVE Goal
  <2>1. rpc = "idle" /\ rpc' \in {"idle", "dr_take"} /\ SameShard(k)
    BY <1>11, <1>s DEF DrainCall, SameShard
  <2> QED
    BY <1>b, <2>1
<1>12. CASE DrTake
  <2>1. /\ rpc = "dr_take" /\ rpc' \in {"dr_take", "dr_unwind"}
        /\ UNCHANGED <<tail, head, live, refs, dropped, told, spc, cursor, max, count>>
    BY <1>12 DEF DrTake
  <2>2. CASE k = cursor
    <3>1. /\ RingRpc(k) = "dr_take" /\ RingRpc(k)' \in {"dr_take", "dr_unwind"}
          /\ RingMax(k)' = RingMax(k) /\ RingMax(k) = max - count
      BY <1>v, <2>1, <2>2 DEF View, SweepPcs, DrainPcs
    <3>2. chead'[k] = chead[k] + 1 /\ tail[k] - chead[k] > 0 /\ chead[k] - head[k] < max - count
      BY <1>0, <1>12, <2>2 DEF DrTake, MoveOut, Pending, RingTypes, took, Want
    <3> QED
      BY <1>s, <2>1, <3>1, <3>2 DEF R!DrTake, R!took, R!Pending, R!handles, R!Next
  <2>3. CASE k # cursor
    <3>1. SameShard(k)
      BY <1>0, <1>12, <1>s, <2>1, <2>3 DEF SameShard, DrTake, MoveOut, RingTypes
    <3>2. RingRpc(k)' = RingRpc(k) /\ RingMax(k)' = RingMax(k)
      BY <1>v, <2>1, <2>3 DEF View
    <3> QED
      BY <3>1, <3>2, RingQuiet
  <2> QED
    BY <2>2, <2>3
<1>19. CASE DrEnd
  <2>1. rpc = "dr_take" /\ rpc' = "dr_guard" /\ UNCHANGED <<shards, told, spc, cursor, max, count>>
    BY <1>19 DEF DrEnd
  <2>2. SameShard(k)
    BY <1>s, <2>1 DEF SameShard
  <2>3. k # cursor => RingRpc(k)' = RingRpc(k) /\ RingMax(k)' = RingMax(k)
    BY <1>v, <2>1 DEF View
  <2>4. k = cursor => /\ RingRpc(k) = "dr_take" /\ RingRpc(k)' = "dr_guard"
                      /\ RingMax(k)' = RingMax(k) /\ RingMax(k) = max - count
    BY <1>v, <2>1 DEF View, SweepPcs, DrainPcs
  <2>5. k = cursor => chead[k] - head[k] >= max - count \/ tail[k] - chead[k] = 0
    BY <1>0, <1>19 DEF DrEnd, took, Want, Pending
  <2> QED
    BY <2>2, <2>3, <2>4, <2>5, RingQuiet DEF SameShard, R!DrEnd, R!took, R!Pending, R!handles, R!Next
<1>13. CASE DrShardDone
  <2>1. /\ rpc = "dr_guard" /\ rpc' \in {"idle", "dr_take"} /\ PublishGuardDrop /\ UNCHANGED <<spc, told>>
        /\ rpc' = "idle" \/ (advance /\ visited + 1 < NShards)
    BY <1>13 DEF DrShardDone, Answer
  <2> QED
    BY <1>g, <2>1
<1>14. CASE DrUnwind
  <2>1. rpc = "dr_unwind" /\ rpc' = "idle" /\ PublishGuardDrop /\ UNCHANGED <<spc, told>>
    BY <1>14 DEF DrUnwind, Answer
  <2> QED
    BY <1>g, <2>1
<1>15. CASE DropReceiver
  <2>1. rpc = "idle" /\ rpc' = "rx_drop" /\ SameShard(k)
    BY <1>15, <1>s DEF DropReceiver, SameShard
  <2> QED
    BY <1>b, <2>1
<1>d. ASSUME rpc \in {"rx_drop", "rx_arc"}, rpc' \in {"rx_drop", "rx_arc", "gone"}
      PROVE  RingRpc(k) = "idle" /\ RingRpc(k)' = "idle" /\ RingMax(k) = 0 /\ RingMax(k)' = 0
  BY <1>d, <1>v DEF View, SweepPcs, RecvPcs, DrainPcs
<1>16. CASE RxDrop
  <2>1. /\ rpc = "rx_drop" /\ rpc' = "rx_arc" /\ live' = [live EXCEPT ![visited] = live[visited] \ {"rx"}]
        /\ UNCHANGED <<tail, head, chead, refs, dropped, told, spc>>
    BY <1>16 DEF RxDrop
  <2>2. CASE k = visited
    <3>1. "rx" \in live[k] /\ live'[k] = live[k] \ {"rx"}
      BY <1>0, <2>1, <2>2 DEF IndInv, ReceiverInv, Shards, RingTypes
    <3>2. R(k)!Drop("rx")
      BY <1>d, <1>s, <2>1, <3>1 DEF R!Drop
    <3> QED
      BY <3>2 DEF R!Next
  <2>3. CASE k # visited
    <3>1. SameShard(k)
      BY <1>0, <1>s, <2>1, <2>3 DEF SameShard, RingTypes
    <3> QED
      BY <1>d, <2>1, <3>1, RingQuiet
  <2> QED
    BY <2>2, <2>3
<1>17. CASE RxArc
  <2>1. /\ rpc = "rx_arc" /\ rpc' \in {"rx_drop", "gone"} /\ Release(visited, "rx") /\ UNCHANGED <<told, spc>>
    BY <1>17 DEF RxArc
  <2>2. CASE k = visited
    <3>1. "rx" \in refs[k] \ live[k]
      BY <1>0, <2>1, <2>2 DEF IndInv, ReceiverInv, Shards
    <3>2. /\ refs'[k] = refs[k] \ {"rx"} /\ UNCHANGED <<tail, head, chead, live>>
          /\ dropped'[k] = IF refs[k] = {"rx"} THEN tail[k] - head[k] ELSE dropped[k]
      BY <1>0, <2>1, <2>2 DEF Release, RingTypes
    <3>3. R(k)!Release("rx")
      BY <1>d, <1>s, <2>1, <3>1, <3>2 DEF R!Release
    <3> QED
      BY <3>3 DEF R!Next
  <2>3. CASE k # visited
    <3>1. SameShard(k)
      BY <1>0, <1>s, <2>1, <2>3 DEF SameShard, Release, RingTypes
    <3> QED
      BY <1>d, <2>1, <3>1, RingQuiet
  <2> QED
    BY <2>2, <2>3
<1> QED
  BY <1>6, <1>7, <1>8, <1>9, <1>10, <1>11, <1>12, <1>13, <1>14, <1>15, <1>16, <1>17, <1>19 DEF ReceiverStep

\* Every shard is driven as the ring of spsc.rs is, whatever the number of
\* shards, their capacity and the budget of a visit.
THEOREM RingsRefinement == Spec => ImplementsRings
<1>1. Init => \A s \in Shards : R(s)!Init
  <2> SUFFICES ASSUME Init, NEW s \in Shards PROVE R(s)!Init
    OBVIOUS
  <2>1. RingSpc(s) = "idle" /\ RingRpc(s) = "idle" /\ RingMax(s) = 0
    BY DEF Init, RingSpc, RingRpc, RingMax, Sweeps
  <2> QED
    BY <2>1 DEF Init, R!Init
<1>2. IndInv /\ IndInv' /\ [Next]_vars => [\A s \in Shards : [R(s)!Next]_(R(s)!vars)]_vars
  <2> SUFFICES ASSUME IndInv, IndInv', Next, NEW k \in Shards PROVE R(k)!Next \/ UNCHANGED R(k)!vars
    OBVIOUS
  <2>1. CASE UNCHANGED vars
    <3>1. RingSpc(k)' = RingSpc(k) /\ RingRpc(k)' = RingRpc(k) /\ RingMax(k)' = RingMax(k)
      BY <2>1 DEF vars, senders, sweep, rctl, RingSpc, RingRpc, RingMax, Sweeps, Want
    <3>2. SameShard(k)
      BY <2>1, <3>1 DEF vars, shards, history, SameShard
    <3> QED
      BY <3>1, <3>2, RingQuiet
  <2>2. CASE \E s \in Shards : \/ SenderStep(s) \/ DropSender(s)
                               \/ \E o \in {"try_send", "send"} : SenderCall(s, o)
    BY <2>2, RingSenderStep DEF SenderStep
  <2>3. CASE \/ ReceiverStep \/ DropReceiver
             \/ \E o \in {"try_recv", "recv"} : ReceiverCall(o)
             \/ \E m \in DrainLimits : DrainCall(m)
    BY <2>3, RingReceiverStep
  <2> QED
    BY <2>1, <2>2, <2>3 DEF Next, Calls, Terminated
<1> QED
  BY <1>1, <1>2, Invariance, PTL DEF Spec, ImplementsRings

=============================================================================
