--------------------------- MODULE ShmNet_proofs ---------------------------
(***************************************************************************)
(* ShmNet for any processes and buffers: its invariants, and that it is a  *)
(* network of mailboxes.  SignalsOK to LockRight are inductive one after   *)
(* the other; the conjuncts below say what the properties rest on.  Each   *)
(* is kept by every step, mostly because no step but a few touches what it *)
(* speaks of.                                                              *)
(***************************************************************************)
EXTENDS ShmNet, SequenceTheorems, TLAPS

(* wt messages are in the buffer; a sender that has the lock found room.   *)
TextLong == \A d \in Node : wt[d] <= Len(text[d])
RoomLeft == \A n \in Node : At(n, "put") => wt[out[n].to] < Capacity
(* A packet is decoded to its end before the next is taken.                *)
Emptied ==
  \A d \in Node : pending[d] \/ pc[d] \in {"clear", "decode"} \/ Replying(d) \/ inbuf[d] = <<>>
(* Two nodes never send the same message.                                  *)
Different ==
  \A m, n \in Node :
    m # n /\ pc[m] \in Sending /\ pc[n] \in Sending => out[m].msg # out[n].msg
(* Of a message in its buffer a node is told by the flag, is on its way to *)
(* look, or will be told by the one who has the lock.                      *)
Told ==
  \A d \in Node :
    \/ wt[d] = 0 \/ "USR1" \in flag[d] \/ (Looking(d) /\ sig[d] = "USR1")
    \/ (lock[d] \in Node /\ Telling(lock[d], d))
(* What is put off keeps its signal.                                       *)
PutOffSeen == \A d \in Node : pending[d] => flag[d] # {} \/ At(d, "receive")
(* interrupt_off is set outside the handler only while nothing is to be    *)
(* done, or until a sender clears it; and who has cleared it rings.        *)
Late(n, d) == At(n, "ringOff") /\ out[n].to = d
Later(n, d) == At(n, "ringBell") /\ out[n].to = d
Opened ==
  \A d \in Node : off[d] /\ flag[d] # {} /\ ~InHandler(d) => \E n \in Node : Late(n, d)
Awake ==
  \A d \in Node : At(d, "listen") => off[d] \/ bell[d] \/ \E n \in Node : Later(n, d)

IInv ==
  /\ TypeOK /\ TextLong /\ RoomLeft /\ Emptied /\ Different
  /\ Told /\ PutOffSeen /\ Opened /\ Awake /\ AlarmNoticed

-----------------------------------------------------------------------------
(* Sequences of messages.  The first k of one are a sequence ...           *)
LEMMA Prefix ==
  ASSUME NEW s \in Seq(Msg), NEW k \in Nat, k <= Len(s)
  PROVE  SubSeq(s, 1, k) \in Seq(Msg) /\ Len(SubSeq(s, 1, k)) = k
<1>1. \A i \in 1..k : s[i] \in Msg
  BY ElementOfSeq
<1> QED
  BY <1>1, SubSeqProperties

(* ... and one more behind them is a sequence, longer by one.               *)
LEMMA Appended ==
  ASSUME NEW s \in Seq(Msg), NEW k \in Nat, k <= Len(s), NEW m \in Msg
  PROVE  LET t == Append(SubSeq(s, 1, k), m)
         IN  t \in Seq(Msg) /\ Len(t) = k + 1 /\ SubSeq(t, 1, k + 1) = t
<1> DEFINE p == SubSeq(s, 1, k)
<1>1. p \in Seq(Msg) /\ Len(p) = k
  BY Prefix
<1> HIDE DEF p
<1>2. Append(p, m) \in Seq(Msg) /\ Len(Append(p, m)) = k + 1
  BY <1>1, AppendProperties
<1>3. SubSeq(Append(p, m), 1, k + 1) = Append(p, m)
  BY <1>2, SubSeqFull
<1> QED
  BY <1>2, <1>3 DEF p

(* What is appended to the second part is appended to the whole.           *)
LEMMA AppendBehind ==
  ASSUME NEW s \in Seq(Msg), NEW t \in Seq(Msg), NEW m \in Msg
  PROVE  s \o Append(t, m) = Append(s \o t, m)
<1>1. <<m>> \in Seq(Msg) /\ s \o t \in Seq(Msg)
  BY ConcatProperties
<1>2. s \o Append(t, m) = s \o (t \o <<m>>)
  BY AppendIsConcat
<1>3. @ = (s \o t) \o <<m>>
  BY <1>1, ConcatAssociative
<1> QED
  BY <1>1, <1>2, <1>3, AppendIsConcat

(* The tail of the whole is the tail of the first part and the second.     *)
LEMMA TailOfConcat ==
  ASSUME NEW s \in Seq(Msg), NEW t \in Seq(Msg), s # <<>>
  PROVE  s \o t # <<>> /\ Tail(s \o t) = Tail(s) \o t
<1>1. s \o t \in Seq(Msg) /\ Tail(s) \in Seq(Msg) /\ Len(s) \in Nat \ {0} /\ Len(t) \in Nat
  BY ConcatProperties, HeadTailProperties, EmptySeq, LenProperties
<1>2. s \o t # <<>>
  BY <1>1, ConcatEqualIffEmpty
<1>3. Tail(s \o t) \in Seq(Msg) /\ Tail(s) \o t \in Seq(Msg)
  BY <1>1, <1>2, ConcatProperties, HeadTailProperties
<1>4. /\ Len(s \o t) = Len(s) + Len(t) /\ Len(Tail(s)) = Len(s) - 1
      /\ Len(Tail(s \o t)) = Len(s) + Len(t) - 1
      /\ Len(Tail(s) \o t) = Len(s) + Len(t) - 1
  BY <1>1, <1>2, ConcatProperties, HeadTailProperties
<1>5. ASSUME NEW i \in 1..(Len(s) + Len(t) - 1) PROVE Tail(s \o t)[i] = (Tail(s) \o t)[i]
  <2>1. Tail(s \o t)[i] = (s \o t)[i + 1]
    BY <1>1, <1>2, <1>4, HeadTailProperties
  <2>2. (s \o t)[i + 1] = IF i + 1 <= Len(s) THEN s[i + 1] ELSE t[i + 1 - Len(s)]
    BY <1>1, ConcatProperties
  <2>3. (Tail(s) \o t)[i] = IF i <= Len(s) - 1 THEN Tail(s)[i] ELSE t[i - (Len(s) - 1)]
    BY <1>1, <1>4, ConcatProperties
  <2>4. i <= Len(s) - 1 => Tail(s)[i] = s[i + 1]
    BY <1>1, <1>4, HeadTailProperties
  <2> QED
    BY <1>1, <2>1, <2>2, <2>3, <2>4
<1> QED
  BY <1>2, <1>3, <1>4, <1>5, SeqEqual

-----------------------------------------------------------------------------
(* The variables of the signal handling keep their types.                  *)
LEMMA SignalsStep ==
  ASSUME SignalsOK, NEW n \in Node, Step(n) \/ Expire(n)
  PROVE  SignalsOK'
<1>1. CASE SendStep(n)
  <2>1. CASE SendLock(n)
    BY <2>1 DEF SendLock, SignalsOK, Sig, buffers, signals, goals, reception, handling,
       sending, At, Goto, Set
  <2>2. CASE SendFull(n)
    BY <2>2 DEF SendFull, SignalsOK, Sig, buffers, signals, goals, reception, handling,
       sending, At, Goto, Set
  <2>3. CASE Spin(n)
    BY <2>3 DEF Spin, SignalsOK, Sig, buffers, signals, goals, reception, handling,
       sending, At, Goto, Set
  <2>4. CASE Put(n)
    BY <2>4 DEF Put, SignalsOK, Sig, buffers, signals, goals, reception, handling,
       sending, At, Goto, Set
  <2>5. CASE RingDone(n)
    BY <2>5 DEF RingDone, SignalsOK, Sig, buffers, signals, goals, reception, handling,
       sending, At, Goto, Set
  <2>6. CASE RingFlag(n)
    BY <2>6 DEF RingFlag, SignalsOK, Sig, buffers, signals, goals, reception, handling,
       sending, At, Goto, Set
  <2>7. CASE RingOff(n)
    BY <2>7 DEF RingOff, SignalsOK, Sig, buffers, signals, goals, reception, handling,
       sending, At, Goto, Set
  <2>8. CASE RingBell(n)
    BY <2>8 DEF RingBell, SignalsOK, Sig, buffers, signals, goals, reception, handling,
       sending, At, Goto, Set
  <2> QED
    BY <1>1, <2>1, <2>2, <2>3, <2>4, <2>5, <2>6, <2>7, <2>8 DEF SendStep
<1>2. CASE InterruptStep(n)
  <2>1. CASE Enqueue(n, "enqueue", "restore", "signals")
    BY <2>1 DEF Enqueue, SignalsOK, Sig, buffers, signals, goals, reception, handling,
       sending, At, Goto, Set
  <2>2. CASE Restore(n, "restore", "signals")
    BY <2>2 DEF Restore, SignalsOK, Sig, buffers, signals, goals, reception, handling,
       sending, At, Goto, Set
  <2>3. CASE Signals(n)
    BY <2>3 DEF Signals, SignalsOK, Sig, buffers, signals, goals, reception, handling,
       sending, At, Goto, Set
  <2>4. CASE Scan(n)
    BY <2>4 DEF Scan, SignalsOK, Sig, buffers, signals, goals, reception, handling,
       sending, At, Goto, Set
  <2>5. CASE Skip(n)
    BY <2>5 DEF Skip, NextSignal, SignalsOK, Sig, buffers, signals, goals, reception,
       handling, sending, At, Goto, Set
  <2>6. CASE TakeUp(n)
    BY <2>6 DEF TakeUp, CanReceive, SignalsOK, Sig, buffers, signals, goals, reception,
       handling, sending, At, Goto, Set
  <2>7. CASE TakePacket(n)
    BY <2>7 DEF TakePacket, CanReceive, SignalsOK, Sig, buffers, signals, goals,
       reception, handling, sending, At, Goto, Set
  <2>8. CASE Clear(n)
    BY <2>8 DEF Clear, SignalsOK, Sig, buffers, signals, goals, reception, handling,
       sending, At, Goto, Set
  <2>9. CASE NoPacket(n)
    BY <2>9 DEF NoPacket, CanReceive, NextSignal, SignalsOK, Sig, buffers, signals,
       goals, reception, handling, sending, At, Goto, Set
  <2>10. CASE Decode(n)
    BY <2>10 DEF Decode, StartSend, SignalsOK, Sig, buffers, signals, goals, reception,
       handling, sending, At, Goto, Set
  <2>11. CASE PutOff(n)
    BY <2>11 DEF PutOff, SignalsOK, Sig, buffers, signals, goals, reception, handling,
       sending, At, Goto, Set
  <2>12. CASE Handled(n)
    BY <2>12 DEF Handled, SignalsOK, Sig, buffers, signals, goals, reception, handling,
       sending, At, Goto, Set
  <2>13. CASE Restore(n, "limit", "rescan")
    BY <2>13 DEF Restore, SignalsOK, Sig, buffers, signals, goals, reception, handling,
       sending, At, Goto, Set
  <2>14. CASE Rescan(n)
    BY <2>14 DEF Rescan, SignalsOK, Sig, buffers, signals, goals, reception, handling,
       sending, At, Goto, Set
  <2>15. CASE Enqueue(n, "enqueueAgain", "restoreAgain", "collect")
    BY <2>15 DEF Enqueue, SignalsOK, Sig, buffers, signals, goals, reception, handling,
       sending, At, Goto, Set
  <2>16. CASE Restore(n, "restoreAgain", "collect")
    BY <2>16 DEF Restore, SignalsOK, Sig, buffers, signals, goals, reception, handling,
       sending, At, Goto, Set
  <2>17. CASE HeapHasRoom(n)
    BY <2>17 DEF HeapHasRoom, Leave, SignalsOK, Sig, buffers, signals, goals, reception,
       handling, sending, At, Goto, Set
  <2>18. CASE Collect(n)
    BY <2>18 DEF Collect, Leave, SignalsOK, Sig, buffers, signals, goals, reception,
       handling, sending, At, Goto, Set
  <2>19. CASE RestoreLimit(n)
    BY <2>19 DEF RestoreLimit, Leave, SignalsOK, Sig, buffers, signals, goals,
       reception, handling, sending, At, Goto, Set
  <2> QED
    BY <1>2, <2>1, <2>2, <2>3, <2>4, <2>5, <2>6, <2>7, <2>8, <2>9, <2>10, <2>11, <2>12,
       <2>13, <2>14, <2>15, <2>16, <2>17, <2>18, <2>19 DEF InterruptStep
<1>3. CASE TopStep(n)
  BY <1>3 DEF TopStep, GoalSends, StartSend, GoalsEnd, GoalsFillHeap, Interrupted,
     NoGoals, ReturnWtc, Wait, Listen, Woken, DoNotWait, SignalsOK, Sig, buffers,
     signals, goals, reception, handling, sending, At, Goto, Set
<1>4. CASE Expire(n)
  BY <1>4 DEF Expire, SignalsOK, Sig, buffers, signals, goals, reception, handling,
     sending, At, Goto, Set
<1> QED
  BY <1>1, <1>2, <1>3, <1>4 DEF Step

(* So do those of the goals and the heap.                                  *)
LEMMA GoalsStep ==
  ASSUME GoalsOK, NEW n \in Node, Step(n) \/ Expire(n)
  PROVE  GoalsOK'
<1>1. CASE SendStep(n)
  BY <1>1 DEF SendStep, SendLock, SendFull, Spin, Put, RingDone, RingFlag, RingOff,
     RingBell, GoalsOK, buffers, signals, goals, reception, handling, sending, At, Goto,
     Set
<1>2. CASE InterruptStep(n)
  BY <1>2 DEF InterruptStep, Enqueue, Restore, Signals, Scan, Skip, NextSignal, TakeUp,
     CanReceive, TakePacket, Clear, NoPacket, Decode, StartSend, PutOff, Handled,
     Rescan, HeapHasRoom, Leave, Collect, RestoreLimit, GoalsOK, buffers, signals,
     goals, reception, handling, sending, At, Goto, Set
<1>3. CASE TopStep(n)
  BY <1>3 DEF TopStep, GoalSends, StartSend, GoalsEnd, GoalsFillHeap, Interrupted,
     NoGoals, ReturnWtc, Wait, Listen, Woken, DoNotWait, GoalsOK, buffers, signals,
     goals, reception, handling, sending, At, Goto, Set
<1>4. CASE Expire(n)
  BY <1>4 DEF Expire, GoalsOK, buffers, signals, goals, reception, handling, sending,
     At, Goto, Set
<1> QED
  BY <1>1, <1>2, <1>3, <1>4 DEF Step

(* A node is always somewhere in the code, and sends a message exactly in  *)
(* the part that does.                                                     *)
LEMMA ControlStep ==
  ASSUME ControlOK, NEW n \in Node, Step(n) \/ Expire(n)
  PROVE  ControlOK'
<1>1. CASE SendStep(n)
  <2>1. CASE SendLock(n)
    BY <2>1, NodeAssumption, SizeAssumption DEF SendLock, ControlOK, Outgoing, Sending,
       Handling, Elsewhere, Msg, buffers, signals, goals, reception, handling, sending,
       At, Goto, Set
  <2>2. CASE SendFull(n)
    BY <2>2, NodeAssumption, SizeAssumption DEF SendFull, ControlOK, Outgoing, Sending,
       Handling, Elsewhere, Msg, buffers, signals, goals, reception, handling, sending,
       At, Goto, Set
  <2>3. CASE Spin(n)
    BY <2>3, NodeAssumption, SizeAssumption DEF Spin, ControlOK, Outgoing, Sending,
       Handling, Elsewhere, Msg, buffers, signals, goals, reception, handling, sending,
       At, Goto, Set
  <2>4. CASE Put(n)
    BY <2>4, NodeAssumption, SizeAssumption DEF Put, ControlOK, Outgoing, Sending,
       Handling, Elsewhere, Msg, buffers, signals, goals, reception, handling, sending,
       At, Goto, Set
  <2>5. CASE RingDone(n)
    BY <2>5, NodeAssumption, SizeAssumption DEF RingDone, ControlOK, Outgoing, Sending,
       Handling, Elsewhere, Msg, buffers, signals, goals, reception, handling, sending,
       At, Goto, Set
  <2>6. CASE RingFlag(n)
    BY <2>6, NodeAssumption, SizeAssumption DEF RingFlag, ControlOK, Outgoing, Sending,
       Handling, Elsewhere, Msg, buffers, signals, goals, reception, handling, sending,
       At, Goto, Set
  <2>7. CASE RingOff(n)
    BY <2>7, NodeAssumption, SizeAssumption DEF RingOff, ControlOK, Outgoing, Sending,
       Handling, Elsewhere, Msg, buffers, signals, goals, reception, handling, sending,
       At, Goto, Set
  <2>8. CASE RingBell(n)
    BY <2>8, NodeAssumption, SizeAssumption DEF RingBell, ControlOK, Outgoing, Sending,
       Handling, Elsewhere, Msg, buffers, signals, goals, reception, handling, sending,
       At, Goto, Set
  <2> QED
    BY <1>1, <2>1, <2>2, <2>3, <2>4, <2>5, <2>6, <2>7, <2>8 DEF SendStep
<1>2. CASE InterruptStep(n)
  BY <1>2, NodeAssumption, SizeAssumption DEF InterruptStep, Enqueue, Restore, Signals,
     Scan, Skip, NextSignal, TakeUp, CanReceive, TakePacket, Clear, NoPacket, Decode,
     StartSend, PutOff, Handled, Rescan, HeapHasRoom, Leave, Collect, RestoreLimit,
     ControlOK, Outgoing, Sending, Handling, Elsewhere, Msg, buffers, signals, goals,
     reception, handling, sending, At, Goto, Set
<1>3. CASE TopStep(n)
  BY <1>3, NodeAssumption, SizeAssumption DEF TopStep, GoalSends, StartSend, GoalsEnd,
     GoalsFillHeap, Interrupted, NoGoals, ReturnWtc, Wait, Listen, Woken, DoNotWait,
     ControlOK, Outgoing, Sending, Handling, Elsewhere, Msg, buffers, signals, goals,
     reception, handling, sending, At, Goto, Set
<1>4. CASE Expire(n)
  BY <1>4, NodeAssumption, SizeAssumption DEF Expire, ControlOK, Outgoing, Sending,
     Handling, Elsewhere, Msg, buffers, signals, goals, reception, handling, sending,
     At, Goto, Set
<1> QED
  BY <1>1, <1>2, <1>3, <1>4 DEF Step

(* A buffer is locked by the sender that works on it or the receiver that  *)
(* copies it out.                                                          *)
LEMMA LockStep ==
  ASSUME ControlOK, LockRight, NEW n \in Node, Step(n) \/ Expire(n)
  PROVE  LockRight'
<1>1. CASE SendStep(n)
  BY <1>1, NodeAssumption DEF SendStep, SendLock, SendFull, Spin, Put, RingDone,
     RingFlag, RingOff, RingBell, ControlOK, LockRight, Locked, Sending, Outgoing,
     buffers, signals, goals, reception, handling, sending, At, Goto, Set
<1>2. CASE InterruptStep(n)
  BY <1>2, NodeAssumption DEF InterruptStep, Enqueue, Restore, Signals, Scan, Skip,
     NextSignal, TakeUp, CanReceive, TakePacket, Clear, NoPacket, Decode, StartSend,
     PutOff, Handled, Rescan, HeapHasRoom, Leave, Collect, RestoreLimit, ControlOK,
     LockRight, Locked, Sending, Outgoing, buffers, signals, goals, reception, handling,
     sending, At, Goto, Set
<1>3. CASE TopStep(n)
  BY <1>3, NodeAssumption DEF TopStep, GoalSends, StartSend, GoalsEnd, GoalsFillHeap,
     Interrupted, NoGoals, ReturnWtc, Wait, Listen, Woken, DoNotWait, ControlOK,
     LockRight, Locked, Sending, Outgoing, buffers, signals, goals, reception, handling,
     sending, At, Goto, Set
<1>4. CASE Expire(n)
  BY <1>4, NodeAssumption DEF Expire, ControlOK, LockRight, Locked, Sending, Outgoing,
     buffers, signals, goals, reception, handling, sending, At, Goto, Set
<1> QED
  BY <1>1, <1>2, <1>3, <1>4 DEF Step

(* The lock keeps the room a sender has found from being used by another.  *)
LEMMA RoomStep ==
  ASSUME BuffersOK, ControlOK, LockRight, RoomLeft, NEW n \in Node, Step(n) \/ Expire(n)
  PROVE  RoomLeft'
<1>1. CASE SendStep(n)
  <2>1. CASE SendLock(n)
    BY <2>1, SizeAssumption, NodeAssumption DEF SendLock, BuffersOK, LockRight, Locked,
       RoomLeft, ControlOK, Outgoing, Sending, buffers, signals, goals, reception,
       handling, sending, At, Goto, Set
  <2>2. CASE SendFull(n)
    BY <2>2, SizeAssumption, NodeAssumption DEF SendFull, BuffersOK, LockRight, Locked,
       RoomLeft, ControlOK, Outgoing, Sending, buffers, signals, goals, reception,
       handling, sending, At, Goto, Set
  <2>3. CASE Spin(n)
    BY <2>3, SizeAssumption, NodeAssumption DEF Spin, BuffersOK, LockRight, Locked,
       RoomLeft, ControlOK, Outgoing, Sending, buffers, signals, goals, reception,
       handling, sending, At, Goto, Set
  <2>4. CASE Put(n)
    <3>1. pc[n] = "put" /\ pc' = [pc EXCEPT ![n] = "ringDone"] /\ UNCHANGED out
      BY <2>4 DEF Put, At, Goto, sending
    <3>2. \A e \in Node \ {out[n].to} : wt'[e] = wt[e]
      BY <2>4 DEF Put, Set, BuffersOK, ControlOK, Outgoing, Sending, At
    <3>3. ASSUME NEW e \in Node \ {n}, pc[e] = "put" PROVE out[e].to \in Node \ {out[n].to}
      BY <3>1, <3>3, NodeAssumption DEF LockRight, Locked, ControlOK, Outgoing, Sending
    <3> QED
      BY <3>1, <3>2, <3>3 DEF RoomLeft, ControlOK, At
  <2>5. CASE RingDone(n)
    BY <2>5, SizeAssumption, NodeAssumption DEF RingDone, BuffersOK, LockRight, Locked,
       RoomLeft, ControlOK, Outgoing, Sending, buffers, signals, goals, reception,
       handling, sending, At, Goto, Set
  <2>6. CASE RingFlag(n)
    BY <2>6, SizeAssumption, NodeAssumption DEF RingFlag, BuffersOK, LockRight, Locked,
       RoomLeft, ControlOK, Outgoing, Sending, buffers, signals, goals, reception,
       handling, sending, At, Goto, Set
  <2>7. CASE RingOff(n)
    BY <2>7, SizeAssumption, NodeAssumption DEF RingOff, BuffersOK, LockRight, Locked,
       RoomLeft, ControlOK, Outgoing, Sending, buffers, signals, goals, reception,
       handling, sending, At, Goto, Set
  <2>8. CASE RingBell(n)
    <3>1. /\ UNCHANGED wt /\ pc' = [pc EXCEPT ![n] = out[n].back]
          /\ out[n].back # "put" /\ \A e \in Node \ {n} : out'[e] = out[e]
      BY <2>8 DEF RingBell, ControlOK, Outgoing, Sending, At, Goto, Set
    <3> QED
      BY <3>1 DEF RoomLeft, ControlOK, At
  <2> QED
    BY <1>1, <2>1, <2>2, <2>3, <2>4, <2>5, <2>6, <2>7, <2>8 DEF SendStep
<1>2. CASE InterruptStep(n)
  <2>1. \A e \in Node : wt'[e] = wt[e] \/ wt'[e] = 0
    BY <1>2 DEF InterruptStep, Enqueue, Restore, Signals, Scan, Skip, NextSignal,
       TakeUp, CanReceive, TakePacket, Clear, NoPacket, Decode, StartSend, PutOff,
       Handled, Rescan, HeapHasRoom, Leave, Collect, RestoreLimit, BuffersOK, buffers,
       signals, goals, reception, handling, sending, At, Goto, Set
  <2>2. \A e \in Node : pc'[e] = "put" => pc[e] = "put" /\ out'[e] = out[e]
    BY <1>2 DEF InterruptStep, Enqueue, Restore, Signals, Scan, Skip, NextSignal,
       TakeUp, CanReceive, TakePacket, Clear, NoPacket, Decode, StartSend, PutOff,
       Handled, Rescan, HeapHasRoom, Leave, Collect, RestoreLimit, ControlOK, buffers,
       signals, goals, reception, handling, sending, At, Goto, Set
  <2> QED
    BY <2>1, <2>2, SizeAssumption DEF RoomLeft, ControlOK, Outgoing, Sending, At
<1>3. CASE TopStep(n)
  BY <1>3, SizeAssumption, NodeAssumption DEF TopStep, GoalSends, StartSend, GoalsEnd,
     GoalsFillHeap, Interrupted, NoGoals, ReturnWtc, Wait, Listen, Woken, DoNotWait,
     BuffersOK, LockRight, Locked, RoomLeft, ControlOK, Outgoing, Sending, buffers,
     signals, goals, reception, handling, sending, At, Goto, Set
<1>4. CASE Expire(n)
  BY <1>4, SizeAssumption, NodeAssumption DEF Expire, BuffersOK, LockRight, Locked,
     RoomLeft, ControlOK, Outgoing, Sending, buffers, signals, goals, reception,
     handling, sending, At, Goto, Set
<1> QED
  BY <1>1, <1>2, <1>3, <1>4 DEF Step

(* So nothing is written past a buffer.                                    *)
LEMMA BuffersStep ==
  ASSUME BuffersOK, TextLong, RoomLeft, ControlOK, NEW n \in Node, Step(n) \/ Expire(n)
  PROVE  BuffersOK' /\ TextLong'
<1>1. CASE SendStep(n)
  <2>1. CASE SendLock(n)
    BY <2>1, SizeAssumption DEF SendLock, BuffersOK, TextLong, buffers, signals, goals,
       reception, handling, sending, At, Goto, Set
  <2>2. CASE SendFull(n)
    BY <2>2, SizeAssumption DEF SendFull, BuffersOK, TextLong, buffers, signals, goals,
       reception, handling, sending, At, Goto, Set
  <2>3. CASE Spin(n)
    BY <2>3, SizeAssumption DEF Spin, BuffersOK, TextLong, buffers, signals, goals,
       reception, handling, sending, At, Goto, Set
  <2>4. CASE Put(n)
    <3> DEFINE d == out[n].to
               m == out[n].msg
               t == Append(SubSeq(text[d], 1, wt[d]), m)
    <3>1. /\ d \in Node /\ m \in Msg /\ wt[d] < Capacity
          /\ text[d] \in Seq(Msg) /\ wt[d] \in Nat /\ wt[d] <= Len(text[d])
      BY <2>4, SizeAssumption DEF Put, At, ControlOK, Outgoing, Sending, BuffersOK,
         TextLong, RoomLeft
    <3>2. t \in Seq(Msg) /\ Len(t) = wt[d] + 1
      BY <3>1, Appended
    <3>3. /\ text' = [text EXCEPT ![d] = t] /\ wt' = [wt EXCEPT ![d] = wt[d] + 1]
          /\ UNCHANGED reception
      BY <2>4 DEF Put, Set
    <3> HIDE DEF d, t
    <3> QED
      BY <3>1, <3>2, <3>3, SizeAssumption DEF BuffersOK, TextLong, reception
  <2>5. CASE RingDone(n)
    BY <2>5, SizeAssumption DEF RingDone, BuffersOK, TextLong, buffers, signals, goals,
       reception, handling, sending, At, Goto, Set
  <2>6. CASE RingFlag(n)
    BY <2>6, SizeAssumption DEF RingFlag, BuffersOK, TextLong, buffers, signals, goals,
       reception, handling, sending, At, Goto, Set
  <2>7. CASE RingOff(n)
    BY <2>7, SizeAssumption DEF RingOff, BuffersOK, TextLong, buffers, signals, goals,
       reception, handling, sending, At, Goto, Set
  <2>8. CASE RingBell(n)
    BY <2>8, SizeAssumption DEF RingBell, BuffersOK, TextLong, buffers, signals, goals,
       reception, handling, sending, At, Goto, Set
  <2> QED
    BY <1>1, <2>1, <2>2, <2>3, <2>4, <2>5, <2>6, <2>7, <2>8 DEF SendStep
<1>2. CASE InterruptStep(n)
  <2>1. CASE Enqueue(n, "enqueue", "restore", "signals")
    BY <2>1, SizeAssumption DEF Enqueue, BuffersOK, TextLong, buffers, signals, goals,
       reception, handling, sending, At, Goto, Set
  <2>2. CASE Restore(n, "restore", "signals")
    BY <2>2, SizeAssumption DEF Restore, BuffersOK, TextLong, buffers, signals, goals,
       reception, handling, sending, At, Goto, Set
  <2>3. CASE Signals(n)
    BY <2>3, SizeAssumption DEF Signals, BuffersOK, TextLong, buffers, signals, goals,
       reception, handling, sending, At, Goto, Set
  <2>4. CASE Scan(n)
    BY <2>4, SizeAssumption DEF Scan, BuffersOK, TextLong, buffers, signals, goals,
       reception, handling, sending, At, Goto, Set
  <2>5. CASE Skip(n)
    BY <2>5, SizeAssumption DEF Skip, NextSignal, BuffersOK, TextLong, buffers, signals,
       goals, reception, handling, sending, At, Goto, Set
  <2>6. CASE TakeUp(n)
    BY <2>6, SizeAssumption DEF TakeUp, CanReceive, BuffersOK, TextLong, buffers,
       signals, goals, reception, handling, sending, At, Goto, Set
  <2>7. CASE TakePacket(n)
    <3>1. SubSeq(text[n], 1, wt[n]) \in Seq(Msg)
      BY Prefix, SizeAssumption DEF BuffersOK, TextLong
    <3>2. /\ UNCHANGED <<text, wt, pending>>
          /\ inbuf' = [inbuf EXCEPT ![n] = SubSeq(text[n], 1, wt[n])]
      BY <2>7 DEF TakePacket, Set
    <3> QED
      BY <3>1, <3>2 DEF BuffersOK, TextLong
  <2>8. CASE Clear(n)
    <3>1. <<>> \in Seq(Msg) /\ Len(<<>>) = 0
      BY EmptySeq
    <3>2. /\ UNCHANGED reception
          /\ text' = [text EXCEPT ![n] = <<>>] /\ wt' = [wt EXCEPT ![n] = 0]
      BY <2>8 DEF Clear, Set
    <3> QED
      BY <3>1, <3>2, SizeAssumption DEF BuffersOK, TextLong, reception
  <2>9. CASE NoPacket(n)
    BY <2>9, SizeAssumption DEF NoPacket, CanReceive, NextSignal, BuffersOK, TextLong,
       buffers, signals, goals, reception, handling, sending, At, Goto, Set
  <2>10. CASE Decode(n)
    <3>1. Tail(inbuf[n]) \in Seq(Msg)
      BY <2>10, HeadTailProperties DEF Decode, BuffersOK
    <3>2. UNCHANGED <<text, wt, pending>> /\ inbuf' = [inbuf EXCEPT ![n] = Tail(inbuf[n])]
      BY <2>10 DEF Decode, buffers
    <3> QED
      BY <3>1, <3>2 DEF BuffersOK, TextLong
  <2>11. CASE PutOff(n)
    BY <2>11, SizeAssumption DEF PutOff, BuffersOK, TextLong, buffers, signals, goals,
       reception, handling, sending, At, Goto, Set
  <2>12. CASE Handled(n)
    BY <2>12, SizeAssumption DEF Handled, BuffersOK, TextLong, buffers, signals, goals,
       reception, handling, sending, At, Goto, Set
  <2>13. CASE Restore(n, "limit", "rescan")
    BY <2>13, SizeAssumption DEF Restore, BuffersOK, TextLong, buffers, signals, goals,
       reception, handling, sending, At, Goto, Set
  <2>14. CASE Rescan(n)
    BY <2>14, SizeAssumption DEF Rescan, BuffersOK, TextLong, buffers, signals, goals,
       reception, handling, sending, At, Goto, Set
  <2>15. CASE Enqueue(n, "enqueueAgain", "restoreAgain", "collect")
    BY <2>15, SizeAssumption DEF Enqueue, BuffersOK, TextLong, buffers, signals, goals,
       reception, handling, sending, At, Goto, Set
  <2>16. CASE Restore(n, "restoreAgain", "collect")
    BY <2>16, SizeAssumption DEF Restore, BuffersOK, TextLong, buffers, signals, goals,
       reception, handling, sending, At, Goto, Set
  <2>17. CASE HeapHasRoom(n)
    BY <2>17, SizeAssumption DEF HeapHasRoom, Leave, BuffersOK, TextLong, buffers,
       signals, goals, reception, handling, sending, At, Goto, Set
  <2>18. CASE Collect(n)
    BY <2>18, SizeAssumption DEF Collect, Leave, BuffersOK, TextLong, buffers, signals,
       goals, reception, handling, sending, At, Goto, Set
  <2>19. CASE RestoreLimit(n)
    BY <2>19, SizeAssumption DEF RestoreLimit, Leave, BuffersOK, TextLong, buffers,
       signals, goals, reception, handling, sending, At, Goto, Set
  <2> QED
    BY <1>2, <2>1, <2>2, <2>3, <2>4, <2>5, <2>6, <2>7, <2>8, <2>9, <2>10, <2>11, <2>12,
       <2>13, <2>14, <2>15, <2>16, <2>17, <2>18, <2>19 DEF InterruptStep
<1>3. CASE TopStep(n)
  BY <1>3, SizeAssumption DEF TopStep, GoalSends, StartSend, GoalsEnd, GoalsFillHeap,
     Interrupted, NoGoals, ReturnWtc, Wait, Listen, Woken, DoNotWait, BuffersOK,
     TextLong, buffers, signals, goals, reception, handling, sending, At, Goto, Set
<1>4. CASE Expire(n)
  BY <1>4, SizeAssumption DEF Expire, BuffersOK, TextLong, buffers, signals, goals,
     reception, handling, sending, At, Goto, Set
<1> QED
  BY <1>1, <1>2, <1>3, <1>4 DEF Step

(* A message is sent by one node.                                          *)
LEMMA DifferentStep ==
  ASSUME ControlOK, Different, NEW n \in Node, Step(n) \/ Expire(n)
  PROVE  Different'
<1>1. CASE SendStep(n)
  BY <1>1, SizeAssumption DEF SendStep, SendLock, SendFull, Spin, Put, RingDone,
     RingFlag, RingOff, RingBell, Different, Msg, ControlOK, Outgoing, Sending, buffers,
     signals, goals, reception, handling, sending, At, Goto, Set
<1>2. CASE InterruptStep(n)
  BY <1>2, SizeAssumption DEF InterruptStep, Enqueue, Restore, Signals, Scan, Skip,
     NextSignal, TakeUp, CanReceive, TakePacket, Clear, NoPacket, Decode, StartSend,
     PutOff, Handled, Rescan, HeapHasRoom, Leave, Collect, RestoreLimit, Different, Msg,
     ControlOK, Outgoing, Sending, buffers, signals, goals, reception, handling,
     sending, At, Goto, Set
<1>3. CASE TopStep(n)
  BY <1>3, SizeAssumption DEF TopStep, GoalSends, StartSend, GoalsEnd, GoalsFillHeap,
     Interrupted, NoGoals, ReturnWtc, Wait, Listen, Woken, DoNotWait, Different, Msg,
     ControlOK, Outgoing, Sending, buffers, signals, goals, reception, handling,
     sending, At, Goto, Set
<1>4. CASE Expire(n)
  BY <1>4, SizeAssumption DEF Expire, Different, Msg, ControlOK, Outgoing, Sending,
     buffers, signals, goals, reception, handling, sending, At, Goto, Set
<1> QED
  BY <1>1, <1>2, <1>3, <1>4 DEF Step

(* A packet is decoded to its end or put off.                              *)
LEMMA EmptiedStep ==
  ASSUME BuffersOK, ControlOK, Emptied, NEW n \in Node, Step(n) \/ Expire(n)
  PROVE  Emptied'
<1>1. CASE SendStep(n)
  BY <1>1 DEF SendStep, SendLock, SendFull, Spin, Put, RingDone, RingFlag, RingOff,
     RingBell, BuffersOK, Replying, Emptied, ControlOK, Outgoing, Sending, buffers,
     signals, goals, reception, handling, sending, At, Goto, Set
<1>2. CASE InterruptStep(n)
  <2>1. CASE Enqueue(n, "enqueue", "restore", "signals")
    BY <2>1 DEF Enqueue, BuffersOK, Replying, Emptied, ControlOK, Outgoing, Sending,
       buffers, signals, goals, reception, handling, sending, At, Goto, Set
  <2>2. CASE Restore(n, "restore", "signals")
    BY <2>2 DEF Restore, BuffersOK, Replying, Emptied, ControlOK, Outgoing, Sending,
       buffers, signals, goals, reception, handling, sending, At, Goto, Set
  <2>3. CASE Signals(n)
    BY <2>3 DEF Signals, BuffersOK, Replying, Emptied, ControlOK, Outgoing, Sending,
       buffers, signals, goals, reception, handling, sending, At, Goto, Set
  <2>4. CASE Scan(n)
    BY <2>4 DEF Scan, BuffersOK, Replying, Emptied, ControlOK, Outgoing, Sending,
       buffers, signals, goals, reception, handling, sending, At, Goto, Set
  <2>5. CASE Skip(n)
    BY <2>5 DEF Skip, NextSignal, BuffersOK, Replying, Emptied, ControlOK, Outgoing,
       Sending, buffers, signals, goals, reception, handling, sending, At, Goto, Set
  <2>6. CASE TakeUp(n)
    BY <2>6 DEF TakeUp, CanReceive, BuffersOK, Replying, Emptied, ControlOK, Outgoing,
       Sending, buffers, signals, goals, reception, handling, sending, At, Goto, Set
  <2>7. CASE TakePacket(n)
    BY <2>7 DEF TakePacket, CanReceive, BuffersOK, Replying, Emptied, ControlOK,
       Outgoing, Sending, buffers, signals, goals, reception, handling, sending, At,
       Goto, Set
  <2>8. CASE Clear(n)
    BY <2>8 DEF Clear, BuffersOK, Replying, Emptied, ControlOK, Outgoing, Sending,
       buffers, signals, goals, reception, handling, sending, At, Goto, Set
  <2>9. CASE NoPacket(n)
    BY <2>9 DEF NoPacket, CanReceive, NextSignal, BuffersOK, Replying, Emptied,
       ControlOK, Outgoing, Sending, buffers, signals, goals, reception, handling,
       sending, At, Goto, Set
  <2>10. CASE Decode(n)
    BY <2>10 DEF Decode, StartSend, BuffersOK, Replying, Emptied, ControlOK, Outgoing,
       Sending, buffers, signals, goals, reception, handling, sending, At, Goto, Set
  <2>11. CASE PutOff(n)
    BY <2>11 DEF PutOff, BuffersOK, Replying, Emptied, ControlOK, Outgoing, Sending,
       buffers, signals, goals, reception, handling, sending, At, Goto, Set
  <2>12. CASE Handled(n)
    BY <2>12 DEF Handled, BuffersOK, Replying, Emptied, ControlOK, Outgoing, Sending,
       buffers, signals, goals, reception, handling, sending, At, Goto, Set
  <2>13. CASE Restore(n, "limit", "rescan")
    BY <2>13 DEF Restore, BuffersOK, Replying, Emptied, ControlOK, Outgoing, Sending,
       buffers, signals, goals, reception, handling, sending, At, Goto, Set
  <2>14. CASE Rescan(n)
    BY <2>14 DEF Rescan, BuffersOK, Replying, Emptied, ControlOK, Outgoing, Sending,
       buffers, signals, goals, reception, handling, sending, At, Goto, Set
  <2>15. CASE Enqueue(n, "enqueueAgain", "restoreAgain", "collect")
    BY <2>15 DEF Enqueue, BuffersOK, Replying, Emptied, ControlOK, Outgoing, Sending,
       buffers, signals, goals, reception, handling, sending, At, Goto, Set
  <2>16. CASE Restore(n, "restoreAgain", "collect")
    BY <2>16 DEF Restore, BuffersOK, Replying, Emptied, ControlOK, Outgoing, Sending,
       buffers, signals, goals, reception, handling, sending, At, Goto, Set
  <2>17. CASE HeapHasRoom(n)
    BY <2>17 DEF HeapHasRoom, Leave, BuffersOK, Replying, Emptied, ControlOK, Outgoing,
       Sending, buffers, signals, goals, reception, handling, sending, At, Goto, Set
  <2>18. CASE Collect(n)
    BY <2>18 DEF Collect, Leave, BuffersOK, Replying, Emptied, ControlOK, Outgoing,
       Sending, buffers, signals, goals, reception, handling, sending, At, Goto, Set
  <2>19. CASE RestoreLimit(n)
    BY <2>19 DEF RestoreLimit, Leave, BuffersOK, Replying, Emptied, ControlOK, Outgoing,
       Sending, buffers, signals, goals, reception, handling, sending, At, Goto, Set
  <2> QED
    BY <1>2, <2>1, <2>2, <2>3, <2>4, <2>5, <2>6, <2>7, <2>8, <2>9, <2>10, <2>11, <2>12,
       <2>13, <2>14, <2>15, <2>16, <2>17, <2>18, <2>19 DEF InterruptStep
<1>3. CASE TopStep(n)
  BY <1>3 DEF TopStep, GoalSends, StartSend, GoalsEnd, GoalsFillHeap, Interrupted,
     NoGoals, ReturnWtc, Wait, Listen, Woken, DoNotWait, BuffersOK, Replying, Emptied,
     ControlOK, Outgoing, Sending, buffers, signals, goals, reception, handling,
     sending, At, Goto, Set
<1>4. CASE Expire(n)
  BY <1>4 DEF Expire, BuffersOK, Replying, Emptied, ControlOK, Outgoing, Sending,
     buffers, signals, goals, reception, handling, sending, At, Goto, Set
<1> QED
  BY <1>1, <1>2, <1>3, <1>4 DEF Step

(* A node is told of its messages: the sender sets the flag before it gives*)
(* up the lock, and a flag that is cleared is followed by a look.          *)
LEMMA ToldStep ==
  ASSUME SignalsOK, BuffersOK, ControlOK, LockRight, Told, NEW n \in Node, Step(n) \/ Expire(n)
  PROVE  Told'
<1>1. CASE SendStep(n)
  <2>1. CASE SendLock(n)
    <3> DEFINE d == out[n].to
    <3>1. /\ UNCHANGED <<wt, sig, flag, out>> /\ pc[n] = "send" /\ d \in Node
          /\ lock[d] = None /\ \A e \in Node \ {d} : lock'[e] = lock[e]
          /\ \A e \in Node \ {n} : pc'[e] = pc[e]
      BY <2>1 DEF SendLock, ControlOK, LockRight, Outgoing, Sending, buffers, signals,
         goals, reception, handling, sending, At, Goto, Set
    <3>2. pc'[n] = "put"
      BY <2>1 DEF SendLock, ControlOK, At, Goto
    <3>3. \A e \in Node : Looking(e) => Looking(e)'
      BY <3>1, <3>2 DEF Looking, Replying, Sending
    <3>4. \A e \in Node : lock[e] \in Node /\ Telling(lock[e], e)
                          => lock'[e] = lock[e] /\ Telling(lock[e], e)'
      BY <3>1, NodeAssumption DEF Telling
    <3> QED
      BY <3>1, <3>3, <3>4 DEF Told
  <2>2. CASE SendFull(n)
    <3>1. UNCHANGED <<wt, sig, lock>> /\ \A d \in Node : flag[d] \subseteq flag'[d]
      BY <2>2 DEF SendFull, SignalsOK, buffers, signals, goals, reception, handling,
         sending, At, Goto, Set
    <3>2. \A d \in Node : Looking(d) => Looking(d)'
      BY <2>2 DEF SendFull, Looking, Replying, ControlOK, Outgoing, Sending, buffers,
         signals, goals, reception, handling, sending, At, Goto, Set
    <3>3. \A d, m \in Node : Telling(m, d) => Telling(m, d)'
      BY <2>2 DEF SendFull, Telling, ControlOK, Outgoing, Sending, buffers, signals,
         goals, reception, handling, sending, At, Goto, Set
    <3> QED
      BY <3>1, <3>2, <3>3 DEF Told
  <2>3. CASE Spin(n)
    BY <2>3, NodeAssumption, SizeAssumption, SMTT(30) DEF Spin, SignalsOK, BuffersOK, Sig,
       Looking, Replying, Telling, Told, LockRight, Locked, ControlOK, Outgoing,
       Sending, buffers, signals, goals, reception, handling, sending, At, Goto, Set
  <2>4. CASE Put(n)
    <3> DEFINE d == out[n].to
    <3>1. /\ UNCHANGED <<lock, sig, flag, out>> /\ pc[n] = "put" /\ d \in Node
          /\ \A e \in Node \ {d} : wt'[e] = wt[e]
          /\ \A e \in Node \ {n} : pc'[e] = pc[e]
      BY <2>4 DEF Put, ControlOK, BuffersOK, Outgoing, Sending, buffers, signals,
         goals, reception, handling, sending, At, Goto, Set
    <3>2. pc'[n] = "ringDone" /\ lock[d] = n
      BY <2>4 DEF Put, ControlOK, LockRight, Locked, Outgoing, Sending, At, Goto
    <3>3. \A e \in Node : Looking(e) => Looking(e)'
      BY <3>1, <3>2 DEF Looking, Replying, Sending
    <3>4. \A e \in Node : lock[e] \in Node /\ Telling(lock[e], e) => Telling(lock[e], e)'
      BY <3>1 DEF Telling
    <3>5. Telling(lock[d], d)'
      BY <3>1, <3>2 DEF Telling
    <3> QED
      BY <3>1, <3>2, <3>3, <3>4, <3>5 DEF Told
  <2>5. CASE RingDone(n)
    BY <2>5, NodeAssumption, SizeAssumption, SMTT(30) DEF RingDone, SignalsOK, BuffersOK, Sig,
       Looking, Replying, Telling, Told, LockRight, Locked, ControlOK, Outgoing,
       Sending, buffers, signals, goals, reception, handling, sending, At, Goto, Set
  <2>6. CASE RingFlag(n)
    BY <2>6, NodeAssumption, SizeAssumption, SMTT(30) DEF RingFlag, SignalsOK, BuffersOK, Sig,
       Looking, Replying, Telling, Told, LockRight, Locked, ControlOK, Outgoing,
       Sending, buffers, signals, goals, reception, handling, sending, At, Goto, Set
  <2>7. CASE RingOff(n)
    <3>1. UNCHANGED <<wt, sig, lock>> /\ \A d \in Node : flag[d] \subseteq flag'[d]
      BY <2>7 DEF RingOff, SignalsOK, buffers, signals, goals, reception, handling,
         sending, At, Goto, Set
    <3>2. \A d \in Node : Looking(d) => Looking(d)'
      BY <2>7 DEF RingOff, Looking, Replying, ControlOK, Outgoing, Sending, buffers,
         signals, goals, reception, handling, sending, At, Goto, Set
    <3>3. \A d, m \in Node : Telling(m, d) => Telling(m, d)'
      BY <2>7 DEF RingOff, Telling, ControlOK, Outgoing, Sending, buffers, signals,
         goals, reception, handling, sending, At, Goto, Set
    <3> QED
      BY <3>1, <3>2, <3>3 DEF Told
  <2>8. CASE RingBell(n)
    <3> DEFINE d == out[n].to
    <3>1. /\ UNCHANGED <<wt, sig, flag>> /\ pc[n] = "ringBell" /\ d \in Node
          /\ \A e \in Node \ {d} : lock'[e] = lock[e]
          /\ \A e \in Node \ {n} : pc'[e] = pc[e] /\ out'[e] = out[e]
          /\ pc'[n] = out[n].back
      BY <2>8 DEF RingBell, ControlOK, LockRight, Outgoing, Sending, buffers, signals,
         goals, reception, handling, sending, At, Goto, Set
    <3>2. lock[d] = n
      BY <2>8 DEF RingBell, ControlOK, LockRight, Locked, Outgoing, Sending, At
    <3>3. \A e \in Node : Looking(e) => Looking(e)'
      BY <3>1 DEF Looking, Replying, Sending
    <3>4. \A e \in Node : lock[e] \in Node /\ Telling(lock[e], e)
                          => lock'[e] = lock[e] /\ Telling(lock[e], e)'
      BY <3>1, <3>2 DEF Telling
    <3> QED
      BY <3>1, <3>3, <3>4 DEF Told
  <2> QED
    BY <1>1, <2>1, <2>2, <2>3, <2>4, <2>5, <2>6, <2>7, <2>8 DEF SendStep
<1>2. CASE InterruptStep(n)
  <2>1. CASE Enqueue(n, "enqueue", "restore", "signals")
    BY <2>1, NodeAssumption, SizeAssumption, SMTT(30) DEF Enqueue, SignalsOK, BuffersOK, Sig,
       Looking, Replying, Telling, Told, LockRight, Locked, ControlOK, Outgoing,
       Sending, buffers, signals, goals, reception, handling, sending, At, Goto, Set
  <2>2. CASE Restore(n, "restore", "signals")
    BY <2>2, NodeAssumption, SizeAssumption, SMTT(30) DEF Restore, SignalsOK, BuffersOK, Sig,
       Looking, Replying, Telling, Told, LockRight, Locked, ControlOK, Outgoing,
       Sending, buffers, signals, goals, reception, handling, sending, At, Goto, Set
  <2>3. CASE Signals(n)
    BY <2>3, NodeAssumption, SizeAssumption, SMTT(30) DEF Signals, SignalsOK, BuffersOK, Sig,
       Looking, Replying, Telling, Told, LockRight, Locked, ControlOK, Outgoing,
       Sending, buffers, signals, goals, reception, handling, sending, At, Goto, Set
  <2>4. CASE Scan(n)
    BY <2>4, NodeAssumption, SizeAssumption, SMTT(30) DEF Scan, SignalsOK, BuffersOK, Sig,
       Looking, Replying, Telling, Told, LockRight, Locked, ControlOK, Outgoing,
       Sending, buffers, signals, goals, reception, handling, sending, At, Goto, Set
  <2>5. CASE Skip(n)
    BY <2>5, NodeAssumption, SizeAssumption, SMTT(30) DEF Skip, NextSignal, SignalsOK, BuffersOK,
       Sig, Looking, Replying, Telling, Told, LockRight, Locked, ControlOK, Outgoing,
       Sending, buffers, signals, goals, reception, handling, sending, At, Goto, Set
  <2>6. CASE TakeUp(n)
    BY <2>6, NodeAssumption, SizeAssumption, SMTT(30) DEF TakeUp, CanReceive, SignalsOK,
       BuffersOK, Sig, Looking, Replying, Telling, Told, LockRight, Locked, ControlOK,
       Outgoing, Sending, buffers, signals, goals, reception, handling, sending, At,
       Goto, Set
  <2>7. CASE TakePacket(n)
    <3>1. /\ UNCHANGED <<wt, sig, flag, out>> /\ lock[n] = None
          /\ \A e \in Node \ {n} : lock'[e] = lock[e]
          /\ pc' = [pc EXCEPT ![n] = "clear"] /\ pc[n] \notin Sending
      BY <2>7 DEF TakePacket, CanReceive, LockRight, Sending, buffers, signals, goals,
         reception, handling, sending, At, Goto, Set
    <3>2. \A e \in Node : Looking(e) => Looking(e)'
      BY <3>1 DEF Looking, Replying, ControlOK
    <3>3. \A e \in Node : lock[e] \in Node /\ Telling(lock[e], e) => lock'[e] = lock[e] /\ Telling(lock[e], e)'
      BY <3>1, NodeAssumption DEF Telling, ControlOK, Sending
    <3> QED
      BY <3>1, <3>2, <3>3 DEF Told
  <2>8. CASE Clear(n)
    BY <2>8, NodeAssumption, SizeAssumption, SMTT(30) DEF Clear, SignalsOK, BuffersOK, Sig,
       Looking, Replying, Telling, Told, LockRight, Locked, ControlOK, Outgoing,
       Sending, buffers, signals, goals, reception, handling, sending, At, Goto, Set
  <2>9. CASE NoPacket(n)
    BY <2>9, NodeAssumption, SizeAssumption, SMTT(30) DEF NoPacket, CanReceive, NextSignal,
       SignalsOK, BuffersOK, Sig, Looking, Replying, Telling, Told, LockRight, Locked,
       ControlOK, Outgoing, Sending, buffers, signals, goals, reception, handling,
       sending, At, Goto, Set
  <2>10. CASE Decode(n)
    <3>1. UNCHANGED <<wt, sig, lock>> /\ \A d \in Node : flag[d] \subseteq flag'[d]
      BY <2>10 DEF Decode, StartSend, SignalsOK, buffers, signals, goals, reception,
         handling, sending, At, Goto, Set
    <3>2. \A d \in Node : Looking(d) => Looking(d)'
      BY <2>10 DEF Decode, StartSend, Looking, Replying, ControlOK, Outgoing, Sending,
         buffers, signals, goals, reception, handling, sending, At, Goto, Set
    <3>3. \A d, m \in Node : Telling(m, d) => Telling(m, d)'
      BY <2>10 DEF Decode, StartSend, Telling, ControlOK, Outgoing, Sending, buffers,
         signals, goals, reception, handling, sending, At, Goto, Set
    <3> QED
      BY <3>1, <3>2, <3>3 DEF Told
  <2>11. CASE PutOff(n)
    BY <2>11, NodeAssumption, SizeAssumption, SMTT(30) DEF PutOff, SignalsOK, BuffersOK, Sig,
       Looking, Replying, Telling, Told, LockRight, Locked, ControlOK, Outgoing,
       Sending, buffers, signals, goals, reception, handling, sending, At, Goto, Set
  <2>12. CASE Handled(n)
    BY <2>12, NodeAssumption, SizeAssumption, SMTT(30) DEF Handled, SignalsOK, BuffersOK, Sig,
       Looking, Replying, Telling, Told, LockRight, Locked, ControlOK, Outgoing,
       Sending, buffers, signals, goals, reception, handling, sending, At, Goto, Set
  <2>13. CASE Restore(n, "limit", "rescan")
    BY <2>13, NodeAssumption, SizeAssumption, SMTT(30) DEF Restore, SignalsOK, BuffersOK, Sig,
       Looking, Replying, Telling, Told, LockRight, Locked, ControlOK, Outgoing,
       Sending, buffers, signals, goals, reception, handling, sending, At, Goto, Set
  <2>14. CASE Rescan(n)
    BY <2>14, NodeAssumption, SizeAssumption, SMTT(30) DEF Rescan, SignalsOK, BuffersOK, Sig,
       Looking, Replying, Telling, Told, LockRight, Locked, ControlOK, Outgoing,
       Sending, buffers, signals, goals, reception, handling, sending, At, Goto, Set
  <2>15. CASE Enqueue(n, "enqueueAgain", "restoreAgain", "collect")
    BY <2>15, NodeAssumption, SizeAssumption, SMTT(30) DEF Enqueue, SignalsOK, BuffersOK, Sig,
       Looking, Replying, Telling, Told, LockRight, Locked, ControlOK, Outgoing,
       Sending, buffers, signals, goals, reception, handling, sending, At, Goto, Set
  <2>16. CASE Restore(n, "restoreAgain", "collect")
    BY <2>16, NodeAssumption, SizeAssumption, SMTT(30) DEF Restore, SignalsOK, BuffersOK, Sig,
       Looking, Replying, Telling, Told, LockRight, Locked, ControlOK, Outgoing,
       Sending, buffers, signals, goals, reception, handling, sending, At, Goto, Set
  <2>17. CASE HeapHasRoom(n)
    BY <2>17, NodeAssumption, SizeAssumption, SMTT(30) DEF HeapHasRoom, Leave, SignalsOK,
       BuffersOK, Sig, Looking, Replying, Telling, Told, LockRight, Locked, ControlOK,
       Outgoing, Sending, buffers, signals, goals, reception, handling, sending, At,
       Goto, Set
  <2>18. CASE Collect(n)
    <3>1. UNCHANGED <<wt, sig, lock>> /\ \A d \in Node : flag[d] \subseteq flag'[d]
      BY <2>18 DEF Collect, Leave, SignalsOK, buffers, signals, goals, reception,
         handling, sending, At, Goto, Set
    <3>2. \A d \in Node : Looking(d) => Looking(d)'
      BY <2>18 DEF Collect, Leave, Looking, Replying, ControlOK, Outgoing, Sending,
         buffers, signals, goals, reception, handling, sending, At, Goto, Set
    <3>3. \A d, m \in Node : Telling(m, d) => Telling(m, d)'
      BY <2>18 DEF Collect, Leave, Telling, ControlOK, Outgoing, Sending, buffers,
         signals, goals, reception, handling, sending, At, Goto, Set
    <3> QED
      BY <3>1, <3>2, <3>3 DEF Told
  <2>19. CASE RestoreLimit(n)
    BY <2>19, NodeAssumption, SizeAssumption, SMTT(30) DEF RestoreLimit, Leave, SignalsOK,
       BuffersOK, Sig, Looking, Replying, Telling, Told, LockRight, Locked, ControlOK,
       Outgoing, Sending, buffers, signals, goals, reception, handling, sending, At,
       Goto, Set
  <2> QED
    BY <1>2, <2>1, <2>2, <2>3, <2>4, <2>5, <2>6, <2>7, <2>8, <2>9, <2>10, <2>11, <2>12,
       <2>13, <2>14, <2>15, <2>16, <2>17, <2>18, <2>19 DEF InterruptStep
<1>3. CASE TopStep(n)
  <2>1. CASE GoalSends(n)
    <3>1. UNCHANGED <<wt, sig, lock>> /\ \A d \in Node : flag[d] \subseteq flag'[d]
      BY <2>1 DEF GoalSends, StartSend, SignalsOK, buffers, signals, goals, reception,
         handling, sending, At, Goto, Set
    <3>2. \A d \in Node : Looking(d) => Looking(d)'
      BY <2>1 DEF GoalSends, StartSend, Looking, Replying, ControlOK, Outgoing,
         Sending, buffers, signals, goals, reception, handling, sending, At, Goto, Set
    <3>3. \A d, m \in Node : Telling(m, d) => Telling(m, d)'
      BY <2>1 DEF GoalSends, StartSend, Telling, ControlOK, Outgoing, Sending,
         buffers, signals, goals, reception, handling, sending, At, Goto, Set
    <3> QED
      BY <3>1, <3>2, <3>3 DEF Told
  <2>2. CASE GoalsEnd(n)
    BY <2>2, NodeAssumption, SizeAssumption, SMTT(30) DEF GoalsEnd, SignalsOK, BuffersOK, Sig,
       Looking, Replying, Telling, Told, LockRight, Locked, ControlOK, Outgoing,
       Sending, buffers, signals, goals, reception, handling, sending, At, Goto, Set
  <2>3. CASE GoalsFillHeap(n)
    BY <2>3, NodeAssumption, SizeAssumption, SMTT(30) DEF GoalsFillHeap, SignalsOK, BuffersOK,
       Sig, Looking, Replying, Telling, Told, LockRight, Locked, ControlOK, Outgoing,
       Sending, buffers, signals, goals, reception, handling, sending, At, Goto, Set
  <2>4. CASE Interrupted(n)
    BY <2>4, NodeAssumption, SizeAssumption, SMTT(30) DEF Interrupted, SignalsOK, BuffersOK, Sig,
       Looking, Replying, Telling, Told, LockRight, Locked, ControlOK, Outgoing,
       Sending, buffers, signals, goals, reception, handling, sending, At, Goto, Set
  <2>5. CASE NoGoals(n)
    BY <2>5, NodeAssumption, SizeAssumption, SMTT(30) DEF NoGoals, SignalsOK, BuffersOK, Sig,
       Looking, Replying, Telling, Told, LockRight, Locked, ControlOK, Outgoing,
       Sending, buffers, signals, goals, reception, handling, sending, At, Goto, Set
  <2>6. CASE ReturnWtc(n)
    <3>1. UNCHANGED <<wt, sig, lock>> /\ \A d \in Node : flag[d] \subseteq flag'[d]
      BY <2>6 DEF ReturnWtc, StartSend, SignalsOK, buffers, signals, goals, reception,
         handling, sending, At, Goto, Set
    <3>2. \A d \in Node : Looking(d) => Looking(d)'
      BY <2>6 DEF ReturnWtc, StartSend, Looking, Replying, ControlOK, Outgoing,
         Sending, buffers, signals, goals, reception, handling, sending, At, Goto, Set
    <3>3. \A d, m \in Node : Telling(m, d) => Telling(m, d)'
      BY <2>6 DEF ReturnWtc, StartSend, Telling, ControlOK, Outgoing, Sending,
         buffers, signals, goals, reception, handling, sending, At, Goto, Set
    <3> QED
      BY <3>1, <3>2, <3>3 DEF Told
  <2>7. CASE Wait(n)
    BY <2>7, NodeAssumption, SizeAssumption, SMTT(30) DEF Wait, SignalsOK, BuffersOK, Sig,
       Looking, Replying, Telling, Told, LockRight, Locked, ControlOK, Outgoing,
       Sending, buffers, signals, goals, reception, handling, sending, At, Goto, Set
  <2>8. CASE Listen(n)
    BY <2>8, NodeAssumption, SizeAssumption, SMTT(30) DEF Listen, Woken, SignalsOK, BuffersOK,
       Sig, Looking, Replying, Telling, Told, LockRight, Locked, ControlOK, Outgoing,
       Sending, buffers, signals, goals, reception, handling, sending, At, Goto, Set
  <2>9. CASE DoNotWait(n)
    <3>1. UNCHANGED <<wt, sig, lock>> /\ \A d \in Node : flag[d] \subseteq flag'[d]
      BY <2>9 DEF DoNotWait, Woken, SignalsOK, buffers, signals, goals, reception,
         handling, sending, At, Goto, Set
    <3>2. \A d \in Node : Looking(d) => Looking(d)'
      BY <2>9 DEF DoNotWait, Woken, Looking, Replying, ControlOK, Outgoing, Sending,
         buffers, signals, goals, reception, handling, sending, At, Goto, Set
    <3>3. \A d, m \in Node : Telling(m, d) => Telling(m, d)'
      BY <2>9 DEF DoNotWait, Woken, Telling, ControlOK, Outgoing, Sending, buffers,
         signals, goals, reception, handling, sending, At, Goto, Set
    <3> QED
      BY <3>1, <3>2, <3>3 DEF Told
  <2> QED
    BY <1>3, <2>1, <2>2, <2>3, <2>4, <2>5, <2>6, <2>7, <2>8, <2>9 DEF TopStep
<1>4. CASE Expire(n)
  <2>1. UNCHANGED <<wt, sig, lock>> /\ \A d \in Node : flag[d] \subseteq flag'[d]
    BY <1>4 DEF Expire, SignalsOK, buffers, signals, goals, reception, handling,
       sending, At, Goto, Set
  <2>2. \A d \in Node : Looking(d) => Looking(d)'
    BY <1>4 DEF Expire, Looking, Replying, ControlOK, Outgoing, Sending, buffers,
       signals, goals, reception, handling, sending, At, Goto, Set
  <2>3. \A d, m \in Node : Telling(m, d) => Telling(m, d)'
    BY <1>4 DEF Expire, Telling, ControlOK, Outgoing, Sending, buffers, signals,
       goals, reception, handling, sending, At, Goto, Set
  <2> QED
    BY <2>1, <2>2, <2>3 DEF Told
<1> QED
  BY <1>1, <1>2, <1>3, <1>4 DEF Step

(* What is put off keeps its signal.                                       *)
LEMMA PutOffStep ==
  ASSUME SignalsOK, BuffersOK, ControlOK, PutOffSeen, NEW n \in Node, Step(n) \/ Expire(n)
  PROVE  PutOffSeen'
<1>1. CASE SendStep(n)
  <2>1. CASE SendLock(n)
    BY <2>1 DEF SendLock, SignalsOK, ControlOK, BuffersOK, Sig, PutOffSeen, buffers,
       signals, goals, reception, handling, sending, At, Goto, Set
  <2>2. CASE SendFull(n)
    BY <2>2 DEF SendFull, SignalsOK, ControlOK, BuffersOK, Sig, PutOffSeen, buffers,
       signals, goals, reception, handling, sending, At, Goto, Set
  <2>3. CASE Spin(n)
    BY <2>3 DEF Spin, SignalsOK, ControlOK, BuffersOK, Sig, PutOffSeen, buffers,
       signals, goals, reception, handling, sending, At, Goto, Set
  <2>4. CASE Put(n)
    BY <2>4 DEF Put, SignalsOK, ControlOK, BuffersOK, Sig, PutOffSeen, buffers, signals,
       goals, reception, handling, sending, At, Goto, Set
  <2>5. CASE RingDone(n)
    BY <2>5 DEF RingDone, SignalsOK, ControlOK, BuffersOK, Sig, PutOffSeen, buffers,
       signals, goals, reception, handling, sending, At, Goto, Set
  <2>6. CASE RingFlag(n)
    BY <2>6 DEF RingFlag, SignalsOK, ControlOK, BuffersOK, Sig, PutOffSeen, buffers,
       signals, goals, reception, handling, sending, At, Goto, Set
  <2>7. CASE RingOff(n)
    BY <2>7 DEF RingOff, SignalsOK, ControlOK, BuffersOK, Sig, PutOffSeen, buffers,
       signals, goals, reception, handling, sending, At, Goto, Set
  <2>8. CASE RingBell(n)
    BY <2>8 DEF RingBell, SignalsOK, ControlOK, BuffersOK, Sig, PutOffSeen, buffers,
       signals, goals, reception, handling, sending, At, Goto, Set
  <2> QED
    BY <1>1, <2>1, <2>2, <2>3, <2>4, <2>5, <2>6, <2>7, <2>8 DEF SendStep
<1>2. CASE InterruptStep(n)
  <2>1. CASE Enqueue(n, "enqueue", "restore", "signals")
    BY <2>1 DEF Enqueue, SignalsOK, ControlOK, BuffersOK, Sig, PutOffSeen, buffers,
       signals, goals, reception, handling, sending, At, Goto, Set
  <2>2. CASE Restore(n, "restore", "signals")
    BY <2>2 DEF Restore, SignalsOK, ControlOK, BuffersOK, Sig, PutOffSeen, buffers,
       signals, goals, reception, handling, sending, At, Goto, Set
  <2>3. CASE Signals(n)
    BY <2>3 DEF Signals, SignalsOK, ControlOK, BuffersOK, Sig, PutOffSeen, buffers,
       signals, goals, reception, handling, sending, At, Goto, Set
  <2>4. CASE Scan(n)
    BY <2>4 DEF Scan, SignalsOK, ControlOK, BuffersOK, Sig, PutOffSeen, buffers,
       signals, goals, reception, handling, sending, At, Goto, Set
  <2>5. CASE Skip(n)
    BY <2>5 DEF Skip, NextSignal, SignalsOK, ControlOK, BuffersOK, Sig, PutOffSeen,
       buffers, signals, goals, reception, handling, sending, At, Goto, Set
  <2>6. CASE TakeUp(n)
    BY <2>6 DEF TakeUp, CanReceive, SignalsOK, ControlOK, BuffersOK, Sig, PutOffSeen,
       buffers, signals, goals, reception, handling, sending, At, Goto, Set
  <2>7. CASE TakePacket(n)
    BY <2>7 DEF TakePacket, CanReceive, SignalsOK, ControlOK, BuffersOK, Sig,
       PutOffSeen, buffers, signals, goals, reception, handling, sending, At, Goto, Set
  <2>8. CASE Clear(n)
    BY <2>8 DEF Clear, SignalsOK, ControlOK, BuffersOK, Sig, PutOffSeen, buffers,
       signals, goals, reception, handling, sending, At, Goto, Set
  <2>9. CASE NoPacket(n)
    BY <2>9 DEF NoPacket, CanReceive, NextSignal, SignalsOK, ControlOK, BuffersOK, Sig,
       PutOffSeen, buffers, signals, goals, reception, handling, sending, At, Goto, Set
  <2>10. CASE Decode(n)
    BY <2>10 DEF Decode, StartSend, SignalsOK, ControlOK, BuffersOK, Sig, PutOffSeen,
       buffers, signals, goals, reception, handling, sending, At, Goto, Set
  <2>11. CASE PutOff(n)
    BY <2>11 DEF PutOff, SignalsOK, ControlOK, BuffersOK, Sig, PutOffSeen, buffers,
       signals, goals, reception, handling, sending, At, Goto, Set
  <2>12. CASE Handled(n)
    BY <2>12 DEF Handled, SignalsOK, ControlOK, BuffersOK, Sig, PutOffSeen, buffers,
       signals, goals, reception, handling, sending, At, Goto, Set
  <2>13. CASE Restore(n, "limit", "rescan")
    BY <2>13 DEF Restore, SignalsOK, ControlOK, BuffersOK, Sig, PutOffSeen, buffers,
       signals, goals, reception, handling, sending, At, Goto, Set
  <2>14. CASE Rescan(n)
    BY <2>14 DEF Rescan, SignalsOK, ControlOK, BuffersOK, Sig, PutOffSeen, buffers,
       signals, goals, reception, handling, sending, At, Goto, Set
  <2>15. CASE Enqueue(n, "enqueueAgain", "restoreAgain", "collect")
    BY <2>15 DEF Enqueue, SignalsOK, ControlOK, BuffersOK, Sig, PutOffSeen, buffers,
       signals, goals, reception, handling, sending, At, Goto, Set
  <2>16. CASE Restore(n, "restoreAgain", "collect")
    BY <2>16 DEF Restore, SignalsOK, ControlOK, BuffersOK, Sig, PutOffSeen, buffers,
       signals, goals, reception, handling, sending, At, Goto, Set
  <2>17. CASE HeapHasRoom(n)
    BY <2>17 DEF HeapHasRoom, Leave, SignalsOK, ControlOK, BuffersOK, Sig, PutOffSeen,
       buffers, signals, goals, reception, handling, sending, At, Goto, Set
  <2>18. CASE Collect(n)
    BY <2>18 DEF Collect, Leave, SignalsOK, ControlOK, BuffersOK, Sig, PutOffSeen,
       buffers, signals, goals, reception, handling, sending, At, Goto, Set
  <2>19. CASE RestoreLimit(n)
    BY <2>19 DEF RestoreLimit, Leave, SignalsOK, ControlOK, BuffersOK, Sig, PutOffSeen,
       buffers, signals, goals, reception, handling, sending, At, Goto, Set
  <2> QED
    BY <1>2, <2>1, <2>2, <2>3, <2>4, <2>5, <2>6, <2>7, <2>8, <2>9, <2>10, <2>11, <2>12,
       <2>13, <2>14, <2>15, <2>16, <2>17, <2>18, <2>19 DEF InterruptStep
<1>3. CASE TopStep(n)
  BY <1>3 DEF TopStep, GoalSends, StartSend, GoalsEnd, GoalsFillHeap, Interrupted,
     NoGoals, ReturnWtc, Wait, Listen, Woken, DoNotWait, SignalsOK, ControlOK,
     BuffersOK, Sig, PutOffSeen, buffers, signals, goals, reception, handling, sending,
     At, Goto, Set
<1>4. CASE Expire(n)
  BY <1>4 DEF Expire, SignalsOK, ControlOK, BuffersOK, Sig, PutOffSeen, buffers,
     signals, goals, reception, handling, sending, At, Goto, Set
<1> QED
  BY <1>1, <1>2, <1>3, <1>4 DEF Step

(* A flag that is set has interrupt_off cleared ...                        *)
LEMMA OpenedStep ==
  ASSUME SignalsOK, ControlOK, Opened, NEW n \in Node, Step(n) \/ Expire(n)
  PROVE  Opened'
<1>1. CASE SendStep(n)
  BY <1>1 DEF SendStep, SendLock, SendFull, Spin, Put, RingDone, RingFlag, RingOff,
     RingBell, SignalsOK, Sig, InHandler, Replying, Handling, Opened, Late, ControlOK,
     Outgoing, Sending, buffers, signals, goals, reception, handling, sending, At, Goto,
     Set
<1>2. CASE InterruptStep(n)
  BY <1>2 DEF InterruptStep, Enqueue, Restore, Signals, Scan, Skip, NextSignal, TakeUp,
     CanReceive, TakePacket, Clear, NoPacket, Decode, StartSend, PutOff, Handled,
     Rescan, HeapHasRoom, Leave, Collect, RestoreLimit, SignalsOK, Sig, InHandler,
     Replying, Handling, Opened, Late, ControlOK, Outgoing, Sending, buffers, signals,
     goals, reception, handling, sending, At, Goto, Set
<1>3. CASE TopStep(n)
  BY <1>3 DEF TopStep, GoalSends, StartSend, GoalsEnd, GoalsFillHeap, Interrupted,
     NoGoals, ReturnWtc, Wait, Listen, Woken, DoNotWait, SignalsOK, Sig, InHandler,
     Replying, Handling, Opened, Late, ControlOK, Outgoing, Sending, buffers, signals,
     goals, reception, handling, sending, At, Goto, Set
<1>4. CASE Expire(n)
  BY <1>4 DEF Expire, SignalsOK, Sig, InHandler, Replying, Handling, Opened, Late,
     ControlOK, Outgoing, Sending, buffers, signals, goals, reception, handling,
     sending, At, Goto, Set
<1> QED
  BY <1>1, <1>2, <1>3, <1>4 DEF Step

(* ... and the loop of a waiting node ended.                               *)
LEMMA AwakeStep ==
  ASSUME SignalsOK, ControlOK, Awake, NEW n \in Node, Step(n) \/ Expire(n)
  PROVE  Awake'
<1>1. CASE SendStep(n)
  BY <1>1 DEF SendStep, SendLock, SendFull, Spin, Put, RingDone, RingFlag, RingOff,
     RingBell, SignalsOK, Awake, Later, ControlOK, Outgoing, Sending, buffers, signals,
     goals, reception, handling, sending, At, Goto, Set
<1>2. CASE InterruptStep(n)
  BY <1>2 DEF InterruptStep, Enqueue, Restore, Signals, Scan, Skip, NextSignal, TakeUp,
     CanReceive, TakePacket, Clear, NoPacket, Decode, StartSend, PutOff, Handled,
     Rescan, HeapHasRoom, Leave, Collect, RestoreLimit, SignalsOK, Awake, Later,
     ControlOK, Outgoing, Sending, buffers, signals, goals, reception, handling,
     sending, At, Goto, Set
<1>3. CASE TopStep(n)
  BY <1>3 DEF TopStep, GoalSends, StartSend, GoalsEnd, GoalsFillHeap, Interrupted,
     NoGoals, ReturnWtc, Wait, Listen, Woken, DoNotWait, SignalsOK, Awake, Later,
     ControlOK, Outgoing, Sending, buffers, signals, goals, reception, handling,
     sending, At, Goto, Set
<1>4. CASE Expire(n)
  BY <1>4 DEF Expire, SignalsOK, Awake, Later, ControlOK, Outgoing, Sending, buffers,
     signals, goals, reception, handling, sending, At, Goto, Set
<1> QED
  BY <1>1, <1>2, <1>3, <1>4 DEF Step

(* The timer's signal, all written by the node itself, is never passed over.*)
LEMMA AlarmStep ==
  ASSUME SignalsOK, ControlOK, AlarmNoticed, NEW n \in Node, Step(n) \/ Expire(n)
  PROVE  AlarmNoticed'
<1>1. CASE SendStep(n)
  BY <1>1 DEF SendStep, SendLock, SendFull, Spin, Put, RingDone, RingFlag, RingOff,
     RingBell, SignalsOK, Sig, AlarmNoticed, InHandler, Looking, Replying, Handling,
     ControlOK, Outgoing, Sending, buffers, signals, goals, reception, handling,
     sending, At, Goto, Set
<1>2. CASE InterruptStep(n)
  BY <1>2 DEF InterruptStep, Enqueue, Restore, Signals, Scan, Skip, NextSignal, TakeUp,
     CanReceive, TakePacket, Clear, NoPacket, Decode, StartSend, PutOff, Handled,
     Rescan, HeapHasRoom, Leave, Collect, RestoreLimit, SignalsOK, Sig, AlarmNoticed,
     InHandler, Looking, Replying, Handling, ControlOK, Outgoing, Sending, buffers,
     signals, goals, reception, handling, sending, At, Goto, Set
<1>3. CASE TopStep(n)
  BY <1>3 DEF TopStep, GoalSends, StartSend, GoalsEnd, GoalsFillHeap, Interrupted,
     NoGoals, ReturnWtc, Wait, Listen, Woken, DoNotWait, SignalsOK, Sig, AlarmNoticed,
     InHandler, Looking, Replying, Handling, ControlOK, Outgoing, Sending, buffers,
     signals, goals, reception, handling, sending, At, Goto, Set
<1>4. CASE Expire(n)
  BY <1>4 DEF Expire, SignalsOK, Sig, AlarmNoticed, InHandler, Looking, Replying,
     Handling, ControlOK, Outgoing, Sending, buffers, signals, goals, reception,
     handling, sending, At, Goto, Set
<1> QED
  BY <1>1, <1>2, <1>3, <1>4 DEF Step

-----------------------------------------------------------------------------
(* A step that changes no variable keeps the invariant. *)
LEMMA IInvStutters == IInv /\ UNCHANGED vars => IInv'
<1> SUFFICES ASSUME IInv, UNCHANGED vars PROVE IInv'
  OBVIOUS
<1> USE DEF vars, buffers, signals, goals, reception, handling, sending
<1>1. BuffersOK' /\ SignalsOK' /\ GoalsOK' /\ ControlOK'
  BY DEF IInv, TypeOK, BuffersOK, SignalsOK, GoalsOK, ControlOK
<1>2. LockRight' /\ TextLong' /\ RoomLeft'
  BY DEF IInv, TypeOK, LockRight, Locked, TextLong, RoomLeft, At
<1>3. Emptied' /\ Different' /\ PutOffSeen'
  BY DEF IInv, Emptied, Replying, Different, PutOffSeen, At
<1>4. Told'
  BY DEF IInv, Told, Looking, Replying, Telling
<1>5. Opened' /\ Awake'
  BY DEF IInv, Opened, Awake, InHandler, Replying, Late, Later, At
<1>6. AlarmNoticed'
  BY DEF IInv, AlarmNoticed, InHandler, Looking, Replying
<1> QED
  BY <1>1, <1>2, <1>3, <1>4, <1>5, <1>6 DEF IInv, TypeOK

(* Initially no node has anything to do but the master. *)
LEMMA InitInv == Init => IInv
<1> SUFFICES ASSUME Init PROVE IInv
  OBVIOUS
<1>1. TypeOK
  <2>1. <<>> \in Seq(Msg)
    BY EmptySeq
  <2>2. BuffersOK
    BY <2>1, SizeAssumption DEF Init, BuffersOK
  <2>3. SignalsOK /\ GoalsOK
    BY DEF Init, SignalsOK, GoalsOK, Sig
  <2>4. ControlOK /\ LockRight
    BY NodeAssumption, SizeAssumption
       DEF Init, ControlOK, LockRight, Locked, Sending, Handling, Elsewhere, At
  <2> QED
    BY <2>2, <2>3, <2>4 DEF TypeOK
<1>2. TextLong
  BY EmptySeq DEF Init, TextLong
<1>3. RoomLeft /\ Emptied /\ Different /\ PutOffSeen /\ Awake
  BY DEF Init, RoomLeft, Emptied, Different, PutOffSeen, Awake, Sending, At
<1>4. Told /\ Opened /\ AlarmNoticed
  BY DEF Init, Told, Opened, AlarmNoticed
<1> QED
  BY <1>1, <1>2, <1>3, <1>4 DEF IInv

(* Every step keeps the invariant. *)
LEMMA NextInv == IInv /\ [Next]_vars => IInv'
<1>1. ASSUME IInv, NEW n \in Node, Step(n) \/ Expire(n) PROVE IInv'
  <2>1. /\ BuffersOK /\ SignalsOK /\ GoalsOK /\ ControlOK /\ LockRight /\ TextLong /\ RoomLeft
        /\ Emptied /\ Different /\ Told /\ PutOffSeen /\ Opened /\ Awake /\ AlarmNoticed
    BY <1>1 DEF IInv, TypeOK
  <2>2. BuffersOK' /\ TextLong' /\ SignalsOK' /\ GoalsOK' /\ ControlOK' /\ LockRight'
    BY <1>1, <2>1, BuffersStep, SignalsStep, GoalsStep, ControlStep, LockStep
  <2>3. RoomLeft' /\ Emptied' /\ Different'
    BY <1>1, <2>1, RoomStep, EmptiedStep, DifferentStep
  <2>4. Told' /\ PutOffSeen'
    BY <1>1, <2>1, ToldStep, PutOffStep
  <2>5. Opened' /\ Awake' /\ AlarmNoticed'
    BY <1>1, <2>1, OpenedStep, AwakeStep, AlarmStep
  <2> QED
    BY <2>2, <2>3, <2>4, <2>5 DEF IInv, TypeOK
<1> QED
  BY <1>1, IInvStutters DEF Next

(* The invariant holds of every behaviour, for any nodes and buffers. *)
THEOREM Invariance == Spec => []IInv
  BY InitInv, NextInv, PTL DEF Spec

(* No variable ever has another value than it can have, no message is      *)
(* written past a buffer, and a buffer is locked by the one working on it. *)
THEOREM TypeCorrect == Spec => []TypeOK
<1>1. IInv => TypeOK
  BY DEF IInv
<1> QED
  BY <1>1, Invariance, PTL

(* No message lies in a buffer, or is put off, of which nobody will tell   *)
(* the node: at no point of the unlocked writes to its variables.          *)
THEOREM NothingForgotten == Spec => []SomebodyLooks
<1>1. IInv => SomebodyLooks
  <2> SUFFICES ASSUME IInv, NEW d \in Node, wt[d] > 0 \/ pending[d]
               PROVE  \/ "USR1" \in flag[d] \/ Looking(d)
                      \/ (pending[d] /\ "ALRM" \in flag[d])
                      \/ \E n \in Node : Telling(n, d)
    BY DEF SomebodyLooks
  <2>1. CASE wt[d] > 0
    <3>1. wt[d] # 0
      BY <2>1
    <3> QED
      BY <3>1, Zenon DEF IInv, Told
  <2>2. CASE pending[d]
    BY <2>2 DEF IInv, TypeOK, SignalsOK, Sig, PutOffSeen, Looking, At
  <2> QED
    BY <2>1, <2>2
<1> QED
  BY <1>1, Invariance, PTL

(* The signal of the timer is never passed over. *)
THEOREM AlarmKept == Spec => []AlarmNoticed
<1>1. IInv => AlarmNoticed
  BY DEF IInv
<1> QED
  BY <1>1, Invariance, PTL

(* A node whose flag is set does not go on waiting in its loop. *)
THEOREM DoorbellHeard == Spec => []NobodyDeaf
<1>1. IInv => NobodyDeaf
  BY DEF IInv, NobodyDeaf, Opened, Awake, InHandler, Handling, Replying, Sending, Ringing,
     Late, Later, At
<1> QED
  BY <1>1, Invariance, PTL

-----------------------------------------------------------------------------
(* A box is what it was when neither packet nor buffer is touched.         *)
LEMMA Unmoved ==
  ASSUME UNCHANGED <<text, wt, inbuf>>, NEW d \in Node, At(d, "clear")' <=> At(d, "clear")
  PROVE  Box(d)' = Box(d)
  BY DEF Box

(* The messages of nodes here are not in a buffer yet.                     *)
Unsent == {"send", "spin", "put"}
Posted == (1..sent) \ Unposted

(* What has been posted depends on what is still to be put ...             *)
LEMMA PostedKept ==
  ASSUME ControlOK, UNCHANGED sent,
         \A e \in Node : /\ pc'[e] \in Unsent <=> pc[e] \in Unsent
                         /\ pc[e] \in Unsent => out'[e] = out[e]
  PROVE  Posted' = Posted
<1>1. Unposted' = Unposted
  BY DEF Unposted, Unsent
<1> QED
  BY <1>1 DEF Posted

(* ... and a message that is only begun has not been posted.               *)
LEMMA PostedBegun ==
  ASSUME ControlOK, NEW n \in Node, NEW d, NEW back, StartSend(n, d, back), pc[n] \notin Sending
  PROVE  Posted' = Posted
<1>1. /\ sent \in Nat /\ sent' = sent + 1
      /\ pc'[n] = "send" /\ out'[n].msg = sent + 1
      /\ \A e \in Node \ {n} : pc'[e] = pc[e] /\ out'[e] = out[e]
  BY SizeAssumption DEF StartSend, ControlOK, Goto, Set
<1>2. Unposted' = Unposted \cup {sent + 1}
  BY <1>1 DEF Unposted, Sending
<1>3. \A k \in 1..(sent + 1) : k # sent + 1 => k \in 1..sent
  BY <1>1
<1>4. \A k \in 1..sent : k \in 1..(sent + 1) /\ k # sent + 1
  BY <1>1
<1> QED
  BY <1>1, <1>2, <1>3, <1>4 DEF Posted

(* Put() posts a message: the lock keeps the receiver from copying, and    *)
(* whatever it left in the buffer stays before it.                         *)
LEMMA PostRefines ==
  ASSUME IInv, NEW n \in Node, Put(n)
  PROVE  \E d \in Node, m \in Msg : Mail!Post(d, m)
<1>1. /\ pc[n] = "put" /\ pc'[n] = "ringDone" /\ \A e \in Node \ {n} : pc'[e] = pc[e]
      /\ out[n].to \in Node \ {n} /\ out[n].msg \in Msg /\ out[n].msg \in 1..sent
      /\ UNCHANGED <<out, sent, inbuf>>
  BY SizeAssumption DEF IInv, TypeOK, ControlOK, Outgoing, Sending, Msg, Put, At,
     Goto, reception, sending
<1>2. PICK d \in Node \ {n}, m \in Msg : d = out[n].to /\ m = out[n].msg
  BY <1>1
<1> DEFINE s == SubSeq(text[d], 1, wt[d])
           t == Append(s, m)
<1>3. /\ text[d] \in Seq(Msg) /\ inbuf[d] \in Seq(Msg) /\ wt[d] \in Nat /\ wt[d] <= Len(text[d])
      /\ text'[d] = t /\ wt'[d] = wt[d] + 1
      /\ \A e \in Node \ {d} : text'[e] = text[e] /\ wt'[e] = wt[e]
  BY <1>2, SizeAssumption DEF IInv, TypeOK, BuffersOK, TextLong, Put, Set
<1>4. pc[d] # "clear" /\ pc'[d] # "clear"
  <2>1. lock[d] = n
    BY <1>1, <1>2 DEF IInv, TypeOK, LockRight, Locked, Sending
  <2>2. pc[d] = "clear" => lock[d] = d
    BY DEF IInv, TypeOK, LockRight, Locked, At
  <2> QED
    BY <1>1, <2>1, <2>2
<1>5. s \in Seq(Msg) /\ SubSeq(t, 1, wt[d] + 1) = t
  BY <1>3, Prefix, Appended
<1>6. Box(d) = inbuf[d] \o s /\ Box(d)' = inbuf[d] \o t
  BY <1>1, <1>3, <1>4, <1>5 DEF Box, At
<1>7. Box(d)' = Append(Box(d), m)
  <2>1. inbuf[d] \o Append(s, m) = Append(inbuf[d] \o s, m)
    BY <1>3, <1>5, AppendBehind
  <2> QED
    BY <1>6, <2>1
<1>8. \A e \in Node \ {d} : Box(e)' = Box(e)
  <2> TAKE e \in Node \ {d}
  <2> HIDE DEF t
  <2>1. At(e, "clear")' <=> At(e, "clear")
    BY <1>1 DEF At
  <2> QED
    BY <1>1, <1>3, <2>1 DEF Box
<1>9. m \in Unposted /\ Unposted' = Unposted \ {m}
  <2>1. \A e \in Node \ {n} : pc[e] \in Unsent => out[e].msg # m
    BY <1>1, <1>2 DEF IInv, Different, Sending, Unsent
  <2> QED
    BY <1>1, <1>2, <2>1 DEF Unposted, Unsent
<1>10. m \notin Posted /\ Posted' = Posted \cup {m}
  BY <1>1, <1>2, <1>9 DEF Posted
<1>11. Mail!Post(d, m)
  BY <1>7, <1>8, <1>10 DEF Mail!Post, Posted
<1> QED
  BY <1>11

(* Decode() handles the first message, put off or not.                     *)
LEMMA HandleRefines ==
  ASSUME IInv, NEW n \in Node, Decode(n)
  PROVE  Mail!Handle(n)
<1> DEFINE s == IF At(n, "clear") THEN <<>> ELSE SubSeq(text[n], 1, wt[n])
<1>1. /\ pc[n] = "decode" /\ pc'[n] # "clear" /\ inbuf[n] # <<>>
      /\ \A e \in Node \ {n} : pc'[e] = pc[e]
      /\ inbuf' = [inbuf EXCEPT ![n] = Tail(inbuf[n])]
      /\ UNCHANGED <<text, wt>>
  BY DEF IInv, TypeOK, ControlOK, Decode, StartSend, At, Goto, buffers, sending
<1>2. inbuf[n] \in Seq(Msg) /\ SubSeq(text[n], 1, wt[n]) \in Seq(Msg)
  BY Prefix, SizeAssumption DEF IInv, TypeOK, BuffersOK, TextLong
<1>3. /\ Box(n) = inbuf[n] \o SubSeq(text[n], 1, wt[n])
      /\ Box(n)' = Tail(inbuf[n]) \o SubSeq(text[n], 1, wt[n])
  BY <1>1 DEF Box, At, IInv, TypeOK, BuffersOK
<1>4. Box(n) # <<>> /\ Box(n)' = Tail(Box(n))
  BY <1>1, <1>2, <1>3, TailOfConcat, ZenonT(60)
<1>5. \A e \in Node \ {n} : Box(e)' = Box(e)
  BY <1>1 DEF Box, At, IInv, TypeOK, BuffersOK
<1>6. Posted' = Posted
  <2>1. pc[n] \notin Sending
    BY <1>1 DEF Sending
  <2>2. CASE UNCHANGED <<pc, sending>>
    BY <2>2, PostedKept DEF IInv, TypeOK, sending
  <2>3. CASE \E d \in Node : StartSend(n, d, "decode")
    BY <2>1, <2>3, PostedBegun DEF IInv, TypeOK
  <2> QED
    BY <2>2, <2>3 DEF Decode, sending
<1> QED
  BY <1>4, <1>5, <1>6 DEF Mail!Handle, Posted

(* Copying the buffer out moves its messages to the packet, which is empty,*)
(* ...                                                                     *)
LEMMA TakePacketRefines ==
  ASSUME IInv, NEW n \in Node, TakePacket(n)
  PROVE  UNCHANGED Mail!vars
<1>1. /\ pc[n] \in {"receive", "decode"} /\ inbuf[n] = <<>>
      /\ pc' = [pc EXCEPT ![n] = "clear"]
      /\ inbuf' = [inbuf EXCEPT ![n] = SubSeq(text[n], 1, wt[n])]
      /\ UNCHANGED <<text, wt, sending>>
  BY DEF IInv, Emptied, TypeOK, ControlOK, Replying, Sending, TakePacket, CanReceive,
     At, Goto, Set
<1>2. SubSeq(text[n], 1, wt[n]) \in Seq(Msg)
  BY Prefix, SizeAssumption DEF IInv, TypeOK, BuffersOK, TextLong
<1>3. Box(n) = SubSeq(text[n], 1, wt[n]) /\ Box(n)' = SubSeq(text[n], 1, wt[n])
  BY <1>1, <1>2, ConcatEmptySeq DEF Box, At, IInv, TypeOK, BuffersOK, ControlOK
<1>4. \A e \in Node \ {n} : Box(e)' = Box(e)
  BY <1>1 DEF Box, At, IInv, TypeOK, BuffersOK, ControlOK
<1>5. Posted' = Posted
  BY <1>1, PostedKept DEF IInv, TypeOK, ControlOK, Unsent, sending
<1> QED
  BY <1>3, <1>4, <1>5 DEF Mail!vars, Posted

(* ... and clearing it removes them where they are counted no more.        *)
LEMMA ClearRefines ==
  ASSUME IInv, NEW n \in Node, Clear(n)
  PROVE  UNCHANGED Mail!vars
<1>1. /\ pc[n] = "clear" /\ pc' = [pc EXCEPT ![n] = "decode"]
      /\ text' = [text EXCEPT ![n] = <<>>] /\ wt' = [wt EXCEPT ![n] = 0]
      /\ UNCHANGED <<inbuf, sending>>
  BY DEF Clear, At, Goto, Set, reception
<1>2. SubSeq(<<>>, 1, 0) = <<>>
  BY SubSeqEmpty
<1>3. Box(n)' = Box(n)
  BY <1>1, <1>2 DEF Box, At, IInv, TypeOK, BuffersOK, ControlOK
<1>4. \A e \in Node \ {n} : Box(e)' = Box(e)
  BY <1>1 DEF Box, At, IInv, TypeOK, BuffersOK, ControlOK
<1>5. Posted' = Posted
  BY <1>1, PostedKept DEF IInv, TypeOK, ControlOK, Unsent, sending
<1> QED
  BY <1>3, <1>4, <1>5 DEF Mail!vars, Posted

(* All other steps move nothing. *)
LEMMA OthersRefine ==
  ASSUME IInv, NEW n \in Node, Step(n) \/ Expire(n),
         ~Put(n), ~Decode(n), ~TakePacket(n), ~Clear(n)
  PROVE  UNCHANGED Mail!vars
<1>0. ControlOK
  BY DEF IInv, TypeOK
<1>1. /\ UNCHANGED <<text, wt, inbuf>>
      /\ \A e \in Node : At(e, "clear")' <=> At(e, "clear")
  <2>1. CASE SendStep(n)
    BY <1>0, <2>1 DEF SendStep, SendLock, SendFull, Spin, RingDone, RingFlag, RingOff,
       RingBell, ControlOK, Outgoing, Sending, buffers, signals, goals, reception,
       handling, sending, At, Goto, Set
  <2>2. CASE InterruptStep(n)
    BY <1>0, <2>2 DEF InterruptStep, Enqueue, Restore, Signals, Scan, Skip,
       NextSignal, TakeUp, CanReceive, NoPacket, PutOff, Handled, Rescan, HeapHasRoom,
       Leave, Collect, RestoreLimit, ControlOK, buffers, signals, goals, reception,
       handling, sending, At, Goto, Set
  <2>3. CASE TopStep(n)
    BY <1>0, <2>3 DEF TopStep, GoalSends, StartSend, GoalsEnd, GoalsFillHeap,
       Interrupted, NoGoals, ReturnWtc, Wait, Listen, Woken, DoNotWait, ControlOK,
       buffers, signals, goals, reception, handling, sending, At, Goto, Set
  <2>4. CASE Expire(n)
    BY <1>0, <2>4 DEF Expire, ControlOK, buffers, signals, goals, reception,
       handling, sending, At, Goto, Set
  <2> QED
    BY <2>1, <2>2, <2>3, <2>4 DEF Step
<1>2. \A e \in Node : Box(e)' = Box(e)
  BY <1>1, Unmoved
<1>3. Posted' = Posted
  <2>1. CASE SendStep(n)
    <3>1. /\ UNCHANGED sent
          /\ \A e \in Node : /\ pc'[e] \in Unsent <=> pc[e] \in Unsent
                             /\ pc[e] \in Unsent => out'[e] = out[e]
      BY <1>0, <2>1 DEF SendStep, SendLock, SendFull, Spin, RingDone, RingFlag,
         RingOff, RingBell, ControlOK, Outgoing, Sending, Unsent, buffers, signals,
         goals, reception, handling, sending, At, Goto, Set
    <3> QED
      BY <1>0, <3>1, PostedKept
  <2>2. CASE InterruptStep(n) \/ Expire(n)
    <3>1. /\ UNCHANGED sending
          /\ \A e \in Node : pc'[e] \in Unsent <=> pc[e] \in Unsent
      BY <1>0, <2>2 DEF InterruptStep, Enqueue, Restore, Signals, Scan, Skip,
         NextSignal, TakeUp, CanReceive, NoPacket, PutOff, Handled, Rescan,
         HeapHasRoom, Leave, Collect, RestoreLimit, Expire, ControlOK, Unsent,
         buffers, signals, goals, reception, handling, sending, At, Goto, Set
    <3> QED
      BY <1>0, <3>1, PostedKept DEF sending
  <2>3. CASE GoalSends(n) \/ ReturnWtc(n)
    <3>1. pc[n] \notin Sending
      BY <2>3 DEF GoalSends, ReturnWtc, Sending, At
    <3> QED
      BY <1>0, <2>3, <3>1, PostedBegun DEF GoalSends, ReturnWtc
  <2>4. CASE TopStep(n) /\ ~GoalSends(n) /\ ~ReturnWtc(n)
    <3>1. /\ UNCHANGED sending
          /\ \A e \in Node : pc'[e] \in Unsent <=> pc[e] \in Unsent
      BY <1>0, <2>4 DEF TopStep, GoalsEnd, GoalsFillHeap, Interrupted, NoGoals, Wait,
         Listen, Woken, DoNotWait, ControlOK, Unsent, buffers, signals, goals,
         reception, handling, sending, At, Goto, Set
    <3> QED
      BY <1>0, <3>1, PostedKept DEF sending
  <2> QED
    BY <2>1, <2>2, <2>3, <2>4 DEF Step
<1> QED
  BY <1>2, <1>3 DEF Mail!vars, Posted

(* The boxes are empty when no message has been sent. *)
LEMMA InitRefines == Init => Mail!Init
<1> SUFFICES ASSUME Init PROVE Mail!Init
  OBVIOUS
<1>1. \A d \in Node : Box(d) = <<>>
  <2>1. <<>> \o <<>> = <<>> /\ SubSeq(<<>>, 1, 0) = <<>>
    BY EmptySeq, ConcatEmptySeq, SubSeqEmpty
  <2> QED
    BY <2>1 DEF Init, Box, At
<1>2. Posted = {}
  BY DEF Init, Posted
<1> QED
  BY <1>1, <1>2 DEF Mail!Init, Posted

(* Every step is one of the mailboxes, or moves nothing. *)
LEMMA NextRefines == IInv /\ [Next]_vars => [Mail!Next]_(Mail!vars)
<1>1. ASSUME IInv, NEW n \in Node, Step(n) \/ Expire(n) PROVE [Mail!Next]_(Mail!vars)
  <2>1. CASE Put(n)
    BY <1>1, <2>1, PostRefines DEF Mail!Next
  <2>2. CASE Decode(n)
    BY <1>1, <2>2, HandleRefines DEF Mail!Next
  <2> QED
    BY <1>1, <2>1, <2>2, TakePacketRefines, ClearRefines, OthersRefine
<1>2. ASSUME UNCHANGED vars PROVE UNCHANGED Mail!vars
  BY <1>2 DEF Mail!vars, Box, Unposted, At, vars, buffers, reception, sending
<1> QED
  BY <1>1, <1>2 DEF Next

(* However many nodes send to each other, whatever is put off and however  *)
(* small the buffers are: each message is handled at most once, and those  *)
(* of a node in the order they were put into its buffer.                   *)
THEOREM MailboxImplemented == Spec => ImplementsMailbox
  BY InitRefines, NextRefines, Invariance, PTL DEF Spec, ImplementsMailbox, Mail!Spec
=============================================================================
