------------------------------- MODULE ShmNet -------------------------------
(***************************************************************************)
(* Nodes that are processes with shared memory between them.  The messages *)
(* for a node are in a buffer under a lock; who has put one there rings    *)
(* the doorbell of the node by writing four variables of its, without a    *)
(* UNIX signal.  The node reads and writes the same variables without the  *)
(* lock, and its timer, which is a UNIX signal, writes them as well.       *)
(* A step is one access to a variable somebody else writes; what follows   *)
(* it up to the next one is part of it, and so are consecutive writes that *)
(* agree with those of the others.                                         *)
(***************************************************************************)
EXTENDS Naturals, Sequences

CONSTANTS
  Node, Shoen,      \* Shoen, one of the nodes, runs no goals
  None,             \* no node, or nothing to send
  Capacity,         \* how many messages a buffer takes
  MaxSends          \* bound: how many messages are sent in all

ASSUME NodeAssumption == Shoen \in Node /\ None \notin Node
ASSUME SizeAssumption == Capacity \in Nat \ {0} /\ MaxSends \in Nat

Msg == 1..MaxSends
Sig == {"USR1", "ALRM"}           \* a message has come; the timer has expired

VARIABLES
  lock, text, wt,   \* the buffer for a node, wt messages of text, and who has locked it
  bell,             \* bell[n]: heaplimit of n is 0, so that a reduction ends in klic_interrupt()
  off,              \* off[n]: interrupt_off of n is set
  done, flag,       \* done[n], flag[n]: signal_done of n, and its signal_flags that are set
  timer,            \* timer[n]: "armed", or "fired" and not armed again
  pc,               \* pc[n]: what n does next
  busy,             \* busy[n]: n has goals to reduce
  resumed,          \* resumed[n]: n has goals in resumed_goals
  full,             \* full[n]: the heap of n has no room
  sig, retry,       \* sig[n], retry[n]: these variables of the signal handling of n
  inbuf, pending,   \* what of the last packet n has not decoded, and if that is put off
  out,              \* out[n]: the message n is sending, and what it does after that
  sent              \* how many messages have been sent

buffers == <<lock, text, wt>>
signals == <<bell, off, done, flag>>
goals == <<busy, resumed, full>>
reception == <<inbuf, pending>>
handling == <<sig, retry>>
sending == <<out, sent>>
vars == <<buffers, signals, timer, pc, goals, reception, handling, sending>>

-----------------------------------------------------------------------------
At(n, here) == pc[n] = here
Goto(n, there) == pc' = [pc EXCEPT ![n] = there]
Set(f, n, v) == [f EXCEPT ![n] = v]

-----------------------------------------------------------------------------
(* send_packet(), sendsig() *)
StartSend(n, d, back) ==
  /\ sent < MaxSends /\ d # n
  /\ sent' = sent + 1
  /\ out' = Set(out, n, [to |-> d, msg |-> sent + 1, back |-> back])
  /\ Goto(n, "send")

(* Defects: the lock of the buffer is not waited for; one message more is  *)
(* put into it than it takes.                                              *)
SendLock_Unlocked(n) ==
  /\ At(n, "send")
  /\ wt[out[n].to] < Capacity
  /\ lock' = Set(lock, out[n].to, n)
  /\ Goto(n, "put")
  /\ UNCHANGED <<text, wt, signals, timer, goals, reception, handling, sending>>
SendLock_OneMore(n) ==
  /\ At(n, "send")
  /\ lock[out[n].to] = None
  /\ wt[out[n].to] <= Capacity
  /\ lock' = Set(lock, out[n].to, n)
  /\ Goto(n, "put")
  /\ UNCHANGED <<text, wt, signals, timer, goals, reception, handling, sending>>
SendLock(n) ==
  /\ At(n, "send")
  /\ lock[out[n].to] = None
  /\ wt[out[n].to] < Capacity
  /\ lock' = Set(lock, out[n].to, n)
  /\ Goto(n, "put")
  /\ UNCHANGED <<text, wt, signals, timer, goals, reception, handling, sending>>

(* There is no room: the lock is given up again.                           *)
SendFull(n) ==
  /\ At(n, "send")
  /\ lock[out[n].to] = None
  /\ wt[out[n].to] >= Capacity
  /\ Goto(n, "spin")
  /\ UNCHANGED <<buffers, signals, timer, goals, reception, handling, sending>>

(* The sender then waits as long as there is room.                         *)
Spin(n) ==
  /\ At(n, "spin")
  /\ ~(wt[out[n].to] < Capacity)
  /\ Goto(n, "send")
  /\ UNCHANGED <<buffers, signals, timer, goals, reception, handling, sending>>

Put(n) ==
  /\ At(n, "put")
  /\ LET d == out[n].to
     IN  /\ text' = Set(text, d, Append(SubSeq(text[d], 1, wt[d]), out[n].msg))
         /\ wt' = Set(wt, d, wt[d] + 1)
  /\ Goto(n, "ringDone")
  /\ UNCHANGED <<lock, signals, timer, goals, reception, handling, sending>>

RingDone(n) ==
  /\ At(n, "ringDone")
  /\ done' = Set(done, out[n].to, FALSE)
  /\ Goto(n, "ringFlag")
  /\ UNCHANGED <<buffers, bell, off, flag, timer, goals, reception, handling, sending>>

RingFlag(n) ==
  /\ At(n, "ringFlag")
  /\ flag' = [flag EXCEPT ![out[n].to] = @ \cup {"USR1"}]
  /\ Goto(n, "ringOff")
  /\ UNCHANGED <<buffers, bell, off, done, timer, goals, reception, handling, sending>>

RingOff(n) ==
  /\ At(n, "ringOff")
  /\ off' = Set(off, out[n].to, FALSE)
  /\ Goto(n, "ringBell")
  /\ UNCHANGED <<buffers, bell, done, flag, timer, goals, reception, handling, sending>>

RingBell(n) ==
  /\ At(n, "ringBell")
  /\ bell' = Set(bell, out[n].to, TRUE)
  /\ lock' = Set(lock, out[n].to, None)
  /\ out' = Set(out, n, None)
  /\ Goto(n, out[n].back)
  /\ UNCHANGED <<text, wt, off, done, flag, timer, goals, reception, handling, sent>>

SendStep(n) ==
  \/ SendLock(n) \/ SendFull(n) \/ Spin(n) \/ Put(n)
  \/ RingDone(n) \/ RingFlag(n) \/ RingOff(n) \/ RingBell(n)

-----------------------------------------------------------------------------
(* enqueue_resumed_goals(): between the test of interrupt_off and the      *)
(* assignment to heaplimit the bell may be rung.                           *)
Enqueue(n, here, restoring, there) ==
  /\ At(n, here)
  /\ busy' = [busy EXCEPT ![n] = @ \/ resumed[n]]
  /\ resumed' = Set(resumed, n, FALSE)
  /\ Goto(n, IF resumed[n] /\ off[n] THEN restoring ELSE there)
  /\ UNCHANGED <<buffers, signals, timer, full, reception, handling, sending>>

Restore(n, here, there) ==
  /\ At(n, here)
  /\ bell' = Set(bell, n, FALSE)
  /\ Goto(n, there)
  /\ UNCHANGED <<buffers, off, done, flag, timer, goals, reception, handling, sending>>

(* klic_interrupt(): klic_signal_handler() is called if a signal has come. *)
Signals(n) ==
  /\ At(n, "signals")
  /\ done' = Set(done, n, TRUE)
  /\ Goto(n, IF done[n] THEN "collect" ELSE "scan")
  /\ UNCHANGED <<buffers, bell, off, flag, timer, goals, reception, handling, sending>>

(* A flag is cleared before its handler is called.                         *)
Scan(n) ==
  /\ At(n, "scan") /\ sig[n] \in flag[n]
  /\ flag' = [flag EXCEPT ![n] = @ \ {sig[n]}]
  /\ Goto(n, "receive")
  /\ UNCHANGED <<buffers, bell, off, done, timer, goals, reception, handling, sending>>

NextSignal(n) ==
  /\ sig' = Set(sig, n, IF sig[n] = "USR1" THEN "ALRM" ELSE "USR1")
  /\ Goto(n, IF sig[n] = "USR1" THEN "scan" ELSE "handled")
Skip(n) ==
  /\ At(n, "scan") /\ sig[n] \notin flag[n]
  /\ NextSignal(n)
  /\ UNCHANGED <<buffers, signals, timer, goals, reception, retry, sending>>

(* receive_message(), the handler of both signals: it goes on with what it *)
(* put off, and takes packets as long as there are any.                    *)
CanReceive(n) ==
  /\ ~full[n]
  /\ At(n, "receive") \/ (At(n, "decode") /\ inbuf[n] = <<>>)

TakeUp(n) ==
  /\ CanReceive(n) /\ pending[n]
  /\ pending' = Set(pending, n, FALSE)
  /\ Goto(n, "decode")
  /\ UNCHANGED <<buffers, signals, timer, goals, inbuf, handling, sending>>

TakePacket(n) ==
  /\ CanReceive(n) /\ ~pending[n]
  /\ lock[n] = None /\ wt[n] > 0
  /\ lock' = Set(lock, n, n)
  /\ inbuf' = Set(inbuf, n, SubSeq(text[n], 1, wt[n]))
  /\ Goto(n, "clear")
  /\ UNCHANGED <<text, wt, signals, timer, goals, pending, handling, sending>>

Clear(n) ==
  /\ At(n, "clear")
  /\ wt' = Set(wt, n, 0)
  /\ text' = Set(text, n, <<>>)
  /\ lock' = Set(lock, n, None)
  /\ Goto(n, "decode")
  /\ UNCHANGED <<signals, timer, goals, reception, handling, sending>>

(* Nothing is left: process_timer_interrupt() arms the timer again.        *)
NoPacket_NotArmed(n) ==   \* Defect: the timer is not armed again
  /\ CanReceive(n) /\ ~pending[n]
  /\ lock[n] = None /\ wt[n] = 0
  /\ NextSignal(n)
  /\ UNCHANGED <<buffers, signals, timer, goals, reception, retry, sending>>
NoPacket(n) ==
  /\ CanReceive(n) /\ ~pending[n]
  /\ lock[n] = None /\ wt[n] = 0
  /\ timer' = IF sig[n] = "ALRM" THEN Set(timer, n, "armed") ELSE timer
  /\ NextSignal(n)
  /\ UNCHANGED <<buffers, signals, goals, reception, retry, sending>>

(* A message may resume goals, fill the heap, or make the node send one.   *)
Decode(n) ==
  /\ At(n, "decode") /\ ~full[n] /\ inbuf[n] # <<>>
  /\ inbuf' = [inbuf EXCEPT ![n] = Tail(@)]
  /\ \E fills \in BOOLEAN : full' = Set(full, n, fills)
  /\ \/ UNCHANGED <<pc, resumed, sending>>
     \/ /\ n # Shoen
        /\ resumed' = Set(resumed, n, TRUE)
        /\ UNCHANGED <<pc, sending>>
     \/ /\ \E d \in Node : StartSend(n, d, "decode")
        /\ UNCHANGED resumed
  /\ UNCHANGED <<buffers, signals, timer, busy, pending, handling>>

(* The heap is full: the packet is put off, and the signal stays to be     *)
(* handled again.                                                          *)
PutOff_Forgotten(n) ==   \* Defect: the flag of the signal is not set again
  /\ pc[n] \in {"receive", "decode"} /\ full[n]
  /\ pending' = [pending EXCEPT ![n] = @ \/ At(n, "decode")]
  /\ done' = Set(done, n, FALSE)
  /\ off' = Set(off, n, FALSE)
  /\ sig' = Set(sig, n, "USR1")
  /\ retry' = Set(retry, n, TRUE)
  /\ Goto(n, "enqueueAgain")
  /\ UNCHANGED <<buffers, bell, flag, timer, goals, inbuf, sending>>
PutOff(n) ==
  /\ pc[n] \in {"receive", "decode"} /\ full[n]
  /\ pending' = [pending EXCEPT ![n] = @ \/ At(n, "decode")]
  /\ done' = Set(done, n, FALSE)
  /\ flag' = [flag EXCEPT ![n] = @ \cup {sig[n]}]
  /\ off' = Set(off, n, FALSE)
  /\ sig' = Set(sig, n, "USR1")
  /\ retry' = Set(retry, n, TRUE)
  /\ Goto(n, "enqueueAgain")
  /\ UNCHANGED <<buffers, bell, timer, goals, inbuf, sending>>

(* All signals are handled: the doorbell is put back, and then looked at   *)
(* once more.                                                              *)
Handled(n) ==
  /\ At(n, "handled")
  /\ off' = Set(off, n, TRUE)
  /\ Goto(n, "limit")
  /\ UNCHANGED <<buffers, bell, done, flag, timer, goals, reception, handling, sending>>

Rescan_DoneOnly(n) ==   \* Defect: the flags are not looked at again
  /\ At(n, "rescan")
  /\ done' = Set(done, n, TRUE)
  /\ Goto(n, IF done[n] THEN "enqueueAgain" ELSE "scan")
  /\ UNCHANGED <<buffers, bell, off, flag, timer, goals, reception, handling, sending>>
Rescan(n) ==
  /\ At(n, "rescan")
  /\ done' = Set(done, n, TRUE)
  /\ Goto(n, IF done[n] /\ flag[n] = {} THEN "enqueueAgain" ELSE "scan")
  /\ UNCHANGED <<buffers, bell, off, flag, timer, goals, reception, handling, sending>>

(* The end of klic_interrupt(): a full heap is collected, and when it was  *)
(* full after the signals it begins again.                                 *)
Leave(n) ==
  /\ Goto(n, IF retry[n] THEN "signals" ELSE IF busy[n] THEN "reduce" ELSE "idle")
  /\ retry' = Set(retry, n, FALSE)

HeapHasRoom(n) ==
  /\ At(n, "collect") /\ ~full[n]
  /\ Leave(n)
  /\ UNCHANGED <<buffers, signals, timer, goals, reception, sig, sending>>

Collect(n) ==
  /\ At(n, "collect") /\ full[n]
  /\ full' = Set(full, n, FALSE)
  /\ IF off[n]
     THEN Goto(n, "restoreLimit") /\ UNCHANGED <<bell, retry>>
     ELSE bell' = Set(bell, n, TRUE) /\ Leave(n)
  /\ UNCHANGED <<buffers, off, done, flag, timer, busy, resumed, reception, sig, sending>>

RestoreLimit(n) ==
  /\ At(n, "restoreLimit")
  /\ bell' = Set(bell, n, FALSE)
  /\ Leave(n)
  /\ UNCHANGED <<buffers, off, done, flag, timer, goals, reception, sig, sending>>

InterruptStep(n) ==
  \/ Enqueue(n, "enqueue", "restore", "signals") \/ Restore(n, "restore", "signals")
  \/ Signals(n) \/ Scan(n) \/ Skip(n)
  \/ TakeUp(n) \/ TakePacket(n) \/ Clear(n) \/ NoPacket(n)
  \/ Decode(n) \/ PutOff(n)
  \/ Handled(n) \/ Restore(n, "limit", "rescan") \/ Rescan(n)
  \/ Enqueue(n, "enqueueAgain", "restoreAgain", "collect")
  \/ Restore(n, "restoreAgain", "collect")
  \/ HeapHasRoom(n) \/ Collect(n) \/ RestoreLimit(n)

-----------------------------------------------------------------------------
(* Goals are reduced until the last is done or the heap is full.           *)
GoalSends(n) ==
  /\ At(n, "reduce") /\ busy[n]
  /\ \E d \in Node : StartSend(n, d, "reduce")
  /\ UNCHANGED <<buffers, signals, timer, goals, reception, handling>>

GoalsEnd(n) ==
  /\ At(n, "reduce") /\ busy[n]
  /\ busy' = Set(busy, n, FALSE)
  /\ UNCHANGED <<buffers, signals, timer, pc, resumed, full, reception, handling, sending>>

GoalsFillHeap(n) ==
  /\ At(n, "reduce") /\ busy[n] /\ ~full[n]
  /\ full' = Set(full, n, TRUE)
  /\ UNCHANGED <<buffers, signals, timer, pc, busy, resumed, reception, handling, sending>>

(* execute(), loop_within_module(): heaplimit is looked at after each.     *)
Interrupted(n) ==
  /\ At(n, "reduce") /\ (bell[n] \/ full[n])
  /\ Goto(n, "enqueue")
  /\ UNCHANGED <<buffers, signals, timer, goals, reception, handling, sending>>

NoGoals(n) ==
  /\ At(n, "reduce") /\ ~busy[n] /\ ~bell[n] /\ ~full[n]
  /\ Goto(n, "idle")
  /\ UNCHANGED <<buffers, signals, timer, goals, reception, handling, sending>>

(* topsucceed(): a node that has nothing to do may return its weight; then *)
(* it waits for the doorbell if that is on.                                *)
ReturnWtc(n) ==
  /\ At(n, "idle") /\ n # Shoen
  /\ StartSend(n, Shoen, "wait")
  /\ UNCHANGED <<buffers, signals, timer, goals, reception, handling>>

Wait(n) ==
  /\ pc[n] \in {"idle", "wait"} /\ off[n]
  /\ Goto(n, IF n = Shoen THEN "asleep" ELSE "listen")
  /\ UNCHANGED <<buffers, signals, timer, goals, reception, handling, sending>>

Woken(n) ==
  /\ bell' = [bell EXCEPT ![n] = @ \/ ~done[n]]
  /\ off' = [off EXCEPT ![n] = @ /\ done[n]]
  /\ Goto(n, "enqueue")
Listen(n) ==
  /\ At(n, "listen") /\ (bell[n] \/ ~done[n])
  /\ Woken(n)
  /\ UNCHANGED <<buffers, done, flag, timer, goals, reception, handling, sending>>

(* The shoen does not look at signal_done here.                            *)
DoNotWait(n) ==
  /\ pc[n] \in {"idle", "wait"} /\ ~off[n]
  /\ IF n = Shoen THEN Goto(n, "enqueue") /\ UNCHANGED <<bell, off>> ELSE Woken(n)
  /\ UNCHANGED <<buffers, done, flag, timer, goals, reception, handling, sending>>

TopStep(n) ==
  \/ GoalSends(n) \/ GoalsEnd(n) \/ GoalsFillHeap(n) \/ Interrupted(n) \/ NoGoals(n)
  \/ ReturnWtc(n) \/ Wait(n) \/ Listen(n) \/ DoNotWait(n)

-----------------------------------------------------------------------------
(* SIGALRM: klic_timer_interrupt_handler(), which also ends sigsuspend().  *)
Expire_KeepsDone(n) ==   \* Defect: signal_done is not cleared
  /\ timer[n] = "armed"
  /\ timer' = Set(timer, n, "fired")
  /\ off' = Set(off, n, FALSE)
  /\ bell' = Set(bell, n, TRUE)
  /\ flag' = [flag EXCEPT ![n] = @ \cup {"ALRM"}]
  /\ IF At(n, "asleep") THEN Goto(n, "enqueue") ELSE UNCHANGED pc
  /\ UNCHANGED <<buffers, done, goals, reception, handling, sending>>
Expire(n) ==
  /\ timer[n] = "armed"
  /\ timer' = Set(timer, n, "fired")
  /\ off' = Set(off, n, FALSE)
  /\ bell' = Set(bell, n, TRUE)
  /\ done' = Set(done, n, FALSE)
  /\ flag' = [flag EXCEPT ![n] = @ \cup {"ALRM"}]
  /\ IF At(n, "asleep") THEN Goto(n, "enqueue") ELSE UNCHANGED pc
  /\ UNCHANGED <<buffers, goals, reception, handling, sending>>

Init ==
  /\ lock = [n \in Node |-> None] /\ text = [n \in Node |-> <<>>] /\ wt = [n \in Node |-> 0]
  /\ bell = [n \in Node |-> FALSE] /\ off = [n \in Node |-> FALSE]
  /\ done = [n \in Node |-> FALSE] /\ flag = [n \in Node |-> {}]
  /\ timer = [n \in Node |-> "armed"]
  /\ pc = [n \in Node |-> "reduce"]
  /\ \E master \in Node \ {Shoen} : busy = [n \in Node |-> n = master]
  /\ resumed = [n \in Node |-> FALSE] /\ full = [n \in Node |-> FALSE]
  /\ inbuf = [n \in Node |-> <<>>] /\ pending = [n \in Node |-> FALSE]
  /\ sig = [n \in Node |-> "USR1"] /\ retry = [n \in Node |-> FALSE]
  /\ out = [n \in Node |-> None] /\ sent = 0

Step(n) == SendStep(n) \/ InterruptStep(n) \/ TopStep(n)
Next == \E n \in Node : Step(n) \/ Expire(n)

Spec == Init /\ [][Next]_vars

(* Every process runs on and its timer expires.  Who waits for a lock that *)
(* is free again and again need not get it: messages are so few that the   *)
(* lock stays free in the end.                                             *)
FairSpec == Spec /\ \A n \in Node : WF_vars(Step(n)) /\ WF_vars(Expire(n))
-----------------------------------------------------------------------------
Sending == {"send", "spin", "put", "ringDone", "ringFlag", "ringOff", "ringBell"}
Handling == {"scan", "receive", "clear", "decode", "handled", "limit", "rescan"}
Elsewhere == {"reduce", "idle", "wait", "listen", "asleep", "enqueue", "restore", "signals",
              "enqueueAgain", "restoreAgain", "collect", "restoreLimit"}
Outgoing == [to : Node, msg : Msg, back : {"reduce", "wait", "decode"}]

Locked(n, d) ==
  \/ pc[n] \in Sending \ {"send", "spin"} /\ out[n].to = d
  \/ n = d /\ At(n, "clear")

(* The variables have values the program can give them, nothing is written *)
(* past a buffer, and a buffer is locked by the one who is working on it.  *)
BuffersOK ==
  /\ text \in [Node -> Seq(Msg)] /\ wt \in [Node -> 0..Capacity]
  /\ inbuf \in [Node -> Seq(Msg)] /\ pending \in [Node -> BOOLEAN]
SignalsOK ==
  /\ bell \in [Node -> BOOLEAN] /\ off \in [Node -> BOOLEAN]
  /\ done \in [Node -> BOOLEAN] /\ flag \in [Node -> SUBSET Sig]
  /\ timer \in [Node -> {"armed", "fired"}] /\ sig \in [Node -> Sig]
GoalsOK ==
  /\ busy \in [Node -> BOOLEAN] /\ resumed \in [Node -> BOOLEAN]
  /\ full \in [Node -> BOOLEAN] /\ retry \in [Node -> BOOLEAN]
ControlOK ==
  /\ pc \in [Node -> Sending \cup Handling \cup Elsewhere]
  /\ sent \in 0..MaxSends
  /\ out \in [Node -> Outgoing \cup {None}]
  /\ \A n \in Node : IF pc[n] \in Sending
                     THEN out[n] \in Outgoing /\ out[n].to # n /\ out[n].msg <= sent
                     ELSE out[n] = None
LockRight ==
  /\ lock \in [Node -> Node \cup {None}]
  /\ \A n, d \in Node : lock[d] = n <=> Locked(n, d)
TypeOK == BuffersOK /\ SignalsOK /\ GoalsOK /\ ControlOK /\ LockRight

(* What a node has been sent and has not handled; what is being copied out *)
(* of the buffer is there twice.                                           *)
Box(d) == inbuf[d] \o (IF At(d, "clear") THEN <<>> ELSE SubSeq(text[d], 1, wt[d]))
Unposted == {out[n].msg : n \in {x \in Node : pc[x] \in {"send", "spin", "put"}}}

Mail == INSTANCE Mailbox WITH box <- [d \in Node |-> Box(d)], posted <- (1..sent) \ Unposted

(* Whoever sends and receives at the same time, whatever is put off: no    *)
(* message is lost, handled twice or overtaken.                            *)
ImplementsMailbox == Mail!Spec

(* Somebody is going to look into a buffer with something in it: its node  *)
(* is told so, or is about to be told, or has not finished looking.        *)
Replying(d) == pc[d] \in Sending /\ out[d].back = "decode"
Looking(d) == pc[d] \in {"receive", "clear", "decode"} \/ Replying(d)
Telling(n, d) == pc[n] \in {"ringDone", "ringFlag"} /\ out[n].to = d
SomebodyLooks ==
  \A d \in Node :
    (wt[d] > 0 \/ pending[d]) => \/ "USR1" \in flag[d] \/ Looking(d)
                                 \/ (pending[d] /\ "ALRM" \in flag[d])
                                 \/ \E n \in Node : Telling(n, d)

(* signal_done never says that all is done while the timer has expired and *)
(* that was not seen to.  A bell of another node can be lost in that way   *)
(* (it clears signal_done before it sets the flag); the timer's cannot.    *)
InHandler(d) == pc[d] \in Handling \/ Replying(d)
AlarmNoticed ==
  \A n \in Node :
    timer[n] = "fired" => \/ "ALRM" \in flag[n] /\ (~done[n] \/ InHandler(n))
                          \/ sig[n] = "ALRM" /\ Looking(n)

(* A node that waits in its loop hears of a signal: once the flag is set   *)
(* and the ringing over, heaplimit or signal_done ends the loop.           *)
Ringing(n, d) == pc[n] \in {"ringOff", "ringBell"} /\ out[n].to = d
NobodyDeaf ==
  \A d \in Node : At(d, "listen") /\ flag[d] # {} =>
                    bell[d] \/ ~done[d] \/ \E n \in Node : Ringing(n, d)

(* Whatever becomes of a bell, a node gets to the end of its messages, and *)
(* its timer is armed again, though its handler may be called once more    *)
(* after a collection; only a node that itself waits for room in the       *)
(* buffer of another does not.                                             *)
Unseen(d) == Box(d) # <<>> \/ timer[d] = "fired"
Delivered == \A d \in Node : Unseen(d) ~> ((timer[d] = "armed" /\ Box(d) = <<>>) \/ At(d, "spin"))

(* Who waits for room in a buffer goes on when the buffer is empty.        *)
RoomIsSeen == \A n \in Node : []<>~(At(n, "spin") /\ wt[out[n].to] = 0)
=============================================================================
