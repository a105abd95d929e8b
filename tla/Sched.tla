------------------------------- MODULE Sched -------------------------------
(***************************************************************************)
(* The goal scheduler of one process, without message passing.  The goals  *)
(* of the current priority are in a queue, qp; those of other priorities   *)
(* are in prioq, the highest priority first.  A goal that needs the value  *)
(* of an unbound variable is hooked on it; binding the variable resumes it *)
(* through the list resumed_goals or prioq.  heaplimit = 0, the doorbell,  *)
(* makes the next reduction enter klic_interrupt(), which attends to       *)
(* resumed goals, higher priorities and signals.  A goal whose priority is *)
(* a variable without a value is in the queues as an item that waits for   *)
(* the value.  A reduction is abstracted to one effect of the goal at the  *)
(* head of qp, after which the goal goes on or ends.                       *)
(***************************************************************************)
EXTENDS Integers, FiniteSets, SequencesExt

CONSTANTS
  Goal, Var,
  Main,             \* the goal the program starts with
  External,         \* the variables only signal handlers bind
  Prio,             \* the priorities
  Value,            \* the values of variables
  TopGoal,          \* the goal topsucceed
  Waiter,           \* the goals forked with a variable as priority
  None              \* no value, no signal

ASSUME SchedAssumption ==
  /\ Main \in Goal /\ Waiter \subseteq Goal \ {Main} /\ TopGoal \notin Goal
  /\ 0 \in Prio /\ Prio # {0} /\ Prio \subseteq Nat /\ IsFiniteSet(Prio)
  /\ External \subseteq Var /\ Value \subseteq Int /\ None \notin Value
  /\ None \notin [prio : Nat, on : SUBSET Var]
  /\ None \notin [on : Var, relative : BOOLEAN]

VARIABLES
  qp,               \* the goals of current_prio, up to goal_queue_tail
  current_prio,
  prioq,            \* the records of prioq, with the sentinel of priority -1
  resumed_goals,    \* first the one to be queued first
  higher_priority_goal,
  doorbell,         \* heaplimit = 0
  signal,           \* the external variable a signal has come for and its
                    \* value, or None
  asleep,           \* asleep[g]: the priority g was suspended at and the
                    \* variables it is hooked on; None when it is not
  hooks,            \* hooks[x]: the goals on the hooks of x, in their order
  suspended,        \* suspensions - resumes
  rep,              \* rep[x]: the variable x has been unified with
  val,              \* val[x]: the value of x, or None
  waits,            \* waits[g]: what a waiting item waits for, or None
  due,              \* due[g]: the priority g was last enqueued with
  alive,            \* the goals there are
  born,             \* the goals there have been
  status            \* running, idle in sigsuspend(), exited, or perpetual
                    \* when a collection has found goals nobody can resume

queueVars == <<qp, current_prio, prioq, resumed_goals, higher_priority_goal, doorbell>>
goalVars == <<asleep, hooks, suspended, waits, due, alive, born>>
vars == <<queueVars, goalVars, signal, rep, val, status>>

-----------------------------------------------------------------------------
(* What a handler works on, as in the C functions, which pass qp around.   *)
State ==
  [qp |-> qp, prio |-> current_prio, prioq |-> prioq, resumed |-> resumed_goals,
   higher |-> higher_priority_goal, doorbell |-> doorbell, asleep |-> asleep,
   hooks |-> hooks, suspended |-> suspended, waits |-> waits, due |-> due,
   signal |-> signal, rep |-> rep, val |-> val]
Becomes(new) ==
  \E S \in {new} :
    /\ qp' = S.qp /\ current_prio' = S.prio /\ prioq' = S.prioq
    /\ resumed_goals' = S.resumed /\ higher_priority_goal' = S.higher
    /\ doorbell' = S.doorbell /\ asleep' = S.asleep /\ hooks' = S.hooks
    /\ suspended' = S.suspended /\ waits' = S.waits /\ due' = S.due
    /\ signal' = S.signal /\ rep' = S.rep /\ val' = S.val

Record(p, q) == [prio |-> p, q |-> q]
Sentinel == Record(-1, <<>>)
FirstNotAbove(S, p) == SelectInSeq(S.prioq, LAMBDA r : r.prio <= p)
FirstBelow(S, p) == SelectInSeq(S.prioq, LAMBDA r : r.prio < p)

(* enqueue_goal() with a priority other than the current one.              *)
EnqueueElsewhere(S, p, g) ==
  LET i == FirstNotAbove(S, p)
      Q == S.prioq
  IN  [S EXCEPT !.prioq = IF Q[i].prio = p THEN [Q EXCEPT ![i].q = <<g>> \o @]
                          ELSE InsertAt(Q, i, Record(p, <<g>>)),
                !.higher = @ \/ S.prio < p,
                !.doorbell = @ \/ S.prio < p]
EnqueueGoal_NoClamp(S, p, g) ==   \* Defect: a negative priority stays as it is
  LET D == [S EXCEPT !.due[g] = p]
  IN  IF p = S.prio THEN [D EXCEPT !.qp = <<g>> \o @] ELSE EnqueueElsewhere(D, p, g)
EnqueueGoal(S, prio, g) ==
  LET p == IF prio < 0 THEN 0 ELSE prio
      D == [S EXCEPT !.due[g] = p]
  IN  IF p = S.prio THEN [D EXCEPT !.qp = <<g>> \o @] ELSE EnqueueElsewhere(D, p, g)

(* resume_same_prio(), and an item of enqueue_after_waiting().             *)
ResumeSamePrio_Silent(S, g) == [S EXCEPT !.resumed = <<g>> \o @]   \* Defect: no doorbell
ResumeSamePrio(S, g) == [S EXCEPT !.resumed = <<g>> \o @, !.doorbell = TRUE]

ValueOf(S, x) == S.val[S.rep[x]]
EnqueueAfterWaiting(S, g, x, relative) ==
  IF ValueOf(S, x) # None
  THEN EnqueueGoal([S EXCEPT !.waits[g] = None],
                   IF relative THEN S.prio - ValueOf(S, x) ELSE ValueOf(S, x), g)
  ELSE ResumeSamePrio([S EXCEPT !.waits[g] = [on |-> x, relative |-> relative]], g)

(* Defects: a hook wakes its goal again; a goal resumed elsewhere is not    *)
(* counted; a goal is resumed where the reduction takes place.             *)
Wake_Again(S, g) ==
  IF S.asleep[g] = None THEN ResumeSamePrio(S, g)
  ELSE LET W == [S EXCEPT !.asleep[g] = None, !.suspended = @ - 1]
           p == S.asleep[g].prio
       IN  IF p = S.prio THEN ResumeSamePrio(W, g) ELSE EnqueueElsewhere(W, p, g)
Wake_Uncounted(S, g) ==
  IF S.asleep[g] = None THEN S
  ELSE LET W == [S EXCEPT !.asleep[g] = None]
           p == S.asleep[g].prio
       IN  IF p = S.prio THEN ResumeSamePrio([W EXCEPT !.suspended = @ - 1], g)
           ELSE EnqueueElsewhere(W, p, g)
Wake_Here(S, g) ==
  IF S.asleep[g] = None THEN S
  ELSE ResumeSamePrio([S EXCEPT !.asleep[g] = None, !.suspended = @ - 1], g)

(* One hook in the loop of resume_goals().  Only a goal whose next field   *)
(* still holds a priority is asleep; it may be hooked on several variables. *)
Wake(S, g) ==
  IF S.asleep[g] = None THEN S
  ELSE LET W == [S EXCEPT !.asleep[g] = None, !.suspended = @ - 1]
           p == S.asleep[g].prio
       IN  IF p = S.prio THEN ResumeSamePrio(W, g) ELSE EnqueueElsewhere(W, p, g)

(* resume_goals()                                                          *)
ResumeGoals(S, x) == [FoldLeft(Wake, S, S.hooks[x]) EXCEPT !.hooks[x] = <<>>]

GetTopPriorityQueue(S) ==
  [S EXCEPT !.qp = Head(S.prioq).q, !.prio = Head(S.prioq).prio, !.prioq = Tail(@)]
PutPriorityQueue(S) ==
  [S EXCEPT !.prioq = InsertAt(@, FirstBelow(S, S.prio), Record(S.prio, S.qp))]

EnqueueResumedGoals(S) == [S EXCEPT !.qp = S.resumed \o @, !.resumed = <<>>]

(* x, which stands for itself, gets the value v.                           *)
BindVar(S, x, v) == ResumeGoals([S EXCEPT !.val[x] = v], x)

(* klic_signal_handler(): the handler binds the variable it reads for.     *)
HandleSignal_IfRung(S) ==   \* Defect: only an interrupt that was rung for looks
  IF S.signal = None \/ ~S.doorbell THEN S
  ELSE [BindVar(S, S.rep[S.signal.on], S.signal.value) EXCEPT !.signal = None]
HandleSignal(S) ==
  IF S.signal = None THEN S
  ELSE [BindVar(S, S.rep[S.signal.on], S.signal.value) EXCEPT !.signal = None]

(* A signal for a variable that has no value, and the value.               *)
Signals(S) == {[on |-> x, value |-> v] : x \in {y \in External : ValueOf(S, y) = None}, v \in Value}

(* klic_interrupt().  The bell is turned off by                            *)
(*   if (interrupt_off) heaplimit = real_heaplimit                         *)
(* where handle_signal() may run between the test and the assignment: then *)
(* the signal is left for a later interrupt, and the bell is off.          *)
Interrupted_LowerFirst(S) ==   \* Defect: the flag of a higher priority is forgotten
  LET H == HandleSignal(EnqueueResumedGoals(S))
  IN  [EnqueueResumedGoals(H) EXCEPT !.higher = FALSE, !.doorbell = FALSE]
Interrupted(S) ==
  LET H == HandleSignal(EnqueueResumedGoals(S))
      R == EnqueueResumedGoals(H)
  IN  [IF R.higher THEN GetTopPriorityQueue(PutPriorityQueue(R)) ELSE R
         EXCEPT !.higher = FALSE, !.doorbell = FALSE]
Interrupt(S) ==
  \E R \in {Interrupted(S)} : \E late \in {R.signal} \cup Signals(R) :
    Becomes([R EXCEPT !.signal = late])

(* The end of a reduction: unless the doorbell has been rung the goal goes *)
(* on, or the next one starts; otherwise interrupt_goal() puts a goal that *)
(* goes on behind the resumed ones, and klic_interrupt() is called.  A     *)
(* full heap looks as if the doorbell had been rung.                       *)
After(new, g, goesOn) ==
  \E S \in {new, [new EXCEPT !.doorbell = TRUE]} :
    IF S.doorbell THEN Interrupt(IF goesOn THEN [S EXCEPT !.resumed = Append(@, g)] ELSE S)
    ELSE Becomes(IF goesOn THEN [S EXCEPT !.qp = <<g>> \o @] ELSE S)

-----------------------------------------------------------------------------
Init ==
  /\ qp = <<Main>> /\ current_prio = Max(Prio)
  /\ prioq = <<Record(0, <<TopGoal>>), Sentinel>>
  /\ resumed_goals = <<>> /\ higher_priority_goal = TRUE /\ doorbell = TRUE
  /\ signal = None
  /\ asleep = [g \in Goal |-> None]
  /\ hooks = [x \in Var |-> <<>>]
  /\ suspended = 0
  /\ rep = [x \in Var |-> x] /\ val = [x \in Var |-> None]
  /\ waits = [g \in Goal |-> None]
  /\ due = [g \in Goal |-> Max(Prio)]
  /\ alive = {Main} /\ born = {Main} /\ status = "running"

(* The goal at the head of the queue is reduced.                           *)
AtHead(g) == status = "running" /\ qp # <<>> /\ Head(qp) = g
Popped == [State EXCEPT !.qp = Tail(@)]
Reducing(g) == AtHead(g) /\ g \in alive /\ waits[g] = None
Left(g, goesOn) == IF goesOn THEN alive ELSE alive \ {g}

Reduce(g, goesOn) ==
  /\ Reducing(g)
  /\ After(Popped, g, goesOn)
  /\ alive' = Left(g, goesOn)
  /\ UNCHANGED <<born, status>>

(* A body goal, with the priority of its parent or one of its own.         *)
Fork(g, h, p, goesOn) ==
  /\ Reducing(g) /\ h \notin born \cup Waiter
  /\ After(EnqueueGoal(Popped, p, h), g, goesOn)
  /\ born' = born \cup {h} /\ alive' = Left(g, goesOn) \cup {h}
  /\ UNCHANGED status

ForkWaiting(g, h, x, relative, goesOn) ==
  /\ Reducing(g) /\ h \in Waiter \ born
  /\ After(EnqueueAfterWaiting(Popped, h, x, relative), g, goesOn)
  /\ born' = born \cup {h} /\ alive' = Left(g, goesOn) \cup {h}
  /\ UNCHANGED status

Bind(g, x, v, goesOn) ==
  /\ Reducing(g)
  /\ rep[x] = x /\ val[x] = None /\ \A y \in External : rep[y] # x
  /\ After(BindVar(Popped, x, v), g, goesOn)
  /\ alive' = Left(g, goesOn)
  /\ UNCHANGED <<born, status>>

(* do_unify() of two variables: y becomes a reference to x, and the hook   *)
(* chains are spliced.                                                     *)
SpliceHooks_Dropped(S, x, y) == [S EXCEPT !.hooks[y] = <<>>]   \* Defect
SpliceHooks(S, x, y) ==
  [S EXCEPT !.hooks[x] = S.hooks[y] \o @, !.hooks[y] = <<>>]
Unify(g, x, y, goesOn) ==
  /\ Reducing(g)
  /\ x # y /\ \A z \in {x, y} : rep[z] = z /\ val[z] = None
  /\ After([SpliceHooks(Popped, x, y) EXCEPT
              !.rep = [z \in Var |-> IF rep[z] = y THEN x ELSE rep[z]]], g, goesOn)
  /\ alive' = Left(g, goesOn)
  /\ UNCHANGED <<born, status>>

(* interrupt_goal() with reasons: one of the variables xs may have been    *)
(* bound without the code of the clauses seeing it; else g is suspended.   *)
Without(s, g) == FoldLeft(LAMBDA t, h : IF h = g THEN t ELSE Append(t, h), <<>>, s)
HookOn(S, g, xs) ==
  [S EXCEPT !.hooks = [x \in Var |-> (IF x \in xs THEN <<g>> ELSE <<>>) \o Without(@[x], g)],
            !.asleep[g] = [prio |-> S.prio, on |-> xs],
            !.suspended = @ + 1]
Suspend(g, xs) ==
  /\ Reducing(g) /\ xs # {}
  /\ After(IF \E x \in xs : ValueOf(State, x) # None THEN ResumeSamePrio(Popped, g)
           ELSE HookOn(Popped, g, {rep[x] : x \in xs}), g, FALSE)
  /\ UNCHANGED <<alive, born, status>>

(* wait_prio_routine(), which does not look at the doorbell.               *)
WaitPrioRoutine(g) ==
  /\ AtHead(g) /\ waits[g] # None
  /\ Becomes(EnqueueAfterWaiting(Popped, g, waits[g].on, waits[g].relative))
  /\ UNCHANGED <<alive, born, status>>

(* queue_empty(), nor does it.                                             *)
QueueEmpty ==
  /\ status = "running" /\ qp = <<>>
  /\ Becomes(GetTopPriorityQueue(State))
  /\ UNCHANGED <<alive, born, status>>

-----------------------------------------------------------------------------
(* topsucceed().  It leaves its old record behind a new one in the queue,  *)
(* of which the model keeps one.  With goals suspended it makes a          *)
(* collection, which finds those that nothing but the hooks of variables   *)
(* refers to: all of them, once no signal can come for a variable.         *)
TopExits_Uncounted ==   \* Defect: suspended goals are not counted
  /\ AtHead(TopGoal)
  /\ status' = "exited"
  /\ UNCHANGED <<queueVars, goalVars, signal, rep, val>>
TopExits ==
  /\ AtHead(TopGoal) /\ suspended = 0
  /\ status' = "exited"
  /\ UNCHANGED <<queueVars, goalVars, signal, rep, val>>

TopWaits ==
  /\ AtHead(TopGoal) /\ suspended # 0
  /\ Interrupt(State)
  /\ LET Expected == \E x \in External : val'[rep'[x]] = None
     IN  status' = IF Head(qp') # TopGoal THEN "running"
                   ELSE IF Expected THEN "idle" ELSE "perpetual"
  /\ UNCHANGED <<alive, born>>

TopWakes ==
  /\ status = "idle" /\ signal # None
  /\ Interrupt(State)
  /\ status' = "running"
  /\ UNCHANGED <<alive, born>>

(* handle_signal(), at any time.                                           *)
HandlerRuns ==
  /\ status \in {"running", "idle"} /\ signal = None
  /\ signal' \in Signals(State)
  /\ doorbell' = TRUE
  /\ UNCHANGED <<qp, current_prio, prioq, resumed_goals, higher_priority_goal,
                 goalVars, rep, val, status>>

Stopped == status \in {"exited", "perpetual"} /\ UNCHANGED vars

-----------------------------------------------------------------------------
GoalStep(g) ==
  \E goesOn \in BOOLEAN :
    \/ Reduce(g, goesOn)
    \/ \E h \in Goal, p \in Prio \cup {-1} : Fork(g, h, p, goesOn)
    \/ \E h \in Goal, x \in Var, relative \in BOOLEAN : ForkWaiting(g, h, x, relative, goesOn)
    \/ \E x \in Var, v \in Value : Bind(g, x, v, goesOn)
    \/ \E x, y \in Var : Unify(g, x, y, goesOn)

SchedStep ==
  \/ \E g \in Goal : GoalStep(g) \/ WaitPrioRoutine(g)
  \/ \E g \in Goal, xs \in SUBSET Var : Suspend(g, xs)
  \/ QueueEmpty \/ TopExits \/ TopWaits \/ TopWakes

Next == SchedStep \/ HandlerRuns \/ Stopped

Spec == Init /\ [][Next]_vars

(* The process runs as long as it can, and nothing is assumed of signals:  *)
(* WF_vars(SchedStep), where Runnable says when such a step is enabled.    *)
(* No goal goes on for ever without any effect.                            *)
Runnable == status = "running" \/ (status = "idle" /\ signal # None)
FairSpec == Spec /\ ([]<>~Runnable \/ []<><<SchedStep>>_vars)
-----------------------------------------------------------------------------
(* The variables have values the program can give them. *)
TypeOK ==
  /\ qp \in Seq(Goal \cup {TopGoal}) /\ resumed_goals \in Seq(Goal)
  /\ current_prio \in Nat
  /\ prioq \in Seq([prio : Nat \cup {-1}, q : Seq(Goal \cup {TopGoal})])
  /\ higher_priority_goal \in BOOLEAN /\ doorbell \in BOOLEAN
  /\ asleep \in [Goal -> [prio : Nat, on : SUBSET Var] \cup {None}]
  /\ hooks \in [Var -> Seq(Goal)] /\ suspended \in Nat
  /\ waits \in [Goal -> [on : Var, relative : BOOLEAN] \cup {None}]
  /\ due \in [Goal -> Nat]
  /\ signal \in [on : External, value : Value] \cup {None}
  /\ rep \in [Var -> Var] /\ (\A x \in Var : rep[rep[x]] = rep[x])
  /\ val \in [Var -> Value \cup {None}]
  /\ alive \subseteq born /\ born \subseteq Goal
  /\ status \in {"running", "idle", "exited", "perpetual"}

(* Where g is in the queues: a resumed goal is at the current priority.    *)
PlacesIn(q, g) == {j \in DOMAIN q : q[j] = g}
Places(g) == ({current_prio} \X PlacesIn(resumed_goals \o qp, g))
               \cup UNION {{prioq[i].prio} \X PlacesIn(prioq[i].q, g) : i \in DOMAIN prioq}

(* No goal is lost, and none is run twice: a goal that can be reduced is   *)
(* in exactly one place of one queue, whatever hooks it has been on, and   *)
(* one that is asleep or has ended is in none.                             *)
PlacedOnce ==
  \A g \in Goal : Cardinality(Places(g)) = IF g \in alive /\ asleep[g] = None THEN 1 ELSE 0

(* topsucceed and the collector can tell how many goals are suspended, and *)
(* so whether the program has ended, from suspensions - resumes.           *)
CountRight == suspended = Cardinality({g \in Goal : asleep[g] # None})

(* No wake-up is lost: a goal that is asleep is still hooked on every one  *)
(* of the variables it was suspended on, through what they have been       *)
(* unified with since, and none of them has a value.                       *)
NoneSleepsBound ==
  \A g \in Goal : asleep[g] # None =>
    \A x \in asleep[g].on : ValueOf(State, x) = None /\ Contains(hooks[rep[x]], g)

(* The records of prioq have different priorities, in descending order     *)
(* before the sentinel, none of them is the current one or, unless an      *)
(* interrupt is due, above it; topsucceed comes after all goals.           *)
HighestFirst ==
  /\ \A i, j \in DOMAIN prioq : i < j => prioq[i].prio > prioq[j].prio
  /\ prioq # <<>> /\ Last(prioq) = Sentinel
  /\ \A i \in DOMAIN prioq : /\ prioq[i].prio # current_prio
                             /\ higher_priority_goal \/ prioq[i].prio < current_prio
  /\ LET bottom == IF current_prio = 0 THEN qp ELSE prioq[Len(prioq) - 1].q
     IN  bottom # <<>> /\ PlacesIn(bottom, TopGoal) = {Len(bottom)}

(* Goals that have been resumed and higher priorities never wait for       *)
(* klic_interrupt() with the doorbell off: whatever turns it off between    *)
(* two of them, a signal's end included, has attended to them before.      *)
DoorbellRung == resumed_goals # <<>> \/ higher_priority_goal => doorbell

(* A goal is reduced at the priority it was given, however often it has    *)
(* been suspended, resumed, or put back for a higher priority.             *)
KeepsPriority ==
  /\ \A g \in Goal : asleep[g] # None => asleep[g].prio = due[g]
  /\ \A g \in Goal : waits[g] = None =>
       /\ Contains(qp, g) \/ Contains(resumed_goals, g) => due[g] = current_prio
       /\ \A i \in DOMAIN prioq : Contains(prioq[i].q, g) => due[g] = prioq[i].prio

(* The process exits only when there is nothing left to reduce, asleep or  *)
(* not; only goals that wait for their priority are given up.              *)
NothingLeft == status = "exited" => \A g \in alive : waits[g] # None

(* Every goal that can be reduced is reduced in the end, also when goals   *)
(* of higher priority come first, and also when it is asleep on a variable *)
(* that a signal has a value for, whose bell may have been turned off.     *)
CanRun(g) ==
  g \in alive /\ (asleep[g] # None => signal # None /\ Contains(hooks[rep[signal.on]], g))
ReadyRuns == \A g \in Goal : CanRun(g) ~> ~CanRun(g)
=============================================================================
