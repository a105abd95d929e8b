------------------------------- MODULE ExRef -------------------------------
(***************************************************************************)
(* Distributed logic variables.  A term sent to another node leaves behind *)
(* an entry of the export table and becomes an external reference (exref)  *)
(* there.  A goal that waits for an exref turns it into a read hook and    *)
(* sends a %read; the exporter answers when the variable has a value.      *)
(* Entries are reclaimed by weighted export counting: an entry's wec is    *)
(* the sum of the weights of all that refers to it, references, hooks and  *)
(* messages, and at zero the entry is free for another term.               *)
(* The value of a variable is abstracted to Bound, without its arguments.  *)
(***************************************************************************)
EXTENDS Integers, FiniteSets, Bags

CONSTANTS
  Node,
  Index,            \* the indices of an export table
  Slot,             \* the places of a heap for variables and exrefs
  Bound,            \* the term that is a value
  None,             \* no term, or no index
  EXPORT_UNIT_WEC, MIN_WEC, TRANSFER_CNT,
  MaxVars, MaxThrows, MaxBinds, MaxAliases   \* bounds: what the goals do in all

ASSUME TermAssumption ==
  /\ Bound # None /\ {Bound, None} \cap (Slot \cup Index) = {}
  /\ \A t \in {Bound, None} : t \notin [node : Node, index : Index, wec : Nat]
ASSUME WecAssumption ==
  /\ MIN_WEC = 2 /\ EXPORT_UNIT_WEC \in Nat /\ EXPORT_UNIT_WEC >= MIN_WEC
  /\ {TRANSFER_CNT, MaxVars, MaxThrows, MaxBinds, MaxAliases} \subseteq Nat

VARIABLES
  exp,              \* exp[n][i]: entry i of the export table of node n
  obj,              \* obj[n][s]: what is in slot s of the heap of node n
  held,             \* held[n]: the slots the goals of n refer to
  net,              \* the messages in flight, a bag
  done              \* done[c]: how often goals did c (see the bounds)

vars == <<exp, obj, held, net, done>>

-----------------------------------------------------------------------------
(* An entry of an export table. *)
Unused == [wec |-> 0, data |-> None]
Entry(s) == [wec |-> EXPORT_UNIT_WEC, data |-> s]

(* A reference to entry i of node n, of weight w. *)
RefTo(n, i, w) == [node |-> n, index |-> i, wec |-> w]

(* An unbound variable has a chain of hooks on it, here a bag of them: a    *)
(* read hook holds a reference and the index its answer will come to, a    *)
(* reply hook the reference to answer.  An exref is a variable with the    *)
(* exref object as its generator.                                          *)
One(x) == SetToBag({x})
ReadHook(r, ret) == [node |-> r.node, index |-> r.index, wec |-> r.wec, ret |-> ret]
ReplyHook(r) == ReadHook(r, None)
Free == [kind |-> "free"]
Var(hooks) == [kind |-> "var", hooks |-> hooks]
Exref(r) == [kind |-> "exref", node |-> r.node, index |-> r.index, wec |-> r.wec]
IsVar(o) == o.kind = "var"
IsExref(o) == o.kind = "exref"

(* A message spends wec on entry index of its addressee; a reference in    *)
(* term has a weight of its own.  from, the return index of the read hook  *)
(* that sends the message, is not sent: it tells two messages apart.       *)
Message(type, r, term, transc, from) ==
  [type |-> type, to |-> r.node, index |-> r.index, wec |-> r.wec,
   term |-> term, transc |-> transc, from |-> from]
ThrowMsg(d, term) == Message("throw", RefTo(d, None, 0), term, 0, None)
ReadMsg(r, back, transc) == Message("read", RefTo(r.node, r.index, 1), back, transc, None)
AnswerMsg(back) == Message("answer", back, Bound, 0, None)
UnifyMsg(r, term, from) == Message("unify", r, term, 0, from)
ReleaseMsg(r, from) == Message("release", r, None, 0, from)

InFlight == BagToSet(net)

-----------------------------------------------------------------------------
(* What a handler works on: the tables and heaps and what it has sent.     *)
(* The operators below take it and give the set of what it may become.     *)
Memory == [exp |-> exp, obj |-> obj, held |-> held, net |-> net]
Becomes(S) == exp' = S.exp /\ obj' = S.obj /\ held' = S.held /\ net' = S.net

Post(S, messages) == [S EXCEPT !.net = @ (+) messages]
Receive(S, m) == [S EXCEPT !.net = @ (-) One(m)]

(* regist_exptbl(), and search_exptbl(), which frees the entry together    *)
(* with the last of its weight.                                            *)
Registered(S, n, s) ==
  {[mem |-> [S EXCEPT !.exp[n][i] = Entry(s)], ref |-> RefTo(n, i, EXPORT_UNIT_WEC)] :
     i \in {j \in Index : S.exp[n][j] = Unused}}
Search(S, n, i, w) ==
  LET e == S.exp[n][i]
  IN  [S EXCEPT !.exp[n][i] = IF e.wec = w THEN Unused ELSE [e EXCEPT !.wec = e.wec - w]]

(* Slot x of n is bound to t: what referred to it refers to t.             *)
Redirect(S, n, x, t) ==
  [S EXCEPT !.obj[n][x] = Free,
            !.exp[n] = [i \in Index |-> IF @[i].data = x THEN [@[i] EXCEPT !.data = t]
                                        ELSE @[i]],
            !.held[n] = IF x \in @ THEN (@ \ {x}) \cup ({t} \cap Slot) ELSE @]

(* Defect: the sender does not give any of its weight. *)
Encode_Copied(S, n, s) ==
  LET o == S.obj[n][s]
  IN  IF IsExref(o) /\ o.wec >= 2 * MIN_WEC
      THEN {[mem |-> S, ref |-> RefTo(o.node, o.index, o.wec \div 2)]}
      ELSE Registered(S, n, s)

(* encode_data(): an exref gives half of its weight away while it has      *)
(* enough; a variable, or an exref that has not, is exported.              *)
Encode(S, n, s) ==
  LET o == S.obj[n][s]
  IN  IF IsExref(o) /\ o.wec >= 2 * MIN_WEC
      THEN {[mem |-> [S EXCEPT !.obj[n][s].wec = @ - (@ \div 2)],
             ref |-> RefTo(o.node, o.index, o.wec \div 2)]}
      ELSE Registered(S, n, s)

(* decode_exref(): a reference that comes home is what was exported.       *)
Decode(S, n, t) ==
  IF t = Bound THEN {[mem |-> S, term |-> Bound]}
  ELSE IF t.node = n
  THEN {[mem |-> Search(S, n, t.index, t.wec), term |-> S.exp[n][t.index].data]}
  ELSE {[mem |-> [S EXCEPT !.obj[n][s] = Exref(t)], term |-> s] :
          s \in {x \in Slot : S.obj[n][x] = Free}}

(* exref GENERATE and read_hook NEW: the exref in s becomes a variable     *)
(* with a read hook, and the %read spends one of its weight.               *)
Generate(S, n, s) ==
  LET o == S.obj[n][s]
      Hook(i) == ReadHook(RefTo(o.node, o.index, o.wec - 1), i)
  IN  {Post([e.mem EXCEPT !.obj[n][s] = Var(One(Hook(e.ref.index)))],
            One(ReadMsg(o, e.ref, TRANSFER_CNT))) : e \in Registered(S, n, s)}

AddReply(S, n, s, back) == [S EXCEPT !.obj[n][s].hooks = @ (+) One(ReplyHook(back))]

(* Slot x gets a value.  The value goes where an exref refers to, and to   *)
(* where the hooks on a variable wait; only the read hook that has got the *)
(* value as its answer releases its reference instead.                     *)
HookMsg(h, answered) ==
  IF h.ret = None THEN AnswerMsg(h)
  ELSE IF h.ret = answered THEN ReleaseMsg(h, h.ret)
  ELSE UnifyMsg(h, Bound, h.ret)
HookOf(m) == ReadHook(RefTo(m.to, m.index, m.wec), m.from)
HookMsgs_NoReplies(hooks, answered) ==  \* Defect: only read hooks are run
  [m \in {HookMsg(h, answered) : h \in {k \in BagToSet(hooks) : k.ret # None}} |->
     hooks[HookOf(m)]]
HookMsgs(hooks, answered) ==
  [m \in {HookMsg(h, answered) : h \in BagToSet(hooks)} |-> hooks[HookOf(m)]]
Bind(S, n, x, answered) ==
  LET o == S.obj[n][x]
  IN  Redirect(Post(S, IF IsExref(o) THEN One(UnifyMsg(o, Bound, None))
                       ELSE HookMsgs(o.hooks, answered)), n, x, Bound)

(* Variable x is bound to variable y: its hooks are merged to those of y.  *)
Merge_ReadsLost(S, n, x, y) ==   \* Defect: the read hooks of x are forgotten
  LET b == S.obj[n][x].hooks
  IN  Redirect([S EXCEPT !.obj[n][y].hooks =
                  @ (+) [h \in {k \in BagToSet(b) : k.ret = None} |-> b[h]]], n, x, y)
Merge(S, n, x, y) ==
  Redirect([S EXCEPT !.obj[n][y].hooks = @ (+) S.obj[n][x].hooks], n, x, y)

(* generator_unify() of an exref x and a variable y with something hooked  *)
(* on it; do_unify() only redirects a variable with nothing.               *)
UnifyExrefVar_Redirects(S, n, x, y) ==   \* Defect: what is on y is not looked at
  {Redirect(S, n, y, x)}
UnifyExrefVar(S, n, x, y) ==
  {Merge(G, n, x, y) : G \in Generate(S, n, x)}
    \cup (IF S.obj[n][y] = Var(EmptyBag) THEN {Redirect(S, n, y, x)} ELSE {})

DoUnify(S, n, x, y, answered) ==
  IF x = y THEN {S}
  ELSE IF y = Bound THEN {Bind(S, n, x, answered)}
  ELSE IF x = Bound THEN {Bind(S, n, y, answered)}
  ELSE IF IsVar(S.obj[n][x])
  THEN IF IsVar(S.obj[n][y]) THEN {Merge(S, n, x, y)} ELSE UnifyExrefVar(S, n, y, x)
  ELSE IF IsVar(S.obj[n][y]) THEN UnifyExrefVar(S, n, x, y)
  ELSE {Redirect(Post(e.mem, One(UnifyMsg(S.obj[n][x], e.ref, None))), n, x, y) :
          e \in Encode(S, n, y)}

-----------------------------------------------------------------------------
Init ==
  /\ exp = [n \in Node |-> [i \in Index |-> Unused]]
  /\ obj = [n \in Node |-> [s \in Slot |-> Free]]
  /\ held = [n \in Node |-> {}]
  /\ net = EmptyBag
  /\ done = [var |-> 0, throw |-> 0, bind |-> 0, alias |-> 0]

(* What goals do.  The bounds count it. *)
Counted(c, max) == done[c] < max /\ done' = [done EXCEPT ![c] = @ + 1]

NewVar(n, s) ==
  /\ Counted("var", MaxVars)
  /\ obj[n][s] = Free
  /\ obj' = [obj EXCEPT ![n][s] = Var(EmptyBag)]
  /\ held' = [held EXCEPT ![n] = @ \cup {s}]
  /\ UNCHANGED <<exp, net>>

(* A goal is thrown to d with an argument. *)
Throw(n, d, s) ==
  /\ Counted("throw", MaxThrows)
  /\ d # n /\ s \in held[n]
  /\ \E e \in Encode(Memory, n, s) : Becomes(Post(e.mem, One(ThrowMsg(d, e.ref))))

(* A goal is suspended on an exref. *)
Suspend(n, s) ==
  /\ s \in held[n] /\ IsExref(obj[n][s])
  /\ \E S \in Generate(Memory, n, s) : Becomes(S)
  /\ UNCHANGED done

BindTerm(n, s) ==
  /\ Counted("bind", MaxBinds)
  /\ s \in held[n]
  /\ Becomes(Bind(Memory, n, s, None))

Alias(n, x, y) ==
  /\ Counted("alias", MaxAliases)
  /\ {x, y} \subseteq held[n] /\ x # y
  /\ \E S \in DoUnify(Memory, n, x, y, None) : Becomes(S)

Drop(n, s) ==
  /\ s \in held[n]
  /\ held' = [held EXCEPT ![n] = @ \ {s}]
  /\ UNCHANGED <<exp, obj, net, done>>

(* scan_imp_table() after a collection: an exref nothing refers to, the    *)
(* export table included, is released.  An unreachable variable is lost    *)
(* with all that is hooked on it.                                          *)
Unreachable_ByGoals(n, s) == s \notin held[n]  \* Defect: the export table is no root
Unreachable(n, s) == s \notin held[n] /\ \A i \in Index : exp[n][i].data # s
Collect_Silent(n, s) ==   \* Defect: an exref nothing refers to is not released
  /\ obj[n][s] # Free /\ Unreachable(n, s)
  /\ obj' = [obj EXCEPT ![n][s] = Free]
  /\ UNCHANGED <<exp, held, net, done>>
Collect(n, s) ==
  /\ obj[n][s] # Free /\ Unreachable(n, s)
  /\ obj' = [obj EXCEPT ![n][s] = Free]
  /\ net' = IF IsExref(obj[n][s]) THEN net (+) One(ReleaseMsg(obj[n][s], None))
            ELSE net
  /\ UNCHANGED <<exp, held, done>>

-----------------------------------------------------------------------------
(* decode_throw_goal *)
ReceiveThrow(n, m) ==
  /\ m.type = "throw" /\ m.to = n
  /\ \E d \in Decode(Receive(Memory, m), n, m.term) :
       Becomes([d.mem EXCEPT !.held[n] = @ \cup ({d.term} \cap Slot)])
  /\ UNCHANGED done

(* decode_unify *)
ReceiveUnify(n, m) ==
  /\ m.type = "unify" /\ m.to = n
  /\ \E d \in Decode(Receive(Memory, m), n, m.term) :
     \E S \in DoUnify(Search(d.mem, n, m.index, m.wec), n,
                      d.mem.exp[n][m.index].data, d.term, None) : Becomes(S)
  /\ UNCHANGED done

(* decode_answer_value: an answer to what has a value by now is ignored.   *)
ReceiveAnswer_Ignored(n, m) ==   \* Defect: the entry is freed, nothing is bound
  /\ m.type = "answer" /\ m.to = n
  /\ Becomes(Search(Receive(Memory, m), n, m.index, m.wec))
  /\ UNCHANGED done
ReceiveAnswer(n, m) ==
  /\ m.type = "answer" /\ m.to = n
  /\ \E S \in DoUnify(Search(Receive(Memory, m), n, m.index, m.wec), n,
                      exp[n][m.index].data, Bound, m.index) : Becomes(S)
  /\ UNCHANGED done

(* decode_release *)
ReceiveRelease(n, m) ==
  /\ m.type = "release" /\ m.to = n
  /\ Becomes(Search(Receive(Memory, m), n, m.index, m.wec))
  /\ UNCHANGED done

(* decode_read, one action for each of its ways out.                       *)
ReadTarget(n, m) == exp[n][m.index].data
ReadSpent(n, m) == Search(Receive(Memory, m), n, m.index, m.wec)

(* The read has come back to the node that waits for the answer.           *)
ReadComesHome_Dropped(n, m) ==   \* Defect: taken for a read of nothing
  /\ m.type = "read" /\ m.to = n /\ m.term.node = n
  /\ Becomes(Search(ReadSpent(n, m), n, m.term.index, m.term.wec))
  /\ UNCHANGED done
ReadComesHome(n, m) ==
  /\ m.type = "read" /\ m.to = n /\ m.term.node = n
  /\ LET S0 == ReadSpent(n, m)
     IN \E S \in DoUnify(Search(S0, n, m.term.index, m.term.wec), n,
                         S0.exp[n][m.term.index].data, ReadTarget(n, m), m.term.index) :
          Becomes(S)
  /\ UNCHANGED done

ReadAnswered(n, m) ==
  /\ m.type = "read" /\ m.to = n /\ m.term.node # n
  /\ ReadTarget(n, m) = Bound
  /\ Becomes(Post(ReadSpent(n, m), One(AnswerMsg(m.term))))
  /\ UNCHANGED done

(* transfer_read *)
Transferable_AtMin(n, m) ==   \* Defect: the last but MIN_WEC is given as well
  LET o == obj[n][ReadTarget(n, m)]
  IN  IsExref(o) /\ m.transc - 1 > 0 /\ o.wec >= MIN_WEC
Transferable(n, m) ==
  LET o == obj[n][ReadTarget(n, m)]
  IN  IsExref(o) /\ m.transc - 1 > 0 /\ o.wec > MIN_WEC
ReadTransferred(n, m) ==
  /\ m.type = "read" /\ m.to = n /\ m.term.node # n
  /\ ReadTarget(n, m) # Bound /\ Transferable(n, m)
  /\ LET s == ReadTarget(n, m)
     IN  Becomes(Post([ReadSpent(n, m) EXCEPT !.obj[n][s].wec = @ - 1],
                      One(ReadMsg(obj[n][s], RefTo(m.term.node, m.term.index, EXPORT_UNIT_WEC),
                                  m.transc - 1))))
  /\ UNCHANGED done

(* A reply hook is put on the variable; an exref is read by this node then. *)
ReadHooked(n, m) ==
  /\ m.type = "read" /\ m.to = n /\ m.term.node # n
  /\ ReadTarget(n, m) # Bound /\ ~Transferable(n, m)
  /\ LET s == ReadTarget(n, m)
     IN  \E S \in IF IsExref(obj[n][s]) THEN Generate(ReadSpent(n, m), n, s)
                  ELSE {ReadSpent(n, m)} : Becomes(AddReply(S, n, s, m.term))
  /\ UNCHANGED done

-----------------------------------------------------------------------------
GoalStep(n) ==
  \/ \E s \in Slot : NewVar(n, s) \/ Suspend(n, s) \/ BindTerm(n, s) \/ Drop(n, s)
  \/ \E s \in Slot, d \in Node : Throw(n, d, s)
  \/ \E x, y \in Slot : Alias(n, x, y)

ReceiveStep(n) ==
  \E m \in InFlight :
     \/ ReceiveThrow(n, m) \/ ReceiveUnify(n, m) \/ ReceiveAnswer(n, m)
     \/ ReceiveRelease(n, m)
     \/ ReadComesHome(n, m) \/ ReadAnswered(n, m) \/ ReadTransferred(n, m)
     \/ ReadHooked(n, m)

CollectStep(n) == \E s \in Slot : Collect(n, s)

Next == \E n \in Node : GoalStep(n) \/ ReceiveStep(n) \/ CollectStep(n)

Spec == Init /\ [][Next]_vars

(* Messages are polled for and arrive, and garbage is collected in the end. *)
FairSpec == Spec /\ \A n \in Node : WF_vars(ReceiveStep(n)) /\ WF_vars(CollectStep(n))
-----------------------------------------------------------------------------
(* The variables have values the program can give them. *)
Reference == [node : Node, index : Index, wec : Nat]
Hooked == [node : Node, index : Index, wec : Nat, ret : Index \cup {None}]
InMessage ==
  [type : {"throw", "read", "answer", "unify", "release"}, to : Node,
   index : Index \cup {None}, wec : Nat, term : Reference \cup {Bound, None},
   transc : Nat, from : Index \cup {None}]
TypeOK ==
  /\ exp \in [Node -> [Index -> [wec : Nat, data : Slot \cup {Bound, None}]]]
  /\ \A n \in Node, s \in Slot :
       LET o == obj[n][s]
       IN  \/ o = Free
           \/ o \in [kind : {"exref"}, node : Node, index : Index, wec : Nat]
           \/ IsVar(o) /\ o = Var(o.hooks) /\ IsABag(o.hooks) /\ BagToSet(o.hooks) \subseteq Hooked
  /\ held \in [Node -> SUBSET Slot]
  /\ IsABag(net) /\ InFlight \subseteq InMessage

(* The sum of a function's values in Nat, as the size of a set.            *)
Grains(f) == UNION {{x} \X (1 .. f[x]) : x \in DOMAIN f}
Total(f) == Cardinality(Grains(f))

(* The weight of entry i of node n that a reference, a hook, an object or  *)
(* a message has.                                                          *)
RefWeight(r, n, i) == IF r.node = n /\ r.index = i THEN r.wec ELSE 0
HooksWeight(hooks, n, i) ==
  Total([h \in BagToSet(hooks) |-> hooks[h] * RefWeight(h, n, i)])
ObjWeight(o, n, i) ==
  IF IsExref(o) THEN RefWeight(o, n, i)
  ELSE IF IsVar(o) THEN HooksWeight(o.hooks, n, i) ELSE 0
MessageWeight(m, n, i) ==
  RefWeight(RefTo(m.to, m.index, m.wec), n, i)
    + (IF m.term \in {Bound, None} THEN 0 ELSE RefWeight(m.term, n, i))

Places == Node \X Slot
At(p) == obj[p[1]][p[2]]

(* No step of any node creates or loses weight: an entry has as much as    *)
(* there is in references to it, so an entry is freed neither too early    *)
(* nor never, and a freed index is used again only when nothing means the  *)
(* old entry.                                                              *)
WecConserved ==
  \A n \in Node, i \in Index :
    exp[n][i].wec = Total([p \in Places |-> ObjWeight(At(p), n, i)])
                      + Total([m \in InFlight |-> net[m] * MessageWeight(m, n, i)])

(* No node ever stops with "illegal exp record" or "illegal WEC in exref   *)
(* object": what refers to an entry has weight, and finds the entry used.  *)
Backed(r) == r.wec > 0 /\ exp[r.node][r.index] # Unused
HooksAt(p) == IF IsVar(At(p)) THEN BagToSet(At(p).hooks) ELSE {}
NeverIllegal ==
  /\ \A p \in Places : /\ IsExref(At(p)) => At(p).wec >= MIN_WEC /\ Backed(At(p))
                       /\ \A h \in HooksAt(p) : Backed(h)
  /\ \A m \in InFlight : /\ m.type # "throw" => Backed(RefTo(m.to, m.index, m.wec))
                         /\ m.term \notin {Bound, None} => Backed(m.term)

Wanted(p) == p[2] \in held[p[1]] \/ \E i \in Index : exp[p[1]][i].data = p[2]
(* A collection takes nothing that is still of use: what goals or export   *)
(* entries refer to exists.                                                *)
NothingDangles == \A p \in Places : Wanted(p) => At(p) # Free

(* Who waits for whom.  References lead from place to place, and a %unify  *)
(* will make one of two; a read hook waits for what it refers to, and what *)
(* it asked for is known by the return index: the %read on its way, the    *)
(* reply hook, or the answer.  The hook is open as long as its index leads *)
(* to it.  A value is nowhere.                                             *)
Nowhere == <<>>
SpotOf(n, t) == IF t \in Slot THEN <<n, t>> ELSE Nowhere
Spot(S, r) == SpotOf(r.node, S.exp[r.node][r.index].data)
TermSpot(S, t) == IF t = Bound THEN Nowhere ELSE Spot(S, t)
Addressed(m) == RefTo(m.to, m.index, m.wec)
Sent(S, type) == {m \in BagToSet(S.net) : m.type = type}
Content(S, p) == S.obj[p[1]][p[2]]
HooksOn(S, p) == IF IsVar(Content(S, p)) THEN BagToSet(Content(S, p).hooks) ELSE {}
ReadsOn(S, p) == {h \in HooksOn(S, p) : h.ret # None}
RepliesOn(S, p) == {h \in HooksOn(S, p) : h.ret = None}

Wait(p, i, q) == [at |-> p, ret |-> i, on |-> q]
Ask(n, i, q) == [node |-> n, index |-> i, at |-> q]
Links(S) ==
  {<<p, Spot(S, Content(S, p))>> : p \in {q \in Places : IsExref(Content(S, q))}}
    \cup {<<Spot(S, Addressed(m)), TermSpot(S, m.term)>> : m \in Sent(S, "unify")}
Waits(S) == UNION {{Wait(p, h.ret, Spot(S, h)) : h \in ReadsOn(S, p)} : p \in Places}
Asks(S) ==
  (UNION {{Ask(h.node, h.index, p) : h \in RepliesOn(S, p)} : p \in Places})
    \cup {Ask(m.term.node, m.term.index, Spot(S, Addressed(m))) : m \in Sent(S, "read")}
    \cup {Ask(m.to, m.index, Nowhere) : m \in Sent(S, "answer")}
Open(S) == {u \in Places \X Index : S.exp[u[1][1]][u[2]].data = u[1][2]}
Graph(S) == [links |-> Links(S), waits |-> Waits(S), asks |-> Asks(S), open |-> Open(S)]

AsksFor(G, k, w) ==
  k.node = w.at[1] /\ k.index = w.ret /\ <<w.at, w.ret>> \in G.open

(* A set of places whose border no reference, no unification on its way    *)
(* and nothing that its own variables have asked for crosses; somebody     *)
(* waits in it; somebody's reference that is read leads into it.           *)
Enclosed(G, C) ==
  /\ \A l \in G.links : l[1] \in C <=> l[2] \in C
  /\ \A w \in G.waits, k \in G.asks : w.at \in C /\ AsksFor(G, k, w) => k.at \in C
Awaited(G, C) == (\E w \in G.waits : w.at \in C) \/ (\E k \in G.asks : k.at \in C)
ReadInto(G, C) ==
  \E w \in G.waits :
    /\ w.on \in C
    /\ w.at \in C \/ \E k \in G.asks : AsksFor(G, k, w) /\ k.at \in C

(* Nobody waits for an answer that does not come.  Whoever waits has asked *)
(* somebody else, unless it is among places that only refer to each other; *)
(* and then a read has got there along a reference that still leads there, *)
(* so that what is waited for is neither collected nor bound unnoticed.    *)
NeverInVain(G) ==
  \A C \in SUBSET Places : Enclosed(G, C) /\ Awaited(G, C) => ReadInto(G, C)
NoneWaitsInVain == NeverInVain(Graph(Memory))

(* What will answer the read with return index i of node n: the %read on   *)
(* its way, the reply hook it has become on a variable, or the answer.     *)
Askers(n, i) ==
  (UNION {{<<p, h>> : h \in {g \in RepliesOn(Memory, p) : g.node = n /\ g.index = i}} :
            p \in Places})
    \cup {<<Nowhere, m>> : m \in {k \in Sent(Memory, "read") : k.term.node = n /\ k.term.index = i}
                                \cup {k \in Sent(Memory, "answer") : k.to = n /\ k.index = i}}
Times(u) == IF u[1] = Nowhere THEN net[u[2]] ELSE At(u[1]).hooks[u[2]]

(* A read is answered once, wherever it is passed on to, and its answer    *)
(* finds the variable that it has been sent for, with the read hook that   *)
(* is released then, wherever bindings and merges have moved that; or a    *)
(* value that has come another way.                                        *)
AnsweredOnce ==
  LET G == Graph(Memory)
  IN  /\ \A n \in Node, i \in Index :
           \A u, v \in Askers(n, i) : u = v /\ Times(u) = 1
      /\ \A k \in G.asks : \/ exp[k.node][k.index].data = Bound
                           \/ \E w \in G.waits : AsksFor(G, k, w)

(* When a variable is bound, whoever it was that bound it, every goal that *)
(* waits for it anywhere gets to see it: in a computation with one         *)
(* variable, no part of it stays a variable with hooks.                    *)
BindingArrives ==
  \A n \in Node, s \in Slot :
    (done.bind > 0 /\ IsVar(obj[n][s])) ~> (~IsVar(obj[n][s]) \/ done.var > 1)

(* Every entry and exref of a variable that has been bound is reclaimed in *)
(* the end, unless goals go on to refer to it.                             *)
Reclaimed ==
  (done.bind > 0) ~> \/ done.var > 1
                     \/ \E n \in Node : held[n] # {}
                     \/ /\ \A n \in Node, i \in Index : exp[n][i] = Unused
                        /\ \A n \in Node, s \in Slot : obj[n][s] = Free
                        /\ InFlight = {}
=============================================================================
