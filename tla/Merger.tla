------------------------------- MODULE Merger -------------------------------
(***************************************************************************)
(* The merger, a consumer object: it is hooked at the variables that its   *)
(* input streams end with so far, and called with what such a variable is  *)
(* bound to.  A step is a turn of its loop, or what a goal does before it  *)
(* binds a variable.  When the heap has no room in the middle of a call,   *)
(* the merger leaves a goal behind and is hooked at a variable this goal   *)
(* will bind.                                                              *)
(***************************************************************************)
EXTENDS Naturals, Sequences, FiniteSets

CONSTANTS
  Stream, Root,     \* the streams, and the one the merger is made for
  Length,           \* Length[s]: how many messages s carries
  Last,             \* Last[s]: the streams of the vector s ends with, None if it ends with []
  None,             \* no such thing
  MaxRoom           \* bound: for how many words there is room after a collection

ASSUME StreamAssumption ==
  /\ Root \in Stream /\ None \notin Stream
  /\ Length \in [Stream -> Nat]
  /\ \A s \in Stream : Last[s] = None \/ Last[s] \in Seq(Stream)

ConsSize == 2       \* the words of a cell of the output,
HookSize == 1       \* and of a variable that the merger is hooked at
ASSUME RoomAssumption == MaxRoom \in Nat /\ ConsSize <= MaxRoom

(* Terms: an input, which is a stream from some point on, and its place in *)
(* the vectors it came from; and the variable that a goal gcmerge:in/4     *)
(* will bind, for the elements v of a vector.                              *)
Input(s, p) == [stream |-> s, at |-> 0, path |-> p]
Rest(t) == [tap |-> t, rest |-> <<>>, taps |-> {t}]
TapsOf(v) == UNION {v[i].taps : i \in DOMAIN v}
Var(v) == [tap |-> None, rest |-> v, taps |-> TapsOf(v)]
Nothing == [tap |-> None, rest |-> <<>>, taps |-> {}]
IsVar(x) == x.rest # <<>>

VARIABLES
  fed,              \* fed[s]: how much of s its producer has made, the end counted as one
  hooks,            \* the terms that are variables the merger is hooked at
  goals,            \* terms x for which there is a goal that unifies x with a hooked variable
  ins, bound,       \* the goals gcmerge:in/4, by rest; those that have bound their variable
  woken,            \* the hooks of the variable being bound that are still to be called
  term, vec,        \* the merger's GC_TERM, and what is left of the vector it has met
  count, out, ended,\* the merger's count and outstream: what is in it, and if it is closed
  room, full        \* for how many words there is room, and if an allocation has failed

calls == <<woken, term, vec>>
self == <<count, out, ended>>
heap == <<room, full>>
vars == <<fed, hooks, goals, ins, bound, calls, self, heap>>

Init ==
  /\ fed = [s \in Stream |-> 0]
  /\ hooks = {} /\ goals = {Rest(Input(Root, <<>>))}
  /\ ins = {} /\ bound = {}
  /\ woken = {} /\ term = Nothing /\ vec = <<>>
  /\ count = 1 /\ out = <<>> /\ ended = FALSE
  /\ room \in 0..MaxRoom /\ full = FALSE

-----------------------------------------------------------------------------
(* What a term is bound to *)
Made(t) == t.at < fed[t.stream]
AtMessage(t) == t.at < Length[t.stream]
AtEnd(t) == t.at = Length[t.stream]
IsBound(x) == IF IsVar(x) THEN x.rest \in bound ELSE Made(x.tap)
IsAlias(x) == IsVar(x) /\ Len(x.rest) = 1
IsCons(x) == ~IsVar(x) /\ AtMessage(x.tap)
IsNil(x) == ~IsVar(x) /\ AtEnd(x.tap) /\ Last[x.tap.stream] = None
IsVector(x) ==
  IF IsVar(x) THEN Len(x.rest) > 1 ELSE AtEnd(x.tap) /\ Last[x.tap.stream] # None
Elements(x) ==
  IF IsVar(x) THEN <<Head(x.rest), Var(Tail(x.rest))>>
  ELSE LET ss == Last[x.tap.stream]
       IN [i \in DOMAIN ss |-> Rest(Input(ss[i], Append(x.tap.path, i)))]

-----------------------------------------------------------------------------
(* Goals: one at a time, and none before the heap has been collected when  *)
(* an allocation has failed                                                *)
BetweenGoals == woken = {} /\ term = Nothing /\ vec = <<>>
Reducing == BetweenGoals /\ ~full

(* A producer binds the variable its stream ends with. *)
Produce(s) ==
  /\ Reducing
  /\ fed[s] <= Length[s]
  /\ fed' = [fed EXCEPT ![s] = @ + 1]
  /\ woken' = {x \in hooks : ~IsVar(x) /\ x.tap.stream = s /\ x.tap.at = fed[s]}
  /\ hooks' = hooks \ woken'
  /\ UNCHANGED <<goals, ins, bound, term, vec, self, heap>>

(* unify_goal/2: the hooked variable of the merger takes the place of an  *)
(* unbound term, or the merger is called.  An alias is one turn of the     *)
(* loop of do_unify() that dereferences.                                   *)
UnifyGoal(x) ==
  /\ Reducing
  /\ x \in goals
  /\ \/ /\ ~IsBound(x)
        /\ goals' = goals \ {x} /\ hooks' = hooks \cup {x}
        /\ UNCHANGED woken
     \/ /\ IsBound(x) /\ IsAlias(x)
        /\ goals' = (goals \ {x}) \cup {Head(x.rest)}
        /\ UNCHANGED <<hooks, woken>>
     \/ /\ IsBound(x) /\ ~IsAlias(x)
        /\ goals' = goals \ {x} /\ woken' = {x}
        /\ UNCHANGED hooks
  /\ UNCHANGED <<fed, ins, bound, term, vec, self, heap>>

(* gcmerge:in/4 for more than one element *)
InPair(v) ==
  /\ Reducing
  /\ v \in ins /\ Len(v) > 1
  /\ ins' = (ins \ {v}) \cup {Tail(v)}
  /\ bound' = bound \cup {v}
  /\ woken' = hooks \cap {Var(v)}
  /\ hooks' = hooks \ {Var(v)}
  /\ UNCHANGED <<fed, goals, term, vec, self, heap>>

(* gcmerge:in/4 for the last element *)
InLast(v) ==
  /\ Reducing
  /\ v \in ins /\ Len(v) = 1
  /\ ins' = ins \ {v}
  /\ bound' = bound \cup {v}
  /\ IF Var(v) \in hooks
     THEN hooks' = hooks \ {Var(v)} /\ goals' = goals \cup {Head(v)}
     ELSE UNCHANGED <<hooks, goals>>
  /\ UNCHANGED <<fed, calls, self, heap>>

(* klic_gc(), after an allocation has failed *)
Collect ==
  /\ BetweenGoals
  /\ full
  /\ full' = FALSE /\ room' \in ConsSize..MaxRoom
  /\ UNCHANGED <<fed, hooks, goals, ins, bound, calls, self>>

-----------------------------------------------------------------------------
(* resume_goals() calls the merger for the next hook. *)
ActiveUnify(x) ==
  /\ term = Nothing /\ vec = <<>>
  /\ x \in woken
  /\ woken' = woken \ {x} /\ term' = x
  /\ UNCHANGED <<fed, hooks, goals, ins, bound, vec, self, heap>>

Allocate(size) == room >= size /\ room' = room - size /\ UNCHANGED full
NoRoom(size) == room < size /\ full' = TRUE /\ UNCHANGED room

(* list0: a message goes to the output. *)
List ==
  /\ term # Nothing /\ IsBound(term) /\ IsCons(term)
  /\ Allocate(ConsSize)
  /\ out' = Append(out, <<term.tap.stream, term.tap.at>>)
  /\ term' = Rest([term.tap EXCEPT !.at = @ + 1])
  /\ UNCHANGED <<fed, hooks, goals, ins, bound, woken, vec, count, ended>>

GcRequest_Advanced ==
  /\ term # Nothing /\ IsBound(term) /\ IsCons(term)
  /\ NoRoom(ConsSize)
  /\ goals' = goals \cup {Rest([term.tap EXCEPT !.at = @ + 1])}
  /\ term' = Nothing
  /\ UNCHANGED <<fed, hooks, ins, bound, woken, vec, self>>

(* gc_request: the rest of the stream will be unified with a new variable. *)
GcRequest ==
  /\ term # Nothing /\ IsBound(term) /\ IsCons(term)
  /\ NoRoom(ConsSize)
  /\ goals' = goals \cup {term}
  /\ term' = Nothing
  /\ UNCHANGED <<fed, hooks, ins, bound, woken, vec, self>>

(* atomic0: an input ends. *)
Atomic ==
  /\ term # Nothing /\ IsBound(term) /\ IsNil(term)
  /\ count' = count - 1
  /\ ended' = (ended \/ count' = 0)
  /\ term' = Nothing
  /\ UNCHANGED <<fed, hooks, goals, ins, bound, woken, vec, out, heap>>

(* generic_data0: an input becomes the elements of a vector. *)
GenericData ==
  /\ term # Nothing /\ IsBound(term) /\ IsVector(term)
  /\ LET v == Elements(term) IN
     /\ count' = count + Len(v) - 1
     /\ vec' = IF count' = 0 THEN <<>> ELSE v
  /\ ended' = (ended \/ count' = 0)
  /\ term' = Nothing
  /\ UNCHANGED <<fed, hooks, goals, ins, bound, woken, out, heap>>

HookElement ==
  /\ vec # <<>>
  /\ Allocate(HookSize)
  /\ goals' = goals \cup {Head(vec)}
  /\ vec' = Tail(vec)
  /\ UNCHANGED <<fed, hooks, ins, bound, woken, term, self>>

GcRequest2_Uncorrected ==
  /\ vec # <<>>
  /\ NoRoom(HookSize)
  /\ ins' = ins \cup {vec}
  /\ hooks' = hooks \cup {Var(vec)}
  /\ vec' = <<>>
  /\ UNCHANGED <<fed, goals, bound, woken, term, self>>

(* gc_request2: a goal takes over the elements that are left. *)
GcRequest2 ==
  /\ vec # <<>>
  /\ NoRoom(HookSize)
  /\ count' = count - (Len(vec) - 1)
  /\ ins' = ins \cup {vec}
  /\ hooks' = hooks \cup {Var(vec)}
  /\ vec' = <<>>
  /\ UNCHANGED <<fed, goals, bound, woken, term, out, ended>>

Susp_OnlyOnce ==
  /\ term # Nothing /\ ~IsBound(term)
  /\ IF \E x \in hooks : ~IsVar(x) /\ x.tap.stream = term.tap.stream /\ x.tap.at = term.tap.at
     THEN UNCHANGED hooks
     ELSE hooks' = hooks \cup {term}
  /\ term' = Nothing
  /\ UNCHANGED <<fed, goals, ins, bound, woken, vec, self, heap>>

(* susp0: resume_goals() hooks the merger at the end of the stream, in a   *)
(* goal of its own when it is hooked there already.                        *)
Susp ==
  /\ term # Nothing /\ ~IsBound(term)
  /\ IF \E x \in hooks : ~IsVar(x) /\ x.tap.stream = term.tap.stream /\ x.tap.at = term.tap.at
     THEN goals' = goals \cup {term} /\ UNCHANGED hooks
     ELSE hooks' = hooks \cup {term} /\ UNCHANGED goals
  /\ term' = Nothing
  /\ UNCHANGED <<fed, ins, bound, woken, vec, self, heap>>

Call ==
  \/ \E x \in woken : ActiveUnify(x)
  \/ List \/ GcRequest
  \/ Atomic
  \/ GenericData \/ HookElement \/ GcRequest2
  \/ Susp

Goal ==
  \/ \E x \in goals : UnifyGoal(x)
  \/ \E v \in ins : InPair(v) \/ InLast(v)

Next ==
  \/ \E s \in Stream : Produce(s)
  \/ Goal
  \/ Collect
  \/ Call

Spec == Init /\ [][Next]_vars

(* The node goes on while there is something to do, and so do the          *)
(* producers, whose goals are among those it reduces.                      *)
FairSpec ==
  /\ Spec
  /\ WF_vars(Goal) /\ WF_vars(Collect) /\ WF_vars(Call)
  /\ \A s \in Stream : WF_vars(Produce(s))

-----------------------------------------------------------------------------
(* What the merger is called with at the moment *)
Called == {term} \ {Nothing}

(* The merger's count is the number of its inputs that have not ended: the *)
(* variables it is hooked at, those a goal is going to unify with such a   *)
(* variable, and the input or the vector it is working on.                 *)
CountRight ==
  count = Cardinality(hooks) + Cardinality(goals) + Cardinality(woken)
            + Cardinality(Called) + Len(vec)

(* When all streams come to their ends, the output is complete in the end. *)
AllMerged == <>ended

(* Whatever is put off for want of room, the merger does what a merger is  *)
(* for: the output has each message once and those of an input in order,   *)
(* and it ends exactly when the last input does.                           *)
inputs == (UNION {x.taps : x \in hooks \cup goals \cup woken \cup {term}}) \cup TapsOf(vec)
M == INSTANCE StreamMerge
ImplementsMerge == M!Spec
=============================================================================
