---------------------------- MODULE Merger_proofs ----------------------------
(***************************************************************************)
(* Proofs about the merger, for any streams and any room in the heap.      *)
(***************************************************************************)
EXTENDS Merger, TLAPS, FiniteSetTheorems, SequenceTheorems

-----------------------------------------------------------------------------
(* Inputs are told apart by their paths: of two inputs that exist together *)
(* neither has a path that begins with the path of the other.              *)
Apart(p, q) == \E i \in DOMAIN p \cap DOMAIN q : p[i] # q[i]
Extends(p, q) == \A i \in DOMAIN q : i \in DOMAIN p /\ p[i] = q[i]
Far(A, B) == \A t \in A, u \in B : Apart(t.path, u.path)
Spread(v) == \A i, j \in DOMAIN v : i # j => Far(v[i].taps, v[j].taps)
Separate(S) == \A x, y \in S : x # y => Far(x.taps, y.taps)
Covers(X, y) == \A t \in y.taps : \E x \in X : \E u \in x.taps : Extends(t.path, u.path)

Tap == [stream : Stream, at : Nat, path : Seq(Nat)]
Points(V) == {Rest(t) : t \in Tap} \cup {Var(v) : v \in V}
Elems(v) == {v[i] : i \in DOMAIN v}

(* The vectors that goals stand for *)
Vecs == ins \cup bound
GoodVec(v, V) ==
  /\ v \in Seq(Points(V)) /\ v # <<>>
  /\ Spread(v)
  /\ TapsOf(v) \subseteq Tap /\ TapsOf(v) # {}
VecOK == \A v \in Vecs : GoodVec(v, Vecs)
TailOK == \A v \in bound : Len(v) > 1 => Tail(v) \in Vecs

Typed ==
  /\ fed \in [Stream -> Nat]
  /\ hooks \subseteq Points(Vecs) /\ IsFiniteSet(hooks)
  /\ goals \subseteq Points(Vecs) /\ IsFiniteSet(goals)
  /\ woken \subseteq Points(Vecs) /\ IsFiniteSet(woken)
  /\ term \in Points(Vecs) \cup {Nothing}
  /\ vec \in Seq(Points(Vecs))
  /\ room \in Nat /\ full \in BOOLEAN /\ ended \in BOOLEAN

Live == hooks \cup goals \cup woken \cup Called \cup Elems(vec)

Disjoint ==
  /\ hooks \cap goals = {} /\ hooks \cap woken = {} /\ goals \cap woken = {}
  /\ term \notin hooks \cup goals \cup woken
  /\ Elems(vec) \cap (hooks \cup goals \cup woken) = {}
  /\ term = Nothing \/ vec = <<>>

EndsRight == ended <=> count = 0

IInv ==
  /\ Typed /\ VecOK /\ TailOK
  /\ Separate(Live) /\ Spread(vec) /\ Disjoint
  /\ CountRight /\ EndsRight

-----------------------------------------------------------------------------
(* Paths *)
LEMMA ApartSym ==
  ASSUME NEW p, NEW q, Apart(p, q) PROVE Apart(q, p)
BY DEF Apart

LEMMA FarSym ==
  ASSUME NEW A, NEW B, Far(A, B) PROVE Far(B, A)
BY ApartSym DEF Far

LEMMA FarIrreflexive ==
  ASSUME NEW A, Far(A, A) PROVE A = {}
BY DEF Far, Apart

LEMMA ApartExtends ==
  ASSUME NEW p, NEW q, NEW r, Extends(p, q)
  PROVE  /\ Apart(q, r) => Apart(p, r)
         /\ ~Apart(p, q)
BY DEF Apart, Extends

LEMMA AppendExtends ==
  ASSUME NEW p \in Seq(Nat), NEW i \in Nat
  PROVE  Extends(Append(p, i), p) /\ Extends(p, p) /\ Append(p, i) \in Seq(Nat)
<1>1. DOMAIN p = 1..Len(p) /\ DOMAIN Append(p, i) = 1..(Len(p) + 1) /\ Len(p) \in Nat
  OBVIOUS
<1>2. \A j \in DOMAIN p : j \in DOMAIN Append(p, i) /\ Append(p, i)[j] = p[j]
  BY <1>1
<1> QED BY <1>2 DEF Extends

LEMMA ApartSiblings ==
  ASSUME NEW p \in Seq(Nat), NEW i \in Nat, NEW j \in Nat, i # j
  PROVE  Apart(Append(p, i), Append(p, j))
<1>1. Len(p) + 1 \in DOMAIN Append(p, i) \cap DOMAIN Append(p, j)
  OBVIOUS
<1>2. Append(p, i)[Len(p) + 1] = i /\ Append(p, j)[Len(p) + 1] = j
  OBVIOUS
<1> QED BY <1>1, <1>2 DEF Apart

-----------------------------------------------------------------------------
(* Terms *)
LEMMA RestFields ==
  ASSUME NEW t
  PROVE  /\ Rest(t).tap = t /\ Rest(t).taps = {t} /\ Rest(t).rest = <<>>
         /\ ~IsVar(Rest(t)) /\ Rest(t) # Nothing
<1>1. Rest(t).tap = t /\ Rest(t).taps = {t} /\ Rest(t).rest = <<>>
  BY DEF Rest
<1>2. Nothing.taps = {}
  BY DEF Nothing
<1> QED BY <1>1, <1>2 DEF IsVar

LEMMA VarFields ==
  ASSUME NEW v, v # <<>>
  PROVE  /\ Var(v).rest = v /\ Var(v).taps = TapsOf(v)
         /\ IsVar(Var(v)) /\ Var(v) # Nothing
<1>1. Var(v).rest = v /\ Var(v).taps = TapsOf(v)
  BY DEF Var
<1>2. Nothing.rest = <<>>
  BY DEF Nothing
<1> QED BY <1>1, <1>2 DEF IsVar

LEMMA PointCases ==
  ASSUME NEW V, \A v \in V : GoodVec(v, V), NEW x \in Points(V)
  PROVE  /\ x.taps \subseteq Tap /\ x.taps # {} /\ x # Nothing
         /\ IsVar(x) => x.rest \in V /\ x = Var(x.rest) /\ x.taps = TapsOf(x.rest)
         /\ ~IsVar(x) => x.tap \in Tap /\ x = Rest(x.tap) /\ x.taps = {x.tap}
<1>1. CASE \E t \in Tap : x = Rest(t)
  BY <1>1, RestFields
<1>2. CASE \E v \in V : x = Var(v)
  <2>1. PICK v \in V : x = Var(v)
    BY <1>2
  <2>2. v # <<>> /\ TapsOf(v) \subseteq Tap /\ TapsOf(v) # {}
    BY DEF GoodVec
  <2> QED BY <2>1, <2>2, VarFields
<1> QED BY <1>1, <1>2 DEF Points

LEMMA PointsMonotonic ==
  ASSUME NEW V, NEW W, V \subseteq W PROVE Points(V) \subseteq Points(W)
BY DEF Points

LEMMA TapsOfPoints ==
  ASSUME NEW V, \A v \in V : GoodVec(v, V), NEW v \in Seq(Points(V))
  PROVE  /\ TapsOf(v) \subseteq Tap
         /\ v # <<>> => TapsOf(v) # {}
         /\ \A i \in DOMAIN v : v[i].taps \subseteq TapsOf(v)
<1>1. \A i \in DOMAIN v : v[i] \in Points(V)
  OBVIOUS
<1>2. v # <<>> => 1 \in DOMAIN v
  OBVIOUS
<1> QED BY <1>1, <1>2, PointCases DEF TapsOf

LEMMA TapsOfParts ==
  ASSUME NEW S, NEW v \in Seq(S), v # <<>>
  PROVE  /\ TapsOf(v) = Head(v).taps \cup TapsOf(Tail(v))
         /\ Elems(v) = {Head(v)} \cup Elems(Tail(v))
         /\ Len(v) = 1 => TapsOf(v) = Head(v).taps
<1>1. /\ DOMAIN v = 1..Len(v) /\ DOMAIN Tail(v) = 1..(Len(v) - 1)
      /\ Head(v) = v[1] /\ Len(v) \in Nat \ {0}
      /\ \A i \in 1..(Len(v) - 1) : Tail(v)[i] = v[i + 1]
  OBVIOUS
<1>2. \A i \in DOMAIN v : i = 1 \/ (i - 1 \in DOMAIN Tail(v) /\ Tail(v)[i - 1] = v[i])
  BY <1>1
<1>3. \A i \in DOMAIN Tail(v) : i + 1 \in DOMAIN v /\ Tail(v)[i] = v[i + 1]
  BY <1>1
<1>4. 1 \in DOMAIN v
  BY <1>1
<1>5. TapsOf(v) = Head(v).taps \cup TapsOf(Tail(v))
  <2>1. ASSUME NEW t \in TapsOf(v) PROVE t \in Head(v).taps \cup TapsOf(Tail(v))
    BY <1>1, <1>2, ZenonT(60) DEF TapsOf
  <2>2. ASSUME NEW t \in TapsOf(Tail(v)) PROVE t \in TapsOf(v)
    BY <1>3 DEF TapsOf
  <2>3. ASSUME NEW t \in Head(v).taps PROVE t \in TapsOf(v)
    BY <1>1, <1>4 DEF TapsOf
  <2> QED BY <2>1, <2>2, <2>3
<1>6. Elems(v) = {Head(v)} \cup Elems(Tail(v))
  <2>1. ASSUME NEW x \in Elems(v) PROVE x \in {Head(v)} \cup Elems(Tail(v))
    BY <1>1, <1>2 DEF Elems
  <2>2. ASSUME NEW x \in Elems(Tail(v)) PROVE x \in Elems(v)
    BY <1>3 DEF Elems
  <2>3. Head(v) \in Elems(v)
    BY <1>1, <1>4 DEF Elems
  <2> QED BY <2>1, <2>2, <2>3
<1>7. Len(v) = 1 => TapsOf(Tail(v)) = {}
  BY <1>1 DEF TapsOf
<1> QED BY <1>5, <1>6, <1>7

LEMMA SpreadTail ==
  ASSUME NEW S, NEW v \in Seq(S), v # <<>>, Spread(v)
  PROVE  /\ Spread(Tail(v))
         /\ Far(Head(v).taps, TapsOf(Tail(v)))
<1>1. /\ DOMAIN v = 1..Len(v) /\ DOMAIN Tail(v) = 1..(Len(v) - 1)
      /\ Head(v) = v[1] /\ Len(v) \in Nat \ {0}
      /\ \A i \in 1..(Len(v) - 1) : Tail(v)[i] = v[i + 1]
  OBVIOUS
<1>2. \A i \in DOMAIN Tail(v) : i + 1 \in DOMAIN v /\ i + 1 # 1 /\ Tail(v)[i] = v[i + 1]
  BY <1>1
<1>3. 1 \in DOMAIN v
  BY <1>1
<1>4. Spread(Tail(v))
  <2> SUFFICES ASSUME NEW i \in DOMAIN Tail(v), NEW j \in DOMAIN Tail(v), i # j
               PROVE  Far(Tail(v)[i].taps, Tail(v)[j].taps)
    BY DEF Spread
  <2>1. i + 1 # j + 1
    BY <1>1
  <2> QED BY <2>1, <1>2 DEF Spread
<1>5. \A i \in DOMAIN Tail(v) : Far(Head(v).taps, Tail(v)[i].taps)
  BY <1>1, <1>2, <1>3 DEF Spread
<1> QED BY <1>4, <1>5 DEF Far, TapsOf

-----------------------------------------------------------------------------
(* Sets of terms *)
LEMMA SpreadSeparate ==
  ASSUME NEW v, Spread(v) PROVE Separate(Elems(v))
BY DEF Spread, Separate, Elems

LEMMA FarCovered ==
  ASSUME NEW X, NEW y, NEW z, Covers(X, y), \A x \in X : Far(x.taps, z.taps)
  PROVE  Far(y.taps, z.taps) /\ Far(z.taps, y.taps)
<1>1. Far(y.taps, z.taps)
  <2> SUFFICES ASSUME NEW t \in y.taps, NEW w \in z.taps PROVE Apart(t.path, w.path)
    BY DEF Far
  <2>1. PICK x \in X : \E u \in x.taps : Extends(t.path, u.path)
    BY DEF Covers
  <2>2. PICK u \in x.taps : Extends(t.path, u.path)
    BY <2>1
  <2>3. Apart(u.path, w.path)
    BY DEF Far
  <2> QED BY <2>2, <2>3, ApartExtends
<1> QED BY <1>1, FarSym

(* Terms that come in the place of others are separate from the rest, and new. *)
LEMMA Replace ==
  ASSUME NEW S, NEW X \in SUBSET S, NEW Y, Separate(S), Separate(Y),
         \A y \in Y : Covers(X, y) /\ y.taps # {}
  PROVE  Separate((S \ X) \cup Y) /\ (S \ X) \cap Y = {}
<1>1. \A y \in Y, z \in S \ X : Far(y.taps, z.taps) /\ Far(z.taps, y.taps)
  <2> SUFFICES ASSUME NEW y \in Y, NEW z \in S \ X
               PROVE  Far(y.taps, z.taps) /\ Far(z.taps, y.taps)
    OBVIOUS
  <2>1. \A x \in X : Far(x.taps, z.taps)
    BY DEF Separate
  <2> QED BY <2>1, FarCovered
<1>2. Separate((S \ X) \cup Y)
  BY <1>1 DEF Separate
<1>3. ASSUME NEW y \in Y, y \in S \ X PROVE FALSE
  BY <1>1, <1>3, FarIrreflexive
<1> QED BY <1>2, <1>3

LEMMA ReplaceOne ==
  ASSUME NEW S, NEW x \in S, NEW y, Separate(S), Covers({x}, y), y.taps # {}
  PROVE  Separate((S \ {x}) \cup {y}) /\ y \notin S \ {x}
<1>1. \A z \in S \ {x} : Far(x.taps, z.taps)
  BY DEF Separate
<1>2. \A z \in S \ {x} : Far(y.taps, z.taps) /\ Far(z.taps, y.taps)
  BY <1>1, FarCovered
<1>3. Separate((S \ {x}) \cup {y})
  BY <1>2 DEF Separate
<1>4. y \notin S \ {x}
  BY <1>2, FarIrreflexive
<1> QED BY <1>3, <1>4

(* The inputs that terms stand for *)
All(S) == UNION {x.taps : x \in S}

LEMMA AllOfOne ==
  /\ \A x : All({x}) = x.taps
  /\ \A v : All(Elems(v)) = TapsOf(v)
  /\ \A S, T : All(S \cup T) = All(S) \cup All(T)
<1>1. \A x : All({x}) = x.taps
  BY DEF All
<1>2. \A v : All(Elems(v)) = TapsOf(v)
  BY DEF All, Elems, TapsOf
<1>3. \A S, T : All(S \cup T) = All(S) \cup All(T)
  BY DEF All
<1> QED BY <1>1, <1>2, <1>3

LEMMA Exchange ==
  ASSUME NEW S, NEW X, X \subseteq S, NEW Y, All(Y) = All(X)
  PROVE  All((S \ X) \cup Y) = All(S)
<1>1. S = (S \ X) \cup X
  OBVIOUS
<1>2. All(S) = All(S \ X) \cup All(X)
  BY <1>1, AllOfOne
<1>3. All((S \ X) \cup Y) = All(S \ X) \cup All(Y)
  BY AllOfOne
<1> QED BY <1>2, <1>3

LEMMA TakeOut ==
  ASSUME NEW S, NEW x \in S, NEW Y, Separate(S)
  PROVE  All((S \ {x}) \cup Y) = (All(S) \ x.taps) \cup All(Y)
<1>1. \A y \in S \ {x} : y.taps \cap x.taps = {}
  BY DEF Separate, Far, Apart
<1>2. All(S \ {x}) = All(S) \ x.taps
  BY <1>1 DEF All
<1>3. All((S \ {x}) \cup Y) = All(S \ {x}) \cup All(Y)
  BY AllOfOne
<1> QED BY <1>2, <1>3

LEMMA CardinalityAdd ==
  ASSUME NEW S, IsFiniteSet(S), NEW x, x \notin S
  PROVE  IsFiniteSet(S \cup {x}) /\ Cardinality(S \cup {x}) = Cardinality(S) + 1
BY FS_AddElement

LEMMA CardinalityRemove ==
  ASSUME NEW S, IsFiniteSet(S), NEW x \in S
  PROVE  /\ IsFiniteSet(S \ {x}) /\ Cardinality(S) = Cardinality(S \ {x}) + 1
         /\ Cardinality(S \ {x}) \in Nat
<1>1. IsFiniteSet(S \ {x})
  BY FS_RemoveElement
<1>2. Cardinality(S \ {x}) \in Nat
  BY <1>1, FS_CardinalityType
<1>3. (S \ {x}) \cup {x} = S
  OBVIOUS
<1> QED BY <1>1, <1>2, <1>3, FS_AddElement

LEMMA CardinalitySplit ==
  ASSUME NEW S, IsFiniteSet(S), NEW T \in SUBSET S
  PROVE  /\ IsFiniteSet(T) /\ IsFiniteSet(S \ T)
         /\ Cardinality(S) = Cardinality(S \ T) + Cardinality(T)
<1>1. IsFiniteSet(T) /\ IsFiniteSet(S \ T)
  BY FS_Subset
<1>2. (S \ T) \cup T = S /\ (S \ T) \cap T = {}
  OBVIOUS
<1>3. Cardinality(S) = Cardinality(S \ T) + Cardinality(T) - Cardinality({})
  BY <1>1, <1>2, FS_Union
<1>4. Cardinality({}) = 0 /\ Cardinality(S \ T) \in Nat /\ Cardinality(T) \in Nat
  BY <1>1, FS_EmptySet, FS_CardinalityType
<1> QED BY <1>1, <1>3, <1>4

LEMMA CardinalitySingle ==
  ASSUME NEW x PROVE IsFiniteSet({x}) /\ Cardinality({x}) = 1 /\ IsFiniteSet({}) /\ Cardinality({}) = 0
BY FS_Singleton, FS_EmptySet

-----------------------------------------------------------------------------
(* What the invariant says of the terms and of the count *)
LEMMA EmptyVector ==
  Elems(<<>>) = {} /\ TapsOf(<<>>) = {} /\ Spread(<<>>) /\ Len(<<>>) = 0
BY DEF Elems, TapsOf, Spread

LEMMA LivePoints ==
  ASSUME IInv, NEW x \in Live
  PROVE  /\ x \in Points(Vecs)
         /\ x.taps \subseteq Tap /\ x.taps # {} /\ x # Nothing
         /\ IsVar(x) => x.rest \in Vecs /\ x = Var(x.rest) /\ x.taps = TapsOf(x.rest)
         /\ ~IsVar(x) => x.tap \in Tap /\ x = Rest(x.tap) /\ x.taps = {x.tap}
<1>1. x \in Points(Vecs)
  <2>1. \A i \in DOMAIN vec : vec[i] \in Points(Vecs)
    BY DEF IInv, Typed
  <2> QED BY <2>1 DEF IInv, Typed, Live, Called, Elems
<1> QED BY <1>1, PointCases DEF IInv, VecOK

LEMMA CalledNumber ==
  /\ term = Nothing => Called = {} /\ Cardinality(Called) = 0
  /\ term # Nothing => Called = {term} /\ Cardinality(Called) = 1
BY CardinalitySingle DEF Called

LEMMA Numbers ==
  ASSUME IInv
  PROVE  /\ Cardinality(hooks) \in Nat /\ Cardinality(goals) \in Nat
         /\ Cardinality(woken) \in Nat /\ Len(vec) \in Nat /\ count \in Nat
         /\ Live # {} => count > 0
         /\ Live = {} => count = 0
<1>1. /\ Cardinality(hooks) \in Nat /\ Cardinality(goals) \in Nat
      /\ Cardinality(woken) \in Nat
      /\ Cardinality(hooks) = 0 <=> hooks = {}
      /\ Cardinality(goals) = 0 <=> goals = {}
      /\ Cardinality(woken) = 0 <=> woken = {}
  BY FS_CardinalityType, FS_EmptySet DEF IInv, Typed
<1>2. Len(vec) \in Nat /\ (Len(vec) = 0 <=> Elems(vec) = {})
  <2>1. Len(vec) \in Nat /\ DOMAIN vec = 1..Len(vec)
    BY DEF IInv, Typed
  <2>2. Len(vec) # 0 => 1 \in DOMAIN vec
    BY <2>1
  <2>3. Len(vec) = 0 => DOMAIN vec = {}
    BY <2>1
  <2> QED BY <2>1, <2>2, <2>3 DEF Elems
<1>3. Cardinality(Called) \in Nat /\ (Cardinality(Called) = 0 <=> Called = {})
  BY CalledNumber
<1>4. count = Cardinality(hooks) + Cardinality(goals) + Cardinality(woken)
                + Cardinality(Called) + Len(vec)
  BY DEF IInv, CountRight
<1>5. Live = {} <=> hooks = {} /\ goals = {} /\ woken = {} /\ Called = {} /\ Elems(vec) = {}
  BY DEF Live
<1> QED BY <1>1, <1>2, <1>3, <1>4, <1>5

SumsUp(a, b, c, d, e, h, g, w, t, v) ==
  (a + b + c + d + e) + h + g + w + t + v = (a + h) + (b + g) + (c + w) + (d + t) + (e + v)

LEMMA Sums ==
  ASSUME NEW a \in Int, NEW b \in Int, NEW c \in Int, NEW d \in Int, NEW e \in Int,
         NEW h \in Int, NEW g \in Int, NEW w \in Int, NEW t \in Int, NEW v \in Int
  PROVE  SumsUp(a, b, c, d, e, h, g, w, t, v)
BY DEF SumsUp

LEMMA Recount ==
  ASSUME IInv,
         NEW h \in Int, Cardinality(hooks') = Cardinality(hooks) + h,
         NEW g \in Int, Cardinality(goals') = Cardinality(goals) + g,
         NEW w \in Int, Cardinality(woken') = Cardinality(woken) + w,
         NEW t \in Int, Cardinality(Called') = Cardinality(Called) + t,
         NEW v \in Int, Len(vec') = Len(vec) + v,
         count' = count + h + g + w + t + v
  PROVE  CountRight'
<1>1. /\ Cardinality(Called) \in Int /\ Cardinality(hooks) \in Int /\ Cardinality(goals) \in Int
      /\ Cardinality(woken) \in Int /\ Len(vec) \in Int
  BY CalledNumber, Numbers
<1>2. count = Cardinality(hooks) + Cardinality(goals) + Cardinality(woken)
                + Cardinality(Called) + Len(vec)
  BY DEF IInv, CountRight
<1>3. SumsUp(Cardinality(hooks), Cardinality(goals), Cardinality(woken), Cardinality(Called),
             Len(vec), h, g, w, t, v)
  BY <1>1, Sums, ZenonT(60)
<1> QED BY <1>2, <1>3, ZenonT(60) DEF SumsUp, CountRight

LEMMA InitInv == Init => IInv
<1> SUFFICES ASSUME Init PROVE IInv
  OBVIOUS
<1> DEFINE r == Rest(Input(Root, <<>>))
<1>1. Input(Root, <<>>) \in Tap
  BY StreamAssumption DEF Input, Tap
<1>2. r \in Points({}) /\ r # Nothing
  BY <1>1, RestFields DEF Points
<1>3. Vecs = {} /\ goals = {r}
  BY DEF Init, Vecs
<1>4. Typed
  <2>1. vec \in Seq(Points(Vecs))
    BY DEF Init
  <2>2. room \in Nat
    BY RoomAssumption DEF Init
  <2>3. fed \in [Stream -> Nat]
    BY DEF Init
  <2> QED BY <1>2, <1>3, <2>1, <2>2, <2>3, CardinalitySingle DEF Init, Typed
<1>5. VecOK /\ TailOK
  BY <1>3 DEF VecOK, TailOK, Init
<1>6. Live = {r}
  BY <1>3, EmptyVector DEF Live, Called, Init
<1>7. Separate(Live) /\ Spread(vec) /\ Disjoint
  BY <1>2, <1>3, <1>6, EmptyVector DEF Separate, Init, Disjoint
<1>8. CountRight /\ EndsRight
  <2>1. Cardinality(hooks) = 0 /\ Cardinality(goals) = 1 /\ Cardinality(woken) = 0
    BY <1>3, CardinalitySingle DEF Init
  <2>2. Cardinality(Called) = 0
    BY CalledNumber DEF Called, Init
  <2>3. Len(vec) = 0 /\ count = 1 /\ ended = FALSE
    BY EmptyVector DEF Init
  <2> QED BY <2>1, <2>2, <2>3 DEF CountRight, EndsRight
<1> QED BY <1>4, <1>5, <1>7, <1>8 DEF IInv

-----------------------------------------------------------------------------
(* Every step preserves the invariant, and most of them the inputs. *)
Keeps == All(Live') = All(Live)

LEMMA ProduceInv ==
  ASSUME IInv, NEW s \in Stream, Produce(s) PROVE IInv' /\ Keeps
<1>1. Vecs' = Vecs /\ bound' = bound /\ woken = {} /\ term = Nothing /\ vec = <<>>
  BY DEF Produce, Vecs, Reducing, BetweenGoals
<1>2. VecOK' /\ TailOK'
  BY <1>1 DEF VecOK, TailOK, IInv
<1>3. woken' \in SUBSET hooks /\ hooks' = hooks \ woken'
  BY DEF Produce
<1>4. /\ IsFiniteSet(woken') /\ IsFiniteSet(hooks')
      /\ Cardinality(hooks) = Cardinality(hooks') + Cardinality(woken')
  BY <1>3, CardinalitySplit DEF IInv, Typed
<1>5. Typed'
  <2>1. fed' \in [Stream -> Nat]
    BY DEF Produce, IInv, Typed
  <2> QED BY <1>1, <1>3, <1>4, <2>1 DEF Typed, IInv, Produce, self, heap
<1>6. Live' = Live
  BY <1>1, <1>3 DEF Live, Called, Produce
<1>7. Separate(Live') /\ Spread(vec') /\ Disjoint'
  BY <1>1, <1>3, <1>6, EmptyVector DEF IInv, Disjoint, Produce
<1>8. Cardinality(woken) = 0 /\ Cardinality(hooks') \in Nat /\ Cardinality(woken') \in Nat
  BY <1>1, <1>4, CardinalitySingle, FS_CardinalityType
<1>9. CountRight' /\ EndsRight'
  <2>1. Cardinality(hooks') = Cardinality(hooks) + (-Cardinality(woken'))
    BY <1>4, <1>8, Numbers
  <2>2. Cardinality(woken') = Cardinality(woken) + Cardinality(woken')
    BY <1>8
  <2>3. Cardinality(goals') = Cardinality(goals) + 0 /\ Len(vec') = Len(vec) + 0
    BY Numbers DEF Produce
  <2>4. Cardinality(Called') = Cardinality(Called) + 0
    BY CalledNumber DEF Produce, Called
  <2>5. count' = count + (-Cardinality(woken')) + 0 + Cardinality(woken') + 0 + 0
    BY <1>8, Numbers DEF Produce, self
  <2>6. CountRight'
    BY <1>8, <2>1, <2>2, <2>3, <2>4, <2>5, Recount
  <2> QED BY <2>6 DEF IInv, EndsRight, Produce, self
<1> QED BY <1>2, <1>5, <1>6, <1>7, <1>9 DEF IInv, Keeps

LEMMA UnifyGoalInv ==
  ASSUME IInv, NEW x, UnifyGoal(x) PROVE IInv' /\ Keeps
<1>1. /\ Vecs' = Vecs /\ bound' = bound /\ woken = {} /\ term = Nothing /\ vec = <<>>
      /\ term' = term /\ vec' = vec /\ x \in goals /\ x \in Live /\ fed' = fed
      /\ count' = count /\ ended' = ended /\ room' = room /\ full' = full
  BY DEF UnifyGoal, Vecs, Reducing, BetweenGoals, Live, Called, self, heap
<1>2. VecOK' /\ TailOK' /\ EndsRight' /\ Spread(vec')
  BY <1>1 DEF VecOK, TailOK, EndsRight, IInv
<1>3. /\ IsFiniteSet(goals \ {x}) /\ Cardinality(goals) = Cardinality(goals \ {x}) + 1
      /\ Cardinality(goals \ {x}) \in Nat
  BY <1>1, CardinalityRemove DEF IInv, Typed
<1>4. Cardinality(woken) = 0 /\ Elems(vec) = {}
  BY <1>1, CardinalitySingle, EmptyVector
<1>5. CASE ~IsBound(x)
  <2>1. goals' = goals \ {x} /\ hooks' = hooks \cup {x} /\ woken' = woken
    BY <1>5 DEF UnifyGoal
  <2>2. x \notin hooks
    BY <1>1 DEF IInv, Disjoint
  <2>3. IsFiniteSet(hooks') /\ Cardinality(hooks') = Cardinality(hooks) + 1
    BY <2>1, <2>2, CardinalityAdd DEF IInv, Typed
  <2>4. Typed'
    BY <1>1, <1>3, <2>1, <2>3 DEF IInv, Typed
  <2>5. Live' = Live
    BY <1>1, <2>1 DEF Live, Called
  <2>6. Disjoint'
    BY <1>1, <1>4, <2>1, <2>2 DEF IInv, Disjoint
  <2>7. CountRight'
    <3>1. Cardinality(goals') = Cardinality(goals) + (-1)
      BY <1>3, <2>1, Numbers
    <3>2. Cardinality(Called') = Cardinality(Called) + 0 /\ Len(vec') = Len(vec) + 0
      BY <1>1, CalledNumber, Numbers DEF Called
    <3>3. Cardinality(woken') = Cardinality(woken) + 0
      BY <2>1, Numbers
    <3> QED BY <1>1, <2>3, <3>1, <3>2, <3>3, Numbers, Recount
  <2> QED BY <1>2, <2>4, <2>5, <2>6, <2>7 DEF IInv, Keeps
<1>6. CASE IsBound(x) /\ IsAlias(x)
  <2> DEFINE e == Head(x.rest)
  <2>1. goals' = (goals \ {x}) \cup {e} /\ hooks' = hooks /\ woken' = woken
    BY <1>6 DEF UnifyGoal
  <2>2. x.rest \in Vecs /\ x.taps = TapsOf(x.rest) /\ x.taps # {} /\ Len(x.rest) = 1
    BY <1>1, <1>6, LivePoints DEF IsAlias
  <2>3. x.rest \in Seq(Points(Vecs)) /\ x.rest # <<>>
    BY <2>2 DEF IInv, VecOK, GoodVec
  <2>4. e.taps = x.taps /\ e \in Points(Vecs)
    BY <2>2, <2>3, TapsOfParts
  <2>5. Covers({x}, e) /\ e.taps # {}
    BY <2>2, <2>4 DEF Covers, Extends
  <2>6. Separate((Live \ {x}) \cup {e}) /\ e \notin Live \ {x}
    <3>1. Separate(Live) /\ x \in Live
      BY <1>1 DEF IInv
    <3> QED BY <2>5, <3>1, ReplaceOne, ZenonT(60)
  <2>7. x \notin hooks /\ e \notin goals \ {x} /\ e \notin hooks
    BY <1>1, <2>6 DEF IInv, Disjoint, Live, Called
  <2>8. Live' = (Live \ {x}) \cup {e}
    BY <1>1, <1>4, <2>1, <2>7 DEF Live, Called
  <2>9. IsFiniteSet(goals') /\ Cardinality(goals') = Cardinality(goals)
    BY <1>3, <2>1, <2>7, CardinalityAdd
  <2>10. Typed'
    BY <1>1, <2>1, <2>4, <2>9 DEF IInv, Typed
  <2>11. e # Nothing
    BY <2>5 DEF Nothing
  <2>12. Disjoint'
    BY <1>1, <1>4, <2>1, <2>7, <2>11 DEF IInv, Disjoint
  <2>13. CountRight'
    <3>1. Cardinality(Called') = Cardinality(Called) + 0 /\ Len(vec') = Len(vec) + 0
      BY <1>1, CalledNumber, Numbers DEF Called
    <3>2. /\ Cardinality(woken') = Cardinality(woken) + 0 /\ Cardinality(hooks') = Cardinality(hooks) + 0
          /\ Cardinality(goals') = Cardinality(goals) + 0
      BY <2>1, <2>9, Numbers
    <3> QED BY <1>1, <3>1, <3>2, Numbers, Recount
  <2>14. Keeps
    <3>1. All({e}) = All({x}) /\ {x} \subseteq Live
      BY <1>1, <2>4, AllOfOne
    <3> QED BY <2>8, <3>1, Exchange DEF Keeps
  <2> QED BY <1>2, <2>6, <2>8, <2>10, <2>12, <2>13, <2>14 DEF IInv
<1>7. CASE IsBound(x) /\ ~IsAlias(x)
  <2>1. goals' = goals \ {x} /\ woken' = {x} /\ hooks' = hooks
    BY <1>7 DEF UnifyGoal
  <2>2. IsFiniteSet(woken') /\ Cardinality(woken') = 1
    BY <2>1, CardinalitySingle
  <2>3. Typed'
    BY <1>1, <1>3, <2>1, <2>2 DEF IInv, Typed
  <2>4. Live' = Live
    BY <1>1, <2>1 DEF Live, Called
  <2>5. Disjoint'
    <3>1. x # Nothing
      BY <1>1, LivePoints
    <3> QED BY <1>1, <1>4, <2>1, <3>1 DEF IInv, Disjoint
  <2>6. CountRight'
    <3>1. Cardinality(goals') = Cardinality(goals) + (-1)
      BY <1>3, <2>1, Numbers
    <3>2. Cardinality(Called') = Cardinality(Called) + 0 /\ Len(vec') = Len(vec) + 0
      BY <1>1, CalledNumber, Numbers DEF Called
    <3>3. Cardinality(woken') = Cardinality(woken) + 1
      BY <1>4, <2>2
    <3>4. Cardinality(hooks') = Cardinality(hooks) + 0
      BY <2>1, Numbers
    <3> QED BY <1>1, <3>1, <3>2, <3>3, <3>4, Numbers, Recount
  <2> QED BY <1>2, <2>3, <2>4, <2>5, <2>6 DEF IInv, Keeps
<1> QED BY <1>5, <1>6, <1>7

LEMMA VecsGrow ==
  ASSUME NEW V, \A v \in V : GoodVec(v, V), NEW w, GoodVec(w, V), NEW W, W = V \cup {w}
  PROVE  /\ \A v \in W : GoodVec(v, W)
         /\ Points(V) \subseteq Points(W) /\ Var(w) \in Points(W)
<1>1. Points(V) \subseteq Points(W)
  BY PointsMonotonic
<1>2. \A v : v \in Seq(Points(V)) => v \in Seq(Points(W))
  BY <1>1, SeqMonotonic
<1> QED BY <1>1, <1>2 DEF GoodVec, Points

LEMMA TailGood ==
  ASSUME NEW V, \A v \in V : GoodVec(v, V), NEW v, GoodVec(v, V), Len(v) > 1
  PROVE  GoodVec(Tail(v), V)
<1>1. v \in Seq(Points(V)) /\ v # <<>> /\ Spread(v)
  BY DEF GoodVec
<1>2. Tail(v) \in Seq(Points(V)) /\ Tail(v) # <<>>
  <2>1. Tail(v) \in Seq(Points(V)) /\ Len(Tail(v)) = Len(v) - 1 /\ Len(v) \in Nat
    BY <1>1, HeadTailProperties
  <2>2. Len(<<>>) = 0
    OBVIOUS
  <2>3. Len(v) - 1 # 0
    BY <2>1
  <2> QED BY <2>1, <2>2, <2>3
<1>3. Spread(Tail(v))
  BY <1>1, SpreadTail
<1>4. TapsOf(Tail(v)) \subseteq Tap /\ TapsOf(Tail(v)) # {}
  BY <1>2, TapsOfPoints
<1> QED BY <1>2, <1>3, <1>4 DEF GoodVec

LEMMA InPairInv ==
  ASSUME IInv, NEW v, InPair(v) PROVE IInv' /\ Keeps
<1>1. /\ v \in ins /\ Len(v) > 1 /\ ins' = (ins \ {v}) \cup {Tail(v)} /\ bound' = bound \cup {v}
      /\ woken' = hooks \cap {Var(v)} /\ hooks' = hooks \ {Var(v)}
      /\ woken = {} /\ term = Nothing /\ vec = <<>> /\ term' = term /\ vec' = vec
      /\ fed' = fed /\ goals' = goals
      /\ count' = count /\ ended' = ended /\ room' = room /\ full' = full
  BY DEF InPair, Reducing, BetweenGoals, self, heap
<1>2. Vecs' = Vecs \cup {Tail(v)} /\ v \in Vecs
  BY <1>1 DEF Vecs
<1>3. GoodVec(Tail(v), Vecs)
  BY <1>1, <1>2, TailGood DEF IInv, VecOK
<1>4. VecOK' /\ Points(Vecs) \subseteq Points(Vecs')
  BY <1>2, <1>3, VecsGrow DEF IInv, VecOK
<1>5. TailOK'
  BY <1>1, <1>2 DEF IInv, TailOK
<1>6. woken' \in SUBSET hooks /\ hooks' = hooks \ woken'
  BY <1>1
<1>7. /\ IsFiniteSet(woken') /\ IsFiniteSet(hooks')
      /\ Cardinality(hooks) = Cardinality(hooks') + Cardinality(woken')
  BY <1>6, CardinalitySplit DEF IInv, Typed
<1>8. Typed'
  <2>1. vec' \in Seq(Points(Vecs'))
    BY <1>1
  <2> QED BY <1>1, <1>4, <1>6, <1>7, <2>1 DEF Typed, IInv
<1>9. Live' = Live
  BY <1>1, <1>6 DEF Live, Called
<1>10. Separate(Live') /\ Spread(vec') /\ Disjoint'
  BY <1>1, <1>6, <1>9, EmptyVector DEF IInv, Disjoint
<1>11. Cardinality(woken) = 0 /\ Cardinality(hooks') \in Nat /\ Cardinality(woken') \in Nat
  BY <1>1, <1>7, CardinalitySingle, FS_CardinalityType
<1>12. CountRight' /\ EndsRight'
  <2>1. Cardinality(hooks') = Cardinality(hooks) + (-Cardinality(woken'))
    BY <1>7, <1>11, Numbers
  <2>2. Cardinality(woken') = Cardinality(woken) + Cardinality(woken')
    BY <1>11
  <2>3. Cardinality(goals') = Cardinality(goals) + 0 /\ Len(vec') = Len(vec) + 0
    BY <1>1, Numbers
  <2>4. Cardinality(Called') = Cardinality(Called) + 0
    BY <1>1, CalledNumber DEF Called
  <2>5. count' = count + (-Cardinality(woken')) + 0 + Cardinality(woken') + 0 + 0
    BY <1>1, <1>11, Numbers
  <2>6. CountRight'
    BY <1>11, <2>1, <2>2, <2>3, <2>4, <2>5, Recount
  <2> QED BY <1>1, <2>6 DEF IInv, EndsRight
<1> QED BY <1>4, <1>5, <1>8, <1>9, <1>10, <1>12 DEF IInv, Keeps

LEMMA InLastInv ==
  ASSUME IInv, NEW v, InLast(v) PROVE IInv' /\ Keeps
<1>1. /\ v \in ins /\ Len(v) = 1 /\ ins' = ins \ {v} /\ bound' = bound \cup {v}
      /\ woken = {} /\ term = Nothing /\ vec = <<>> /\ term' = term /\ vec' = vec
      /\ fed' = fed /\ woken' = woken
      /\ count' = count /\ ended' = ended /\ room' = room /\ full' = full
  BY DEF InLast, Reducing, BetweenGoals, calls, self, heap
<1>2. Vecs' = Vecs /\ v \in Vecs
  BY <1>1 DEF Vecs
<1>3. VecOK' /\ TailOK' /\ EndsRight' /\ Spread(vec')
  <2>1. VecOK' /\ EndsRight' /\ Spread(vec')
    BY <1>1, <1>2 DEF IInv, VecOK, EndsRight
  <2>2. ~(Len(v) > 1)
    BY <1>1
  <2>3. TailOK'
    BY <1>1, <1>2, <2>2 DEF IInv, TailOK
  <2> QED BY <2>1, <2>3
<1>4. Elems(vec) = {}
  BY <1>1, EmptyVector
<1>5. CASE Var(v) \notin hooks
  <2>1. hooks' = hooks /\ goals' = goals
    BY <1>5 DEF InLast
  <2>2. Live' = Live /\ Typed' /\ Disjoint' /\ CountRight'
    BY <1>1, <1>2, <2>1 DEF IInv, Live, Called, Typed, Disjoint, CountRight
  <2> QED BY <1>3, <2>2 DEF IInv, Keeps
<1>6. CASE Var(v) \in hooks
  <2> DEFINE x == Var(v)
             e == Head(v)
  <2>1. hooks' = hooks \ {x} /\ goals' = goals \cup {e}
    BY <1>6 DEF InLast
  <2>2. v \in Seq(Points(Vecs)) /\ v # <<>> /\ x \in Live
    BY <1>2, <1>6 DEF IInv, VecOK, GoodVec, Live
  <2>3. x.taps = TapsOf(v) /\ x.taps # {}
    BY <1>2, <2>2, VarFields DEF IInv, VecOK, GoodVec
  <2>4. e.taps = x.taps /\ e \in Points(Vecs)
    BY <1>1, <2>2, <2>3, TapsOfParts
  <2>5. Covers({x}, e) /\ e.taps # {}
    BY <2>3, <2>4 DEF Covers, Extends
  <2>6. Separate((Live \ {x}) \cup {e}) /\ e \notin Live \ {x}
    <3>1. Separate(Live) /\ x \in Live
      BY <2>2 DEF IInv
    <3> QED BY <2>5, <3>1, ReplaceOne, ZenonT(60)
  <2>7. x \notin goals /\ e \notin goals /\ e \notin hooks \ {x}
    BY <1>6, <2>6 DEF IInv, Disjoint, Live, Called
  <2>8. Live' = (Live \ {x}) \cup {e}
    BY <1>1, <1>4, <1>6, <2>1, <2>7 DEF Live, Called
  <2>9. /\ IsFiniteSet(goals') /\ Cardinality(goals') = Cardinality(goals) + 1
        /\ IsFiniteSet(hooks') /\ Cardinality(hooks') = Cardinality(hooks) + (-1)
    <3>1. IsFiniteSet(goals') /\ Cardinality(goals') = Cardinality(goals) + 1
      BY <2>1, <2>7, CardinalityAdd DEF IInv, Typed
    <3>2. IsFiniteSet(hooks') /\ Cardinality(hooks) = Cardinality(hooks') + 1 /\ Cardinality(hooks') \in Nat
      BY <1>6, <2>1, CardinalityRemove DEF IInv, Typed
    <3> QED BY <3>1, <3>2, Numbers
  <2>10. Typed'
    BY <1>1, <1>2, <2>1, <2>4, <2>9 DEF IInv, Typed
  <2>11. e # Nothing
    BY <2>5 DEF Nothing
  <2>12. Disjoint'
    BY <1>1, <1>4, <2>1, <2>7, <2>11 DEF IInv, Disjoint
  <2>13. CountRight'
    <3>1. Cardinality(Called') = Cardinality(Called) + 0 /\ Len(vec') = Len(vec) + 0
      BY <1>1, CalledNumber, Numbers DEF Called
    <3>2. Cardinality(woken') = Cardinality(woken) + 0
      BY <1>1, Numbers
    <3>3. count' = count + (-1) + 1 + 0 + 0 + 0
      BY <1>1, Numbers
    <3> QED BY <2>9, <3>1, <3>2, <3>3, Recount
  <2>14. Keeps
    <3>1. All({e}) = All({x}) /\ {x} \subseteq Live
      BY <2>2, <2>4, AllOfOne
    <3> QED BY <2>8, <3>1, Exchange DEF Keeps
  <2> QED BY <1>3, <2>6, <2>8, <2>10, <2>12, <2>13, <2>14 DEF IInv
<1> QED BY <1>5, <1>6

LEMMA CollectInv ==
  ASSUME IInv, Collect PROVE IInv' /\ Keeps
<1>1. /\ hooks' = hooks /\ goals' = goals /\ ins' = ins /\ bound' = bound /\ fed' = fed
      /\ woken' = woken /\ term' = term /\ vec' = vec /\ count' = count /\ ended' = ended
      /\ room' \in Nat /\ full' = FALSE
  BY RoomAssumption DEF Collect, calls, self, ConsSize
<1>2. Vecs' = Vecs /\ Live' = Live
  BY <1>1 DEF Vecs, Live, Called
<1> QED BY <1>1, <1>2 DEF IInv, Typed, VecOK, TailOK, Disjoint, CountRight, EndsRight, Called,
                          Keeps

LEMMA ActiveUnifyInv ==
  ASSUME IInv, NEW x, ActiveUnify(x) PROVE IInv' /\ Keeps
<1>1. /\ hooks' = hooks /\ goals' = goals /\ ins' = ins /\ bound' = bound /\ fed' = fed
      /\ x \in woken /\ woken' = woken \ {x} /\ term = Nothing /\ term' = x
      /\ vec = <<>> /\ vec' = vec /\ count' = count /\ ended' = ended
      /\ room' = room /\ full' = full
  BY DEF ActiveUnify, self, heap
<1>2. Vecs' = Vecs
  BY <1>1 DEF Vecs
<1>3. x \in Live /\ x # Nothing
  BY <1>1, LivePoints DEF Live
<1>4. /\ IsFiniteSet(woken') /\ Cardinality(woken) = Cardinality(woken') + 1
      /\ Cardinality(woken') \in Nat
  BY <1>1, CardinalityRemove DEF IInv, Typed
<1>5. Typed'
  BY <1>1, <1>2, <1>4 DEF IInv, Typed
<1>6. Live' = Live
  BY <1>1, <1>3 DEF Live, Called
<1>7. Disjoint'
  BY <1>1, EmptyVector DEF IInv, Disjoint
<1>8. CountRight'
  <2>1. Cardinality(woken') = Cardinality(woken) + (-1)
    BY <1>4, Numbers
  <2>2. Cardinality(Called') = Cardinality(Called) + 1
    <3>1. Called' = {x} /\ Called = {}
      BY <1>1, <1>3, Zenon DEF Called
    <3>2. Cardinality(Called') = 1 /\ Cardinality(Called) = 0
      BY <3>1, CardinalitySingle
    <3> QED BY <3>2
  <2>3. /\ Cardinality(hooks') = Cardinality(hooks) + 0 /\ Cardinality(goals') = Cardinality(goals) + 0
        /\ Len(vec') = Len(vec) + 0
    BY <1>1, Numbers
  <2>4. count' = count + 0 + 0 + (-1) + 1 + 0
    BY <1>1, Numbers
  <2> QED BY <2>1, <2>2, <2>3, <2>4, Recount
<1> QED BY <1>1, <1>2, <1>5, <1>6, <1>7, <1>8 DEF IInv, Keeps, VecOK, TailOK, EndsRight

LEMMA ListInv ==
  ASSUME IInv, List
  PROVE  /\ IInv'
         /\ All(Live') = (All(Live) \ {term.tap}) \cup {[term.tap EXCEPT !.at = @ + 1]}
         /\ term.tap \in All(Live)
<1> DEFINE t == [term.tap EXCEPT !.at = @ + 1]
<1>1. /\ hooks' = hooks /\ goals' = goals /\ ins' = ins /\ bound' = bound /\ fed' = fed
      /\ woken' = woken /\ term # Nothing /\ ~IsVar(term) /\ term' = Rest(t)
      /\ vec' = vec /\ count' = count /\ ended' = ended
      /\ room >= ConsSize /\ room' = room - ConsSize /\ full' = full
  BY DEF List, Allocate, IsCons
<1>2. Vecs' = Vecs /\ vec = <<>> /\ term \in Live
  BY <1>1 DEF Vecs, IInv, Disjoint, Live, Called
<1>3. term.tap \in Tap /\ term.taps = {term.tap}
  BY <1>1, <1>2, LivePoints
<1>4. t \in Tap /\ t.path = term.tap.path
  <2>1. PICK a \in Stream, n \in Nat, p \in Seq(Nat) :
          term.tap = [stream |-> a, at |-> n, path |-> p]
    BY <1>3 DEF Tap
  <2>2. t = [stream |-> a, at |-> n + 1, path |-> p]
    BY <2>1
  <2> QED BY <2>1, <2>2 DEF Tap
<1>5. Rest(t) \in Points(Vecs) /\ Rest(t).taps = {t} /\ Rest(t) # Nothing
  BY <1>4, RestFields DEF Points
<1>6. Covers({term}, Rest(t))
  BY <1>3, <1>4, <1>5 DEF Covers, Extends
<1>7. Separate((Live \ {term}) \cup {Rest(t)}) /\ Rest(t) \notin Live \ {term}
  <2>1. Separate(Live) /\ Rest(t).taps # {} /\ term \in Live
    BY <1>2, <1>5 DEF IInv
  <2> QED BY <1>6, <2>1, ReplaceOne, ZenonT(60)
<1> HIDE DEF t
<1>8. Elems(vec) = {} /\ term \notin hooks \cup goals \cup woken
  BY <1>2, EmptyVector DEF IInv, Disjoint
<1>9. Live' = (Live \ {term}) \cup {Rest(t)} /\ Rest(t) \notin hooks \cup goals \cup woken
  BY <1>1, <1>2, <1>5, <1>7, <1>8 DEF Live, Called
<1>10. Typed'
  <2>1. room' \in Nat
    BY <1>1 DEF IInv, Typed, ConsSize
  <2> QED BY <1>1, <1>2, <1>5, <2>1 DEF IInv, Typed
<1>11. Disjoint'
  BY <1>1, <1>2, <1>8, <1>9 DEF IInv, Disjoint
<1>12. CountRight'
  <2>1. Cardinality(Called') = Cardinality(Called) + 0
    <3>1. Called' = {Rest(t)} /\ Called = {term}
      BY <1>1, <1>5, Zenon DEF Called
    <3>2. Cardinality(Called') = 1 /\ Cardinality(Called) = 1
      BY <3>1, CardinalitySingle
    <3> QED BY <3>2
  <2>2. /\ Cardinality(hooks') = Cardinality(hooks) + 0 /\ Cardinality(goals') = Cardinality(goals) + 0
        /\ Cardinality(woken') = Cardinality(woken) + 0 /\ Len(vec') = Len(vec) + 0
        /\ count' = count + 0 + 0 + 0 + 0 + 0
    BY <1>1, Numbers
  <2> QED BY <2>1, <2>2, Recount
<1>13. term.tap \in All(Live) /\ All(Live') = (All(Live) \ {term.tap}) \cup {t}
  <2>1. Separate(Live) /\ All({Rest(t)}) = {t}
    BY <1>5, AllOfOne DEF IInv
  <2>2. term.tap \in All(Live)
    BY <1>2, <1>3 DEF All
  <2> QED BY <1>2, <1>3, <1>9, <2>1, <2>2, TakeOut
<1> QED BY <1>1, <1>2, <1>7, <1>9, <1>10, <1>11, <1>12, <1>13 DEF IInv, VecOK, TailOK, EndsRight, t

(* The merger gives up a term, and that goes to the goals or to the hooks. *)
LEMMA GiveUp ==
  ASSUME IInv, term # Nothing, term' = Nothing,
         \/ goals' = goals \cup {term} /\ hooks' = hooks
         \/ hooks' = hooks \cup {term} /\ goals' = goals,
         UNCHANGED <<fed, ins, bound, woken, vec, count, ended>>,
         room' \in Nat, full' \in BOOLEAN
  PROVE  IInv' /\ Keeps
<1>1. /\ Vecs' = Vecs /\ vec = <<>> /\ term \in Live
      /\ bound' = bound /\ fed' = fed /\ woken' = woken /\ vec' = vec /\ count' = count
      /\ ended' = ended
  BY DEF Vecs, IInv, Disjoint, Live, Called
<1>2. Elems(vec) = {} /\ term \notin hooks \cup goals \cup woken
  BY <1>1, EmptyVector DEF IInv, Disjoint
<1>3. /\ IsFiniteSet(hooks') /\ IsFiniteSet(goals')
      /\ \/ Cardinality(goals') = Cardinality(goals) + 1 /\ Cardinality(hooks') = Cardinality(hooks) + 0
         \/ Cardinality(hooks') = Cardinality(hooks) + 1 /\ Cardinality(goals') = Cardinality(goals) + 0
  <2>1. IsFiniteSet(hooks) /\ IsFiniteSet(goals)
    BY DEF IInv, Typed
  <2>2. /\ IsFiniteSet(hooks \cup {term}) /\ Cardinality(hooks \cup {term}) = Cardinality(hooks) + 1
        /\ IsFiniteSet(goals \cup {term}) /\ Cardinality(goals \cup {term}) = Cardinality(goals) + 1
    BY <1>2, <2>1, CardinalityAdd
  <2>3. Cardinality(goals) + 0 = Cardinality(goals) /\ Cardinality(hooks) + 0 = Cardinality(hooks)
    BY Numbers
  <2> QED BY <2>1, <2>2, <2>3, Zenon
<1>4. Typed'
  BY <1>1, <1>3 DEF IInv, Typed
<1>5. Live' = Live
  BY <1>1 DEF Live, Called
<1>6. Disjoint'
  <2>1. Nothing \notin Live
    BY LivePoints
  <2>2. Nothing \notin hooks \cup goals \cup woken
    BY <2>1 DEF Live
  <2> QED BY <1>1, <1>2, <2>2 DEF IInv, Disjoint
<1>7. CountRight'
  <2>1. Cardinality(Called') = Cardinality(Called) + (-1)
    <3>1. Called' = {} /\ Called = {term}
      BY Zenon DEF Called
    <3>2. Cardinality(Called') = 0 /\ Cardinality(Called) = 1
      BY <3>1, CardinalitySingle
    <3> QED BY <3>2
  <2>2. Cardinality(woken') = Cardinality(woken) + 0 /\ Len(vec') = Len(vec) + 0
    BY <1>1, Numbers
  <2>3. count' = count + 0 + 1 + 0 + (-1) + 0 /\ count' = count + 1 + 0 + 0 + (-1) + 0
    BY <1>1, Numbers
  <2>4. CASE Cardinality(goals') = Cardinality(goals) + 1 /\ Cardinality(hooks') = Cardinality(hooks) + 0
    <3>1. 0 \in Int /\ 1 \in Int /\ -1 \in Int
      OBVIOUS
    <3> QED BY <2>1, <2>2, <2>3, <2>4, <3>1, Recount, ZenonT(60)
  <2>5. CASE Cardinality(hooks') = Cardinality(hooks) + 1 /\ Cardinality(goals') = Cardinality(goals) + 0
    <3>1. 0 \in Int /\ 1 \in Int /\ -1 \in Int
      OBVIOUS
    <3> QED BY <2>1, <2>2, <2>3, <2>5, <3>1, Recount, ZenonT(60)
  <2> QED BY <1>3, <2>4, <2>5, ZenonT(60)
<1> QED BY <1>1, <1>4, <1>5, <1>6, <1>7 DEF IInv, Keeps, VecOK, TailOK, EndsRight

LEMMA GcRequestInv ==
  ASSUME IInv, GcRequest PROVE IInv' /\ Keeps
<1>1. room' \in Nat /\ full' \in BOOLEAN
  BY DEF GcRequest, NoRoom, IInv, Typed
<1> QED BY <1>1, GiveUp DEF GcRequest, self

LEMMA SuspInv ==
  ASSUME IInv, Susp PROVE IInv' /\ Keeps
<1>1. room' \in Nat /\ full' \in BOOLEAN
  BY DEF Susp, heap, IInv, Typed
<1> QED BY <1>1, GiveUp DEF Susp, self

LEMMA AtomicInv ==
  ASSUME IInv, Atomic
  PROVE  IInv' /\ All(Live') = All(Live) \ {term.tap} /\ term.tap \in All(Live)
<1>1. /\ hooks' = hooks /\ goals' = goals /\ ins' = ins /\ bound' = bound /\ fed' = fed
      /\ woken' = woken /\ term # Nothing /\ term' = Nothing
      /\ vec' = vec /\ count' = count - 1 /\ ended' = (ended \/ count' = 0)
      /\ room' = room /\ full' = full
  BY DEF Atomic, heap
<1>2. Vecs' = Vecs /\ vec = <<>> /\ term \in Live
  BY <1>1 DEF Vecs, IInv, Disjoint, Live, Called
<1>3. Elems(vec) = {} /\ term \notin hooks \cup goals \cup woken
  BY <1>2, EmptyVector DEF IInv, Disjoint
<1>4. Live' \subseteq Live
  BY <1>1 DEF Live, Called
<1>5. Separate(Live')
  BY <1>4 DEF IInv, Separate
<1>6. Typed'
  BY <1>1, <1>2 DEF IInv, Typed
<1>7. Disjoint'
  <2>1. Nothing \notin hooks \cup goals \cup woken
    BY LivePoints DEF Live
  <2> QED BY <1>1, <1>2, <1>3, <2>1 DEF IInv, Disjoint
<1>8. CountRight'
  <2>1. Cardinality(Called') = Cardinality(Called) + (-1)
    <3>1. Called' = {} /\ Called = {term}
      BY <1>1, Zenon DEF Called
    <3>2. Cardinality(Called') = 0 /\ Cardinality(Called) = 1
      BY <3>1, CardinalitySingle
    <3> QED BY <3>2
  <2>2. /\ Cardinality(hooks') = Cardinality(hooks) + 0 /\ Cardinality(goals') = Cardinality(goals) + 0
        /\ Cardinality(woken') = Cardinality(woken) + 0 /\ Len(vec') = Len(vec) + 0
        /\ count' = count + 0 + 0 + 0 + (-1) + 0
    BY <1>1, Numbers
  <2> QED BY <2>1, <2>2, Recount
<1>9. EndsRight'
  <2>1. count > 0 /\ ended = FALSE
    BY <1>2, Numbers DEF IInv, EndsRight, Typed
  <2> QED BY <1>1, <2>1 DEF EndsRight
<1>10. term.tap \in All(Live) /\ All(Live') = All(Live) \ {term.tap}
  <2>1. Separate(Live) /\ Live' = (Live \ {term}) \cup {}
    BY <1>1, <1>2, <1>3 DEF IInv, Live, Called
  <2>2. All({}) = {}
    BY DEF All
  <2>3. term.taps = {term.tap}
    BY <1>1, <1>2, LivePoints DEF Atomic, IsNil
  <2>4. term.tap \in All(Live)
    BY <1>2, <2>3 DEF All
  <2> QED BY <1>2, <2>1, <2>2, <2>3, <2>4, TakeOut
<1> QED BY <1>1, <1>2, <1>5, <1>6, <1>7, <1>8, <1>9, <1>10 DEF IInv, VecOK, TailOK

LEMMA HookElementInv ==
  ASSUME IInv, HookElement PROVE IInv' /\ Keeps
<1> DEFINE h == Head(vec)
<1>1. /\ hooks' = hooks /\ goals' = goals \cup {h} /\ ins' = ins /\ bound' = bound /\ fed' = fed
      /\ woken' = woken /\ term' = term /\ vec # <<>> /\ vec' = Tail(vec)
      /\ count' = count /\ ended' = ended
      /\ room >= HookSize /\ room' = room - HookSize /\ full' = full
  BY DEF HookElement, Allocate, self
<1>2. Vecs' = Vecs /\ term = Nothing
  BY <1>1 DEF Vecs, IInv, Disjoint
<1>3. vec \in Seq(Points(Vecs)) /\ Spread(vec)
  BY DEF IInv, Typed
<1>4. /\ h \in Points(Vecs) /\ Tail(vec) \in Seq(Points(Vecs))
      /\ Len(Tail(vec)) = Len(vec) - 1 /\ Len(vec) \in Nat
  BY <1>1, <1>3, HeadTailProperties
<1>5. Elems(vec) = {h} \cup Elems(Tail(vec))
  BY <1>1, <1>3, TapsOfParts
<1>6. h \in Live /\ h.taps # {} /\ h # Nothing
  <2>1. h \in Live
    BY <1>5 DEF Live
  <2> QED BY <2>1, LivePoints
<1>7. Spread(Tail(vec)) /\ Far(h.taps, TapsOf(Tail(vec)))
  BY <1>1, <1>3, SpreadTail
<1>8. h \notin Elems(Tail(vec))
  <2> SUFFICES ASSUME h \in Elems(Tail(vec)) PROVE FALSE
    OBVIOUS
  <2>1. h.taps \subseteq TapsOf(Tail(vec))
    BY DEF Elems, TapsOf
  <2>2. Far(h.taps, h.taps)
    BY <1>7, <2>1 DEF Far
  <2> QED BY <1>6, <2>2, FarIrreflexive
<1>9. Elems(vec) \cap (hooks \cup goals \cup woken) = {}
  BY DEF IInv, Disjoint
<1>10. h \notin hooks \cup goals \cup woken
  BY <1>5, <1>9
<1> HIDE DEF h
<1>11. IsFiniteSet(goals') /\ Cardinality(goals') = Cardinality(goals) + 1
  BY <1>1, <1>10, CardinalityAdd DEF IInv, Typed
<1>12. Typed'
  <2>1. room' \in Nat
    BY <1>1 DEF IInv, Typed, HookSize
  <2> QED BY <1>1, <1>2, <1>4, <1>11, <2>1 DEF IInv, Typed
<1>13. Live' = Live
  BY <1>1, <1>5 DEF Live, Called
<1>14. Disjoint'
  BY <1>1, <1>2, <1>5, <1>6, <1>8, <1>9, <1>10 DEF IInv, Disjoint
<1>15. CountRight'
  <2>1. /\ Cardinality(hooks') = Cardinality(hooks) + 0
        /\ Cardinality(woken') = Cardinality(woken) + 0
    BY <1>1, Numbers
  <2>2. Cardinality(Called') = Cardinality(Called) + 0
    BY <1>1, CalledNumber DEF Called
  <2>3. Len(vec') = Len(vec) + (-1)
    BY <1>1, <1>4
  <2>4. count' = count + 0 + 1 + 0 + 0 + (-1)
    BY <1>1, Numbers
  <2> QED BY <1>11, <2>1, <2>2, <2>3, <2>4, Recount
<1> QED BY <1>1, <1>2, <1>7, <1>12, <1>13, <1>14, <1>15 DEF IInv, Keeps, VecOK, TailOK, EndsRight

LEMMA GcRequest2Inv ==
  ASSUME IInv, GcRequest2 PROVE IInv' /\ Keeps
<1> DEFINE x == Var(vec)
<1>1. /\ hooks' = hooks \cup {x} /\ goals' = goals /\ ins' = ins \cup {vec} /\ bound' = bound
      /\ fed' = fed /\ woken' = woken /\ term' = term /\ vec # <<>> /\ vec' = <<>>
      /\ count' = count - (Len(vec) - 1) /\ ended' = ended
      /\ room' = room /\ full' = TRUE
  BY DEF GcRequest2, NoRoom
<1>2. Vecs' = Vecs \cup {vec} /\ term = Nothing
  BY <1>1 DEF Vecs, IInv, Disjoint
<1>3. vec \in Seq(Points(Vecs)) /\ Spread(vec) /\ \A v \in Vecs : GoodVec(v, Vecs)
  BY DEF IInv, Typed, VecOK
<1>4. GoodVec(vec, Vecs)
  BY <1>1, <1>3, TapsOfPoints DEF GoodVec
<1>5. VecOK' /\ Points(Vecs) \subseteq Points(Vecs') /\ x \in Points(Vecs')
  BY <1>2, <1>3, <1>4, VecsGrow DEF VecOK
<1>6. TailOK'
  BY <1>1, <1>2 DEF IInv, TailOK
<1>7. x.taps = TapsOf(vec) /\ x.taps # {} /\ x # Nothing
  BY <1>1, <1>4, VarFields DEF GoodVec
<1>8. Covers(Elems(vec), x)
  BY <1>7 DEF Covers, Extends, TapsOf, Elems
<1>9. Separate((Live \ Elems(vec)) \cup {x}) /\ (Live \ Elems(vec)) \cap {x} = {}
  <2>1. Separate(Live) /\ Separate({x}) /\ Elems(vec) \subseteq Live
    BY DEF IInv, Separate, Live
  <2>2. \A y \in {x} : Covers(Elems(vec), y) /\ y.taps # {}
    BY <1>7, <1>8
  <2> QED BY <2>1, <2>2, Replace
<1> HIDE DEF x
<1>10. Elems(vec) \cap (hooks \cup goals \cup woken) = {} /\ Called = {} /\ Called' = {}
  BY <1>1, <1>2 DEF IInv, Disjoint, Called
<1>11. Live \ Elems(vec) = hooks \cup goals \cup woken
  BY <1>10 DEF Live
<1>12. Live' = (Live \ Elems(vec)) \cup {x}
  <2>1. Elems(vec') = {}
    BY <1>1, EmptyVector
  <2>2. Live' = hooks' \cup goals' \cup woken'
    BY <1>10, <2>1 DEF Live
  <2> QED BY <1>1, <1>11, <2>2
<1>13. x \notin hooks \cup goals \cup woken
  BY <1>9, <1>11
<1>14. IsFiniteSet(hooks') /\ Cardinality(hooks') = Cardinality(hooks) + 1
  BY <1>1, <1>13, CardinalityAdd DEF IInv, Typed
<1>15. Typed'
  <2>1. vec' \in Seq(Points(Vecs'))
    BY <1>1
  <2> QED BY <1>1, <1>2, <1>5, <1>14, <2>1 DEF IInv, Typed
<1>16. Disjoint' /\ Spread(vec')
  BY <1>1, <1>2, <1>7, <1>13, EmptyVector DEF IInv, Disjoint
<1>17. Len(vec) \in Nat /\ Len(vec) > 0
  BY <1>1, <1>3, EmptySeq
<1>18. CountRight'
  <2>1. /\ Cardinality(goals') = Cardinality(goals) + 0
        /\ Cardinality(woken') = Cardinality(woken) + 0
    BY <1>1, Numbers
  <2>2. Cardinality(Called') = Cardinality(Called) + 0
    BY <1>10, CalledNumber
  <2>3. Len(vec') = Len(vec) + (-Len(vec))
    BY <1>1, <1>17
  <2>4. count' = count + 1 + 0 + 0 + 0 + (-Len(vec))
    BY <1>1, <1>17, Numbers
  <2> QED BY <1>14, <1>17, <2>1, <2>2, <2>3, <2>4, Recount
<1>19. EndsRight'
  <2>1. count > 0 /\ ended = FALSE
    <3>1. 1 \in DOMAIN vec
      BY <1>3, <1>17
    <3>2. Live # {}
      BY <3>1 DEF Live, Elems
    <3> QED BY <3>2, Numbers DEF IInv, EndsRight, Typed
  <2>2. count' > 0
    <3>1. Live' # {}
      BY <1>12
    <3>2. Cardinality(hooks) \in Nat /\ Cardinality(goals') \in Nat /\ Cardinality(woken') \in Nat
      BY <1>1, Numbers
    <3>3. Cardinality(Called') = 0 /\ Len(vec') = 0
      BY <1>1, <1>10, CardinalitySingle
    <3>4. count' = Cardinality(hooks') + Cardinality(goals') + Cardinality(woken')
                     + Cardinality(Called') + Len(vec')
      BY <1>18 DEF CountRight
    <3> QED BY <1>14, <3>2, <3>3, <3>4
  <2> QED BY <1>1, <2>1, <2>2 DEF EndsRight
<1>20. Keeps
  <2>1. All({x}) = All(Elems(vec)) /\ Elems(vec) \subseteq Live
    BY <1>7, AllOfOne DEF Live
  <2> QED BY <1>12, <2>1, Exchange DEF Keeps
<1> QED BY <1>5, <1>6, <1>9, <1>12, <1>15, <1>16, <1>18, <1>19, <1>20 DEF IInv

(* The elements of a vector: separate parts of the input it stands for. *)
Parts(x) == {Input(Last[x.tap.stream][i], Append(x.tap.path, i)) : i \in DOMAIN Last[x.tap.stream]}

LEMMA ElementsGood ==
  ASSUME IInv, NEW x \in Live, IsBound(x), IsVector(x), NEW v, v = Elements(x)
  PROVE  /\ v \in Seq(Points(Vecs)) /\ Spread(v)
         /\ \A i \in DOMAIN v : Covers({x}, v[i]) /\ v[i].taps # {}
         /\ IsVar(x) => TapsOf(v) = x.taps
         /\ ~IsVar(x) => TapsOf(v) = Parts(x) /\ Last[x.tap.stream] \in Seq(Stream)
<1>1. CASE IsVar(x)
  <2> DEFINE w == x.rest
             h == Head(w)
             y == Var(Tail(w))
  <2>1. w \in bound /\ w \in Vecs /\ Len(w) > 1 /\ v = <<h, y>>
    BY <1>1 DEF IsBound, IsVector, Elements, Vecs
  <2>2. x.taps = TapsOf(w)
    BY <1>1, LivePoints
  <2>3. GoodVec(w, Vecs) /\ Tail(w) \in Vecs
    BY <2>1 DEF IInv, VecOK, TailOK
  <2>4. w \in Seq(Points(Vecs)) /\ w # <<>> /\ Spread(w)
    BY <2>3 DEF GoodVec
  <2>5. TapsOf(w) = h.taps \cup TapsOf(Tail(w)) /\ Far(h.taps, TapsOf(Tail(w)))
    BY <2>4, TapsOfParts, SpreadTail
  <2>6. h \in Points(Vecs) /\ y \in Points(Vecs)
    BY <2>3, <2>4, HeadTailProperties DEF Points
  <2>7. y.taps = TapsOf(Tail(w)) /\ y.taps # {} /\ h.taps # {}
    BY <2>3, <2>6, PointCases DEF IInv, VecOK, GoodVec, Var
  <2> HIDE DEF w, h, y
  <2>8. v \in Seq(Points(Vecs)) /\ DOMAIN v = {1, 2} /\ v[1] = h /\ v[2] = y
    BY <2>1, <2>6
  <2>9. Spread(v)
    BY <2>5, <2>7, <2>8, FarSym DEF Spread
  <2>10. TapsOf(v) = x.taps
    BY <2>2, <2>5, <2>7, <2>8 DEF TapsOf
  <2>11. \A i \in DOMAIN v : Covers({x}, v[i]) /\ v[i].taps # {}
    <3>1. Covers({x}, h) /\ Covers({x}, y)
      BY <2>2, <2>5, <2>7 DEF Covers, Extends
    <3> QED BY <2>7, <2>8, <3>1
  <2> QED BY <1>1, <2>8, <2>9, <2>10, <2>11
<1>2. CASE ~IsVar(x)
  <2> DEFINE t == x.tap
             ss == Last[t.stream]
             I(i) == Input(ss[i], Append(t.path, i))
  <2>1. t \in Tap /\ x.taps = {t}
    BY <1>2, LivePoints
  <2>2. ss \in Seq(Stream) /\ v = [i \in DOMAIN ss |-> Rest(I(i))]
    BY <1>2, <2>1, StreamAssumption DEF IsVector, Elements, Tap
  <2>3. DOMAIN ss = 1..Len(ss) /\ Len(ss) \in Nat /\ t.path \in Seq(Nat)
    BY <2>1, <2>2 DEF Tap
  <2>4. ASSUME NEW i \in DOMAIN ss
        PROVE  /\ i \in Nat /\ I(i) \in Tap /\ I(i).path = Append(t.path, i)
               /\ Extends(I(i).path, t.path)
               /\ v[i] = Rest(I(i)) /\ v[i].taps = {I(i)} /\ v[i] \in Points(Vecs)
    <3>1. i \in Nat /\ ss[i] \in Stream
      BY <2>2, <2>3
    <3>2. Append(t.path, i) \in Seq(Nat) /\ Extends(Append(t.path, i), t.path)
      BY <2>3, <3>1, AppendExtends
    <3>3. I(i) \in Tap /\ I(i).path = Append(t.path, i)
      BY <3>1, <3>2 DEF Input, Tap
    <3>4. v[i] = Rest(I(i)) /\ v[i].taps = {I(i)}
      BY <2>2, RestFields
    <3>5. v[i] \in Points(Vecs)
      BY <3>3, <3>4 DEF Points
    <3> QED BY <3>1, <3>2, <3>3, <3>4, <3>5
  <2> HIDE DEF I
  <2>5. DOMAIN v = DOMAIN ss
    BY <2>2
  <2>6. v \in Seq(Points(Vecs))
    <3>1. v \in [1..Len(ss) -> Points(Vecs)]
      BY <2>2, <2>3, <2>4
    <3>2. [1..Len(ss) -> Points(Vecs)] \subseteq Seq(Points(Vecs))
      BY <2>3, SeqDef
    <3> QED BY <3>1, <3>2
  <2>7. Spread(v)
    <3> SUFFICES ASSUME NEW i \in DOMAIN v, NEW j \in DOMAIN v, i # j
                 PROVE  Far(v[i].taps, v[j].taps)
      BY DEF Spread
    <3>1. Apart(Append(t.path, i), Append(t.path, j))
      BY <2>3, <2>4, <2>5, ApartSiblings
    <3> QED BY <2>4, <2>5, <3>1 DEF Far
  <2>8. \A i \in DOMAIN v : Covers({x}, v[i]) /\ v[i].taps # {}
    <3> SUFFICES ASSUME NEW i \in DOMAIN v PROVE Covers({x}, v[i]) /\ v[i].taps # {}
      OBVIOUS
    <3>1. v[i].taps = {I(i)} /\ Extends(I(i).path, t.path)
      BY <2>4, <2>5
    <3> HIDE DEF t
    <3> QED BY <2>1, <3>1 DEF Covers
  <2>9. TapsOf(v) = Parts(x)
    <3>1. Parts(x) = {I(i) : i \in DOMAIN ss}
      BY DEF Parts, I
    <3> QED BY <2>4, <2>5, <3>1 DEF TapsOf
  <2> QED BY <1>2, <2>2, <2>6, <2>7, <2>8, <2>9
<1> QED BY <1>1, <1>2

LEMMA GenericDataInv ==
  ASSUME IInv, GenericData
  PROVE  /\ IInv'
         /\ IsVar(term) => Keeps
         /\ ~IsVar(term) => /\ All(Live') = (All(Live) \ {term.tap}) \cup Parts(term)
                           /\ term.tap \in All(Live) /\ term.tap \in Tap
                           /\ Last[term.tap.stream] \in Seq(Stream)
<1> DEFINE v == Elements(term)
<1>1. /\ hooks' = hooks /\ goals' = goals /\ ins' = ins /\ bound' = bound /\ fed' = fed
      /\ woken' = woken /\ term # Nothing /\ term' = Nothing
      /\ count' = count + Len(v) - 1 /\ vec' = IF count' = 0 THEN <<>> ELSE v
      /\ ended' = (ended \/ count' = 0)
      /\ room' = room /\ full' = full
      /\ IsBound(term) /\ IsVector(term)
  BY DEF GenericData, heap
<1>2. Vecs' = Vecs /\ vec = <<>> /\ term \in Live
  BY <1>1 DEF Vecs, IInv, Disjoint, Live, Called
<1>3. /\ v \in Seq(Points(Vecs)) /\ Spread(v)
      /\ \A i \in DOMAIN v : Covers({term}, v[i]) /\ v[i].taps # {}
      /\ IsVar(term) => TapsOf(v) = term.taps
      /\ ~IsVar(term) => TapsOf(v) = Parts(term) /\ Last[term.tap.stream] \in Seq(Stream)
  BY <1>1, <1>2, ElementsGood
<1> HIDE DEF v
<1>4. count \in Nat /\ count > 0 /\ ended = FALSE /\ Len(v) \in Nat
  BY <1>2, <1>3, Numbers, LenProperties DEF IInv, EndsRight, Typed
<1>5. vec' = v
  <2>1. CASE count' = 0
    <3>1. Len(v) = 0
      BY <1>1, <1>4, <2>1
    <3> QED BY <1>1, <1>3, <2>1, <3>1, EmptySeq
  <2> QED BY <1>1, <2>1
<1>6. Separate((Live \ {term}) \cup Elems(v)) /\ (Live \ {term}) \cap Elems(v) = {}
  <2>1. Separate(Live) /\ {term} \subseteq Live /\ Separate(Elems(v))
    BY <1>2, <1>3, SpreadSeparate DEF IInv
  <2>2. \A y \in Elems(v) : Covers({term}, y) /\ y.taps # {}
    BY <1>3 DEF Elems
  <2> QED BY <2>1, <2>2, Replace
<1>7. Elems(vec) = {} /\ term \notin hooks \cup goals \cup woken
  BY <1>2, EmptyVector DEF IInv, Disjoint
<1>8. Live \ {term} = hooks \cup goals \cup woken
  BY <1>1, <1>7 DEF Live, Called
<1>9. Live' = (Live \ {term}) \cup Elems(v)
  BY <1>1, <1>5, <1>8 DEF Live, Called, Elems
<1>10. Typed'
  BY <1>1, <1>2, <1>3, <1>5 DEF IInv, Typed
<1>11. Disjoint'
  <2>1. Nothing \notin hooks \cup goals \cup woken
    BY LivePoints DEF Live
  <2>2. Elems(v) \cap (hooks \cup goals \cup woken) = {}
    BY <1>6, <1>8
  <2>3. Elems(vec') = Elems(v)
    BY <1>5
  <2> QED BY <1>1, <2>1, <2>2, <2>3 DEF IInv, Disjoint
<1>12. CountRight'
  <2>1. Cardinality(Called') = Cardinality(Called) + (-1)
    <3>1. Called' = {} /\ Called = {term}
      BY <1>1, Zenon DEF Called
    <3>2. Cardinality(Called') = 0 /\ Cardinality(Called) = 1
      BY <3>1, CardinalitySingle
    <3> QED BY <3>2
  <2>2. /\ Cardinality(hooks') = Cardinality(hooks) + 0 /\ Cardinality(goals') = Cardinality(goals) + 0
        /\ Cardinality(woken') = Cardinality(woken) + 0
    BY <1>1, Numbers
  <2>3. Len(vec') = Len(vec) + Len(v)
    BY <1>2, <1>4, <1>5
  <2>4. count' = count + 0 + 0 + 0 + (-1) + Len(v)
    BY <1>1, <1>4
  <2> QED BY <1>4, <2>1, <2>2, <2>3, <2>4, Recount
<1>13. EndsRight'
  BY <1>1, <1>4 DEF EndsRight
<1>14. Spread(vec')
  BY <1>3, <1>5
<1>15. ASSUME IsVar(term) PROVE Keeps
  <2>1. All(Elems(v)) = All({term}) /\ {term} \subseteq Live
    BY <1>2, <1>3, <1>15, AllOfOne
  <2> QED BY <1>9, <2>1, Exchange DEF Keeps
<1>16. ASSUME ~IsVar(term)
       PROVE  /\ All(Live') = (All(Live) \ {term.tap}) \cup Parts(term)
              /\ term.tap \in All(Live) /\ term.tap \in Tap
              /\ Last[term.tap.stream] \in Seq(Stream)
  <2>1. Separate(Live) /\ All(Elems(v)) = Parts(term)
    BY <1>3, <1>16, AllOfOne DEF IInv
  <2>2. term.taps = {term.tap} /\ term.tap \in Tap
    BY <1>2, <1>16, LivePoints
  <2>3. term.tap \in All(Live)
    BY <1>2, <2>2 DEF All
  <2> QED BY <1>2, <1>3, <1>9, <1>16, <2>1, <2>2, <2>3, TakeOut
<1> QED BY <1>1, <1>2, <1>6, <1>9, <1>10, <1>11, <1>12, <1>13, <1>14, <1>15, <1>16
    DEF IInv, VecOK, TailOK

-----------------------------------------------------------------------------
LEMMA NextInv == IInv /\ [Next]_vars => IInv'
<1> SUFFICES ASSUME IInv, [Next]_vars PROVE IInv'
  OBVIOUS
<1>1. CASE \E s \in Stream : Produce(s)
  BY <1>1, ProduceInv
<1>2. CASE \E x \in goals : UnifyGoal(x)
  BY <1>2, UnifyGoalInv
<1>3. CASE \E v \in ins : InPair(v) \/ InLast(v)
  BY <1>3, InPairInv, InLastInv
<1>4. CASE Collect
  BY <1>4, CollectInv
<1>5. CASE \E x \in woken : ActiveUnify(x)
  BY <1>5, ActiveUnifyInv
<1>6. CASE List \/ GcRequest \/ Atomic \/ Susp
  BY <1>6, ListInv, GcRequestInv, AtomicInv, SuspInv
<1>7. CASE GenericData \/ HookElement \/ GcRequest2
  BY <1>7, GenericDataInv, HookElementInv, GcRequest2Inv
<1>8. CASE UNCHANGED vars
  BY <1>8 DEF vars, calls, self, heap, IInv, Typed, VecOK, TailOK, Vecs, Live, Called,
              Disjoint, CountRight, EndsRight
<1> QED BY <1>1, <1>2, <1>3, <1>4, <1>5, <1>6, <1>7, <1>8 DEF Next, Goal, Call

(* Every step of the merger, of a goal or of a producer leaves the terms   *)
(* the merger has to do with apart from each other, and its count, its end *)
(* and the goals gcmerge:in/4 in step with them.                           *)
THEOREM Invariance == Spec => []IInv
BY InitInv, NextInv, PTL DEF Spec

(* The merger's count is right whatever comes in whatever order and        *)
(* however little room the heap has: also when a goal has taken over the   *)
(* rest of a vector.                                                       *)
THEOREM CountCorrect == Spec => []CountRight
<1>1. IInv => CountRight
  BY DEF IInv
<1> QED BY <1>1, Invariance, PTL

-----------------------------------------------------------------------------
(* The merger implements what a merger promises. *)
LEMMA InputsAll ==
  inputs = All(Live) /\ inputs' = All(Live')
<1>1. inputs = All(Live)
  <2>1. Nothing.taps = {}
    BY DEF Nothing
  <2> QED BY <2>1 DEF inputs, All, Live, Called, TapsOf, Elems
<1>2. inputs' = All(Live')
  <2>1. Nothing.taps = {}
    BY DEF Nothing
  <2> QED BY <2>1 DEF inputs, All, Live, Called, TapsOf, Elems
<1> QED BY <1>1, <1>2

LEMMA EndedInputs == IInv => ended = (inputs = {})
<1> SUFFICES ASSUME IInv PROVE ended = (inputs = {})
  OBVIOUS
<1>1. Live = {} <=> inputs = {}
  BY InputsAll, LivePoints DEF All
<1>2. ended <=> Live = {}
  BY Numbers DEF IInv, EndsRight
<1>3. ended \in BOOLEAN
  BY DEF IInv, Typed
<1> QED BY <1>1, <1>2, <1>3

LEMMA InitImplements == Init => M!Init
<1> SUFFICES ASSUME Init PROVE M!Init
  OBVIOUS
<1>1. goals = {Rest(Input(Root, <<>>))} /\ Live = goals
  BY EmptyVector DEF Init, Live, Called
<1>2. inputs = {Input(Root, <<>>)}
  BY <1>1, InputsAll, AllOfOne, RestFields
<1> QED BY <1>2 DEF Init, M!Init, Input

LEMMA NextImplements ==
  ASSUME IInv, [Next]_vars, ended' = (inputs' = {})
  PROVE  [M!Next]_M!vars
<1> USE DEF M!vars
<1>1. ended = (inputs = {})
  BY EndedInputs
<1>2. ASSUME Keeps, fed' = fed, out' = out PROVE UNCHANGED M!vars
  BY <1>1, <1>2, InputsAll DEF Keeps
<1>3. CASE \E s \in Stream : Produce(s)
  <2>1. PICK s \in Stream : Produce(s)
    BY <1>3
  <2>2. inputs' = inputs
    BY <2>1, ProduceInv, InputsAll DEF Keeps
  <2>3. M!Send(s)
    BY <2>1, <2>2 DEF Produce, self, M!Send
  <2> QED BY <2>3 DEF M!Next
<1>4. CASE \E x \in goals : UnifyGoal(x)
  BY <1>2, <1>4, UnifyGoalInv DEF UnifyGoal, self
<1>5. CASE \E v \in ins : InPair(v) \/ InLast(v)
  BY <1>2, <1>5, InPairInv, InLastInv DEF InPair, InLast, self
<1>6. CASE Collect
  BY <1>2, <1>6, CollectInv DEF Collect, self
<1>7. CASE \E x \in woken : ActiveUnify(x)
  BY <1>2, <1>7, ActiveUnifyInv DEF ActiveUnify, self
<1>8. CASE GcRequest
  BY <1>2, <1>8, GcRequestInv DEF GcRequest, self
<1>9. CASE Susp
  BY <1>2, <1>9, SuspInv DEF Susp, self
<1>10. CASE HookElement
  BY <1>2, <1>10, HookElementInv DEF HookElement, self
<1>11. CASE GcRequest2
  BY <1>2, <1>11, GcRequest2Inv DEF GcRequest2
<1>12. CASE List
  <2>1. term.tap \in inputs /\ term.tap.at < fed[term.tap.stream]
    BY <1>12, ListInv, InputsAll DEF List, IsBound, IsCons, Made
  <2>2. inputs' = (inputs \ {term.tap}) \cup {[term.tap EXCEPT !.at = @ + 1]}
    BY <1>12, ListInv, InputsAll
  <2>3. ended' = ended
    BY <1>12 DEF List
  <2>4. M!Take(term.tap)
    BY <1>12, <2>2, <2>3 DEF List, IsCons, AtMessage, M!Take
  <2> QED BY <2>1, <2>4 DEF M!Next
<1>13. CASE Atomic
  <2>1. term.tap \in inputs /\ term.tap.at < fed[term.tap.stream]
    BY <1>13, AtomicInv, InputsAll DEF Atomic, IsBound, IsNil, Made
  <2>2. inputs' = (inputs \ {term.tap}) \cup {}
    BY <1>13, AtomicInv, InputsAll
  <2>3. M!Leave(term.tap)
    BY <1>13, <2>2 DEF Atomic, IsNil, AtEnd, M!Leave
  <2> QED BY <2>1, <2>3 DEF M!Next
<1>14. CASE GenericData /\ IsVar(term)
  BY <1>2, <1>14, GenericDataInv DEF GenericData
<1>15. CASE GenericData /\ ~IsVar(term)
  <2> DEFINE t == term.tap
             ss == Last[t.stream]
  <2>1. t \in inputs /\ t.at < fed[t.stream]
    BY <1>15, GenericDataInv, InputsAll DEF GenericData, IsBound, Made
  <2>2. t.at = Length[t.stream] /\ ss # None /\ fed' = fed /\ out' = out
    BY <1>15 DEF GenericData, IsVector, AtEnd
  <2>3. inputs' = (inputs \ {t}) \cup Parts(term)
    BY <1>15, GenericDataInv, InputsAll
  <2>4. Parts(term) =
          {[stream |-> ss[i], at |-> 0, path |-> Append(t.path, i)] : i \in DOMAIN ss}
    BY DEF Parts, Input
  <2>5. M!Leave(t)
    BY <2>2, <2>3, <2>4 DEF M!Leave
  <2> QED BY <2>1, <2>5 DEF M!Next
<1>16. CASE UNCHANGED vars
  BY <1>16 DEF vars, calls, self, inputs
<1> QED BY <1>3, <1>4, <1>5, <1>6, <1>7, <1>8, <1>9, <1>10, <1>11, <1>12, <1>13, <1>14, <1>15,
           <1>16 DEF Next, Goal, Call

(* Whatever it puts off for want of room, and whatever comes in whatever   *)
(* order, the merger does what a merger is for: its output has each        *)
(* message of its inputs once, those of an input in order, and it ends     *)
(* when the last input does.                                               *)
THEOREM MergeImplemented == Spec => ImplementsMerge
<1>1. IInv' => (ended = (inputs = {}))'
  BY EndedInputs, PTL
<1>2. IInv /\ [Next]_vars => [M!Next]_M!vars
  BY <1>1, NextInv, NextImplements
<1> QED BY <1>2, InitImplements, Invariance, PTL DEF Spec, ImplementsMerge, M!Spec
=============================================================================
