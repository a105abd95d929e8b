---------------------------- MODULE Sched_proofs ----------------------------
(***************************************************************************)
(* Proofs about the goal scheduler, for any goals, variables, priorities   *)
(* and signals.                                                            *)
(***************************************************************************)
EXTENDS Sched, TLAPS, FiniteSetTheorems, SequenceTheorems, WellFoundedInduction

-----------------------------------------------------------------------------
(* Induction over the natural numbers, for a set: a number that is missing *)
(* from it would have a least one before it.                               *)
LEMMA Least ==
  ASSUME NEW T \in SUBSET Nat, T # {}
  PROVE  \E m \in T : \A k \in T : m <= k
<1>1. \E m \in T : \A k \in T : ~ (<<k, m>> \in OpToRel(<,Nat))
  BY NatLessThanWellFounded, WFMin
<1>2. PICK m \in T : \A k \in T : ~ (<<k, m>> \in OpToRel(<,Nat))
  BY <1>1, Zenon
<1>3. ASSUME NEW k \in T PROVE m <= k
  <2>1. m \in Nat /\ k \in Nat
    OBVIOUS
  <2>2. <<k, m>> \in OpToRel(<,Nat) <=> k < m
    BY <2>1 DEF OpToRel
  <2>3. ~ (k < m)
    <3> HIDE <2>1
    <3> QED BY <1>2, <2>2, Zenon
  <2> QED BY <2>1, <2>3
<1> QED BY <1>3

LEMMA Induct ==
  ASSUME NEW T, 0 \in T, \A n \in Nat : n \in T => n + 1 \in T
  PROVE  Nat \subseteq T
<1> DEFINE U == Nat \ T
<1>1. SUFFICES ASSUME U # {} PROVE FALSE
  OBVIOUS
<1>2. PICK m \in U : \A k \in U : m <= k
  BY <1>1, Least
<1>3. m \in Nat /\ m # 0
  OBVIOUS
<1>4. m - 1 \in Nat /\ ~(m <= m - 1) /\ m - 1 + 1 = m
  BY <1>3
<1>5. m - 1 \in T
  BY <1>2, <1>4
<1> QED BY <1>4, <1>5

(* Up to a bound.                                                          *)
LEMMA InductTo ==
  ASSUME NEW n \in Nat, NEW T, 0 \in T, \A k \in 0 .. n-1 : k \in T => k + 1 \in T
  PROVE  n \in T
<1> DEFINE U == {k \in Nat : k <= n => k \in T}
<1>1. 0 \in U
  OBVIOUS
<1>2. ASSUME NEW k \in Nat, k \in U PROVE k + 1 \in U
  <2>1. CASE k + 1 <= n
    BY <1>2, <2>1
  <2>2. CASE ~(k + 1 <= n)
    BY <2>2
  <2> QED BY <2>1, <2>2
<1>3. Nat \subseteq U
  <2> HIDE DEF U
  <2> QED BY <1>1, <1>2, Induct
<1> QED BY <1>3

(* The least and the greatest of numbers.                                  *)
LEMMA MinIs ==
  ASSUME NEW T \in SUBSET Nat, T # {}
  PROVE  Min(T) \in T /\ \A k \in T : Min(T) <= k
<1>1. \E m \in T : \A k \in T : m <= k
  BY Least
<1> QED BY <1>1 DEF Min

LEMMA MaxIs ==
  ASSUME NEW T \in SUBSET Nat, NEW m \in T, \A k \in T : k <= m
  PROVE  Max(T) = m
<1>1. m \in T /\ \A k \in T : m >= k
  OBVIOUS
<1>2. Max(T) \in T /\ \A k \in T : Max(T) >= k
  BY <1>1 DEF Max
<1>3. Max(T) >= m /\ m >= Max(T) /\ m \in Nat /\ Max(T) \in Nat
  BY <1>1, <1>2
<1> HIDE DEF Max
<1> QED BY <1>3

LEMMA FiniteMax ==
  ASSUME NEW T \in SUBSET Nat, T # {}, IsFiniteSet(T)
  PROVE  Max(T) \in T /\ \A k \in T : Max(T) >= k
<1> DEFINE HasMax(A) == \E m \in A : \A k \in A : m >= k
           U == {n \in Nat : \A A \in SUBSET Nat :
                   IsFiniteSet(A) /\ A # {} /\ Cardinality(A) = n => HasMax(A)}
<1>1. 0 \in U
  BY FS_EmptySet
<1>2. ASSUME NEW n \in Nat, n \in U PROVE n + 1 \in U
  <2> SUFFICES ASSUME NEW A \in SUBSET Nat, IsFiniteSet(A), A # {}, Cardinality(A) = n + 1
               PROVE  HasMax(A)
    OBVIOUS
  <2>1. PICK a \in A : TRUE
    OBVIOUS
  <2>2. /\ IsFiniteSet(A \ {a}) /\ Cardinality(A \ {a}) = n
    <3>1. IsFiniteSet(A \ {a}) /\ Cardinality(A \ {a}) = Cardinality(A) - 1
      BY <2>1, FS_RemoveElement, Zenon
    <3> QED BY <3>1
  <2>3. CASE A \ {a} = {}
    BY <2>3
  <2>4. CASE A \ {a} # {}
    <3>1. PICK m \in A \ {a} : \A k \in A \ {a} : m >= k
      BY <1>2, <2>2, <2>4
    <3>2. m \in Nat /\ a \in Nat
      OBVIOUS
    <3>3. CASE m >= a
      BY <3>1, <3>3
    <3>4. CASE a >= m
      BY <3>1, <3>2, <3>4
    <3> QED BY <3>2, <3>3, <3>4
  <2> QED BY <2>3, <2>4
<1>3. Nat \subseteq U
  <2> HIDE DEF U
  <2> QED BY <1>1, <1>2, Induct
<1>4. HasMax(T)
  BY <1>3, FS_CardinalityType
<1> QED BY <1>4 DEF Max

-----------------------------------------------------------------------------
(* The fold over the hooks, unrolled.  The recursion of the fold is over   *)
(* the subsets of the indices.                                             *)
WakeAll(S, gs) == FoldLeft(Wake, S, gs)
Unrolled(S, gs, n) ==
  \E w : /\ w[0] = S
         /\ \A k \in 1 .. n : w[k] = Wake(w[k-1], gs[k])
         /\ WakeAll(S, gs) = w[n]

LEMMA WakeFold ==
  ASSUME NEW S, NEW gs, NEW n \in Nat, DOMAIN gs = 1 .. n
  PROVE  Unrolled(S, gs, n)
<1> DEFINE Step(f, t) == IF t = {} THEN S ELSE Wake(f[t \ {Max(t)}], gs[Max(t)])
           Solves(f, m) == f = [t \in SUBSET (1 .. m) |-> Step(f, t)]
           T == {m \in Nat : \E f : Solves(f, m)}
<1>1. 0 \in T
  <2>1. Solves([t \in SUBSET (1 .. 0) |-> S], 0)
    <3>1. \A t \in SUBSET (1 .. 0) : t = {}
      OBVIOUS
    <3>2. \A t \in SUBSET (1 .. 0) : Step([u \in SUBSET (1 .. 0) |-> S], t) = S
      BY <3>1, Zenon
    <3> QED BY <3>2
  <2> QED BY <2>1
<1>2. ASSUME NEW m \in Nat, m \in T PROVE m + 1 \in T
  <2>1. PICK f : Solves(f, m)
    BY <1>2
  <2> DEFINE h == [t \in SUBSET (1 .. m+1) |->
                     IF m + 1 \in t THEN Wake(f[t \ {m+1}], gs[m+1]) ELSE f[t]]
  <2>2. \A t \in SUBSET (1 .. m) : f[t] = Step(f, t)
    BY <2>1, Zenon
  <2>3. ASSUME NEW t \in SUBSET (1 .. m+1) PROVE h[t] = Step(h, t)
    <3>1. CASE m + 1 \in t
      <4>1. Max(t) = m + 1 /\ t # {}
        <5>1. \A k \in t : k <= m + 1
          OBVIOUS
        <5>2. t \in SUBSET Nat
          OBVIOUS
        <5> QED BY <3>1, <5>1, <5>2, MaxIs
      <4>2. t \ {m+1} \in SUBSET (1 .. m+1) /\ m + 1 \notin t \ {m+1}
        OBVIOUS
      <4>3. h[t \ {m+1}] = f[t \ {m+1}]
        BY <4>2, Zenon
      <4> QED BY <3>1, <4>1, <4>3, Zenon
    <3>2. CASE m + 1 \notin t /\ t # {}
      <4>1. t \in SUBSET (1 .. m)
        BY <3>2
      <4>2. t \ {Max(t)} \in SUBSET (1 .. m+1) /\ m + 1 \notin t \ {Max(t)}
        BY <3>2
      <4>3. h[t \ {Max(t)}] = f[t \ {Max(t)}]
        BY <4>2, Zenon
      <4>4. h[t] = f[t]
        BY <3>2, Zenon
      <4> QED BY <2>2, <3>2, <4>1, <4>3, <4>4, Zenon
    <3>3. CASE t = {}
      <4>1. {} \in SUBSET (1 .. m)
        OBVIOUS
      <4>2. h[t] = f[t]
        BY <3>3, Zenon
      <4> QED BY <2>2, <3>3, <4>1, <4>2, Zenon
    <3> QED BY <3>1, <3>2, <3>3
  <2>4. Solves(h, m + 1)
    <3> DEFINE H == [t \in SUBSET (1 .. m+1) |-> Step(h, t)]
    <3>1. \A t \in SUBSET (1 .. m+1) : h[t] = H[t]
      <4> SUFFICES ASSUME NEW t \in SUBSET (1 .. m+1) PROVE h[t] = H[t]
        OBVIOUS
      <4>1. H[t] = Step(h, t)
        BY Zenon
      <4> QED BY <2>3, <4>1, Zenon
    <3>2. DOMAIN h = SUBSET (1 .. m+1) /\ DOMAIN H = SUBSET (1 .. m+1)
      BY Zenon
    <3>3. h = [t \in DOMAIN h |-> h[t]] /\ H = [t \in DOMAIN H |-> H[t]]
      BY Zenon
    <3> HIDE DEF h, H
    <3>4. h = H
      BY <3>1, <3>2, <3>3, Zenon
    <3> QED BY <3>4 DEF H
  <2>5. m + 1 \in Nat
    OBVIOUS
  <2> HIDE DEF Solves
  <2> QED BY <2>4, <2>5
<1>3. PICK f : Solves(f, n)
  <2>1. Nat \subseteq T
    <3> HIDE DEF T
    <3> QED BY <1>1, <1>2, Induct
  <2> QED BY <2>1
<1> DEFINE iter == CHOOSE sol : sol = [t \in SUBSET (1 .. n) |-> Step(sol, t)]
<1>4. iter = [t \in SUBSET (1 .. n) |-> Step(iter, t)]
  BY <1>3, Zenon
<1>5. WakeAll(S, gs) = iter[1 .. n]
  BY Zenon DEF WakeAll, FoldLeft, MapThenFoldSet
<1> HIDE DEF iter
<1>6. \A t \in SUBSET (1 .. n) : iter[t] = Step(iter, t)
  BY <1>4, Zenon
<1> DEFINE w == [k \in 0 .. n |-> iter[1 .. k]]
<1>7. w[0] = S
  <2>1. 1 .. 0 = {} /\ {} \in SUBSET (1 .. n) /\ 0 \in 0 .. n
    OBVIOUS
  <2> QED BY <1>6, <2>1, Zenon
<1>8. ASSUME NEW k \in 1 .. n PROVE w[k] = Wake(w[k-1], gs[k])
  <2>1. /\ 1 .. k \in SUBSET (1 .. n) /\ 1 .. k # {} /\ 1 .. k \in SUBSET Nat
        /\ (1 .. k) \ {k} = 1 .. (k-1) /\ k \in 0 .. n /\ k - 1 \in 0 .. n
        /\ k \in 1 .. k /\ \A j \in 1 .. k : j <= k
    OBVIOUS
  <2>2. Max(1 .. k) = k
    BY <2>1, MaxIs
  <2>3. iter[1 .. k] = Wake(iter[1 .. (k-1)], gs[k])
    BY <1>6, <2>1, <2>2, Zenon
  <2> QED BY <2>1, <2>3, Zenon
<1>9. WakeAll(S, gs) = w[n]
  <2>1. n \in 0 .. n
    OBVIOUS
  <2> QED BY <1>5, <2>1, Zenon
<1> HIDE DEF w
<1> QED BY <1>7, <1>8, <1>9, Zenon DEF Unrolled

UnrolledWithout(s, g, n) ==
  \E w : /\ w[0] = <<>>
         /\ \A k \in 1 .. n : w[k] = IF s[k] = g THEN w[k-1] ELSE Append(w[k-1], s[k])
         /\ Without(s, g) = w[n]

LEMMA WithoutFold ==
  ASSUME NEW s, NEW g, NEW n \in Nat, DOMAIN s = 1 .. n
  PROVE  UnrolledWithout(s, g, n)
<1> DEFINE Put(t, h) == IF h = g THEN t ELSE Append(t, h)
           Step(f, t) == IF t = {} THEN <<>> ELSE Put(f[t \ {Max(t)}], s[Max(t)])
           Solves(f, m) == f = [t \in SUBSET (1 .. m) |-> Step(f, t)]
           T == {m \in Nat : \E f : Solves(f, m)}
<1>1. 0 \in T
  <2>1. Solves([t \in SUBSET (1 .. 0) |-> <<>>], 0)
    <3>1. \A t \in SUBSET (1 .. 0) : t = {}
      OBVIOUS
    <3>2. \A t \in SUBSET (1 .. 0) : Step([u \in SUBSET (1 .. 0) |-> <<>>], t) = <<>>
      BY <3>1, Zenon
    <3> QED BY <3>2
  <2> QED BY <2>1
<1>2. ASSUME NEW m \in Nat, m \in T PROVE m + 1 \in T
  <2>1. PICK f : Solves(f, m)
    BY <1>2
  <2> DEFINE h == [t \in SUBSET (1 .. m+1) |->
                     IF m + 1 \in t THEN Put(f[t \ {m+1}], s[m+1]) ELSE f[t]]
  <2>2. \A t \in SUBSET (1 .. m) : f[t] = Step(f, t)
    BY <2>1, Zenon
  <2>3. ASSUME NEW t \in SUBSET (1 .. m+1) PROVE h[t] = Step(h, t)
    <3>1. CASE m + 1 \in t
      <4>1. Max(t) = m + 1 /\ t # {}
        <5>1. \A k \in t : k <= m + 1
          OBVIOUS
        <5>2. t \in SUBSET Nat
          OBVIOUS
        <5> QED BY <3>1, <5>1, <5>2, MaxIs
      <4>2. t \ {m+1} \in SUBSET (1 .. m+1) /\ m + 1 \notin t \ {m+1}
        OBVIOUS
      <4>3. h[t \ {m+1}] = f[t \ {m+1}]
        BY <4>2, Zenon
      <4> QED BY <3>1, <4>1, <4>3, Zenon
    <3>2. CASE m + 1 \notin t /\ t # {}
      <4>1. t \in SUBSET (1 .. m)
        BY <3>2
      <4>2. t \ {Max(t)} \in SUBSET (1 .. m+1) /\ m + 1 \notin t \ {Max(t)}
        BY <3>2
      <4>3. h[t \ {Max(t)}] = f[t \ {Max(t)}]
        BY <4>2, Zenon
      <4>4. h[t] = f[t]
        BY <3>2, Zenon
      <4> QED BY <2>2, <3>2, <4>1, <4>3, <4>4, Zenon
    <3>3. CASE t = {}
      <4>1. {} \in SUBSET (1 .. m)
        OBVIOUS
      <4>2. h[t] = f[t]
        BY <3>3, Zenon
      <4> QED BY <2>2, <3>3, <4>1, <4>2, Zenon
    <3> QED BY <3>1, <3>2, <3>3
  <2>4. Solves(h, m + 1)
    <3> DEFINE H == [t \in SUBSET (1 .. m+1) |-> Step(h, t)]
    <3>1. \A t \in SUBSET (1 .. m+1) : h[t] = H[t]
      <4> SUFFICES ASSUME NEW t \in SUBSET (1 .. m+1) PROVE h[t] = H[t]
        OBVIOUS
      <4>1. H[t] = Step(h, t)
        BY Zenon
      <4> QED BY <2>3, <4>1, Zenon
    <3>2. DOMAIN h = SUBSET (1 .. m+1) /\ DOMAIN H = SUBSET (1 .. m+1)
      BY Zenon
    <3>3. h = [t \in DOMAIN h |-> h[t]] /\ H = [t \in DOMAIN H |-> H[t]]
      BY Zenon
    <3> HIDE DEF h, H
    <3>4. h = H
      BY <3>1, <3>2, <3>3, Zenon
    <3> QED BY <3>4 DEF H
  <2>5. m + 1 \in Nat
    OBVIOUS
  <2> HIDE DEF Solves
  <2> QED BY <2>4, <2>5
<1>3. PICK f : Solves(f, n)
  <2>1. Nat \subseteq T
    <3> HIDE DEF T
    <3> QED BY <1>1, <1>2, Induct
  <2> QED BY <2>1
<1> DEFINE iter == CHOOSE sol : sol = [t \in SUBSET (1 .. n) |-> Step(sol, t)]
<1>4. iter = [t \in SUBSET (1 .. n) |-> Step(iter, t)]
  BY <1>3, Zenon
<1>5. Without(s, g) = iter[1 .. n]
  BY Zenon DEF Without, FoldLeft, MapThenFoldSet
<1> HIDE DEF iter
<1>6. \A t \in SUBSET (1 .. n) : iter[t] = Step(iter, t)
  BY <1>4, Zenon
<1> DEFINE w == [k \in 0 .. n |-> iter[1 .. k]]
<1>7. w[0] = <<>>
  <2>1. 1 .. 0 = {} /\ {} \in SUBSET (1 .. n) /\ 0 \in 0 .. n
    OBVIOUS
  <2> QED BY <1>6, <2>1, Zenon
<1>8. ASSUME NEW k \in 1 .. n PROVE w[k] = Put(w[k-1], s[k])
  <2>1. /\ 1 .. k \in SUBSET (1 .. n) /\ 1 .. k # {} /\ 1 .. k \in SUBSET Nat
        /\ (1 .. k) \ {k} = 1 .. (k-1) /\ k \in 0 .. n /\ k - 1 \in 0 .. n
        /\ k \in 1 .. k /\ \A j \in 1 .. k : j <= k
    OBVIOUS
  <2>2. Max(1 .. k) = k
    BY <2>1, MaxIs
  <2>3. iter[1 .. k] = Put(iter[1 .. (k-1)], s[k])
    BY <1>6, <2>1, <2>2, Zenon
  <2> QED BY <2>1, <2>3, Zenon
<1>9. Without(s, g) = w[n]
  <2>1. n \in 0 .. n
    OBVIOUS
  <2> QED BY <1>5, <2>1, Zenon
<1> HIDE DEF w
<1> QED BY <1>7, <1>8, <1>9, Zenon DEF UnrolledWithout

-----------------------------------------------------------------------------
(* Sequences: what they contain, and that they contain nothing twice.      *)
Once(q) == \A i, j \in 1 .. Len(q) : q[i] = q[j] => i = j

LEMMA ConsIs ==
  ASSUME NEW X, NEW q \in Seq(X), NEW g \in X
  PROVE  /\ <<g>> \o q \in Seq(X) /\ <<g>> \o q # <<>>
         /\ Head(<<g>> \o q) = g /\ Tail(<<g>> \o q) = q
         /\ \A h : Contains(<<g>> \o q, h) <=> (h = g \/ Contains(q, h))
         /\ Once(q) /\ ~ Contains(q, g) => Once(<<g>> \o q)
         /\ q # <<>> => (<<g>> \o q)[Len(<<g>> \o q)] = q[Len(q)]
<1> DEFINE c == <<g>> \o q
<1>1. /\ c \in Seq(X) /\ Len(c) = Len(q) + 1 /\ Len(q) \in Nat
      /\ c[1] = g /\ \A i \in 1 .. Len(q) : c[i + 1] = q[i]
  <2>1. <<g>> \in Seq(X) /\ Len(<<g>>) = 1 /\ <<g>>[1] = g
    OBVIOUS
  <2>2. /\ c \in Seq(X) /\ Len(c) = 1 + Len(q) /\ Len(q) \in Nat
        /\ \A i \in 1 .. 1 + Len(q) : c[i] = IF i <= 1 THEN <<g>>[i] ELSE q[i - 1]
    BY <2>1, ConcatProperties, LenProperties
  <2> HIDE DEF c
  <2> QED BY <2>1, <2>2
<1>2. Head(c) = g /\ Tail(c) = q
  OBVIOUS
<1> HIDE DEF c
<1>3. \A h : Contains(c, h) <=> (h = g \/ Contains(q, h))
  <2> SUFFICES ASSUME NEW h PROVE Contains(c, h) <=> (h = g \/ Contains(q, h))
    OBVIOUS
  <2>1. ASSUME Contains(q, h) PROVE Contains(c, h)
    BY <1>1, <2>1 DEF Contains
  <2>2. ASSUME h = g PROVE Contains(c, h)
    BY <1>1, <2>2 DEF Contains
  <2>3. ASSUME Contains(c, h), h # g PROVE Contains(q, h)
    <3>1. PICK i \in 1 .. Len(c) : c[i] = h
      BY <2>3 DEF Contains
    <3>2. i - 1 \in 1 .. Len(q) /\ i = i - 1 + 1
      BY <1>1, <2>3, <3>1
    <3>3. q[i - 1] = h
      BY <1>1, <3>1, <3>2
    <3> QED BY <3>2, <3>3 DEF Contains
  <2> QED BY <2>1, <2>2, <2>3
<1>4. ASSUME Once(q), ~ Contains(q, g) PROVE Once(c)
  <2> SUFFICES ASSUME NEW i \in 1 .. Len(c), NEW j \in 1 .. Len(c), c[i] = c[j], i < j
               PROVE  FALSE
    BY <1>1 DEF Once
  <2>1. j - 1 \in 1 .. Len(q) /\ c[j] = q[j - 1]
    <3>1. j - 1 \in 1 .. Len(q) /\ j - 1 + 1 = j
      BY <1>1
    <3> QED BY <1>1, <3>1
  <2>2. CASE i = 1
    BY <1>1, <1>4, <2>1, <2>2 DEF Contains
  <2>3. CASE i # 1
    <3>1. i - 1 \in 1 .. Len(q) /\ i - 1 + 1 = i /\ i - 1 # j - 1
      BY <1>1, <2>3
    <3>2. c[i] = q[i - 1]
      BY <1>1, <3>1
    <3> QED BY <1>4, <2>1, <3>1, <3>2 DEF Once
  <2> QED BY <2>2, <2>3
<1>5. ASSUME q # <<>> PROVE c[Len(c)] = q[Len(q)]
  <2>1. Len(q) \in 1 .. Len(q)
    BY <1>5, EmptySeq, <1>1
  <2> QED BY <1>1, <2>1
<1>6. c # <<>>
  BY <1>1
<1> QED BY <1>1, <1>2, <1>3, <1>4, <1>5, <1>6 DEF c

LEMMA ConcatIs ==
  ASSUME NEW X, NEW a \in Seq(X), NEW b \in Seq(X)
  PROVE  /\ a \o b \in Seq(X)
         /\ \A h : Contains(a \o b, h) <=> (Contains(a, h) \/ Contains(b, h))
         /\ Once(a) /\ Once(b) /\ (\A h : ~ (Contains(a, h) /\ Contains(b, h)))
              => Once(a \o b)
         /\ b # <<>> => a \o b # <<>> /\ (a \o b)[Len(a \o b)] = b[Len(b)]
<1> DEFINE c == a \o b
<1>1. /\ c \in Seq(X) /\ Len(c) = Len(a) + Len(b) /\ Len(a) \in Nat /\ Len(b) \in Nat
      /\ \A i \in 1 .. Len(a) + Len(b) : c[i] = IF i <= Len(a) THEN a[i] ELSE b[i - Len(a)]
  BY ConcatProperties, LenProperties
<1> HIDE DEF c
<1> DEFINE m == Len(a)  k == Len(b)
<1>2. /\ m \in Nat /\ k \in Nat /\ Len(c) = m + k
      /\ \A i \in 1 .. m : c[i] = a[i]
      /\ \A i \in 1 .. k : c[m + i] = b[i]
  <2>1. ASSUME NEW i \in 1 .. m PROVE c[i] = a[i]
    BY <1>1
  <2>2. ASSUME NEW i \in 1 .. k PROVE c[m + i] = b[i]
    <3>1. m + i \in 1 .. m + k /\ ~ (m + i <= m) /\ m + i - m = i
      BY <1>1
    <3> QED BY <1>1, <3>1
  <2> QED BY <1>1, <2>1, <2>2
<1>3. \A i \in 1 .. Len(c) : i \in 1 .. m \/ (i - m \in 1 .. k /\ m + (i - m) = i)
  BY <1>2
<1>4. \A h : Contains(c, h) <=> (Contains(a, h) \/ Contains(b, h))
  <2> SUFFICES ASSUME NEW h
               PROVE  Contains(c, h) <=> (Contains(a, h) \/ Contains(b, h))
    OBVIOUS
  <2>1. ASSUME Contains(a, h) PROVE Contains(c, h)
    <3>1. PICK i \in 1 .. m : a[i] = h
      BY <2>1 DEF Contains
    <3>2. i \in 1 .. Len(c) /\ c[i] = h
      BY <1>2, <3>1
    <3> QED BY <3>2 DEF Contains
  <2>2. ASSUME Contains(b, h) PROVE Contains(c, h)
    <3>1. PICK i \in 1 .. k : b[i] = h
      BY <2>2 DEF Contains
    <3>2. m + i \in 1 .. Len(c) /\ c[m + i] = h
      BY <1>2, <3>1
    <3> QED BY <3>2 DEF Contains
  <2>3. ASSUME Contains(c, h) PROVE Contains(a, h) \/ Contains(b, h)
    <3>1. PICK i \in 1 .. Len(c) : c[i] = h
      BY <2>3 DEF Contains
    <3>2. CASE i \in 1 .. m
      BY <1>2, <3>1, <3>2 DEF Contains
    <3>3. CASE i - m \in 1 .. k /\ m + (i - m) = i
      <4>1. b[i - m] = h
        BY <1>2, <3>1, <3>3
      <4> QED BY <3>3, <4>1 DEF Contains
    <3> QED BY <1>3, <3>2, <3>3
  <2> QED BY <2>1, <2>2, <2>3
<1>5. ASSUME Once(a), Once(b), \A h : ~ (Contains(a, h) /\ Contains(b, h))
      PROVE  Once(c)
  <2>1. ASSUME NEW i \in 1 .. m, NEW j \in 1 .. k PROVE a[i] # b[j]
    BY <1>5 DEF Contains
  <2> SUFFICES ASSUME NEW i \in 1 .. Len(c), NEW j \in 1 .. Len(c), c[i] = c[j]
               PROVE  i = j
    BY DEF Once
  <2>2. CASE i \in 1 .. m /\ j \in 1 .. m
    BY <1>2, <1>5, <2>2 DEF Once
  <2>3. CASE i \in 1 .. m /\ j - m \in 1 .. k /\ m + (j - m) = j
    <3>1. c[j] = b[j - m] /\ c[i] = a[i]
      BY <1>2, <2>3
    <3> QED BY <2>1, <2>3, <3>1
  <2>4. CASE j \in 1 .. m /\ i - m \in 1 .. k /\ m + (i - m) = i
    <3>1. c[i] = b[i - m] /\ c[j] = a[j]
      BY <1>2, <2>4
    <3> QED BY <2>1, <2>4, <3>1
  <2>5. CASE /\ i - m \in 1 .. k /\ m + (i - m) = i
             /\ j - m \in 1 .. k /\ m + (j - m) = j
    <3>1. c[i] = b[i - m] /\ c[j] = b[j - m]
      BY <1>2, <2>5
    <3>2. i - m = j - m
      BY <1>5, <2>5, <3>1 DEF Once
    <3> QED BY <1>2, <3>2
  <2> QED BY <1>3, <2>2, <2>3, <2>4, <2>5
<1>6. ASSUME b # <<>> PROVE c # <<>> /\ c[Len(c)] = b[Len(b)]
  <2>1. k \in 1 .. k
    BY <1>6, EmptySeq, <1>2
  <2> QED BY <1>1, <1>2, <2>1
<1> QED BY <1>1, <1>4, <1>5, <1>6 DEF c

LEMMA Single ==
  ASSUME NEW g
  PROVE  Once(<<g>>) /\ \A h : Contains(<<g>>, h) <=> h = g
BY DEF Once, Contains

LEMMA AppendIs ==
  ASSUME NEW X, NEW q \in Seq(X), NEW g \in X
  PROVE  /\ Append(q, g) \in Seq(X)
         /\ \A h : Contains(Append(q, g), h) <=> (h = g \/ Contains(q, h))
         /\ Once(q) /\ ~ Contains(q, g) => Once(Append(q, g))
<1>1. Append(q, g) = q \o <<g>> /\ <<g>> \in Seq(X)
  OBVIOUS
<1>2. Once(<<g>>) /\ \A h : Contains(<<g>>, h) <=> h = g
  BY Single
<1> DEFINE b == <<g>>
<1>3. /\ q \o b \in Seq(X)
      /\ \A h : Contains(q \o b, h) <=> (Contains(q, h) \/ Contains(b, h))
      /\ Once(q) /\ Once(b) /\ (\A h : ~ (Contains(q, h) /\ Contains(b, h)))
           => Once(q \o b)
  <2> HIDE DEF b
  <2> QED BY <1>1, ConcatIs DEF b
<1> HIDE DEF b
<1>4. Append(q, g) = q \o b
  BY <1>1 DEF b
<1>5. ASSUME Once(q), ~ Contains(q, g) PROVE Once(q \o b)
  BY <1>2, <1>3, <1>5 DEF b
<1> QED BY <1>2, <1>3, <1>4, <1>5 DEF b

LEMMA TailIs ==
  ASSUME NEW X, NEW q \in Seq(X), q # <<>>
  PROVE  /\ Head(q) \in X /\ Tail(q) \in Seq(X)
         /\ q = <<Head(q)>> \o Tail(q)
         /\ \A h : Contains(q, h) <=> (h = Head(q) \/ Contains(Tail(q), h))
         /\ Once(q) => Once(Tail(q)) /\ ~ Contains(Tail(q), Head(q))
         /\ Tail(q) # <<>> => Tail(q)[Len(Tail(q))] = q[Len(q)]
<1> DEFINE t == Tail(q)  g == Head(q)
<1>1. /\ g \in X /\ t \in Seq(X) /\ Len(t) = Len(q) - 1 /\ Len(q) \in Nat \ {0}
      /\ \A i \in 1 .. Len(t) : t[i] = q[i + 1]
  BY HeadTailProperties, EmptySeq
<1>2. q = <<g>> \o t
  OBVIOUS
<1>3. \A h : Contains(q, h) <=> (h = g \/ Contains(t, h))
  <2> HIDE DEF t, g
  <2> QED BY <1>1, <1>2, ConsIs
<1>4. ASSUME Once(q) PROVE Once(t) /\ ~ Contains(t, g)
  <2>1. q[1] = g
    OBVIOUS
  <2>2. Len(t) \in Nat /\ Len(q) = Len(t) + 1
    BY <1>1
  <2> HIDE DEF t, g
  <2>3. ASSUME NEW i \in 1 .. Len(t)
        PROVE  i + 1 \in 1 .. Len(q) /\ 1 \in 1 .. Len(q) /\ i + 1 # 1 /\ t[i] = q[i + 1]
    BY <1>1, <2>2
  <2>4. ASSUME NEW i \in 1 .. Len(t), NEW j \in 1 .. Len(t), t[i] = t[j] PROVE i = j
    <3>1. i + 1 = j + 1
      BY <1>4, <2>3, <2>4 DEF Once
    <3> QED BY <2>2, <3>1
  <2>5. ~ Contains(t, g)
    BY <1>4, <2>1, <2>3 DEF Once, Contains
  <2> QED BY <2>4, <2>5 DEF Once
<1>5. t # <<>> => t[Len(t)] = q[Len(q)]
  <2> HIDE DEF t, g
  <2> SUFFICES ASSUME t # <<>> PROVE t[Len(t)] = q[Len(q)]
    OBVIOUS
  <2>1. Len(t) \in Nat \ {0}
    BY <1>1, EmptySeq
  <2>2. Len(t) \in 1 .. Len(t) /\ Len(t) + 1 = Len(q)
    BY <1>1, <2>1
  <2> QED BY <1>1, <2>2
<1> QED BY <1>1, <1>2, <1>3, <1>4, <1>5

(* What is left of the hooks of a goal that is suspended anew: none of its *)
(* own, and all the others.                                                *)
LEMMA WithoutIs ==
  ASSUME NEW X, NEW s \in Seq(X), NEW g
  PROVE  /\ Without(s, g) \in Seq(X)
         /\ \A h : Contains(Without(s, g), h) <=> (Contains(s, h) /\ h # g)
<1> DEFINE n == Len(s)
<1>1. n \in Nat /\ DOMAIN s = 1 .. n /\ \A i \in 1 .. n : s[i] \in X
  BY LenProperties, ElementOfSeq
<1>2. PICK w : /\ w[0] = <<>>
               /\ \A k \in 1 .. n : w[k] = IF s[k] = g THEN w[k-1] ELSE Append(w[k-1], s[k])
               /\ Without(s, g) = w[n]
  <2>1. n \in Nat /\ DOMAIN s = 1 .. n
    BY <1>1
  <2> HIDE DEF n
  <2>2. UnrolledWithout(s, g, n)
    BY <2>1, WithoutFold
  <2> QED BY <2>2 DEF UnrolledWithout
<1> DEFINE Right(k) == /\ w[k] \in Seq(X)
                       /\ \A h : Contains(w[k], h) <=> (h # g /\ \E i \in 1 .. k : s[i] = h)
           T == {k \in 0 .. n : Right(k)}
<1>3. 0 \in T
  <2>1. 0 \in 0 .. n /\ 1 .. 0 = {}
    BY <1>1
  <2>2. \A h : ~ Contains(<<>>, h)
    BY DEF Contains
  <2>3. w[0] \in Seq(X) /\ \A h : ~ Contains(w[0], h)
    BY <1>2, <2>2
  <2>4. Right(0)
    BY <2>1, <2>3
  <2> QED BY <2>1, <2>4
<1>4. ASSUME NEW k \in 0 .. n-1, k \in T PROVE k + 1 \in T
  <2>1. /\ k + 1 \in 1 .. n /\ k + 1 - 1 = k /\ k + 1 \in 0 .. n
        /\ \A i : i \in 1 .. k + 1 <=> (i \in 1 .. k \/ i = k + 1)
    BY <1>1
  <2>2. w[k + 1] = IF s[k + 1] = g THEN w[k] ELSE Append(w[k], s[k + 1])
    BY <1>2, <2>1
  <2>3. Right(k) /\ s[k + 1] \in X
    BY <1>1, <1>4, <2>1
  <2>4. CASE s[k + 1] = g
    BY <2>1, <2>2, <2>3, <2>4
  <2>5. CASE s[k + 1] # g
    <3>1. w[k + 1] = Append(w[k], s[k + 1])
      BY <2>2, <2>5
    <3>2. w[k] \in Seq(X)
      BY <2>3
    <3>3. /\ w[k + 1] \in Seq(X)
          /\ \A h : Contains(w[k + 1], h) <=> (h = s[k + 1] \/ Contains(w[k], h))
      BY <2>3, <3>1, <3>2, AppendIs
    <3> QED BY <2>1, <2>3, <2>5, <3>3
  <2> QED BY <2>4, <2>5
<1>5. n \in T
  <2> HIDE DEF T, n
  <2> QED BY <1>1, <1>3, <1>4, InductTo
<1>6. Right(n)
  BY <1>5
<1> QED BY <1>2, <1>6 DEF Contains

-----------------------------------------------------------------------------
(* The records of prioq.                                                   *)
AnyGoal == Goal \cup {TopGoal}
QueueRecord == [prio : Nat \cup {-1}, q : Seq(AnyGoal)]
Descending(Q) == \A i, j \in 1 .. Len(Q) : i < j => Q[i].prio > Q[j].prio
PrioqOK(Q) ==
  /\ Q \in Seq(QueueRecord) /\ Descending(Q)
  /\ Q # <<>> /\ Q[Len(Q)] = Sentinel
HasPrio(Q, p) == \E i \in 1 .. Len(Q) : Q[i].prio = p
(* The queue of priority p, empty if there is no record for p.             *)
At(Q, p) ==
  IF HasPrio(Q, p) THEN Q[CHOOSE i \in 1 .. Len(Q) : Q[i].prio = p].q ELSE <<>>

LEMMA InsertIs ==
  ASSUME NEW X, NEW s \in Seq(X), NEW r \in X, NEW i \in 1 .. Len(s)
  PROVE  /\ InsertAt(s, i, r) \in Seq(X) /\ Len(InsertAt(s, i, r)) = Len(s) + 1
         /\ \A j \in 1 .. i-1 : InsertAt(s, i, r)[j] = s[j]
         /\ InsertAt(s, i, r)[i] = r
         /\ \A j \in i .. Len(s) : InsertAt(s, i, r)[j + 1] = s[j]
<1> DEFINE n == Len(s)
           a == SubSeq(s, 1, i-1)
           b == SubSeq(s, i, n)
           t == a \o <<r>>
           c == t \o b
<1>1. n \in Nat /\ i \in 1 .. n /\ i \in Int /\ i - 1 \in Nat
  BY LenProperties
<1>2. /\ a \in Seq(X) /\ Len(a) = i - 1
      /\ \A j \in 1 .. i-1 : a[j] = s[j]
  <2>1. \A j \in 1 .. i-1 : s[j] \in X
    BY ElementOfSeq
  <2>2. /\ a \in Seq(X) /\ Len(a) = IF 1 <= i - 1 THEN i - 1 - 1 + 1 ELSE 0
        /\ \A j \in 1 .. i-1-1+1 : a[j] = s[1 + j - 1]
    BY <1>1, <2>1, SubSeqProperties
  <2> HIDE DEF a
  <2>3. Len(a) = i - 1
    BY <1>1, <2>2
  <2>4. ASSUME NEW j \in 1 .. i-1 PROVE a[j] = s[j]
    <3>1. j \in 1 .. i-1-1+1 /\ 1 + j - 1 = j
      BY <1>1
    <3> QED BY <2>2, <3>1
  <2> QED BY <2>2, <2>3, <2>4
<1>3. /\ b \in Seq(X) /\ Len(b) = n - i + 1
      /\ \A j \in 1 .. n-i+1 : b[j] = s[i + j - 1]
  <2>1. \A j \in i .. n : s[j] \in X
    BY <1>1, ElementOfSeq
  <2>2. i <= n
    BY <1>1
  <2> QED BY <1>1, <2>1, <2>2, SubSeqProperties
<1>4. <<r>> \in Seq(X) /\ Len(<<r>>) = 1 /\ <<r>>[1] = r
  OBVIOUS
<1>5. /\ t \in Seq(X) /\ Len(t) = i
      /\ \A j \in 1 .. i-1 : t[j] = s[j]
      /\ t[i] = r
  <2> HIDE DEF a
  <2>1. /\ t \in Seq(X) /\ Len(t) = Len(a) + 1
        /\ \A j \in 1 .. Len(a) + 1 : t[j] = IF j <= Len(a) THEN a[j] ELSE <<r>>[j - Len(a)]
    BY <1>2, <1>4, ConcatProperties
  <2> HIDE DEF t
  <2>2. \A j \in 1 .. i : t[j] = IF j <= i - 1 THEN a[j] ELSE <<r>>[j - (i - 1)]
    BY <1>1, <1>2, <2>1
  <2>3. t[i] = <<r>>[1]
    BY <1>1, <2>2
  <2>4. \A j \in 1 .. i-1 : t[j] = a[j]
    BY <1>1, <2>2
  <2> QED BY <1>1, <1>2, <1>4, <2>1, <2>3, <2>4
<1>6. /\ c \in Seq(X) /\ Len(c) = n + 1
      /\ \A j \in 1 .. i : c[j] = t[j]
      /\ \A j \in i .. n : c[j + 1] = s[j]
  <2> HIDE DEF t, b
  <2>1. /\ c \in Seq(X) /\ Len(c) = Len(t) + Len(b)
        /\ \A j \in 1 .. Len(t) + Len(b) : c[j] = IF j <= Len(t) THEN t[j] ELSE b[j - Len(t)]
    BY <1>3, <1>5, ConcatProperties
  <2> HIDE DEF c
  <2>2. i + (n - i + 1) = n + 1 /\ n - i + 1 \in Nat
    BY <1>1
  <2>3. \A j \in 1 .. n + 1 : c[j] = IF j <= i THEN t[j] ELSE b[j - i]
    BY <1>3, <1>5, <2>1, <2>2
  <2>4. ASSUME NEW j \in i .. n PROVE c[j + 1] = s[j]
    <3>1. /\ j + 1 \in 1 .. n + 1 /\ ~ (j + 1 <= i)
          /\ j + 1 - i \in 1 .. n-i+1 /\ i + (j + 1 - i) - 1 = j
      BY <1>1
    <3>2. c[j + 1] = b[j + 1 - i]
      BY <2>3, <3>1
    <3> HIDE DEF n
    <3> QED BY <1>3, <3>1, <3>2
  <2>5. \A j \in 1 .. i : c[j] = t[j]
    BY <1>1, <2>3
  <2> QED BY <1>3, <1>5, <2>1, <2>2, <2>4, <2>5
<1>7. InsertAt(s, i, r) = c
  BY DEF InsertAt
<1> HIDE DEF c, t
<1>8. i \in 1 .. i /\ \A j \in 1 .. i-1 : j \in 1 .. i
  BY <1>1
<1> QED BY <1>5, <1>6, <1>7, <1>8

LEMMA RecordOf ==
  ASSUME NEW Q, PrioqOK(Q)
  PROVE  /\ Len(Q) \in Nat \ {0}
         /\ \A i \in 1 .. Len(Q) : Q[i] \in QueueRecord /\ Q[i] = Record(Q[i].prio, Q[i].q)
         /\ \A i \in 1 .. Len(Q) : Q[i].prio \in Nat \cup {-1} /\ Q[i].q \in Seq(AnyGoal)
         /\ \A i \in 1 .. Len(Q) : Q[i].prio \in Int
         /\ \A i \in 1 .. Len(Q) - 1 : Q[i].prio \in Nat
         /\ Q[Len(Q)].prio = -1 /\ Q[Len(Q)].q = <<>>
<1>1. Len(Q) \in Nat \ {0} /\ \A i \in 1 .. Len(Q) : Q[i] \in QueueRecord
  BY EmptySeq, LenProperties, ElementOfSeq DEF PrioqOK
<1>2. \A i \in 1 .. Len(Q) : /\ Q[i].prio \in Nat \cup {-1} /\ Q[i].q \in Seq(AnyGoal)
                             /\ Q[i] = Record(Q[i].prio, Q[i].q)
  BY <1>1 DEF QueueRecord, Record
<1>3. \A i \in 1 .. Len(Q) : Q[i].prio \in Int
  BY <1>2
<1>4. Q[Len(Q)].prio = -1 /\ Q[Len(Q)].q = <<>>
  BY DEF PrioqOK, Sentinel, Record
<1>5. ASSUME NEW i \in 1 .. Len(Q) - 1 PROVE Q[i].prio \in Nat
  <2>1. i \in 1 .. Len(Q) /\ Len(Q) \in 1 .. Len(Q) /\ i < Len(Q)
    BY <1>1
  <2>2. Q[i].prio > -1
    BY <1>4, <2>1 DEF PrioqOK, Descending
  <2> QED BY <1>2, <2>1, <2>2
<1> QED BY <1>1, <1>2, <1>3, <1>4, <1>5

LEMMA AtIs ==
  ASSUME NEW Q, PrioqOK(Q), NEW i \in 1 .. Len(Q)
  PROVE  HasPrio(Q, Q[i].prio) /\ At(Q, Q[i].prio) = Q[i].q
<1>1. HasPrio(Q, Q[i].prio)
  BY DEF HasPrio
<1> DEFINE j == CHOOSE k \in 1 .. Len(Q) : Q[k].prio = Q[i].prio
<1>2. j \in 1 .. Len(Q) /\ Q[j].prio = Q[i].prio
  OBVIOUS
<1> HIDE DEF j
<1>3. j = i
  <2>1. Q[i].prio \in Int /\ Len(Q) \in Nat
    BY RecordOf
  <2>2. ~ (j < i) /\ ~ (i < j)
    BY <1>2, <2>1 DEF PrioqOK, Descending
  <2> QED BY <1>2, <2>1, <2>2
<1> QED BY <1>1, <1>3 DEF At, j

LEMMA AtType ==
  ASSUME NEW Q, PrioqOK(Q), NEW p
  PROVE  At(Q, p) \in Seq(AnyGoal)
<1>1. CASE HasPrio(Q, p)
  BY <1>1, AtIs, RecordOf DEF HasPrio
<1>2. CASE ~ HasPrio(Q, p)
  BY <1>2 DEF At
<1> QED BY <1>1, <1>2

(* Two such lists are told apart by their records.                         *)
LEMMA AtUnless ==
  ASSUME NEW Q, PrioqOK(Q), NEW R, PrioqOK(R), NEW p,
         \A i \in 1 .. Len(Q) : Q[i].prio = p => \E j \in 1 .. Len(R) : R[j] = Q[i],
         \A j \in 1 .. Len(R) : R[j].prio = p => \E i \in 1 .. Len(Q) : R[j] = Q[i]
  PROVE  At(R, p) = At(Q, p) /\ (HasPrio(R, p) <=> HasPrio(Q, p))
<1>1. CASE HasPrio(Q, p)
  <2>1. PICK i \in 1 .. Len(Q) : Q[i].prio = p
    BY <1>1 DEF HasPrio
  <2>2. PICK j \in 1 .. Len(R) : R[j] = Q[i]
    BY <2>1
  <2> QED BY <2>1, <2>2, AtIs
<1>2. CASE ~ HasPrio(Q, p)
  BY <1>2 DEF HasPrio, At
<1> QED BY <1>1, <1>2

LEMMA FirstIs ==
  ASSUME NEW n \in Nat, NEW I \in SUBSET (1 .. n), n \in I
  PROVE  LET i == IF I # {} THEN Min(I) ELSE 0
         IN  i \in I /\ \A j \in 1 .. i-1 : j \notin I
<1>1. I \in SUBSET Nat /\ I # {}
  OBVIOUS
<1>2. Min(I) \in I /\ \A k \in I : Min(I) <= k
  BY <1>1, MinIs
<1> DEFINE m == Min(I)
<1> HIDE DEF m
<1>3. m \in I /\ \A k \in I : m <= k
  BY <1>2 DEF m
<1>4. m \in Nat /\ \A j \in 1 .. m-1 : j \notin I
  BY <1>3
<1> QED BY <1>1, <1>3, <1>4 DEF m

LEMMA FirstNotAboveIs ==
  ASSUME NEW S, PrioqOK(S.prioq), NEW p \in Nat
  PROVE  LET i == FirstNotAbove(S, p)  Q == S.prioq
         IN  /\ i \in 1 .. Len(Q) /\ Q[i].prio <= p
             /\ \A j \in 1 .. i-1 : Q[j].prio > p
<1> DEFINE Q == S.prioq  n == Len(Q)  I == {j \in 1 .. n : Q[j].prio <= p}
           i == IF I # {} THEN Min(I) ELSE 0
<1>1. n \in Nat /\ n # 0 /\ Q[n].prio = -1 /\ \A j \in 1 .. n : Q[j].prio \in Int
  BY RecordOf
<1>2. n \in I /\ I \in SUBSET (1 .. n)
  BY <1>1
<1>3. i \in I /\ \A j \in 1 .. i-1 : j \notin I
  <2> HIDE DEF I, n
  <2> QED BY <1>1, <1>2, FirstIs
<1>4. FirstNotAbove(S, p) = i
  BY Zenon DEF FirstNotAbove, SelectInSeq
<1> HIDE DEF i
<1>5. i \in 1 .. n /\ Q[i].prio <= p
  BY <1>3
<1>6. ASSUME NEW j \in 1 .. i-1 PROVE Q[j].prio > p
  <2>1. j \in 1 .. n
    BY <1>5, <1>1
  <2>2. ~ (Q[j].prio <= p)
    BY <1>3, <2>1
  <2> QED BY <1>1, <2>1, <2>2
<1> QED BY <1>4, <1>5, <1>6

LEMMA FirstBelowIs ==
  ASSUME NEW S, PrioqOK(S.prioq), NEW p \in Nat
  PROVE  LET i == FirstBelow(S, p)  Q == S.prioq
         IN  /\ i \in 1 .. Len(Q) /\ Q[i].prio < p
             /\ \A j \in 1 .. i-1 : Q[j].prio >= p
<1> DEFINE Q == S.prioq  n == Len(Q)  I == {j \in 1 .. n : Q[j].prio < p}
           i == IF I # {} THEN Min(I) ELSE 0
<1>1. n \in Nat /\ n # 0 /\ Q[n].prio = -1 /\ \A j \in 1 .. n : Q[j].prio \in Int
  BY RecordOf
<1>2. n \in I /\ I \in SUBSET (1 .. n)
  BY <1>1
<1>3. i \in I /\ \A j \in 1 .. i-1 : j \notin I
  <2> HIDE DEF I, n
  <2> QED BY <1>1, <1>2, FirstIs
<1>4. FirstBelow(S, p) = i
  BY Zenon DEF FirstBelow, SelectInSeq
<1> HIDE DEF i
<1>5. i \in 1 .. n /\ Q[i].prio < p
  BY <1>3
<1>6. ASSUME NEW j \in 1 .. i-1 PROVE Q[j].prio >= p
  <2>1. j \in 1 .. n
    BY <1>5, <1>1
  <2>2. ~ (Q[j].prio < p)
    BY <1>3, <2>1
  <2> QED BY <1>1, <2>1, <2>2
<1> QED BY <1>4, <1>5, <1>6

(* R is the queue records Q with the goals q at priority p.                *)
Stored(Q, R, p, q) ==
  /\ PrioqOK(R)
  /\ \A r \in Int : At(R, r) = IF r = p THEN q ELSE At(Q, r)
  /\ \A r \in Int : HasPrio(R, r) <=> (r = p \/ HasPrio(Q, r))

LEMMA InsertRecord ==
  ASSUME NEW Q, PrioqOK(Q), NEW p \in Nat, NEW q \in Seq(AnyGoal), NEW i \in 1 .. Len(Q),
         Q[i].prio < p, \A j \in 1 .. i-1 : Q[j].prio > p
  PROVE  Stored(Q, InsertAt(Q, i, Record(p, q)), p, q)
<1> DEFINE n == Len(Q)  e == Record(p, q)  R == InsertAt(Q, i, e)
<1>1. e \in QueueRecord /\ e.prio = p /\ e.q = q /\ Q \in Seq(QueueRecord)
  BY DEF QueueRecord, Record, PrioqOK
<1>2. /\ n \in Nat /\ i \in 1 .. n /\ Q[n] = Sentinel /\ n # 0
      /\ \A j \in 1 .. n : Q[j].prio \in Int
  BY RecordOf DEF PrioqOK
<1>3. /\ R \in Seq(QueueRecord) /\ Len(R) = n + 1
      /\ \A j \in 1 .. i-1 : R[j] = Q[j]
      /\ R[i] = e
      /\ \A j \in i .. n : R[j + 1] = Q[j]
  <2> HIDE DEF e
  <2> QED BY <1>1, InsertIs
<1> HIDE DEF R, e
<1>4. \A j \in 1 .. n+1 : j \in 1 .. i-1 \/ j = i \/ (j - 1 \in i .. n /\ j - 1 + 1 = j)
  BY <1>2
<1>5. \A j \in i .. n : Q[j].prio < p
  <2> SUFFICES ASSUME NEW j \in i .. n PROVE Q[j].prio < p
    OBVIOUS
  <2>1. j \in 1 .. n /\ (j = i \/ i < j)
    BY <1>2
  <2>2. i < j => Q[i].prio > Q[j].prio
    BY <1>2, <2>1 DEF PrioqOK, Descending
  <2> QED BY <1>2, <2>1, <2>2
<1>6. Descending(R)
  <2> SUFFICES ASSUME NEW j \in 1 .. n+1, NEW k \in 1 .. n+1, j < k
               PROVE  R[j].prio > R[k].prio
    BY <1>3 DEF Descending
  <2> DEFINE D == \A a, b \in 1 .. n : a < b => Q[a].prio > Q[b].prio
  <2>1. D
    BY DEF PrioqOK, Descending
  <2>2. CASE j \in 1 .. i-1 /\ k \in 1 .. i-1
    <3>1. j \in 1 .. n /\ k \in 1 .. n
      BY <1>2, <2>2
    <3> QED BY <1>3, <2>1, <2>2, <3>1
  <2>3. CASE j \in 1 .. i-1 /\ k = i
    BY <1>1, <1>3, <2>3
  <2>4. CASE j \in 1 .. i-1 /\ k - 1 \in i .. n /\ k - 1 + 1 = k
    <3>1. j \in 1 .. n /\ k - 1 \in 1 .. n /\ j < k - 1
      BY <1>2, <2>4
    <3>2. R[k] = Q[k - 1] /\ R[j] = Q[j]
      BY <1>3, <2>4
    <3> QED BY <2>1, <3>1, <3>2
  <2>5. CASE j = i /\ k - 1 \in i .. n /\ k - 1 + 1 = k
    <3>1. R[k] = Q[k - 1] /\ R[j].prio = p /\ Q[k - 1].prio \in Int
      BY <1>1, <1>2, <1>3, <2>5
    <3> QED BY <1>5, <2>5, <3>1
  <2>6. CASE j - 1 \in i .. n /\ j - 1 + 1 = j /\ k - 1 \in i .. n /\ k - 1 + 1 = k
    <3>1. j - 1 \in 1 .. n /\ k - 1 \in 1 .. n /\ j - 1 < k - 1
      BY <1>2, <2>6
    <3>2. R[k] = Q[k - 1] /\ R[j] = Q[j - 1]
      BY <1>3, <2>6
    <3> QED BY <2>1, <3>1, <3>2
  <2>7. ~ (j = i /\ k \in 1 .. i) /\ ~ (j - 1 \in i .. n /\ k \in 1 .. i)
    BY <1>2
  <2>8. k \in 1 .. i-1 \/ k = i => k \in 1 .. i
    BY <1>2
  <2> QED BY <1>4, <2>2, <2>3, <2>4, <2>5, <2>6, <2>7, <2>8
<1>7. PrioqOK(R)
  <2>1. R[n + 1] = Q[n]
    BY <1>2, <1>3
  <2>2. R # <<>>
    BY <1>2, <1>3
  <2> QED BY <1>2, <1>3, <1>6, <2>1, <2>2 DEF PrioqOK
<1>8. ASSUME NEW r \in Int, r # p PROVE At(R, r) = At(Q, r) /\ (HasPrio(R, r) <=> HasPrio(Q, r))
  <2>1. \A j \in 1 .. Len(Q) : Q[j].prio = r => \E k \in 1 .. Len(R) : R[k] = Q[j]
    <3> SUFFICES ASSUME NEW j \in 1 .. n PROVE \E k \in 1 .. Len(R) : R[k] = Q[j]
      OBVIOUS
    <3>1. j \in 1 .. i-1 \/ j \in i .. n
      BY <1>2
    <3>2. CASE j \in 1 .. i-1
      <4>1. j \in 1 .. Len(R)
        BY <1>2, <1>3, <3>2
      <4> QED BY <1>3, <3>2, <4>1
    <3>3. CASE j \in i .. n
      <4>1. j + 1 \in 1 .. Len(R)
        BY <1>2, <1>3, <3>3
      <4> QED BY <1>3, <3>3, <4>1
    <3> QED BY <3>1, <3>2, <3>3
  <2>2. \A k \in 1 .. Len(R) : R[k].prio = r => \E j \in 1 .. Len(Q) : R[k] = Q[j]
    <3> SUFFICES ASSUME NEW k \in 1 .. n+1, R[k].prio = r
                 PROVE  \E j \in 1 .. n : R[k] = Q[j]
      BY <1>3
    <3>1. CASE k \in 1 .. i-1
      <4>1. k \in 1 .. n
        BY <1>2, <3>1
      <4> QED BY <1>3, <3>1, <4>1
    <3>2. CASE k = i
      BY <1>1, <1>3, <1>8, <3>2
    <3>3. CASE k - 1 \in i .. n /\ k - 1 + 1 = k
      <4>1. k - 1 \in 1 .. n
        BY <1>2, <3>3
      <4> QED BY <1>3, <3>3, <4>1
    <3> QED BY <1>4, <3>1, <3>2, <3>3
  <2> QED BY <1>7, <2>1, <2>2, AtUnless
<1>9. At(R, p) = q /\ HasPrio(R, p)
  <2>1. i \in 1 .. Len(R)
    BY <1>2, <1>3
  <2> QED BY <1>1, <1>3, <1>7, <2>1, AtIs
<1>10. Stored(Q, R, p, q)
  BY <1>7, <1>8, <1>9 DEF Stored
<1> QED BY <1>10 DEF R, e

LEMMA SetRecord ==
  ASSUME NEW Q, PrioqOK(Q), NEW p \in Nat, NEW q \in Seq(AnyGoal), NEW i \in 1 .. Len(Q),
         Q[i].prio = p
  PROVE  Stored(Q, [Q EXCEPT ![i].q = q], p, q)
<1> DEFINE n == Len(Q)  e == Record(p, q)  R == [Q EXCEPT ![i].q = q]
<1>1. e \in QueueRecord /\ e.prio = p /\ e.q = q /\ Q \in Seq(QueueRecord)
  BY DEF QueueRecord, Record, PrioqOK
<1>2. /\ n \in Nat /\ i \in 1 .. n /\ Q[n] = Sentinel /\ Q[n].prio = -1 /\ n # 0
      /\ \A j \in 1 .. n : Q[j].prio \in Int
      /\ Q[i] = Record(p, Q[i].q)
  BY RecordOf DEF PrioqOK
<1>3. R = [Q EXCEPT ![i] = e]
  <2>1. [Q[i] EXCEPT !.q = q] = e
    <3> DEFINE old == Q[i].q
    <3> HIDE DEF old
    <3>1. Q[i] = Record(p, old)
      BY <1>2 DEF old
    <3> QED BY <3>1 DEF Record
  <2> QED BY <2>1
<1>4. /\ R \in Seq(QueueRecord) /\ Len(R) = n
      /\ \A j \in 1 .. n : R[j] = IF j = i THEN e ELSE Q[j]
  <2> HIDE DEF e, R
  <2> QED BY <1>1, <1>3, ExceptSeq
<1> HIDE DEF R, e
<1>5. i # n /\ n \in 1 .. n
  BY <1>2
<1>6. PrioqOK(R)
  <2>1. \A j \in 1 .. n : R[j].prio = Q[j].prio
    BY <1>1, <1>4
  <2>2. Descending(R)
    BY <1>4, <2>1 DEF PrioqOK, Descending
  <2>3. R # <<>> /\ R[Len(R)] = Sentinel
    BY <1>2, <1>4, <1>5
  <2> QED BY <1>4, <2>2, <2>3 DEF PrioqOK
<1>7. ASSUME NEW r \in Int, r # p PROVE At(R, r) = At(Q, r) /\ (HasPrio(R, r) <=> HasPrio(Q, r))
  <2>1. \A j \in 1 .. Len(Q) : Q[j].prio = r => \E k \in 1 .. Len(R) : R[k] = Q[j]
    BY <1>4, <1>7
  <2>2. \A k \in 1 .. Len(R) : R[k].prio = r => \E j \in 1 .. Len(Q) : R[k] = Q[j]
    BY <1>1, <1>4, <1>7
  <2> QED BY <1>6, <2>1, <2>2, AtUnless
<1>8. At(R, p) = q /\ HasPrio(R, p) /\ HasPrio(Q, p)
  <2>1. R[i] = e /\ i \in 1 .. Len(R)
    BY <1>4
  <2> QED BY <1>1, <1>6, <2>1, AtIs
<1>9. Stored(Q, R, p, q)
  BY <1>6, <1>7, <1>8 DEF Stored
<1> QED BY <1>9 DEF R

LEMMA DropRecord ==
  ASSUME NEW Q, PrioqOK(Q), NEW s \in Nat, HasPrio(Q, s)
  PROVE  LET top == Head(Q)  R == Tail(Q)
         IN  /\ PrioqOK(R)
             /\ top.prio \in Nat /\ top.q \in Seq(AnyGoal)
             /\ \A r \in Int : At(Q, r) = IF r = top.prio THEN top.q ELSE At(R, r)
             /\ \A r \in Int : HasPrio(Q, r) <=> (r = top.prio \/ HasPrio(R, r))
             /\ \A r \in Int : HasPrio(R, r) => r < top.prio
<1> DEFINE n == Len(Q)  top == Head(Q)  R == Tail(Q)
<1>1. /\ n \in Nat \ {0} /\ Q[n] = Sentinel /\ Q[n].prio = -1 /\ Q \in Seq(QueueRecord)
      /\ \A j \in 1 .. n : Q[j].prio \in Int
      /\ \A j \in 1 .. n : Q[j].q \in Seq(AnyGoal)
      /\ \A j \in 1 .. n-1 : Q[j].prio \in Nat
      /\ Q # <<>>
  BY RecordOf DEF PrioqOK
<1>2. n - 1 \in Nat \ {0}
  <2>1. PICK j \in 1 .. n : Q[j].prio = s
    BY DEF HasPrio
  <2>2. j # n
    BY <1>1, <2>1
  <2> QED BY <1>1, <2>1, <2>2
<1>3. /\ R \in Seq(QueueRecord) /\ Len(R) = n - 1
      /\ \A j \in 1 .. n-1 : R[j] = Q[j + 1]
      /\ top = Q[1]
  BY <1>1, HeadTailProperties
<1> HIDE DEF R, top
<1>4. \A j \in 1 .. n-1 : j + 1 \in 1 .. n
  BY <1>1
<1>5. PrioqOK(R)
  <2>1. Descending(R)
    <3> SUFFICES ASSUME NEW j \in 1 .. n-1, NEW k \in 1 .. n-1, j < k
                 PROVE  R[j].prio > R[k].prio
      BY <1>3 DEF Descending
    <3>1. j + 1 < k + 1 /\ j + 1 \in 1 .. n /\ k + 1 \in 1 .. n
      BY <1>1
    <3>2. Q[j + 1].prio > Q[k + 1].prio
      BY <3>1 DEF PrioqOK, Descending
    <3> QED BY <1>3, <3>2
  <2>2. R # <<>> /\ R[Len(R)] = Sentinel
    <3>1. n - 1 \in 1 .. n-1 /\ n - 1 + 1 = n
      <4> HIDE DEF n
      <4> QED BY <1>1, <1>2
    <3> QED BY <1>1, <1>2, <1>3, <3>1
  <2> QED BY <1>3, <2>1, <2>2 DEF PrioqOK
<1>6. top.prio \in Nat /\ top.q \in Seq(AnyGoal) /\ 1 \in 1 .. n
  BY <1>1, <1>2, <1>3
<1>7. ASSUME NEW r \in Int, HasPrio(R, r) PROVE r < top.prio
  <2>1. PICK j \in 1 .. n-1 : Q[j + 1].prio = r
    BY <1>3, <1>7 DEF HasPrio
  <2>2. j + 1 \in 1 .. n /\ 1 < j + 1
    BY <1>1
  <2>3. Q[1].prio > r
    BY <1>6, <2>1, <2>2 DEF PrioqOK, Descending
  <2> QED BY <1>1, <1>3, <1>6, <2>3
<1>8. At(Q, top.prio) = top.q /\ HasPrio(Q, top.prio)
  BY <1>3, <1>6, AtIs
<1>9. ASSUME NEW r \in Int, r # top.prio
      PROVE  At(R, r) = At(Q, r) /\ (HasPrio(R, r) <=> HasPrio(Q, r))
  <2>1. \A j \in 1 .. Len(Q) : Q[j].prio = r => \E k \in 1 .. Len(R) : R[k] = Q[j]
    <3> SUFFICES ASSUME NEW j \in 1 .. n, Q[j].prio = r
                 PROVE  \E k \in 1 .. n-1 : R[k] = Q[j]
      BY <1>3
    <3>1. j # 1
      BY <1>3, <1>9
    <3>2. j - 1 \in 1 .. n-1 /\ j - 1 + 1 = j
      BY <1>1, <3>1
    <3>3. R[j - 1] = Q[j]
      BY <1>3, <3>2
    <3> QED BY <3>2, <3>3
  <2>2. \A k \in 1 .. Len(R) : R[k].prio = r => \E j \in 1 .. Len(Q) : R[k] = Q[j]
    BY <1>3, <1>4
  <2> QED BY <1>5, <2>1, <2>2, AtUnless
<1> QED BY <1>5, <1>6, <1>7, <1>8, <1>9 DEF R, top

-----------------------------------------------------------------------------
(* Where the goals are: F[p] is the queue of priority p, R the resumed     *)
(* goals.                                                                  *)
Queues == [Int -> Seq(AnyGoal)]
Somewhere(F, R, g) == Contains(R, g) \/ \E p \in Int : Contains(F[p], g)
Unique(F, R) ==
  /\ Once(R) /\ \A p \in Int : Once(F[p])
  /\ \A g : \A p \in Int : ~ (Contains(R, g) /\ Contains(F[p], g))
  /\ \A g : \A p, r \in Int : Contains(F[p], g) /\ Contains(F[r], g) => p = r
Bottom(F) == F[0] # <<>> /\ F[0][Len(F[0])] = TopGoal

LEMMA PutQueue ==
  ASSUME NEW F \in Queues, NEW R \in Seq(AnyGoal), NEW g \in AnyGoal, NEW p \in Int,
         Unique(F, R), ~ Somewhere(F, R, g)
  PROVE  LET G == [F EXCEPT ![p] = <<g>> \o @]
         IN  /\ G \in Queues /\ Unique(G, R)
             /\ \A h : Somewhere(G, R, h) <=> (h = g \/ Somewhere(F, R, h))
             /\ \A h : \A r \in Int : Contains(G[r], h) <=> ((r = p /\ h = g) \/ Contains(F[r], h))
             /\ Bottom(F) => Bottom(G)
<1> DEFINE c == <<g>> \o F[p]  G == [F EXCEPT ![p] = c]
<1>1. F[p] \in Seq(AnyGoal) /\ ~ Contains(F[p], g) /\ Once(F[p])
  BY DEF Queues, Somewhere, Unique
<1>2. /\ c \in Seq(AnyGoal) /\ c # <<>>
      /\ \A h : Contains(c, h) <=> (h = g \/ Contains(F[p], h))
      /\ Once(c)
      /\ F[p] # <<>> => c[Len(c)] = F[p][Len(F[p])]
  BY <1>1, ConsIs
<1> HIDE DEF c
<1>3. G \in Queues /\ \A r \in Int : G[r] = IF r = p THEN c ELSE F[r]
  BY <1>2 DEF Queues
<1> HIDE DEF G
<1>4. \A h : \A r \in Int : Contains(G[r], h) <=> ((r = p /\ h = g) \/ Contains(F[r], h))
  BY <1>2, <1>3
<1>5. \A h : Somewhere(G, R, h) <=> (h = g \/ Somewhere(F, R, h))
  BY <1>4 DEF Somewhere
<1>6. Unique(G, R)
  <2>1. \A r \in Int : Once(G[r])
    BY <1>2, <1>3 DEF Unique
  <2>2. \A h : \A r \in Int : ~ (Contains(R, h) /\ Contains(G[r], h))
    BY <1>4 DEF Unique, Somewhere
  <2>3. \A h : \A r, s \in Int : Contains(G[r], h) /\ Contains(G[s], h) => r = s
    <3>1. \A r \in Int : ~ Contains(F[r], g)
      BY DEF Somewhere
    <3>2. \A h : \A r, s \in Int : Contains(F[r], h) /\ Contains(F[s], h) => r = s
      BY DEF Unique
    <3> SUFFICES ASSUME NEW h, NEW r \in Int, NEW s \in Int,
                        Contains(G[r], h), Contains(G[s], h)
                 PROVE  r = s
      OBVIOUS
    <3>3. CASE h = g
      BY <1>4, <3>1, <3>3
    <3>4. CASE h # g
      BY <1>4, <3>2, <3>4
    <3> QED BY <3>3, <3>4
  <2> QED BY <2>1, <2>2, <2>3 DEF Unique
<1>7. Bottom(F) => Bottom(G)
  BY <1>2, <1>3 DEF Bottom
<1> QED BY <1>3, <1>4, <1>5, <1>6, <1>7 DEF G, c

LEMMA PutResumed ==
  ASSUME NEW F \in Queues, NEW R \in Seq(AnyGoal), NEW g \in AnyGoal,
         Unique(F, R), ~ Somewhere(F, R, g),
         NEW T, T = <<g>> \o R \/ T = Append(R, g)
  PROVE  /\ Unique(F, T)
         /\ \A h : Somewhere(F, T, h) <=> (h = g \/ Somewhere(F, R, h))
         /\ \A h : Contains(T, h) <=> (h = g \/ Contains(R, h))
<1>1. ~ Contains(R, g) /\ Once(R)
  BY DEF Somewhere, Unique
<1>2. /\ \A h : Contains(T, h) <=> (h = g \/ Contains(R, h))
      /\ Once(T)
  <2>1. CASE T = <<g>> \o R
    BY <1>1, <2>1, ConsIs
  <2>2. CASE T = Append(R, g)
    BY <1>1, <2>2, AppendIs
  <2> QED BY <2>1, <2>2
<1>3. \A h : Somewhere(F, T, h) <=> (h = g \/ Somewhere(F, R, h))
  BY <1>2 DEF Somewhere
<1>4. Unique(F, T)
  BY <1>2 DEF Unique, Somewhere
<1> QED BY <1>2, <1>3, <1>4

LEMMA TakeQueue ==
  ASSUME NEW F \in Queues, NEW R \in Seq(AnyGoal), NEW p \in Int,
         Unique(F, R), F[p] # <<>>
  PROVE  LET G == [F EXCEPT ![p] = Tail(@)]
             g == Head(F[p])
         IN  /\ G \in Queues /\ Unique(G, R) /\ g \in AnyGoal
             /\ Somewhere(F, R, g) /\ Contains(F[p], g)
             /\ \A h : Somewhere(G, R, h) <=> (h # g /\ Somewhere(F, R, h))
             /\ \A h : \A r \in Int : Contains(G[r], h) <=> (h # g /\ Contains(F[r], h))
             /\ Bottom(F) /\ g # TopGoal => Bottom(G)
<1> DEFINE t == Tail(F[p])  g == Head(F[p])  G == [F EXCEPT ![p] = t]
<1>1. F[p] \in Seq(AnyGoal) /\ Once(F[p])
  BY DEF Queues, Unique
<1>2. /\ t \in Seq(AnyGoal) /\ g \in AnyGoal
      /\ \A h : Contains(F[p], h) <=> (h = g \/ Contains(t, h))
      /\ Once(t) /\ ~ Contains(t, g)
      /\ t # <<>> => t[Len(t)] = F[p][Len(F[p])]
      /\ F[p] = <<g>> \o t
  BY <1>1, TailIs
<1>3. t = <<>> => F[p][Len(F[p])] = g
  <2> HIDE DEF t, g
  <2> SUFFICES ASSUME t = <<>> PROVE F[p][Len(F[p])] = g
    OBVIOUS
  <2>1. <<g>> \in Seq(AnyGoal) /\ F[p] = <<g>> \o <<>>
    BY <1>2
  <2>2. F[p] = <<g>>
    BY <2>1, ConcatEmptySeq
  <2> QED BY <2>2
<1> HIDE DEF t, g
<1>4. G \in Queues /\ \A r \in Int : G[r] = IF r = p THEN t ELSE F[r]
  BY <1>2 DEF Queues
<1> HIDE DEF G
<1>5. \A r \in Int : Contains(F[r], g) => r = p
  BY <1>2 DEF Unique
<1>6. \A h : \A r \in Int : Contains(G[r], h) <=> (h # g /\ Contains(F[r], h))
  BY <1>2, <1>4, <1>5
<1>7. ~ Contains(R, g) /\ Contains(F[p], g)
  BY <1>2 DEF Unique
<1>8. \A h : Somewhere(G, R, h) <=> (h # g /\ Somewhere(F, R, h))
  BY <1>6, <1>7 DEF Somewhere
<1>9. Unique(G, R)
  <2>1. \A r \in Int : Once(G[r])
    BY <1>2, <1>4 DEF Unique
  <2> QED BY <1>6, <2>1 DEF Unique
<1>10. Bottom(F) /\ g # TopGoal => Bottom(G)
  <2>1. CASE p = 0
    BY <1>2, <1>3, <1>4, <2>1 DEF Bottom
  <2>2. CASE p # 0
    <3>1. G[0] = F[0]
      BY <1>4, <2>2
    <3> QED BY <3>1 DEF Bottom
  <2> QED BY <2>1, <2>2
<1>11. Somewhere(F, R, g)
  BY <1>7 DEF Somewhere
<1> QED BY <1>2, <1>4, <1>6, <1>7, <1>8, <1>9, <1>10, <1>11 DEF G, t, g

LEMMA MergeQueue ==
  ASSUME NEW F \in Queues, NEW R \in Seq(AnyGoal), NEW p \in Int, Unique(F, R)
  PROVE  LET G == [F EXCEPT ![p] = R \o @]
         IN  /\ G \in Queues /\ Unique(G, <<>>)
             /\ \A h : Somewhere(G, <<>>, h) <=> Somewhere(F, R, h)
             /\ \A h : \A r \in Int :
                  Contains(G[r], h) <=> ((r = p /\ Contains(R, h)) \/ Contains(F[r], h))
             /\ Bottom(F) => Bottom(G)
<1> DEFINE c == R \o F[p]  G == [F EXCEPT ![p] = c]
<1>1. F[p] \in Seq(AnyGoal) /\ Once(F[p]) /\ Once(R)
      /\ \A h : ~ (Contains(R, h) /\ Contains(F[p], h))
  BY DEF Queues, Unique
<1>2. /\ c \in Seq(AnyGoal)
      /\ \A h : Contains(c, h) <=> (Contains(R, h) \/ Contains(F[p], h))
      /\ Once(c)
      /\ F[p] # <<>> => c # <<>> /\ c[Len(c)] = F[p][Len(F[p])]
  BY <1>1, ConcatIs
<1> HIDE DEF c
<1>3. G \in Queues /\ \A r \in Int : G[r] = IF r = p THEN c ELSE F[r]
  BY <1>2 DEF Queues
<1> HIDE DEF G
<1>4. \A h : \A r \in Int :
        Contains(G[r], h) <=> ((r = p /\ Contains(R, h)) \/ Contains(F[r], h))
  BY <1>2, <1>3
<1>5. Once(<<>>) /\ \A h : ~ Contains(<<>>, h)
  BY DEF Once, Contains
<1>6. \A h : Somewhere(G, <<>>, h) <=> Somewhere(F, R, h)
  BY <1>4, <1>5 DEF Somewhere
<1>7. Unique(G, <<>>)
  <2>1. \A r \in Int : Once(G[r])
    BY <1>2, <1>3 DEF Unique
  <2>2. \A h : \A r, s \in Int : Contains(G[r], h) /\ Contains(G[s], h) => r = s
    BY <1>4 DEF Unique
  <2> QED BY <1>5, <2>1, <2>2 DEF Unique
<1>8. Bottom(F) => Bottom(G)
  BY <1>2, <1>3 DEF Bottom
<1> QED BY <1>3, <1>4, <1>6, <1>7, <1>8 DEF G, c

-----------------------------------------------------------------------------
(* What the functions work on.                                             *)
Sleep == [prio : Nat, on : SUBSET Var] \cup {None}
Wait == [on : Var, relative : BOOLEAN] \cup {None}
Signal == [on : External, value : Value] \cup {None}
StateType ==
  [qp : Seq(AnyGoal), prio : Nat, prioq : Seq(QueueRecord), resumed : Seq(Goal),
   higher : BOOLEAN, doorbell : BOOLEAN, asleep : [Goal -> Sleep],
   hooks : [Var -> Seq(Goal)], suspended : Int, waits : [Goal -> Wait],
   due : [Goal -> Nat], signal : Signal, rep : [Var -> Var],
   val : [Var -> Value \cup {None}]]

QueueFn(S) == [p \in Int |-> IF p = S.prio THEN S.qp ELSE At(S.prioq, p)]
Asleep(S) == {g \in Goal : S.asleep[g] # None}

Shape(S) ==
  /\ PrioqOK(S.prioq) /\ ~ HasPrio(S.prioq, S.prio)
  /\ S.prio = 0 \/ HasPrio(S.prioq, 0)
  /\ \A p \in Int : HasPrio(S.prioq, p) => S.higher = TRUE \/ p < S.prio
Rung(S) == S.resumed # <<>> \/ S.higher = TRUE => S.doorbell = TRUE
(* A is the set of the goals that are asleep or in the queues.             *)
Counted(S, A) ==
  /\ Asleep(S) \subseteq A /\ A \subseteq Goal /\ IsFiniteSet(A)
  /\ S.suspended = Cardinality(Asleep(S))
Placed(S, A) ==
  /\ Unique(QueueFn(S), S.resumed) /\ Bottom(QueueFn(S))
  /\ \A g : Somewhere(QueueFn(S), S.resumed, g) <=> (g = TopGoal \/ g \in A \ Asleep(S))
Keeping(S) ==
  /\ \A g \in Goal : S.asleep[g] # None => S.asleep[g].prio = S.due[g]
  /\ \A g \in Goal : S.waits[g] = None =>
       /\ Contains(S.resumed, g) => S.due[g] = S.prio
       /\ \A p \in Int : Contains(QueueFn(S)[p], g) => S.due[g] = p
Waiting(S) == \A g \in Goal : S.waits[g] # None => g \in Waiter
Standing(S) == \A x \in Var : S.rep[S.rep[x]] = S.rep[x]

Right(S, A) ==
  /\ S \in StateType /\ Shape(S) /\ Rung(S) /\ Counted(S, A) /\ Placed(S, A)
  /\ Keeping(S) /\ Waiting(S) /\ Standing(S)

LEMMA QueueFnType ==
  ASSUME NEW S \in StateType, PrioqOK(S.prioq)
  PROVE  QueueFn(S) \in Queues /\ S.resumed \in Seq(AnyGoal)
<1>1. S.qp \in Seq(AnyGoal) /\ S.resumed \in Seq(Goal)
  BY DEF StateType
<1>2. S.resumed \in Seq(AnyGoal)
  BY <1>1, SeqMonotonic DEF AnyGoal
<1>3. \A p \in Int : At(S.prioq, p) \in Seq(AnyGoal)
  BY AtType
<1> QED BY <1>1, <1>2, <1>3 DEF QueueFn, Queues

(* S and D agree on all but the queues and g.                              *)
Besides(S, D, g) ==
  /\ S.asleep = D.asleep /\ S.suspended = D.suspended /\ S.prio = D.prio /\ S.rep = D.rep
  /\ \A h \in Goal : h # g => S.waits[h] = D.waits[h] /\ S.due[h] = D.due[h]
  /\ S.waits[g] # None => g \in Waiter
Alike(S, D, g) ==
  Besides(S, D, g) /\ S.prioq = D.prioq /\ S.higher = D.higher /\ S.signal = D.signal

(* A goal that is nowhere is put into a queue, or among those resumed.     *)
LEMMA PutGoal ==
  ASSUME NEW S, NEW A, Right(S, A), NEW g \in Goal, g \notin A,
         NEW T \in StateType, Shape(T), Rung(T), Standing(T), NEW p \in Int,
         Besides(T, S, g), T.waits[g] = None => T.due[g] = p,
         \/ /\ QueueFn(T) = [QueueFn(S) EXCEPT ![p] = <<g>> \o @] /\ T.resumed = S.resumed
         \/ /\ QueueFn(T) = QueueFn(S) /\ p = S.prio
            /\ T.resumed = <<g>> \o S.resumed \/ T.resumed = Append(S.resumed, g)
  PROVE  Right(T, A \cup {g})
<1> DEFINE F == QueueFn(S)  G == QueueFn(T)  Q == S.resumed  R == T.resumed
<1> USE DEF Besides
<1>1. /\ F \in Queues /\ Q \in Seq(AnyGoal) /\ Unique(F, Q) /\ Bottom(F)
      /\ \A h : Somewhere(F, Q, h) <=> (h = TopGoal \/ h \in A \ Asleep(S))
  BY QueueFnType DEF Right, Shape, Placed
<1>2. g \in AnyGoal /\ g # TopGoal
  BY SchedAssumption DEF AnyGoal
<1>3. ~ Somewhere(F, Q, g)
  BY <1>1, <1>2
<1>4. Asleep(T) = Asleep(S) /\ g \notin Asleep(S)
  BY DEF Asleep, Right, Counted
<1>5. Counted(T, A \cup {g})
  BY <1>4, FS_AddElement DEF Counted, Right
<1>0. \/ G = [F EXCEPT ![p] = <<g>> \o @] /\ R = Q
      \/ G = F /\ p = S.prio /\ (R = <<g>> \o Q \/ R = Append(Q, g))
  OBVIOUS
<1> HIDE DEF F, G, Q, R
<1>6. /\ Unique(G, R) /\ Bottom(G)
      /\ \A h : Somewhere(G, R, h) <=> (h = g \/ Somewhere(F, Q, h))
      /\ \A h : h # g => (Contains(R, h) <=> Contains(Q, h))
      /\ \A h : \A r \in Int : h # g => (Contains(G[r], h) <=> Contains(F[r], h))
      /\ Contains(R, g) => p = T.prio
      /\ \A r \in Int : Contains(G[r], g) => r = p
  <2>0. ~ Contains(Q, g) /\ \A r \in Int : ~ Contains(F[r], g)
    BY <1>3 DEF Somewhere
  <2>1. CASE G = [F EXCEPT ![p] = <<g>> \o @] /\ R = Q
    <3>1. /\ Unique(G, R) /\ (Bottom(F) => Bottom(G))
          /\ \A h : Somewhere(G, R, h) <=> (h = g \/ Somewhere(F, Q, h))
          /\ \A h : \A r \in Int : Contains(G[r], h) <=> ((r = p /\ h = g) \/ Contains(F[r], h))
      <4> DEFINE G0 == [F EXCEPT ![p] = <<g>> \o @]
      <4>1. /\ Unique(G0, Q) /\ (Bottom(F) => Bottom(G0))
            /\ \A h : Somewhere(G0, Q, h) <=> (h = g \/ Somewhere(F, Q, h))
            /\ \A h : \A r \in Int : Contains(G0[r], h) <=> ((r = p /\ h = g) \/ Contains(F[r], h))
        BY <1>1, <1>2, <1>3, PutQueue
      <4>2. G = G0 /\ R = Q
        BY <2>1
      <4> HIDE DEF G0
      <4> QED BY <4>1, <4>2
    <3> QED BY <1>1, <2>0, <2>1, <3>1
  <2>2. CASE G = F /\ p = S.prio /\ (R = <<g>> \o Q \/ R = Append(Q, g))
    <3>1. /\ Unique(F, R)
          /\ \A h : Somewhere(F, R, h) <=> (h = g \/ Somewhere(F, Q, h))
          /\ \A h : Contains(R, h) <=> (h = g \/ Contains(Q, h))
      BY <1>1, <1>2, <1>3, <2>2, PutResumed
    <3> QED BY <1>1, <2>0, <2>2, <3>1
  <2> QED BY <1>0, <2>1, <2>2
<1>7. Placed(T, A \cup {g})
  BY <1>1, <1>4, <1>6 DEF Placed, F, G, Q, R
<1>8. Keeping(T)
  <2>1. \A h \in Goal : T.asleep[h] # None => T.asleep[h].prio = T.due[h]
    <3> SUFFICES ASSUME NEW h \in Goal, T.asleep[h] # None
                 PROVE  T.asleep[h].prio = T.due[h]
      OBVIOUS
    <3>1. h # g
      BY <1>4 DEF Asleep
    <3> QED BY <3>1 DEF Right, Keeping
  <2>2. ASSUME NEW h \in Goal, T.waits[h] = None
        PROVE  /\ Contains(R, h) => T.due[h] = T.prio
               /\ \A r \in Int : Contains(G[r], h) => T.due[h] = r
    <3>1. CASE h = g
      BY <1>6, <2>2, <3>1
    <3>2. CASE h # g
      <4>1. /\ Contains(Q, h) => S.due[h] = S.prio
            /\ \A r \in Int : Contains(F[r], h) => S.due[h] = r
        BY <2>2, <3>2 DEF Right, Keeping, F, Q
      <4>2. T.due[h] = S.due[h] /\ T.prio = S.prio
        BY <3>2
      <4>3. /\ Contains(R, h) <=> Contains(Q, h)
            /\ \A r \in Int : Contains(G[r], h) <=> Contains(F[r], h)
        BY <1>6, <3>2
      <4> QED BY <4>1, <4>2, <4>3
    <3> QED BY <3>1, <3>2
  <2> QED BY <2>1, <2>2 DEF Keeping, G, R
<1>9. Waiting(T)
  BY DEF Waiting, Right
<1> QED BY <1>5, <1>7, <1>8, <1>9 DEF Right

Elsewhere(S, T, p, g) ==
  /\ T \in StateType /\ PrioqOK(T.prioq)
  /\ \A r \in Int : At(T.prioq, r) = IF r = p THEN <<g>> \o At(S.prioq, p) ELSE At(S.prioq, r)
  /\ \A r \in Int : HasPrio(T.prioq, r) <=> (r = p \/ HasPrio(S.prioq, r))
  /\ T.higher = TRUE <=> (S.higher = TRUE \/ S.prio < p)
  /\ T.doorbell = TRUE <=> (S.doorbell = TRUE \/ S.prio < p)
  /\ T.qp = S.qp /\ T.prio = S.prio /\ T.resumed = S.resumed
  /\ T.asleep = S.asleep /\ T.hooks = S.hooks /\ T.suspended = S.suspended
  /\ T.waits = S.waits /\ T.due = S.due /\ T.signal = S.signal
  /\ T.rep = S.rep /\ T.val = S.val

LEMMA ElsewhereIs ==
  ASSUME NEW S \in StateType, PrioqOK(S.prioq), NEW p \in Nat, p # S.prio, NEW g \in AnyGoal
  PROVE  Elsewhere(S, EnqueueElsewhere(S, p, g), p, g)
<1> DEFINE i == FirstNotAbove(S, p)
           Q == S.prioq
           R == IF Q[i].prio = p THEN [Q EXCEPT ![i].q = <<g>> \o @]
                ELSE InsertAt(Q, i, Record(p, <<g>>))
           T == EnqueueElsewhere(S, p, g)
           higher == S.higher \/ S.prio < p
           bell == S.doorbell \/ S.prio < p
<1>1. /\ i \in 1 .. Len(Q) /\ Q[i].prio <= p
      /\ \A j \in 1 .. i-1 : Q[j].prio > p
  BY FirstNotAboveIs
<1>2. \A j \in 1 .. Len(Q) : Q[j].prio \in Int /\ Q[j].q \in Seq(AnyGoal)
  BY RecordOf
<1>3. T = [S EXCEPT !.prioq = R, !.higher = higher, !.doorbell = bell]
  BY DEF EnqueueElsewhere
<1>4. /\ PrioqOK(R)
      /\ \A r \in Int : At(R, r) = IF r = p THEN <<g>> \o At(Q, p) ELSE At(Q, r)
      /\ \A r \in Int : HasPrio(R, r) <=> (r = p \/ HasPrio(Q, r))
  <2>1. CASE Q[i].prio = p
    <3> DEFINE q == <<g>> \o Q[i].q
    <3>1. q \in Seq(AnyGoal)
      BY <1>1, <1>2, ConsIs
    <3>2. R = [Q EXCEPT ![i].q = q]
      BY <2>1
    <3>3. At(Q, p) = Q[i].q /\ HasPrio(Q, p)
      BY <1>1, <2>1, AtIs
    <3>4. q = <<g>> \o At(Q, p)
      BY <3>3
    <3> HIDE DEF q
    <3>5. Stored(Q, [Q EXCEPT ![i].q = q], p, q)
      <4>1. PrioqOK(Q) /\ i \in 1 .. Len(Q) /\ Q[i].prio = p
        BY <1>1, <2>1
      <4> HIDE DEF Q, i
      <4> QED BY <3>1, <4>1, SetRecord
    <3> HIDE DEF R, Q, i
    <3> QED BY <3>2, <3>4, <3>5 DEF Stored
  <2>2. CASE Q[i].prio # p
    <3> DEFINE q == <<g>>
    <3>1. q \in Seq(AnyGoal)
      OBVIOUS
    <3>2. R = InsertAt(Q, i, Record(p, q))
      BY <2>2
    <3>3. Q[i].prio < p
      BY <1>1, <1>2, <2>2
    <3>4. Stored(Q, InsertAt(Q, i, Record(p, q)), p, q)
      <4> HIDE DEF Q, i, q
      <4> QED BY <1>1, <3>1, <3>3, InsertRecord DEF Q
    <3>5. ~ HasPrio(Q, p)
      <4> SUFFICES ASSUME NEW j \in 1 .. Len(Q), Q[j].prio = p PROVE FALSE
        BY DEF HasPrio
      <4>1. ~ (j \in 1 .. i-1) /\ j # i /\ Len(Q) \in Nat
        BY <1>1, <3>3, RecordOf
      <4>2. i < j
        BY <1>1, <4>1
      <4>3. Q[i].prio > Q[j].prio
        BY <1>1, <4>2 DEF PrioqOK, Descending
      <4>4. Q[i].prio \in Int /\ Q[i].prio > p
        BY <1>1, <1>2, <4>3
      <4> HIDE DEF Q, i
      <4> QED BY <3>3, <4>4
    <3>6. q = <<g>> \o At(Q, p)
      BY <3>1, <3>5, ConcatEmptySeq DEF At
    <3> HIDE DEF R, Q, i, q
    <3> QED BY <3>2, <3>4, <3>6 DEF Stored
  <2> QED BY <2>1, <2>2
<1>5. R \in Seq(QueueRecord) /\ higher \in BOOLEAN /\ bell \in BOOLEAN
  BY <1>4 DEF PrioqOK
<1> HIDE DEF R, T
<1>6. /\ higher = TRUE <=> (S.higher = TRUE \/ S.prio < p)
      /\ bell = TRUE <=> (S.doorbell = TRUE \/ S.prio < p)
  BY DEF StateType
<1> HIDE DEF higher, bell
<1>7. /\ T \in StateType
      /\ T.prioq = R /\ T.higher = higher /\ T.doorbell = bell
      /\ T.qp = S.qp /\ T.prio = S.prio /\ T.resumed = S.resumed
      /\ T.asleep = S.asleep /\ T.hooks = S.hooks /\ T.suspended = S.suspended
      /\ T.waits = S.waits /\ T.due = S.due /\ T.signal = S.signal
      /\ T.rep = S.rep /\ T.val = S.val
  BY <1>3, <1>5 DEF StateType
<1> QED BY <1>4, <1>6, <1>7 DEF T, Elsewhere


(* The functions that put a goal somewhere.                                *)
LEMMA RightElsewhere ==
  ASSUME NEW S, NEW A, NEW D, Right(D, A), NEW g \in Goal, g \notin A,
         S \in StateType, NEW p \in Nat, p # S.prio,
         Alike(S, D, g), S.qp = D.qp, S.resumed = D.resumed, S.doorbell = D.doorbell,
         S.waits[g] = None => S.due[g] = p
  PROVE  Right(EnqueueElsewhere(S, p, g), A \cup {g})
<1> DEFINE T == EnqueueElsewhere(S, p, g)
<1>1. g \in AnyGoal /\ PrioqOK(S.prioq) /\ D \in StateType
  BY DEF AnyGoal, Right, Shape, Alike
<1>2. Elsewhere(S, T, p, g)
  BY <1>1, ElsewhereIs
<1> HIDE DEF T
<1> USE DEF Elsewhere, Alike, Besides
<1>3. T.prio \in Nat /\ T.prio \in Int /\ p \in Int
  BY <1>2 DEF StateType
<1>4. Shape(T)
  <2>1. ASSUME NEW r \in Int, HasPrio(T.prioq, r) PROVE T.higher = TRUE \/ r < T.prio
    <3>1. CASE r = p
      BY <1>2, <1>3, <3>1
    <3>2. CASE r # p
      BY <1>2, <2>1, <3>2 DEF Right, Shape
    <3> QED BY <3>1, <3>2
  <2>2. ~ HasPrio(T.prioq, T.prio) /\ (T.prio = 0 \/ HasPrio(T.prioq, 0))
    BY <1>2, <1>3 DEF Right, Shape
  <2> QED BY <1>2, <2>1, <2>2 DEF Shape
<1>5. Rung(T)
  BY <1>2 DEF Rung, Right
<1>6. Standing(T)
  BY <1>2 DEF Standing, Right
<1>7. QueueFn(T) = [QueueFn(D) EXCEPT ![p] = <<g>> \o @]
  <2>1. \A r \in Int : QueueFn(T)[r] = [QueueFn(D) EXCEPT ![p] = <<g>> \o @][r]
    BY <1>2, <1>3 DEF QueueFn
  <2> QED BY <2>1 DEF QueueFn
<1>8. /\ Besides(T, D, g) /\ T \in StateType /\ T.resumed = D.resumed
      /\ T.waits[g] = None => T.due[g] = p
  BY <1>2
<1> HIDE DEF Elsewhere, Alike, Besides
<1>9. Right(T, A \cup {g})
  BY <1>3, <1>4, <1>5, <1>6, <1>7, <1>8, PutGoal
<1> QED BY <1>9 DEF T

LEMMA RightResumed ==
  ASSUME NEW S, NEW A, NEW D, Right(D, A), NEW g \in Goal, g \notin A,
         S \in StateType,
         Alike(S, D, g), S.qp = D.qp, S.doorbell = TRUE,
         S.resumed = <<g>> \o D.resumed \/ S.resumed = Append(D.resumed, g),
         S.waits[g] = None => S.due[g] = S.prio
  PROVE  Right(S, A \cup {g})
<1>1. Shape(S)
  BY DEF Right, Shape, Alike, Besides
<1>2. Rung(S)
  BY DEF Rung
<1>3. Standing(S)
  BY DEF Standing, Right, Alike, Besides
<1>4. QueueFn(S) = QueueFn(D)
  BY DEF QueueFn, Alike, Besides
<1>5. S.prio \in Int /\ S.prio = D.prio /\ Besides(S, D, g)
  BY DEF StateType, Alike, Besides
<1> QED BY <1>1, <1>2, <1>3, <1>4, <1>5, PutGoal

LEMMA RightFront ==
  ASSUME NEW S, NEW A, NEW D, Right(D, A), NEW g \in Goal, g \notin A,
         S \in StateType,
         Alike(S, D, g), S.qp = <<g>> \o D.qp, S.resumed = D.resumed,
         S.doorbell = D.doorbell,
         S.waits[g] = None => S.due[g] = S.prio
  PROVE  Right(S, A \cup {g})
<1>1. Shape(S)
  BY DEF Right, Shape, Alike, Besides
<1>2. Rung(S)
  BY DEF Rung, Right, Alike, Besides
<1>3. Standing(S)
  BY DEF Standing, Right, Alike, Besides
<1>4. S.prio \in Int /\ S.prio = D.prio /\ S.prioq = D.prioq /\ Besides(S, D, g)
  BY DEF StateType, Alike, Besides
<1>5. QueueFn(S) = [QueueFn(D) EXCEPT ![S.prio] = <<g>> \o @]
  <2>1. \A r \in Int : QueueFn(S)[r] = [QueueFn(D) EXCEPT ![S.prio] = <<g>> \o @][r]
    BY <1>4 DEF QueueFn
  <2> QED BY <2>1 DEF QueueFn
<1> QED BY <1>1, <1>2, <1>3, <1>4, <1>5, PutGoal

(* What enqueue_goal() of g leaves alone.                                  *)
Enqueued(S, T, A, g) ==
  /\ Right(T, A \cup {g})
  /\ T.asleep = S.asleep /\ T.hooks = S.hooks /\ T.rep = S.rep /\ T.val = S.val
  /\ T.waits = S.waits /\ T.resumed = S.resumed /\ T.prio = S.prio
  /\ \A h \in Goal : h # g => T.due[h] = S.due[h]

LEMMA RightEnqueue ==
  ASSUME NEW S, NEW A, NEW D, Right(D, A), NEW g \in Goal, g \notin A,
         NEW prio \in Int, S \in StateType,
         Alike(S, D, g), S.qp = D.qp, S.resumed = D.resumed, S.doorbell = D.doorbell
  PROVE  Enqueued(S, EnqueueGoal(S, prio, g), A, g)
<1> DEFINE p == IF prio < 0 THEN 0 ELSE prio
           E == [S EXCEPT !.due[g] = p]
           T == EnqueueGoal(S, prio, g)
<1>1. p \in Nat
  OBVIOUS
<1>2. T = IF p = S.prio THEN [E EXCEPT !.qp = <<g>> \o @] ELSE EnqueueElsewhere(E, p, g)
  BY DEF EnqueueGoal
<1> HIDE DEF p, T
<1>3. /\ E \in StateType
      /\ E.asleep = S.asleep /\ E.suspended = S.suspended /\ E.prio = S.prio
      /\ E.qp = S.qp /\ E.prioq = S.prioq /\ E.resumed = S.resumed /\ E.higher = S.higher
      /\ E.doorbell = S.doorbell /\ E.signal = S.signal /\ E.rep = S.rep
      /\ E.waits = S.waits /\ E.due = [S.due EXCEPT ![g] = p]
      /\ E.hooks = S.hooks /\ E.val = S.val
  BY <1>1 DEF StateType
<1> HIDE DEF E
<1>0. Alike(E, D, g) /\ E.qp = D.qp /\ E.resumed = D.resumed /\ E.doorbell = D.doorbell
  <2>1. S.due \in [Goal -> Nat]
    BY DEF StateType
  <2> QED BY <1>3, <2>1 DEF Alike, Besides
<1>4. /\ \A h \in Goal : h # g => E.due[h] = S.due[h]
      /\ E.due[g] = p
  <2>1. S.due \in [Goal -> Nat]
    BY DEF StateType
  <2> QED BY <1>3, <2>1
<1>5. g \in AnyGoal /\ D \in StateType
  BY DEF AnyGoal, Right
<1>6. CASE p = S.prio
  <2> DEFINE q == <<g>> \o E.qp
  <2>1. q \in Seq(AnyGoal)
    BY <1>3, <1>5, ConsIs DEF StateType
  <2>2. T = [E EXCEPT !.qp = q]
    BY <1>2, <1>6
  <2> HIDE DEF q
  <2>3. /\ T \in StateType /\ T.qp = q
        /\ T.asleep = E.asleep /\ T.suspended = E.suspended /\ T.prio = E.prio
        /\ T.prioq = E.prioq /\ T.resumed = E.resumed /\ T.higher = E.higher
        /\ T.doorbell = E.doorbell /\ T.signal = E.signal /\ T.rep = E.rep
        /\ T.waits = E.waits /\ T.due = E.due /\ T.hooks = E.hooks /\ T.val = E.val
    BY <1>3, <2>1, <2>2 DEF StateType
  <2>4. T.qp = <<g>> \o D.qp
    BY <1>3, <2>3 DEF q
  <2>5. Alike(T, D, g) /\ T.resumed = D.resumed /\ T.doorbell = D.doorbell
        /\ T.due[g] = T.prio
    BY <1>0, <1>3, <1>4, <1>6, <2>3 DEF Alike, Besides
  <2>6. Right(T, A \cup {g})
    BY <2>3, <2>4, <2>5, RightFront
  <2> QED BY <1>3, <1>4, <2>3, <2>6 DEF T, Enqueued
<1>7. CASE p # S.prio
  <2>1. T = EnqueueElsewhere(E, p, g)
    BY <1>2, <1>7
  <2>2. Right(T, A \cup {g})
    <3>1. p # E.prio /\ E.due[g] = p
      BY <1>3, <1>4, <1>7
    <3> QED BY <1>0, <1>1, <1>3, <2>1, <3>1, RightElsewhere
  <2>3. PrioqOK(E.prioq) /\ p # E.prio
    BY <1>0, <1>3, <1>7 DEF Right, Shape, Alike
  <2>4. /\ T.asleep = E.asleep /\ T.hooks = E.hooks /\ T.rep = E.rep /\ T.val = E.val
        /\ T.waits = E.waits /\ T.resumed = E.resumed /\ T.prio = E.prio /\ T.due = E.due
    <3>1. Elsewhere(E, T, p, g)
      BY <1>1, <1>3, <1>5, <2>1, <2>3, ElsewhereIs
    <3> QED BY <3>1 DEF Elsewhere
  <2> QED BY <1>3, <1>4, <2>2, <2>4 DEF T, Enqueued
<1> QED BY <1>6, <1>7

LEMMA SamePrioIs ==
  ASSUME NEW S \in StateType, NEW g \in Goal
  PROVE  LET T == ResumeSamePrio(S, g)
         IN  /\ T \in StateType /\ T.resumed = <<g>> \o S.resumed /\ T.doorbell = TRUE
             /\ T.asleep = S.asleep /\ T.suspended = S.suspended /\ T.prio = S.prio
             /\ T.qp = S.qp /\ T.prioq = S.prioq /\ T.higher = S.higher
             /\ T.signal = S.signal /\ T.rep = S.rep /\ T.val = S.val /\ T.hooks = S.hooks
             /\ T.waits = S.waits /\ T.due = S.due
<1> DEFINE q == <<g>> \o S.resumed
<1>1. q \in Seq(Goal)
  BY ConsIs DEF StateType
<1>2. ResumeSamePrio(S, g) = [S EXCEPT !.resumed = q, !.doorbell = TRUE]
  BY DEF ResumeSamePrio
<1> HIDE DEF q
<1> QED BY <1>1, <1>2 DEF StateType, q

(* What enqueue_after_waiting() of g leaves alone; without a value of its  *)
(* variable it becomes a resumed goal that waits.                          *)
Waited(S, T, A, g) ==
  /\ Right(T, A \cup {g})
  /\ T.asleep = S.asleep /\ T.hooks = S.hooks /\ T.rep = S.rep /\ T.val = S.val
  /\ \A h \in Goal : h # g => T.waits[h] = S.waits[h] /\ T.due[h] = S.due[h]
  /\ T.prio = S.prio
  /\ T.resumed = S.resumed \/ (T.resumed = <<g>> \o S.resumed /\ T.waits[g] # None)

LEMMA RightAfterWaiting ==
  ASSUME NEW S, NEW A, Right(S, A), NEW g \in Waiter, g \notin A, g \in Goal,
         NEW x \in Var, NEW relative \in BOOLEAN
  PROVE  Waited(S, EnqueueAfterWaiting(S, g, x, relative), A, g)
<1> DEFINE T == EnqueueAfterWaiting(S, g, x, relative)
           N(w) == [S EXCEPT !.waits[g] = w]
           on == [on |-> x, relative |-> relative]
<1>1. S \in StateType /\ S.waits \in [Goal -> Wait]
  BY DEF Right, StateType
<1>2. on \in Wait /\ on # None /\ None \in Wait
  BY SchedAssumption DEF Wait
<1> HIDE DEF on
<1>3. ASSUME NEW w \in Wait
      PROVE  /\ N(w) \in StateType
             /\ N(w).asleep = S.asleep /\ N(w).suspended = S.suspended /\ N(w).prio = S.prio
             /\ N(w).qp = S.qp /\ N(w).prioq = S.prioq /\ N(w).resumed = S.resumed
             /\ N(w).higher = S.higher /\ N(w).doorbell = S.doorbell
             /\ N(w).signal = S.signal /\ N(w).rep = S.rep /\ N(w).val = S.val
             /\ N(w).hooks = S.hooks /\ N(w).due = S.due
             /\ N(w).waits[g] = w
             /\ \A h \in Goal : h # g => N(w).waits[h] = S.waits[h]
  <2>1. /\ N(w) \in StateType
        /\ N(w).asleep = S.asleep /\ N(w).suspended = S.suspended /\ N(w).prio = S.prio
        /\ N(w).qp = S.qp /\ N(w).prioq = S.prioq /\ N(w).resumed = S.resumed
        /\ N(w).higher = S.higher /\ N(w).doorbell = S.doorbell
        /\ N(w).signal = S.signal /\ N(w).rep = S.rep /\ N(w).val = S.val
        /\ N(w).hooks = S.hooks /\ N(w).due = S.due
        /\ N(w).waits = [S.waits EXCEPT ![g] = w]
    BY <1>1 DEF StateType
  <2> HIDE DEF N
  <2> QED BY <1>1, <2>1
<1>4. CASE ValueOf(S, x) # None
  <2> DEFINE prio == IF relative THEN S.prio - ValueOf(S, x) ELSE ValueOf(S, x)
             E == N(None)
  <2>1. T = EnqueueGoal(E, prio, g)
    BY <1>4 DEF EnqueueAfterWaiting
  <2>2. prio \in Int
    <3>1. S.rep[x] \in Var /\ S.val[S.rep[x]] \in Value \cup {None} /\ S.prio \in Nat
      BY <1>1 DEF StateType
    <3>2. ValueOf(S, x) \in Int
      BY <1>4, <3>1, SchedAssumption DEF ValueOf
    <3> HIDE DEF N
    <3> QED BY <3>1, <3>2
  <2>3. /\ E \in StateType
        /\ E.asleep = S.asleep /\ E.suspended = S.suspended /\ E.prio = S.prio
        /\ E.qp = S.qp /\ E.prioq = S.prioq /\ E.resumed = S.resumed
        /\ E.higher = S.higher /\ E.doorbell = S.doorbell
        /\ E.signal = S.signal /\ E.rep = S.rep /\ E.val = S.val
        /\ E.hooks = S.hooks /\ E.due = S.due
        /\ E.waits[g] = None
        /\ \A h \in Goal : h # g => E.waits[h] = S.waits[h]
    BY <1>2, <1>3
  <2>5. Alike(E, S, g) /\ E.qp = S.qp /\ E.resumed = S.resumed /\ E.doorbell = S.doorbell
    BY <2>3 DEF Alike, Besides
  <2> HIDE DEF N, E, prio, T
  <2>4. /\ Right(T, A \cup {g})
        /\ T.asleep = E.asleep /\ T.hooks = E.hooks /\ T.rep = E.rep /\ T.val = E.val
        /\ T.waits = E.waits /\ T.resumed = E.resumed /\ T.prio = E.prio
        /\ \A h \in Goal : h # g => T.due[h] = E.due[h]
    <3>1. Right(S, A) /\ g \notin A /\ g \in Goal /\ prio \in Int /\ E \in StateType
      BY <2>2, <2>3
    <3>2. Enqueued(E, T, A, g)
      BY <2>1, <2>5, <3>1, RightEnqueue
    <3> QED BY <3>2 DEF Enqueued
  <2> QED BY <2>3, <2>4 DEF T, Waited
<1>5. CASE ValueOf(S, x) = None
  <2> DEFINE E == N(on)
  <2>1. T = ResumeSamePrio(E, g)
    BY <1>5 DEF EnqueueAfterWaiting, on
  <2>2. /\ E \in StateType
        /\ E.asleep = S.asleep /\ E.suspended = S.suspended /\ E.prio = S.prio
        /\ E.qp = S.qp /\ E.prioq = S.prioq /\ E.resumed = S.resumed
        /\ E.higher = S.higher /\ E.doorbell = S.doorbell
        /\ E.signal = S.signal /\ E.rep = S.rep /\ E.val = S.val
        /\ E.hooks = S.hooks /\ E.due = S.due
        /\ E.waits[g] = on
        /\ \A h \in Goal : h # g => E.waits[h] = S.waits[h]
    BY <1>2, <1>3
  <2> HIDE DEF N, E, T
  <2>3. /\ T \in StateType /\ T.resumed = <<g>> \o E.resumed /\ T.doorbell = TRUE
        /\ T.asleep = E.asleep /\ T.suspended = E.suspended /\ T.prio = E.prio
        /\ T.qp = E.qp /\ T.prioq = E.prioq /\ T.higher = E.higher
        /\ T.signal = E.signal /\ T.rep = E.rep /\ T.val = E.val /\ T.hooks = E.hooks
        /\ T.waits = E.waits /\ T.due = E.due
    BY <2>1, <2>2, SamePrioIs
  <2>5. Alike(T, S, g) /\ T.qp = S.qp /\ T.waits[g] # None /\ T.resumed = <<g>> \o S.resumed
    BY <1>2, <2>2, <2>3 DEF Alike, Besides
  <2>4. Right(T, A \cup {g})
    BY <2>3, <2>5, RightResumed
  <2> QED BY <1>2, <2>2, <2>3, <2>4 DEF T, Waited
<1> QED BY <1>4, <1>5

-----------------------------------------------------------------------------
(* The goal at the head of the queue is taken out of it.                   *)
LEMMA RightPop ==
  ASSUME NEW S, NEW A, Right(S, A), S.qp # <<>>, NEW g \in Goal, Head(S.qp) = g
  PROVE  LET T == [S EXCEPT !.qp = Tail(@)]
         IN  /\ Right(T, A \ {g})
             /\ g \in A /\ S.asleep[g] = None
             /\ S.waits[g] = None => S.due[g] = S.prio
             /\ T.prio = S.prio /\ T.waits = S.waits /\ T.due = S.due /\ T.asleep = S.asleep
             /\ T.hooks = S.hooks /\ T.rep = S.rep /\ T.val = S.val /\ T.resumed = S.resumed
<1> DEFINE t == Tail(S.qp)  T == [S EXCEPT !.qp = t]
           F == QueueFn(S)  G == QueueFn(T)  Q == S.resumed
<1>1. S \in StateType /\ S.prio \in Int /\ S.qp \in Seq(AnyGoal)
  BY DEF Right, StateType
<1>2. t \in Seq(AnyGoal)
  BY <1>1, TailIs
<1> HIDE DEF t
<1>3. /\ T \in StateType /\ T.qp = t
      /\ T.prio = S.prio /\ T.prioq = S.prioq /\ T.resumed = S.resumed
      /\ T.higher = S.higher /\ T.doorbell = S.doorbell /\ T.asleep = S.asleep
      /\ T.hooks = S.hooks /\ T.suspended = S.suspended /\ T.waits = S.waits
      /\ T.due = S.due /\ T.signal = S.signal /\ T.rep = S.rep /\ T.val = S.val
  BY <1>1, <1>2 DEF StateType
<1> HIDE DEF T
<1>4. /\ F \in Queues /\ Q \in Seq(AnyGoal) /\ Unique(F, Q) /\ Bottom(F)
      /\ \A h : Somewhere(F, Q, h) <=> (h = TopGoal \/ h \in A \ Asleep(S))
      /\ F[S.prio] = S.qp
  <2>1. F[S.prio] = S.qp
    BY <1>1 DEF QueueFn
  <2> QED BY <1>1, <2>1, QueueFnType DEF Right, Shape, Placed
<1>5. G = [F EXCEPT ![S.prio] = Tail(@)]
  <2>1. \A r \in Int : G[r] = [F EXCEPT ![S.prio] = Tail(@)][r]
    BY <1>1, <1>3, <1>4 DEF QueueFn, t
  <2> QED BY <2>1 DEF QueueFn
<1>6. g # TopGoal
  BY SchedAssumption
<1> HIDE DEF F, G, Q
<1>7. /\ Unique(G, Q) /\ Bottom(G) /\ Somewhere(F, Q, g) /\ Contains(F[S.prio], g)
      /\ \A h : Somewhere(G, Q, h) <=> (h # g /\ Somewhere(F, Q, h))
      /\ \A h : \A r \in Int : Contains(G[r], h) <=> (h # g /\ Contains(F[r], h))
  <2> DEFINE p == S.prio
  <2>1. p \in Int /\ F[p] # <<>> /\ g = Head(F[p]) /\ G = [F EXCEPT ![p] = Tail(@)]
    BY <1>1, <1>4, <1>5
  <2> HIDE DEF p
  <2>2. /\ Unique(G, Q) /\ (Bottom(F) /\ g # TopGoal => Bottom(G))
        /\ Somewhere(F, Q, g) /\ Contains(F[p], g)
        /\ \A h : Somewhere(G, Q, h) <=> (h # g /\ Somewhere(F, Q, h))
        /\ \A h : \A r \in Int : Contains(G[r], h) <=> (h # g /\ Contains(F[r], h))
    <3> DEFINE G0 == [F EXCEPT ![p] = Tail(@)]  g0 == Head(F[p])
    <3>1. /\ Unique(G0, Q) /\ (Bottom(F) /\ g0 # TopGoal => Bottom(G0))
          /\ Somewhere(F, Q, g0) /\ Contains(F[p], g0)
          /\ \A h : Somewhere(G0, Q, h) <=> (h # g0 /\ Somewhere(F, Q, h))
          /\ \A h : \A r \in Int : Contains(G0[r], h) <=> (h # g0 /\ Contains(F[r], h))
      BY <1>4, <2>1, TakeQueue
    <3>2. G = G0 /\ g = g0
      BY <2>1
    <3> HIDE DEF G0, g0
    <3> QED BY <3>1, <3>2
  <2> QED BY <1>4, <1>6, <2>2 DEF p
<1>8. g \in A /\ g \notin Asleep(S) /\ S.asleep[g] = None
  BY <1>4, <1>6, <1>7 DEF Asleep
<1>9. S.waits[g] = None => S.due[g] = S.prio
  BY <1>1, <1>7 DEF Right, Keeping, F
<1>10. Asleep(T) = Asleep(S)
  BY <1>3 DEF Asleep
<1>11. Counted(T, A \ {g})
  BY <1>3, <1>8, <1>10, FS_RemoveElement DEF Counted, Right
<1>12. Placed(T, A \ {g})
  <2>1. \A h : Somewhere(G, Q, h) <=> (h = TopGoal \/ h \in (A \ {g}) \ Asleep(T))
    BY <1>4, <1>6, <1>7, <1>10
  <2> QED BY <1>3, <1>7, <2>1 DEF Placed, G, Q
<1>13. Keeping(T)
  <2>1. \A h : \A r \in Int : Contains(G[r], h) => Contains(F[r], h)
    BY <1>7
  <2> QED BY <1>3, <2>1 DEF Keeping, Right, F, G
<1>14. Shape(T) /\ Rung(T) /\ Waiting(T) /\ Standing(T)
  BY <1>3 DEF Right, Shape, Rung, Waiting, Standing
<1>15. Right(T, A \ {g})
  BY <1>3, <1>11, <1>12, <1>13, <1>14 DEF Right
<1> QED BY <1>3, <1>8, <1>9, <1>15 DEF T, t

(* A goal that was asleep is awake, before it is put anywhere.             *)
LEMMA RightRouse ==
  ASSUME NEW S, NEW A, Right(S, A), NEW g \in Goal, S.asleep[g] # None
  PROVE  LET W == [S EXCEPT !.asleep[g] = None, !.suspended = @ - 1]
         IN  /\ Right(W, A \ {g}) /\ g \in A
             /\ W.asleep[g] = None /\ \A h \in Goal : h # g => W.asleep[h] = S.asleep[h]
             /\ W.qp = S.qp /\ W.prio = S.prio /\ W.hooks = S.hooks /\ W.waits = S.waits
             /\ W.due = S.due /\ W.signal = S.signal /\ W.rep = S.rep /\ W.val = S.val
<1> DEFINE a == [S.asleep EXCEPT ![g] = None]  n == S.suspended - 1
           W == [S EXCEPT !.asleep = a, !.suspended = n]
           W0 == [S EXCEPT !.asleep[g] = None, !.suspended = @ - 1]
<1>1. S \in StateType /\ S.asleep \in [Goal -> Sleep] /\ S.suspended \in Int
  BY DEF Right, StateType
<1>2. /\ a \in [Goal -> Sleep] /\ a[g] = None /\ \A h \in Goal : h # g => a[h] = S.asleep[h]
      /\ n \in Int
  BY <1>1 DEF Sleep
<1>3. W0 = W
  OBVIOUS
<1> HIDE DEF a, n, W0
<1>4. /\ W \in StateType /\ W.asleep = a /\ W.suspended = n
      /\ W.qp = S.qp /\ W.prio = S.prio /\ W.prioq = S.prioq /\ W.resumed = S.resumed
      /\ W.higher = S.higher /\ W.doorbell = S.doorbell
      /\ W.hooks = S.hooks /\ W.waits = S.waits
      /\ W.due = S.due /\ W.signal = S.signal /\ W.rep = S.rep /\ W.val = S.val
  BY <1>1, <1>2 DEF StateType
<1> HIDE DEF W
<1>5. Asleep(W) = Asleep(S) \ {g} /\ g \in Asleep(S) /\ g \in A
  BY <1>2, <1>4 DEF Asleep, Right, Counted
<1>6. Counted(W, A \ {g})
  <2>1. IsFiniteSet(A) /\ Asleep(S) \subseteq A /\ A \subseteq Goal
    BY DEF Right, Counted
  <2>2. IsFiniteSet(A \ {g}) /\ IsFiniteSet(Asleep(S))
    BY <2>1, FS_RemoveElement, FS_Subset
  <2>3. Cardinality(Asleep(S) \ {g}) = Cardinality(Asleep(S)) - 1
    BY <1>5, <2>2, FS_RemoveElement
  <2>4. W.suspended = Cardinality(Asleep(W))
    BY <1>4, <1>5, <2>3 DEF Right, Counted, n
  <2> QED BY <1>5, <2>1, <2>2, <2>4 DEF Counted
<1>7. QueueFn(W) = QueueFn(S)
  BY <1>4 DEF QueueFn
<1>8. Placed(W, A \ {g})
  <2>1. A \ Asleep(S) = (A \ {g}) \ Asleep(W)
    BY <1>5
  <2> QED BY <1>4, <1>7, <2>1 DEF Placed, Right
<1>9. Keeping(W)
  BY <1>2, <1>4, <1>7 DEF Keeping, Right
<1>10. Shape(W) /\ Rung(W) /\ Waiting(W) /\ Standing(W)
  BY <1>4 DEF Right, Shape, Rung, Waiting, Standing
<1>11. Right(W, A \ {g})
  BY <1>4, <1>6, <1>8, <1>9, <1>10 DEF Right
<1> QED BY <1>2, <1>3, <1>4, <1>5, <1>11 DEF W0

(* What a hook does: its goal is awake, and otherwise nothing has changed  *)
(* outside the queues.                                                     *)
Kept(S, T) ==
  /\ T.qp = S.qp /\ T.prio = S.prio /\ T.hooks = S.hooks /\ T.waits = S.waits
  /\ T.due = S.due /\ T.signal = S.signal /\ T.rep = S.rep /\ T.val = S.val

LEMMA RightWake ==
  ASSUME NEW S, NEW A, Right(S, A), NEW g \in Goal
  PROVE  LET T == Wake(S, g)
         IN  /\ Right(T, A) /\ Kept(S, T)
             /\ T.asleep[g] = None /\ \A h \in Goal : h # g => T.asleep[h] = S.asleep[h]
<1> DEFINE T == Wake(S, g)
           W == [S EXCEPT !.asleep[g] = None, !.suspended = @ - 1]
           p == S.asleep[g].prio
<1>1. CASE S.asleep[g] = None
  BY <1>1 DEF Wake, Kept
<1>2. CASE S.asleep[g] # None
  <2>1. T = IF p = S.prio THEN ResumeSamePrio(W, g) ELSE EnqueueElsewhere(W, p, g)
    BY <1>2 DEF Wake
  <2>2. p = S.due[g] /\ p \in Nat
    BY <1>2 DEF Right, Keeping, StateType
  <2>3. /\ Right(W, A \ {g}) /\ g \in A
        /\ W.asleep[g] = None /\ \A h \in Goal : h # g => W.asleep[h] = S.asleep[h]
        /\ W.qp = S.qp /\ W.prio = S.prio /\ W.hooks = S.hooks /\ W.waits = S.waits
        /\ W.due = S.due /\ W.signal = S.signal /\ W.rep = S.rep /\ W.val = S.val
    BY <1>2, RightRouse
  <2> HIDE DEF W, T, p
  <2>4. /\ W \in StateType /\ g \notin A \ {g} /\ (A \ {g}) \cup {g} = A
        /\ W.waits[g] # None => g \in Waiter
        /\ W.due[g] = p
        /\ PrioqOK(W.prioq) /\ g \in AnyGoal
    BY <2>2, <2>3 DEF Right, Waiting, Shape, AnyGoal
  <2>5. CASE p = S.prio
    <3>1. T = ResumeSamePrio(W, g)
      BY <2>1, <2>5
    <3>2. /\ T \in StateType /\ T.resumed = <<g>> \o W.resumed /\ T.doorbell = TRUE
          /\ T.asleep = W.asleep /\ T.suspended = W.suspended /\ T.prio = W.prio
          /\ T.qp = W.qp /\ T.prioq = W.prioq /\ T.higher = W.higher
          /\ T.signal = W.signal /\ T.rep = W.rep /\ T.val = W.val /\ T.hooks = W.hooks
          /\ T.waits = W.waits /\ T.due = W.due
      BY <2>4, <3>1, SamePrioIs
    <3>3. Alike(T, W, g) /\ T.due[g] = T.prio
      BY <2>3, <2>4, <2>5, <3>2 DEF Alike, Besides
    <3> DEFINE B == A \ {g}
    <3>4. Right(W, B) /\ g \notin B /\ B \cup {g} = A
      BY <2>3, <2>4
    <3> HIDE DEF B
    <3>5. Right(T, B \cup {g})
      BY <3>2, <3>3, <3>4, RightResumed
    <3>6. Right(T, A)
      BY <3>4, <3>5
    <3> QED BY <2>3, <3>2, <3>6 DEF T, Kept
  <2>6. CASE p # S.prio
    <3>1. T = EnqueueElsewhere(W, p, g) /\ p # W.prio
      BY <2>1, <2>3, <2>6
    <3>2. Alike(W, W, g)
      BY <2>4 DEF Alike, Besides
    <3> DEFINE B == A \ {g}
    <3>3. Right(W, B) /\ g \notin B /\ B \cup {g} = A
      BY <2>3, <2>4
    <3> HIDE DEF B
    <3>4. Right(T, B \cup {g})
      BY <2>2, <2>4, <3>1, <3>2, <3>3, RightElsewhere
    <3>5. Right(T, A)
      BY <3>3, <3>4
    <3>6. Elsewhere(W, T, p, g)
      BY <2>2, <2>4, <3>1, ElsewhereIs
    <3> QED BY <2>3, <3>5, <3>6 DEF T, Kept, Elsewhere
  <2> QED BY <2>5, <2>6
<1> QED BY <1>1, <1>2

(* All the hooks in a row: the induction that the fold needs.              *)
LEMMA RightFold ==
  ASSUME NEW S, NEW A, Right(S, A), NEW gs \in Seq(Goal)
  PROVE  LET T == WakeAll(S, gs)
         IN  /\ Right(T, A) /\ Kept(S, T)
             /\ \A h \in Goal : T.asleep[h] = IF Contains(gs, h) THEN None ELSE S.asleep[h]
<1> DEFINE n == Len(gs)
<1>1. n \in Nat /\ DOMAIN gs = 1 .. n /\ \A i \in 1 .. n : gs[i] \in Goal
  BY LenProperties, ElementOfSeq
<1>2. PICK w : /\ w[0] = S
               /\ \A k \in 1 .. n : w[k] = Wake(w[k-1], gs[k])
               /\ WakeAll(S, gs) = w[n]
  <2>1. n \in Nat /\ DOMAIN gs = 1 .. n
    BY <1>1
  <2> HIDE DEF n
  <2>2. Unrolled(S, gs, n)
    BY <2>1, WakeFold
  <2> QED BY <2>2 DEF Unrolled
<1> DEFINE Met(k, h) == \E i \in 1 .. k : gs[i] = h
           Good(k) == /\ Right(w[k], A) /\ Kept(S, w[k])
                      /\ \A h \in Goal : w[k].asleep[h] = IF Met(k, h) THEN None ELSE S.asleep[h]
           T == {k \in 0 .. n : Good(k)}
<1>3. 0 \in T
  <2>1. 0 \in 0 .. n /\ \A h : ~ Met(0, h)
    BY <1>1
  <2> HIDE DEF Met
  <2> QED BY <1>2, <2>1 DEF Kept
<1>4. ASSUME NEW k \in 0 .. n-1, k \in T PROVE k + 1 \in T
  <2>1. /\ k + 1 \in 1 .. n /\ k + 1 - 1 = k /\ k + 1 \in 0 .. n
        /\ \A i : i \in 1 .. k + 1 <=> (i \in 1 .. k \/ i = k + 1)
    BY <1>1
  <2> DEFINE g == gs[k + 1]  U == w[k]  V == w[k + 1]
  <2>2. V = Wake(U, g) /\ g \in Goal
    BY <1>1, <1>2, <2>1
  <2>3. /\ Right(U, A) /\ Kept(S, U)
        /\ \A h \in Goal : U.asleep[h] = IF Met(k, h) THEN None ELSE S.asleep[h]
    BY <1>4
  <2>4. \A h : Met(k + 1, h) <=> (Met(k, h) \/ h = g)
    BY <2>1
  <2> HIDE DEF Met, g, U, V
  <2>5. /\ Right(V, A) /\ Kept(U, V)
        /\ V.asleep[g] = None /\ \A h \in Goal : h # g => V.asleep[h] = U.asleep[h]
    BY <2>2, <2>3, RightWake
  <2>6. Kept(S, V)
    BY <2>3, <2>5 DEF Kept
  <2>7. \A h \in Goal : V.asleep[h] = IF Met(k + 1, h) THEN None ELSE S.asleep[h]
    BY <2>2, <2>3, <2>4, <2>5
  <2> QED BY <2>1, <2>5, <2>6, <2>7 DEF V
<1>5. n \in T
  <2> HIDE DEF T, n
  <2> QED BY <1>1, <1>3, <1>4, InductTo
<1>6. Good(n)
  BY <1>5
<1>7. \A h : Met(n, h) <=> Contains(gs, h)
  BY DEF Contains
<1> HIDE DEF Met
<1> QED BY <1>2, <1>6, <1>7

-----------------------------------------------------------------------------
(* A change to anything but the goals and where they are.                  *)
LEMMA RightAgain ==
  ASSUME NEW S, NEW A, Right(S, A), NEW T \in StateType,
         Shape(T), Rung(T), Standing(T),
         QueueFn(T) = QueueFn(S), T.resumed = S.resumed,
         T.asleep = S.asleep, T.suspended = S.suspended, T.waits = S.waits, T.due = S.due,
         \/ T.prio = S.prio
         \/ \A g \in Goal : Contains(S.resumed, g) => S.waits[g] # None
  PROVE  Right(T, A)
<1>1. Asleep(T) = Asleep(S)
  BY DEF Asleep
<1>2. Counted(T, A)
  BY <1>1 DEF Right, Counted
<1>3. Placed(T, A)
  BY <1>1 DEF Right, Placed
<1>4. Keeping(T)
  BY DEF Right, Keeping
<1>5. Waiting(T)
  BY DEF Right, Waiting
<1> QED BY <1>2, <1>3, <1>4, <1>5 DEF Right

(* A goal that is asleep is hooked on its variables, none of which has a   *)
(* value.                                                                  *)
Unbound(S) ==
  \A g \in Goal : S.asleep[g] # None =>
    \A x \in S.asleep[g].on :
      S.val[S.rep[x]] = None /\ Contains(S.hooks[S.rep[x]], g)

(* A binding wakes the goals on the hooks of the variable, and no goal     *)
(* that stays asleep has been waiting for it.                              *)
LEMMA RightBind ==
  ASSUME NEW S, NEW A, Right(S, A), Unbound(S), NEW x \in Var, S.rep[x] = x, NEW v \in Value
  PROVE  LET T == BindVar(S, x, v)
         IN  /\ Right(T, A) /\ Unbound(T)
             /\ T.qp = S.qp /\ T.prio = S.prio /\ T.waits = S.waits /\ T.due = S.due
             /\ T.signal = S.signal /\ T.rep = S.rep
<1> DEFINE B == [S EXCEPT !.val[x] = v]
           gs == B.hooks[x]
           W == WakeAll(B, gs)
           T == [W EXCEPT !.hooks[x] = <<>>]
<1>1. BindVar(S, x, v) = T
  BY DEF BindVar, ResumeGoals, WakeAll
<1>2. S \in StateType
  BY DEF Right
<1>3. /\ B \in StateType /\ B.val = [S.val EXCEPT ![x] = v] /\ gs \in Seq(Goal)
      /\ B.hooks = S.hooks /\ gs = S.hooks[x]
      /\ B.qp = S.qp /\ B.prio = S.prio /\ B.prioq = S.prioq /\ B.resumed = S.resumed
      /\ B.higher = S.higher /\ B.doorbell = S.doorbell /\ B.asleep = S.asleep
      /\ B.suspended = S.suspended /\ B.waits = S.waits
      /\ B.due = S.due /\ B.signal = S.signal /\ B.rep = S.rep
  BY <1>2 DEF StateType
<1> HIDE DEF B, gs
<1>4. Right(B, A)
  <2>1. Shape(B) /\ Rung(B) /\ Standing(B) /\ QueueFn(B) = QueueFn(S)
    BY <1>3 DEF Right, Shape, Rung, Standing, QueueFn
  <2> QED BY <1>3, <2>1, RightAgain
<1>5. /\ Right(W, A) /\ Kept(B, W)
      /\ \A h \in Goal : W.asleep[h] = IF Contains(gs, h) THEN None ELSE B.asleep[h]
  BY <1>3, <1>4, RightFold
<1> HIDE DEF W
<1>6. W \in StateType
  BY <1>5 DEF Right
<1>7. /\ T \in StateType /\ T.hooks = [W.hooks EXCEPT ![x] = <<>>]
      /\ T.qp = W.qp /\ T.prio = W.prio /\ T.prioq = W.prioq /\ T.resumed = W.resumed
      /\ T.higher = W.higher /\ T.doorbell = W.doorbell /\ T.asleep = W.asleep
      /\ T.suspended = W.suspended /\ T.waits = W.waits
      /\ T.due = W.due /\ T.signal = W.signal /\ T.rep = W.rep /\ T.val = W.val
  <2> DEFINE k == [W.hooks EXCEPT ![x] = <<>>]  e == <<>>
  <2>1. e \in Seq(Goal) /\ W.hooks \in [Var -> Seq(Goal)]
    BY <1>6 DEF StateType
  <2>2. k \in [Var -> Seq(Goal)]
    <3> HIDE DEF e
    <3>1. [W.hooks EXCEPT ![x] = e] \in [Var -> Seq(Goal)]
      BY <2>1
    <3> QED BY <3>1 DEF e
  <2>3. T = [W EXCEPT !.hooks = k]
    OBVIOUS
  <2> HIDE DEF k, T
  <2>4. /\ T \in StateType /\ T.hooks = k
        /\ T.qp = W.qp /\ T.prio = W.prio /\ T.prioq = W.prioq /\ T.resumed = W.resumed
        /\ T.higher = W.higher /\ T.doorbell = W.doorbell /\ T.asleep = W.asleep
        /\ T.suspended = W.suspended /\ T.waits = W.waits
        /\ T.due = W.due /\ T.signal = W.signal /\ T.rep = W.rep /\ T.val = W.val
    BY <1>6, <2>2, <2>3 DEF StateType
  <2> QED BY <2>4 DEF k
<1> HIDE DEF T
<1>8. Right(T, A)
  <2>1. Shape(T) /\ Rung(T) /\ Standing(T) /\ QueueFn(T) = QueueFn(W)
    BY <1>5, <1>7 DEF Right, Shape, Rung, Standing, QueueFn
  <2> QED BY <1>5, <1>7, <2>1, RightAgain
<1>9. Unbound(T)
  <2> SUFFICES ASSUME NEW g \in Goal, T.asleep[g] # None, NEW y \in T.asleep[g].on
               PROVE  T.val[T.rep[y]] = None /\ Contains(T.hooks[T.rep[y]], g)
    BY DEF Unbound
  <2>1. ~ Contains(S.hooks[x], g) /\ T.asleep[g] = S.asleep[g]
    BY <1>3, <1>5, <1>7
  <2>2. S.val[S.rep[y]] = None /\ Contains(S.hooks[S.rep[y]], g)
    BY <2>1 DEF Unbound
  <2>3. y \in Var /\ S.rep[y] \in Var
    BY <1>2, <2>1 DEF StateType, Sleep
  <2>4. T.rep = S.rep /\ S.rep[y] # x
    BY <1>3, <1>5, <1>7, <2>1, <2>2 DEF Kept
  <2>5. T.val[S.rep[y]] = S.val[S.rep[y]] /\ T.hooks[S.rep[y]] = S.hooks[S.rep[y]]
    BY <1>2, <1>3, <1>5, <1>7, <2>3, <2>4 DEF Kept, StateType
  <2> QED BY <2>2, <2>4, <2>5
<1> QED BY <1>1, <1>3, <1>5, <1>7, <1>8, <1>9 DEF Kept

(* A signal handler binds its variable.                                    *)
LEMMA RightSignal ==
  ASSUME NEW S, NEW A, Right(S, A), Unbound(S)
  PROVE  LET T == HandleSignal(S)
         IN  /\ Right(T, A) /\ Unbound(T) /\ T.signal = None
             /\ T.qp = S.qp /\ T.prio = S.prio /\ T.waits = S.waits /\ T.due = S.due
             /\ T.rep = S.rep
<1>1. CASE S.signal = None
  BY <1>1 DEF HandleSignal
<1>2. CASE S.signal # None
  <2> DEFINE x == S.rep[S.signal.on]
             v == S.signal.value
             B == BindVar(S, x, v)
             T == [B EXCEPT !.signal = None]
  <2>1. HandleSignal(S) = T
    BY <1>2 DEF HandleSignal
  <2>2. x \in Var /\ S.rep[x] = x /\ v \in Value
    <3>1. S.signal.on \in Var /\ v \in Value
      BY <1>2, SchedAssumption DEF Right, StateType, Signal
    <3> QED BY <3>1 DEF Right, StateType, Standing
  <2> HIDE DEF x, v
  <2>3. /\ Right(B, A) /\ Unbound(B)
        /\ B.qp = S.qp /\ B.prio = S.prio /\ B.waits = S.waits /\ B.due = S.due
        /\ B.signal = S.signal /\ B.rep = S.rep
    BY <2>2, RightBind
  <2> HIDE DEF B
  <2>4. B \in StateType
    BY <2>3 DEF Right
  <2>5. /\ T \in StateType /\ T.hooks = B.hooks
        /\ T.qp = B.qp /\ T.prio = B.prio /\ T.prioq = B.prioq /\ T.resumed = B.resumed
        /\ T.higher = B.higher /\ T.doorbell = B.doorbell /\ T.asleep = B.asleep
        /\ T.suspended = B.suspended /\ T.waits = B.waits
        /\ T.due = B.due /\ T.signal = None /\ T.rep = B.rep /\ T.val = B.val
    BY <2>4 DEF StateType, Signal
  <2> HIDE DEF T
  <2>6. Shape(T) /\ Rung(T) /\ Standing(T) /\ QueueFn(T) = QueueFn(B)
    BY <2>3, <2>5 DEF Right, Shape, Rung, Standing, QueueFn
  <2>7. Right(T, A)
    BY <2>3, <2>5, <2>6, RightAgain
  <2>8. Unbound(T)
    BY <2>3, <2>5 DEF Unbound
  <2> QED BY <2>1, <2>3, <2>5, <2>7, <2>8
<1> QED BY <1>1, <1>2

(* The resumed goals are put before the others.                            *)
LEMMA RightMerge ==
  ASSUME NEW S, NEW A, Right(S, A), Unbound(S)
  PROVE  LET T == EnqueueResumedGoals(S)
         IN  /\ Right(T, A) /\ Unbound(T) /\ T.resumed = <<>> /\ T.signal = S.signal
             /\ T.qp = S.resumed \o S.qp
             /\ T.prio = S.prio /\ T.waits = S.waits /\ T.due = S.due /\ T.rep = S.rep
<1> DEFINE T == EnqueueResumedGoals(S)
           q == S.resumed \o S.qp
           F == QueueFn(S)
           G == QueueFn(T)
<1>1. S \in StateType /\ S.prio \in Nat /\ S.prio \in Int /\ PrioqOK(S.prioq)
  BY DEF Right, StateType, Shape
<1>2. S.resumed \in Seq(AnyGoal) /\ S.qp \in Seq(AnyGoal) /\ F \in Queues
  BY <1>1, QueueFnType DEF StateType
<1>3. q \in Seq(AnyGoal)
  BY <1>2, ConcatIs
<1> HIDE DEF q
<1>4. T = [S EXCEPT !.qp = q, !.resumed = <<>>]
  BY DEF EnqueueResumedGoals, q
<1> HIDE DEF T
<1>5. /\ T \in StateType /\ T.qp = q /\ T.resumed = <<>> /\ T.hooks = S.hooks
      /\ T.prio = S.prio /\ T.prioq = S.prioq
      /\ T.higher = S.higher /\ T.doorbell = S.doorbell /\ T.asleep = S.asleep
      /\ T.suspended = S.suspended /\ T.waits = S.waits
      /\ T.due = S.due /\ T.signal = S.signal /\ T.rep = S.rep /\ T.val = S.val
  <2> DEFINE e == <<>>
  <2>1. e \in Seq(Goal)
    OBVIOUS
  <2>2. T = [S EXCEPT !.qp = q, !.resumed = e]
    BY <1>4
  <2> HIDE DEF e
  <2>3. /\ T \in StateType /\ T.qp = q /\ T.resumed = e /\ T.hooks = S.hooks
        /\ T.prio = S.prio /\ T.prioq = S.prioq
        /\ T.higher = S.higher /\ T.doorbell = S.doorbell /\ T.asleep = S.asleep
        /\ T.suspended = S.suspended /\ T.waits = S.waits
        /\ T.due = S.due /\ T.signal = S.signal /\ T.rep = S.rep /\ T.val = S.val
    BY <1>1, <1>3, <2>1, <2>2 DEF StateType
  <2> QED BY <2>3 DEF e
<1>6. G = [F EXCEPT ![S.prio] = S.resumed \o @]
  <2>1. \A r \in Int : G[r] = [F EXCEPT ![S.prio] = S.resumed \o @][r]
    BY <1>1, <1>2, <1>5 DEF QueueFn, q
  <2> QED BY <2>1 DEF QueueFn
<1> HIDE DEF F, G
<1>7. Unique(F, S.resumed) /\ Bottom(F)
  BY DEF Right, Placed, F
<1>8. /\ Unique(G, <<>>) /\ Bottom(G)
      /\ \A h : Somewhere(G, <<>>, h) <=> Somewhere(F, S.resumed, h)
      /\ \A h : \A r \in Int :
           Contains(G[r], h) <=> ((r = S.prio /\ Contains(S.resumed, h)) \/ Contains(F[r], h))
  <2> DEFINE R == S.resumed  p == S.prio  G0 == [F EXCEPT ![p] = R \o @]
  <2>1. R \in Seq(AnyGoal) /\ p \in Int /\ Unique(F, R)
    BY <1>1, <1>2, <1>7
  <2> HIDE DEF R, p
  <2>2. /\ Unique(G0, <<>>) /\ (Bottom(F) => Bottom(G0))
        /\ \A h : Somewhere(G0, <<>>, h) <=> Somewhere(F, R, h)
        /\ \A h : \A r \in Int :
             Contains(G0[r], h) <=> ((r = p /\ Contains(R, h)) \/ Contains(F[r], h))
    BY <1>2, <2>1, MergeQueue
  <2>3. G = G0
    BY <1>6 DEF R, p
  <2> HIDE DEF G0
  <2> QED BY <1>7, <2>2, <2>3 DEF R, p
<1>9. Asleep(T) = Asleep(S)
  BY <1>5 DEF Asleep
<1>10. Counted(T, A)
  BY <1>5, <1>9 DEF Right, Counted
<1>11. Placed(T, A)
  BY <1>5, <1>8, <1>9 DEF Right, Placed, F, G
<1>12. Keeping(T)
  <2>1. ASSUME NEW g \in Goal, T.waits[g] = None, NEW p \in Int, Contains(G[p], g)
        PROVE  T.due[g] = p
    BY <1>5, <1>8, <2>1 DEF Right, Keeping, F
  <2>2. \A g : ~ Contains(<<>>, g)
    BY DEF Contains
  <2> QED BY <1>5, <2>1, <2>2 DEF Right, Keeping, G
<1>13. Shape(T) /\ Rung(T) /\ Waiting(T) /\ Standing(T)
  BY <1>5 DEF Right, Shape, Rung, Waiting, Standing
<1>14. Right(T, A)
  BY <1>5, <1>10, <1>11, <1>12, <1>13 DEF Right
<1>15. Unbound(T)
  BY <1>5 DEF Unbound
<1> QED BY <1>5, <1>14, <1>15 DEF T, q

(* The current queue is put among the others.                              *)
LEMMA PutPriorityQueueIs ==
  ASSUME NEW S \in StateType, PrioqOK(S.prioq), ~ HasPrio(S.prioq, S.prio)
  PROVE  LET T == PutPriorityQueue(S)
         IN  /\ T \in StateType /\ PrioqOK(T.prioq)
             /\ \A r \in Int : At(T.prioq, r) = QueueFn(S)[r]
             /\ \A r \in Int : HasPrio(T.prioq, r) <=> (r = S.prio \/ HasPrio(S.prioq, r))
             /\ T.prio = S.prio /\ T.resumed = S.resumed
             /\ T.higher = S.higher /\ T.doorbell = S.doorbell /\ T.asleep = S.asleep
             /\ T.hooks = S.hooks /\ T.suspended = S.suspended /\ T.waits = S.waits
             /\ T.due = S.due /\ T.signal = S.signal /\ T.rep = S.rep /\ T.val = S.val
<1> DEFINE p == S.prio  q == S.qp  Q == S.prioq  i == FirstBelow(S, p)
           R == InsertAt(Q, i, Record(p, q))
           T == PutPriorityQueue(S)
<1>1. p \in Nat /\ q \in Seq(AnyGoal) /\ PrioqOK(Q) /\ ~ HasPrio(Q, p)
  BY DEF StateType
<1>2. /\ i \in 1 .. Len(Q) /\ Q[i].prio < p
      /\ \A j \in 1 .. i-1 : Q[j].prio >= p
  BY <1>1, FirstBelowIs
<1>3. T = [S EXCEPT !.prioq = R]
  BY DEF PutPriorityQueue
<1> HIDE DEF i
<1>4. \A j \in 1 .. i-1 : Q[j].prio > p
  <2> SUFFICES ASSUME NEW j \in 1 .. i-1 PROVE Q[j].prio > p
    OBVIOUS
  <2>1. j \in 1 .. Len(Q)
    BY <1>1, <1>2, RecordOf
  <2>2. Q[j].prio \in Int /\ p \in Int /\ Q[j].prio >= p /\ Q[j].prio # p
    <3>1. Q[j].prio \in Int
      BY <1>1, <2>1, RecordOf
    <3>2. Q[j].prio # p
      BY <1>1, <2>1 DEF HasPrio
    <3> QED BY <1>1, <1>2, <3>1, <3>2
  <2> HIDE DEF p, Q
  <2> QED BY <2>2
<1> HIDE DEF p, q, Q
<1>5. /\ PrioqOK(R)
      /\ \A r \in Int : At(R, r) = IF r = p THEN q ELSE At(Q, r)
      /\ \A r \in Int : HasPrio(R, r) <=> (r = p \/ HasPrio(Q, r))
  <2>1. Stored(Q, R, p, q)
    BY <1>1, <1>2, <1>4, InsertRecord
  <2> QED BY <2>1 DEF Stored
<1> HIDE DEF R, T
<1>6. R \in Seq(QueueRecord)
  BY <1>5 DEF PrioqOK
<1>7. /\ T \in StateType /\ T.prioq = R
      /\ T.prio = S.prio /\ T.resumed = S.resumed
      /\ T.higher = S.higher /\ T.doorbell = S.doorbell /\ T.asleep = S.asleep
      /\ T.hooks = S.hooks /\ T.suspended = S.suspended /\ T.waits = S.waits
      /\ T.due = S.due /\ T.signal = S.signal /\ T.rep = S.rep /\ T.val = S.val
  BY <1>3, <1>6 DEF StateType
<1>8. \A r \in Int : At(R, r) = QueueFn(S)[r]
  BY <1>5 DEF QueueFn, p, q, Q
<1> QED BY <1>5, <1>7, <1>8 DEF T, p, Q

(* The first record becomes the current queue; F says what was where.      *)
LEMMA TopPriorityQueueIs ==
  ASSUME NEW S \in StateType, PrioqOK(S.prioq), NEW s \in Nat, HasPrio(S.prioq, s),
         NEW F \in Queues, \A r \in Int : At(S.prioq, r) = F[r]
  PROVE  LET T == GetTopPriorityQueue(S)
         IN  /\ T \in StateType /\ PrioqOK(T.prioq) /\ QueueFn(T) = F
             /\ \A r \in Int : HasPrio(S.prioq, r) <=> (r = T.prio \/ HasPrio(T.prioq, r))
             /\ \A r \in Int : HasPrio(T.prioq, r) => r < T.prio
             /\ T.resumed = S.resumed
             /\ T.higher = S.higher /\ T.doorbell = S.doorbell /\ T.asleep = S.asleep
             /\ T.hooks = S.hooks /\ T.suspended = S.suspended /\ T.waits = S.waits
             /\ T.due = S.due /\ T.signal = S.signal /\ T.rep = S.rep /\ T.val = S.val
<1> DEFINE Q == S.prioq  p == Head(Q).prio  q == Head(Q).q  R == Tail(Q)
           T == GetTopPriorityQueue(S)
<1>1. /\ PrioqOK(R)
      /\ p \in Nat /\ q \in Seq(AnyGoal)
      /\ \A r \in Int : At(Q, r) = IF r = p THEN q ELSE At(R, r)
      /\ \A r \in Int : HasPrio(Q, r) <=> (r = p \/ HasPrio(R, r))
      /\ \A r \in Int : HasPrio(R, r) => r < p
  <2> HIDE DEF Q
  <2>1. PrioqOK(Q) /\ HasPrio(Q, s)
    BY DEF Q
  <2> QED BY <2>1, DropRecord
<1>2. T = [S EXCEPT !.qp = q, !.prio = p, !.prioq = R]
  BY DEF GetTopPriorityQueue
<1> HIDE DEF T, p, q, R
<1>3. R \in Seq(QueueRecord)
  BY <1>1 DEF PrioqOK
<1>4. /\ T \in StateType /\ T.prioq = R /\ T.qp = q /\ T.prio = p
      /\ T.resumed = S.resumed
      /\ T.higher = S.higher /\ T.doorbell = S.doorbell /\ T.asleep = S.asleep
      /\ T.hooks = S.hooks /\ T.suspended = S.suspended /\ T.waits = S.waits
      /\ T.due = S.due /\ T.signal = S.signal /\ T.rep = S.rep /\ T.val = S.val
  BY <1>1, <1>2, <1>3 DEF StateType
<1>5. QueueFn(T) = F
  <2>1. \A r \in Int : QueueFn(T)[r] = F[r]
    BY <1>1, <1>4 DEF QueueFn
  <2>2. QueueFn(T) \in Queues
    BY <1>1, <1>4, QueueFnType
  <2> HIDE DEF QueueFn
  <2> QED BY <2>1, <2>2 DEF Queues
<1> QED BY <1>1, <1>4, <1>5 DEF T, Q

(* The last part of klic_interrupt().                                      *)
Attended(R) ==
  [IF R.higher THEN GetTopPriorityQueue(PutPriorityQueue(R)) ELSE R
     EXCEPT !.higher = FALSE, !.doorbell = FALSE]

(* A signal may come, or the heap get full, between any two states that    *)
(* are otherwise alike.                                                    *)
LEMMA RightSignalled ==
  ASSUME NEW S, NEW A, Right(S, A), Unbound(S), NEW T \in StateType,
         T.qp = S.qp, T.prio = S.prio, T.prioq = S.prioq, T.resumed = S.resumed,
         T.higher = S.higher, T.doorbell = S.doorbell \/ T.doorbell = TRUE,
         T.asleep = S.asleep, T.hooks = S.hooks, T.suspended = S.suspended,
         T.waits = S.waits, T.due = S.due, T.rep = S.rep, T.val = S.val
  PROVE  Right(T, A) /\ Unbound(T)
<1>1. Shape(T) /\ Rung(T) /\ Standing(T) /\ QueueFn(T) = QueueFn(S)
  BY DEF Right, Shape, Rung, Standing, QueueFn
<1>2. Right(T, A)
  BY <1>1, RightAgain
<1>3. Unbound(T)
  BY DEF Unbound
<1> QED BY <1>2, <1>3

LEMMA RightAttended ==
  ASSUME NEW S, NEW A, Right(S, A), Unbound(S), S.resumed = <<>>, S.signal = None
  PROVE  LET T == Attended(S)
         IN  /\ Right(T, A) /\ Unbound(T) /\ T.resumed = <<>> /\ T.signal = None
             /\ T.higher = FALSE /\ T.rep = S.rep /\ T.waits = S.waits
<1> DEFINE P == PutPriorityQueue(S)
           U == IF S.higher THEN GetTopPriorityQueue(P) ELSE S
           T == Attended(S)
<1>1. S \in StateType /\ Shape(S) /\ S.prio \in Nat /\ S.higher \in BOOLEAN
  BY DEF Right, StateType
<1>2. /\ U \in StateType /\ PrioqOK(U.prioq) /\ QueueFn(U) = QueueFn(S)
      /\ U.prio = 0 \/ HasPrio(U.prioq, 0)
      /\ \A r \in Int : HasPrio(U.prioq, r) => r < U.prio
      /\ U.resumed = S.resumed /\ U.asleep = S.asleep
      /\ U.hooks = S.hooks /\ U.suspended = S.suspended /\ U.waits = S.waits
      /\ U.due = S.due /\ U.signal = S.signal /\ U.rep = S.rep /\ U.val = S.val
  <2>1. CASE S.higher = TRUE
    <3>1. U = GetTopPriorityQueue(P)
      BY <2>1
    <3>2. /\ P \in StateType /\ PrioqOK(P.prioq)
          /\ \A r \in Int : At(P.prioq, r) = QueueFn(S)[r]
          /\ \A r \in Int : HasPrio(P.prioq, r) <=> (r = S.prio \/ HasPrio(S.prioq, r))
          /\ P.prio = S.prio /\ P.resumed = S.resumed
          /\ P.higher = S.higher /\ P.doorbell = S.doorbell /\ P.asleep = S.asleep
          /\ P.hooks = S.hooks /\ P.suspended = S.suspended /\ P.waits = S.waits
          /\ P.due = S.due /\ P.signal = S.signal /\ P.rep = S.rep /\ P.val = S.val
      BY <1>1, PutPriorityQueueIs DEF Shape
    <3> HIDE DEF P, U
    <3>3. HasPrio(P.prioq, S.prio) /\ QueueFn(S) \in Queues
      BY <1>1, <3>2, QueueFnType DEF Shape
    <3>4. /\ U \in StateType /\ PrioqOK(U.prioq) /\ QueueFn(U) = QueueFn(S)
          /\ \A r \in Int : HasPrio(P.prioq, r) <=> (r = U.prio \/ HasPrio(U.prioq, r))
          /\ \A r \in Int : HasPrio(U.prioq, r) => r < U.prio
          /\ U.resumed = P.resumed
          /\ U.higher = P.higher /\ U.doorbell = P.doorbell /\ U.asleep = P.asleep
          /\ U.hooks = P.hooks /\ U.suspended = P.suspended /\ U.waits = P.waits
          /\ U.due = P.due /\ U.signal = P.signal /\ U.rep = P.rep /\ U.val = P.val
      BY <1>1, <3>1, <3>2, <3>3, TopPriorityQueueIs
    <3>5. HasPrio(P.prioq, 0)
      BY <1>1, <3>2 DEF Shape
    <3> QED BY <3>2, <3>4, <3>5
  <2>2. CASE S.higher = FALSE
    <3>1. U = S
      BY <2>2
    <3> HIDE DEF U
    <3> QED BY <1>1, <2>2, <3>1 DEF Shape
  <2> QED BY <1>1, <2>1, <2>2
<1>3. T = [U EXCEPT !.higher = FALSE, !.doorbell = FALSE]
  BY DEF Attended
<1> HIDE DEF T, U, P
<1>4. /\ T \in StateType /\ T.higher = FALSE /\ T.doorbell = FALSE
      /\ T.qp = U.qp /\ T.prio = U.prio /\ T.prioq = U.prioq
      /\ T.resumed = U.resumed /\ T.asleep = U.asleep
      /\ T.hooks = U.hooks /\ T.suspended = U.suspended /\ T.waits = U.waits
      /\ T.due = U.due /\ T.signal = U.signal /\ T.rep = U.rep /\ T.val = U.val
  BY <1>2, <1>3 DEF StateType
<1>5. T.prio \in Nat /\ ~ HasPrio(T.prioq, T.prio)
  <2>1. T.prio \in Nat
    BY <1>4 DEF StateType
  <2> QED BY <1>2, <1>4, <2>1
<1>6. Shape(T) /\ Rung(T) /\ Standing(T)
  BY <1>2, <1>4, <1>5 DEF Right, Shape, Rung, Standing
<1>7. QueueFn(T) = QueueFn(S)
  <2>1. QueueFn(T) = QueueFn(U)
    BY <1>4 DEF QueueFn
  <2> QED BY <1>2, <2>1
<1>8. \A g : ~ Contains(S.resumed, g)
  BY DEF Contains
<1>9. Right(T, A)
  BY <1>2, <1>4, <1>6, <1>7, <1>8, RightAgain
<1>10. Unbound(T)
  BY <1>2, <1>4 DEF Unbound
<1> QED BY <1>2, <1>4, <1>9, <1>10 DEF T

LEMMA RightInterrupted ==
  ASSUME NEW S, NEW A, Right(S, A), Unbound(S)
  PROVE  LET T == Interrupted(S)
         IN  /\ Right(T, A) /\ Unbound(T) /\ T.resumed = <<>> /\ T.signal = None
             /\ T.higher = FALSE /\ T.rep = S.rep /\ T.waits = S.waits
<1> DEFINE Q == EnqueueResumedGoals(S)
           H == HandleSignal(Q)
           R == EnqueueResumedGoals(H)
<1>1. Right(Q, A) /\ Unbound(Q) /\ Q.resumed = <<>> /\ Q.rep = S.rep /\ Q.waits = S.waits
  BY RightMerge
<1> HIDE DEF Q
<1>2. Right(H, A) /\ Unbound(H) /\ H.signal = None /\ H.rep = Q.rep /\ H.waits = Q.waits
  BY <1>1, RightSignal
<1> HIDE DEF H
<1>3. /\ Right(R, A) /\ Unbound(R) /\ R.resumed = <<>> /\ R.signal = H.signal
      /\ R.rep = H.rep /\ R.waits = H.waits
  BY <1>2, RightMerge
<1> HIDE DEF R
<1> DEFINE T == Attended(R)
<1>4. /\ Right(T, A) /\ Unbound(T) /\ T.resumed = <<>> /\ T.signal = None
      /\ T.higher = FALSE /\ T.rep = R.rep /\ T.waits = R.waits
  BY <1>2, <1>3, RightAttended
<1>5. Interrupted(S) = T
  BY DEF Interrupted, Attended, Q, H, R
<1> HIDE DEF T
<1> QED BY <1>1, <1>2, <1>3, <1>4, <1>5

(* queue_empty(): the goals that are resumed meanwhile wait for their      *)
(* priorities.                                                             *)
LEMMA RightEmpty ==
  ASSUME NEW S, NEW A, Right(S, A), Unbound(S), S.qp = <<>>,
         \A g \in Goal : Contains(S.resumed, g) => S.waits[g] # None
  PROVE  LET T == GetTopPriorityQueue(S)
         IN  /\ Right(T, A) /\ Unbound(T) /\ T.resumed = S.resumed /\ T.waits = S.waits
             /\ T.higher = S.higher
<1> DEFINE T == GetTopPriorityQueue(S)
           F == QueueFn(S)
<1>1. S \in StateType /\ Shape(S) /\ S.prio \in Nat /\ F \in Queues
  BY QueueFnType DEF Right, StateType, Shape
<1>2. \A r \in Int : At(S.prioq, r) = F[r]
  BY <1>1 DEF QueueFn, At, Shape
<1>3. HasPrio(S.prioq, 0)
  <2>1. F[0] # <<>>
    BY DEF Right, Placed, Bottom
  <2>2. S.prio # 0
    BY <2>1 DEF QueueFn
  <2> QED BY <1>1, <2>2 DEF Shape
<1> HIDE DEF F, T
<1>4. /\ T \in StateType /\ PrioqOK(T.prioq) /\ QueueFn(T) = F
      /\ \A r \in Int : HasPrio(S.prioq, r) <=> (r = T.prio \/ HasPrio(T.prioq, r))
      /\ \A r \in Int : HasPrio(T.prioq, r) => r < T.prio
      /\ T.resumed = S.resumed
      /\ T.higher = S.higher /\ T.doorbell = S.doorbell /\ T.asleep = S.asleep
      /\ T.hooks = S.hooks /\ T.suspended = S.suspended /\ T.waits = S.waits
      /\ T.due = S.due /\ T.signal = S.signal /\ T.rep = S.rep /\ T.val = S.val
  <2>1. PrioqOK(S.prioq)
    BY <1>1 DEF Shape
  <2>2. \E s \in Nat : HasPrio(S.prioq, s)
    BY <1>3
  <2> QED BY <1>1, <1>2, <2>1, <2>2, TopPriorityQueueIs DEF T
<1>5. T.prio \in Nat /\ ~ HasPrio(T.prioq, T.prio)
  <2>1. T.prio \in Nat
    BY <1>4 DEF StateType
  <2> QED BY <1>4, <2>1
<1>6. Shape(T) /\ Rung(T) /\ Standing(T)
  BY <1>3, <1>4, <1>5 DEF Right, Shape, Rung, Standing
<1>7. Right(T, A)
  BY <1>4, <1>6, RightAgain DEF F
<1>8. Unbound(T)
  BY <1>4 DEF Unbound
<1> QED BY <1>4, <1>7, <1>8 DEF T

(* A goal is suspended.                                                    *)
LEMMA RightHookOn ==
  ASSUME NEW S, NEW A, Right(S, A), Unbound(S), NEW g \in Goal, g \notin A,
         S.due[g] = S.prio,
         NEW xs \in SUBSET Var, \A x \in xs : S.rep[x] = x /\ S.val[x] = None
  PROVE  LET T == HookOn(S, g, xs)
         IN  Right(T, A \cup {g}) /\ Unbound(T) /\ T.rep = S.rep
<1> DEFINE mine(x) == IF x \in xs THEN <<g>> ELSE <<>>
           hk == [x \in Var |-> mine(x) \o Without(S.hooks[x], g)]
           sl == [prio |-> S.prio, on |-> xs]
           a == [S.asleep EXCEPT ![g] = sl]
           n == S.suspended + 1
           T == HookOn(S, g, xs)
<1>1. /\ S \in StateType /\ S.prio \in Nat /\ S.hooks \in [Var -> Seq(Goal)]
      /\ S.asleep \in [Goal -> Sleep] /\ S.suspended \in Int
  BY DEF Right, StateType
<1>2. T = [S EXCEPT !.hooks = hk, !.asleep = a, !.suspended = n]
  BY DEF HookOn
<1>3. /\ hk \in [Var -> Seq(Goal)]
      /\ \A x \in Var : \A h : Contains(hk[x], h) <=>
           (x \in xs /\ h = g) \/ (Contains(S.hooks[x], h) /\ h # g)
  <2> SUFFICES ASSUME NEW x \in Var
               PROVE  /\ hk[x] \in Seq(Goal)
                      /\ \A h : Contains(hk[x], h) <=>
                           (x \in xs /\ h = g) \/ (Contains(S.hooks[x], h) /\ h # g)
    OBVIOUS
  <2> DEFINE w == Without(S.hooks[x], g)  m == mine(x)
  <2>1. w \in Seq(Goal) /\ \A h : Contains(w, h) <=> (Contains(S.hooks[x], h) /\ h # g)
    <3>1. S.hooks[x] \in Seq(Goal)
      BY <1>1
    <3> QED BY <3>1, WithoutIs
  <2>2. m \in Seq(Goal) /\ \A h : Contains(m, h) <=> (x \in xs /\ h = g)
    <3>1. \A h : ~ Contains(<<>>, h)
      BY DEF Contains
    <3>2. <<g>> \in Seq(Goal) /\ <<>> \in Seq(Goal) /\ \A h : Contains(<<g>>, h) <=> h = g
      BY Single
    <3>3. CASE x \in xs
      BY <3>2, <3>3
    <3>4. CASE x \notin xs
      BY <3>1, <3>2, <3>4
    <3> QED BY <3>3, <3>4
  <2>3. hk[x] = m \o w
    OBVIOUS
  <2> HIDE DEF m, w, hk
  <2>4. m \o w \in Seq(Goal) /\ \A h : Contains(m \o w, h) <=> (Contains(m, h) \/ Contains(w, h))
    BY <2>1, <2>2, ConcatIs
  <2> QED BY <2>1, <2>2, <2>3, <2>4
<1> HIDE DEF mine, hk, T
<1>4. sl \in Sleep /\ sl # None /\ sl.prio = S.prio /\ sl.on = xs
  BY <1>1, SchedAssumption DEF Sleep
<1> HIDE DEF sl
<1>5. /\ a \in [Goal -> Sleep] /\ a[g] = sl /\ \A h \in Goal : h # g => a[h] = S.asleep[h]
      /\ n \in Int
  BY <1>1, <1>4
<1> HIDE DEF a, n
<1>6. /\ T \in StateType /\ T.hooks = hk /\ T.asleep = a /\ T.suspended = n
      /\ T.qp = S.qp /\ T.prio = S.prio /\ T.prioq = S.prioq /\ T.resumed = S.resumed
      /\ T.higher = S.higher /\ T.doorbell = S.doorbell /\ T.waits = S.waits
      /\ T.due = S.due /\ T.signal = S.signal /\ T.rep = S.rep /\ T.val = S.val
  BY <1>1, <1>2, <1>3, <1>5 DEF StateType
<1>7. Asleep(T) = Asleep(S) \cup {g} /\ g \notin Asleep(S)
  BY <1>4, <1>5, <1>6 DEF Asleep, Right, Counted
<1>8. Counted(T, A \cup {g})
  <2>1. IsFiniteSet(A) /\ Asleep(S) \subseteq A /\ A \subseteq Goal
    BY DEF Right, Counted
  <2>2. IsFiniteSet(A \cup {g}) /\ IsFiniteSet(Asleep(S))
    BY <2>1, FS_AddElement, FS_Subset
  <2>3. Cardinality(Asleep(S) \cup {g}) = Cardinality(Asleep(S)) + 1
    BY <1>7, <2>2, FS_AddElement
  <2>4. T.suspended = Cardinality(Asleep(T))
    BY <1>6, <1>7, <2>3 DEF Right, Counted, n
  <2> QED BY <1>7, <2>1, <2>2, <2>4 DEF Counted
<1>9. QueueFn(T) = QueueFn(S)
  BY <1>6 DEF QueueFn
<1>10. Placed(T, A \cup {g})
  <2>1. A \ Asleep(S) = (A \cup {g}) \ Asleep(T)
    BY <1>7
  <2> QED BY <1>6, <1>9, <2>1 DEF Placed, Right
<1>11. Keeping(T)
  <2>1. \A h \in Goal : T.asleep[h] # None => T.asleep[h].prio = T.due[h]
    BY <1>4, <1>5, <1>6 DEF Right, Keeping
  <2> QED BY <1>6, <1>9, <2>1 DEF Keeping, Right
<1>12. Shape(T) /\ Rung(T) /\ Waiting(T) /\ Standing(T)
  BY <1>6 DEF Right, Shape, Rung, Waiting, Standing
<1>13. Right(T, A \cup {g})
  BY <1>6, <1>8, <1>10, <1>11, <1>12 DEF Right
<1>14. Unbound(T)
  <2> SUFFICES ASSUME NEW h \in Goal, T.asleep[h] # None, NEW y \in T.asleep[h].on
               PROVE  T.val[T.rep[y]] = None /\ Contains(T.hooks[T.rep[y]], h)
    BY DEF Unbound
  <2>1. CASE h = g
    <3>1. y \in xs /\ S.rep[y] = y /\ S.val[y] = None /\ y \in Var
      BY <1>4, <1>5, <1>6, <2>1
    <3>2. Contains(hk[y], g)
      BY <1>3, <3>1
    <3> QED BY <1>6, <2>1, <3>1, <3>2
  <2>2. CASE h # g
    <3>1. T.asleep[h] = S.asleep[h]
      BY <1>5, <1>6, <2>2
    <3>2. S.val[S.rep[y]] = None /\ Contains(S.hooks[S.rep[y]], h)
      BY <3>1 DEF Unbound
    <3>3. S.rep[y] \in Var
      BY <1>1, <3>1 DEF StateType, Sleep
    <3>4. Contains(hk[S.rep[y]], h)
      BY <1>3, <2>2, <3>2, <3>3
    <3> QED BY <1>6, <3>2, <3>4
  <2> QED BY <2>1, <2>2
<1> QED BY <1>6, <1>13, <1>14 DEF T

(* Two variables are unified: what was hooked on either is hooked on the   *)
(* one that stays.                                                         *)
Unified(S, x, y, r) == [SpliceHooks(S, x, y) EXCEPT !.rep = r]

LEMMA RightUnified ==
  ASSUME NEW S, NEW A, Right(S, A), Unbound(S), NEW x \in Var, NEW y \in Var, x # y,
         \A z \in {x, y} : S.rep[z] = z /\ S.val[z] = None,
         NEW r, r = [z \in Var |-> IF S.rep[z] = y THEN x ELSE S.rep[z]]
  PROVE  LET T == Unified(S, x, y, r)
         IN  /\ Right(T, A) /\ Unbound(T)
             /\ T.waits = S.waits /\ T.due = S.due /\ T.prio = S.prio
<1> DEFINE k == S.hooks[y] \o S.hooks[x]
           e == <<>>
           hk == [[S.hooks EXCEPT ![x] = k] EXCEPT ![y] = e]
           T == Unified(S, x, y, r)
<1>1. S \in StateType /\ S.hooks \in [Var -> Seq(Goal)] /\ S.rep \in [Var -> Var] /\ Standing(S)
  BY DEF Right, StateType
<1>2. k \in Seq(Goal) /\ \A h : Contains(k, h) <=> (Contains(S.hooks[x], h) \/ Contains(S.hooks[y], h))
  <2> DEFINE a == S.hooks[y]  b == S.hooks[x]
  <2>1. a \in Seq(Goal) /\ b \in Seq(Goal)
    BY <1>1
  <2> HIDE DEF a, b
  <2>2. a \o b \in Seq(Goal) /\ \A h : Contains(a \o b, h) <=> (Contains(a, h) \/ Contains(b, h))
    BY <2>1, ConcatIs
  <2> QED BY <2>2 DEF a, b
<1>3. T = [S EXCEPT !.hooks = hk, !.rep = r]
  BY DEF Unified, SpliceHooks
<1>4. e \in Seq(Goal)
  OBVIOUS
<1> HIDE DEF k, T, e
<1>5. /\ hk \in [Var -> Seq(Goal)] /\ hk[x] = k
      /\ \A z \in Var \ {x, y} : hk[z] = S.hooks[z]
  BY <1>1, <1>2, <1>4
<1> HIDE DEF hk
<1>6. r \in [Var -> Var] /\ \A z \in Var : r[r[z]] = r[z]
  <2>1. r \in [Var -> Var] /\ \A z \in Var : r[z] = IF S.rep[z] = y THEN x ELSE S.rep[z]
    BY <1>1
  <2>2. S.rep[x] = x
    OBVIOUS
  <2>3. ASSUME NEW z \in Var PROVE r[r[z]] = r[z]
    <3>1. S.rep[S.rep[z]] = S.rep[z] /\ S.rep[z] \in Var
      BY <1>1 DEF Standing
    <3> QED BY <2>1, <2>2, <3>1
  <2> QED BY <2>1, <2>3
<1>7. /\ T \in StateType /\ T.hooks = hk /\ T.rep = r
      /\ T.asleep = S.asleep /\ T.suspended = S.suspended
      /\ T.qp = S.qp /\ T.prio = S.prio /\ T.prioq = S.prioq /\ T.resumed = S.resumed
      /\ T.higher = S.higher /\ T.doorbell = S.doorbell /\ T.waits = S.waits
      /\ T.due = S.due /\ T.signal = S.signal /\ T.val = S.val
  BY <1>1, <1>3, <1>5, <1>6 DEF StateType
<1>8. Shape(T) /\ Rung(T) /\ Standing(T) /\ QueueFn(T) = QueueFn(S)
  BY <1>6, <1>7 DEF Right, Shape, Rung, Standing, QueueFn
<1>9. Right(T, A)
  BY <1>7, <1>8, RightAgain
<1>10. Unbound(T)
  <2> SUFFICES ASSUME NEW g \in Goal, T.asleep[g] # None, NEW z \in T.asleep[g].on
               PROVE  T.val[T.rep[z]] = None /\ Contains(T.hooks[T.rep[z]], g)
    BY DEF Unbound
  <2>1. S.val[S.rep[z]] = None /\ Contains(S.hooks[S.rep[z]], g)
    BY <1>7 DEF Unbound
  <2>2. z \in Var /\ S.rep[z] \in Var
    BY <1>1, <1>7 DEF StateType, Sleep
  <2>3. CASE S.rep[z] = y
    <3>1. r[z] = x
      BY <2>2, <2>3
    <3> QED BY <1>2, <1>5, <1>7, <2>1, <2>3, <3>1
  <2>4. CASE S.rep[z] # y
    <3>1. r[z] = S.rep[z]
      BY <2>2, <2>4
    <3>2. CASE S.rep[z] = x
      BY <1>2, <1>5, <1>7, <2>1, <3>1, <3>2
    <3>3. CASE S.rep[z] # x
      BY <1>5, <1>7, <2>1, <2>2, <2>4, <3>1, <3>3
    <3> QED BY <3>2, <3>3
  <2> QED BY <2>3, <2>4
<1> QED BY <1>7, <1>9, <1>10 DEF T

-----------------------------------------------------------------------------
(* The steps.                                                              *)
LEMMA BecomesIs ==
  ASSUME NEW T \in StateType, Becomes(T)
  PROVE  State' = T
<1>1. T = [qp |-> T.qp, prio |-> T.prio, prioq |-> T.prioq, resumed |-> T.resumed,
           higher |-> T.higher, doorbell |-> T.doorbell, asleep |-> T.asleep,
           hooks |-> T.hooks, suspended |-> T.suspended, waits |-> T.waits, due |-> T.due,
           signal |-> T.signal, rep |-> T.rep, val |-> T.val]
  BY DEF StateType
<1>2. /\ qp' = T.qp /\ current_prio' = T.prio /\ prioq' = T.prioq
      /\ resumed_goals' = T.resumed /\ higher_priority_goal' = T.higher
      /\ doorbell' = T.doorbell /\ asleep' = T.asleep /\ hooks' = T.hooks
      /\ suspended' = T.suspended /\ waits' = T.waits /\ due' = T.due
      /\ signal' = T.signal /\ rep' = T.rep /\ val' = T.val
  BY DEF Becomes
<1> QED BY <1>1, <1>2 DEF State

(* klic_interrupt() leaves a right state, and nothing to be resumed.        *)
LEMMA InterruptIs ==
  ASSUME NEW S, NEW A, Right(S, A), Unbound(S), Interrupt(S)
  PROVE  \E T : /\ Becomes(T) /\ Right(T, A) /\ Unbound(T)
                /\ T.resumed = <<>> /\ T.higher = FALSE
<1> DEFINE R == Interrupted(S)
<1>1. Right(R, A) /\ Unbound(R) /\ R.resumed = <<>> /\ R.higher = FALSE /\ R.signal = None
  BY RightInterrupted
<1>2. PICK late \in {R.signal} \cup Signals(R) : Becomes([R EXCEPT !.signal = late])
  BY DEF Interrupt
<1>3. late \in Signal
  BY <1>1 DEF Signals, Signal
<1> DEFINE T == [R EXCEPT !.signal = late]
<1>4. R \in StateType
  BY <1>1 DEF Right
<1> HIDE DEF R
<1>5. /\ T \in StateType
      /\ T.qp = R.qp /\ T.prio = R.prio /\ T.prioq = R.prioq /\ T.resumed = R.resumed
      /\ T.higher = R.higher /\ T.doorbell = R.doorbell /\ T.asleep = R.asleep
      /\ T.hooks = R.hooks /\ T.suspended = R.suspended /\ T.waits = R.waits
      /\ T.due = R.due /\ T.rep = R.rep /\ T.val = R.val
  BY <1>3, <1>4 DEF StateType
<1>6. Becomes(T)
  BY <1>2
<1> HIDE DEF T
<1>7. Right(T, A) /\ Unbound(T)
  BY <1>1, <1>5, RightSignalled
<1> QED BY <1>1, <1>5, <1>6, <1>7

(* So does the end of a reduction, whether the goal goes on or ends.       *)
GoesOn(S, g) == [S EXCEPT !.resumed = Append(@, g)]
InFront(S, g) == [S EXCEPT !.qp = <<g>> \o @]

LEMMA AfterIs ==
  ASSUME NEW new, NEW A, Right(new, A), Unbound(new), NEW g \in Goal, NEW goesOn \in BOOLEAN,
         After(new, g, goesOn),
         goesOn => g \notin A /\ new.waits[g] = None /\ new.due[g] = new.prio
  PROVE  \E T : /\ Becomes(T) /\ Right(T, IF goesOn THEN A \cup {g} ELSE A) /\ Unbound(T)
                /\ T.resumed = <<>> /\ T.higher = FALSE
<1> DEFINE B == IF goesOn THEN A \cup {g} ELSE A
           F == [new EXCEPT !.doorbell = TRUE]
<1>1. PICK S \in {new, F} :
        IF S.doorbell THEN Interrupt(IF goesOn THEN GoesOn(S, g) ELSE S)
        ELSE Becomes(IF goesOn THEN InFront(S, g) ELSE S)
  BY DEF After, GoesOn, InFront
<1>2. /\ Right(S, A) /\ Unbound(S)
      /\ goesOn => g \notin A /\ S.waits[g] = None /\ S.due[g] = S.prio
  <2>1. CASE S = new
    BY <2>1
  <2>2. CASE S = F
    <3>1. new \in StateType
      BY DEF Right
    <3>2. /\ S \in StateType /\ S.doorbell = TRUE
          /\ S.qp = new.qp /\ S.prio = new.prio /\ S.prioq = new.prioq
          /\ S.resumed = new.resumed /\ S.higher = new.higher /\ S.asleep = new.asleep
          /\ S.hooks = new.hooks /\ S.suspended = new.suspended /\ S.waits = new.waits
          /\ S.due = new.due /\ S.rep = new.rep /\ S.val = new.val
      BY <2>2, <3>1 DEF StateType
    <3>3. Right(S, A) /\ Unbound(S)
      BY <3>2, RightSignalled
    <3> QED BY <3>2, <3>3
  <2> QED BY <2>1, <2>2
<1>3. /\ S \in StateType /\ S.doorbell \in BOOLEAN /\ S.higher \in BOOLEAN /\ Rung(S)
      /\ S.resumed \in Seq(Goal) /\ S.qp \in Seq(AnyGoal) /\ g \in AnyGoal
  BY <1>2 DEF Right, StateType, AnyGoal
<1> HIDE DEF F
<1>4. CASE S.doorbell = TRUE
  <2> DEFINE U == IF goesOn THEN GoesOn(S, g) ELSE S
  <2>1. Right(U, B) /\ Unbound(U)
    <3>1. CASE goesOn = TRUE
      <4>1. U = GoesOn(S, g) /\ B = A \cup {g}
        BY <3>1
      <4> HIDE DEF U, B
      <4> DEFINE r == Append(S.resumed, g)
      <4>2. r \in Seq(Goal)
        BY <1>3, AppendIs
      <4>3. U = [S EXCEPT !.resumed = r]
        BY <4>1 DEF GoesOn
      <4> HIDE DEF r
      <4>4. /\ U \in StateType /\ U.resumed = r
            /\ U.prio = S.prio /\ U.prioq = S.prioq /\ U.qp = S.qp
            /\ U.higher = S.higher /\ U.doorbell = S.doorbell /\ U.asleep = S.asleep
            /\ U.hooks = S.hooks /\ U.suspended = S.suspended /\ U.waits = S.waits
            /\ U.due = S.due /\ U.signal = S.signal /\ U.rep = S.rep /\ U.val = S.val
        BY <1>3, <4>2, <4>3 DEF StateType
      <4>5. Alike(U, S, g) /\ g \notin A /\ U.due[g] = U.prio
        BY <1>2, <3>1, <4>4 DEF Alike, Besides
      <4>6. U.resumed = Append(S.resumed, g) /\ U.doorbell = TRUE
        BY <1>4, <4>4 DEF r
      <4>7. Right(U, A \cup {g})
        BY <1>2, <4>4, <4>5, <4>6, RightResumed
      <4>8. Unbound(U)
        BY <1>2, <4>4 DEF Unbound
      <4> QED BY <4>1, <4>4, <4>7, <4>8
    <3>2. CASE goesOn = FALSE
      BY <1>2, <3>2
    <3> QED BY <3>1, <3>2
  <2>2. Interrupt(U)
    BY <1>1, <1>4
  <2> HIDE DEF U, B
  <2> QED BY <2>1, <2>2, InterruptIs DEF B
<1>5. CASE S.doorbell = FALSE
  <2> DEFINE T == IF goesOn THEN InFront(S, g) ELSE S
  <2>1. S.resumed = <<>> /\ S.higher = FALSE
    BY <1>3, <1>5 DEF Rung
  <2>2. Becomes(T)
    BY <1>1, <1>5
  <2>3. Right(T, B) /\ Unbound(T) /\ T.resumed = S.resumed /\ T.higher = S.higher
    <3>1. CASE goesOn = TRUE
      <4> DEFINE q == <<g>> \o S.qp
      <4>1. q \in Seq(AnyGoal)
        BY <1>3, ConsIs
      <4>2. T = [S EXCEPT !.qp = q] /\ B = A \cup {g}
        BY <3>1 DEF InFront
      <4> HIDE DEF q, T, B
      <4>3. /\ T \in StateType /\ T.resumed = S.resumed
            /\ T.prio = S.prio /\ T.prioq = S.prioq /\ T.qp = q
            /\ T.higher = S.higher /\ T.doorbell = S.doorbell /\ T.asleep = S.asleep
            /\ T.hooks = S.hooks /\ T.suspended = S.suspended /\ T.waits = S.waits
            /\ T.due = S.due /\ T.signal = S.signal /\ T.rep = S.rep /\ T.val = S.val
        BY <1>3, <4>1, <4>2 DEF StateType
      <4>4. Alike(T, S, g) /\ g \notin A /\ T.due[g] = T.prio
        BY <1>2, <3>1, <4>3 DEF Alike, Besides
      <4>5. T.qp = <<g>> \o S.qp
        BY <4>3 DEF q
      <4>6. Right(T, A \cup {g})
        BY <1>2, <4>3, <4>4, <4>5, RightFront
      <4>7. Unbound(T)
        BY <1>2, <4>3 DEF Unbound
      <4> QED BY <4>2, <4>3, <4>6, <4>7
    <3>2. CASE goesOn = FALSE
      BY <1>2, <3>2
    <3> QED BY <3>1, <3>2
  <2> HIDE DEF T, B
  <2> QED BY <2>1, <2>2, <2>3 DEF B
<1> QED BY <1>3, <1>4, <1>5

(* Goals that are resumed between two reductions wait for their            *)
(* priorities: wait_prio_routine() does not look at the doorbell.          *)
Resuming(S) == \A g \in Goal : Contains(S.resumed, g) => S.waits[g] # None

(* Without goals that wait for their priorities, topsucceed is not at the  *)
(* head of its queue while there is a queue of a higher priority.          *)
Ends ==
  Waiter = {} =>
    /\ NothingLeft
    /\ higher_priority_goal = TRUE => qp # <<>> /\ Head(qp) # TopGoal

(* The inductive invariant.                                                *)
IInv ==
  /\ Right(State, alive) /\ Unbound(State) /\ Resuming(State)
  /\ alive \subseteq born /\ born \subseteq Goal
  /\ status \in {"running", "idle", "exited", "perpetual"}
  /\ Ends

LEMMA StateIs ==
  /\ State.qp = qp /\ State.prio = current_prio /\ State.prioq = prioq
  /\ State.resumed = resumed_goals /\ State.higher = higher_priority_goal
  /\ State.doorbell = doorbell /\ State.asleep = asleep /\ State.hooks = hooks
  /\ State.suspended = suspended /\ State.waits = waits /\ State.due = due
  /\ State.signal = signal /\ State.rep = rep /\ State.val = val
BY DEF State

(* The goal at the head of the queue is taken out of it.                   *)
LEMMA PoppedIs ==
  ASSUME IInv, NEW g \in Goal, AtHead(g)
  PROVE  /\ Right(Popped, alive \ {g}) /\ Unbound(Popped)
         /\ g \in alive
         /\ waits[g] = None => due[g] = current_prio
         /\ Popped.prio = current_prio /\ Popped.waits = waits /\ Popped.due = due
         /\ Popped.rep = rep /\ Popped.val = val /\ Popped.resumed = resumed_goals
<1> DEFINE S == State  T == [S EXCEPT !.qp = Tail(@)]
<1>1. /\ Right(S, alive) /\ Unbound(S) /\ S.qp # <<>> /\ Head(S.qp) = g
      /\ S.prio = current_prio /\ S.waits = waits /\ S.due = due
      /\ S.rep = rep /\ S.val = val /\ S.resumed = resumed_goals
  BY StateIs DEF IInv, AtHead
<1>2. T = Popped
  BY DEF Popped
<1> HIDE DEF S
<1>3. /\ Right(T, alive \ {g})
      /\ g \in alive
      /\ S.waits[g] = None => S.due[g] = S.prio
      /\ T.prio = S.prio /\ T.waits = S.waits /\ T.due = S.due /\ T.asleep = S.asleep
      /\ T.hooks = S.hooks /\ T.rep = S.rep /\ T.val = S.val /\ T.resumed = S.resumed
  BY <1>1, RightPop
<1> HIDE DEF T
<1>4. Unbound(T)
  BY <1>1, <1>3 DEF Unbound
<1> QED BY <1>1, <1>2, <1>3, <1>4

(* g has been reduced and has made S of its queues, where the goals of A   *)
(* are left; it goes on or ends.                                           *)
Reduced(S, A, g, goesOn) ==
  /\ Right(S, A) /\ Unbound(S) /\ After(S, g, goesOn)
  /\ goesOn => g \notin A /\ S.waits[g] = None /\ S.due[g] = S.prio
  /\ alive' = IF goesOn THEN A \cup {g} ELSE A
  /\ alive' \subseteq born' /\ born' \subseteq Goal /\ status' = "running"

(* A reduction that ends in a right state keeps the invariant.             *)
LEMMA AfterStep ==
  ASSUME NEW S, NEW A, NEW g \in Goal, NEW goesOn \in BOOLEAN, Reduced(S, A, g, goesOn)
  PROVE  IInv'
<1> DEFINE B == IF goesOn THEN A \cup {g} ELSE A
<1>0. /\ Right(S, A) /\ Unbound(S) /\ After(S, g, goesOn)
      /\ goesOn => g \notin A /\ S.waits[g] = None /\ S.due[g] = S.prio
      /\ alive' = B
      /\ alive' \subseteq born' /\ born' \subseteq Goal /\ status' = "running"
  BY DEF Reduced
<1>1. PICK T : /\ Becomes(T) /\ Right(T, B) /\ Unbound(T)
               /\ T.resumed = <<>> /\ T.higher = FALSE
  BY <1>0, AfterIs
<1> HIDE DEF B
<1>3. T \in StateType
  BY <1>1 DEF Right
<1>4. State' = T
  BY <1>1, <1>3, BecomesIs
<1>6. higher_priority_goal' = FALSE
  BY <1>1 DEF Becomes
<1>7. Resuming(T)
  BY <1>1 DEF Resuming, Contains
<1>8. Right(State, alive)' /\ Unbound(State)' /\ Resuming(State)'
  BY <1>0, <1>1, <1>4, <1>7
<1>9. Ends'
  BY <1>0, <1>6 DEF Ends, NothingLeft
<1> QED BY <1>0, <1>8, <1>9 DEF IInv

LEMMA ReduceStep ==
  ASSUME IInv, NEW g \in Goal, NEW goesOn \in BOOLEAN, Reduce(g, goesOn)
  PROVE  IInv'
<1> DEFINE S == Popped  A == alive \ {g}
<1>1. /\ AtHead(g) /\ waits[g] = None /\ After(S, g, goesOn)
      /\ alive' = Left(g, goesOn) /\ born' = born /\ status' = status
  BY DEF Reduce, Reducing
<1>2. /\ Right(S, A) /\ Unbound(S) /\ g \in alive
      /\ S.waits[g] = None /\ S.due[g] = S.prio
  BY <1>1, PoppedIs
<1>3. /\ alive' = IF goesOn THEN A \cup {g} ELSE A
      /\ alive' \subseteq born' /\ born' \subseteq Goal /\ status' = "running" /\ g \notin A
  BY <1>1, <1>2 DEF Left, AtHead, IInv
<1> HIDE DEF S, A
<1>4. Reduced(S, A, g, goesOn)
  BY <1>1, <1>2, <1>3 DEF Reduced
<1> QED BY <1>4, AfterStep

LEMMA ForkStep ==
  ASSUME IInv, NEW g \in Goal, NEW h \in Goal, NEW p \in Prio \cup {-1},
         NEW goesOn \in BOOLEAN, Fork(g, h, p, goesOn)
  PROVE  IInv'
<1> DEFINE D == Popped  B == alive \ {g}  S == EnqueueGoal(D, p, h)  A == B \cup {h}
<1>1. /\ AtHead(g) /\ waits[g] = None /\ h \notin born /\ After(S, g, goesOn)
      /\ alive' = Left(g, goesOn) \cup {h} /\ born' = born \cup {h} /\ status' = status
  BY DEF Fork, Reducing
<1>2. /\ Right(D, B) /\ Unbound(D) /\ g \in alive
      /\ D.waits[g] = None /\ D.due[g] = D.prio
  BY <1>1, PoppedIs
<1>3. /\ alive' = IF goesOn THEN A \cup {g} ELSE A
      /\ alive' \subseteq born' /\ born' \subseteq Goal /\ status' = "running"
      /\ g \notin A /\ h # g /\ h \notin B
  BY <1>1, <1>2 DEF Left, AtHead, IInv
<1> HIDE DEF D, B
<1>4. p \in Int /\ D \in StateType /\ Alike(D, D, h)
  BY <1>2, SchedAssumption DEF Right, Waiting, Alike, Besides
<1>5. /\ Right(S, A)
      /\ S.asleep = D.asleep /\ S.hooks = D.hooks /\ S.rep = D.rep /\ S.val = D.val
      /\ S.waits = D.waits /\ S.resumed = D.resumed /\ S.prio = D.prio
      /\ \A k \in Goal : k # h => S.due[k] = D.due[k]
  <2>1. Right(D, B) /\ h \notin B
    BY <1>2, <1>3
  <2>2. Enqueued(D, S, B, h)
    BY <1>4, <2>1, RightEnqueue
  <2> QED BY <2>2 DEF Enqueued
<1> HIDE DEF S, A
<1>6. Unbound(S)
  BY <1>2, <1>5 DEF Unbound
<1>7. S.waits[g] = None /\ S.due[g] = S.prio
  BY <1>2, <1>3, <1>5
<1>8. Reduced(S, A, g, goesOn)
  BY <1>1, <1>3, <1>5, <1>6, <1>7 DEF Reduced
<1> QED BY <1>8, AfterStep

LEMMA ForkWaitingStep ==
  ASSUME IInv, NEW g \in Goal, NEW h \in Goal, NEW x \in Var, NEW relative \in BOOLEAN,
         NEW goesOn \in BOOLEAN, ForkWaiting(g, h, x, relative, goesOn)
  PROVE  IInv'
<1> DEFINE D == Popped  B == alive \ {g}
           S == EnqueueAfterWaiting(D, h, x, relative)  A == B \cup {h}
<1>1. /\ AtHead(g) /\ waits[g] = None /\ h \notin born /\ h \in Waiter /\ After(S, g, goesOn)
      /\ alive' = Left(g, goesOn) \cup {h} /\ born' = born \cup {h} /\ status' = status
  BY DEF ForkWaiting, Reducing
<1>2. /\ Right(D, B) /\ Unbound(D) /\ g \in alive
      /\ D.waits[g] = None /\ D.due[g] = D.prio
  BY <1>1, PoppedIs
<1>3. /\ alive' = IF goesOn THEN A \cup {g} ELSE A
      /\ alive' \subseteq born' /\ born' \subseteq Goal /\ status' = "running"
      /\ g \notin A /\ h # g /\ h \notin B
  BY <1>1, <1>2 DEF Left, AtHead, IInv
<1> HIDE DEF D, B
<1>5. /\ Right(S, A)
      /\ S.asleep = D.asleep /\ S.hooks = D.hooks /\ S.rep = D.rep /\ S.val = D.val
      /\ \A k \in Goal : k # h => S.waits[k] = D.waits[k] /\ S.due[k] = D.due[k]
      /\ S.prio = D.prio
  <2>1. Right(D, B) /\ h \notin B /\ h \in Waiter
    BY <1>1, <1>2, <1>3
  <2> HIDE DEF A
  <2>2. Right(D, B) /\ h \notin B /\ h \in Waiter /\ h \in Goal /\ x \in Var /\ relative \in BOOLEAN
    BY <2>1
  <2>3. Waited(D, S, B, h)
    BY <2>2, RightAfterWaiting, Zenon
  <2> QED BY <2>3 DEF A, Waited
<1> HIDE DEF S, A
<1>6. Unbound(S)
  BY <1>2, <1>5 DEF Unbound
<1>7. S.waits[g] = None /\ S.due[g] = S.prio
  BY <1>2, <1>3, <1>5
<1>8. Reduced(S, A, g, goesOn)
  BY <1>1, <1>3, <1>5, <1>6, <1>7 DEF Reduced
<1> QED BY <1>8, AfterStep

LEMMA BindStep ==
  ASSUME IInv, NEW g \in Goal, NEW x \in Var, NEW v \in Value,
         NEW goesOn \in BOOLEAN, Bind(g, x, v, goesOn)
  PROVE  IInv'
<1> DEFINE D == Popped  A == alive \ {g}  S == BindVar(D, x, v)
<1>1. /\ AtHead(g) /\ waits[g] = None /\ rep[x] = x /\ After(S, g, goesOn)
      /\ alive' = Left(g, goesOn) /\ born' = born /\ status' = status
  BY DEF Bind, Reducing
<1>2. /\ Right(D, A) /\ Unbound(D) /\ g \in alive
      /\ D.waits[g] = None /\ D.due[g] = D.prio /\ D.rep[x] = x
  BY <1>1, PoppedIs
<1>3. /\ alive' = IF goesOn THEN A \cup {g} ELSE A
      /\ alive' \subseteq born' /\ born' \subseteq Goal /\ status' = "running" /\ g \notin A
  BY <1>1, <1>2 DEF Left, AtHead, IInv
<1> HIDE DEF D, A
<1>4. /\ Right(S, A) /\ Unbound(S)
      /\ S.prio = D.prio /\ S.waits = D.waits /\ S.due = D.due
  BY <1>2, RightBind
<1> HIDE DEF S
<1>5. S.waits[g] = None /\ S.due[g] = S.prio
  BY <1>2, <1>4
<1>6. Right(S, A) /\ Unbound(S) /\ After(S, g, goesOn)
  BY <1>1, <1>4
<1>7. Reduced(S, A, g, goesOn)
  BY <1>1, <1>3, <1>5, <1>6 DEF Reduced
<1> QED BY <1>7, AfterStep

LEMMA UnifyStep ==
  ASSUME IInv, NEW g \in Goal, NEW x \in Var, NEW y \in Var,
         NEW goesOn \in BOOLEAN, Unify(g, x, y, goesOn)
  PROVE  IInv'
<1> DEFINE D == Popped  A == alive \ {g}
           r == [z \in Var |-> IF rep[z] = y THEN x ELSE rep[z]]
           S == Unified(D, x, y, r)
<1>1. /\ AtHead(g) /\ waits[g] = None /\ x # y
      /\ \A z \in {x, y} : rep[z] = z /\ val[z] = None
      /\ After(S, g, goesOn)
      /\ alive' = Left(g, goesOn) /\ born' = born /\ status' = status
  BY DEF Unify, Reducing, Unified
<1>2. /\ Right(D, A) /\ Unbound(D) /\ g \in alive
      /\ D.waits[g] = None /\ D.due[g] = D.prio /\ D.rep = rep /\ D.val = val
  BY <1>1, PoppedIs
<1>3. /\ alive' = IF goesOn THEN A \cup {g} ELSE A
      /\ alive' \subseteq born' /\ born' \subseteq Goal /\ status' = "running" /\ g \notin A
  BY <1>1, <1>2 DEF Left, AtHead, IInv
<1> HIDE DEF D, A
<1>4. r = [z \in Var |-> IF D.rep[z] = y THEN x ELSE D.rep[z]]
  BY <1>2
<1> HIDE DEF r
<1>5. /\ Right(S, A) /\ Unbound(S)
      /\ S.prio = D.prio /\ S.waits = D.waits /\ S.due = D.due
  BY <1>1, <1>2, <1>4, RightUnified
<1> HIDE DEF S
<1>6. S.waits[g] = None /\ S.due[g] = S.prio
  BY <1>2, <1>5
<1>7. Reduced(S, A, g, goesOn)
  BY <1>1, <1>3, <1>5, <1>6 DEF Reduced
<1> QED BY <1>7, AfterStep

LEMMA SuspendStep ==
  ASSUME IInv, NEW g \in Goal, NEW xs \in SUBSET Var, Suspend(g, xs)
  PROVE  IInv'
<1> DEFINE D == Popped  B == alive \ {g}
           bound == \E x \in xs : ValueOf(State, x) # None
           ys == {rep[x] : x \in xs}
           S == IF bound THEN ResumeSamePrio(D, g) ELSE HookOn(D, g, ys)
<1>1. /\ AtHead(g) /\ waits[g] = None /\ After(S, g, FALSE)
      /\ alive' = alive /\ born' = born /\ status' = status
  BY DEF Suspend, Reducing
<1>2. /\ Right(D, B) /\ Unbound(D) /\ g \in alive
      /\ D.waits[g] = None /\ D.due[g] = D.prio /\ D.rep = rep /\ D.val = val
  BY <1>1, PoppedIs
<1>3. /\ B \cup {g} = alive /\ g \notin B
      /\ alive' \subseteq born' /\ born' \subseteq Goal /\ status' = "running"
  BY <1>1, <1>2 DEF AtHead, IInv
<1> HIDE DEF D, B
<1>4. D \in StateType
  BY <1>2 DEF Right
<1>5. Right(S, B \cup {g}) /\ Unbound(S)
  <2>1. CASE bound
    <3>1. S = ResumeSamePrio(D, g)
      BY <2>1
    <3> HIDE DEF S, bound
    <3>2. /\ S \in StateType /\ S.resumed = <<g>> \o D.resumed /\ S.doorbell = TRUE
          /\ S.asleep = D.asleep /\ S.suspended = D.suspended /\ S.prio = D.prio
          /\ S.qp = D.qp /\ S.prioq = D.prioq /\ S.higher = D.higher
          /\ S.signal = D.signal /\ S.rep = D.rep /\ S.val = D.val /\ S.hooks = D.hooks
          /\ S.waits = D.waits /\ S.due = D.due
      BY <1>4, <3>1, SamePrioIs
    <3>3. Alike(S, D, g) /\ S.due[g] = S.prio
      BY <1>2, <3>2 DEF Alike, Besides, Right, Waiting
    <3>4. Right(S, B \cup {g})
      BY <1>2, <1>3, <3>2, <3>3, RightResumed
    <3>5. Unbound(S)
      BY <1>2, <3>2 DEF Unbound
    <3> QED BY <3>4, <3>5
  <2>2. CASE ~ bound
    <3>1. S = HookOn(D, g, ys)
      BY <2>2
    <3>2. ys \in SUBSET Var /\ \A y \in ys : D.rep[y] = y /\ D.val[y] = None
      <4>1. D.rep \in [Var -> Var] /\ Standing(D)
        BY <1>2 DEF Right, StateType
      <4>2. ASSUME NEW x \in xs
            PROVE  rep[x] \in Var /\ D.rep[rep[x]] = rep[x] /\ D.val[rep[x]] = None
        <5>1. val[rep[x]] = None
          BY <2>2, StateIs DEF ValueOf
        <5> QED BY <1>2, <4>1, <5>1 DEF Standing
      <4> QED BY <4>2
    <3> HIDE DEF S, bound, ys
    <3> QED BY <1>2, <1>3, <3>1, <3>2, RightHookOn
  <2> QED BY <2>1, <2>2
<1> HIDE DEF S, bound, ys
<1> DEFINE A == B \cup {g}
<1>6. alive' = IF FALSE THEN A \cup {g} ELSE A
  BY <1>1, <1>3
<1>7. Right(S, A)
  BY <1>5
<1> HIDE DEF A
<1>8. Reduced(S, A, g, FALSE)
  BY <1>1, <1>3, <1>5, <1>6, <1>7 DEF Reduced
<1> QED BY <1>8, AfterStep

LEMMA WaitPrioRoutineStep ==
  ASSUME IInv, NEW g \in Goal, WaitPrioRoutine(g)
  PROVE  IInv'
<1> DEFINE D == Popped  B == alive \ {g}  w == waits[g]  x == w.on
           relative == w.relative  T == EnqueueAfterWaiting(D, g, x, relative)
<1>1. /\ AtHead(g) /\ w # None /\ Becomes(T)
      /\ alive' = alive /\ born' = born /\ status' = status
  BY DEF WaitPrioRoutine
<1>2. /\ Right(D, B) /\ Unbound(D) /\ g \in alive
      /\ D.waits = waits /\ D.resumed = resumed_goals
  BY <1>1, PoppedIs
<1>3. g \in Waiter /\ w \in Wait
  <2>1. State \in StateType /\ Waiting(State)
    BY DEF IInv, Right
  <2> QED BY <1>1, <2>1, StateIs DEF Waiting, StateType
<1>4. x \in Var /\ relative \in BOOLEAN
  BY <1>1, <1>3 DEF Wait
<1>5. B \cup {g} = alive /\ g \notin B
  BY <1>2
<1> HIDE DEF D, B, w, x, relative
<1>6. Waited(D, T, B, g)
  <2>1. Right(D, B) /\ g \notin B /\ g \in Waiter /\ g \in Goal /\ x \in Var /\ relative \in BOOLEAN
    BY <1>2, <1>3, <1>4, <1>5
  <2> QED BY <2>1, RightAfterWaiting, Zenon
<1> HIDE DEF T
<1>7. Right(T, alive) /\ T \in StateType
  BY <1>5, <1>6 DEF Waited, Right
<1>8. Unbound(T)
  BY <1>2, <1>6 DEF Unbound, Waited
<1>9. Resuming(T)
  <2>1. ~ Contains(D.resumed, g)
    <3>1. g \notin B /\ g # TopGoal
      BY <1>5, SchedAssumption
    <3> QED BY <1>2, <3>1 DEF Right, Placed, Somewhere
  <2>2. \A h \in Goal : h # g /\ Contains(D.resumed, h) => T.waits[h] # None
    BY <1>2, <1>6, StateIs DEF Waited, IInv, Resuming
  <2>3. CASE T.resumed = D.resumed
    BY <2>1, <2>2, <2>3 DEF Resuming
  <2>4. CASE T.resumed = <<g>> \o D.resumed /\ T.waits[g] # None
    <3> DEFINE R == D.resumed
    <3>1. R \in Seq(Goal)
      BY <1>2 DEF Right, StateType
    <3>2. \A h : Contains(<<g>> \o R, h) <=> (h = g \/ Contains(R, h))
      <4> HIDE DEF R
      <4> QED BY <3>1, ConsIs
    <3> QED BY <2>2, <2>4, <3>2 DEF Resuming
  <2> QED BY <1>6, <2>3, <2>4 DEF Waited
<1>10. State' = T
  BY <1>1, <1>7, BecomesIs
<1>11. Right(State, alive)' /\ Unbound(State)' /\ Resuming(State)'
  BY <1>1, <1>7, <1>8, <1>9, <1>10
<1>12. Ends'
  BY <1>3 DEF Ends
<1> QED BY <1>1, <1>11, <1>12 DEF IInv

LEMMA QueueEmptyStep ==
  ASSUME IInv, QueueEmpty
  PROVE  IInv'
<1> DEFINE S == State  T == GetTopPriorityQueue(S)
<1>1. /\ S.qp = <<>> /\ qp = <<>> /\ status = "running" /\ Becomes(T)
      /\ alive' = alive /\ born' = born /\ status' = status
  BY StateIs DEF QueueEmpty
<1>2. Right(S, alive) /\ Unbound(S) /\ \A g \in Goal : Contains(S.resumed, g) => S.waits[g] # None
  BY DEF IInv, Resuming
<1>3. S.higher = higher_priority_goal
  BY StateIs
<1> HIDE DEF S
<1>4. /\ Right(T, alive) /\ Unbound(T) /\ T.resumed = S.resumed /\ T.waits = S.waits
      /\ T.higher = S.higher
  BY <1>1, <1>2, RightEmpty
<1> HIDE DEF T
<1>5. Resuming(T)
  BY <1>2, <1>4 DEF Resuming
<1>6. T \in StateType
  BY <1>4 DEF Right
<1>7. State' = T
  BY <1>1, <1>6, BecomesIs
<1>8. Right(State, alive)' /\ Unbound(State)' /\ Resuming(State)'
  BY <1>1, <1>4, <1>5, <1>7
<1>9. Ends'
  <2>1. higher_priority_goal' = higher_priority_goal /\ status' = "running"
    BY <1>1, <1>3, <1>4 DEF Becomes
  <2> QED BY <1>1, <2>1 DEF Ends, IInv, NothingLeft
<1> QED BY <1>1, <1>8, <1>9 DEF IInv

(* topsucceed at the head of its queue is alone in it, and there is no     *)
(* other queue: everything else that is left waits for its priority.       *)
LEMMA TopAlone ==
  ASSUME NEW S, NEW A, Right(S, A), S.qp # <<>>, Head(S.qp) = TopGoal, S.higher = FALSE,
         S.suspended = 0, NEW g \in A
  PROVE  Contains(S.resumed, g)
<1> DEFINE F == QueueFn(S)
<1>1. /\ S \in StateType /\ S.prio \in Nat /\ S.qp \in Seq(AnyGoal) /\ PrioqOK(S.prioq)
      /\ Unique(F, S.resumed) /\ Bottom(F) /\ F[S.prio] = S.qp
      /\ Somewhere(F, S.resumed, g) <=> (g = TopGoal \/ g \in A \ Asleep(S))
      /\ F \in Queues
  <2>1. S \in StateType /\ S.prio \in Nat /\ S.qp \in Seq(AnyGoal) /\ PrioqOK(S.prioq)
    BY DEF Right, StateType, Shape
  <2>2. F \in Queues
    BY <2>1, QueueFnType
  <2>3. F[S.prio] = S.qp
    BY <2>1 DEF QueueFn
  <2>4. /\ Unique(F, S.resumed) /\ Bottom(F)
        /\ Somewhere(F, S.resumed, g) <=> (g = TopGoal \/ g \in A \ Asleep(S))
    BY DEF Right, Placed
  <2> QED BY <2>1, <2>2, <2>3, <2>4
<1>2. g \in A \ Asleep(S) /\ g # TopGoal
  <2>1. Cardinality(Asleep(S)) = 0 /\ IsFiniteSet(Asleep(S)) /\ g \in Goal
    <3>1. IsFiniteSet(Asleep(S))
      BY FS_Subset DEF Right, Counted
    <3> QED BY <3>1 DEF Right, Counted
  <2>2. Asleep(S) = {}
    BY <2>1, FS_EmptySet
  <2> QED BY <2>1, <2>2, SchedAssumption
<1>3. F[S.prio][1] = TopGoal /\ F[S.prio] # <<>>
  BY <1>1
<1> HIDE DEF F
<1>4. S.prio = 0
  <2>1. \A p \in Int : F[p] \in Seq(AnyGoal)
    BY <1>1 DEF Queues
  <2>2. ASSUME NEW p \in Int, F[p] # <<>>
        PROVE  1 \in 1 .. Len(F[p]) /\ Len(F[p]) \in 1 .. Len(F[p])
    <3> DEFINE q == F[p]
    <3>1. q \in Seq(AnyGoal) /\ q # <<>>
      BY <2>1, <2>2
    <3> HIDE DEF q
    <3>2. Len(q) \in Nat \ {0}
      BY <3>1, EmptySeq, LenProperties
    <3>3. 1 \in 1 .. Len(q) /\ Len(q) \in 1 .. Len(q)
      BY <3>2
    <3> QED BY <3>3 DEF q
  <2>3. Contains(F[S.prio], TopGoal)
    BY <1>1, <1>3, <2>2 DEF Contains
  <2>4. Contains(F[0], TopGoal)
    BY <1>1, <2>2 DEF Contains, Bottom
  <2>5. \A p, r \in Int : Contains(F[p], TopGoal) /\ Contains(F[r], TopGoal) => p = r
    BY <1>1 DEF Unique
  <2> QED BY <1>1, <2>3, <2>4, <2>5
<1>5. Len(S.qp) = 1 /\ S.qp[1] = TopGoal
  <2> DEFINE q == S.qp
  <2>1. q \in Seq(AnyGoal) /\ q # <<>> /\ Once(q) /\ q[Len(q)] = TopGoal /\ q[1] = TopGoal
    BY <1>1, <1>3, <1>4 DEF Unique, Bottom
  <2> HIDE DEF q
  <2>2. Len(q) \in Nat \ {0}
    BY <2>1, EmptySeq, LenProperties
  <2>3. 1 \in 1 .. Len(q) /\ Len(q) \in 1 .. Len(q)
    BY <2>2
  <2>4. Len(q) = 1
    BY <2>1, <2>3 DEF Once
  <2> QED BY <2>1, <2>4 DEF q
<1>6. ~ Contains(S.qp, g)
  BY <1>2, <1>5 DEF Contains
<1>7. ASSUME NEW p \in Int, p # S.prio PROVE ~ Contains(F[p], g)
  <2> SUFFICES ASSUME Contains(F[p], g) PROVE FALSE
    OBVIOUS
  <2>1. F[p] = At(S.prioq, p)
    BY <1>7 DEF F, QueueFn
  <2>2. HasPrio(S.prioq, p) \/ F[p] = <<>>
    BY <2>1 DEF At
  <2>3. ~ Contains(<<>>, g)
    BY DEF Contains
  <2>4. HasPrio(S.prioq, p)
    BY <2>2, <2>3
  <2>5. p < 0
    BY <1>4, <2>4 DEF Right, Shape
  <2>6. PICK i \in 1 .. Len(S.prioq) : S.prioq[i].prio = p
    BY <2>4 DEF HasPrio
  <2> DEFINE Q == S.prioq
  <2>7. Q[i].q = <<>>
    <3>1. /\ i \in 1 .. Len(Q) /\ Q[i].prio = p /\ p < 0 /\ PrioqOK(Q)
      BY <1>1, <2>5, <2>6
    <3> HIDE DEF Q
    <3>2. /\ Len(Q) \in Nat \ {0}
          /\ \A j \in 1 .. Len(Q) - 1 : Q[j].prio \in Nat
          /\ Q[Len(Q)].q = <<>>
      BY <3>1, RecordOf
    <3>3. ~ (p \in Nat)
      BY <3>1
    <3>4. i = Len(Q)
      BY <3>1, <3>2, <3>3
    <3> QED BY <3>2, <3>4
  <2>8. At(Q, Q[i].prio) = Q[i].q
    BY <1>1, <2>6, AtIs
  <2> QED BY <2>1, <2>3, <2>6, <2>7, <2>8
<1> QED BY <1>1, <1>2, <1>6, <1>7 DEF Somewhere

LEMMA TopExitsStep ==
  ASSUME IInv, TopExits
  PROVE  IInv'
<1>1. /\ AtHead(TopGoal) /\ suspended = 0 /\ status' = "exited"
      /\ State' = State /\ alive' = alive /\ born' = born /\ qp' = qp
      /\ waits' = waits /\ higher_priority_goal' = higher_priority_goal
  BY DEF TopExits, State, queueVars, goalVars
<1>2. Right(State, alive)' /\ Unbound(State)' /\ Resuming(State)'
  BY <1>1 DEF IInv
<1>3. ASSUME Waiter = {} PROVE NothingLeft'
  <2> DEFINE S == State
  <2>1. /\ Right(S, alive) /\ S.qp # <<>> /\ Head(S.qp) = TopGoal /\ S.suspended = 0
        /\ S.higher = higher_priority_goal /\ S.waits = waits /\ Resuming(S)
    BY <1>1, StateIs DEF IInv, AtHead
  <2>2. S.higher = FALSE
    <3>1. S.higher \in BOOLEAN
      BY <2>1 DEF Right, StateType
    <3>2. ~ (S.higher = TRUE)
      BY <1>1, <1>3, <2>1 DEF IInv, Ends, AtHead
    <3> QED BY <3>1, <3>2
  <2> HIDE DEF S
  <2>3. ASSUME NEW g \in alive PROVE waits[g] # None
    <3>1. Contains(S.resumed, g)
      BY <2>1, <2>2, TopAlone
    <3>2. g \in Goal
      BY DEF IInv
    <3> QED BY <2>1, <3>1, <3>2 DEF Resuming
  <2> QED BY <1>1, <2>3 DEF NothingLeft
<1>4. Ends'
  BY <1>1, <1>3 DEF Ends, IInv
<1> QED BY <1>1, <1>2, <1>4 DEF IInv

(* klic_interrupt() called by topsucceed.                                  *)
LEMMA InterruptStep ==
  ASSUME IInv, Interrupt(State), alive' = alive, born' = born,
         status' \in {"running", "idle", "perpetual"}
  PROVE  IInv'
<1>1. Right(State, alive) /\ Unbound(State)
  BY DEF IInv
<1>2. PICK T : /\ Becomes(T) /\ Right(T, alive) /\ Unbound(T)
               /\ T.resumed = <<>> /\ T.higher = FALSE
  BY <1>1, InterruptIs
<1>3. T \in StateType
  BY <1>2 DEF Right
<1>5. State' = T /\ higher_priority_goal' = FALSE
  BY <1>2, <1>3, BecomesIs DEF Becomes
<1>6. Resuming(T)
  BY <1>2 DEF Resuming, Contains
<1>7. Right(State, alive)' /\ Unbound(State)' /\ Resuming(State)'
  BY <1>2, <1>5, <1>6
<1>8. Ends'
  BY <1>5 DEF Ends, NothingLeft
<1> QED BY <1>7, <1>8 DEF IInv

(* A signal comes.                                                         *)
LEMMA HandlerStep ==
  ASSUME IInv, HandlerRuns
  PROVE  IInv'
<1> DEFINE S == State
<1>1. PICK n \in Signals(S) : signal' = n
  BY DEF HandlerRuns
<1> DEFINE T == [S EXCEPT !.signal = n, !.doorbell = TRUE]
<1>2. Right(S, alive) /\ Unbound(S) /\ Resuming(S) /\ S \in StateType
  BY DEF IInv, Right
<1>3. n \in Signal
  BY <1>1 DEF Signals, Signal
<1>4. /\ qp' = S.qp /\ current_prio' = S.prio /\ prioq' = S.prioq
      /\ resumed_goals' = S.resumed /\ higher_priority_goal' = S.higher
      /\ doorbell' = TRUE /\ asleep' = S.asleep /\ hooks' = S.hooks
      /\ suspended' = S.suspended /\ waits' = S.waits /\ due' = S.due
      /\ rep' = S.rep /\ val' = S.val
      /\ alive' = alive /\ born' = born /\ status' = status /\ qp' = qp
      /\ higher_priority_goal' = higher_priority_goal /\ waits' = waits
  BY StateIs DEF HandlerRuns, goalVars
<1> HIDE DEF S
<1>5. /\ T \in StateType /\ T.doorbell = TRUE /\ T.signal = n
      /\ T.qp = S.qp /\ T.prio = S.prio /\ T.prioq = S.prioq /\ T.resumed = S.resumed
      /\ T.higher = S.higher /\ T.asleep = S.asleep
      /\ T.hooks = S.hooks /\ T.suspended = S.suspended /\ T.waits = S.waits
      /\ T.due = S.due /\ T.rep = S.rep /\ T.val = S.val
  BY <1>2, <1>3 DEF StateType
<1> HIDE DEF T
<1>6. Right(T, alive) /\ Unbound(T)
  BY <1>2, <1>5, RightSignalled
<1>7. Resuming(T)
  BY <1>2, <1>5 DEF Resuming
<1>8. Right(State, alive)' /\ Unbound(State)' /\ Resuming(State)'
  <2>1. Becomes(T)
    BY <1>1, <1>4, <1>5 DEF Becomes
  <2>2. State' = T
    BY <1>5, <2>1, BecomesIs
  <2> QED BY <1>4, <1>6, <1>7, <2>2
<1>9. Ends'
  BY <1>4 DEF Ends, NothingLeft, IInv
<1> QED BY <1>4, <1>8, <1>9 DEF IInv

LEMMA StutterStep ==
  ASSUME IInv, UNCHANGED vars
  PROVE  IInv'
<1>1. /\ State' = State /\ alive' = alive /\ born' = born /\ status' = status /\ qp' = qp
      /\ higher_priority_goal' = higher_priority_goal /\ waits' = waits
  BY DEF vars, queueVars, goalVars, State
<1>2. Right(State, alive)' /\ Unbound(State)' /\ Resuming(State)'
  BY <1>1 DEF IInv
<1>3. Ends'
  BY <1>1 DEF Ends, NothingLeft, IInv
<1> QED BY <1>1, <1>2, <1>3 DEF IInv

(* The program starts with its first goal, at the highest priority, and    *)
(* topsucceed, at the lowest.                                              *)
LEMMA StartsRight ==
  ASSUME Init
  PROVE  IInv
<1> DEFINE S == State  m == Max(Prio)  Q == <<Record(0, <<TopGoal>>), Sentinel>>  F == QueueFn(S)
<1>1. m \in Nat /\ m # 0
  <2>1. m \in Prio /\ \A k \in Prio : m >= k
    <3>1. Prio \in SUBSET Nat /\ Prio # {} /\ IsFiniteSet(Prio)
      BY SchedAssumption
    <3> QED BY <3>1, FiniteMax
  <2>2. PICK k \in Prio : k # 0
    BY SchedAssumption
  <2>3. k \in Nat /\ m \in Nat /\ m >= k
    BY <2>1, SchedAssumption
  <2> HIDE DEF m
  <2> QED BY <2>2, <2>3
<1> HIDE DEF m
<1>2. /\ S.qp = <<Main>> /\ S.prio = m /\ S.prioq = Q /\ S.resumed = <<>>
      /\ S.higher = TRUE /\ S.doorbell = TRUE /\ S.signal = None
      /\ S.asleep = [g \in Goal |-> None] /\ S.hooks = [x \in Var |-> <<>>]
      /\ S.suspended = 0 /\ S.rep = [x \in Var |-> x] /\ S.val = [x \in Var |-> None]
      /\ S.waits = [g \in Goal |-> None] /\ S.due = [g \in Goal |-> m]
  BY StateIs DEF Init, m
<1>3. /\ PrioqOK(Q)
      /\ \A p \in Int : HasPrio(Q, p) <=> p \in {0, -1}
      /\ At(Q, 0) = <<TopGoal>>
      /\ \A p \in Int \ {0} : At(Q, p) = <<>>
  <2>1. /\ Q \in Seq(QueueRecord) /\ Len(Q) = 2 /\ Q # <<>>
        /\ Q[1].prio = 0 /\ Q[1].q = <<TopGoal>> /\ Q[2].prio = -1 /\ Q[2].q = <<>>
        /\ Q[2] = Sentinel
    <3>1. <<TopGoal>> \in Seq(AnyGoal) /\ <<>> \in Seq(AnyGoal)
      BY DEF AnyGoal
    <3>2. Record(0, <<TopGoal>>) \in QueueRecord /\ Sentinel \in QueueRecord
      BY <3>1 DEF Record, Sentinel, QueueRecord
    <3> QED BY <3>2 DEF Record, Sentinel
  <2> HIDE DEF Q
  <2>2. \A i \in 1 .. 2 : i = 1 \/ i = 2
    OBVIOUS
  <2>3. Descending(Q)
    BY <2>1, <2>2 DEF Descending
  <2>4. PrioqOK(Q)
    BY <2>1, <2>3 DEF PrioqOK
  <2>5. ASSUME NEW p \in Int PROVE HasPrio(Q, p) <=> p \in {0, -1}
    BY <2>1, <2>2 DEF HasPrio
  <2>6. At(Q, 0) = <<TopGoal>> /\ At(Q, -1) = <<>>
    <3>1. 1 \in 1 .. Len(Q) /\ 2 \in 1 .. Len(Q)
      BY <2>1
    <3> QED BY <2>1, <2>4, <3>1, AtIs
  <2>7. ASSUME NEW p \in Int \ {0} PROVE At(Q, p) = <<>>
    <3>1. CASE p = -1
      BY <2>6, <3>1
    <3>2. CASE p # -1
      BY <2>5, <3>2 DEF At
    <3> QED BY <3>1, <3>2
  <2> QED BY <2>4, <2>5, <2>6, <2>7
<1> HIDE DEF S, Q
<1>4. S \in StateType
  <2>1. S = [qp |-> S.qp, prio |-> S.prio, prioq |-> S.prioq, resumed |-> S.resumed,
             higher |-> S.higher, doorbell |-> S.doorbell, asleep |-> S.asleep,
             hooks |-> S.hooks, suspended |-> S.suspended, waits |-> S.waits, due |-> S.due,
             signal |-> S.signal, rep |-> S.rep, val |-> S.val]
    BY DEF S, State
  <2>2. S.qp \in Seq(AnyGoal) /\ S.resumed \in Seq(Goal)
    BY <1>2, SchedAssumption DEF AnyGoal
  <2>3. S.asleep \in [Goal -> Sleep] /\ S.waits \in [Goal -> Wait] /\ S.signal \in Signal
    BY <1>2 DEF Sleep, Wait, Signal
  <2>4. S.hooks \in [Var -> Seq(Goal)]
    <3>1. <<>> \in Seq(Goal)
      OBVIOUS
    <3> DEFINE e == <<>>
    <3>2. e \in Seq(Goal) /\ S.hooks = [x \in Var |-> e]
      BY <1>2, <3>1
    <3> HIDE DEF e
    <3> QED BY <3>2
  <2>5. S.rep \in [Var -> Var] /\ S.val \in [Var -> Value \cup {None}] /\ S.due \in [Goal -> Nat]
    BY <1>1, <1>2
  <2>6. S.prio \in Nat /\ S.prioq \in Seq(QueueRecord) /\ S.suspended \in Int
    BY <1>1, <1>2, <1>3 DEF PrioqOK
  <2>7. S.higher \in BOOLEAN /\ S.doorbell \in BOOLEAN
    BY <1>2
  <2> HIDE DEF S
  <2> QED BY <2>1, <2>2, <2>3, <2>4, <2>5, <2>6, <2>7 DEF StateType
<1>5. Shape(S) /\ Rung(S)
  BY <1>1, <1>2, <1>3 DEF Shape, Rung
<1>6. Asleep(S) = {}
  BY <1>2 DEF Asleep
<1>7. Counted(S, {Main})
  BY <1>2, <1>6, FS_Singleton, FS_EmptySet, SchedAssumption DEF Counted
<1>8. \A p \in Int : F[p] = IF p = m THEN <<Main>> ELSE IF p = 0 THEN <<TopGoal>> ELSE <<>>
  BY <1>1, <1>2, <1>3 DEF QueueFn
<1> HIDE DEF F
<1>9. \A p \in Int : \A g : Contains(F[p], g) <=> ((p = m /\ g = Main) \/ (p = 0 /\ g = TopGoal))
  <2> SUFFICES ASSUME NEW p \in Int, NEW g
               PROVE  Contains(F[p], g) <=> ((p = m /\ g = Main) \/ (p = 0 /\ g = TopGoal))
    OBVIOUS
  <2>1. ~ Contains(<<>>, g)
    BY DEF Contains
  <2>2. (Contains(<<Main>>, g) <=> g = Main) /\ (Contains(<<TopGoal>>, g) <=> g = TopGoal)
    BY Single
  <2> QED BY <1>1, <1>8, <2>1, <2>2
<1>10. Placed(S, {Main})
  <2> DEFINE R == S.resumed
  <2>1. Once(R) /\ \A g : ~ Contains(R, g)
    BY <1>2 DEF Once, Contains
  <2>2. \A p \in Int : Once(F[p])
    <3> SUFFICES ASSUME NEW p \in Int PROVE Once(F[p])
      OBVIOUS
    <3>1. Once(<<>>) /\ Once(<<Main>>) /\ Once(<<TopGoal>>)
      BY DEF Once
    <3> QED BY <1>8, <3>1
  <2>3. Unique(F, R)
    <3> HIDE DEF R
    <3>1. Main # TopGoal
      BY SchedAssumption
    <3> QED BY <1>9, <2>1, <2>2, <3>1 DEF Unique
  <2>4. Bottom(F)
    <3>1. F[0] = <<TopGoal>>
      BY <1>1, <1>8
    <3> QED BY <3>1 DEF Bottom
  <2>5. \A g : Somewhere(F, R, g) <=> (g = TopGoal \/ g \in {Main} \ Asleep(S))
    <3> HIDE DEF R
    <3>1. m \in Int /\ 0 \in Int
      BY <1>1
    <3> QED BY <1>6, <1>9, <2>1, <3>1 DEF Somewhere
  <2> QED BY <2>3, <2>4, <2>5 DEF Placed, F
<1>11. Keeping(S)
  <2>1. \A g : ~ Contains(S.resumed, g)
    BY <1>2 DEF Contains
  <2>2. ASSUME NEW g \in Goal, NEW p \in Int, Contains(F[p], g) PROVE S.due[g] = p
    <3>1. g # TopGoal
      BY SchedAssumption
    <3>2. p = m
      BY <1>9, <2>2, <3>1
    <3>3. S.due[g] = m
      BY <1>2
    <3> QED BY <3>2, <3>3
  <2> QED BY <1>2, <2>1, <2>2 DEF Keeping, F
<1>12. Waiting(S) /\ Standing(S) /\ Unbound(S) /\ Resuming(S)
  <2>1. \A g : ~ Contains(S.resumed, g)
    BY <1>2 DEF Contains
  <2> QED BY <1>2, <2>1 DEF Waiting, Standing, Unbound, Resuming
<1>13. Right(S, {Main})
  BY <1>4, <1>5, <1>7, <1>10, <1>11, <1>12 DEF Right
<1>14. /\ alive = {Main} /\ born = {Main} /\ status = "running" /\ qp = <<Main>>
  BY DEF Init
<1>15. Ends
  BY <1>14, SchedAssumption DEF Ends, NothingLeft
<1> QED BY <1>12, <1>13, <1>14, <1>15, SchedAssumption DEF IInv, S

LEMMA Inductive ==
  ASSUME IInv, [Next]_vars
  PROVE  IInv'
<1>1. ASSUME NEW g \in Goal, GoalStep(g) PROVE IInv'
  <2>1. PICK goesOn \in BOOLEAN :
          \/ Reduce(g, goesOn)
          \/ \E h \in Goal, p \in Prio \cup {-1} : Fork(g, h, p, goesOn)
          \/ \E h \in Goal, x \in Var, relative \in BOOLEAN : ForkWaiting(g, h, x, relative, goesOn)
          \/ \E x \in Var, v \in Value : Bind(g, x, v, goesOn)
          \/ \E x, y \in Var : Unify(g, x, y, goesOn)
    BY <1>1 DEF GoalStep
  <2>2. CASE Reduce(g, goesOn)
    BY <2>2, ReduceStep
  <2>3. CASE \E h \in Goal, p \in Prio \cup {-1} : Fork(g, h, p, goesOn)
    BY <2>3, ForkStep
  <2>4. CASE \E h \in Goal, x \in Var, relative \in BOOLEAN : ForkWaiting(g, h, x, relative, goesOn)
    BY <2>4, ForkWaitingStep
  <2>5. CASE \E x \in Var, v \in Value : Bind(g, x, v, goesOn)
    BY <2>5, BindStep
  <2>6. CASE \E x, y \in Var : Unify(g, x, y, goesOn)
    BY <2>6, UnifyStep
  <2> QED BY <2>1, <2>2, <2>3, <2>4, <2>5, <2>6
<1>2. ASSUME NEW g \in Goal, WaitPrioRoutine(g) PROVE IInv'
  BY <1>2, WaitPrioRoutineStep
<1>3. ASSUME NEW g \in Goal, NEW xs \in SUBSET Var, Suspend(g, xs) PROVE IInv'
  BY <1>3, SuspendStep
<1>4. CASE QueueEmpty
  BY <1>4, QueueEmptyStep
<1>5. CASE TopExits
  BY <1>5, TopExitsStep
<1>6. CASE TopWaits
  <2>1. /\ Interrupt(State) /\ alive' = alive /\ born' = born
        /\ status' \in {"running", "idle", "perpetual"}
    BY <1>6 DEF TopWaits
  <2> QED BY <2>1, InterruptStep
<1>7. CASE TopWakes
  <2>1. /\ Interrupt(State) /\ alive' = alive /\ born' = born
        /\ status' \in {"running", "idle", "perpetual"}
    BY <1>7 DEF TopWakes
  <2> QED BY <2>1, InterruptStep
<1>8. CASE HandlerRuns
  BY <1>8, HandlerStep
<1>9. CASE Stopped \/ UNCHANGED vars
  BY <1>9, StutterStep DEF Stopped
<1> QED BY <1>1, <1>2, <1>3, <1>4, <1>5, <1>6, <1>7, <1>8, <1>9 DEF Next, SchedStep

(* In every reachable state each goal there is is either asleep, on the    *)
(* hooks of its variables, or at one place of the queue of its priority,   *)
(* and the queues are in their order.                                      *)
THEOREM Invariance == Spec => []IInv
BY StartsRight, Inductive, PTL DEF Spec

-----------------------------------------------------------------------------
(* What follows from the invariant.                                        *)
(* The variables keep to their types; in particular the count of suspended *)
(* goals is never negative and the references of variables are one deep.   *)
THEOREM TypeCorrect == Spec => []TypeOK
<1>1. ASSUME IInv PROVE TypeOK
  <2>1. State \in StateType /\ Standing(State) /\ Counted(State, alive)
    BY <1>1 DEF IInv, Right
  <2>2. suspended \in Nat
    <3>1. IsFiniteSet(Asleep(State)) /\ suspended = Cardinality(Asleep(State))
      BY <2>1, FS_Subset, StateIs DEF Counted
    <3> QED BY <3>1, FS_CardinalityType
  <2>3. /\ qp \in Seq(AnyGoal) /\ resumed_goals \in Seq(Goal) /\ current_prio \in Nat
        /\ prioq \in Seq(QueueRecord) /\ higher_priority_goal \in BOOLEAN
        /\ doorbell \in BOOLEAN
        /\ asleep \in [Goal -> Sleep] /\ hooks \in [Var -> Seq(Goal)]
        /\ waits \in [Goal -> Wait] /\ due \in [Goal -> Nat] /\ signal \in Signal
        /\ rep \in [Var -> Var] /\ val \in [Var -> Value \cup {None}]
    BY <2>1, StateIs DEF StateType
  <2>4. \A x \in Var : rep[rep[x]] = rep[x]
    BY <2>1, StateIs DEF Standing
  <2> QED BY <1>1, <2>2, <2>3, <2>4 DEF TypeOK, IInv, AnyGoal, QueueRecord, Sleep, Wait, Signal
<1> QED BY <1>1, Invariance, PTL

(* suspensions - resumes, from which topsucceed tells whether the program  *)
(* has ended, is the number of goals that are asleep: a goal that is       *)
(* hooked on several variables is counted once when it wakes, wherever it  *)
(* is queued.                                                              *)
THEOREM SuspendedCounted == Spec => []CountRight
<1>1. ASSUME IInv PROVE CountRight
  BY <1>1, StateIs DEF IInv, Right, Counted, Asleep, CountRight
<1> QED BY <1>1, Invariance, PTL

(* No wake-up is lost: neither bind nor unify nor a signal leaves a goal   *)
(* asleep on a variable that has a value, or off the hooks of the variable *)
(* its own has been unified with.                                          *)
THEOREM NoLostWakeUp == Spec => []NoneSleepsBound
<1>1. ASSUME IInv PROVE NoneSleepsBound
  BY <1>1, StateIs DEF IInv, Unbound, NoneSleepsBound, ValueOf
<1> QED BY <1>1, Invariance, PTL

(* klic_interrupt() is called whenever there are resumed goals to queue or *)
(* there is a higher priority: neither the end of one of the two nor that  *)
(* of a signal turns the doorbell off while the other is waiting.          *)
THEOREM AlwaysRung == Spec => []DoorbellRung
<1>1. ASSUME IInv PROVE DoorbellRung
  <2>1. State \in StateType /\ Rung(State)
    BY <1>1 DEF IInv, Right
  <2>2. higher_priority_goal \in BOOLEAN /\ doorbell \in BOOLEAN
    BY <2>1, StateIs DEF StateType
  <2> QED BY <2>1, <2>2, StateIs DEF Rung, DoorbellRung
<1> QED BY <1>1, Invariance, PTL

(* A goal is in the queue of the priority it was given, and comes back to  *)
(* it after it has been suspended or put back.                             *)
THEOREM PriorityKept == Spec => []KeepsPriority
<1>1. ASSUME IInv PROVE KeepsPriority
  <2> DEFINE F == QueueFn(State)
  <2>1. State \in StateType /\ Shape(State) /\ Keeping(State)
    BY <1>1 DEF IInv, Right
  <2>2. /\ F[current_prio] = qp /\ current_prio \in Int
        /\ prioq \in Seq(QueueRecord) /\ PrioqOK(prioq) /\ ~ HasPrio(prioq, current_prio)
    BY <2>1, StateIs DEF StateType, Shape, QueueFn
  <2>3. ASSUME NEW i \in DOMAIN prioq
        PROVE  prioq[i].prio \in Int /\ F[prioq[i].prio] = prioq[i].q
    <3>1. i \in 1 .. Len(prioq)
      BY <2>2
    <3>2. prioq[i].prio \in Int /\ At(prioq, prioq[i].prio) = prioq[i].q
      BY <2>2, <3>1, RecordOf, AtIs
    <3>3. prioq[i].prio # current_prio
      BY <2>2, <3>1 DEF HasPrio
    <3> QED BY <3>2, <3>3, StateIs DEF QueueFn
  <2> HIDE DEF F
  <2>4. /\ \A g \in Goal : asleep[g] # None => asleep[g].prio = due[g]
        /\ \A g \in Goal : waits[g] = None =>
             /\ Contains(resumed_goals, g) => due[g] = current_prio
             /\ \A p \in Int : Contains(F[p], g) => due[g] = p
    BY <2>1, StateIs DEF Keeping, F
  <2> QED BY <2>2, <2>3, <2>4 DEF KeepsPriority
<1> QED BY <1>1, Invariance, PTL

(* The highest queue is the current one unless an interrupt is due, the    *)
(* others follow in their order, and topsucceed is last of all.            *)
THEOREM QueuesOrdered == Spec => []HighestFirst
<1>1. ASSUME IInv PROVE HighestFirst
  <2> DEFINE F == QueueFn(State)
  <2>1. State \in StateType /\ Shape(State) /\ Placed(State, alive)
    BY <1>1 DEF IInv, Right
  <2>2. /\ F[current_prio] = qp /\ current_prio \in Nat /\ higher_priority_goal \in BOOLEAN
        /\ prioq \in Seq(QueueRecord) /\ PrioqOK(prioq) /\ ~ HasPrio(prioq, current_prio)
        /\ current_prio = 0 \/ HasPrio(prioq, 0)
        /\ \A p \in Int : HasPrio(prioq, p) => higher_priority_goal = TRUE \/ p < current_prio
    BY <2>1, StateIs DEF StateType, Shape, QueueFn
  <2>3. /\ Len(prioq) \in Nat \ {0} /\ DOMAIN prioq = 1 .. Len(prioq)
        /\ \A i \in 1 .. Len(prioq) : prioq[i].prio \in Int
        /\ \A i \in 1 .. Len(prioq) - 1 : prioq[i].prio \in Nat
        /\ prioq[Len(prioq)].prio = -1
    <3>1. PrioqOK(prioq)
      BY <2>2
    <3>2. DOMAIN prioq = 1 .. Len(prioq)
      BY <2>2, LenProperties
    <3>3. /\ Len(prioq) \in Nat \ {0}
          /\ \A i \in 1 .. Len(prioq) : prioq[i].prio \in Int
      BY <3>1, RecordOf
    <3>4. /\ \A i \in 1 .. Len(prioq) - 1 : prioq[i].prio \in Nat
          /\ prioq[Len(prioq)].prio = -1
      BY <3>1, RecordOf
    <3> QED BY <3>2, <3>3, <3>4
  <2>4. /\ \A i, j \in DOMAIN prioq : i < j => prioq[i].prio > prioq[j].prio
        /\ prioq # <<>> /\ Last(prioq) = Sentinel
    BY <2>2, <2>3 DEF PrioqOK, Descending, Last
  <2>5. ASSUME NEW i \in DOMAIN prioq
        PROVE  /\ prioq[i].prio # current_prio
               /\ higher_priority_goal \/ prioq[i].prio < current_prio
    <3>1. prioq[i].prio \in Int /\ HasPrio(prioq, prioq[i].prio)
      BY <2>3 DEF HasPrio
    <3> QED BY <2>2, <3>1
  <2> DEFINE bottom == IF current_prio = 0 THEN qp ELSE prioq[Len(prioq) - 1].q
  <2>6. F[0] = bottom
    <3>1. CASE current_prio = 0
      BY <2>2, <3>1
    <3>2. CASE current_prio # 0
      <4>1. PICK i \in 1 .. Len(prioq) : prioq[i].prio = 0
        BY <2>2, <3>2 DEF HasPrio
      <4>2. i = Len(prioq) - 1
        <5> DEFINE n == Len(prioq)
        <5>1. n \in Nat /\ i \in 1 .. n /\ i # n
          <6>1. n \in Nat \ {0} /\ i \in 1 .. n /\ prioq[n].prio = -1
            BY <2>3, <4>1
          <6>2. prioq[i].prio = 0 /\ -1 # 0
            BY <4>1
          <6> HIDE DEF n
          <6> QED BY <6>1, <6>2
        <5>2. \A j \in 1 .. n - 1 : i < j => 0 > prioq[j].prio /\ prioq[j].prio \in Nat
          BY <2>3, <2>4, <4>1
        <5> HIDE DEF n
        <5>3. ASSUME NEW j \in 1 .. n - 1 PROVE ~ (i < j)
          <6>1. \A m \in Nat : ~ (0 > m)
            OBVIOUS
          <6> QED BY <5>2, <6>1
        <5>4. CASE i = n - 1
          BY <5>4 DEF n
        <5>5. CASE i # n - 1
          <6>1. n - 1 \in 1 .. n - 1 /\ i < n - 1
            BY <5>1, <5>5
          <6> QED BY <5>3, <6>1
        <5> QED BY <5>4, <5>5
      <4>3. At(prioq, 0) = prioq[i].q
        BY <2>2, <4>1, AtIs
      <4>4. F[0] = At(prioq, 0)
        BY <3>2, StateIs DEF QueueFn
      <4> QED BY <3>2, <4>2, <4>3, <4>4
    <3> QED BY <3>1, <3>2
  <2>7. bottom # <<>> /\ PlacesIn(bottom, TopGoal) = {Len(bottom)}
    <3>1. F \in Queues
      BY <2>1, QueueFnType DEF Shape
    <3>2. F[0] \in Seq(AnyGoal) /\ Once(F[0]) /\ F[0] # <<>> /\ F[0][Len(F[0])] = TopGoal
      <4> HIDE DEF F
      <4>1. Unique(F, State.resumed) /\ Bottom(F)
        BY <2>1 DEF Placed, F
      <4> QED BY <3>1, <4>1 DEF Queues, Unique, Bottom
    <3> HIDE DEF F, bottom
    <3>3. bottom \in Seq(AnyGoal) /\ Once(bottom) /\ bottom # <<>> /\ bottom[Len(bottom)] = TopGoal
      BY <2>6, <3>2
    <3>4. Len(bottom) \in 1 .. Len(bottom) /\ DOMAIN bottom = 1 .. Len(bottom)
      <4>1. Len(bottom) \in Nat \ {0}
        BY <3>3, EmptySeq, LenProperties
      <4> QED BY <3>3, <4>1
    <3> QED BY <3>3, <3>4 DEF PlacesIn, Once
  <2> QED BY <2>4, <2>5, <2>7 DEF HighestFirst
<1> QED BY <1>1, Invariance, PTL

(* No goal is lost and none is queued twice, by whatever calls and signals *)
(* it has been suspended, resumed, put back or interrupted.                *)
THEOREM PlacedExactlyOnce == Spec => []PlacedOnce
<1>1. ASSUME IInv PROVE PlacedOnce
  <2> DEFINE S == State  M == EnqueueResumedGoals(S)  G == QueueFn(M)
  <2>1. Right(S, alive) /\ Unbound(S)
    BY <1>1 DEF IInv
  <2>2. /\ S.prio = current_prio /\ S.resumed = resumed_goals /\ S.qp = qp /\ S.prioq = prioq
        /\ S.asleep = asleep
    BY StateIs
  <2> HIDE DEF S
  <2>3. /\ Right(M, alive) /\ M.resumed = <<>> /\ M.qp = resumed_goals \o qp
        /\ M.prio = current_prio
    BY <2>1, <2>2, RightMerge
  <2>4. M.prioq = prioq /\ M.asleep = asleep
    BY <2>1, <2>2 DEF EnqueueResumedGoals, Right, StateType
  <2> HIDE DEF M
  <2>5. /\ current_prio \in Int /\ PrioqOK(prioq) /\ ~ HasPrio(prioq, current_prio)
        /\ M \in StateType /\ DOMAIN prioq = 1 .. Len(prioq)
    BY <2>3, <2>4 DEF Right, Shape, StateType, PrioqOK
  <2>6. /\ G[current_prio] = resumed_goals \o qp
        /\ \A p \in Int \ {current_prio} : G[p] = At(prioq, p)
        /\ \A p \in Int : G[p] \in Seq(AnyGoal)
    <3>1. G \in Queues
      BY <2>4, <2>5, QueueFnType
    <3> QED BY <2>3, <2>4, <2>5, <3>1 DEF QueueFn, Queues
  <2>7. /\ Unique(G, <<>>)
        /\ \A g : Somewhere(G, <<>>, g) <=> (g = TopGoal \/ g \in alive \ Asleep(M))
    BY <2>3 DEF Right, Placed
  <2> HIDE DEF G
  <2> SUFFICES ASSUME NEW g \in Goal
               PROVE  Cardinality(Places(g)) = IF g \in alive /\ asleep[g] = None THEN 1 ELSE 0
    BY DEF PlacedOnce
  <2> DEFINE In(p, j) == p \in Int /\ j \in 1 .. Len(G[p]) /\ G[p][j] = g
  <2>8. ASSUME NEW e \in Places(g) PROVE \E p, j : e = <<p, j>> /\ In(p, j)
    <3>1. CASE e \in {current_prio} \X PlacesIn(resumed_goals \o qp, g)
      <4>1. PICK j \in PlacesIn(G[current_prio], g) : e = <<current_prio, j>>
        BY <2>6, <3>1
      <4>2. In(current_prio, j)
        BY <2>5, <2>6, <4>1 DEF PlacesIn
      <4> QED BY <4>1, <4>2
    <3>2. CASE e \in UNION {{prioq[i].prio} \X PlacesIn(prioq[i].q, g) : i \in DOMAIN prioq}
      <4>1. PICK i \in 1 .. Len(prioq) : e \in {prioq[i].prio} \X PlacesIn(prioq[i].q, g)
        BY <2>5, <3>2
      <4> DEFINE p == prioq[i].prio
      <4>2. p \in Int /\ HasPrio(prioq, p) /\ At(prioq, p) = prioq[i].q
        BY <2>5, RecordOf, AtIs
      <4>3. p # current_prio
        BY <2>5, <4>2
      <4>4. G[p] = prioq[i].q
        BY <2>6, <4>2, <4>3
      <4>5. PICK j \in PlacesIn(G[p], g) : e = <<p, j>>
        BY <4>1, <4>4
      <4>6. G[p] \in Seq(AnyGoal)
        BY <2>6, <4>2
      <4> HIDE DEF p
      <4>7. In(p, j)
        BY <4>2, <4>5, <4>6 DEF PlacesIn
      <4> QED BY <4>5, <4>7
    <3> QED BY <3>1, <3>2 DEF Places
  <2>9. ASSUME NEW p, NEW j, In(p, j) PROVE <<p, j>> \in Places(g)
    <3>1. j \in PlacesIn(G[p], g)
      BY <2>6, <2>9 DEF PlacesIn
    <3>2. CASE p = current_prio
      BY <2>6, <3>1, <3>2 DEF Places
    <3>3. CASE p # current_prio
      <4>1. G[p] = At(prioq, p)
        BY <2>6, <2>9, <3>3
      <4>2. HasPrio(prioq, p)
        <5>1. Len(<<>>) = 0 /\ 1 .. 0 = {}
          OBVIOUS
        <5> QED BY <2>9, <4>1, <5>1 DEF At
      <4>3. PICK i \in 1 .. Len(prioq) : prioq[i].prio = p
        BY <4>2 DEF HasPrio
      <4>4. G[p] = prioq[i].q
        BY <2>5, <4>1, <4>3, AtIs
      <4>5. <<p, j>> \in {prioq[i].prio} \X PlacesIn(prioq[i].q, g)
        BY <3>1, <4>3, <4>4
      <4> QED BY <2>5, <4>5 DEF Places
    <3> QED BY <3>2, <3>3
  <2>10. (g \in alive /\ asleep[g] = None) <=> \E p, j : In(p, j)
    <3>1. (g \in alive /\ asleep[g] = None) <=> Somewhere(G, <<>>, g)
      <4>1. g # TopGoal
        BY SchedAssumption
      <4> QED BY <2>4, <2>7, <4>1 DEF Asleep
    <3>2. Somewhere(G, <<>>, g) <=> \E p, j : In(p, j)
      BY DEF Somewhere, Contains
    <3> QED BY <3>1, <3>2
  <2>11. ASSUME NEW p, NEW j, In(p, j), NEW r, NEW k, In(r, k) PROVE p = r /\ j = k
    <3>1. Contains(G[p], g) /\ Contains(G[r], g)
      BY <2>11 DEF Contains
    <3>2. p = r
      BY <2>7, <2>11, <3>1 DEF Unique
    <3>3. Once(G[p])
      BY <2>7, <2>11 DEF Unique
    <3> QED BY <2>11, <3>2, <3>3 DEF Once
  <2> HIDE DEF In
  <2>12. CASE g \in alive /\ asleep[g] = None
    <3>1. PICK p, j : In(p, j)
      BY <2>10, <2>12
    <3>2. Places(g) = {<<p, j>>}
      BY <2>8, <2>9, <2>11, <3>1
    <3> QED BY <2>12, <3>2, FS_Singleton
  <2>13. CASE ~ (g \in alive /\ asleep[g] = None)
    <3>1. Places(g) = {}
      BY <2>8, <2>10, <2>13
    <3> QED BY <2>13, <3>1, FS_EmptySet
  <2> QED BY <2>12, <2>13
<1> QED BY <1>1, Invariance, PTL

(* Where no goal has a variable for its priority, the process exits only   *)
(* when there is no goal left, in a queue or asleep.                       *)
THEOREM NothingGivenUp == Waiter = {} => (Spec => []NothingLeft)
<1> SUFFICES ASSUME Waiter = {} PROVE Spec => []NothingLeft
  OBVIOUS
<1>1. IInv => NothingLeft
  BY DEF IInv, Ends
<1> QED BY <1>1, Invariance, PTL

=====
