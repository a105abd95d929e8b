---------------------------- MODULE ExRef_proofs ----------------------------
(***************************************************************************)
(* Proofs about external references, for any nodes, tables, heaps and      *)
(* weights.  First the lemmas on sums, which are the sizes of sets, and on *)
(* bags; then what the operations of a handler do to the memory; then the  *)
(* inductive invariant.                                                    *)
(***************************************************************************)
EXTENDS ExRef, TLAPS, FiniteSetTheorems

-----------------------------------------------------------------------------
(* Sums.                                                                   *)
LEMMA GrainsAre ==
  ASSUME NEW f
  PROVE  /\ \A x, k : <<x, k>> \in Grains(f) <=> x \in DOMAIN f /\ k \in 1 .. f[x]
         /\ \A t \in Grains(f) : t = <<t[1], t[2]>>
  BY DEF Grains

LEMMA Column ==
  ASSUME NEW x, NEW k \in Nat
  PROVE  IsFiniteSet({x} \X (1 .. k)) /\ Cardinality({x} \X (1 .. k)) = k
<1>1. IsFiniteSet({x}) /\ Cardinality({x}) = 1
  BY FS_Singleton
<1>2. IsFiniteSet(1 .. k) /\ Cardinality(1 .. k) = k
  BY FS_Interval
<1>3. /\ IsFiniteSet({x} \X (1 .. k))
      /\ Cardinality({x} \X (1 .. k)) = Cardinality({x}) * Cardinality(1 .. k)
  BY <1>1, <1>2, FS_Product
<1> QED BY <1>1, <1>2, <1>3

LEMMA Disjoint ==
  ASSUME NEW A, NEW B, IsFiniteSet(A), IsFiniteSet(B), A \cap B = {}
  PROVE  /\ IsFiniteSet(A \cup B)
         /\ Cardinality(A \cup B) = Cardinality(A) + Cardinality(B)
<1>1. Cardinality(A \cap B) = 0
  BY FS_EmptySet
<1>2. Cardinality(A) \in Nat /\ Cardinality(B) \in Nat
  BY FS_CardinalityType
<1>3. /\ IsFiniteSet(A \cup B)
      /\ Cardinality(A \cup B) = Cardinality(A) + Cardinality(B) - Cardinality(A \cap B)
  BY FS_Union, Zenon
<1> QED BY <1>1, <1>2, <1>3

(* A sum is at least each of its terms.                                    *)
LEMMA TotalAtLeast ==
  ASSUME NEW D, NEW f \in [D -> Nat], IsFiniteSet(Grains(f))
  PROVE  Total(f) \in Nat /\ \A d \in D : f[d] <= Total(f)
<1>1. Total(f) \in Nat
  BY FS_CardinalityType DEF Total
<1>2. ASSUME NEW d \in D PROVE f[d] <= Total(f)
  <2>1. {d} \X (1 .. f[d]) \subseteq Grains(f)
    BY DEF Grains
  <2>2. Cardinality({d} \X (1 .. f[d])) <= Total(f)
    BY <2>1, FS_Subset DEF Total
  <2>3. f[d] \in Nat
    OBVIOUS
  <2> QED BY <2>2, <2>3, Column
<1> QED BY <1>1, <1>2

(* One term of a sum is changed.                                           *)
LEMMA TotalChange ==
  ASSUME NEW D, NEW f \in [D -> Nat], NEW g \in [D -> Nat], NEW d \in D,
         \A x \in D : x # d => g[x] = f[x],
         IsFiniteSet(Grains(f))
  PROVE  /\ IsFiniteSet(Grains(g))
         /\ Total(g) = Total(f) - f[d] + g[d]
         /\ Total(f) \in Nat
<1> DEFINE R == UNION {{x} \X (1 .. f[x]) : x \in D \ {d}}
           a == f[d]  b == g[d]
<1>1. Grains(f) = R \cup ({d} \X (1 .. a))
  BY DEF Grains
<1>2. Grains(g) = R \cup ({d} \X (1 .. b))
  BY DEF Grains
<1>3. R \cap ({d} \X (1 .. a)) = {} /\ R \cap ({d} \X (1 .. b)) = {}
  OBVIOUS
<1>4. IsFiniteSet(R)
  BY <1>1, FS_Subset
<1>5. a \in Nat /\ b \in Nat
  OBVIOUS
<1> HIDE DEF R, a, b
<1>6. /\ IsFiniteSet({d} \X (1 .. a)) /\ Cardinality({d} \X (1 .. a)) = a
      /\ IsFiniteSet({d} \X (1 .. b)) /\ Cardinality({d} \X (1 .. b)) = b
  BY <1>5, Column
<1>7. Cardinality(R) \in Nat
  BY <1>4, FS_CardinalityType
<1>8. Total(f) = Cardinality(R) + a
  BY <1>1, <1>3, <1>4, <1>6, Disjoint DEF Total
<1>9. IsFiniteSet(Grains(g)) /\ Total(g) = Cardinality(R) + b
  BY <1>2, <1>3, <1>4, <1>6, Disjoint DEF Total
<1> QED BY <1>5, <1>7, <1>8, <1>9 DEF a, b

(* The terms of h are added to those of f, that of e to that of t[e].      *)
Added(D, E, f, g, h, t) ==
  /\ f \in [D -> Nat] /\ g \in [D -> Nat] /\ h \in [E -> Nat] /\ t \in [E -> D]
  /\ \A e, c \in E : t[e] = t[c] => e = c
  /\ \A e \in E : g[t[e]] = f[t[e]] + h[e]
  /\ \A d \in D : (\A e \in E : t[e] # d) => g[d] = f[d]

LEMMA TotalAdd ==
  ASSUME NEW D, NEW E, NEW f, NEW g, NEW h, NEW t, Added(D, E, f, g, h, t),
         IsFiniteSet(Grains(f)), IsFiniteSet(Grains(h))
  PROVE  /\ IsFiniteSet(Grains(g))
         /\ Total(g) = Total(f) + Total(h)
         /\ Total(f) \in Nat /\ Total(h) \in Nat
<1> USE DEF Added
<1> DEFINE F == [z \in Grains(h) |-> <<t[z[1]], f[t[z[1]]] + z[2]>>]
           M == {F[z] : z \in Grains(h)}
<1>1. \A z \in Grains(h) : z = <<z[1], z[2]>> /\ z[1] \in E /\ z[2] \in 1 .. h[z[1]]
  BY DEF Grains
<1>2. \A z \in Grains(h) : F[z] = <<t[z[1]], f[t[z[1]]] + z[2]>>
  BY Zenon
<1>3. \A y, z \in Grains(h) : F[y] = F[z] => y = z
  <2> SUFFICES ASSUME NEW y \in Grains(h), NEW z \in Grains(h), F[y] = F[z]
               PROVE  y = z
    OBVIOUS
  <2>1. t[y[1]] = t[z[1]] /\ f[t[y[1]]] + y[2] = f[t[z[1]]] + z[2]
    BY <1>2
  <2>2. y[1] = z[1]
    BY <1>1, <2>1
  <2>3. f[t[y[1]]] \in Nat /\ y[2] \in Nat /\ z[2] \in Nat
    BY <1>1
  <2>4. PICK k \in Nat, a \in Nat, b \in Nat : k = f[t[y[1]]] /\ a = y[2] /\ b = z[2]
    BY <2>3, Zenon
  <2>5. k + a = k + b
    BY <2>1, <2>2, <2>4, Zenon
  <2>6. a = b
    BY <2>5
  <2> QED BY <1>1, <2>2, <2>4, <2>6
<1>4. IsFiniteSet(M) /\ Cardinality(M) = Cardinality(Grains(h))
  <2>1. /\ F \in [Grains(h) -> M]
        /\ \A m \in M : \E z \in Grains(h) : F[z] = m
    OBVIOUS
  <2> HIDE DEF F, M
  <2>2. F \in Bijection(Grains(h), M)
    BY <1>3, <2>1 DEF Bijection, Injection, Surjection, IsInjective
  <2>3. ExistsBijection(Grains(h), M)
    BY <2>2 DEF ExistsBijection
  <2> QED BY <2>3, FS_Bijection
<1>5. Grains(g) = Grains(f) \cup M
  <2>1. ASSUME NEW z \in Grains(g) PROVE z \in Grains(f) \cup M
    <3>1. z = <<z[1], z[2]>> /\ z[1] \in D /\ z[2] \in 1 .. g[z[1]]
      BY DEF Grains
    <3>2. CASE z[2] \in 1 .. f[z[1]]
      BY <3>1, <3>2, GrainsAre
    <3>3. CASE z[2] \notin 1 .. f[z[1]]
      <4>1. PICK e \in E : t[e] = z[1]
        BY <3>1, <3>3
      <4>2. f[z[1]] \in Nat /\ h[e] \in Nat /\ g[z[1]] = f[z[1]] + h[e]
        BY <3>1, <4>1
      <4>3. z[2] - f[z[1]] \in 1 .. h[e] /\ f[z[1]] + (z[2] - f[z[1]]) = z[2]
        BY <3>1, <3>3, <4>2
      <4>4. <<e, z[2] - f[z[1]]>> \in Grains(h)
        BY <4>3, GrainsAre
      <4>5. F[<<e, z[2] - f[z[1]]>>] = z
        BY <1>2, <3>1, <4>1, <4>3, <4>4
      <4> QED BY <4>4, <4>5
    <3> QED BY <3>2, <3>3
  <2>2. ASSUME NEW z \in Grains(f) PROVE z \in Grains(g)
    <3>1. z = <<z[1], z[2]>> /\ z[1] \in D /\ z[2] \in 1 .. f[z[1]]
      BY DEF Grains
    <3>2. f[z[1]] \in Nat /\ g[z[1]] \in Nat /\ f[z[1]] <= g[z[1]]
      BY <3>1
    <3>3. z[2] \in 1 .. g[z[1]]
      BY <3>1, <3>2
    <3> QED BY <3>1, <3>3, GrainsAre
  <2>3. ASSUME NEW z \in Grains(h) PROVE F[z] \in Grains(g)
    <3>1. /\ t[z[1]] \in D /\ h[z[1]] \in Nat /\ f[t[z[1]]] \in Nat
          /\ g[t[z[1]]] = f[t[z[1]]] + h[z[1]]
      BY <1>1
    <3>2. f[t[z[1]]] + z[2] \in 1 .. g[t[z[1]]]
      BY <1>1, <3>1
    <3> QED BY <1>2, <3>1, <3>2, GrainsAre
  <2> QED BY <2>1, <2>2, <2>3
<1>6. Grains(f) \cap M = {}
  <2> SUFFICES ASSUME NEW z \in Grains(h), F[z] \in Grains(f) PROVE FALSE
    OBVIOUS
  <2>1. f[t[z[1]]] + z[2] \in 1 .. f[t[z[1]]]
    BY <1>2, GrainsAre
  <2>2. z[2] \in Nat \ {0} /\ f[t[z[1]]] \in Nat
    BY <1>1
  <2> QED BY <2>1, <2>2
<1> HIDE DEF F, M
<1>7. /\ IsFiniteSet(Grains(f) \cup M)
      /\ Cardinality(Grains(f) \cup M) = Cardinality(Grains(f)) + Cardinality(M)
  BY <1>4, <1>6, Disjoint
<1>8. IsFiniteSet(Grains(g)) /\ Total(g) = Total(f) + Total(h)
  BY <1>4, <1>5, <1>7 DEF Total
<1> QED BY <1>8, FS_CardinalityType DEF Total

(* Terms that are 0 do not count.                                          *)
LEMMA TotalExtend ==
  ASSUME NEW D, NEW E, D \subseteq E, NEW f \in [D -> Nat], NEW g \in [E -> Nat],
         \A x \in D : g[x] = f[x], \A x \in E \ D : g[x] = 0
  PROVE  Grains(g) = Grains(f) /\ Total(g) = Total(f)
<1>1. ASSUME NEW x, NEW k PROVE <<x, k>> \in Grains(g) <=> <<x, k>> \in Grains(f)
  <2>1. x \in E \ D => ~(k \in 1 .. g[x])
    OBVIOUS
  <2>2. x \in D => g[x] = f[x]
    OBVIOUS
  <2> QED BY <2>1, <2>2, GrainsAre, DOMAIN f = D, DOMAIN g = E, Zenon
<1>2. ASSUME NEW z PROVE z \in Grains(g) <=> z \in Grains(f)
  <2>1. z \in Grains(g) \/ z \in Grains(f) => z = <<z[1], z[2]>>
    BY GrainsAre, Zenon
  <2>2. <<z[1], z[2]>> \in Grains(g) <=> <<z[1], z[2]>> \in Grains(f)
    BY <1>1, Zenon
  <2> QED BY <2>1, <2>2, Zenon
<1>3. Grains(g) = Grains(f)
  BY <1>2, Zenon
<1> QED BY <1>3 DEF Total

(* What is 0 everywhere sums up to 0.                                      *)
LEMMA TotalZero ==
  ASSUME NEW D, NEW f \in [D -> Nat], \A x \in D : f[x] = 0
  PROVE  Grains(f) = {} /\ IsFiniteSet(Grains(f)) /\ Total(f) = 0
<1>1. ASSUME NEW x, NEW k, <<x, k>> \in Grains(f) PROVE FALSE
  <2>1. x \in D /\ k \in 1 .. f[x]
    BY <1>1, GrainsAre
  <2> QED BY <2>1
<1>2. Grains(f) = {}
  BY <1>1, GrainsAre
<1> QED BY <1>2, FS_EmptySet DEF Total

-----------------------------------------------------------------------------
(* Bags.                                                                   *)
Copies(x, b) == IF x \in BagToSet(b) THEN b[x] ELSE 0

LEMMA CopiesAdd ==
  ASSUME NEW b, IsABag(b), NEW c, IsABag(c)
  PROVE  /\ IsABag(b (+) c) /\ BagToSet(b (+) c) = BagToSet(b) \cup BagToSet(c)
         /\ \A x : /\ Copies(x, b (+) c) = Copies(x, b) + Copies(x, c)
                  /\ Copies(x, b) \in Nat /\ Copies(x, c) \in Nat
  BY DEF IsABag, Copies, BagToSet, (+)

LEMMA CopiesOne ==
  ASSUME NEW x
  PROVE  /\ IsABag(One(x)) /\ BagToSet(One(x)) = {x}
         /\ \A y : Copies(y, One(x)) = IF y = x THEN 1 ELSE 0
  BY DEF One, SetToBag, IsABag, Copies, BagToSet

LEMMA CopiesNone ==
  /\ IsABag(EmptyBag) /\ BagToSet(EmptyBag) = {}
  /\ \A y : Copies(y, EmptyBag) = 0
  BY DEF EmptyBag, SetToBag, IsABag, Copies, BagToSet

(* An element taken from a bag it is in: one copy less of it.              *)
LEMMA CopiesTake ==
  ASSUME NEW b, IsABag(b), NEW x \in BagToSet(b)
  PROVE  /\ IsABag(b (-) One(x)) /\ BagToSet(b (-) One(x)) \subseteq BagToSet(b)
         /\ \A y : /\ Copies(y, b) = Copies(y, b (-) One(x)) + Copies(y, One(x))
                  /\ Copies(y, b (-) One(x)) \in Nat
  BY DEF One, SetToBag, IsABag, Copies, BagToSet, (-)

(* Its weight, when an element x has weight w[x].                          *)
Parts(b, w) == [x \in DOMAIN w |-> Copies(x, b) * w[x]]
Finite(b, w) == IsFiniteSet(Grains(Parts(b, w)))
Weight(b, w) == Total(Parts(b, w))

LEMMA PartsType ==
  ASSUME NEW U, NEW w \in [U -> Nat], NEW b, \A x : Copies(x, b) \in Nat
  PROVE  /\ Parts(b, w) \in [U -> Nat]
         /\ \A x \in U : Parts(b, w)[x] = Copies(x, b) * w[x]
  BY DEF Parts

(* a is b and c together.                                                  *)
LEMMA WeightSplit ==
  ASSUME NEW U, NEW w \in [U -> Nat], NEW a, NEW b, NEW c,
         \A x : /\ Copies(x, a) = Copies(x, b) + Copies(x, c)
               /\ Copies(x, b) \in Nat /\ Copies(x, c) \in Nat
  PROVE  /\ Finite(b, w) /\ Finite(c, w) =>
              Finite(a, w) /\ Weight(a, w) = Weight(b, w) + Weight(c, w)
         /\ Finite(a, w) => Finite(b, w)
<1> DEFINE f == Parts(b, w)  g == Parts(a, w)  h == Parts(c, w)
           t == [u \in U |-> u]
<1>1. /\ f \in [U -> Nat] /\ g \in [U -> Nat] /\ h \in [U -> Nat]
      /\ \A x \in U : /\ f[x] = Copies(x, b) * w[x]
                     /\ g[x] = Copies(x, a) * w[x]
                     /\ h[x] = Copies(x, c) * w[x]
  BY PartsType
<1> HIDE DEF f, g, h
<1>2. ASSUME NEW x \in U PROVE g[x] = f[x] + h[x]
  <2>1. PICK j \in Nat, k \in Nat, l \in Nat :
           j = Copies(x, b) /\ k = Copies(x, c) /\ l = w[x]
    BY Zenon
  <2>2. (j + k) * l = j * l + k * l
    BY <2>1
  <2> QED BY <1>1, <2>1, <2>2, Zenon
<1>3. Added(U, U, f, g, h, t)
  BY <1>1, <1>2, Zenon DEF Added
<1> HIDE DEF t
<1>4. ASSUME IsFiniteSet(Grains(f)), IsFiniteSet(Grains(h))
      PROVE  IsFiniteSet(Grains(g)) /\ Total(g) = Total(f) + Total(h)
  BY <1>3, <1>4, TotalAdd
<1>5. ASSUME NEW z \in Grains(f) PROVE z \in Grains(g)
  <2>1. z = <<z[1], z[2]>> /\ z[1] \in U /\ z[2] \in 1 .. f[z[1]]
    BY <1>1 DEF Grains
  <2>2. /\ f[z[1]] \in Nat /\ g[z[1]] \in Nat /\ h[z[1]] \in Nat
        /\ g[z[1]] = f[z[1]] + h[z[1]]
    BY <1>1, <1>2, <2>1, Zenon
  <2>3. z[2] \in 1 .. g[z[1]]
    BY <2>1, <2>2
  <2> QED BY <1>1, <2>1, <2>3, GrainsAre
<1>6. IsFiniteSet(Grains(g)) => IsFiniteSet(Grains(f))
  BY <1>5, FS_Subset
<1> QED BY <1>4, <1>6 DEF Finite, Weight, f, g, h

LEMMA WeightOne ==
  ASSUME NEW U, NEW w \in [U -> Nat], NEW u \in U
  PROVE  Finite(One(u), w) /\ Weight(One(u), w) = w[u]
<1> DEFINE f == [x \in U |-> 0]  g == Parts(One(u), w)
<1>1. g \in [U -> Nat] /\ \A x \in U : g[x] = IF x = u THEN w[u] ELSE 0
  <2>1. \A x : Copies(x, One(u)) = IF x = u THEN 1 ELSE 0
    BY CopiesOne
  <2>2. /\ g \in [U -> Nat]
        /\ \A x \in U : g[x] = Copies(x, One(u)) * w[x]
    BY <2>1, PartsType
  <2> QED BY <2>1, <2>2
<1> HIDE DEF g
<1>2. f \in [U -> Nat] /\ \A x \in U : f[x] = 0
  OBVIOUS
<1>3. IsFiniteSet(Grains(f)) /\ Total(f) = 0
  BY <1>2, TotalZero
<1>4. \A x \in U : x # u => g[x] = f[x]
  BY <1>1, <1>2
<1>5. IsFiniteSet(Grains(g)) /\ Total(g) = Total(f) - f[u] + g[u]
  BY <1>1, <1>2, <1>3, <1>4, TotalChange
<1> HIDE DEF f
<1>6. Total(g) = w[u]
  BY <1>1, <1>2, <1>3, <1>5
<1> QED BY <1>5, <1>6 DEF g, Finite, Weight

LEMMA WeightNone ==
  ASSUME NEW U, NEW w \in [U -> Nat]
  PROVE  Finite(EmptyBag, w) /\ Weight(EmptyBag, w) = 0
<1>1. \A x : Copies(x, EmptyBag) = 0
  BY CopiesNone
<1>2. /\ Parts(EmptyBag, w) \in [U -> Nat]
      /\ \A x \in U : Parts(EmptyBag, w)[x] = 0
  BY <1>1, PartsType
<1> QED BY <1>2, TotalZero DEF Finite, Weight

(* The weight of a bag is at least that of each of its elements.           *)
LEMMA WeightAtLeast ==
  ASSUME NEW U, NEW w \in [U -> Nat], NEW b, IsABag(b), Finite(b, w)
  PROVE  Weight(b, w) \in Nat /\ \A x \in BagToSet(b) \cap U : w[x] <= Weight(b, w)
<1> DEFINE f == Parts(b, w)
<1>1. \A x : Copies(x, b) \in Nat
  BY DEF IsABag, Copies, BagToSet
<1>2. f \in [U -> Nat] /\ \A x \in U : f[x] = Copies(x, b) * w[x]
  BY <1>1, PartsType
<1>3. IsFiniteSet(Grains(f))
  BY DEF Finite
<1> HIDE DEF f
<1>4. Total(f) \in Nat /\ \A x \in U : f[x] <= Total(f)
  BY <1>2, <1>3, TotalAtLeast
<1>5. ASSUME NEW x \in BagToSet(b) \cap U PROVE w[x] <= f[x]
  <2>1. Copies(x, b) \in Nat \ {0}
    BY DEF IsABag, Copies, BagToSet
  <2>2. PICK j \in Nat \ {0}, k \in Nat : j = Copies(x, b) /\ k = w[x]
    BY <2>1
  <2>3. k <= j * k
    BY <2>2
  <2>4. f[x] = j * k /\ w[x] = k
    BY <1>2, <2>2, Zenon
  <2> QED BY <2>3, <2>4
<1>6. ASSUME NEW x \in BagToSet(b) \cap U PROVE w[x] <= Total(f)
  <2>1. w[x] \in Nat /\ f[x] \in Nat
    BY <1>2
  <2> QED BY <1>4, <1>5, <2>1
<1> QED BY <1>4, <1>6 DEF f, Weight

(* The elements of a bag are all that counts.                              *)
LEMMA WeightOver ==
  ASSUME NEW U, NEW w \in [U -> Nat], NEW b, IsABag(b), BagToSet(b) \subseteq U
  PROVE  Weight(b, w) = Total([x \in BagToSet(b) |-> b[x] * w[x]])
<1> DEFINE f == [x \in BagToSet(b) |-> b[x] * w[x]]  g == Parts(b, w)
<1>1. \A x : /\ Copies(x, b) = (IF x \in BagToSet(b) THEN b[x] ELSE 0)
            /\ Copies(x, b) \in Nat
  BY DEF IsABag, Copies, BagToSet
<1>2. g \in [U -> Nat] /\ \A x \in U : g[x] = Copies(x, b) * w[x]
  BY <1>1, PartsType
<1>3. f \in [BagToSet(b) -> Nat] /\ \A x \in BagToSet(b) : f[x] = b[x] * w[x]
  BY <1>1
<1> HIDE DEF f, g
<1>4. \A x \in BagToSet(b) : g[x] = f[x]
  BY <1>1, <1>2, <1>3, Zenon
<1>5. \A x \in U \ BagToSet(b) : g[x] = 0
  BY <1>1, <1>2
<1>6. Total(g) = Total(f)
  BY <1>2, <1>3, <1>4, <1>5, TotalExtend
<1> QED BY <1>6 DEF f, g, Weight

(* Each element of b has an image in c, which has as many copies of it,    *)
(* each of the same weight.                                                *)
LEMMA WeightImage ==
  ASSUME NEW U, NEW V, NEW w \in [U -> Nat], NEW v \in [V -> Nat],
         NEW b, NEW c, NEW t \in [U -> V],
         \A x : Copies(x, b) \in Nat /\ Copies(x, c) \in Nat,
         \A x, y \in U : t[x] = t[y] => x = y,
         \A x \in U : v[t[x]] = w[x] /\ Copies(t[x], c) = Copies(x, b),
         \A y \in V : (\A x \in U : t[x] # y) => Copies(y, c) = 0,
         Finite(b, w)
  PROVE  Finite(c, v) /\ Weight(c, v) = Weight(b, w)
<1> DEFINE f == [y \in V |-> 0]  g == Parts(c, v)  h == Parts(b, w)
<1>1. /\ g \in [V -> Nat] /\ \A y \in V : g[y] = Copies(y, c) * v[y]
      /\ h \in [U -> Nat] /\ \A x \in U : h[x] = Copies(x, b) * w[x]
  BY PartsType
<1>2. f \in [V -> Nat] /\ \A y \in V : f[y] = 0
  OBVIOUS
<1>3. IsFiniteSet(Grains(f)) /\ Total(f) = 0
  BY <1>2, TotalZero
<1> HIDE DEF f, g, h
<1>4. \A e \in U : g[t[e]] = f[t[e]] + h[e]
  <2> SUFFICES ASSUME NEW e \in U PROVE g[t[e]] = f[t[e]] + h[e]
    OBVIOUS
  <2>1. g[t[e]] = h[e]
    BY <1>1, Zenon
  <2>2. h[e] \in Nat /\ f[t[e]] = 0
    BY <1>1, <1>2
  <2> QED BY <2>1, <2>2
<1>5. \A d \in V : (\A e \in U : t[e] # d) => g[d] = f[d]
  <2> SUFFICES ASSUME NEW d \in V, \A e \in U : t[e] # d PROVE g[d] = f[d]
    OBVIOUS
  <2>1. Copies(d, c) = 0 /\ v[d] \in Nat
    OBVIOUS
  <2> QED BY <1>1, <1>2, <2>1
<1>6. IsFiniteSet(Grains(h))
  BY DEF h, Finite
<1>7. Added(V, U, f, g, h, t)
  BY <1>1, <1>2, <1>4, <1>5, Zenon DEF Added
<1>8. /\ IsFiniteSet(Grains(g)) /\ Total(g) = Total(f) + Total(h)
      /\ Total(h) \in Nat
  BY <1>3, <1>6, <1>7, TotalAdd
<1>9. Total(g) = Total(h)
  BY <1>3, <1>8
<1> QED BY <1>8, <1>9 DEF g, h, Finite, Weight

-----------------------------------------------------------------------------
(* What hooks, objects, entries and messages are, and what they weigh.     *)
Given == {r \in Reference : r.wec >= MIN_WEC}
Hook == {h \in Hooked : h.wec > 0}
Carried ==
  {m \in InMessage :
     /\ m.type = "throw" => m.index = None
     /\ m.type # "throw" => m.index \in Index /\ m.wec > 0
     /\ m.type \in {"throw", "read"} => m.term \in Given
     /\ m.type = "read" => m.term.wec = EXPORT_UNIT_WEC
     /\ m.type = "unify" => m.term \in Given \cup {Bound}
     /\ m.type = "answer" => m.term = Bound
     /\ m.type = "release" => m.term = None}

TermWeight(t, a, i) == IF t \in {Bound, None} THEN 0 ELSE RefWeight(t, a, i)
HW(a, i) == [h \in Hook |-> RefWeight(h, a, i)]
MW(a, i) == [m \in Carried |-> MessageWeight(m, a, i)]

BagsOf(U) == UNION {[V -> Nat \ {0}] : V \in SUBSET U}
HookBags == {b \in BagsOf(Hook) : \A a \in Node, i \in Index : Finite(b, HW(a, i))}
Flights == {b \in BagsOf(Carried) : \A a \in Node, i \in Index : Finite(b, MW(a, i))}
FlightWeight(b, a, i) == Weight(b, MW(a, i))

Exrefs == {o \in [kind : {"exref"}, node : Node, index : Index, wec : Nat] : o.wec >= MIN_WEC}
Objects == {Free} \cup Exrefs \cup {Var(b) : b \in HookBags}
Entries == {Unused} \cup [wec : Nat \ {0}, data : Slot \cup {Bound}]

LEMMA BagsOfAre ==
  ASSUME NEW U, NEW b
  PROVE  b \in BagsOf(U) <=> IsABag(b) /\ BagToSet(b) \subseteq U
  BY DEF BagsOf, IsABag, BagToSet

LEMMA WeightTypes ==
  ASSUME NEW a \in Node, NEW i \in Index
  PROVE  /\ HW(a, i) \in [Hook -> Nat]
         /\ \A h \in Hook : HW(a, i)[h] = RefWeight(h, a, i) /\ RefWeight(h, a, i) \in Nat
         /\ \A r \in Given : RefWeight(r, a, i) \in Nat /\ TermWeight(r, a, i) = RefWeight(r, a, i)
         /\ MW(a, i) \in [Carried -> Nat]
         /\ \A m \in Carried : MW(a, i)[m] = MessageWeight(m, a, i) /\ MessageWeight(m, a, i) \in Nat
<1>1. \A r \in Reference : RefWeight(r, a, i) \in Nat
  BY DEF Reference, RefWeight
<1>2. \A h \in Hook : RefWeight(h, a, i) \in Nat
  BY DEF Hook, Hooked, RefWeight
<1>3. \A r \in Given : r \notin {Bound, None}
  BY TermAssumption DEF Given, Reference
<1>4. ASSUME NEW m \in Carried PROVE MessageWeight(m, a, i) \in Nat
  <2>1. m.wec \in Nat /\ m.term \in Reference \cup {Bound, None}
    BY DEF Carried, InMessage
  <2>2. RefWeight(RefTo(m.to, m.index, m.wec), a, i) \in Nat
    BY <2>1 DEF RefWeight, RefTo
  <2> QED BY <1>1, <2>1, <2>2 DEF MessageWeight
<1> QED BY <1>1, <1>2, <1>3, <1>4 DEF HW, MW, Given, TermWeight

LEMMA HooksWeigh ==
  ASSUME NEW b \in HookBags, NEW a \in Node, NEW i \in Index
  PROVE  /\ IsABag(b) /\ BagToSet(b) \subseteq Hook /\ Finite(b, HW(a, i))
         /\ HooksWeight(b, a, i) = Weight(b, HW(a, i))
         /\ HooksWeight(b, a, i) \in Nat
         /\ \A h \in BagToSet(b) : RefWeight(h, a, i) <= HooksWeight(b, a, i)
<1>1. IsABag(b) /\ BagToSet(b) \subseteq Hook /\ Finite(b, HW(a, i))
  BY BagsOfAre DEF HookBags
<1>2. /\ HW(a, i) \in [Hook -> Nat]
      /\ \A h \in Hook : HW(a, i)[h] = RefWeight(h, a, i)
  BY WeightTypes
<1>3. Weight(b, HW(a, i)) = Total([h \in BagToSet(b) |-> b[h] * HW(a, i)[h]])
  BY <1>1, <1>2, WeightOver
<1>4. [h \in BagToSet(b) |-> b[h] * HW(a, i)[h]]
        = [h \in BagToSet(b) |-> b[h] * RefWeight(h, a, i)]
  BY <1>1, <1>2
<1>5. HooksWeight(b, a, i) = Weight(b, HW(a, i))
  BY <1>3, <1>4 DEF HooksWeight
<1>6. /\ Weight(b, HW(a, i)) \in Nat
      /\ \A h \in BagToSet(b) \cap Hook : HW(a, i)[h] <= Weight(b, HW(a, i))
  BY <1>1, <1>2, WeightAtLeast
<1> QED BY <1>1, <1>2, <1>5, <1>6

LEMMA HooksNone ==
  /\ EmptyBag \in HookBags
  /\ \A a \in Node, i \in Index : HooksWeight(EmptyBag, a, i) = 0
<1>1. ASSUME NEW a \in Node, NEW i \in Index
      PROVE  Finite(EmptyBag, HW(a, i)) /\ Weight(EmptyBag, HW(a, i)) = 0
  BY WeightTypes, WeightNone
<1>2. EmptyBag \in HookBags
  BY <1>1, CopiesNone, BagsOfAre DEF HookBags
<1> QED BY <1>1, <1>2, HooksWeigh

LEMMA HooksOne ==
  ASSUME NEW h \in Hook
  PROVE  /\ One(h) \in HookBags
         /\ \A a \in Node, i \in Index : HooksWeight(One(h), a, i) = RefWeight(h, a, i)
<1>1. ASSUME NEW a \in Node, NEW i \in Index
      PROVE  Finite(One(h), HW(a, i)) /\ Weight(One(h), HW(a, i)) = RefWeight(h, a, i)
  BY WeightTypes, WeightOne
<1>2. One(h) \in HookBags
  BY <1>1, CopiesOne, BagsOfAre DEF HookBags
<1> QED BY <1>1, <1>2, HooksWeigh

LEMMA HooksAdd ==
  ASSUME NEW b \in HookBags, NEW c \in HookBags
  PROVE  /\ b (+) c \in HookBags
         /\ \A a \in Node, i \in Index :
              HooksWeight(b (+) c, a, i) = HooksWeight(b, a, i) + HooksWeight(c, a, i)
<1>0. IsABag(b) /\ BagToSet(b) \subseteq Hook /\ IsABag(c) /\ BagToSet(c) \subseteq Hook
  BY BagsOfAre DEF HookBags
<1>1. ASSUME NEW a \in Node, NEW i \in Index
      PROVE  /\ Finite(b (+) c, HW(a, i))
             /\ Weight(b (+) c, HW(a, i)) = Weight(b, HW(a, i)) + Weight(c, HW(a, i))
  <2>1. Finite(b, HW(a, i)) /\ Finite(c, HW(a, i)) /\ HW(a, i) \in [Hook -> Nat]
    BY HooksWeigh, WeightTypes
  <2>2. \A x : /\ Copies(x, b (+) c) = Copies(x, b) + Copies(x, c)
              /\ Copies(x, b) \in Nat /\ Copies(x, c) \in Nat
    BY <1>0, CopiesAdd
  <2> QED BY <2>1, <2>2, WeightSplit
<1>2. b (+) c \in HookBags
  <2>1. IsABag(b (+) c) /\ BagToSet(b (+) c) \subseteq Hook
    BY <1>0, CopiesAdd
  <2> QED BY <1>1, <2>1, BagsOfAre DEF HookBags
<1> QED BY <1>1, <1>2, HooksWeigh

LEMMA FlightsWeigh ==
  ASSUME NEW b \in Flights, NEW a \in Node, NEW i \in Index
  PROVE  /\ IsABag(b) /\ BagToSet(b) \subseteq Carried /\ Finite(b, MW(a, i))
         /\ FlightWeight(b, a, i) = Total([m \in BagToSet(b) |-> b[m] * MessageWeight(m, a, i)])
         /\ FlightWeight(b, a, i) \in Nat
         /\ \A m \in BagToSet(b) : MessageWeight(m, a, i) <= FlightWeight(b, a, i)
<1>1. IsABag(b) /\ BagToSet(b) \subseteq Carried /\ Finite(b, MW(a, i))
  BY BagsOfAre DEF Flights
<1>2. /\ MW(a, i) \in [Carried -> Nat]
      /\ \A m \in Carried : MW(a, i)[m] = MessageWeight(m, a, i)
  BY WeightTypes
<1>3. Weight(b, MW(a, i)) = Total([m \in BagToSet(b) |-> b[m] * MW(a, i)[m]])
  BY <1>1, <1>2, WeightOver
<1>4. [m \in BagToSet(b) |-> b[m] * MW(a, i)[m]]
        = [m \in BagToSet(b) |-> b[m] * MessageWeight(m, a, i)]
  BY <1>1, <1>2
<1>6. /\ Weight(b, MW(a, i)) \in Nat
      /\ \A m \in BagToSet(b) \cap Carried : MW(a, i)[m] <= Weight(b, MW(a, i))
  BY <1>1, <1>2, WeightAtLeast
<1> QED BY <1>1, <1>2, <1>3, <1>4, <1>6 DEF FlightWeight

LEMMA FlightsNone ==
  /\ EmptyBag \in Flights
  /\ \A a \in Node, i \in Index : FlightWeight(EmptyBag, a, i) = 0
<1>1. ASSUME NEW a \in Node, NEW i \in Index
      PROVE  Finite(EmptyBag, MW(a, i)) /\ Weight(EmptyBag, MW(a, i)) = 0
  BY WeightTypes, WeightNone
<1> QED BY <1>1, CopiesNone, BagsOfAre DEF Flights, FlightWeight

LEMMA FlightsOne ==
  ASSUME NEW m \in Carried
  PROVE  /\ One(m) \in Flights
         /\ \A a \in Node, i \in Index : FlightWeight(One(m), a, i) = MessageWeight(m, a, i)
<1>1. ASSUME NEW a \in Node, NEW i \in Index
      PROVE  Finite(One(m), MW(a, i)) /\ Weight(One(m), MW(a, i)) = MessageWeight(m, a, i)
  BY WeightTypes, WeightOne
<1> QED BY <1>1, CopiesOne, BagsOfAre DEF Flights, FlightWeight

LEMMA FlightsAdd ==
  ASSUME NEW b \in Flights, NEW c \in Flights
  PROVE  /\ b (+) c \in Flights
         /\ \A a \in Node, i \in Index :
              FlightWeight(b (+) c, a, i) = FlightWeight(b, a, i) + FlightWeight(c, a, i)
<1>0. IsABag(b) /\ BagToSet(b) \subseteq Carried /\ IsABag(c) /\ BagToSet(c) \subseteq Carried
  BY BagsOfAre DEF Flights
<1>1. ASSUME NEW a \in Node, NEW i \in Index
      PROVE  /\ Finite(b (+) c, MW(a, i))
             /\ Weight(b (+) c, MW(a, i)) = Weight(b, MW(a, i)) + Weight(c, MW(a, i))
  <2>1. Finite(b, MW(a, i)) /\ Finite(c, MW(a, i)) /\ MW(a, i) \in [Carried -> Nat]
    BY FlightsWeigh, WeightTypes
  <2>2. \A x : /\ Copies(x, b (+) c) = Copies(x, b) + Copies(x, c)
              /\ Copies(x, b) \in Nat /\ Copies(x, c) \in Nat
    BY <1>0, CopiesAdd
  <2> QED BY <2>1, <2>2, WeightSplit
<1>2. IsABag(b (+) c) /\ BagToSet(b (+) c) \subseteq Carried
  BY <1>0, CopiesAdd
<1> QED BY <1>1, <1>2, BagsOfAre DEF Flights, FlightWeight

LEMMA FlightsTake ==
  ASSUME NEW b \in Flights, NEW m \in BagToSet(b)
  PROVE  /\ b (-) One(m) \in Flights
         /\ \A a \in Node, i \in Index :
              FlightWeight(b, a, i) = FlightWeight(b (-) One(m), a, i) + MessageWeight(m, a, i)
<1>0. IsABag(b) /\ BagToSet(b) \subseteq Carried
  BY BagsOfAre DEF Flights
<1>1. ASSUME NEW a \in Node, NEW i \in Index
      PROVE  /\ Finite(b (-) One(m), MW(a, i))
             /\ Weight(b, MW(a, i)) = Weight(b (-) One(m), MW(a, i)) + MessageWeight(m, a, i)
  <2>1. Finite(b, MW(a, i)) /\ MW(a, i) \in [Carried -> Nat]
    BY FlightsWeigh, WeightTypes
  <2>2. \A x : /\ Copies(x, b) = Copies(x, b (-) One(m)) + Copies(x, One(m))
              /\ Copies(x, b (-) One(m)) \in Nat /\ Copies(x, One(m)) \in Nat
    BY <1>0, CopiesTake, CopiesOne
  <2>3. Finite(One(m), MW(a, i)) /\ Weight(One(m), MW(a, i)) = MessageWeight(m, a, i)
    BY <1>0, <2>1, WeightTypes, WeightOne
  <2>4. Finite(b (-) One(m), MW(a, i))
    BY <2>1, <2>2, WeightSplit
  <2>5. Weight(b, MW(a, i)) = Weight(b (-) One(m), MW(a, i)) + Weight(One(m), MW(a, i))
    BY <2>1, <2>2, <2>3, <2>4, WeightSplit
  <2> QED BY <2>3, <2>4, <2>5
<1>2. IsABag(b (-) One(m)) /\ BagToSet(b (-) One(m)) \subseteq Carried
  BY <1>0, CopiesTake
<1> QED BY <1>1, <1>2, BagsOfAre DEF Flights, FlightWeight

(* The messages that the hooks on a variable send have what the hooks had. *)
LEMMA HookSent ==
  ASSUME NEW h \in Hook, NEW answered
  PROVE  /\ HookMsg(h, answered) \in Carried
         /\ HookOf(HookMsg(h, answered)) = h
         /\ \A a \in Node, i \in Index :
              MessageWeight(HookMsg(h, answered), a, i) = RefWeight(h, a, i)
<1>1. /\ h = [node |-> h.node, index |-> h.index, wec |-> h.wec, ret |-> h.ret]
      /\ h.node \in Node /\ h.index \in Index /\ h.wec \in Nat /\ h.wec > 0
      /\ h.ret \in Index \cup {None}
  BY DEF Hook, Hooked
<1>2. ASSUME NEW m, \/ m = AnswerMsg(h) /\ h.ret = None
                    \/ m = UnifyMsg(h, Bound, h.ret)
                    \/ m = ReleaseMsg(h, h.ret)
      PROVE  /\ m \in Carried /\ HookOf(m) = h
             /\ \A a \in Node, i \in Index : MessageWeight(m, a, i) = RefWeight(h, a, i)
  <2>1. /\ m.to = h.node /\ m.index = h.index /\ m.wec = h.wec /\ m.from = h.ret
        /\ m.term \in {Bound, None}
    BY <1>2 DEF AnswerMsg, UnifyMsg, ReleaseMsg, Message
  <2>2. m \in Carried
    BY <1>1, <1>2 DEF Carried, InMessage, AnswerMsg, UnifyMsg, ReleaseMsg, Message
  <2>3. HookOf(m) = h
    BY <1>1, <2>1 DEF HookOf, ReadHook, RefTo
  <2>4. ASSUME NEW a \in Node, NEW i \in Index
        PROVE  MessageWeight(m, a, i) = RefWeight(h, a, i)
    BY <1>1, <2>1 DEF MessageWeight, RefWeight, RefTo
  <2> QED BY <2>2, <2>3, <2>4
<1>3. CASE h.ret = None
  BY <1>2, <1>3 DEF HookMsg
<1>4. CASE h.ret # None
  BY <1>2, <1>4 DEF HookMsg
<1> QED BY <1>3, <1>4

LEMMA HooksSent ==
  ASSUME NEW b \in HookBags, NEW answered
  PROVE  /\ HookMsgs(b, answered) \in Flights
         /\ \A a \in Node, i \in Index :
              FlightWeight(HookMsgs(b, answered), a, i) = HooksWeight(b, a, i)
<1> DEFINE t == [h \in Hook |-> HookMsg(h, answered)]
           c == HookMsgs(b, answered)
<1>1. IsABag(b) /\ BagToSet(b) \subseteq Hook
  BY BagsOfAre DEF HookBags
<1>2. t \in [Hook -> Carried] /\ \A h \in Hook : t[h] = HookMsg(h, answered) /\ HookOf(t[h]) = h
  BY HookSent
<1>3. /\ DOMAIN c = {t[h] : h \in BagToSet(b)}
      /\ \A h \in BagToSet(b) : c[t[h]] = b[h]
      /\ c = [m \in DOMAIN c |-> c[m]]
  BY <1>1, <1>2 DEF HookMsgs
<1> HIDE DEF c
<1>4. IsABag(c) /\ BagToSet(c) = {t[h] : h \in BagToSet(b)}
  <2>1. \A h \in BagToSet(b) : b[h] \in {n \in Nat : n > 0}
    BY <1>1 DEF IsABag, BagToSet
  <2>2. \A m \in DOMAIN c : c[m] \in {n \in Nat : n > 0}
    BY <1>3, <2>1
  <2> QED BY <1>3, <2>2 DEF IsABag, BagToSet
<1>5. \A x, y \in Hook : t[x] = t[y] => x = y
  BY <1>2, Zenon
<1>6. \A x \in Hook : Copies(t[x], c) = Copies(x, b)
  BY <1>1, <1>3, <1>4, <1>5 DEF Copies
<1>7. \A y \in Carried : (\A x \in Hook : t[x] # y) => Copies(y, c) = 0
  BY <1>1, <1>4 DEF Copies
<1>8. \A x : Copies(x, b) \in Nat /\ Copies(x, c) \in Nat
  BY <1>1, <1>4 DEF Copies, IsABag, BagToSet
<1>9. BagToSet(c) \subseteq Carried
  BY <1>1, <1>2, <1>4
<1>10. \A a \in Node, i \in Index, h \in Hook :
          MessageWeight(t[h], a, i) = RefWeight(h, a, i)
  BY <1>2, HookSent
<1> HIDE DEF t
<1>11. ASSUME NEW a \in Node, NEW i \in Index
       PROVE  Finite(c, MW(a, i)) /\ Weight(c, MW(a, i)) = Weight(b, HW(a, i))
  <2>1. HW(a, i) \in [Hook -> Nat] /\ MW(a, i) \in [Carried -> Nat] /\ Finite(b, HW(a, i))
    BY WeightTypes, HooksWeigh
  <2>2. \A x \in Hook : MW(a, i)[t[x]] = HW(a, i)[x] /\ Copies(t[x], c) = Copies(x, b)
    BY <1>2, <1>6, <1>10, WeightTypes
  <2> QED BY <1>2, <1>5, <1>7, <1>8, <2>1, <2>2, WeightImage
<1>12. c \in Flights
  BY <1>4, <1>9, <1>11, BagsOfAre DEF Flights
<1>13. ASSUME NEW a \in Node, NEW i \in Index
       PROVE  FlightWeight(c, a, i) = HooksWeight(b, a, i)
  BY <1>11, HooksWeigh DEF FlightWeight
<1> QED BY <1>12, <1>13 DEF c

-----------------------------------------------------------------------------
(* The memory a handler works on.  It is sound when it is well typed, the  *)
(* sums exist, and what goals and export entries refer to exists.  The     *)
(* surplus of an entry is what it has beyond all that refers to it.        *)
Memories ==
  [exp : [Node -> [Index -> Entries]], obj : [Node -> [Slot -> Objects]],
   held : [Node -> SUBSET Slot], net : Flights]
Placed(S, a, i) == [p \in Places |-> ObjWeight(S.obj[p[1]][p[2]], a, i)]
Shaped(S) ==
  /\ S \in Memories
  /\ \A a \in Node, i \in Index : IsFiniteSet(Grains(Placed(S, a, i)))
Live(S, n, t) == t = Bound \/ (t \in Slot /\ S.obj[n][t] # Free)
Rooted(S) ==
  \A n \in Node : /\ \A s \in S.held[n] : S.obj[n][s] # Free
                  /\ \A i \in Index : S.exp[n][i] # Unused => Live(S, n, S.exp[n][i].data)
Sound(S) == Shaped(S) /\ Rooted(S)
Surplus(S, a, i) ==
  S.exp[a][i].wec - Total(Placed(S, a, i)) - FlightWeight(S.net, a, i)

LEMMA ObjectKinds ==
  ASSUME NEW o \in Objects
  PROVE  /\ o = Free \/ o \in Exrefs \/ (o = Var(o.hooks) /\ o.hooks \in HookBags)
         /\ o # Free /\ IsExref(o) => o \in Exrefs
         /\ o # Free /\ ~IsExref(o) => IsVar(o) /\ o = Var(o.hooks) /\ o.hooks \in HookBags
         /\ o # Free /\ IsVar(o) => ~IsExref(o)
         /\ IsExref(o) \/ IsVar(o) => o # Free
  BY DEF Objects, Exrefs, Free, Var, IsVar, IsExref

LEMMA ObjectWeighs ==
  ASSUME NEW a \in Node, NEW i \in Index
  PROVE  /\ \A o \in Objects : ObjWeight(o, a, i) \in Nat
         /\ ObjWeight(Free, a, i) = 0
         /\ \A o \in Exrefs : ObjWeight(o, a, i) = RefWeight(o, a, i)
         /\ \A b \in HookBags : ObjWeight(Var(b), a, i) = HooksWeight(b, a, i)
<1>1. ObjWeight(Free, a, i) = 0
  BY DEF ObjWeight, IsExref, IsVar, Free
<1>2. \A o \in Exrefs : ObjWeight(o, a, i) = RefWeight(o, a, i) /\ RefWeight(o, a, i) \in Nat
  BY DEF ObjWeight, IsExref, Exrefs, RefWeight
<1>3. ASSUME NEW b \in HookBags
      PROVE  ObjWeight(Var(b), a, i) = HooksWeight(b, a, i) /\ HooksWeight(b, a, i) \in Nat
  BY HooksWeigh DEF ObjWeight, IsExref, IsVar, Var
<1> QED BY <1>1, <1>2, <1>3 DEF Objects

LEMMA SurplusType ==
  ASSUME NEW S, Shaped(S), NEW a \in Node, NEW i \in Index
  PROVE  /\ Placed(S, a, i) \in [Places -> Nat] /\ Total(Placed(S, a, i)) \in Nat
         /\ FlightWeight(S.net, a, i) \in Nat
         /\ S.exp[a][i].wec \in Nat /\ Surplus(S, a, i) \in Int
         /\ Surplus(S, a, i) <= S.exp[a][i].wec
<1>1. /\ S.obj \in [Node -> [Slot -> Objects]] /\ S.net \in Flights
      /\ S.exp[a][i] \in Entries
  BY DEF Shaped, Memories
<1>2. Placed(S, a, i) \in [Places -> Nat]
  BY <1>1, ObjectWeighs DEF Placed, Places
<1>3. Total(Placed(S, a, i)) \in Nat
  BY <1>2, TotalAtLeast DEF Shaped
<1>4. FlightWeight(S.net, a, i) \in Nat
  BY <1>1, FlightsWeigh
<1>5. S.exp[a][i].wec \in Nat
  BY <1>1 DEF Entries, Unused
<1> QED BY <1>2, <1>3, <1>4, <1>5 DEF Surplus

(* An object is put in a slot.                                             *)
Put(S, n, s, o) == [S EXCEPT !.obj[n][s] = o]
HasPut(S, T, n, s, o) ==
  /\ Shaped(T)
  /\ T.exp = S.exp /\ T.held = S.held /\ T.net = S.net
  /\ T.obj = [S.obj EXCEPT ![n][s] = o]
  /\ \A m \in Node, x \in Slot :
       T.obj[m][x] = IF m = n /\ x = s THEN o ELSE S.obj[m][x]
  /\ \A a \in Node, i \in Index :
       Surplus(T, a, i)
         = Surplus(S, a, i) + ObjWeight(S.obj[n][s], a, i) - ObjWeight(o, a, i)

LEMMA PutObject ==
  ASSUME NEW S, Shaped(S), NEW n \in Node, NEW s \in Slot, NEW o \in Objects
  PROVE  HasPut(S, Put(S, n, s, o), n, s, o)
<1> DEFINE T == Put(S, n, s, o)
<1>0. T = [S EXCEPT !.obj[n][s] = o]
  BY DEF Put
<1> HIDE DEF T
<1>1. S \in Memories
  BY DEF Shaped
<1>2. /\ T.exp = S.exp /\ T.held = S.held /\ T.net = S.net
      /\ T.obj = [S.obj EXCEPT ![n][s] = o]
  BY <1>0, <1>1 DEF Memories
<1>3. \A m \in Node, x \in Slot :
        T.obj[m][x] = IF m = n /\ x = s THEN o ELSE S.obj[m][x]
  BY <1>1, <1>2 DEF Memories
<1>4. T \in Memories
  <2>1. S.obj \in [Node -> [Slot -> Objects]]
    BY <1>1 DEF Memories
  <2>2. T.obj \in [Node -> [Slot -> Objects]]
    BY <1>2, <2>1
  <2> QED BY <1>0, <1>1, <1>2, <2>2 DEF Memories
<1>5. ASSUME NEW a \in Node, NEW i \in Index
      PROVE  /\ IsFiniteSet(Grains(Placed(T, a, i)))
             /\ Surplus(T, a, i)
                  = Surplus(S, a, i) + ObjWeight(S.obj[n][s], a, i) - ObjWeight(o, a, i)
  <2> DEFINE f == Placed(S, a, i)  g == Placed(T, a, i)
             v == ObjWeight(S.obj[n][s], a, i)  w == ObjWeight(o, a, i)
  <2>1. f \in [Places -> Nat] /\ IsFiniteSet(Grains(f))
    BY SurplusType DEF Shaped
  <2>2. T.obj \in [Node -> [Slot -> Objects]]
    BY <1>4 DEF Memories
  <2>3. g \in [Places -> Nat]
    BY <2>2, ObjectWeighs DEF Placed, Places
  <2>4. <<n, s>> \in Places /\ f[<<n, s>>] = v /\ g[<<n, s>>] = w
    BY <1>3 DEF Placed, Places
  <2>5. \A p \in Places : p # <<n, s>> => g[p] = f[p]
    BY <1>3 DEF Placed, Places
  <2>6. v \in Nat /\ w \in Nat
    BY <2>1, <2>3, <2>4
  <2> HIDE DEF f, g, v, w
  <2>7. /\ IsFiniteSet(Grains(g)) /\ Total(g) = Total(f) - v + w
        /\ Total(f) \in Nat
    BY <2>1, <2>3, <2>4, <2>5, TotalChange
  <2>8. /\ Surplus(S, a, i) = S.exp[a][i].wec - Total(f) - FlightWeight(S.net, a, i)
        /\ Surplus(T, a, i) = S.exp[a][i].wec - Total(g) - FlightWeight(S.net, a, i)
        /\ S.exp[a][i].wec \in Nat /\ FlightWeight(S.net, a, i) \in Nat
    BY <1>2, SurplusType DEF Surplus, f, g
  <2>9. Surplus(T, a, i) = Surplus(S, a, i) + v - w
    BY <2>6, <2>7, <2>8
  <2> QED BY <2>7, <2>9 DEF g, v, w
<1> QED BY <1>2, <1>3, <1>4, <1>5 DEF T, HasPut, Shaped

(* Tables or held slots are changed, objects and messages are not.         *)
LEMMA SamePlaces ==
  ASSUME NEW S, Shaped(S), NEW T \in Memories, T.obj = S.obj, T.net = S.net
  PROVE  /\ Shaped(T)
         /\ \A a \in Node, i \in Index :
              Surplus(T, a, i) = Surplus(S, a, i) + T.exp[a][i].wec - S.exp[a][i].wec
<1>1. ASSUME NEW a \in Node, NEW i \in Index PROVE Placed(T, a, i) = Placed(S, a, i)
  BY DEF Placed
<1>2. Shaped(T)
  BY <1>1 DEF Shaped
<1>3. ASSUME NEW a \in Node, NEW i \in Index
      PROVE  Surplus(T, a, i) = Surplus(S, a, i) + T.exp[a][i].wec - S.exp[a][i].wec
  <2>1. /\ Total(Placed(S, a, i)) \in Nat /\ FlightWeight(S.net, a, i) \in Nat
        /\ S.exp[a][i].wec \in Nat /\ T.exp[a][i].wec \in Nat
    BY <1>2, SurplusType
  <2> QED BY <1>1, <2>1 DEF Surplus
<1> QED BY <1>2, <1>3

LEMMA SameRoots ==
  ASSUME NEW S, Rooted(S), NEW T, T.exp = S.exp, T.obj = S.obj, T.held = S.held
  PROVE  Rooted(T)
  BY DEF Rooted, Live

(* Messages are sent.                                                      *)
LEMMA PostMany ==
  ASSUME NEW S, Shaped(S), NEW b \in Flights
  PROVE  /\ Shaped(Post(S, b)) /\ (Rooted(S) => Rooted(Post(S, b)))
         /\ Post(S, b).exp = S.exp /\ Post(S, b).obj = S.obj /\ Post(S, b).held = S.held
         /\ \A a \in Node, i \in Index :
              Surplus(Post(S, b), a, i) = Surplus(S, a, i) - FlightWeight(b, a, i)
<1> DEFINE T == Post(S, b)
<1>1. S \in Memories /\ S.net \in Flights
  BY DEF Shaped, Memories
<1>2. /\ S.net (+) b \in Flights
      /\ \A a \in Node, i \in Index :
           FlightWeight(S.net (+) b, a, i) = FlightWeight(S.net, a, i) + FlightWeight(b, a, i)
  BY <1>1, FlightsAdd
<1>3. /\ T \in Memories /\ T.net = S.net (+) b
      /\ T.exp = S.exp /\ T.obj = S.obj /\ T.held = S.held
  BY <1>1, <1>2 DEF Post, Memories
<1> HIDE DEF T
<1>4. ASSUME NEW a \in Node, NEW i \in Index PROVE Placed(T, a, i) = Placed(S, a, i)
  BY <1>3 DEF Placed
<1>5. Shaped(T)
  BY <1>3, <1>4 DEF Shaped
<1>6. ASSUME NEW a \in Node, NEW i \in Index
      PROVE  Surplus(T, a, i) = Surplus(S, a, i) - FlightWeight(b, a, i)
  <2>1. /\ Total(Placed(S, a, i)) \in Nat /\ FlightWeight(S.net, a, i) \in Nat
        /\ S.exp[a][i].wec \in Nat /\ FlightWeight(b, a, i) \in Nat
    BY SurplusType, FlightsWeigh
  <2> QED BY <1>2, <1>3, <1>4, <2>1 DEF Surplus
<1>7. Rooted(S) => Rooted(T)
  BY <1>3, SameRoots
<1> QED BY <1>3, <1>5, <1>6, <1>7 DEF T

LEMMA PostOne ==
  ASSUME NEW S, Shaped(S), NEW m \in Carried
  PROVE  LET T == Post(S, One(m))
         IN  /\ Shaped(T) /\ (Rooted(S) => Rooted(T))
             /\ T.exp = S.exp /\ T.obj = S.obj /\ T.held = S.held
             /\ \A a \in Node, i \in Index :
                  Surplus(T, a, i) = Surplus(S, a, i) - MessageWeight(m, a, i)
<1>1. /\ One(m) \in Flights
      /\ \A a \in Node, i \in Index : FlightWeight(One(m), a, i) = MessageWeight(m, a, i)
  BY FlightsOne
<1> QED BY <1>1, PostMany

(* A message is received: what it carries is in nobody's hands yet.        *)
LEMMA ReceiveOne ==
  ASSUME NEW S, Sound(S), NEW m \in BagToSet(S.net)
  PROVE  LET T == Receive(S, m)
         IN  /\ m \in Carried /\ Sound(T)
             /\ T.exp = S.exp /\ T.obj = S.obj /\ T.held = S.held
             /\ \A a \in Node, i \in Index :
                  Surplus(T, a, i) = Surplus(S, a, i) + MessageWeight(m, a, i)
<1> DEFINE T == Receive(S, m)
<1>1. S \in Memories /\ S.net \in Flights /\ Shaped(S) /\ Rooted(S)
  BY DEF Sound, Shaped, Memories
<1>2. /\ m \in Carried
      /\ S.net (-) One(m) \in Flights
      /\ \A a \in Node, i \in Index :
           FlightWeight(S.net, a, i)
             = FlightWeight(S.net (-) One(m), a, i) + MessageWeight(m, a, i)
  BY <1>1, FlightsTake, BagsOfAre DEF Flights
<1>3. /\ T \in Memories /\ T.net = S.net (-) One(m)
      /\ T.exp = S.exp /\ T.obj = S.obj /\ T.held = S.held
  BY <1>1, <1>2 DEF Receive, Memories
<1> HIDE DEF T
<1>4. ASSUME NEW a \in Node, NEW i \in Index PROVE Placed(T, a, i) = Placed(S, a, i)
  BY <1>3 DEF Placed
<1>5. Shaped(T)
  BY <1>1, <1>3, <1>4 DEF Shaped
<1>6. ASSUME NEW a \in Node, NEW i \in Index
      PROVE  Surplus(T, a, i) = Surplus(S, a, i) + MessageWeight(m, a, i)
  <2>1. /\ Total(Placed(S, a, i)) \in Nat /\ S.exp[a][i].wec \in Nat
        /\ FlightWeight(S.net (-) One(m), a, i) \in Nat /\ MessageWeight(m, a, i) \in Nat
    BY <1>1, <1>2, SurplusType, FlightsWeigh, WeightTypes
  <2> QED BY <1>2, <1>3, <1>4, <2>1 DEF Surplus
<1>7. Sound(T)
  BY <1>1, <1>3, <1>5, SameRoots DEF Sound
<1> QED BY <1>2, <1>3, <1>6, <1>7 DEF T

(* Weight that comes home is given back to the entry, which has it.        *)
LEMMA SearchGivesBack ==
  ASSUME NEW S, Sound(S), NEW n \in Node, NEW i \in Index, NEW w \in Nat \ {0},
         w <= S.exp[n][i].wec
  PROVE  LET T == Search(S, n, i, w)
         IN  /\ Sound(T)
             /\ T.obj = S.obj /\ T.held = S.held /\ T.net = S.net
             /\ S.exp[n][i] # Unused /\ Live(S, n, S.exp[n][i].data)
             /\ \A a \in Node, j \in Index :
                  Surplus(T, a, j) = Surplus(S, a, j) - RefWeight(RefTo(n, i, w), a, j)
<1> DEFINE T == Search(S, n, i, w)
           e == S.exp[n][i]
           f == IF e.wec = w THEN Unused ELSE [e EXCEPT !.wec = e.wec - w]
<1>1. S \in Memories /\ S.exp \in [Node -> [Index -> Entries]] /\ Shaped(S) /\ Rooted(S)
  BY DEF Sound, Shaped, Memories
<1>2. e # Unused /\ e \in [wec : Nat \ {0}, data : Slot \cup {Bound}]
  BY <1>1 DEF Entries, Unused
<1>3. /\ f \in Entries /\ f.wec = e.wec - w /\ e.wec \in Nat
      /\ f # Unused => f.data = e.data
  BY <1>2 DEF Entries, Unused
<1>4. T = [S EXCEPT !.exp = [S.exp EXCEPT ![n] = [S.exp[n] EXCEPT ![i] = f]]]
  BY <1>1 DEF Search, Memories
<1> HIDE DEF T, f
<1>5. /\ T \in Memories /\ T.exp = [S.exp EXCEPT ![n] = [S.exp[n] EXCEPT ![i] = f]]
      /\ T.obj = S.obj /\ T.held = S.held /\ T.net = S.net
  <2>1. [S.exp EXCEPT ![n] = [S.exp[n] EXCEPT ![i] = f]] \in [Node -> [Index -> Entries]]
    BY <1>1, <1>3
  <2> QED BY <1>1, <1>4, <2>1 DEF Memories
<1>6. \A a \in Node, j \in Index : T.exp[a][j] = IF a = n /\ j = i THEN f ELSE S.exp[a][j]
  BY <1>1, <1>5
<1>7. Live(S, n, e.data)
  BY <1>1, <1>2 DEF Rooted
<1>8. Rooted(T)
  <2> SUFFICES ASSUME NEW a \in Node
               PROVE  /\ \A s \in T.held[a] : T.obj[a][s] # Free
                      /\ \A j \in Index : T.exp[a][j] # Unused => Live(T, a, T.exp[a][j].data)
    BY DEF Rooted
  <2>1. \A s \in T.held[a] : T.obj[a][s] # Free
    BY <1>1, <1>5 DEF Rooted
  <2>2. ASSUME NEW j \in Index, T.exp[a][j] # Unused PROVE Live(S, a, T.exp[a][j].data)
    <3>1. CASE a = n /\ j = i
      BY <1>3, <1>6, <1>7, <2>2, <3>1
    <3>2. CASE ~(a = n /\ j = i)
      BY <1>1, <1>6, <2>2, <3>2 DEF Rooted
    <3> QED BY <3>1, <3>2
  <2> QED BY <1>5, <2>1, <2>2 DEF Live
<1>9. ASSUME NEW a \in Node, NEW j \in Index
      PROVE  Surplus(T, a, j) = Surplus(S, a, j) - RefWeight(RefTo(n, i, w), a, j)
  <2>1. Surplus(T, a, j) = Surplus(S, a, j) + T.exp[a][j].wec - S.exp[a][j].wec
    BY <1>1, <1>5, SamePlaces
  <2>2. Surplus(S, a, j) \in Int /\ S.exp[a][j].wec \in Nat
    BY <1>1, SurplusType
  <2> QED BY <1>3, <1>6, <2>1, <2>2 DEF RefWeight, RefTo
<1>10. Sound(T)
  BY <1>1, <1>5, <1>8, SamePlaces DEF Sound
<1> QED BY <1>2, <1>5, <1>7, <1>9, <1>10 DEF T

(* What is exported has an entry, with the weight of the reference to it.  *)
LEMMA RegisteredGives ==
  ASSUME NEW S, Sound(S), NEW n \in Node, NEW s \in Slot, S.obj[n][s] # Free,
         NEW e \in Registered(S, n, s)
  PROVE  /\ Sound(e.mem) /\ e.mem.obj = S.obj /\ e.mem.held = S.held /\ e.mem.net = S.net
         /\ e.ref \in Given /\ e.ref.node = n /\ e.ref.wec = EXPORT_UNIT_WEC
         /\ \A a \in Node, j \in Index :
              Surplus(e.mem, a, j) = Surplus(S, a, j) + RefWeight(e.ref, a, j)
<1>1. S \in Memories /\ S.exp \in [Node -> [Index -> Entries]] /\ Shaped(S) /\ Rooted(S)
  BY DEF Sound, Shaped, Memories
<1>2. PICK i \in Index :
        /\ S.exp[n][i] = Unused
        /\ e = [mem |-> [S EXCEPT !.exp[n][i] = Entry(s)], ref |-> RefTo(n, i, EXPORT_UNIT_WEC)]
  BY DEF Registered
<1> DEFINE T == e.mem
<1>3. T = [S EXCEPT !.exp = [S.exp EXCEPT ![n] = [S.exp[n] EXCEPT ![i] = Entry(s)]]]
  BY <1>1, <1>2 DEF Memories
<1>4. e.ref = RefTo(n, i, EXPORT_UNIT_WEC)
  BY <1>2
<1> HIDE DEF T
<1>5. /\ e.ref \in Given /\ e.ref.node = n /\ e.ref.wec = EXPORT_UNIT_WEC
      /\ EXPORT_UNIT_WEC \in Nat \ {0}
  BY <1>4, WecAssumption DEF RefTo, Given, Reference
<1>6. Entry(s) \in Entries /\ Entry(s).wec = EXPORT_UNIT_WEC /\ Entry(s).data = s
  BY <1>5 DEF Entry, Entries
<1>7. /\ T \in Memories /\ T.exp = [S.exp EXCEPT ![n] = [S.exp[n] EXCEPT ![i] = Entry(s)]]
      /\ T.obj = S.obj /\ T.held = S.held /\ T.net = S.net
  <2>1. [S.exp EXCEPT ![n] = [S.exp[n] EXCEPT ![i] = Entry(s)]] \in [Node -> [Index -> Entries]]
    BY <1>1, <1>6
  <2> QED BY <1>1, <1>3, <2>1 DEF Memories
<1>8. \A a \in Node, j \in Index :
        T.exp[a][j] = IF a = n /\ j = i THEN Entry(s) ELSE S.exp[a][j]
  BY <1>1, <1>7
<1>9. Rooted(T)
  <2> SUFFICES ASSUME NEW a \in Node
               PROVE  /\ \A x \in T.held[a] : T.obj[a][x] # Free
                      /\ \A j \in Index : T.exp[a][j] # Unused => Live(T, a, T.exp[a][j].data)
    BY DEF Rooted
  <2>1. \A x \in T.held[a] : T.obj[a][x] # Free
    BY <1>1, <1>7 DEF Rooted
  <2>2. ASSUME NEW j \in Index, T.exp[a][j] # Unused PROVE Live(S, a, T.exp[a][j].data)
    <3>1. CASE a = n /\ j = i
      BY <1>6, <1>8, <3>1 DEF Live
    <3>2. CASE ~(a = n /\ j = i)
      BY <1>1, <1>8, <2>2, <3>2 DEF Rooted
    <3> QED BY <3>1, <3>2
  <2> QED BY <1>7, <2>1, <2>2 DEF Live
<1>10. ASSUME NEW a \in Node, NEW j \in Index
       PROVE  Surplus(T, a, j) = Surplus(S, a, j) + RefWeight(e.ref, a, j)
  <2>1. Surplus(T, a, j) = Surplus(S, a, j) + T.exp[a][j].wec - S.exp[a][j].wec
    BY <1>1, <1>7, SamePlaces
  <2>2. Surplus(S, a, j) \in Int /\ S.exp[a][j].wec \in Nat
    BY <1>1, SurplusType
  <2>3. Unused.wec = 0
    BY DEF Unused
  <2> QED BY <1>2, <1>4, <1>5, <1>6, <1>8, <2>1, <2>2, <2>3 DEF RefWeight, RefTo
<1>11. Sound(T)
  BY <1>1, <1>7, <1>9, SamePlaces DEF Sound
<1> QED BY <1>5, <1>7, <1>10, <1>11 DEF T

(* A slot is bound: the weight of what was in it is left over.             *)
LEMMA RedirectLeaves ==
  ASSUME NEW S, Sound(S), NEW n \in Node, NEW x \in Slot, NEW t, t # x, Live(S, n, t)
  PROVE  LET T == Redirect(S, n, x, t)
         IN  /\ Sound(T)
             /\ \A a \in Node, i \in Index :
                  Surplus(T, a, i) = Surplus(S, a, i) + ObjWeight(S.obj[n][x], a, i)
<1> DEFINE T == Redirect(S, n, x, t)
           U == Put(S, n, x, Free)
           E == [i \in Index |-> IF S.exp[n][i].data = x THEN [S.exp[n][i] EXCEPT !.data = t]
                                 ELSE S.exp[n][i]]
           H == IF x \in S.held[n] THEN (S.held[n] \ {x}) \cup ({t} \cap Slot) ELSE S.held[n]
<1>1. /\ S \in Memories /\ S.exp \in [Node -> [Index -> Entries]] /\ Shaped(S) /\ Rooted(S)
      /\ S.held \in [Node -> SUBSET Slot]
  BY DEF Sound, Shaped, Memories
<1>2. T = [S EXCEPT !.obj[n][x] = Free, !.exp = [S.exp EXCEPT ![n] = E],
                    !.held = [S.held EXCEPT ![n] = H]]
  BY <1>1 DEF Redirect, Memories
<1>3. t \in Slot \cup {Bound}
  BY DEF Live
<1>4. \A i \in Index : /\ E[i] \in Entries /\ E[i].wec = S.exp[n][i].wec
                       /\ E[i] # Unused => S.exp[n][i] # Unused
                       /\ E[i] # Unused =>
                            E[i].data = IF S.exp[n][i].data = x THEN t ELSE S.exp[n][i].data
  <2> TAKE i \in Index
  <2>1. S.exp[n][i] = Unused \/ S.exp[n][i] \in [wec : Nat \ {0}, data : Slot \cup {Bound}]
    BY <1>1 DEF Entries
  <2>2. CASE S.exp[n][i] = Unused
    BY <2>2, TermAssumption DEF Unused, Entries
  <2>3. CASE S.exp[n][i] \in [wec : Nat \ {0}, data : Slot \cup {Bound}]
    BY <1>3, <2>3, TermAssumption DEF Unused, Entries
  <2> QED BY <2>1, <2>2, <2>3
<1>5. E \in [Index -> Entries] /\ H \subseteq Slot
  BY <1>1, <1>4
<1> HIDE DEF T, U, E
<1>6. Free \in Objects
  BY DEF Objects
<1>6a. HasPut(S, U, n, x, Free)
  BY <1>1, <1>6, PutObject DEF U
<1>7. /\ Shaped(U) /\ U.net = S.net /\ U.exp = S.exp
      /\ U.obj = [S.obj EXCEPT ![n][x] = Free]
      /\ \A m \in Node, y \in Slot :
           U.obj[m][y] = IF m = n /\ y = x THEN Free ELSE S.obj[m][y]
      /\ \A a \in Node, i \in Index :
           Surplus(U, a, i)
             = Surplus(S, a, i) + ObjWeight(S.obj[n][x], a, i) - ObjWeight(Free, a, i)
  BY <1>6a DEF HasPut
<1>8. /\ T \in Memories /\ T.obj = U.obj /\ T.net = U.net
      /\ T.exp = [S.exp EXCEPT ![n] = E] /\ T.held = [S.held EXCEPT ![n] = H]
  <2>1. /\ [S.exp EXCEPT ![n] = E] \in [Node -> [Index -> Entries]]
        /\ [S.held EXCEPT ![n] = H] \in [Node -> SUBSET Slot]
    BY <1>1, <1>5
  <2>2. U.obj \in [Node -> [Slot -> Objects]]
    BY <1>7 DEF Shaped, Memories
  <2> QED BY <1>1, <1>2, <1>7, <2>1, <2>2 DEF Memories
<1>9. \A a \in Node : T.exp[a] = (IF a = n THEN E ELSE S.exp[a])
                      /\ T.held[a] = (IF a = n THEN H ELSE S.held[a])
  BY <1>1, <1>8
<1>10. Rooted(T)
  <2> SUFFICES ASSUME NEW a \in Node
               PROVE  /\ \A s \in T.held[a] : T.obj[a][s] # Free
                      /\ \A j \in Index : T.exp[a][j] # Unused => Live(T, a, T.exp[a][j].data)
    BY DEF Rooted
  <2>1. CASE a # n
    BY <1>1, <1>7, <1>8, <1>9, <2>1 DEF Rooted, Live
  <2>2. CASE a = n
    <3>1. Live(T, n, t)
      BY <1>7, <1>8 DEF Live
    <3>2. ASSUME NEW s \in H PROVE T.obj[n][s] # Free
      <4>1. CASE s = t
        BY <1>5, <3>1, <4>1, TermAssumption DEF Live
      <4>2. CASE s # t
        <5>1. s # x /\ s \in S.held[n]
          BY <3>2, <4>2
        <5> QED BY <1>1, <1>5, <1>7, <1>8, <5>1 DEF Rooted
      <4> QED BY <4>1, <4>2
    <3>3. ASSUME NEW j \in Index, E[j] # Unused PROVE Live(T, n, E[j].data)
      <4>1. S.exp[n][j] # Unused /\ Live(S, n, S.exp[n][j].data)
        BY <1>1, <1>4, <3>3 DEF Rooted
      <4>2. CASE S.exp[n][j].data = x
        BY <1>4, <3>1, <3>3, <4>2
      <4>3. CASE S.exp[n][j].data # x
        BY <1>4, <1>7, <1>8, <3>3, <4>1, <4>3 DEF Live
      <4> QED BY <4>2, <4>3
    <3> QED BY <1>9, <2>2, <3>2, <3>3
  <2> QED BY <2>1, <2>2
<1>11. ASSUME NEW a \in Node, NEW i \in Index
       PROVE  Surplus(T, a, i) = Surplus(S, a, i) + ObjWeight(S.obj[n][x], a, i)
  <2>1. Surplus(T, a, i) = Surplus(U, a, i) + T.exp[a][i].wec - U.exp[a][i].wec
    <3>1. Shaped(U) /\ T \in Memories /\ T.obj = U.obj /\ T.net = U.net
      BY <1>7, <1>8
    <3> QED BY <3>1, SamePlaces
  <2>2. T.exp[a][i].wec = U.exp[a][i].wec /\ U.exp[a][i].wec \in Nat
    BY <1>4, <1>7, <1>9, SurplusType
  <2>3. /\ S.obj[n][x] \in Objects /\ Surplus(S, a, i) \in Int
    BY <1>1, SurplusType DEF Memories
  <2>4. ObjWeight(S.obj[n][x], a, i) \in Nat /\ ObjWeight(Free, a, i) = 0
    BY <2>3, ObjectWeighs
  <2>5. Surplus(U, a, i) = Surplus(S, a, i) + ObjWeight(S.obj[n][x], a, i)
    BY <1>7, <2>3, <2>4
  <2> QED BY <2>1, <2>2, <2>3, <2>4, <2>5
<1>12. Sound(T)
  BY <1>7, <1>8, <1>10, SamePlaces DEF Sound
<1> QED BY <1>11, <1>12 DEF T

LEMMA PutSound ==
  ASSUME NEW S, Sound(S), NEW T, NEW n, NEW s, NEW o, HasPut(S, T, n, s, o), o # Free
  PROVE  Sound(T)
<1> USE DEF HasPut, Sound
<1> SUFFICES ASSUME NEW a \in Node
             PROVE  /\ \A x \in T.held[a] : T.obj[a][x] # Free
                    /\ \A j \in Index : T.exp[a][j] # Unused => Live(T, a, T.exp[a][j].data)
  BY DEF Rooted
<1>1. ASSUME NEW x \in Slot, S.obj[a][x] # Free PROVE T.obj[a][x] # Free
  BY <1>1
<1>2. T.held[a] \subseteq Slot
  BY DEF Shaped, Memories
<1> QED BY <1>1, <1>2 DEF Rooted, Live

(* What encode_data() writes into a message it takes from an exref, or     *)
(* exports.                                                                *)
LEMMA EncodeGives ==
  ASSUME NEW S, Sound(S), NEW n \in Node, NEW s \in Slot, S.obj[n][s] # Free,
         NEW e \in Encode(S, n, s)
  PROVE  /\ Sound(e.mem) /\ e.ref \in Given /\ e.mem.obj[n][s] # Free
         /\ \A x \in Slot : x # s => e.mem.obj[n][x] = S.obj[n][x]
         /\ \A a \in Node, j \in Index :
              Surplus(e.mem, a, j) = Surplus(S, a, j) + RefWeight(e.ref, a, j)
<1> DEFINE o == S.obj[n][s]
           half == o.wec \div 2
           T == [S EXCEPT !.obj[n][s].wec = @ - (@ \div 2)]
           r == RefTo(o.node, o.index, half)
<1>1. /\ Shaped(S) /\ Rooted(S) /\ S \in Memories
      /\ S.obj \in [Node -> [Slot -> Objects]] /\ o \in Objects
  BY DEF Sound, Shaped, Memories
<1>2. CASE IsExref(o) /\ o.wec >= 2 * MIN_WEC
  <2> DEFINE p == [o EXCEPT !.wec = o.wec - half]
  <2>1. e = [mem |-> T, ref |-> r]
    BY <1>2 DEF Encode
  <2>2. o \in Exrefs
    BY <1>1, <1>2, ObjectKinds
  <2>3. /\ o.wec \in Nat /\ half \in Nat /\ half >= MIN_WEC
        /\ o.wec - half \in Nat /\ o.wec - half >= MIN_WEC
        /\ o.node \in Node /\ o.index \in Index
    BY <1>2, <2>2, WecAssumption DEF Exrefs
  <2>4. /\ p \in Exrefs /\ p.node = o.node /\ p.index = o.index /\ p.wec = o.wec - half
    BY <2>2, <2>3 DEF Exrefs
  <2>5. r \in Given /\ r.node = o.node /\ r.index = o.index /\ r.wec = half
    BY <2>3 DEF RefTo, Given, Reference
  <2>6. p \in Objects /\ p # Free
    BY <2>4 DEF Objects, Exrefs, Free
  <2>7. T = Put(S, n, s, p)
    BY <1>1 DEF Put, Memories
  <2>8. HasPut(S, T, n, s, p)
    BY <1>1, <2>6, <2>7, PutObject
  <2> HIDE DEF T, p
  <2>9. Sound(T)
    BY <2>6, <2>8, PutSound
  <2>10. ASSUME NEW a \in Node, NEW j \in Index
         PROVE  Surplus(T, a, j) = Surplus(S, a, j) + RefWeight(r, a, j)
    <3>1. /\ Surplus(T, a, j) = Surplus(S, a, j) + ObjWeight(o, a, j) - ObjWeight(p, a, j)
          /\ Surplus(S, a, j) \in Int
      BY <1>1, <2>8, SurplusType DEF HasPut
    <3>2. ObjWeight(o, a, j) = RefWeight(o, a, j) /\ ObjWeight(p, a, j) = RefWeight(p, a, j)
      BY <2>2, <2>4, ObjectWeighs
    <3> HIDE DEF r, half, o
    <3> QED BY <2>3, <2>4, <2>5, <3>1, <3>2 DEF RefWeight
  <2>11. T.obj[n][s] # Free /\ \A x \in Slot : x # s => T.obj[n][x] = S.obj[n][x]
    BY <2>6, <2>8 DEF HasPut
  <2>12. e.mem = T /\ e.ref = r
    BY <2>1
  <2> HIDE DEF r
  <2> QED BY <2>5, <2>9, <2>10, <2>11, <2>12
<1>3. CASE ~(IsExref(o) /\ o.wec >= 2 * MIN_WEC)
  <2>1. e \in Registered(S, n, s)
    BY <1>3 DEF Encode
  <2> QED BY <2>1, RegisteredGives
<1> QED BY <1>2, <1>3

(* What decode_exref() makes of a reference has the weight it had.         *)
LEMMA DecodeTakes ==
  ASSUME NEW S, Sound(S), NEW n \in Node, NEW t \in Given \cup {Bound},
         t # Bound /\ t.node = n => t.wec <= S.exp[n][t.index].wec,
         NEW d \in Decode(S, n, t)
  PROVE  /\ Sound(d.mem) /\ Live(d.mem, n, d.term)
         /\ \A a \in Node, j \in Index :
              Surplus(d.mem, a, j) = Surplus(S, a, j) - TermWeight(t, a, j)
<1>1. /\ Shaped(S) /\ Rooted(S) /\ S \in Memories
      /\ S.obj \in [Node -> [Slot -> Objects]]
  BY DEF Sound, Shaped, Memories
<1>2. CASE t = Bound
  <2>1. d.mem = S /\ d.term = Bound
    BY <1>2 DEF Decode
  <2>2. \A a \in Node, j \in Index : TermWeight(t, a, j) = 0 /\ Surplus(S, a, j) \in Int
    BY <1>1, <1>2, SurplusType DEF TermWeight
  <2> QED BY <2>1, <2>2 DEF Live
<1>3. ASSUME t # Bound
      PROVE  /\ t \in Given /\ t.node \in Node /\ t.index \in Index /\ t.wec \in Nat
             /\ t.wec >= MIN_WEC /\ t.wec > 0
             /\ \A a \in Node, j \in Index : TermWeight(t, a, j) = RefWeight(t, a, j)
  <2>1. t \in Given
    BY <1>3
  <2>2. t.node \in Node /\ t.index \in Index /\ t.wec \in Nat /\ t.wec >= MIN_WEC
    BY <2>1 DEF Given, Reference
  <2> QED BY <2>1, <2>2, WeightTypes, WecAssumption
<1>4. CASE t # Bound /\ t.node = n
  <2> DEFINE T == Search(S, n, t.index, t.wec)
  <2>1. d.mem = T /\ d.term = S.exp[n][t.index].data
    BY <1>4 DEF Decode
  <2> HIDE DEF T
  <2>2. /\ Sound(T) /\ T.obj = S.obj /\ Live(S, n, S.exp[n][t.index].data)
        /\ \A a \in Node, j \in Index :
             Surplus(T, a, j) = Surplus(S, a, j) - RefWeight(RefTo(n, t.index, t.wec), a, j)
    BY <1>3, <1>4, SearchGivesBack DEF T
  <2>3. \A a \in Node, j \in Index :
          RefWeight(RefTo(n, t.index, t.wec), a, j) = RefWeight(t, a, j)
    BY <1>4 DEF RefWeight, RefTo
  <2> QED BY <1>3, <1>4, <2>1, <2>2, <2>3 DEF Live
<1>5. CASE t # Bound /\ t.node # n
  <2>1. PICK s \in Slot : /\ S.obj[n][s] = Free
                          /\ d = [mem |-> [S EXCEPT !.obj[n][s] = Exref(t)], term |-> s]
    BY <1>5 DEF Decode
  <2>2. Exref(t) \in Exrefs /\ Exref(t) \in Objects /\ Exref(t) # Free
    BY <1>3, <1>5 DEF Exref, Exrefs, Objects, Free
  <2> DEFINE T == Put(S, n, s, Exref(t))
  <2>3. d.mem = T /\ d.term = s
    BY <2>1 DEF Put
  <2>4. HasPut(S, T, n, s, Exref(t))
    BY <1>1, <2>2, PutObject
  <2> HIDE DEF T
  <2>5. Sound(T)
    BY <2>2, <2>4, PutSound
  <2>6. ASSUME NEW a \in Node, NEW j \in Index
        PROVE  Surplus(T, a, j) = Surplus(S, a, j) - TermWeight(t, a, j)
    <3>1. Surplus(T, a, j)
            = Surplus(S, a, j) + ObjWeight(Free, a, j) - ObjWeight(Exref(t), a, j)
      BY <2>1, <2>4 DEF HasPut
    <3>2. /\ ObjWeight(Free, a, j) = 0 /\ Surplus(S, a, j) \in Int
          /\ ObjWeight(Exref(t), a, j) = RefWeight(Exref(t), a, j)
      BY <1>1, <2>2, ObjectWeighs, SurplusType
    <3>3. RefWeight(Exref(t), a, j) = RefWeight(t, a, j) /\ RefWeight(t, a, j) \in Nat
      BY <1>3, <1>5 DEF RefWeight, Exref
    <3> QED BY <1>3, <1>5, <3>1, <3>2, <3>3
  <2>7. Live(T, n, s)
    BY <2>2, <2>4 DEF Live, HasPut
  <2> QED BY <2>3, <2>5, <2>6, <2>7
<1> QED BY <1>2, <1>4, <1>5

-----------------------------------------------------------------------------
(* Binding, hooking and unification create and lose no weight.             *)
Kept(S, T) ==
  Sound(T) /\ \A a \in Node, i \in Index : Surplus(T, a, i) = Surplus(S, a, i)

LEMMA ReadMsgWeighs ==
  ASSUME NEW r, r.node \in Node, r.index \in Index, r.wec \in Nat,
         NEW back \in Given, back.wec = EXPORT_UNIT_WEC, NEW transc \in Nat
  PROVE  /\ ReadMsg(r, back, transc) \in Carried
         /\ \A a \in Node, i \in Index :
              MessageWeight(ReadMsg(r, back, transc), a, i)
                = RefWeight(RefTo(r.node, r.index, 1), a, i) + RefWeight(back, a, i)
<1> DEFINE m == ReadMsg(r, back, transc)
<1>1. /\ m.type = "read" /\ m.to = r.node /\ m.index = r.index /\ m.wec = 1
      /\ m.term = back
  BY DEF ReadMsg, Message, RefTo
<1>2. back \in Reference /\ back \notin {Bound, None}
  BY TermAssumption DEF Given, Reference
<1>3. m \in Carried
  BY <1>2 DEF ReadMsg, Message, RefTo, Carried, InMessage
<1> HIDE DEF m
<1>4. \A a \in Node, i \in Index :
        MessageWeight(m, a, i) = RefWeight(RefTo(r.node, r.index, 1), a, i) + RefWeight(back, a, i)
  BY <1>1, <1>2 DEF MessageWeight
<1> QED BY <1>3, <1>4 DEF m

LEMMA UnifyMsgWeighs ==
  ASSUME NEW r, r.node \in Node, r.index \in Index, r.wec \in Nat, r.wec > 0,
         NEW t \in Given \cup {Bound}
  PROVE  /\ UnifyMsg(r, t, None) \in Carried
         /\ \A a \in Node, i \in Index :
              MessageWeight(UnifyMsg(r, t, None), a, i)
                = RefWeight(r, a, i) + TermWeight(t, a, i)
<1> DEFINE m == UnifyMsg(r, t, None)
<1>1. /\ m.type = "unify" /\ m.to = r.node /\ m.index = r.index /\ m.wec = r.wec
      /\ m.term = t
  BY DEF UnifyMsg, Message
<1>2. m \in Carried
  BY DEF UnifyMsg, Message, Carried, InMessage, Given
<1> HIDE DEF m
<1>3. \A a \in Node, i \in Index :
        MessageWeight(m, a, i) = RefWeight(r, a, i) + TermWeight(t, a, i)
  BY <1>1 DEF MessageWeight, TermWeight, RefWeight, RefTo
<1> QED BY <1>2, <1>3 DEF m

LEMMA GenerateKeeps ==
  ASSUME NEW S, Sound(S), NEW n \in Node, NEW s \in Slot, IsExref(S.obj[n][s]),
         NEW G \in Generate(S, n, s)
  PROVE  /\ Kept(S, G) /\ IsVar(G.obj[n][s])
         /\ \A x \in Slot : x # s => G.obj[n][x] = S.obj[n][x]
<1> DEFINE o == S.obj[n][s]
<1>1. /\ Shaped(S) /\ Rooted(S) /\ S \in Memories
      /\ S.obj \in [Node -> [Slot -> Objects]] /\ o \in Objects
  BY DEF Sound, Shaped, Memories
<1>2. o # Free /\ o \in Exrefs
  BY <1>1, ObjectKinds
<1>3. /\ o.node \in Node /\ o.index \in Index /\ o.wec \in Nat /\ o.wec >= 2
      /\ o.wec - 1 \in Nat /\ o.wec - 1 > 0
  BY <1>2, WecAssumption DEF Exrefs
<1> DEFINE h(i) == ReadHook(RefTo(o.node, o.index, o.wec - 1), i)
<1>4. PICK e \in Registered(S, n, s) :
        G = Post([e.mem EXCEPT !.obj[n][s] = Var(One(h(e.ref.index)))],
                 One(ReadMsg(o, e.ref, TRANSFER_CNT)))
  BY DEF Generate
<1> DEFINE k == h(e.ref.index)
           v == Var(One(k))
           m == ReadMsg(o, e.ref, TRANSFER_CNT)
           U == Put(e.mem, n, s, v)
<1>5. /\ Sound(e.mem) /\ e.mem.obj = S.obj
      /\ e.ref \in Given /\ e.ref.index \in Index /\ e.ref.wec = EXPORT_UNIT_WEC
      /\ \A a \in Node, j \in Index :
           Surplus(e.mem, a, j) = Surplus(S, a, j) + RefWeight(e.ref, a, j)
  BY <1>2, RegisteredGives DEF Given, Reference
<1>6. /\ k \in Hook
      /\ \A a \in Node, j \in Index :
           RefWeight(k, a, j) = RefWeight(RefTo(o.node, o.index, o.wec - 1), a, j)
  BY <1>3, <1>5 DEF Hook, Hooked, ReadHook, RefTo, RefWeight
<1> HIDE DEF k, h
<1>7. One(k) \in HookBags /\ v \in Objects /\ v # Free /\ IsVar(v)
  BY <1>6, HooksOne DEF Objects, Var, Free, IsVar
<1>8. G = Post(U, One(m))
  BY <1>4 DEF Put, k
<1>9. HasPut(e.mem, U, n, s, v)
  BY <1>5, <1>7, PutObject DEF Sound
<1> HIDE DEF U
<1>10. Sound(U)
  BY <1>5, <1>7, <1>9, PutSound
<1>11. /\ m \in Carried
       /\ \A a \in Node, i \in Index :
            MessageWeight(m, a, i)
              = RefWeight(RefTo(o.node, o.index, 1), a, i) + RefWeight(e.ref, a, i)
  BY <1>3, <1>5, ReadMsgWeighs, WecAssumption
<1> HIDE DEF m
<1>12. /\ Sound(G) /\ G.exp = U.exp /\ G.obj = U.obj
       /\ \A a \in Node, i \in Index :
            Surplus(G, a, i) = Surplus(U, a, i) - MessageWeight(m, a, i)
  BY <1>8, <1>10, <1>11, PostOne DEF Sound
<1>13. ASSUME NEW a \in Node, NEW j \in Index PROVE Surplus(G, a, j) = Surplus(S, a, j)
  <2>1. ObjWeight(v, a, j) = RefWeight(RefTo(o.node, o.index, o.wec - 1), a, j)
    BY <1>6, <1>7, HooksOne, ObjectWeighs
  <2>2. ObjWeight(o, a, j) = RefWeight(o, a, j)
    BY <1>2, ObjectWeighs
  <2>3. Surplus(U, a, j) = Surplus(e.mem, a, j) + ObjWeight(o, a, j) - ObjWeight(v, a, j)
    BY <1>5, <1>9 DEF HasPut
  <2>4. Surplus(e.mem, a, j) = Surplus(S, a, j) + RefWeight(e.ref, a, j)
    BY <1>5
  <2>5. Surplus(S, a, j) \in Int /\ RefWeight(e.ref, a, j) \in Nat
    BY <1>1, <1>5, SurplusType, WeightTypes
  <2>6. RefWeight(o, a, j) = RefWeight(RefTo(o.node, o.index, 1), a, j)
                               + RefWeight(RefTo(o.node, o.index, o.wec - 1), a, j)
        /\ RefWeight(RefTo(o.node, o.index, 1), a, j) \in Nat
        /\ RefWeight(RefTo(o.node, o.index, o.wec - 1), a, j) \in Nat
    BY <1>3 DEF RefWeight, RefTo
  <2> QED BY <1>11, <1>12, <2>1, <2>2, <2>3, <2>4, <2>5, <2>6
<1>14. \A x \in Slot : G.obj[n][x] = IF x = s THEN v ELSE S.obj[n][x]
  BY <1>5, <1>9, <1>12 DEF HasPut
<1> QED BY <1>7, <1>12, <1>13, <1>14 DEF Kept

(* More hooks on a variable.                                               *)
LEMMA HooksPut ==
  ASSUME NEW S, Sound(S), NEW n \in Node, NEW s \in Slot, NEW b \in HookBags,
         IsVar(S.obj[n][s]), NEW T, T = [S EXCEPT !.obj[n][s].hooks = @ (+) b]
  PROVE  /\ Sound(T) /\ \A x \in Slot : x # s => T.obj[n][x] = S.obj[n][x]
         /\ \A a \in Node, i \in Index :
              Surplus(T, a, i) = Surplus(S, a, i) - HooksWeight(b, a, i)
<1> DEFINE o == S.obj[n][s]
           c == o.hooks
           v == Var(c (+) b)
<1>1. /\ Shaped(S) /\ Rooted(S) /\ S \in Memories
      /\ S.obj \in [Node -> [Slot -> Objects]] /\ o \in Objects
  BY DEF Sound, Shaped, Memories
<1>2. c \in HookBags /\ o = Var(c)
  BY <1>1, ObjectKinds
<1>3. [o EXCEPT !.hooks = c (+) b] = v
  BY <1>2 DEF Var
<1>4. T = [S EXCEPT !.obj[n][s] = [o EXCEPT !.hooks = c (+) b]]
  OBVIOUS
<1>5. T = Put(S, n, s, v)
  BY <1>3, <1>4 DEF Put
<1> HIDE DEF c
<1>6. /\ v \in Objects /\ v # Free
      /\ \A a \in Node, i \in Index :
           HooksWeight(c (+) b, a, i) = HooksWeight(c, a, i) + HooksWeight(b, a, i)
      /\ c (+) b \in HookBags
  BY <1>2, HooksAdd DEF Objects, Var, Free
<1> HIDE DEF v
<1>7. HasPut(S, T, n, s, v)
  <2>1. Shaped(S) /\ v \in Objects
    BY <1>1, <1>6
  <2>2. HasPut(S, Put(S, n, s, v), n, s, v)
    BY <2>1, PutObject
  <2> QED BY <1>5, <2>2, Zenon
<1>8. Sound(T)
  BY <1>6, <1>7, PutSound
<1>9. ASSUME NEW a \in Node, NEW i \in Index
      PROVE  Surplus(T, a, i) = Surplus(S, a, i) - HooksWeight(b, a, i)
  <2>1. ObjWeight(v, a, i) = HooksWeight(c, a, i) + HooksWeight(b, a, i)
    BY <1>6, ObjectWeighs DEF v
  <2>2. ObjWeight(o, a, i) = HooksWeight(c, a, i)
    BY <1>2, ObjectWeighs, Zenon
  <2>3. Surplus(T, a, i) = Surplus(S, a, i) + ObjWeight(o, a, i) - ObjWeight(v, a, i)
    BY <1>7 DEF HasPut
  <2>4. /\ HooksWeight(c, a, i) \in Nat /\ HooksWeight(b, a, i) \in Nat
        /\ Surplus(S, a, i) \in Int
    BY <1>1, <1>2, HooksWeigh, SurplusType
  <2> QED BY <2>1, <2>2, <2>3, <2>4
<1>10. \A x \in Slot : x # s => T.obj[n][x] = S.obj[n][x]
  BY <1>7 DEF HasPut
<1> QED BY <1>8, <1>9, <1>10

LEMMA AddReplyTakes ==
  ASSUME NEW S, Sound(S), NEW n \in Node, NEW s \in Slot, IsVar(S.obj[n][s]),
         NEW back \in Given
  PROVE  LET T == AddReply(S, n, s, back)
         IN  /\ Sound(T)
             /\ \A a \in Node, i \in Index :
                  Surplus(T, a, i) = Surplus(S, a, i) - RefWeight(back, a, i)
<1> DEFINE T == AddReply(S, n, s, back)
           h == ReplyHook(back)
<1>1. /\ h \in Hook
      /\ \A a \in Node, i \in Index : RefWeight(h, a, i) = RefWeight(back, a, i)
  BY WecAssumption DEF ReplyHook, ReadHook, Hook, Hooked, Given, Reference, RefWeight
<1>2. T = [S EXCEPT !.obj[n][s].hooks = @ (+) One(h)]
  BY DEF AddReply
<1> HIDE DEF T, h
<1>3. /\ One(h) \in HookBags
      /\ \A a \in Node, i \in Index : HooksWeight(One(h), a, i) = RefWeight(h, a, i)
  BY <1>1, HooksOne
<1>4. /\ Sound(T)
      /\ \A a \in Node, i \in Index :
           Surplus(T, a, i) = Surplus(S, a, i) - HooksWeight(One(h), a, i)
  BY <1>2, <1>3, HooksPut
<1> QED BY <1>1, <1>3, <1>4 DEF T

LEMMA MergeKeeps ==
  ASSUME NEW S, Sound(S), NEW n \in Node, NEW x \in Slot, NEW y \in Slot, x # y,
         IsVar(S.obj[n][x]), IsVar(S.obj[n][y])
  PROVE  Kept(S, Merge(S, n, x, y))
<1> DEFINE o == S.obj[n][x]
           b == o.hooks
           U == [S EXCEPT !.obj[n][y].hooks = @ (+) b]
           T == Redirect(U, n, x, y)
<1>1. Shaped(S) /\ o \in Objects /\ S.obj[n][y] \in Objects
  BY DEF Sound, Shaped, Memories
<1>2. b \in HookBags /\ o = Var(b)
  BY <1>1, ObjectKinds
<1>3. Merge(S, n, x, y) = T
  BY DEF Merge
<1> HIDE DEF b
<1>4. /\ Sound(U) /\ U.obj[n][x] = o
      /\ \A a \in Node, i \in Index :
           Surplus(U, a, i) = Surplus(S, a, i) - HooksWeight(b, a, i)
  BY <1>2, HooksPut
<1>5. U.obj[n][y] # Free
  <2>1. IsVar(U.obj[n][y])
    BY DEF Sound, Shaped, Memories, IsVar
  <2> QED BY <2>1 DEF IsVar, Free
<1> HIDE DEF U, T
<1>6. /\ Sound(T)
      /\ \A a \in Node, i \in Index :
           Surplus(T, a, i) = Surplus(U, a, i) + ObjWeight(o, a, i)
  BY <1>4, <1>5, RedirectLeaves DEF T, Live
<1>7. ASSUME NEW a \in Node, NEW i \in Index PROVE Surplus(T, a, i) = Surplus(S, a, i)
  <2>1. ObjWeight(o, a, i) = HooksWeight(b, a, i) /\ HooksWeight(b, a, i) \in Nat
    BY <1>2, ObjectWeighs, HooksWeigh
  <2>2. Surplus(S, a, i) \in Int
    BY <1>1, SurplusType
  <2> QED BY <1>4, <1>6, <2>1, <2>2
<1> QED BY <1>3, <1>6, <1>7 DEF Kept

LEMMA BindKeeps ==
  ASSUME NEW S, Sound(S), NEW n \in Node, NEW x \in Slot, S.obj[n][x] # Free,
         NEW answered
  PROVE  Kept(S, Bind(S, n, x, answered))
<1> DEFINE o == S.obj[n][x]
           c == IF IsExref(o) THEN One(UnifyMsg(o, Bound, None)) ELSE HookMsgs(o.hooks, answered)
           U == Post(S, c)
           T == Redirect(U, n, x, Bound)
<1>1. Shaped(S) /\ o \in Objects
  BY DEF Sound, Shaped, Memories
<1>2. Bind(S, n, x, answered) = T
  BY DEF Bind
<1>3. /\ c \in Flights
      /\ \A a \in Node, i \in Index : FlightWeight(c, a, i) = ObjWeight(o, a, i)
  <2>1. CASE IsExref(o)
    <3> DEFINE m == UnifyMsg(o, Bound, None)
    <3>1. /\ o \in Exrefs
          /\ o.node \in Node /\ o.index \in Index /\ o.wec \in Nat /\ o.wec > 0
      BY <1>1, <2>1, ObjectKinds, WecAssumption DEF Exrefs
    <3>2. /\ m \in Carried
          /\ \A a \in Node, i \in Index :
               MessageWeight(m, a, i) = RefWeight(o, a, i) + TermWeight(Bound, a, i)
      BY <3>1, UnifyMsgWeighs
    <3>3. \A a \in Node, i \in Index :
            /\ TermWeight(Bound, a, i) = 0 /\ ObjWeight(o, a, i) = RefWeight(o, a, i)
            /\ ObjWeight(o, a, i) \in Nat
      BY <1>1, <3>1, ObjectWeighs DEF TermWeight
    <3> HIDE DEF m, o
    <3>4. /\ One(m) \in Flights
          /\ \A a \in Node, i \in Index : FlightWeight(One(m), a, i) = ObjWeight(o, a, i)
      BY <3>2, <3>3, FlightsOne
    <3> QED BY <2>1, <3>4 DEF m
  <2>2. CASE ~IsExref(o)
    <3>1. o = Var(o.hooks) /\ o.hooks \in HookBags
      BY <1>1, <2>2, ObjectKinds
    <3>2. \A a \in Node, i \in Index : ObjWeight(o, a, i) = HooksWeight(o.hooks, a, i)
      BY <3>1, ObjectWeighs, Zenon
    <3> HIDE DEF o
    <3> QED BY <2>2, <3>1, <3>2, HooksSent
  <2> QED BY <2>1, <2>2
<1> HIDE DEF c
<1>4. /\ Sound(U) /\ U.obj = S.obj
      /\ \A a \in Node, i \in Index :
           Surplus(U, a, i) = Surplus(S, a, i) - ObjWeight(o, a, i)
  BY <1>1, <1>3, PostMany DEF Sound
<1>5. Bound # x
  BY TermAssumption
<1> HIDE DEF U, T
<1>6. /\ Sound(T)
      /\ \A a \in Node, i \in Index :
           Surplus(T, a, i) = Surplus(U, a, i) + ObjWeight(o, a, i)
  BY <1>4, <1>5, RedirectLeaves DEF T, Live
<1>7. ASSUME NEW a \in Node, NEW i \in Index PROVE Surplus(T, a, i) = Surplus(S, a, i)
  <2>1. ObjWeight(o, a, i) \in Nat /\ Surplus(S, a, i) \in Int
    BY <1>1, ObjectWeighs, SurplusType
  <2> QED BY <1>4, <1>6, <2>1
<1> QED BY <1>2, <1>6, <1>7 DEF Kept

LEMMA UnifyExrefVarKeeps ==
  ASSUME NEW S, Sound(S), NEW n \in Node, NEW x \in Slot, NEW y \in Slot, x # y,
         IsExref(S.obj[n][x]), IsVar(S.obj[n][y]), NEW T \in UnifyExrefVar(S, n, x, y)
  PROVE  Kept(S, T)
<1>1. Shaped(S) /\ S.obj[n][x] \in Objects /\ S.obj[n][y] \in Objects
  BY DEF Sound, Shaped, Memories
<1>2. CASE \E G \in Generate(S, n, x) : T = Merge(G, n, x, y)
  <2>1. PICK G \in Generate(S, n, x) : T = Merge(G, n, x, y)
    BY <1>2
  <2>2. Kept(S, G) /\ IsVar(G.obj[n][x]) /\ G.obj[n][y] = S.obj[n][y]
    BY GenerateKeeps
  <2>3. Kept(G, T)
    BY <2>1, <2>2, MergeKeeps DEF Kept
  <2> QED BY <2>2, <2>3 DEF Kept
<1>3. CASE S.obj[n][y] = Var(EmptyBag) /\ T = Redirect(S, n, y, x)
  <2>1. S.obj[n][x] # Free
    BY <1>1, ObjectKinds
  <2>2. /\ Sound(T)
        /\ \A a \in Node, i \in Index :
             Surplus(T, a, i) = Surplus(S, a, i) + ObjWeight(S.obj[n][y], a, i)
    BY <1>3, <2>1, RedirectLeaves DEF Live
  <2>3. ASSUME NEW a \in Node, NEW i \in Index PROVE Surplus(T, a, i) = Surplus(S, a, i)
    <3>1. ObjWeight(S.obj[n][y], a, i) = 0 /\ Surplus(S, a, i) \in Int
      BY <1>1, <1>3, HooksNone, ObjectWeighs, SurplusType
    <3> QED BY <2>2, <3>1
  <2> QED BY <2>2, <2>3 DEF Kept
<1> QED BY <1>2, <1>3 DEF UnifyExrefVar

LEMMA DoUnifyKeeps ==
  ASSUME NEW S, Sound(S), NEW n \in Node, NEW x, NEW y, Live(S, n, x), Live(S, n, y),
         NEW answered, NEW T \in DoUnify(S, n, x, y, answered)
  PROVE  Kept(S, T)
<1>1. /\ Shaped(S)
      /\ x # Bound => x \in Slot /\ S.obj[n][x] \in Objects /\ S.obj[n][x] # Free
      /\ y # Bound => y \in Slot /\ S.obj[n][y] \in Objects /\ S.obj[n][y] # Free
  BY DEF Sound, Shaped, Memories, Live
<1>2. CASE x = y
  <2>1. T = S
    BY <1>2 DEF DoUnify
  <2> QED BY <2>1 DEF Kept
<1>3. CASE x # y /\ y = Bound
  <2>1. T = Bind(S, n, x, answered)
    BY <1>3 DEF DoUnify
  <2> QED BY <1>1, <1>3, <2>1, BindKeeps
<1>4. CASE x # y /\ y # Bound /\ x = Bound
  <2>1. T = Bind(S, n, y, answered)
    BY <1>4 DEF DoUnify
  <2> QED BY <1>1, <1>4, <2>1, BindKeeps
<1>5. ASSUME x # y, x # Bound, y # Bound PROVE Kept(S, T)
  <2> DEFINE X == S.obj[n][x]  Y == S.obj[n][y]
  <2>1. /\ x \in Slot /\ y \in Slot /\ X \in Objects /\ X # Free /\ Y \in Objects /\ Y # Free
        /\ (IsVar(X) \/ IsExref(X)) /\ (IsVar(Y) \/ IsExref(Y))
    BY <1>1, <1>5, ObjectKinds
  <2>2. CASE IsVar(X) /\ IsVar(Y)
    <3>1. T = Merge(S, n, x, y)
      BY <1>5, <2>2 DEF DoUnify
    <3> QED BY <1>5, <2>1, <2>2, <3>1, MergeKeeps
  <2>3. CASE IsVar(X) /\ ~IsVar(Y)
    <3>1. T \in UnifyExrefVar(S, n, y, x)
      BY <1>5, <2>3 DEF DoUnify
    <3> QED BY <1>5, <2>1, <2>3, <3>1, UnifyExrefVarKeeps
  <2>4. CASE ~IsVar(X) /\ IsVar(Y)
    <3>1. T \in UnifyExrefVar(S, n, x, y)
      BY <1>5, <2>4 DEF DoUnify
    <3> QED BY <1>5, <2>1, <2>4, <3>1, UnifyExrefVarKeeps
  <2>5. CASE ~IsVar(X) /\ ~IsVar(Y)
    <3>1. PICK e \in Encode(S, n, y) :
            T = Redirect(Post(e.mem, One(UnifyMsg(X, e.ref, None))), n, x, y)
      BY <1>5, <2>5 DEF DoUnify
    <3> DEFINE m == UnifyMsg(X, e.ref, None)
               U == Post(e.mem, One(m))
    <3>2. /\ Sound(e.mem) /\ e.ref \in Given /\ e.mem.obj[n][y] # Free
          /\ e.mem.obj[n][x] = X
          /\ \A a \in Node, j \in Index :
               Surplus(e.mem, a, j) = Surplus(S, a, j) + RefWeight(e.ref, a, j)
      BY <1>5, <2>1, EncodeGives
    <3>3. X \in Exrefs /\ X.node \in Node /\ X.index \in Index /\ X.wec \in Nat /\ X.wec > 0
      BY <2>1, <2>5, ObjectKinds, WecAssumption DEF Exrefs
    <3> HIDE DEF X, Y
    <3>4. /\ m \in Carried
          /\ \A a \in Node, i \in Index :
               MessageWeight(m, a, i) = RefWeight(X, a, i) + TermWeight(e.ref, a, i)
      BY <3>2, <3>3, UnifyMsgWeighs
    <3> HIDE DEF m
    <3>5. /\ Sound(U) /\ U.obj = e.mem.obj
          /\ \A a \in Node, i \in Index :
               Surplus(U, a, i) = Surplus(e.mem, a, i) - MessageWeight(m, a, i)
      BY <3>2, <3>4, PostOne DEF Sound
    <3> HIDE DEF U
    <3>6. /\ Sound(T)
          /\ \A a \in Node, i \in Index :
               Surplus(T, a, i) = Surplus(U, a, i) + ObjWeight(X, a, i)
      <4>1. Live(U, n, y) /\ U.obj[n][x] = X
        BY <2>1, <3>2, <3>5 DEF Live
      <4>2. T = Redirect(U, n, x, y)
        BY <3>1 DEF U, m
      <4> QED BY <1>5, <2>1, <3>5, <4>1, <4>2, RedirectLeaves
    <3>7. ASSUME NEW a \in Node, NEW i \in Index PROVE Surplus(T, a, i) = Surplus(S, a, i)
      <4>1. /\ ObjWeight(X, a, i) = RefWeight(X, a, i)
            /\ TermWeight(e.ref, a, i) = RefWeight(e.ref, a, i)
            /\ RefWeight(e.ref, a, i) \in Nat /\ ObjWeight(X, a, i) \in Nat
            /\ Surplus(S, a, i) \in Int
        BY <1>1, <2>1, <3>2, <3>3, ObjectWeighs, WeightTypes, SurplusType
      <4>2. /\ Surplus(T, a, i) = Surplus(U, a, i) + ObjWeight(X, a, i)
            /\ Surplus(U, a, i) = Surplus(e.mem, a, i) - MessageWeight(m, a, i)
            /\ Surplus(e.mem, a, i) = Surplus(S, a, i) + RefWeight(e.ref, a, i)
            /\ MessageWeight(m, a, i) = RefWeight(X, a, i) + TermWeight(e.ref, a, i)
        BY <3>2, <3>4, <3>5, <3>6
      <4> QED BY <4>1, <4>2
    <3> QED BY <3>6, <3>7 DEF Kept
  <2> QED BY <2>2, <2>3, <2>4, <2>5
<1> QED BY <1>2, <1>3, <1>4, <1>5

-----------------------------------------------------------------------------
(* The inductive invariant: the memory is sound, and no entry lacks weight.*)
NoneLacks(S) == \A a \in Node, i \in Index : Surplus(S, a, i) >= 0
IInv == Sound(Memory) /\ NoneLacks(Memory)

LEMMA MemoryFields ==
  /\ Memory.exp = exp /\ Memory.obj = obj /\ Memory.held = held /\ Memory.net = net
  /\ Memory'.exp = exp' /\ Memory'.obj = obj' /\ Memory'.held = held' /\ Memory'.net = net'
  BY DEF Memory

LEMMA BecomesIs ==
  ASSUME NEW T, Sound(T), Becomes(T)
  PROVE  Memory' = T
<1>1. T = [exp |-> T.exp, obj |-> T.obj, held |-> T.held, net |-> T.net]
  BY DEF Sound, Shaped, Memories
<1> QED BY <1>1 DEF Becomes, Memory

LEMMA InitSound == Init => IInv /\ \A a \in Node, i \in Index : Surplus(Memory, a, i) = 0
<1> SUFFICES ASSUME Init
             PROVE  IInv /\ \A a \in Node, i \in Index : Surplus(Memory, a, i) = 0
  OBVIOUS
<1>1. Memory \in Memories
  BY FlightsNone DEF Init, Memory, Memories, Entries, Objects
<1>2. ASSUME NEW a \in Node, NEW i \in Index
      PROVE  IsFiniteSet(Grains(Placed(Memory, a, i))) /\ Total(Placed(Memory, a, i)) = 0
  <2>1. \A p \in Places : ObjWeight(Memory.obj[p[1]][p[2]], a, i) = 0
    BY ObjectWeighs DEF Init, Memory, Places
  <2>2. /\ Placed(Memory, a, i) \in [Places -> Nat]
        /\ \A p \in Places : Placed(Memory, a, i)[p] = 0
    BY <2>1 DEF Placed
  <2> QED BY <2>2, TotalZero
<1>3. Rooted(Memory)
  BY DEF Init, Memory, Rooted
<1>4. Sound(Memory)
  BY <1>1, <1>2, <1>3 DEF Sound, Shaped
<1>5. ASSUME NEW a \in Node, NEW i \in Index PROVE Surplus(Memory, a, i) = 0
  <2>1. FlightWeight(Memory.net, a, i) = 0
    BY FlightsNone, MemoryFields DEF Init
  <2>2. Memory.exp[a][i].wec = 0
    BY MemoryFields DEF Init, Unused
  <2> QED BY <1>2, <2>1, <2>2 DEF Surplus
<1> QED BY <1>4, <1>5 DEF IInv, NoneLacks

(* What goals hold.                                                        *)
LEMMA HeldLive ==
  ASSUME IInv, NEW n \in Node, NEW s \in held[n]
  PROVE  s \in Slot /\ obj[n][s] # Free /\ Live(Memory, n, s)
<1>1. Memory \in Memories /\ Rooted(Memory)
  BY DEF IInv, Sound, Shaped
<1>2. held \in [Node -> SUBSET Slot]
  BY <1>1, MemoryFields DEF Memories
<1> QED BY <1>1, <1>2, MemoryFields DEF Rooted, Live

(* Only what goals hold changes.                                           *)
LEMMA HeldKeeps ==
  ASSUME NEW S, Sound(S), NEW n \in Node, NEW H \in SUBSET Slot,
         \A s \in H : S.obj[n][s] # Free
  PROVE  Kept(S, [S EXCEPT !.held[n] = H])
<1> DEFINE T == [S EXCEPT !.held[n] = H]
<1>1. S \in Memories /\ Shaped(S) /\ Rooted(S) /\ S.held \in [Node -> SUBSET Slot]
  BY DEF Sound, Shaped, Memories
<1>2. T = [S EXCEPT !.held = [S.held EXCEPT ![n] = H]]
  BY <1>1 DEF Memories
<1> HIDE DEF T
<1>3. /\ T \in Memories /\ T.held = [S.held EXCEPT ![n] = H]
      /\ T.exp = S.exp /\ T.obj = S.obj /\ T.net = S.net
  <2>1. [S.held EXCEPT ![n] = H] \in [Node -> SUBSET Slot]
    BY <1>1
  <2> QED BY <1>1, <1>2, <2>1 DEF Memories
<1>4. \A a \in Node : T.held[a] = IF a = n THEN H ELSE S.held[a]
  BY <1>1, <1>3
<1>5. Rooted(T)
  BY <1>1, <1>3, <1>4 DEF Rooted, Live
<1>6. Shaped(T) /\ \A a \in Node, i \in Index :
                     Surplus(T, a, i) = Surplus(S, a, i) + T.exp[a][i].wec - S.exp[a][i].wec
  BY <1>1, <1>3, SamePlaces
<1>7. ASSUME NEW a \in Node, NEW i \in Index PROVE Surplus(T, a, i) = Surplus(S, a, i)
  <2>1. Surplus(S, a, i) \in Int /\ S.exp[a][i].wec \in Nat
    BY <1>1, SurplusType
  <2> QED BY <1>3, <1>6, <2>1
<1> QED BY <1>5, <1>6, <1>7 DEF T, Kept, Sound

-----------------------------------------------------------------------------
(* What goals do keeps the memory.                                         *)
LEMMA NewVarKeeps ==
  ASSUME IInv, NEW n \in Node, NEW s \in Slot, NewVar(n, s)
  PROVE  Kept(Memory, Memory')
<1> DEFINE v == Var(EmptyBag)
           U == Put(Memory, n, s, v)
           H == held[n] \cup {s}
           T == [U EXCEPT !.held[n] = H]
<1>1. Sound(Memory) /\ Shaped(Memory) /\ Memory \in Memories
  BY DEF IInv, Sound, Shaped
<1>2. v \in Objects /\ v # Free
  BY HooksNone DEF Objects, Var, Free
<1> HIDE DEF v
<1>3. HasPut(Memory, U, n, s, v)
  BY <1>1, <1>2, PutObject
<1> HIDE DEF U
<1>4. Sound(U)
  BY <1>1, <1>2, <1>3, PutSound
<1>5. Kept(Memory, U)
  <2>1. ASSUME NEW a \in Node, NEW i \in Index PROVE Surplus(U, a, i) = Surplus(Memory, a, i)
    <3>1. Surplus(U, a, i) = Surplus(Memory, a, i) + ObjWeight(Free, a, i) - ObjWeight(v, a, i)
      BY <1>3, MemoryFields DEF HasPut, NewVar
    <3>2. ObjWeight(Free, a, i) = 0 /\ ObjWeight(v, a, i) = 0 /\ Surplus(Memory, a, i) \in Int
      BY <1>1, HooksNone, ObjectWeighs, SurplusType DEF v
    <3> QED BY <3>1, <3>2
  <2> QED BY <1>4, <2>1 DEF Kept
<1>6. H \in SUBSET Slot /\ \A x \in H : U.obj[n][x] # Free
  <2>1. held[n] \subseteq Slot
    BY HeldLive
  <2>2. \A x \in held[n] : obj[n][x] # Free
    BY HeldLive
  <2> QED BY <1>2, <1>3, <2>1, <2>2, MemoryFields DEF HasPut
<1> HIDE DEF H
<1>7. Kept(U, T)
  BY <1>4, <1>6, HeldKeeps
<1>8. /\ T.exp = exp /\ T.obj = [obj EXCEPT ![n][s] = v]
      /\ T.held = [held EXCEPT ![n] = H] /\ T.net = net
  <2>1. U \in Memories
    BY <1>4 DEF Sound, Shaped
  <2>2. T.exp = U.exp /\ T.obj = U.obj /\ T.held = [U.held EXCEPT ![n] = H] /\ T.net = U.net
    BY <2>1 DEF Memories
  <2>3. /\ U.exp = exp /\ U.obj = [obj EXCEPT ![n][s] = v] /\ U.held = held /\ U.net = net
    BY <1>3, MemoryFields DEF HasPut
  <2> QED BY <2>2, <2>3
<1> HIDE DEF T
<1>9. Becomes(T)
  BY <1>8 DEF NewVar, Becomes, v, H
<1>10. Memory' = T
  BY <1>7, <1>9, BecomesIs DEF Kept
<1> QED BY <1>5, <1>7, <1>10 DEF Kept

LEMMA SuspendKeeps ==
  ASSUME IInv, NEW n \in Node, NEW s \in Slot, Suspend(n, s)
  PROVE  Kept(Memory, Memory')
<1>1. PICK S \in Generate(Memory, n, s) : Becomes(S)
  BY DEF Suspend
<1>2. Sound(Memory) /\ IsExref(Memory.obj[n][s])
  BY MemoryFields DEF IInv, Suspend
<1>3. Kept(Memory, S)
  BY <1>2, GenerateKeeps
<1>4. Memory' = S
  BY <1>1, <1>3, BecomesIs DEF Kept
<1> QED BY <1>3, <1>4

LEMMA BindTermKeeps ==
  ASSUME IInv, NEW n \in Node, NEW s \in Slot, BindTerm(n, s)
  PROVE  Kept(Memory, Memory')
<1> DEFINE T == Bind(Memory, n, s, None)
<1>1. Sound(Memory) /\ Memory.obj[n][s] # Free
  BY HeldLive, MemoryFields DEF IInv, BindTerm
<1>2. Kept(Memory, T)
  BY <1>1, BindKeeps
<1>3. Becomes(T)
  BY DEF BindTerm
<1> HIDE DEF T
<1>4. Memory' = T
  BY <1>2, <1>3, BecomesIs DEF Kept
<1> QED BY <1>2, <1>4

LEMMA AliasKeeps ==
  ASSUME IInv, NEW n \in Node, NEW x \in Slot, NEW y \in Slot, Alias(n, x, y)
  PROVE  Kept(Memory, Memory')
<1>1. PICK S \in DoUnify(Memory, n, x, y, None) : Becomes(S)
  BY DEF Alias
<1>2. Sound(Memory) /\ Live(Memory, n, x) /\ Live(Memory, n, y)
  BY HeldLive DEF IInv, Alias
<1>3. Kept(Memory, S)
  BY <1>2, DoUnifyKeeps
<1>4. Memory' = S
  BY <1>1, <1>3, BecomesIs DEF Kept
<1> QED BY <1>3, <1>4

LEMMA ThrowKeeps ==
  ASSUME IInv, NEW n \in Node, NEW d \in Node, NEW s \in Slot, Throw(n, d, s)
  PROVE  Kept(Memory, Memory')
<1>1. PICK e \in Encode(Memory, n, s) : Becomes(Post(e.mem, One(ThrowMsg(d, e.ref))))
  BY DEF Throw
<1>2. Sound(Memory) /\ Memory.obj[n][s] # Free
  BY HeldLive, MemoryFields DEF IInv, Throw
<1>3. /\ Sound(e.mem) /\ e.ref \in Given
      /\ \A a \in Node, j \in Index :
           Surplus(e.mem, a, j) = Surplus(Memory, a, j) + RefWeight(e.ref, a, j)
  BY <1>2, EncodeGives
<1> DEFINE m == ThrowMsg(d, e.ref)
           T == Post(e.mem, One(m))
<1>4. e.ref \in Reference /\ e.ref \notin {Bound, None} /\ None \notin Index
  BY <1>3, TermAssumption DEF Given, Reference
<1>5. m.to = d /\ m.index = None /\ m.wec = 0 /\ m.term = e.ref
  BY DEF ThrowMsg, Message, RefTo
<1>6. m \in Carried
  BY <1>3, <1>4 DEF ThrowMsg, Message, RefTo, Carried, InMessage
<1>7. ASSUME NEW a \in Node, NEW j \in Index
      PROVE  MessageWeight(m, a, j) = RefWeight(e.ref, a, j)
  <2>1. RefWeight(e.ref, a, j) \in Nat
    BY <1>3, WeightTypes
  <2>2. RefWeight(RefTo(m.to, m.index, m.wec), a, j) = 0
    BY <1>4, <1>5 DEF RefWeight, RefTo
  <2> QED BY <1>4, <1>5, <2>1, <2>2 DEF MessageWeight
<1> HIDE DEF m
<1>8. /\ Sound(T)
      /\ \A a \in Node, j \in Index :
           Surplus(T, a, j) = Surplus(e.mem, a, j) - MessageWeight(m, a, j)
  BY <1>3, <1>6, PostOne DEF Sound
<1>9. Becomes(T)
  BY <1>1 DEF m
<1> HIDE DEF T
<1>10. Memory' = T
  BY <1>8, <1>9, BecomesIs
<1>11. ASSUME NEW a \in Node, NEW j \in Index PROVE Surplus(T, a, j) = Surplus(Memory, a, j)
  <2>1. Surplus(Memory, a, j) \in Int /\ RefWeight(e.ref, a, j) \in Nat
    BY <1>2, <1>3, WeightTypes, SurplusType DEF Sound
  <2> QED BY <1>3, <1>7, <1>8, <2>1
<1> QED BY <1>8, <1>10, <1>11 DEF Kept

LEMMA DropKeeps ==
  ASSUME IInv, NEW n \in Node, NEW s \in Slot, Drop(n, s)
  PROVE  Kept(Memory, Memory')
<1> DEFINE H == held[n] \ {s}
           T == [Memory EXCEPT !.held[n] = H]
<1>1. Sound(Memory) /\ H \in SUBSET Slot /\ \A x \in H : Memory.obj[n][x] # Free
  BY HeldLive, MemoryFields DEF IInv
<1>2. Kept(Memory, T)
  BY <1>1, HeldKeeps
<1>3. Memory' = T
  BY DEF Memory, Drop
<1> HIDE DEF T
<1> QED BY <1>2, <1>3

(* A collection keeps it as well, but what was hooked on a variable is     *)
(* lost, and its weight stays with the entry.                              *)
LEMMA CollectKeeps ==
  ASSUME IInv, NEW n \in Node, NEW s \in Slot, Collect(n, s)
  PROVE  /\ Sound(Memory')
         /\ \A a \in Node, i \in Index : Surplus(Memory', a, i) >= Surplus(Memory, a, i)
         /\ HooksAt(<<n, s>>) = {} => Kept(Memory, Memory')
<1> DEFINE o == obj[n][s]
           U == Put(Memory, n, s, Free)
<1>1. /\ Sound(Memory) /\ Shaped(Memory) /\ Rooted(Memory) /\ Memory \in Memories
      /\ o \in Objects /\ o # Free
  BY MemoryFields DEF IInv, Sound, Shaped, Collect, Memories
<1>2. Free \in Objects
  BY DEF Objects
<1>3. HasPut(Memory, U, n, s, Free)
  BY <1>1, <1>2, PutObject
<1> HIDE DEF U
<1>4. Sound(U)
  <2>1. ASSUME NEW m \in Node, NEW x \in held[m] PROVE U.obj[m][x] # Free
    BY <1>3, HeldLive, MemoryFields DEF HasPut, Collect, Unreachable
  <2>2. ASSUME NEW m \in Node, NEW i \in Index, exp[m][i] # Unused
        PROVE  Live(U, m, exp[m][i].data)
    <3>1. Live(Memory, m, exp[m][i].data)
      BY <1>1, <2>2, MemoryFields DEF Rooted
    <3>2. m = n => exp[m][i].data # s
      BY DEF Collect, Unreachable
    <3> QED BY <1>3, <3>1, <3>2, MemoryFields DEF HasPut, Live
  <2>3. U.held = held /\ U.exp = exp
    BY <1>3, MemoryFields DEF HasPut
  <2> QED BY <1>3, <2>1, <2>2, <2>3 DEF HasPut, Sound, Rooted
<1>5. ASSUME NEW a \in Node, NEW i \in Index
      PROVE  /\ Surplus(U, a, i) = Surplus(Memory, a, i) + ObjWeight(o, a, i)
             /\ ObjWeight(o, a, i) \in Nat /\ Surplus(Memory, a, i) \in Int
  <2>1. /\ ObjWeight(Free, a, i) = 0 /\ Surplus(Memory, a, i) \in Int
        /\ ObjWeight(o, a, i) \in Nat
    BY <1>1, ObjectWeighs, SurplusType
  <2>2. Surplus(U, a, i) = Surplus(Memory, a, i) + ObjWeight(o, a, i) - ObjWeight(Free, a, i)
    BY <1>3, MemoryFields DEF HasPut
  <2> QED BY <2>1, <2>2
<1>6. U.exp = exp /\ U.held = held /\ U.net = net /\ U.obj = [obj EXCEPT ![n][s] = Free]
  BY <1>3, MemoryFields DEF HasPut
<1>7. CASE IsExref(o)
  <2> DEFINE m == ReleaseMsg(o, None)
             T == Post(U, One(m))
  <2>1. /\ o \in Exrefs /\ o.node \in Node /\ o.index \in Index /\ o.wec \in Nat /\ o.wec > 0
    BY <1>1, <1>7, ObjectKinds, WecAssumption DEF Exrefs
  <2>2. /\ m.to = o.node /\ m.index = o.index /\ m.wec = o.wec /\ m.term = None
    BY DEF ReleaseMsg, Message
  <2>3. m \in Carried
    BY <2>1 DEF ReleaseMsg, Message, Carried, InMessage
  <2> HIDE DEF m
  <2>4. ASSUME NEW a \in Node, NEW i \in Index
        PROVE  MessageWeight(m, a, i) = ObjWeight(o, a, i)
    <3>1. ObjWeight(o, a, i) = RefWeight(o, a, i)
      BY <2>1, ObjectWeighs
    <3> QED BY <2>1, <2>2, <3>1 DEF MessageWeight, RefWeight, RefTo
  <2>5. /\ Sound(T)
        /\ \A a \in Node, i \in Index :
             Surplus(T, a, i) = Surplus(U, a, i) - MessageWeight(m, a, i)
    BY <1>4, <2>3, PostOne DEF Sound
  <2>6. Becomes(T)
    <3>1. U \in Memories
      BY <1>4 DEF Sound, Shaped
    <3>2. /\ T.exp = exp /\ T.held = held /\ T.net = net (+) One(m)
          /\ T.obj = [obj EXCEPT ![n][s] = Free]
      BY <1>6, <3>1 DEF Post, Memories
    <3> HIDE DEF T
    <3> QED BY <1>7, <3>2 DEF Becomes, Collect, m
  <2> HIDE DEF T
  <2>7. Memory' = T
    BY <2>5, <2>6, BecomesIs
  <2>8. \A a \in Node, i \in Index : Surplus(T, a, i) = Surplus(Memory, a, i)
    BY <1>5, <2>4, <2>5
  <2>9. \A a \in Node, i \in Index : Surplus(T, a, i) >= Surplus(Memory, a, i)
    BY <1>5, <2>8
  <2> QED BY <2>5, <2>7, <2>8, <2>9 DEF Kept
<1>8. CASE ~IsExref(o)
  <2>1. Becomes(U)
    BY <1>6, <1>8 DEF Becomes, Collect
  <2>2. Memory' = U
    BY <1>4, <2>1, BecomesIs
  <2>3. \A a \in Node, i \in Index : Surplus(U, a, i) >= Surplus(Memory, a, i)
    BY <1>5
  <2>4. ASSUME HooksAt(<<n, s>>) = {}, NEW a \in Node, NEW i \in Index
        PROVE  Surplus(U, a, i) = Surplus(Memory, a, i)
    <3>1. IsVar(o) /\ o = Var(o.hooks) /\ o.hooks \in HookBags
      BY <1>1, <1>8, ObjectKinds
    <3>2. BagToSet(o.hooks) = {}
      BY <2>4, <3>1 DEF HooksAt, At
    <3>3. ObjWeight(o, a, i) = 0
      <4>1. ObjWeight(o, a, i) = HooksWeight(o.hooks, a, i)
        BY <3>1, ObjectWeighs, Zenon
      <4> DEFINE f == [h \in BagToSet(o.hooks) |-> o.hooks[h] * RefWeight(h, a, i)]
      <4>2. f \in [{} -> Nat]
        BY <3>2
      <4> HIDE DEF f
      <4>3. Total(f) = 0
        BY <4>2, TotalZero
      <4> QED BY <4>1, <4>3 DEF HooksWeight, f
    <3> QED BY <1>5, <3>3
  <2> QED BY <1>4, <2>2, <2>3, <2>4 DEF Kept
<1> QED BY <1>7, <1>8

-----------------------------------------------------------------------------
(* Nor do the handlers of messages create or lose weight.  What a message  *)
(* carries, and what a received message has left to spend:                 *)
LEMMA MessageParts ==
  ASSUME NEW m \in Carried
  PROVE  /\ m.to \in Node
         /\ m.type = "throw" =>
              /\ m.term \in Given
              /\ \A a \in Node, i \in Index : MessageWeight(m, a, i) = TermWeight(m.term, a, i)
         /\ m.type # "throw" =>
              /\ m.index \in Index /\ m.wec \in Nat \ {0}
              /\ \A a \in Node, i \in Index :
                   MessageWeight(m, a, i)
                     = RefWeight(RefTo(m.to, m.index, m.wec), a, i) + TermWeight(m.term, a, i)
         /\ m.term \in Given \cup {Bound, None}
         /\ \A a \in Node, i \in Index : TermWeight(m.term, a, i) \in Nat
<1>1. /\ m.to \in Node /\ m.wec \in Nat
      /\ m.type \in {"throw", "read", "answer", "unify", "release"}
  BY DEF Carried, InMessage
<1>2. m.term \in Given \cup {Bound, None}
  BY <1>1 DEF Carried
<1>3. ASSUME NEW a \in Node, NEW i \in Index
      PROVE  /\ TermWeight(m.term, a, i) \in Nat
             /\ MessageWeight(m, a, i)
                  = RefWeight(RefTo(m.to, m.index, m.wec), a, i) + TermWeight(m.term, a, i)
             /\ m.index = None => MessageWeight(m, a, i) = TermWeight(m.term, a, i)
  <2>1. TermWeight(m.term, a, i) \in Nat
    BY <1>2, WeightTypes DEF TermWeight
  <2>2. MessageWeight(m, a, i)
          = RefWeight(RefTo(m.to, m.index, m.wec), a, i) + TermWeight(m.term, a, i)
    BY DEF MessageWeight, TermWeight
  <2>3. m.index = None => RefWeight(RefTo(m.to, m.index, m.wec), a, i) = 0
    BY TermAssumption DEF RefWeight, RefTo
  <2> QED BY <2>1, <2>2, <2>3
<1> QED BY <1>1, <1>2, <1>3 DEF Carried

LEMMA Received ==
  ASSUME IInv, NEW n \in Node, NEW m \in InFlight, m.to = n
  PROVE  LET R == Receive(Memory, m)
         IN  /\ m \in Carried /\ Sound(R)
             /\ R.exp = exp /\ R.obj = obj /\ R.held = held
             /\ \A a \in Node, i \in Index :
                  /\ Surplus(R, a, i) = Surplus(Memory, a, i) + MessageWeight(m, a, i)
                  /\ Surplus(Memory, a, i) \in Nat
<1>1. Sound(Memory) /\ m \in BagToSet(Memory.net)
  BY MemoryFields DEF IInv, InFlight
<1>2. \A a \in Node, i \in Index : Surplus(Memory, a, i) \in Nat
  BY <1>1, SurplusType DEF IInv, NoneLacks, Sound
<1> QED BY <1>1, <1>2, ReceiveOne, MemoryFields

(* The weight of a message is spent on the entry it is for.                *)
LEMMA Spent ==
  ASSUME IInv, NEW n \in Node, NEW m \in InFlight, m.to = n, m.type # "throw"
  PROVE  LET T == Search(Receive(Memory, m), n, m.index, m.wec)
         IN  /\ Sound(T) /\ T.obj = obj /\ T.held = held
             /\ m \in Carried /\ m.index \in Index
             /\ exp[n][m.index] # Unused /\ Live(T, n, exp[n][m.index].data)
             /\ \A a \in Node, i \in Index :
                  /\ Surplus(T, a, i) = Surplus(Memory, a, i) + TermWeight(m.term, a, i)
                  /\ Surplus(Memory, a, i) \in Nat
<1> DEFINE R == Receive(Memory, m)
           T == Search(R, n, m.index, m.wec)
<1>1. /\ m \in Carried /\ Sound(R)
      /\ R.exp = exp /\ R.obj = obj /\ R.held = held
      /\ \A a \in Node, i \in Index :
           /\ Surplus(R, a, i) = Surplus(Memory, a, i) + MessageWeight(m, a, i)
           /\ Surplus(Memory, a, i) \in Nat
  BY Received
<1> HIDE DEF R
<1>2. /\ m.index \in Index /\ m.wec \in Nat \ {0}
      /\ \A a \in Node, i \in Index :
           /\ MessageWeight(m, a, i)
                = RefWeight(RefTo(n, m.index, m.wec), a, i) + TermWeight(m.term, a, i)
           /\ TermWeight(m.term, a, i) \in Nat
  BY <1>1, MessageParts
<1>3. \A a \in Node, i \in Index : RefWeight(RefTo(n, m.index, m.wec), a, i) \in Nat
  BY <1>2 DEF RefWeight, RefTo
<1>4. m.wec <= R.exp[n][m.index].wec
  <2>1. RefWeight(RefTo(n, m.index, m.wec), n, m.index) = m.wec
    BY DEF RefWeight, RefTo
  <2>2. m.wec <= Surplus(R, n, m.index)
    BY <1>1, <1>2, <2>1
  <2>3. /\ Surplus(R, n, m.index) <= R.exp[n][m.index].wec
        /\ Surplus(R, n, m.index) \in Int /\ R.exp[n][m.index].wec \in Nat
    BY <1>1, <1>2, SurplusType DEF Sound
  <2> QED BY <1>2, <2>2, <2>3
<1>5. /\ Sound(T) /\ T.obj = R.obj /\ T.held = R.held
      /\ R.exp[n][m.index] # Unused /\ Live(R, n, R.exp[n][m.index].data)
      /\ \A a \in Node, j \in Index :
           Surplus(T, a, j) = Surplus(R, a, j) - RefWeight(RefTo(n, m.index, m.wec), a, j)
  BY <1>1, <1>2, <1>4, SearchGivesBack
<1> HIDE DEF T
<1>6. Live(T, n, exp[n][m.index].data)
  BY <1>1, <1>5 DEF Live
<1>7. \A a \in Node, i \in Index :
        Surplus(T, a, i) = Surplus(Memory, a, i) + TermWeight(m.term, a, i)
  BY <1>1, <1>2, <1>3, <1>5
<1> QED BY <1>1, <1>2, <1>5, <1>6, <1>7 DEF T, R

LEMMA ReceiveThrowKeeps ==
  ASSUME IInv, NEW n \in Node, NEW m \in InFlight, ReceiveThrow(n, m)
  PROVE  Kept(Memory, Memory')
<1> DEFINE R == Receive(Memory, m)
<1>1. m.to = n /\ m.type = "throw"
  BY DEF ReceiveThrow
<1>2. /\ m \in Carried /\ Sound(R)
      /\ \A a \in Node, i \in Index :
           /\ Surplus(R, a, i) = Surplus(Memory, a, i) + MessageWeight(m, a, i)
           /\ Surplus(Memory, a, i) \in Nat
  BY <1>1, Received
<1>3. PICK d \in Decode(R, n, m.term) :
        Becomes([d.mem EXCEPT !.held[n] = @ \cup ({d.term} \cap Slot)])
  BY DEF ReceiveThrow
<1> HIDE DEF R
<1>4. /\ m.term \in Given
      /\ \A a \in Node, i \in Index :
           /\ MessageWeight(m, a, i) = TermWeight(m.term, a, i)
           /\ TermWeight(m.term, a, i) \in Nat
  BY <1>1, <1>2, MessageParts
<1>5. ASSUME m.term.node = n PROVE m.term.wec <= R.exp[n][m.term.index].wec
  <2>1. m.term.index \in Index /\ m.term.wec \in Nat
    BY <1>4 DEF Given, Reference
  <2>2. TermWeight(m.term, n, m.term.index) = m.term.wec
    BY <1>4, <1>5, <2>1, WeightTypes DEF RefWeight
  <2>3. Surplus(R, n, m.term.index) >= m.term.wec
    BY <1>2, <1>4, <2>1, <2>2
  <2>4. /\ Surplus(R, n, m.term.index) <= R.exp[n][m.term.index].wec
        /\ Surplus(R, n, m.term.index) \in Int /\ R.exp[n][m.term.index].wec \in Nat
    BY <1>2, <2>1, SurplusType DEF Sound
  <2> QED BY <2>1, <2>3, <2>4
<1>6. /\ Sound(d.mem) /\ Live(d.mem, n, d.term)
      /\ \A a \in Node, j \in Index :
           Surplus(d.mem, a, j) = Surplus(R, a, j) - TermWeight(m.term, a, j)
  BY <1>2, <1>4, <1>5, DecodeTakes
<1> DEFINE H == d.mem.held[n] \cup ({d.term} \cap Slot)
           T == [d.mem EXCEPT !.held[n] = H]
<1>7. H \in SUBSET Slot /\ \A s \in H : d.mem.obj[n][s] # Free
  <2>1. d.mem.held \in [Node -> SUBSET Slot] /\ \A s \in d.mem.held[n] : d.mem.obj[n][s] # Free
    BY <1>6 DEF Sound, Shaped, Memories, Rooted
  <2>2. d.term \in Slot => d.mem.obj[n][d.term] # Free
    BY <1>6, TermAssumption DEF Live
  <2> QED BY <2>1, <2>2
<1>8. Becomes(T)
  BY <1>3
<1> HIDE DEF H
<1>9. Kept(d.mem, T)
  BY <1>6, <1>7, HeldKeeps
<1> HIDE DEF T
<1>10. Memory' = T
  BY <1>8, <1>9, BecomesIs DEF Kept
<1>11. \A a \in Node, i \in Index : Surplus(d.mem, a, i) = Surplus(Memory, a, i)
  BY <1>2, <1>4, <1>6
<1> QED BY <1>9, <1>10, <1>11 DEF Kept

LEMMA ReceiveUnifyKeeps ==
  ASSUME IInv, NEW n \in Node, NEW m \in InFlight, ReceiveUnify(n, m)
  PROVE  Kept(Memory, Memory')
<1> DEFINE R == Receive(Memory, m)
<1>1. m.to = n /\ m.type = "unify"
  BY DEF ReceiveUnify
<1>2. /\ m \in Carried /\ Sound(R)
      /\ \A a \in Node, i \in Index :
           /\ Surplus(R, a, i) = Surplus(Memory, a, i) + MessageWeight(m, a, i)
           /\ Surplus(Memory, a, i) \in Nat
  BY <1>1, Received
<1>3. PICK d \in Decode(R, n, m.term) :
        \E S \in DoUnify(Search(d.mem, n, m.index, m.wec), n,
                         d.mem.exp[n][m.index].data, d.term, None) : Becomes(S)
  BY DEF ReceiveUnify
<1> HIDE DEF R
<1>4. /\ m.term \in Given \cup {Bound} /\ m.index \in Index /\ m.wec \in Nat \ {0}
      /\ \A a \in Node, i \in Index :
           /\ MessageWeight(m, a, i)
                = RefWeight(RefTo(n, m.index, m.wec), a, i) + TermWeight(m.term, a, i)
           /\ TermWeight(m.term, a, i) \in Nat
           /\ RefWeight(RefTo(n, m.index, m.wec), a, i) \in Nat
  <2>1. m.term \in Given \cup {Bound}
    BY <1>1, <1>2 DEF Carried
  <2>2. m.wec \in Nat
    BY <1>2 DEF Carried, InMessage
  <2> QED BY <1>1, <1>2, <2>1, <2>2, MessageParts DEF RefWeight, RefTo
<1>5. ASSUME m.term # Bound, m.term.node = n PROVE m.term.wec <= R.exp[n][m.term.index].wec
  <2>1. m.term \in Given /\ m.term.index \in Index /\ m.term.wec \in Nat
    BY <1>4, <1>5 DEF Given, Reference
  <2>2. TermWeight(m.term, n, m.term.index) = m.term.wec
    BY <1>5, <2>1, WeightTypes DEF RefWeight
  <2>3. Surplus(R, n, m.term.index) >= m.term.wec
    BY <1>2, <1>4, <2>1, <2>2
  <2>4. /\ Surplus(R, n, m.term.index) <= R.exp[n][m.term.index].wec
        /\ Surplus(R, n, m.term.index) \in Int /\ R.exp[n][m.term.index].wec \in Nat
    BY <1>2, <2>1, SurplusType DEF Sound
  <2> QED BY <2>1, <2>3, <2>4
<1>6. /\ Sound(d.mem) /\ Live(d.mem, n, d.term)
      /\ \A a \in Node, j \in Index :
           Surplus(d.mem, a, j) = Surplus(R, a, j) - TermWeight(m.term, a, j)
  BY <1>2, <1>4, <1>5, DecodeTakes
<1>7. \A a \in Node, j \in Index :
        Surplus(d.mem, a, j) = Surplus(Memory, a, j) + RefWeight(RefTo(n, m.index, m.wec), a, j)
  BY <1>2, <1>4, <1>6
<1>8. m.wec <= d.mem.exp[n][m.index].wec
  <2>1. RefWeight(RefTo(n, m.index, m.wec), n, m.index) = m.wec
    BY DEF RefWeight, RefTo
  <2>2. m.wec <= Surplus(d.mem, n, m.index)
    BY <1>2, <1>4, <1>7, <2>1
  <2>3. /\ Surplus(d.mem, n, m.index) <= d.mem.exp[n][m.index].wec
        /\ Surplus(d.mem, n, m.index) \in Int /\ d.mem.exp[n][m.index].wec \in Nat
    BY <1>4, <1>6, SurplusType DEF Sound
  <2> QED BY <1>4, <2>2, <2>3
<1> DEFINE U == Search(d.mem, n, m.index, m.wec)
<1>9. /\ Sound(U) /\ U.obj = d.mem.obj
      /\ Live(d.mem, n, d.mem.exp[n][m.index].data)
      /\ \A a \in Node, j \in Index :
           Surplus(U, a, j) = Surplus(d.mem, a, j) - RefWeight(RefTo(n, m.index, m.wec), a, j)
  BY <1>4, <1>6, <1>8, SearchGivesBack, SMTT(30)
<1>10. PICK S \in DoUnify(U, n, d.mem.exp[n][m.index].data, d.term, None) : Becomes(S)
  BY <1>3
<1> HIDE DEF U
<1>11. Live(U, n, d.mem.exp[n][m.index].data) /\ Live(U, n, d.term)
  BY <1>6, <1>9 DEF Live
<1>12. Kept(U, S)
  BY <1>9, <1>11, DoUnifyKeeps
<1>13. Memory' = S
  BY <1>10, <1>12, BecomesIs DEF Kept
<1>14. \A a \in Node, i \in Index : Surplus(U, a, i) = Surplus(Memory, a, i)
  BY <1>2, <1>4, <1>7, <1>9
<1> QED BY <1>12, <1>13, <1>14 DEF Kept

LEMMA ReceiveAnswerKeeps ==
  ASSUME IInv, NEW n \in Node, NEW m \in InFlight, ReceiveAnswer(n, m)
  PROVE  Kept(Memory, Memory')
<1> DEFINE U == Search(Receive(Memory, m), n, m.index, m.wec)
<1>1. m.to = n /\ m.type = "answer"
  BY DEF ReceiveAnswer
<1>2. /\ Sound(U) /\ m \in Carried /\ Live(U, n, exp[n][m.index].data)
      /\ \A a \in Node, i \in Index :
           /\ Surplus(U, a, i) = Surplus(Memory, a, i) + TermWeight(m.term, a, i)
           /\ Surplus(Memory, a, i) \in Nat
  BY <1>1, Spent
<1>3. PICK S \in DoUnify(U, n, exp[n][m.index].data, Bound, m.index) : Becomes(S)
  BY DEF ReceiveAnswer
<1> HIDE DEF U
<1>4. Kept(U, S)
  BY <1>2, DoUnifyKeeps DEF Live
<1>5. Memory' = S
  BY <1>3, <1>4, BecomesIs DEF Kept
<1>6. m.term = Bound
  BY <1>1, <1>2 DEF Carried
<1>7. \A a \in Node, i \in Index : Surplus(U, a, i) = Surplus(Memory, a, i)
  BY <1>2, <1>6 DEF TermWeight
<1> QED BY <1>4, <1>5, <1>7 DEF Kept

LEMMA ReceiveReleaseKeeps ==
  ASSUME IInv, NEW n \in Node, NEW m \in InFlight, ReceiveRelease(n, m)
  PROVE  Kept(Memory, Memory')
<1> DEFINE U == Search(Receive(Memory, m), n, m.index, m.wec)
<1>1. m.to = n /\ m.type = "release" /\ Becomes(U)
  BY DEF ReceiveRelease
<1>2. /\ Sound(U) /\ m \in Carried
      /\ \A a \in Node, i \in Index :
           /\ Surplus(U, a, i) = Surplus(Memory, a, i) + TermWeight(m.term, a, i)
           /\ Surplus(Memory, a, i) \in Nat
  BY <1>1, Spent
<1> HIDE DEF U
<1>3. Memory' = U
  BY <1>1, <1>2, BecomesIs
<1>4. m.term = None
  BY <1>1, <1>2 DEF Carried
<1>5. \A a \in Node, i \in Index : Surplus(U, a, i) = Surplus(Memory, a, i)
  BY <1>2, <1>4 DEF TermWeight
<1> QED BY <1>2, <1>3, <1>5 DEF Kept

(* A %read, whose return reference is still to be kept or spent.           *)
LEMMA ReadReceived ==
  ASSUME IInv, NEW n \in Node, NEW m \in InFlight, m.to = n, m.type = "read"
  PROVE  LET U == ReadSpent(n, m)
         IN  /\ Sound(U) /\ U.obj = obj /\ U.held = held
             /\ m \in Carried /\ m.term \in Given /\ m.term.wec = EXPORT_UNIT_WEC
             /\ m.term.node \in Node /\ m.term.index \in Index /\ m.transc \in Nat
             /\ Live(U, n, ReadTarget(n, m))
             /\ \A a \in Node, i \in Index :
                  /\ Surplus(U, a, i) = Surplus(Memory, a, i) + RefWeight(m.term, a, i)
                  /\ Surplus(Memory, a, i) \in Nat /\ RefWeight(m.term, a, i) \in Nat
<1> DEFINE U == Search(Receive(Memory, m), n, m.index, m.wec)
<1>1. /\ Sound(U) /\ U.obj = obj /\ U.held = held
      /\ m \in Carried /\ Live(U, n, exp[n][m.index].data)
      /\ \A a \in Node, i \in Index :
           /\ Surplus(U, a, i) = Surplus(Memory, a, i) + TermWeight(m.term, a, i)
           /\ Surplus(Memory, a, i) \in Nat
  BY Spent
<1> HIDE DEF U
<1>2. /\ m.term \in Given /\ m.term.wec = EXPORT_UNIT_WEC /\ m.transc \in Nat
  BY <1>1 DEF Carried, InMessage
<1>3. m.term.node \in Node /\ m.term.index \in Index
  BY <1>2 DEF Given, Reference
<1>4. \A a \in Node, i \in Index : /\ TermWeight(m.term, a, i) = RefWeight(m.term, a, i)
                                   /\ RefWeight(m.term, a, i) \in Nat
  BY <1>2, WeightTypes
<1>5. ReadSpent(n, m) = U /\ ReadTarget(n, m) = exp[n][m.index].data
  BY DEF ReadSpent, ReadTarget, U
<1> QED BY <1>1, <1>2, <1>3, <1>4, <1>5

LEMMA ReadComesHomeKeeps ==
  ASSUME IInv, NEW n \in Node, NEW m \in InFlight, ReadComesHome(n, m)
  PROVE  Kept(Memory, Memory')
<1> DEFINE P == ReadSpent(n, m)
           U == Search(P, n, m.term.index, m.term.wec)
<1>1. m.to = n /\ m.type = "read" /\ m.term.node = n
  BY DEF ReadComesHome
<1>2. /\ Sound(P) /\ m.term \in Given /\ m.term.index \in Index
      /\ Live(P, n, ReadTarget(n, m))
      /\ \A a \in Node, i \in Index :
           /\ Surplus(P, a, i) = Surplus(Memory, a, i) + RefWeight(m.term, a, i)
           /\ Surplus(Memory, a, i) \in Nat /\ RefWeight(m.term, a, i) \in Nat
  BY <1>1, ReadReceived
<1>3. PICK S \in DoUnify(U, n, P.exp[n][m.term.index].data, ReadTarget(n, m), m.term.index) :
        Becomes(S)
  BY DEF ReadComesHome
<1> HIDE DEF P
<1>4. m.term.wec \in Nat \ {0} /\ m.term.wec <= P.exp[n][m.term.index].wec
  <2>1. m.term.wec \in Nat \ {0}
    BY <1>2, WecAssumption DEF Given, Reference
  <2>2. RefWeight(m.term, n, m.term.index) = m.term.wec
    BY <1>1 DEF RefWeight
  <2>3. Surplus(P, n, m.term.index) >= m.term.wec
    BY <1>2, <2>1, <2>2
  <2>4. /\ Surplus(P, n, m.term.index) <= P.exp[n][m.term.index].wec
        /\ Surplus(P, n, m.term.index) \in Int /\ P.exp[n][m.term.index].wec \in Nat
    BY <1>2, SurplusType DEF Sound
  <2> QED BY <2>1, <2>3, <2>4
<1>5. /\ Sound(U) /\ U.obj = P.obj /\ Live(P, n, P.exp[n][m.term.index].data)
      /\ \A a \in Node, j \in Index :
           Surplus(U, a, j)
             = Surplus(P, a, j) - RefWeight(RefTo(n, m.term.index, m.term.wec), a, j)
  BY <1>2, <1>4, SearchGivesBack, SMTT(30)
<1> HIDE DEF U
<1>6. Live(U, n, P.exp[n][m.term.index].data) /\ Live(U, n, ReadTarget(n, m))
  BY <1>2, <1>5 DEF Live
<1>7. Kept(U, S)
  BY <1>5, <1>6, DoUnifyKeeps
<1>8. Memory' = S
  BY <1>3, <1>7, BecomesIs DEF Kept
<1>9. \A a \in Node, i \in Index :
        RefWeight(RefTo(n, m.term.index, m.term.wec), a, i) = RefWeight(m.term, a, i)
  BY <1>1 DEF RefWeight, RefTo
<1>10. \A a \in Node, i \in Index : Surplus(U, a, i) = Surplus(Memory, a, i)
  BY <1>2, <1>5, <1>9
<1> QED BY <1>7, <1>8, <1>10 DEF Kept

LEMMA ReadAnsweredKeeps ==
  ASSUME IInv, NEW n \in Node, NEW m \in InFlight, ReadAnswered(n, m)
  PROVE  Kept(Memory, Memory')
<1> DEFINE P == ReadSpent(n, m)
           a == AnswerMsg(m.term)
           T == Post(P, One(a))
<1>1. m.to = n /\ m.type = "read" /\ Becomes(T)
  BY DEF ReadAnswered
<1>2. /\ Sound(P) /\ m.term \in Given /\ m.term.node \in Node /\ m.term.index \in Index
      /\ \A b \in Node, i \in Index :
           /\ Surplus(P, b, i) = Surplus(Memory, b, i) + RefWeight(m.term, b, i)
           /\ Surplus(Memory, b, i) \in Nat /\ RefWeight(m.term, b, i) \in Nat
  BY <1>1, ReadReceived
<1>3. /\ a.to = m.term.node /\ a.index = m.term.index /\ a.wec = m.term.wec /\ a.term = Bound
  BY DEF AnswerMsg, Message
<1>4. a \in Carried
  BY <1>2, WecAssumption
     DEF AnswerMsg, Message, Carried, InMessage, Given, Reference
<1> HIDE DEF a, P
<1>5. \A b \in Node, i \in Index : MessageWeight(a, b, i) = RefWeight(m.term, b, i)
  BY <1>2, <1>3 DEF MessageWeight, RefWeight, RefTo
<1>6. /\ Sound(T)
      /\ \A b \in Node, i \in Index : Surplus(T, b, i) = Surplus(P, b, i) - MessageWeight(a, b, i)
  BY <1>2, <1>4, PostOne DEF Sound
<1> HIDE DEF T
<1>7. Memory' = T
  BY <1>1, <1>6, BecomesIs
<1>8. \A b \in Node, i \in Index : Surplus(T, b, i) = Surplus(Memory, b, i)
  BY <1>2, <1>5, <1>6
<1> QED BY <1>6, <1>7, <1>8 DEF Kept

LEMMA ReadTransferredKeeps ==
  ASSUME IInv, NEW n \in Node, NEW m \in InFlight, ReadTransferred(n, m)
  PROVE  Kept(Memory, Memory')
<1> DEFINE P == ReadSpent(n, m)
           s == ReadTarget(n, m)
           o == obj[n][s]
           p == [o EXCEPT !.wec = o.wec - 1]
           back == RefTo(m.term.node, m.term.index, EXPORT_UNIT_WEC)
           r == ReadMsg(o, back, m.transc - 1)
           U == Put(P, n, s, p)
           T == Post(U, One(r))
<1>1. /\ m.to = n /\ m.type = "read" /\ s # Bound /\ Transferable(n, m)
      /\ Becomes(Post([P EXCEPT !.obj[n][s].wec = @ - 1], One(r)))
  BY DEF ReadTransferred
<1>2. /\ Sound(P) /\ P.obj = obj /\ m.term \in Given /\ m.term.wec = EXPORT_UNIT_WEC
      /\ m.transc \in Nat /\ Live(P, n, s)
      /\ \A a \in Node, i \in Index :
           /\ Surplus(P, a, i) = Surplus(Memory, a, i) + RefWeight(m.term, a, i)
           /\ Surplus(Memory, a, i) \in Nat /\ RefWeight(m.term, a, i) \in Nat
  BY <1>1, ReadReceived
<1> HIDE DEF P
<1>3. /\ Shaped(P) /\ P \in Memories /\ s \in Slot
      /\ P.obj[n][s] = o /\ o \in Objects /\ o # Free
  BY <1>1, <1>2 DEF Sound, Shaped, Memories, Live
<1>4. IsExref(o) /\ o.wec > MIN_WEC /\ m.transc - 1 \in Nat
  BY <1>1, <1>2 DEF Transferable
<1>5. /\ o \in Exrefs /\ o.node \in Node /\ o.index \in Index /\ o.wec \in Nat
      /\ o.wec - 1 \in Nat /\ o.wec - 1 >= MIN_WEC
  BY <1>3, <1>4, ObjectKinds, WecAssumption DEF Exrefs
<1>6. /\ p \in Exrefs /\ p \in Objects /\ p # Free
      /\ p.node = o.node /\ p.index = o.index /\ p.wec = o.wec - 1
  BY <1>5 DEF Exrefs, Objects, Free
<1>7. back = m.term
  BY <1>2 DEF RefTo, Given, Reference
<1>8. U = [P EXCEPT !.obj[n][s].wec = @ - 1]
  BY <1>3 DEF Put
<1> HIDE DEF p, back
<1>9. HasPut(P, U, n, s, p)
  BY <1>3, <1>6, PutObject
<1>10. Sound(U)
  BY <1>2, <1>6, <1>9, PutSound
<1>11. Becomes(T)
  BY <1>1, <1>8
<1> HIDE DEF U, s, o
<1>12. /\ r \in Carried
       /\ \A a \in Node, i \in Index :
            MessageWeight(r, a, i)
              = RefWeight(RefTo(o.node, o.index, 1), a, i) + RefWeight(m.term, a, i)
  BY <1>2, <1>4, <1>5, <1>7, ReadMsgWeighs
<1> HIDE DEF r
<1>13. /\ Sound(T)
       /\ \A a \in Node, i \in Index : Surplus(T, a, i) = Surplus(U, a, i) - MessageWeight(r, a, i)
  BY <1>10, <1>12, PostOne DEF Sound
<1> HIDE DEF T
<1>14. Memory' = T
  BY <1>11, <1>13, BecomesIs
<1>15. ASSUME NEW a \in Node, NEW i \in Index PROVE Surplus(T, a, i) = Surplus(Memory, a, i)
  <2>1. Surplus(U, a, i) = Surplus(P, a, i) + ObjWeight(o, a, i) - ObjWeight(p, a, i)
    BY <1>3, <1>9 DEF HasPut
  <2>2. ObjWeight(o, a, i) = RefWeight(o, a, i) /\ ObjWeight(p, a, i) = RefWeight(p, a, i)
    BY <1>5, <1>6, ObjectWeighs
  <2>3. /\ RefWeight(o, a, i) = RefWeight(p, a, i) + RefWeight(RefTo(o.node, o.index, 1), a, i)
        /\ RefWeight(p, a, i) \in Nat /\ RefWeight(RefTo(o.node, o.index, 1), a, i) \in Nat
    BY <1>5, <1>6 DEF RefWeight, RefTo
  <2> QED BY <1>2, <1>12, <1>13, <2>1, <2>2, <2>3
<1> QED BY <1>13, <1>14, <1>15 DEF Kept

LEMMA ReadHookedKeeps ==
  ASSUME IInv, NEW n \in Node, NEW m \in InFlight, ReadHooked(n, m)
  PROVE  Kept(Memory, Memory')
<1> DEFINE P == ReadSpent(n, m)
           s == ReadTarget(n, m)
           o == obj[n][s]
<1>1. m.to = n /\ m.type = "read" /\ s # Bound
  BY DEF ReadHooked
<1>2. /\ Sound(P) /\ P.obj = obj /\ m.term \in Given /\ Live(P, n, s)
      /\ \A a \in Node, i \in Index :
           /\ Surplus(P, a, i) = Surplus(Memory, a, i) + RefWeight(m.term, a, i)
           /\ Surplus(Memory, a, i) \in Nat /\ RefWeight(m.term, a, i) \in Nat
  BY <1>1, ReadReceived
<1>3. PICK S \in IF IsExref(o) THEN Generate(P, n, s) ELSE {P} :
        Becomes(AddReply(S, n, s, m.term))
  BY DEF ReadHooked
<1> HIDE DEF P
<1>4. s \in Slot /\ P.obj[n][s] = o /\ o \in Objects /\ o # Free
  BY <1>1, <1>2 DEF Sound, Shaped, Memories, Live
<1> HIDE DEF s, o
<1>5. Kept(P, S) /\ IsVar(S.obj[n][s])
  <2>1. CASE IsExref(o)
    BY <1>2, <1>3, <1>4, <2>1, GenerateKeeps
  <2>2. CASE ~IsExref(o)
    <3>1. S = P
      BY <1>3, <2>2
    <3>2. IsVar(o)
      BY <1>4, <2>2, ObjectKinds
    <3> QED BY <1>2, <1>4, <3>1, <3>2 DEF Kept
  <2> QED BY <2>1, <2>2
<1> DEFINE T == AddReply(S, n, s, m.term)
<1>6. /\ Sound(T)
      /\ \A a \in Node, i \in Index : Surplus(T, a, i) = Surplus(S, a, i) - RefWeight(m.term, a, i)
  BY <1>2, <1>4, <1>5, AddReplyTakes DEF Kept
<1> HIDE DEF T
<1>7. Memory' = T
  BY <1>3, <1>6, BecomesIs DEF T
<1>8. \A a \in Node, i \in Index : Surplus(T, a, i) = Surplus(Memory, a, i)
  BY <1>2, <1>5, <1>6 DEF Kept
<1> QED BY <1>6, <1>7, <1>8 DEF Kept

(* Every step keeps the memory, the collection of a variable with hooks    *)
(* excepted, which leaves entries with weight nobody has.                  *)
LosesHooks == \E n \in Node, s \in Slot : Collect(n, s) /\ HooksAt(<<n, s>>) # {}

LEMMA NextKeeps ==
  ASSUME IInv, [Next]_vars
  PROVE  /\ Sound(Memory')
         /\ \A a \in Node, i \in Index : Surplus(Memory', a, i) >= Surplus(Memory, a, i)
         /\ ~LosesHooks => Kept(Memory, Memory')
<1>1. ASSUME Kept(Memory, Memory')
      PROVE  /\ Sound(Memory')
             /\ \A a \in Node, i \in Index : Surplus(Memory', a, i) >= Surplus(Memory, a, i)
  <2>1. \A a \in Node, i \in Index : Surplus(Memory, a, i) \in Int
    BY SurplusType DEF IInv, Sound
  <2> QED BY <1>1, <2>1 DEF Kept
<1>2. CASE UNCHANGED vars
  <2>1. Memory' = Memory
    BY <1>2 DEF vars, Memory
  <2> QED BY <1>1, <2>1 DEF IInv, Kept
<1>3. ASSUME NEW n \in Node, GoalStep(n) PROVE Kept(Memory, Memory')
  BY <1>3, NewVarKeeps, SuspendKeeps, BindTermKeeps, DropKeeps, ThrowKeeps, AliasKeeps
     DEF GoalStep
<1>4. ASSUME NEW n \in Node, ReceiveStep(n) PROVE Kept(Memory, Memory')
  BY <1>4, ReceiveThrowKeeps, ReceiveUnifyKeeps, ReceiveAnswerKeeps, ReceiveReleaseKeeps,
     ReadComesHomeKeeps, ReadAnsweredKeeps, ReadTransferredKeeps, ReadHookedKeeps
     DEF ReceiveStep
<1>5. ASSUME NEW n \in Node, NEW s \in Slot, Collect(n, s)
      PROVE  /\ Sound(Memory')
             /\ \A a \in Node, i \in Index : Surplus(Memory', a, i) >= Surplus(Memory, a, i)
             /\ ~LosesHooks => Kept(Memory, Memory')
  BY <1>5, CollectKeeps DEF LosesHooks
<1> QED BY <1>1, <1>2, <1>3, <1>4, <1>5 DEF Next, CollectStep

LEMMA Invariance == Spec => []IInv
<1>1. Init => IInv
  BY InitSound
<1>2. IInv /\ [Next]_vars => IInv'
  <2> SUFFICES ASSUME IInv, [Next]_vars PROVE IInv'
    OBVIOUS
  <2>1. /\ Sound(Memory')
        /\ \A a \in Node, i \in Index : Surplus(Memory', a, i) >= Surplus(Memory, a, i)
    BY NextKeeps
  <2>2. \A a \in Node, i \in Index :
          /\ Surplus(Memory, a, i) \in Int /\ Surplus(Memory, a, i) >= 0
          /\ Surplus(Memory', a, i) \in Int
    BY <2>1, SurplusType DEF IInv, NoneLacks, Sound
  <2>3. \A a \in Node, i \in Index : Surplus(Memory', a, i) >= 0
    BY <2>1, <2>2
  <2>4. NoneLacks(Memory')
    BY <2>3 DEF NoneLacks
  <2> QED BY <2>1, <2>4 DEF IInv
<1> QED BY <1>1, <1>2, PTL DEF Spec

-----------------------------------------------------------------------------
(* What the entries of a well-typed memory are referred to by.             *)
LEMMA PlaceFacts ==
  ASSUME IInv, NEW p \in Places
  PROVE  /\ At(p) \in Objects
         /\ \A a \in Node, i \in Index :
              ObjWeight(At(p), a, i) <= exp[a][i].wec /\ ObjWeight(At(p), a, i) \in Nat
<1>1. Shaped(Memory) /\ Memory \in Memories
  BY DEF IInv, Sound, Shaped
<1>2. At(p) \in Objects
  BY <1>1, MemoryFields DEF Memories, At, Places
<1>3. ASSUME NEW a \in Node, NEW i \in Index
      PROVE  ObjWeight(At(p), a, i) <= exp[a][i].wec /\ ObjWeight(At(p), a, i) \in Nat
  <2> DEFINE f == Placed(Memory, a, i)
  <2>1. f[p] = ObjWeight(At(p), a, i)
    BY MemoryFields DEF Placed, At
  <2>2. /\ f \in [Places -> Nat] /\ IsFiniteSet(Grains(f)) /\ Total(f) \in Nat
        /\ FlightWeight(Memory.net, a, i) \in Nat /\ exp[a][i].wec \in Nat
        /\ Surplus(Memory, a, i) = exp[a][i].wec - Total(f) - FlightWeight(Memory.net, a, i)
        /\ Surplus(Memory, a, i) >= 0
    BY <1>1, SurplusType, MemoryFields DEF Shaped, Surplus, IInv, NoneLacks
  <2> HIDE DEF f
  <2>3. f[p] <= Total(f)
    BY <2>2, TotalAtLeast
  <2>4. ObjWeight(At(p), a, i) \in Nat
    BY <1>2, ObjectWeighs
  <2> QED BY <2>1, <2>2, <2>3, <2>4
<1> QED BY <1>2, <1>3

LEMMA FlightFacts ==
  ASSUME IInv, NEW m \in InFlight
  PROVE  /\ m \in Carried
         /\ \A a \in Node, i \in Index :
              MessageWeight(m, a, i) <= exp[a][i].wec /\ MessageWeight(m, a, i) \in Nat
<1>1. Shaped(Memory) /\ Memory.net \in Flights /\ m \in BagToSet(Memory.net)
  BY MemoryFields DEF IInv, Sound, Shaped, Memories, InFlight
<1>2. m \in Carried
  BY <1>1, BagsOfAre DEF Flights
<1>3. ASSUME NEW a \in Node, NEW i \in Index
      PROVE  MessageWeight(m, a, i) <= exp[a][i].wec /\ MessageWeight(m, a, i) \in Nat
  <2>1. /\ MessageWeight(m, a, i) <= FlightWeight(Memory.net, a, i)
        /\ MessageWeight(m, a, i) \in Nat
    BY <1>1, <1>2, FlightsWeigh, WeightTypes
  <2>2. /\ Total(Placed(Memory, a, i)) \in Nat
        /\ FlightWeight(Memory.net, a, i) \in Nat /\ exp[a][i].wec \in Nat
        /\ Surplus(Memory, a, i)
             = exp[a][i].wec - Total(Placed(Memory, a, i)) - FlightWeight(Memory.net, a, i)
        /\ Surplus(Memory, a, i) >= 0
    BY <1>1, SurplusType, MemoryFields DEF Surplus, IInv, NoneLacks
  <2> QED BY <2>1, <2>2
<1> QED BY <1>2, <1>3

LEMMA UsedWhenWeighed ==
  ASSUME NEW a, NEW i, exp[a][i].wec \in Nat, exp[a][i].wec > 0
  PROVE  exp[a][i] # Unused
  BY DEF Unused

(* The variables have the values the program can give them.                *)
THEOREM TypeCorrect == Spec => []TypeOK
<1>1. IInv => TypeOK
  <2> SUFFICES ASSUME IInv PROVE TypeOK
    OBVIOUS
  <2>1. Memory \in Memories
    BY DEF IInv, Sound, Shaped
  <2>2. /\ exp \in [Node -> [Index -> Entries]] /\ obj \in [Node -> [Slot -> Objects]]
        /\ held \in [Node -> SUBSET Slot] /\ net \in Flights
    BY <2>1, MemoryFields DEF Memories
  <2>3. exp \in [Node -> [Index -> [wec : Nat, data : Slot \cup {Bound, None}]]]
    <3>1. Entries \subseteq [wec : Nat, data : Slot \cup {Bound, None}]
      BY DEF Entries, Unused
    <3> QED BY <2>2, <3>1
  <2>4. ASSUME NEW n \in Node, NEW s \in Slot
        PROVE  LET o == obj[n][s]
               IN  \/ o = Free
                   \/ o \in [kind : {"exref"}, node : Node, index : Index, wec : Nat]
                   \/ IsVar(o) /\ o = Var(o.hooks) /\ IsABag(o.hooks)
                        /\ BagToSet(o.hooks) \subseteq Hooked
    <3> DEFINE o == obj[n][s]
    <3>1. o \in Objects
      BY <2>2
    <3> HIDE DEF o
    <3>2. CASE o \in Exrefs
      BY <3>2 DEF o, Exrefs
    <3>3. CASE o = Var(o.hooks) /\ o.hooks \in HookBags
      <4>1. IsABag(o.hooks) /\ BagToSet(o.hooks) \subseteq Hook
        BY <3>3, BagsOfAre DEF HookBags
      <4>2. Hook \subseteq Hooked
        BY DEF Hook
      <4>3. IsVar(o)
        BY <3>3 DEF IsVar, Var
      <4> QED BY <3>3, <4>1, <4>2, <4>3 DEF o
    <3> QED BY <3>1, <3>2, <3>3, ObjectKinds DEF o
  <2>5. IsABag(net) /\ InFlight \subseteq InMessage
    BY <2>2, BagsOfAre DEF Flights, InFlight, Carried
  <2> QED BY <2>2, <2>3, <2>4, <2>5 DEF TypeOK
<1> QED BY <1>1, Invariance, PTL

(* No node ever stops with "illegal exp record" or "illegal WEC in exref   *)
(* object": an entry is not freed, by search_exptbl(), before all that     *)
(* refers to it has come home.                                             *)
THEOREM NeverStopsIllegal == Spec => []NeverIllegal
<1>1. IInv => NeverIllegal
  <2> SUFFICES ASSUME IInv PROVE NeverIllegal
    OBVIOUS
  <2>0. \A a \in Node, i \in Index : exp[a][i].wec \in Nat
    BY SurplusType, MemoryFields DEF IInv, Sound
  <2>1. ASSUME NEW p \in Places, IsExref(At(p)) PROVE At(p).wec >= MIN_WEC /\ Backed(At(p))
    <3> DEFINE o == At(p)
    <3>1. o \in Exrefs
      BY <2>1, PlaceFacts, ObjectKinds
    <3> HIDE DEF o
    <3>2. /\ o.node \in Node /\ o.index \in Index /\ o.wec \in Nat
          /\ o.wec >= MIN_WEC /\ o.wec > 0
      BY <3>1, WecAssumption DEF Exrefs
    <3>3. ObjWeight(o, o.node, o.index) = o.wec
      BY <3>1, <3>2, ObjectWeighs DEF RefWeight
    <3>4. o.wec <= exp[o.node][o.index].wec
      BY <3>2, <3>3, PlaceFacts DEF o
    <3>5. exp[o.node][o.index] # Unused
      BY <2>0, <3>2, <3>4, UsedWhenWeighed
    <3> QED BY <3>2, <3>5 DEF Backed, o
  <2>2. ASSUME NEW p \in Places, NEW h \in HooksAt(p) PROVE Backed(h)
    <3> DEFINE o == At(p)  b == o.hooks
    <3>1. IsVar(o) /\ h \in BagToSet(b)
      BY <2>2 DEF HooksAt
    <3>2. o = Var(b) /\ b \in HookBags
      BY <3>1, PlaceFacts, ObjectKinds
    <3> HIDE DEF b
    <3>3. h \in Hook
      BY <3>1, <3>2, BagsOfAre DEF HookBags
    <3>4. h.node \in Node /\ h.index \in Index /\ h.wec \in Nat /\ h.wec > 0
      BY <3>3 DEF Hook, Hooked
    <3>5. RefWeight(h, h.node, h.index) = h.wec
      BY DEF RefWeight
    <3>6. h.wec <= ObjWeight(o, h.node, h.index)
      BY <3>1, <3>2, <3>4, <3>5, HooksWeigh, ObjectWeighs
    <3> HIDE DEF o
    <3>7. h.wec <= exp[h.node][h.index].wec
      <4>1. /\ ObjWeight(o, h.node, h.index) <= exp[h.node][h.index].wec
            /\ ObjWeight(o, h.node, h.index) \in Nat
        BY <3>4, PlaceFacts DEF o
      <4> QED BY <2>0, <3>4, <3>6, <4>1
    <3>8. exp[h.node][h.index] # Unused
      BY <2>0, <3>4, <3>7, UsedWhenWeighed
    <3> QED BY <3>4, <3>8 DEF Backed
  <2>3. ASSUME NEW m \in InFlight
        PROVE  /\ m.type # "throw" => Backed(RefTo(m.to, m.index, m.wec))
               /\ m.term \notin {Bound, None} => Backed(m.term)
    <3>1. /\ m \in Carried
          /\ \A a \in Node, i \in Index :
               MessageWeight(m, a, i) <= exp[a][i].wec /\ MessageWeight(m, a, i) \in Nat
      BY FlightFacts
    <3>2. ASSUME m.type # "throw" PROVE Backed(RefTo(m.to, m.index, m.wec))
      <4> DEFINE r == RefTo(m.to, m.index, m.wec)
      <4>1. /\ r.node \in Node /\ r.index \in Index /\ r.wec \in Nat \ {0}
            /\ MessageWeight(m, r.node, r.index)
                 = RefWeight(r, r.node, r.index) + TermWeight(m.term, r.node, r.index)
            /\ TermWeight(m.term, r.node, r.index) \in Nat
        BY <3>1, <3>2, MessageParts DEF RefTo
      <4> HIDE DEF r
      <4>2. RefWeight(r, r.node, r.index) = r.wec
        BY DEF RefWeight
      <4>3. r.wec <= exp[r.node][r.index].wec
        BY <2>0, <3>1, <4>1, <4>2
      <4>4. exp[r.node][r.index] # Unused
        BY <2>0, <4>1, <4>3, UsedWhenWeighed
      <4> QED BY <4>1, <4>4 DEF Backed, r
    <3>3. ASSUME m.term \notin {Bound, None} PROVE Backed(m.term)
      <4> DEFINE t == m.term
      <4>1. t \in Given
        BY <3>1, <3>3, MessageParts
      <4>2. t.node \in Node /\ t.index \in Index /\ t.wec \in Nat /\ t.wec > 0
        BY <4>1, WecAssumption DEF Given, Reference
      <4>3. TermWeight(t, t.node, t.index) = t.wec
        BY <4>1, <4>2, WeightTypes DEF RefWeight
      <4>4. MessageWeight(m, t.node, t.index) >= TermWeight(t, t.node, t.index)
        <5>1. RefWeight(RefTo(m.to, m.index, m.wec), t.node, t.index) \in Nat
          BY <3>1 DEF Carried, InMessage, RefWeight, RefTo
        <5>2. MessageWeight(m, t.node, t.index)
                = RefWeight(RefTo(m.to, m.index, m.wec), t.node, t.index)
                    + TermWeight(t, t.node, t.index)
          BY DEF MessageWeight, TermWeight
        <5> QED BY <4>2, <4>3, <5>1, <5>2
      <4> HIDE DEF t
      <4>5. t.wec <= exp[t.node][t.index].wec
        BY <2>0, <3>1, <4>2, <4>3, <4>4
      <4>6. exp[t.node][t.index] # Unused
        BY <2>0, <4>2, <4>5, UsedWhenWeighed
      <4> QED BY <4>2, <4>6 DEF Backed, t
    <3> QED BY <3>2, <3>3
  <2> QED BY <2>1, <2>2, <2>3 DEF NeverIllegal
<1> QED BY <1>1, Invariance, PTL

(* What goals or export entries refer to exists: scan_imp_table() takes    *)
(* none of it after a collection, and binding leaves no reference behind.  *)
THEOREM NoneDangles == Spec => []NothingDangles
<1>1. IInv => NothingDangles
  <2> SUFFICES ASSUME IInv, NEW p \in Places, Wanted(p) PROVE At(p) # Free
    BY DEF NothingDangles
  <2>1. p[1] \in Node /\ p[2] \in Slot
    BY DEF Places
  <2>2. CASE p[2] \in held[p[1]]
    BY <2>1, <2>2, HeldLive DEF At
  <2>3. ASSUME NEW i \in Index, exp[p[1]][i].data = p[2] PROVE At(p) # Free
    <3>1. exp[p[1]][i] # Unused
      BY <2>1, <2>3, TermAssumption DEF Unused
    <3>2. Live(Memory, p[1], p[2])
      BY <2>1, <2>3, <3>1, MemoryFields DEF IInv, Sound, Rooted
    <3> QED BY <2>1, <3>2, TermAssumption, MemoryFields DEF Live, At
  <2> QED BY <2>2, <2>3 DEF Wanted
<1> QED BY <1>1, Invariance, PTL

(* Weight that all hold together: no surplus anywhere.                     *)
Balanced == \A a \in Node, i \in Index : Surplus(Memory, a, i) = 0

LEMMA WecFacts ==
  ASSUME IInv, NEW a \in Node, NEW i \in Index
  PROVE  LET t == Total([p \in Places |-> ObjWeight(At(p), a, i)])
             u == Total([m \in InFlight |-> net[m] * MessageWeight(m, a, i)])
         IN  /\ Surplus(Memory, a, i) = exp[a][i].wec - t - u
             /\ t \in Nat /\ u \in Nat /\ exp[a][i].wec \in Nat
<1> DEFINE f == [p \in Places |-> ObjWeight(At(p), a, i)]
           u == Total([m \in InFlight |-> net[m] * MessageWeight(m, a, i)])
<1>1. Shaped(Memory) /\ Memory.net \in Flights
  BY DEF IInv, Sound, Shaped, Memories
<1>2. Placed(Memory, a, i) = f
  BY MemoryFields DEF Placed, At
<1>3. FlightWeight(Memory.net, a, i) = u
  BY <1>1, FlightsWeigh, MemoryFields DEF InFlight
<1> HIDE DEF f, u
<1>4. /\ Total(f) \in Nat /\ u \in Nat /\ exp[a][i].wec \in Nat
      /\ Surplus(Memory, a, i) = exp[a][i].wec - Total(f) - u
  BY <1>1, <1>2, <1>3, SurplusType, MemoryFields DEF Surplus
<1> QED BY <1>4 DEF f, u

LEMMA BalancedIsConserved == IInv => (WecConserved <=> Balanced)
<1> SUFFICES ASSUME IInv PROVE WecConserved <=> Balanced
  OBVIOUS
<1>1. ASSUME NEW a \in Node, NEW i \in Index
      PROVE  Surplus(Memory, a, i) = 0 <=>
               exp[a][i].wec = Total([p \in Places |-> ObjWeight(At(p), a, i)])
                                 + Total([m \in InFlight |-> net[m] * MessageWeight(m, a, i)])
  BY WecFacts
<1> QED BY <1>1 DEF WecConserved, Balanced

(* An entry has at least as much weight as all that refers to it: what     *)
(* search_exptbl() frees, nothing refers to.                               *)
NeverShort ==
  \A n \in Node, i \in Index :
    exp[n][i].wec >= Total([p \in Places |-> ObjWeight(At(p), n, i)])
                       + Total([m \in InFlight |-> net[m] * MessageWeight(m, n, i)])

THEOREM WeightNeverShort == Spec => []NeverShort
<1>1. IInv => NeverShort
  <2> SUFFICES ASSUME IInv, NEW n \in Node, NEW i \in Index
               PROVE  exp[n][i].wec >= Total([p \in Places |-> ObjWeight(At(p), n, i)])
                        + Total([m \in InFlight |-> net[m] * MessageWeight(m, n, i)])
    BY DEF NeverShort
  <2>1. Surplus(Memory, n, i) >= 0
    BY DEF IInv, NoneLacks
  <2> QED BY <2>1, WecFacts
<1> QED BY <1>1, Invariance, PTL

(* No step of any node changes the balance of weights but the collection   *)
(* of a variable that something is hooked on, which forgets the hooks.     *)
LEMMA BalanceKept ==
  ASSUME IInv, WecConserved, [Next]_vars, ~LosesHooks
  PROVE  WecConserved'
<1>1. IInv'
  <2>1. Kept(Memory, Memory')
    BY NextKeeps
  <2> QED BY <2>1 DEF IInv, NoneLacks, Kept
<1>2. Kept(Memory, Memory')
  BY NextKeeps
<1>3. Balanced
  BY BalancedIsConserved
<1>4. Balanced'
  BY <1>2, <1>3 DEF Balanced, Kept
<1>5. IInv' => (WecConserved' <=> Balanced')
  BY BalancedIsConserved, PTL
<1> QED BY <1>1, <1>4, <1>5

THEOREM OnlyLostHooksUnbalance ==
  Spec => [][WecConserved /\ ~LosesHooks => WecConserved']_vars
<1>1. IInv /\ [Next]_vars => [WecConserved /\ ~LosesHooks => WecConserved']_vars
  BY BalanceKept
<1> QED BY <1>1, Invariance, PTL DEF Spec

(* Weight is conserved if nothing that somebody waits for gets unreachable: *)
(* scan_imp_table() then never meets hooks it would forget.                *)
HookedIsWanted == \A p \in Places : HooksAt(p) # {} => Wanted(p)

LEMMA ConservedWhileWanted == Spec /\ []HookedIsWanted => []WecConserved
<1>1. Init => WecConserved
  BY InitSound, BalancedIsConserved DEF Balanced
<1>2. HookedIsWanted => ~LosesHooks
  <2> SUFFICES ASSUME HookedIsWanted, NEW n \in Node, NEW s \in Slot, Collect(n, s),
                      HooksAt(<<n, s>>) # {}
               PROVE  FALSE
    BY DEF LosesHooks
  <2>1. <<n, s>> \in Places /\ <<n, s>>[1] = n /\ <<n, s>>[2] = s
    BY DEF Places
  <2>2. Wanted(<<n, s>>)
    BY <2>1 DEF HookedIsWanted
  <2>3. s \in held[n] \/ \E i \in Index : exp[n][i].data = s
    BY <2>1, <2>2 DEF Wanted
  <2> QED BY <2>3 DEF Collect, Unreachable
<1>3. IInv /\ WecConserved /\ [Next]_vars /\ HookedIsWanted => WecConserved'
  BY <1>2, BalanceKept
<1> QED BY <1>1, <1>3, Invariance, PTL DEF Spec
=============================================================================
