----------------------------- MODULE ExRef_reads -----------------------------
(***************************************************************************)
(* Nobody waits in vain, and a read is answered once, for any nodes,       *)
(* tables, heaps and weights.  A step of a handler changes the graph of    *)
(* who waits for whom: places are renamed, references become hooks, and    *)
(* what was on its way arrives.  First what a graph must keep for that,    *)
(* then what each operation makes of the graph of a memory, then the       *)
(* steps, and what follows.                                                *)
(***************************************************************************)
EXTENDS ExRef_proofs

-----------------------------------------------------------------------------
(* Graphs.  A set of places is vain when nothing leads out of it and       *)
(* nobody reads into it; somebody who waits in it would wait in vain.  Two *)
(* spots are on the same side when every such set has both or neither.     *)
Spots == Places \cup {Nowhere}
Vain(G, C) == C \in SUBSET Places /\ Enclosed(G, C) /\ ~ReadInto(G, C)
SameSide(G, a, b) == \A C : Vain(G, C) => (a \in C <=> b \in C)

Drawn(G) ==
  /\ G.links \subseteq Spots \X Spots
  /\ \A w \in G.waits : w.at \in Places /\ w.on \in Spots
  /\ \A k \in G.asks : k.at \in Spots

(* Spots are renamed by f.                                                 *)
Before(f, C) == {p \in Places : f[p] \in C}
AskedAgain(H, f, k) ==
  \E j \in H.asks : j.node = k.node /\ j.index = k.index /\ SameSide(H, j.at, f[k.at])
Answered(G, H, f, k) ==
  \A p \in Places :
    k.node = p[1] /\ <<p, k.index>> \in G.open /\ f[p] # Nowhere =>
      \/ SameSide(H, f[p], f[k.at])
      \/ <<f[p], k.index>> \in H.open /\ AskedAgain(H, f, k)

LEMMA NowhereIs == Nowhere \notin Places
<1> SUFFICES ASSUME NEW n \in Node, NEW s \in Slot, <<>> = <<n, s>> PROVE FALSE
  BY DEF Nowhere, Places
<1> QED OBVIOUS

LEMMA SameSideBasics ==
  ASSUME NEW G, NEW a, NEW b
  PROVE  /\ SameSide(G, a, a)
         /\ SameSide(G, a, b) => SameSide(G, b, a)
         /\ \A c : SameSide(G, a, b) /\ SameSide(G, b, c) => SameSide(G, a, c)
         /\ <<a, b>> \in G.links => SameSide(G, a, b)
<1>1. <<a, b>> \in G.links => SameSide(G, a, b)
  BY DEF SameSide, Vain, Enclosed
<1> QED BY <1>1 DEF SameSide

(* Nobody waits in vain in H, when H has all that G has: a link as two     *)
(* spots on the same side; a hook, unless it was on what got a value, and  *)
(* then what it is for gets the value too; what hooks ask for; and when    *)
(* nobody waits in H who did not in G.                                     *)
LEMMA Carry ==
  ASSUME NEW G, NEW H, Drawn(G), NEW f \in [Spots -> Spots], f[Nowhere] = Nowhere,
         \A l \in G.links : SameSide(H, f[l[1]], f[l[2]]),
         \A w \in G.waits :
           /\ f[w.at] # Nowhere =>
                /\ f[w.at][1] = w.at[1]
                /\ Wait(f[w.at], w.ret, f[w.on]) \in H.waits
           /\ f[w.at] = Nowhere =>
                \/ SameSide(H, f[w.on], Nowhere)
                \/ \A k \in G.asks : ~AsksFor(G, k, w),
         \A k \in G.asks : Answered(G, H, f, k),
         \A C : Vain(H, C) /\ Awaited(H, C) => Awaited(G, Before(f, C)),
         NeverInVain(G)
  PROVE  NeverInVain(H)
<1> SUFFICES ASSUME NEW C \in SUBSET Places, Enclosed(H, C), Awaited(H, C), ~ReadInto(H, C)
             PROVE  FALSE
  BY DEF NeverInVain
<1> DEFINE B == Before(f, C)
<1>1. Vain(H, C)
  BY DEF Vain
<1>2. B \in SUBSET Places /\ Nowhere \notin C /\ Nowhere \notin B
  BY NowhereIs DEF Before
<1>3. \A a \in Spots : a \in B <=> f[a] \in C
  BY <1>2 DEF Before, Spots
<1>4. \A a, b : SameSide(H, a, b) => (a \in C <=> b \in C)
  BY <1>1 DEF SameSide
<1> HIDE DEF B
<1>5. \A w \in G.waits : w.at \in Places /\ w.at \in Spots /\ w.on \in Spots
  BY DEF Drawn, Spots
<1>6. \A k \in G.asks : k.at \in Spots
  BY DEF Drawn
<1>7. ASSUME NEW w \in G.waits, NEW k \in G.asks, AsksFor(G, k, w), f[w.at] # Nowhere
      PROVE  LET v == Wait(f[w.at], w.ret, f[w.on])
             IN  \/ SameSide(H, f[w.at], f[k.at])
                 \/ \E j \in H.asks : AsksFor(H, j, v) /\ SameSide(H, j.at, f[k.at])
  <2>1. k.node = w.at[1] /\ k.index = w.ret /\ <<w.at, k.index>> \in G.open
    BY <1>7 DEF AsksFor
  <2>2. CASE SameSide(H, f[w.at], f[k.at])
    BY <2>2
  <2>3. CASE <<f[w.at], k.index>> \in H.open /\ AskedAgain(H, f, k)
    <3>1. PICK j \in H.asks : /\ j.node = k.node /\ j.index = k.index
                              /\ SameSide(H, j.at, f[k.at])
      BY <2>3 DEF AskedAgain
    <3>2. f[w.at][1] = w.at[1]
      BY <1>7
    <3>3. AsksFor(H, j, Wait(f[w.at], w.ret, f[w.on]))
      BY <2>1, <2>3, <3>1, <3>2 DEF AsksFor, Wait
    <3> QED BY <3>1, <3>3
  <2> QED BY <1>5, <1>7, <2>1, <2>2, <2>3 DEF Answered
<1>8. Enclosed(G, B)
  <2>1. ASSUME NEW l \in G.links PROVE l[1] \in B <=> l[2] \in B
    <3>1. l[1] \in Spots /\ l[2] \in Spots
      BY DEF Drawn
    <3> QED BY <1>3, <1>4, <3>1
  <2>2. ASSUME NEW w \in G.waits, NEW k \in G.asks, w.at \in B, AsksFor(G, k, w)
        PROVE  k.at \in B
    <3>1. f[w.at] \in C /\ f[w.at] # Nowhere
      BY <1>2, <1>3, <1>5, <2>2
    <3> DEFINE v == Wait(f[w.at], w.ret, f[w.on])
    <3>2. v \in H.waits /\ v.at \in C
      BY <3>1 DEF Wait
    <3>3. f[k.at] \in C
      <4>1. CASE SameSide(H, f[w.at], f[k.at])
        BY <1>4, <3>1, <4>1
      <4>2. CASE \E j \in H.asks : AsksFor(H, j, v) /\ SameSide(H, j.at, f[k.at])
        BY <1>4, <3>2, <4>2 DEF Enclosed
      <4> QED BY <1>7, <2>2, <3>1, <4>1, <4>2
    <3> QED BY <1>3, <1>6, <3>3
  <2> QED BY <2>1, <2>2 DEF Enclosed
<1>9. Awaited(G, B)
  BY <1>1 DEF B
<1>10. ReadInto(G, B)
  BY <1>2, <1>8, <1>9 DEF NeverInVain
<1>11. PICK w \in G.waits : /\ w.on \in B
                            /\ w.at \in B \/ \E k \in G.asks : AsksFor(G, k, w) /\ k.at \in B
  BY <1>10 DEF ReadInto
<1>12. f[w.on] \in C
  BY <1>3, <1>5, <1>11
<1>13. CASE f[w.at] = Nowhere
  <2>1. w.at \notin B
    BY <1>2, <1>3, <1>5, <1>13
  <2>2. ~SameSide(H, f[w.on], Nowhere)
    BY <1>2, <1>4, <1>12
  <2> QED BY <1>11, <1>13, <2>1, <2>2
<1>14. CASE f[w.at] # Nowhere
  <2> DEFINE v == Wait(f[w.at], w.ret, f[w.on])
  <2>1. v \in H.waits /\ v.on \in C /\ v.at = f[w.at]
    BY <1>12, <1>14 DEF Wait
  <2>2. ASSUME f[w.at] \in C PROVE FALSE
    BY <2>1, <2>2 DEF ReadInto
  <2>3. ASSUME NEW k \in G.asks, AsksFor(G, k, w), k.at \in B PROVE FALSE
    <3>1. f[k.at] \in C
      BY <1>3, <1>6, <2>3
    <3>2. CASE SameSide(H, f[w.at], f[k.at])
      BY <1>4, <2>2, <3>1, <3>2
    <3>3. CASE \E j \in H.asks : AsksFor(H, j, v) /\ SameSide(H, j.at, f[k.at])
      BY <1>4, <2>1, <3>1, <3>3 DEF ReadInto
    <3> QED BY <1>7, <1>14, <2>3, <3>2, <3>3
  <2>4. w.at \notin B
    BY <1>3, <1>5, <2>2
  <2> QED BY <1>11, <2>3, <2>4
<1> QED BY <1>13, <1>14

-----------------------------------------------------------------------------
(* The graph of a memory, with links and asks that are in nobody's hands:  *)
(* those of the message a handler has received.                            *)
With(S, L, K) ==
  [links |-> Links(S) \cup L, waits |-> Waits(S), asks |-> Asks(S) \cup K, open |-> Open(S)]

Backs(S, r) == r.node \in Node /\ r.index \in Index /\ S.exp[r.node][r.index] # Unused

LEMMA ContentFacts ==
  ASSUME NEW S, Sound(S), NoneLacks(S), NEW p \in Places
  PROVE  /\ Content(S, p) \in Objects
         /\ \A a \in Node, i \in Index :
              /\ ObjWeight(Content(S, p), a, i) <= S.exp[a][i].wec
              /\ ObjWeight(Content(S, p), a, i) \in Nat
<1>1. Shaped(S) /\ S \in Memories
  BY DEF Sound, Shaped
<1>2. Content(S, p) \in Objects
  BY <1>1 DEF Memories, Content, Places
<1>3. ASSUME NEW a \in Node, NEW i \in Index
      PROVE  /\ ObjWeight(Content(S, p), a, i) <= S.exp[a][i].wec
             /\ ObjWeight(Content(S, p), a, i) \in Nat
  <2> DEFINE f == Placed(S, a, i)
  <2>1. f[p] = ObjWeight(Content(S, p), a, i)
    BY DEF Placed, Content
  <2>2. /\ f \in [Places -> Nat] /\ IsFiniteSet(Grains(f)) /\ Total(f) \in Nat
        /\ FlightWeight(S.net, a, i) \in Nat /\ S.exp[a][i].wec \in Nat
        /\ Surplus(S, a, i) = S.exp[a][i].wec - Total(f) - FlightWeight(S.net, a, i)
        /\ Surplus(S, a, i) >= 0
    BY <1>1, SurplusType DEF Shaped, Surplus, NoneLacks
  <2> HIDE DEF f
  <2>3. f[p] <= Total(f)
    BY <2>2, TotalAtLeast
  <2>4. ObjWeight(Content(S, p), a, i) \in Nat
    BY <1>2, ObjectWeighs
  <2> QED BY <2>1, <2>2, <2>3, <2>4
<1> QED BY <1>2, <1>3

LEMMA NetFacts ==
  ASSUME NEW S, Sound(S), NoneLacks(S), NEW m \in BagToSet(S.net)
  PROVE  /\ m \in Carried
         /\ \A a \in Node, i \in Index :
              /\ MessageWeight(m, a, i) <= S.exp[a][i].wec
              /\ MessageWeight(m, a, i) \in Nat
<1>1. Shaped(S) /\ S.net \in Flights
  BY DEF Sound, Shaped, Memories
<1>2. m \in Carried
  BY <1>1, BagsOfAre DEF Flights
<1>3. ASSUME NEW a \in Node, NEW i \in Index
      PROVE  /\ MessageWeight(m, a, i) <= S.exp[a][i].wec
             /\ MessageWeight(m, a, i) \in Nat
  <2>1. /\ MessageWeight(m, a, i) <= FlightWeight(S.net, a, i)
        /\ MessageWeight(m, a, i) \in Nat
    BY <1>1, <1>2, FlightsWeigh, WeightTypes
  <2>2. /\ Total(Placed(S, a, i)) \in Nat
        /\ FlightWeight(S.net, a, i) \in Nat /\ S.exp[a][i].wec \in Nat
        /\ Surplus(S, a, i) = S.exp[a][i].wec - Total(Placed(S, a, i)) - FlightWeight(S.net, a, i)
        /\ Surplus(S, a, i) >= 0
    BY <1>1, SurplusType DEF Surplus, NoneLacks
  <2> QED BY <2>1, <2>2
<1> QED BY <1>2, <1>3

(* Whatever refers to an entry has a share of its weight, and finds it     *)
(* used.                                                                   *)
LEMMA ShareBacks ==
  ASSUME NEW S, Sound(S), NEW r, r.node \in Node, r.index \in Index,
         NEW w \in Nat \ {0}, w <= S.exp[r.node][r.index].wec
  PROVE  Backs(S, r)
<1>1. S.exp[r.node][r.index].wec \in Nat
  BY SurplusType DEF Sound
<1> QED BY <1>1 DEF Backs, Unused

LEMMA ExrefBacks ==
  ASSUME NEW S, Sound(S), NoneLacks(S), NEW p \in Places, IsExref(Content(S, p))
  PROVE  Content(S, p) \in Exrefs /\ Backs(S, Content(S, p))
<1> DEFINE o == Content(S, p)
<1>1. o \in Objects
  BY ContentFacts
<1>2. o \in Exrefs
  BY <1>1, ObjectKinds
<1> HIDE DEF o
<1>3. /\ o.node \in Node /\ o.index \in Index /\ o.wec \in Nat \ {0}
  BY <1>2, WecAssumption DEF Exrefs
<1>4. ObjWeight(o, o.node, o.index) = o.wec
  BY <1>2, <1>3, ObjectWeighs DEF RefWeight
<1>5. o.wec <= S.exp[o.node][o.index].wec
  BY <1>3, <1>4, ContentFacts DEF o
<1> QED BY <1>2, <1>3, <1>5, ShareBacks DEF o

LEMMA HookBacks ==
  ASSUME NEW S, Sound(S), NoneLacks(S), NEW p \in Places, NEW h \in HooksOn(S, p)
  PROVE  /\ h \in Hook /\ Backs(S, h)
         /\ IsVar(Content(S, p)) /\ Content(S, p).hooks \in HookBags
         /\ h \in BagToSet(Content(S, p).hooks)
<1> DEFINE o == Content(S, p)  b == o.hooks
<1>1. IsVar(o) /\ h \in BagToSet(b) /\ o \in Objects
  BY ContentFacts DEF HooksOn
<1>2. o = Var(b) /\ b \in HookBags
  BY <1>1, ObjectKinds
<1> HIDE DEF b
<1>3. h \in Hook
  BY <1>1, <1>2, BagsOfAre DEF HookBags
<1>4. h.node \in Node /\ h.index \in Index /\ h.wec \in Nat \ {0}
  BY <1>3 DEF Hook, Hooked
<1>5. RefWeight(h, h.node, h.index) = h.wec
  BY DEF RefWeight
<1>6. h.wec <= ObjWeight(o, h.node, h.index)
  BY <1>1, <1>2, <1>4, <1>5, HooksWeigh, ObjectWeighs
<1>7. h.wec <= S.exp[h.node][h.index].wec
  <2>1. /\ ObjWeight(o, h.node, h.index) <= S.exp[h.node][h.index].wec
        /\ ObjWeight(o, h.node, h.index) \in Nat
    BY <1>4, ContentFacts
  <2>2. S.exp[h.node][h.index].wec \in Nat
    BY <1>4, SurplusType DEF Sound
  <2> QED BY <1>4, <1>6, <2>1, <2>2
<1>8. Backs(S, h)
  BY <1>4, <1>7, ShareBacks
<1> QED BY <1>1, <1>2, <1>3, <1>8 DEF b

LEMMA MessageBacks ==
  ASSUME NEW S, Sound(S), NoneLacks(S), NEW m \in BagToSet(S.net)
  PROVE  /\ m \in Carried
         /\ m.type # "throw" => Backs(S, Addressed(m))
         /\ m.term \notin {Bound, None} => m.term \in Given /\ Backs(S, m.term)
<1>1. /\ m \in Carried
      /\ \A a \in Node, i \in Index :
           /\ MessageWeight(m, a, i) <= S.exp[a][i].wec
           /\ MessageWeight(m, a, i) \in Nat
           /\ S.exp[a][i].wec \in Nat
  BY NetFacts, SurplusType DEF Sound
<1>2. ASSUME m.type # "throw" PROVE Backs(S, Addressed(m))
  <2> DEFINE r == RefTo(m.to, m.index, m.wec)
  <2>1. /\ r.node \in Node /\ r.index \in Index /\ r.wec \in Nat \ {0}
        /\ MessageWeight(m, r.node, r.index)
             = RefWeight(r, r.node, r.index) + TermWeight(m.term, r.node, r.index)
        /\ TermWeight(m.term, r.node, r.index) \in Nat
    BY <1>1, <1>2, MessageParts DEF RefTo
  <2> HIDE DEF r
  <2>2. RefWeight(r, r.node, r.index) = r.wec
    BY DEF RefWeight
  <2>3. r.wec <= S.exp[r.node][r.index].wec
    BY <1>1, <2>1, <2>2
  <2> QED BY <2>1, <2>3, ShareBacks DEF r, Addressed
<1>3. ASSUME m.term \notin {Bound, None} PROVE m.term \in Given /\ Backs(S, m.term)
  <2> DEFINE t == m.term
  <2>1. t \in Given
    BY <1>1, <1>3, MessageParts
  <2>2. t.node \in Node /\ t.index \in Index /\ t.wec \in Nat \ {0}
    BY <2>1, WecAssumption DEF Given, Reference
  <2>3. TermWeight(t, t.node, t.index) = t.wec
    BY <2>1, <2>2, WeightTypes DEF RefWeight
  <2>4. MessageWeight(m, t.node, t.index) >= TermWeight(t, t.node, t.index)
    <3>1. RefWeight(RefTo(m.to, m.index, m.wec), t.node, t.index) \in Nat
      BY <1>1 DEF Carried, InMessage, RefWeight, RefTo
    <3>2. MessageWeight(m, t.node, t.index)
            = RefWeight(RefTo(m.to, m.index, m.wec), t.node, t.index)
                + TermWeight(t, t.node, t.index)
      BY DEF MessageWeight, TermWeight
    <3> QED BY <2>2, <2>3, <3>1, <3>2
  <2> HIDE DEF t
  <2>5. t.wec <= S.exp[t.node][t.index].wec
    BY <1>1, <2>2, <2>3, <2>4
  <2> QED BY <2>1, <2>2, <2>5, ShareBacks DEF t
<1> QED BY <1>1, <1>2, <1>3

LEMMA SpotIs ==
  ASSUME NEW S, S \in Memories, NEW r, Backs(S, r)
  PROVE  /\ S.exp[r.node][r.index].data \in Slot \cup {Bound}
         /\ Spot(S, r) \in Spots
<1>1. S.exp[r.node][r.index] \in [wec : Nat \ {0}, data : Slot \cup {Bound}]
  BY DEF Backs, Memories, Entries
<1> QED BY <1>1 DEF Spot, SpotOf, Spots, Places, Backs

LEMMA OpenIs ==
  ASSUME NEW S, NEW k, k.node \in Node, k.index \in Index, Spot(S, k) # Nowhere
  PROVE  /\ Spot(S, k) \in Places /\ Spot(S, k)[1] = k.node
         /\ <<Spot(S, k), k.index>> \in Open(S)
<1> DEFINE d == S.exp[k.node][k.index].data
<1>1. d \in Slot /\ Spot(S, k) = <<k.node, d>>
  BY DEF Spot, SpotOf
<1> HIDE DEF d
<1> DEFINE q == <<k.node, d>>
<1>2. q \in Places /\ q[1] = k.node /\ q[2] = d
  BY <1>1 DEF Places
<1>3. S.exp[q[1]][k.index].data = q[2]
  BY <1>2 DEF d
<1> HIDE DEF q
<1> DEFINE u == <<q, k.index>>
<1>4. u \in Places \X Index /\ u[1] = q /\ u[2] = k.index
  BY <1>2
<1>5. S.exp[u[1][1]][u[2]].data = u[1][2]
  BY <1>3, <1>4
<1> HIDE DEF u
<1>6. u \in Open(S)
  BY <1>4, <1>5 DEF Open
<1> QED BY <1>1, <1>2, <1>6 DEF q, u

(* An entry that is as it was is still used. *)
LEMMA BacksStill ==
  ASSUME NEW S, NEW T, NEW r, Backs(S, r),
         \A a \in Node, i \in Index : S.exp[a][i] # Unused => T.exp[a][i] = S.exp[a][i]
  PROVE  Backs(T, r)
  BY DEF Backs

LEMMA LinkIs ==
  ASSUME NEW S, NEW l
  PROVE  l \in Links(S) <=>
           \/ \E p \in Places : IsExref(Content(S, p)) /\ l = <<p, Spot(S, Content(S, p))>>
           \/ \E m \in BagToSet(S.net) :
                m.type = "unify" /\ l = <<Spot(S, Addressed(m)), TermSpot(S, m.term)>>
  BY DEF Links, Sent

LEMMA WaitIs ==
  ASSUME NEW S, NEW w
  PROVE  w \in Waits(S) <=>
           \E p \in Places : \E h \in ReadsOn(S, p) : w = Wait(p, h.ret, Spot(S, h))
  BY DEF Waits

LEMMA AskIs ==
  ASSUME NEW S, NEW k
  PROVE  k \in Asks(S) <=>
           \/ \E p \in Places : \E h \in RepliesOn(S, p) : k = Ask(h.node, h.index, p)
           \/ \E m \in BagToSet(S.net) :
                /\ m.type = "read"
                /\ k = Ask(m.term.node, m.term.index, Spot(S, Addressed(m)))
           \/ \E m \in BagToSet(S.net) :
                m.type = "answer" /\ k = Ask(m.to, m.index, Nowhere)
  BY DEF Asks, Sent

(* All that asks for an answer has a used entry it will come to.           *)
LEMMA AskBacks ==
  ASSUME NEW S, Sound(S), NoneLacks(S), NEW k \in Asks(S)
  PROVE  Backs(S, k) /\ k.at \in Spots
<1>1. S \in Memories
  BY DEF Sound, Shaped
<1>2. ASSUME NEW p \in Places, NEW h \in RepliesOn(S, p), k = Ask(h.node, h.index, p)
      PROVE  Backs(S, k) /\ k.at \in Spots
  <2>1. Backs(S, h)
    BY HookBacks DEF RepliesOn
  <2> QED BY <1>2, <2>1 DEF Backs, Ask, Spots
<1>3. ASSUME NEW m \in BagToSet(S.net), m.type = "read",
             k = Ask(m.term.node, m.term.index, Spot(S, Addressed(m)))
      PROVE  Backs(S, k) /\ k.at \in Spots
  <2>1. m \in Carried /\ Backs(S, Addressed(m))
    BY <1>3, MessageBacks
  <2>2. m.term \in Given
    BY <1>3, <2>1 DEF Carried
  <2>3. m.term \notin {Bound, None}
    BY <2>2, TermAssumption DEF Given, Reference
  <2>4. Backs(S, m.term)
    BY <2>3, MessageBacks
  <2>5. Spot(S, Addressed(m)) \in Spots
    BY <1>1, <2>1, SpotIs
  <2> QED BY <1>3, <2>4, <2>5 DEF Backs, Ask
<1>4. ASSUME NEW m \in BagToSet(S.net), m.type = "answer", k = Ask(m.to, m.index, Nowhere)
      PROVE  Backs(S, k) /\ k.at \in Spots
  <2>1. Backs(S, Addressed(m))
    BY <1>4, MessageBacks
  <2> QED BY <1>4, <2>1 DEF Backs, Ask, Addressed, RefTo, Spots
<1> QED BY <1>2, <1>3, <1>4, AskIs

LEMMA UnifySpots ==
  ASSUME NEW S, Sound(S), NoneLacks(S), NEW m \in BagToSet(S.net), m.type = "unify"
  PROVE  /\ Backs(S, Addressed(m)) /\ Spot(S, Addressed(m)) \in Spots
         /\ m.term # Bound => m.term \in Given /\ Backs(S, m.term)
         /\ TermSpot(S, m.term) \in Spots
<1>1. S \in Memories
  BY DEF Sound, Shaped
<1>2. m \in Carried /\ Backs(S, Addressed(m))
  BY MessageBacks
<1>3. m.term \in Given \cup {Bound}
  BY <1>2 DEF Carried
<1>4. \A r \in Given : r \notin {Bound, None}
  BY TermAssumption DEF Given, Reference
<1>5. m.term # Bound => m.term \in Given /\ Backs(S, m.term)
  BY <1>3, <1>4, MessageBacks
<1> QED BY <1>1, <1>2, <1>5, SpotIs DEF TermSpot, Spots

LEMMA GraphDrawn ==
  ASSUME NEW S, Sound(S), NoneLacks(S), NEW L \in SUBSET (Spots \X Spots), NEW K,
         \A k \in K : k.at \in Spots
  PROVE  Drawn(With(S, L, K))
<1>1. S \in Memories
  BY DEF Sound, Shaped
<1>2. ASSUME NEW l \in Links(S) PROVE l \in Spots \X Spots
  <2>1. ASSUME NEW p \in Places, IsExref(Content(S, p)), l = <<p, Spot(S, Content(S, p))>>
        PROVE  l \in Spots \X Spots
    BY <1>1, <2>1, ExrefBacks, SpotIs DEF Spots
  <2>2. ASSUME NEW m \in BagToSet(S.net), m.type = "unify",
               l = <<Spot(S, Addressed(m)), TermSpot(S, m.term)>>
        PROVE  l \in Spots \X Spots
    BY <2>2, UnifySpots
  <2> QED BY <2>1, <2>2, LinkIs
<1>3. ASSUME NEW w \in Waits(S) PROVE w.at \in Places /\ w.on \in Spots
  <2>1. PICK p \in Places : \E h \in ReadsOn(S, p) : w = Wait(p, h.ret, Spot(S, h))
    BY WaitIs
  <2>2. PICK h \in ReadsOn(S, p) : w = Wait(p, h.ret, Spot(S, h))
    BY <2>1
  <2>3. Backs(S, h)
    BY HookBacks DEF ReadsOn
  <2>4. Spot(S, h) \in Spots
    BY <1>1, <2>3, SpotIs
  <2> QED BY <2>2, <2>4 DEF Wait
<1>4. \A k \in Asks(S) \cup K : k.at \in Spots
  BY AskBacks
<1> QED BY <1>2, <1>3, <1>4 DEF Drawn, With

LEMMA GraphWith == Graph(Memory) = With(Memory, {}, {})
  BY DEF Graph, With

-----------------------------------------------------------------------------
(* What a table entry can have, and what an answer has, is all of a unit.  *)
Full(S) ==
  /\ \A a \in Node, i \in Index : S.exp[a][i].wec <= EXPORT_UNIT_WEC
  /\ \A p \in Places : \A h \in RepliesOn(S, p) : h.wec = EXPORT_UNIT_WEC
  /\ \A m \in BagToSet(S.net) : m.type = "answer" => m.wec = EXPORT_UNIT_WEC
Fit(S) == Sound(S) /\ NoneLacks(S) /\ Full(S)

(* What an answer will come to has a value, or a hook that waits for it.   *)
Met(S, k) ==
  Spot(S, k) = Nowhere \/ \E w \in Waits(S) : w.at = Spot(S, k) /\ w.ret = k.index
Calm(S, L, K) ==
  /\ Fit(S)
  /\ L \in SUBSET (Spots \X Spots) /\ \A k \in K : Backs(S, k) /\ k.at \in Spots
  /\ \A k \in Asks(S) \cup K : Met(S, k)
  /\ NeverInVain(With(S, L, K))

(* What most of an operation is: all but the places in Z is where it was,  *)
(* messages in M are received and those in N sent, and what referred to a  *)
(* spot refers to what f makes of it.                                      *)
Changed(S, T, f, Z, M, N) ==
  /\ \A p \in Places \ Z : Content(T, p) = Content(S, p) /\ f[p] = p
  /\ BagToSet(S.net) \ M \subseteq BagToSet(T.net)
  /\ BagToSet(T.net) \subseteq BagToSet(S.net) \cup N
  /\ \A r : Backs(S, r) /\ Backs(T, r) => Spot(T, r) = f[Spot(S, r)]

(* What is to be shown of the rest of it: of the places in Z, of the       *)
(* messages received, of what was in the hands of the handler, and that    *)
(* whoever comes to wait has waited before.                                *)
PlacesCarried(S, T, G, H, f, Z) ==
  \A p \in Z :
    /\ IsExref(Content(S, p)) => SameSide(H, f[p], f[Spot(S, Content(S, p))])
    /\ \A h \in ReadsOn(S, p) :
         /\ f[p] # Nowhere =>
              f[p][1] = p[1] /\ Wait(f[p], h.ret, f[Spot(S, h)]) \in Waits(T)
         /\ f[p] = Nowhere =>
              \/ SameSide(H, f[Spot(S, h)], Nowhere)
              \/ \A k \in G.asks : ~(k.node = p[1] /\ k.index = h.ret)
    /\ \A h \in RepliesOn(S, p) : AskedAgain(H, f, Ask(h.node, h.index, p))
MessagesCarried(S, H, f, M) ==
  \A m \in M :
    /\ m.type = "unify" => SameSide(H, f[Spot(S, Addressed(m))], f[TermSpot(S, m.term)])
    /\ m.type = "read" =>
         AskedAgain(H, f, Ask(m.term.node, m.term.index, Spot(S, Addressed(m))))
    /\ m.type = "answer" => AskedAgain(H, f, Ask(m.to, m.index, Nowhere))
WaitedBefore(T, G, H, f, Z, N, K) ==
  \A C : Vain(H, C) /\ ~Awaited(G, Before(f, C)) =>
    /\ \A p \in Z \cap C : HooksOn(T, p) = {}
    /\ \A m \in N : m.type = "read" => Spot(T, Addressed(m)) \notin C
    /\ \A k \in K : k.at \notin C

(* Who asks in T has asked in S, or for what a hook waits for in T.        *)
AskedBefore(S, K, T, k) ==
  Met(T, k) \/ \E j \in Asks(S) \cup K : j.node = k.node /\ j.index = k.index
NoneAsksAnew(S, K, T, Z, N, K2) ==
  /\ \A p \in Z : \A h \in RepliesOn(T, p) : AskedBefore(S, K, T, Ask(h.node, h.index, p))
  /\ \A m \in N :
       /\ m.type = "read" =>
            AskedBefore(S, K, T, Ask(m.term.node, m.term.index, Spot(T, Addressed(m))))
       /\ m.type = "answer" => AskedBefore(S, K, T, Ask(m.to, m.index, Nowhere))
  /\ \A k \in K2 : AskedBefore(S, K, T, k)

(* Whoever has asked still asks, or was in the hands of the handler.       *)
LEMMA AskedStill ==
  ASSUME NEW S, Sound(S), NoneLacks(S), NEW T, Sound(T), NoneLacks(T),
         NEW f \in [Spots -> Spots], f[Nowhere] = Nowhere,
         NEW Z \in SUBSET Places, NEW M, NEW N, Changed(S, T, f, Z, M, N),
         NEW G, NEW H, Asks(T) \subseteq H.asks,
         PlacesCarried(S, T, G, H, f, Z), MessagesCarried(S, H, f, M),
         NEW k \in Asks(S)
  PROVE  AskedAgain(H, f, k)
<1>1. \A r : Backs(S, r) /\ Backs(T, r) => Spot(T, r) = f[Spot(S, r)]
  BY DEF Changed
<1>2. ASSUME NEW j \in Asks(T), j = Ask(k.node, k.index, f[k.at])
      PROVE  AskedAgain(H, f, k)
  <2>1. /\ j \in H.asks /\ j.node = k.node /\ j.index = k.index
        /\ j.at = f[k.at]
    BY <1>2 DEF Ask
  <2>2. SameSide(H, j.at, f[k.at])
    BY <2>1, SameSideBasics
  <2> QED BY <2>1, <2>2 DEF AskedAgain
<1>3. ASSUME NEW p \in Places, NEW h \in RepliesOn(S, p), k = Ask(h.node, h.index, p)
      PROVE  AskedAgain(H, f, k)
  <2>1. CASE p \in Z
    BY <1>3, <2>1 DEF PlacesCarried
  <2>2. CASE p \notin Z
    <3>1. h \in RepliesOn(T, p) /\ f[p] = p
      BY <2>2 DEF Changed, RepliesOn, HooksOn
    <3>2. Ask(h.node, h.index, p) \in Asks(T)
      BY <3>1, AskIs
    <3> QED BY <1>2, <1>3, <3>1, <3>2 DEF Ask
  <2> QED BY <2>1, <2>2
<1>4. ASSUME NEW m \in BagToSet(S.net), m.type = "read",
             k = Ask(m.term.node, m.term.index, Spot(S, Addressed(m)))
      PROVE  AskedAgain(H, f, k)
  <2>1. CASE m \in M
    BY <1>4, <2>1 DEF MessagesCarried
  <2>2. CASE m \notin M
    <3>1. m \in BagToSet(T.net)
      BY <2>2 DEF Changed
    <3>2. Spot(T, Addressed(m)) = f[Spot(S, Addressed(m))]
      BY <1>1, <1>4, <3>1, MessageBacks
    <3>3. Ask(m.term.node, m.term.index, f[Spot(S, Addressed(m))]) \in Asks(T)
      BY <1>4, <3>1, <3>2, AskIs
    <3> QED BY <1>2, <1>4, <3>3 DEF Ask
  <2> QED BY <2>1, <2>2
<1>5. ASSUME NEW m \in BagToSet(S.net), m.type = "answer", k = Ask(m.to, m.index, Nowhere)
      PROVE  AskedAgain(H, f, k)
  <2>1. CASE m \in M
    BY <1>5, <2>1 DEF MessagesCarried
  <2>2. CASE m \notin M
    <3>1. m \in BagToSet(T.net)
      BY <2>2 DEF Changed
    <3>2. Ask(m.to, m.index, Nowhere) \in Asks(T)
      BY <1>5, <3>1, AskIs
    <3>3. f[Nowhere] = Nowhere
      OBVIOUS
    <3> QED BY <1>2, <1>5, <3>2, <3>3 DEF Ask
  <2> QED BY <2>1, <2>2
<1> QED BY <1>3, <1>4, <1>5, AskIs

(* A handler goes from one memory to the next: when nobody waits in vain   *)
(* in the one, with what is in the handler's hands, nobody does in the     *)
(* other.                                                                  *)
LEMMA NextStep ==
  ASSUME NEW S, NEW L, NEW K, Calm(S, L, K), NEW T, Fit(T),
         NEW f \in [Spots -> Spots], f[Nowhere] = Nowhere,
         NEW Z \in SUBSET Places, NEW M, NEW N, Changed(S, T, f, Z, M, N),
         NEW L2 \in SUBSET (Spots \X Spots), NEW K2, \A k \in K2 : Backs(T, k) /\ k.at \in Spots,
         NEW G, G = With(S, L, K), NEW H, H = With(T, L2, K2),
         PlacesCarried(S, T, G, H, f, Z), MessagesCarried(S, H, f, M),
         \A l \in L : SameSide(H, f[l[1]], f[l[2]]),
         \A k \in K : AskedAgain(H, f, k) \/ SameSide(H, f[Spot(S, k)], f[k.at]),
         WaitedBefore(T, G, H, f, Z, N, K2), NoneAsksAnew(S, K, T, Z, N, K2)
  PROVE  Calm(T, L2, K2)
<1>   /\ Sound(S) /\ NoneLacks(S) /\ Sound(T) /\ NoneLacks(T)
      /\ L \in SUBSET (Spots \X Spots) /\ \A k \in K : Backs(S, k) /\ k.at \in Spots
      /\ NeverInVain(G) /\ \A k \in Asks(S) \cup K : Met(S, k)
  BY DEF Calm, Fit
<1> SUFFICES NeverInVain(H) /\ \A k \in Asks(T) \cup K2 : Met(T, k)
  BY DEF Calm
<1>1. /\ G.links = Links(S) \cup L /\ G.waits = Waits(S) /\ G.asks = Asks(S) \cup K
      /\ G.open = Open(S)
      /\ H.links = Links(T) \cup L2 /\ H.waits = Waits(T) /\ H.asks = Asks(T) \cup K2
      /\ H.open = Open(T)
  BY DEF With
<1>2. Drawn(G)
  BY GraphDrawn
<1>3. \A p \in Places \ Z : f[p] = p /\ p # Nowhere /\ ReadsOn(T, p) = ReadsOn(S, p)
                            /\ RepliesOn(T, p) = RepliesOn(S, p) /\ HooksOn(T, p) = HooksOn(S, p)
  BY NowhereIs DEF Changed, ReadsOn, RepliesOn, HooksOn
<1>4. \A r : Backs(S, r) /\ Backs(T, r) => Spot(T, r) = f[Spot(S, r)]
  BY DEF Changed
<1>5. \A l \in G.links : SameSide(H, f[l[1]], f[l[2]])
  <2>1. ASSUME NEW p \in Places, IsExref(Content(S, p))
        PROVE  SameSide(H, f[p], f[Spot(S, Content(S, p))])
    <3>1. CASE p \in Z
      BY <2>1, <3>1 DEF PlacesCarried
    <3>2. CASE p \notin Z
      <4>1. Content(T, p) = Content(S, p) /\ f[p] = p
        BY <3>2 DEF Changed
      <4>2. Spot(T, Content(S, p)) = f[Spot(S, Content(S, p))]
        <5>1. Backs(S, Content(S, p)) /\ Backs(T, Content(T, p))
          BY <2>1, <4>1, ExrefBacks
        <5> QED BY <1>4, <4>1, <5>1
      <4>3. <<p, f[Spot(S, Content(S, p))]>> \in H.links
        BY <1>1, <2>1, <4>1, <4>2, LinkIs
      <4> QED BY <4>1, <4>3, SameSideBasics
    <3> QED BY <3>1, <3>2
  <2>2. ASSUME NEW m \in BagToSet(S.net), m.type = "unify"
        PROVE  SameSide(H, f[Spot(S, Addressed(m))], f[TermSpot(S, m.term)])
    <3>1. CASE m \in M
      BY <2>2, <3>1 DEF MessagesCarried
    <3>2. CASE m \notin M
      <4>1. m \in BagToSet(T.net)
        BY <3>2 DEF Changed
      <4>2. Spot(T, Addressed(m)) = f[Spot(S, Addressed(m))]
        BY <1>4, <2>2, <4>1, UnifySpots
      <4>3. TermSpot(T, m.term) = f[TermSpot(S, m.term)]
        BY <1>4, <2>2, <4>1, UnifySpots DEF TermSpot
      <4>4. <<f[Spot(S, Addressed(m))], f[TermSpot(S, m.term)]>> \in H.links
        BY <1>1, <2>2, <4>1, <4>2, <4>3, LinkIs
      <4> QED BY <4>4, SameSideBasics
    <3> QED BY <3>1, <3>2
  <2>3. ASSUME NEW l \in Links(S) PROVE SameSide(H, f[l[1]], f[l[2]])
    BY <2>1, <2>2, LinkIs
  <2> QED BY <1>1, <2>3
<1>6. ASSUME NEW w \in G.waits
      PROVE  /\ f[w.at] # Nowhere =>
                  /\ f[w.at][1] = w.at[1]
                  /\ Wait(f[w.at], w.ret, f[w.on]) \in H.waits
             /\ f[w.at] = Nowhere =>
                  \/ SameSide(H, f[w.on], Nowhere)
                  \/ \A k \in G.asks : ~AsksFor(G, k, w)
  <2>1. PICK p \in Places : \E h \in ReadsOn(S, p) : w = Wait(p, h.ret, Spot(S, h))
    BY <1>1, WaitIs
  <2>2. PICK h \in ReadsOn(S, p) : w = Wait(p, h.ret, Spot(S, h))
    BY <2>1
  <2>3. w.at = p /\ w.ret = h.ret /\ w.on = Spot(S, h)
    BY <2>2 DEF Wait
  <2>4. CASE p \in Z
    BY <1>1, <2>3, <2>4 DEF PlacesCarried, AsksFor
  <2>5. CASE p \notin Z
    <3>1. f[p] = p /\ p # Nowhere /\ h \in ReadsOn(T, p)
      BY <1>3, <2>5
    <3>2. Spot(T, h) = f[Spot(S, h)]
      BY <1>4, <3>1, HookBacks DEF ReadsOn
    <3>3. Wait(p, h.ret, f[Spot(S, h)]) \in Waits(T)
      BY <3>1, <3>2, WaitIs
    <3> QED BY <1>1, <2>3, <3>1, <3>3
  <2> QED BY <2>4, <2>5
<1>7. ASSUME NEW k \in G.asks PROVE Answered(G, H, f, k)
  <2>0. Backs(S, k) /\ k.node \in Node
    BY <1>1, AskBacks DEF Backs
  <2>1. AskedAgain(H, f, k) \/ SameSide(H, f[Spot(S, k)], f[k.at])
    <3>1. CASE k \in K
      BY <3>1
    <3>2. CASE k \in Asks(S)
      <4>1. Asks(T) \subseteq H.asks
        BY <1>1
      <4> QED BY <3>2, <4>1, AskedStill
    <3> QED BY <1>1, <3>1, <3>2
  <2>2. ASSUME NEW p \in Places, k.node = p[1], <<p, k.index>> \in Open(S), f[p] # Nowhere
        PROVE  \/ SameSide(H, f[p], f[k.at])
               \/ <<f[p], k.index>> \in Open(T) /\ AskedAgain(H, f, k)
    <3>1. Spot(S, k) = p
      BY <2>2 DEF Open, Spot, SpotOf, Places
    <3>2. CASE SameSide(H, f[Spot(S, k)], f[k.at])
      BY <3>1, <3>2
    <3>3. CASE AskedAgain(H, f, k)
      <4>1. PICK j \in H.asks : j.node = k.node /\ j.index = k.index
        BY <3>3 DEF AskedAgain
      <4>2. Backs(T, j)
        BY <1>1, AskBacks
      <4>3. Backs(T, k)
        BY <4>1, <4>2 DEF Backs
      <4>4. Spot(T, k) = f[p]
        BY <1>4, <2>0, <3>1, <4>3
      <4>5. k.node \in Node /\ k.index \in Index
        BY <4>3 DEF Backs
      <4>6. Spot(T, k) # Nowhere
        BY <2>2, <4>4
      <4>7. <<f[p], k.index>> \in Open(T)
        BY <4>4, <4>5, <4>6, OpenIs, Zenon
      <4> QED BY <3>3, <4>7
    <3> QED BY <2>1, <3>2, <3>3, Zenon
  <2> QED BY <1>1, <2>2 DEF Answered
<1>8. ASSUME NEW C, Vain(H, C), Awaited(H, C) PROVE Awaited(G, Before(f, C))
  <2> DEFINE B == Before(f, C)
  <2> SUFFICES ASSUME ~Awaited(G, B) PROVE FALSE
    OBVIOUS
  <2>1. C \subseteq Places /\ \A a \in Spots : f[a] \in C => a \in B
    <3>1. C \subseteq Places /\ Nowhere \notin C
      BY <1>8, NowhereIs DEF Vain
    <3> QED BY <3>1 DEF Before, Spots
  <2> HIDE DEF B
  <2>2. /\ \A p \in Z \cap C : HooksOn(T, p) = {}
        /\ \A m \in N : m.type = "read" => Spot(T, Addressed(m)) \notin C
        /\ \A k \in K2 : k.at \notin C
    BY <1>8 DEF WaitedBefore, B
  <2>3. ASSUME NEW w \in Waits(S), w.at \in B PROVE FALSE
    BY <1>1, <2>3 DEF Awaited
  <2>4. ASSUME NEW k \in Asks(S), k.at \in B PROVE FALSE
    BY <1>1, <2>4 DEF Awaited
  <2>5. ASSUME NEW p \in C, HooksOn(T, p) # {} PROVE FALSE
    <3>1. p \in Places /\ p \notin Z
      BY <2>1, <2>2, <2>5
    <3>2. f[p] = p /\ HooksOn(S, p) # {} /\ p \in B
      BY <1>3, <2>1, <2>5, <3>1 DEF Spots
    <3>3. PICK h \in HooksOn(S, p) : TRUE
      BY <3>2
    <3>4. CASE h.ret = None
      <4>1. Ask(h.node, h.index, p) \in Asks(S)
        BY <3>1, <3>4, AskIs DEF RepliesOn
      <4> QED BY <2>4, <3>2, <4>1 DEF Ask
    <3>5. CASE h.ret # None
      <4>1. Wait(p, h.ret, Spot(S, h)) \in Waits(S)
        BY <3>1, <3>5, WaitIs DEF ReadsOn
      <4> QED BY <2>3, <3>2, <4>1 DEF Wait
    <3> QED BY <3>4, <3>5
  <2>6. ASSUME NEW w \in Waits(T), w.at \in C PROVE FALSE
    <3>1. PICK p \in Places : \E h \in ReadsOn(T, p) : w = Wait(p, h.ret, Spot(T, h))
      BY WaitIs
    <3>2. p \in C /\ HooksOn(T, p) # {}
      BY <2>6, <3>1 DEF Wait, ReadsOn
    <3> QED BY <2>5, <3>2
  <2>7. ASSUME NEW k \in Asks(T), k.at \in C PROVE FALSE
    <3>1. ASSUME NEW p \in Places, NEW h \in RepliesOn(T, p), k = Ask(h.node, h.index, p)
          PROVE  FALSE
      BY <2>5, <2>7, <3>1 DEF Ask, RepliesOn
    <3>2. ASSUME NEW m \in BagToSet(T.net), m.type = "read",
                 k = Ask(m.term.node, m.term.index, Spot(T, Addressed(m)))
          PROVE  FALSE
      <4>1. Spot(T, Addressed(m)) \in C
        BY <2>7, <3>2 DEF Ask
      <4>2. m \in BagToSet(S.net)
        BY <2>2, <3>2, <4>1 DEF Changed
      <4>3. /\ Backs(S, Addressed(m)) /\ Spot(S, Addressed(m)) \in Spots
            /\ Backs(T, Addressed(m))
        <5>1. S \in Memories /\ Backs(S, Addressed(m)) /\ Backs(T, Addressed(m))
          BY <3>2, <4>2, MessageBacks DEF Sound, Shaped
        <5> QED BY <5>1, SpotIs
      <4>4. Spot(S, Addressed(m)) \in B
        BY <1>4, <2>1, <4>1, <4>3
      <4>5. Ask(m.term.node, m.term.index, Spot(S, Addressed(m))) \in Asks(S)
        BY <3>2, <4>2, AskIs
      <4> QED BY <2>4, <4>4, <4>5 DEF Ask
    <3>3. ASSUME NEW m \in BagToSet(T.net), m.type = "answer", k = Ask(m.to, m.index, Nowhere)
          PROVE  FALSE
      BY <2>1, <2>7, <3>3, NowhereIs DEF Ask
    <3> QED BY <3>1, <3>2, <3>3, AskIs
  <2> QED BY <1>1, <1>8, <2>2, <2>6, <2>7 DEF Awaited
<1>9. NeverInVain(H)
  BY <1>2, <1>5, <1>6, <1>7, <1>8, Carry
<1>10. ASSUME NEW k \in Asks(T) \cup K2 PROVE AskedBefore(S, K, T, k)
  <2>1. CASE k \in K2
    BY <2>1 DEF NoneAsksAnew
  <2>2. ASSUME NEW p \in Places, NEW h \in RepliesOn(T, p), k = Ask(h.node, h.index, p)
        PROVE  AskedBefore(S, K, T, k)
    <3>1. CASE p \in Z
      BY <2>2, <3>1 DEF NoneAsksAnew
    <3>2. CASE p \notin Z
      <4>1. k \in Asks(S)
        BY <1>3, <2>2, <3>2, AskIs
      <4> QED BY <4>1 DEF AskedBefore
    <3> QED BY <3>1, <3>2
  <2>3. ASSUME NEW m \in BagToSet(T.net), m.type = "read",
               k = Ask(m.term.node, m.term.index, Spot(T, Addressed(m)))
        PROVE  AskedBefore(S, K, T, k)
    <3>1. CASE m \in N
      BY <2>3, <3>1 DEF NoneAsksAnew
    <3>2. CASE m \notin N
      <4> DEFINE j == Ask(m.term.node, m.term.index, Spot(S, Addressed(m)))
      <4>1. j \in Asks(S)
        BY <2>3, <3>2, AskIs DEF Changed
      <4>2. j.node = k.node /\ j.index = k.index
        BY <2>3 DEF Ask
      <4> QED BY <4>1, <4>2 DEF AskedBefore
    <3> QED BY <3>1, <3>2
  <2>4. ASSUME NEW m \in BagToSet(T.net), m.type = "answer", k = Ask(m.to, m.index, Nowhere)
        PROVE  AskedBefore(S, K, T, k)
    <3>1. CASE m \in N
      BY <2>4, <3>1 DEF NoneAsksAnew
    <3>2. CASE m \notin N
      <4>1. k \in Asks(S)
        BY <2>4, <3>2, AskIs DEF Changed
      <4> QED BY <4>1 DEF AskedBefore
    <3> QED BY <3>1, <3>2
  <2> QED BY <2>1, <2>2, <2>3, <2>4, AskIs
<1>11. ASSUME NEW k \in Asks(T) \cup K2 PROVE Met(T, k)
  <2> SUFFICES ASSUME NEW j \in Asks(S) \cup K, j.node = k.node, j.index = k.index
               PROVE  Met(T, k)
    BY <1>10 DEF AskedBefore
  <2>1. Backs(S, k) /\ Backs(T, k)
    <3>1. Backs(S, j) /\ Backs(T, k)
      BY AskBacks
    <3> QED BY <3>1 DEF Backs
  <2>2. Spot(T, k) = f[Spot(S, k)] /\ Spot(S, k) = Spot(S, j)
    BY <1>4, <2>1 DEF Spot
  <2>3. CASE Spot(S, j) = Nowhere
    BY <2>2, <2>3 DEF Met
  <2>4. CASE \E w \in Waits(S) : w.at = Spot(S, j) /\ w.ret = j.index
    <3>1. PICK w \in Waits(S) : w.at = Spot(S, j) /\ w.ret = j.index
      BY <2>4
    <3>2. CASE f[w.at] = Nowhere
      BY <2>2, <3>1, <3>2 DEF Met
    <3>3. CASE f[w.at] # Nowhere
      <4> DEFINE v == Wait(f[w.at], w.ret, f[w.on])
      <4>1. v \in Waits(T)
        BY <1>1, <1>6, <3>3
      <4>2. v.at = f[w.at] /\ v.ret = w.ret
        BY DEF Wait
      <4> HIDE DEF v
      <4> QED BY <2>2, <3>1, <4>1, <4>2 DEF Met
    <3> QED BY <3>2, <3>3
  <2> QED BY <2>3, <2>4 DEF Met
<1> QED BY <1>9, <1>11

(* Steps that rename nothing.                                              *)
Same == [s \in Spots |-> s]
Unmoved(S, T, Z, M, N) ==
  /\ \A p \in Places \ Z : Content(T, p) = Content(S, p)
  /\ BagToSet(S.net) \ M \subseteq BagToSet(T.net)
  /\ BagToSet(T.net) \subseteq BagToSet(S.net) \cup N
  /\ \A r : Backs(S, r) /\ Backs(T, r) =>
       T.exp[r.node][r.index].data = S.exp[r.node][r.index].data
Remains(S, T, H, p) ==
  /\ IsExref(Content(S, p)) => SameSide(H, p, Spot(S, Content(S, p)))
  /\ \A h \in ReadsOn(S, p) : Wait(p, h.ret, Spot(S, h)) \in Waits(T)
  /\ \A h \in RepliesOn(S, p) : Ask(h.node, h.index, p) \in H.asks
Arrived(S, H, m) ==
  /\ m.type = "unify" => SameSide(H, Spot(S, Addressed(m)), TermSpot(S, m.term))
  /\ m.type = "read" => Ask(m.term.node, m.term.index, Spot(S, Addressed(m))) \in H.asks
  /\ m.type = "answer" => Ask(m.to, m.index, Nowhere) \in H.asks
PassedOn(S, H, k) ==
  \/ k \in H.asks \/ SameSide(H, Spot(S, k), k.at)
  \/ \E j \in H.asks : j.node = k.node /\ j.index = k.index /\ SameSide(H, j.at, k.at)
NotNewly(T, C, Z, N, K) ==
  /\ \A p \in Z \cap C : HooksOn(T, p) = {}
  /\ \A m \in N : m.type = "read" => Spot(T, Addressed(m)) \notin C
  /\ \A k \in K : k.at \notin C

LEMMA SameIs ==
  /\ Same \in [Spots -> Spots] /\ Same[Nowhere] = Nowhere
  /\ \A s \in Spots : Same[s] = s
  /\ \A C \in SUBSET Places : Before(Same, C) = C
  /\ \A H, k : k.at \in Spots =>
       /\ k \in H.asks => AskedAgain(H, Same, k)
       /\ \A j \in H.asks : j.node = k.node /\ j.index = k.index /\ SameSide(H, j.at, k.at) =>
            AskedAgain(H, Same, k)
<1>1. Same \in [Spots -> Spots] /\ (\A s \in Spots : Same[s] = s) /\ Nowhere \in Spots
  BY DEF Same, Spots
<1>2. \A C \in SUBSET Places : Before(Same, C) = C
  BY <1>1 DEF Before, Spots
<1>3. ASSUME NEW H, NEW k, k.at \in Spots, NEW j \in H.asks, j.node = k.node,
             j.index = k.index, SameSide(H, j.at, k.at)
      PROVE  AskedAgain(H, Same, k)
  BY <1>1, <1>3 DEF AskedAgain
<1>4. ASSUME NEW H, NEW k, k.at \in Spots, k \in H.asks
      PROVE  AskedAgain(H, Same, k)
  BY <1>3, <1>4, SameSideBasics
<1> QED BY <1>1, <1>2, <1>3, <1>4

LEMMA StayStep ==
  ASSUME NEW S, NEW L, NEW K, Calm(S, L, K), NEW T, Fit(T),
         NEW Z \in SUBSET Places, NEW M \in SUBSET BagToSet(S.net), NEW N,
         Unmoved(S, T, Z, M, N),
         NEW L2 \in SUBSET (Spots \X Spots), NEW K2, \A k \in K2 : Backs(T, k) /\ k.at \in Spots,
         NEW G, G = With(S, L, K), NEW H, H = With(T, L2, K2),
         \A p \in Z : Remains(S, T, H, p), \A m \in M : Arrived(S, H, m),
         \A l \in L : SameSide(H, l[1], l[2]), \A k \in K : PassedOn(S, H, k),
         \A C : Vain(H, C) /\ ~Awaited(G, C) => NotNewly(T, C, Z, N, K2),
         NoneAsksAnew(S, K, T, Z, N, K2)
  PROVE  Calm(T, L2, K2)
<1>   /\ Sound(S) /\ NoneLacks(S) /\ S \in Memories /\ Sound(T) /\ NoneLacks(T)
      /\ L \in SUBSET (Spots \X Spots) /\ \A k \in K : Backs(S, k) /\ k.at \in Spots
  BY DEF Calm, Fit, Sound, Shaped
<1> DEFINE f == Same
<1>1. /\ f \in [Spots -> Spots] /\ f[Nowhere] = Nowhere /\ \A s \in Spots : f[s] = s
      /\ \A p \in Places : f[p] = p /\ p \in Spots
  BY SameIs DEF Spots
<1>2. \A r : Backs(S, r) => Spot(S, r) \in Spots
  BY SpotIs
<1> HIDE DEF f
<1>3. Changed(S, T, f, Z, M, N)
  BY <1>1, <1>2 DEF Changed, Unmoved, Spot, Backs
<1>4. PlacesCarried(S, T, G, H, f, Z)
  <2>1. ASSUME NEW p \in Z, IsExref(Content(S, p))
        PROVE  SameSide(H, f[p], f[Spot(S, Content(S, p))])
    <3>1. f[Spot(S, Content(S, p))] = Spot(S, Content(S, p))
      BY <1>1, <1>2, <2>1, ExrefBacks
    <3> QED BY <1>1, <2>1, <3>1 DEF Remains
  <2>2. ASSUME NEW p \in Z, NEW h \in ReadsOn(S, p)
        PROVE  f[p] = p /\ p # Nowhere /\ Wait(f[p], h.ret, f[Spot(S, h)]) \in Waits(T)
    <3>1. f[Spot(S, h)] = Spot(S, h)
      BY <1>1, <1>2, HookBacks DEF ReadsOn
    <3> QED BY <1>1, <3>1, NowhereIs DEF Remains
  <2>3. ASSUME NEW p \in Z, NEW h \in RepliesOn(S, p)
        PROVE  AskedAgain(H, f, Ask(h.node, h.index, p))
    <3>1. Ask(h.node, h.index, p) \in H.asks /\ Ask(h.node, h.index, p).at \in Spots
      BY <1>1 DEF Remains, Ask
    <3> QED BY <3>1, SameIs DEF f
  <2> QED BY <2>1, <2>2, <2>3 DEF PlacesCarried
<1>5. MessagesCarried(S, H, f, M)
  <2>1. ASSUME NEW m \in M, m.type = "unify"
        PROVE  SameSide(H, f[Spot(S, Addressed(m))], f[TermSpot(S, m.term)])
    <3>1. Spot(S, Addressed(m)) \in Spots /\ TermSpot(S, m.term) \in Spots
      BY <2>1, UnifySpots
    <3> QED BY <1>1, <2>1, <3>1 DEF Arrived
  <2>2. ASSUME NEW m \in M, m.type = "read"
        PROVE  AskedAgain(H, f, Ask(m.term.node, m.term.index, Spot(S, Addressed(m))))
    <3> DEFINE k == Ask(m.term.node, m.term.index, Spot(S, Addressed(m)))
    <3>1. k \in H.asks /\ k.at \in Spots
      BY <1>2, <2>2, MessageBacks DEF Arrived, Ask
    <3> HIDE DEF k
    <3>2. AskedAgain(H, f, k)
      BY <3>1, SameIs DEF f
    <3> QED BY <3>2 DEF k
  <2>3. ASSUME NEW m \in M, m.type = "answer"
        PROVE  AskedAgain(H, f, Ask(m.to, m.index, Nowhere))
    <3> DEFINE k == Ask(m.to, m.index, Nowhere)
    <3>1. k \in H.asks /\ k.at \in Spots
      BY <2>3 DEF Arrived, Ask, Spots
    <3> HIDE DEF k
    <3>2. AskedAgain(H, f, k)
      BY <3>1, SameIs DEF f
    <3> QED BY <3>2 DEF k
  <2> QED BY <2>1, <2>2, <2>3 DEF MessagesCarried
<1>6. \A l \in L : SameSide(H, f[l[1]], f[l[2]])
  BY <1>1
<1>7. ASSUME NEW k \in K PROVE AskedAgain(H, f, k) \/ SameSide(H, f[Spot(S, k)], f[k.at])
  <2>1. k.at \in Spots /\ Spot(S, k) \in Spots
    BY <1>2
  <2>2. CASE SameSide(H, Spot(S, k), k.at)
    BY <1>1, <2>1, <2>2
  <2>3. CASE k \in H.asks
    BY <2>1, <2>3, SameIs DEF f
  <2>4. CASE \E j \in H.asks : j.node = k.node /\ j.index = k.index /\ SameSide(H, j.at, k.at)
    BY <2>1, <2>4, SameIs DEF f
  <2> QED BY <2>2, <2>3, <2>4 DEF PassedOn
<1>8. WaitedBefore(T, G, H, f, Z, N, K2)
  BY SameIs DEF WaitedBefore, NotNewly, Vain, f
<1> QED BY <1>1, <1>3, <1>4, <1>5, <1>6, <1>7, <1>8, NextStep

(* The objects of a heap do not change.                                    *)
LEMMA TablesStep ==
  ASSUME NEW S, NEW L, NEW K, Calm(S, L, K), NEW T, Fit(T),
         NEW M \in SUBSET BagToSet(S.net), NEW N, Unmoved(S, T, {}, M, N),
         NEW L2 \in SUBSET (Spots \X Spots), NEW K2, \A k \in K2 : Backs(T, k) /\ k.at \in Spots,
         NEW H, H = With(T, L2, K2),
         \A m \in M : Arrived(S, H, m), \A m \in N : m.type # "read",
         \A m \in N : m.type = "answer" => Ask(m.to, m.index, Nowhere) \in K,
         \A l \in L : SameSide(H, l[1], l[2]),
         \A k \in K : PassedOn(S, H, k), K2 \subseteq Asks(S) \cup K
  PROVE  Calm(T, L2, K2)
<1> DEFINE Z == {}  G == With(S, L, K)
<1>1. Z \in SUBSET Places /\ Unmoved(S, T, Z, M, N)
  OBVIOUS
<1>2. \A p \in Z : Remains(S, T, H, p)
  OBVIOUS
<1>3. \A C : Vain(H, C) /\ ~Awaited(G, C) => NotNewly(T, C, Z, N, K2)
  BY DEF NotNewly, Awaited, With
<1>4. NoneAsksAnew(S, K, T, Z, N, K2)
  BY DEF NoneAsksAnew, AskedBefore
<1> HIDE DEF Z
<1>5. G = With(S, L, K)
  OBVIOUS
<1> HIDE DEF G
<1> QED BY <1>1, <1>2, <1>3, <1>4, <1>5, StayStep

-----------------------------------------------------------------------------
(* The operations of handlers, one after the other.  First those that only *)
(* change the messages and the tables.                                     *)
LinksOf(S, m) ==
  IF m.type = "unify" THEN {<<Spot(S, Addressed(m)), TermSpot(S, m.term)>>} ELSE {}
AsksOf(S, m) ==
  IF m.type = "read" THEN {Ask(m.term.node, m.term.index, Spot(S, Addressed(m)))}
  ELSE IF m.type = "answer" THEN {Ask(m.to, m.index, Nowhere)} ELSE {}

LEMMA TakenIs ==
  ASSUME NEW b, IsABag(b), NEW x \in BagToSet(b)
  PROVE  /\ BagToSet(b) \ {x} \subseteq BagToSet(b (-) One(x))
         /\ BagToSet(b (-) One(x)) \subseteq BagToSet(b)
<1>1. ASSUME NEW y \in BagToSet(b), y # x PROVE y \in BagToSet(b (-) One(x))
  <2>1. Copies(y, b) \in Nat \ {0}
    BY DEF Copies, IsABag, BagToSet
  <2>2. Copies(y, b (-) One(x)) = Copies(y, b)
    BY <1>1, <2>1, CopiesTake, CopiesOne
  <2> QED BY <2>1, <2>2 DEF Copies
<1> QED BY <1>1, CopiesTake

LEMMA ReceiveCalm ==
  ASSUME NEW S, Calm(S, {}, {}), NEW m \in BagToSet(S.net)
  PROVE  /\ Calm(Receive(S, m), LinksOf(S, m), AsksOf(S, m))
         /\ \A a \in Node, i \in Index :
              Surplus(Receive(S, m), a, i) >= MessageWeight(m, a, i)
<1> DEFINE T == Receive(S, m)
<1>1. Sound(S) /\ NoneLacks(S) /\ Full(S)
  BY DEF Calm, Fit
<1>2. /\ m \in Carried /\ Sound(T)
      /\ T.exp = S.exp /\ T.obj = S.obj /\ T.held = S.held
      /\ \A a \in Node, i \in Index :
           Surplus(T, a, i) = Surplus(S, a, i) + MessageWeight(m, a, i)
  BY <1>1, ReceiveOne
<1>3. \A a \in Node, i \in Index :
        /\ Surplus(S, a, i) \in Int /\ Surplus(S, a, i) >= 0 /\ MessageWeight(m, a, i) \in Nat
        /\ Surplus(T, a, i) >= 0 /\ Surplus(T, a, i) >= MessageWeight(m, a, i)
  <2> SUFFICES ASSUME NEW a \in Node, NEW i \in Index
               PROVE  /\ Surplus(S, a, i) \in Int /\ Surplus(S, a, i) >= 0
                      /\ MessageWeight(m, a, i) \in Nat
                      /\ Surplus(T, a, i) >= 0 /\ Surplus(T, a, i) >= MessageWeight(m, a, i)
    OBVIOUS
  <2>1. MessageWeight(m, a, i) \in Nat
    BY <1>1, NetFacts
  <2>2. Surplus(S, a, i) \in Int /\ Surplus(S, a, i) >= 0
    BY <1>1, SurplusType DEF Sound, NoneLacks
  <2> QED BY <1>2, <2>1, <2>2
<1>4. BagToSet(S.net) \ {m} \subseteq BagToSet(T.net) /\ BagToSet(T.net) \subseteq BagToSet(S.net)
  <2>1. S \in Memories /\ IsABag(S.net)
    BY <1>1, BagsOfAre DEF Sound, Shaped, Memories, Flights
  <2>2. T.net = S.net (-) One(m)
    BY <2>1 DEF Receive, Memories
  <2> QED BY <2>1, <2>2, TakenIs
<1> HIDE DEF T
<1>5. Fit(T)
  <2>1. Full(T)
    BY <1>1, <1>2, <1>4 DEF Full, RepliesOn, HooksOn, Content
  <2> QED BY <1>2, <1>3, <2>1 DEF Fit, NoneLacks
<1>6. Unmoved(S, T, {}, {m}, {})
  BY <1>2, <1>4 DEF Unmoved, Content
<1>7. \A r : Backs(S, r) => Backs(T, r) /\ Spot(T, r) = Spot(S, r) /\ Spot(S, r) \in Spots
  BY <1>1, <1>2, SpotIs DEF Backs, Spot, Sound, Shaped
<1> DEFINE L2 == LinksOf(S, m)  K2 == AsksOf(S, m)
<1>8. L2 \in SUBSET (Spots \X Spots)
  BY <1>1, UnifySpots DEF LinksOf
<1>9. \A k \in K2 : k \in Asks(S)
  BY AskIs DEF AsksOf
<1>10. \A k \in K2 : Backs(T, k) /\ k.at \in Spots
  BY <1>1, <1>7, <1>9, AskBacks
<1> DEFINE H == With(T, L2, K2)
<1>11. L2 \subseteq H.links /\ K2 \subseteq H.asks
  BY DEF With
<1>12. H = With(T, L2, K2)
  OBVIOUS
<1> HIDE DEF L2, K2, H
<1>13. Arrived(S, H, m)
  <2>1. m.type = "unify" => <<Spot(S, Addressed(m)), TermSpot(S, m.term)>> \in H.links
    BY <1>11 DEF L2, LinksOf
  <2>2. m.type = "read" => Ask(m.term.node, m.term.index, Spot(S, Addressed(m))) \in H.asks
    BY <1>11 DEF K2, AsksOf
  <2>3. m.type = "answer" => Ask(m.to, m.index, Nowhere) \in H.asks
    BY <1>11 DEF K2, AsksOf
  <2> QED BY <2>1, <2>2, <2>3, SameSideBasics DEF Arrived
<1>14. Calm(T, L2, K2)
  <2>1. \A x \in {m} : Arrived(S, H, x)
    BY <1>13
  <2>2. {m} \in SUBSET BagToSet(S.net)
    OBVIOUS
  <2>3. \A x \in {} : x.type # "read" /\ (x.type = "answer" => Ask(x.to, x.index, Nowhere) \in {})
    OBVIOUS
  <2> QED BY <1>5, <1>6, <1>8, <1>9, <1>10, <1>12, <2>1, <2>2, <2>3, TablesStep
<1> QED BY <1>3, <1>14 DEF T, L2, K2

(* Weight comes home.  What was to come to an entry that is free again,    *)
(* has become a unification.                                               *)
LEMMA SearchCalm ==
  ASSUME NEW S, NEW L, NEW K, Calm(S, L, K), NEW n \in Node, NEW i \in Index,
         NEW w \in Nat \ {0}, w <= Surplus(S, n, i), NEW T, T = Search(S, n, i, w),
         NEW L2 \in SUBSET (Spots \X Spots), L \subseteq L2, NEW K2 \in SUBSET K,
         \A k \in K2 : Backs(T, k),
         \A k \in K : k \in K2 \/ <<Spot(S, k), k.at>> \in L2
  PROVE  /\ Calm(T, L2, K2)
         /\ T.obj = S.obj /\ T.held = S.held /\ T.net = S.net
         /\ S.exp[n][i] # Unused /\ Live(S, n, S.exp[n][i].data)
         /\ \A a \in Node, j \in Index :
              /\ Surplus(T, a, j) = Surplus(S, a, j) - RefWeight(RefTo(n, i, w), a, j)
              /\ T.exp[a][j] # Unused => T.exp[a][j].data = S.exp[a][j].data
<1>1. Sound(S) /\ NoneLacks(S) /\ Full(S) /\ Shaped(S) /\ S \in Memories
  BY DEF Calm, Fit, Sound, Shaped
<1>2. /\ S.exp[n][i].wec \in Nat /\ Surplus(S, n, i) \in Int /\ w <= S.exp[n][i].wec
      /\ \A a \in Node, j \in Index :
           /\ Surplus(S, a, j) \in Int /\ Surplus(S, a, j) >= 0
           /\ S.exp[a][j].wec \in Nat /\ S.exp[a][j].wec <= EXPORT_UNIT_WEC
  BY <1>1, SurplusType DEF NoneLacks, Full
<1>3. /\ Sound(T) /\ T.obj = S.obj /\ T.held = S.held /\ T.net = S.net
      /\ S.exp[n][i] # Unused /\ Live(S, n, S.exp[n][i].data)
      /\ \A a \in Node, j \in Index :
           Surplus(T, a, j) = Surplus(S, a, j) - RefWeight(RefTo(n, i, w), a, j)
  BY <1>1, <1>2, SearchGivesBack
<1>4. ASSUME NEW a \in Node, NEW j \in Index
      PROVE  /\ T.exp[a][j].wec <= EXPORT_UNIT_WEC
             /\ T.exp[a][j] # Unused => T.exp[a][j].data = S.exp[a][j].data
  <2>1. /\ S.exp \in [Node -> [Index -> Entries]]
        /\ T.exp[a][j]
             = IF a = n /\ j = i
               THEN IF S.exp[n][i].wec = w THEN Unused
                    ELSE [S.exp[n][i] EXCEPT !.wec = S.exp[n][i].wec - w]
               ELSE S.exp[a][j]
    BY <1>1 DEF Memories, Search
  <2>2. S.exp[n][i] \in [wec : Nat \ {0}, data : Slot \cup {Bound}]
    BY <1>3, <2>1 DEF Entries
  <2> QED BY <1>2, <2>1, <2>2, WecAssumption DEF Unused
<1>5. Fit(T)
  <2>1. NoneLacks(T)
    BY <1>2, <1>3 DEF NoneLacks, RefWeight, RefTo
  <2>2. Full(T)
    BY <1>1, <1>3, <1>4 DEF Full, RepliesOn, HooksOn, Content
  <2> QED BY <1>3, <2>1, <2>2 DEF Fit
<1>6. Unmoved(S, T, {}, {}, {})
  BY <1>3, <1>4 DEF Unmoved, Content, Backs
<1> DEFINE H == With(T, L2, K2)  M == {}
<1>7. L2 \subseteq H.links /\ K2 \subseteq H.asks /\ H = With(T, L2, K2)
  BY DEF With
<1>8. /\ M \in SUBSET BagToSet(S.net) /\ Unmoved(S, T, {}, M, M)
      /\ \A m \in M : Arrived(S, H, m) /\ m.type # "read" /\ m.type # "answer"
  BY <1>6
<1> HIDE DEF H, M
<1>9. \A l \in L : SameSide(H, l[1], l[2])
  <2> SUFFICES ASSUME NEW l \in L PROVE SameSide(H, l[1], l[2])
    OBVIOUS
  <2>1. l \in L2 /\ l \in Spots \X Spots
    OBVIOUS
  <2>2. <<l[1], l[2]>> \in H.links
    BY <1>7, <2>1
  <2> QED BY <2>2, SameSideBasics
<1>10. ASSUME NEW k \in K PROVE PassedOn(S, H, k)
  <2>1. CASE k \in K2
    BY <1>7, <2>1 DEF PassedOn
  <2>2. CASE <<Spot(S, k), k.at>> \in L2
    <3>1. <<Spot(S, k), k.at>> \in H.links
      BY <1>7, <2>2
    <3> QED BY <3>1, SameSideBasics DEF PassedOn
  <2> QED BY <2>1, <2>2
<1>11. \A k \in K2 : Backs(T, k) /\ k.at \in Spots
  BY DEF Calm
<1>12. Calm(T, L2, K2)
  BY <1>5, <1>7, <1>8, <1>9, <1>10, <1>11, TablesStep
<1> QED BY <1>3, <1>4, <1>12

(* What is exported gets an entry nothing leads to yet.                    *)
LEMMA RegisteredIs ==
  ASSUME NEW S, Sound(S), NEW n \in Node, NEW s \in Slot, NEW e \in Registered(S, n, s)
  PROVE  /\ e.ref.node = n /\ e.ref.index \in Index /\ e.ref.wec = EXPORT_UNIT_WEC
         /\ S.exp[n][e.ref.index] = Unused
         /\ e.mem.exp[n][e.ref.index] = Entry(s)
         /\ \A a \in Node, j \in Index :
              a # n \/ j # e.ref.index => e.mem.exp[a][j] = S.exp[a][j]
<1>1. S.exp \in [Node -> [Index -> Entries]] /\ S \in Memories
  BY DEF Sound, Shaped, Memories
<1>2. PICK i \in Index :
        /\ S.exp[n][i] = Unused
        /\ e = [mem |-> [S EXCEPT !.exp[n][i] = Entry(s)], ref |-> RefTo(n, i, EXPORT_UNIT_WEC)]
  BY DEF Registered
<1>3. e.mem.exp = [S.exp EXCEPT ![n] = [S.exp[n] EXCEPT ![i] = Entry(s)]]
  BY <1>1, <1>2 DEF Memories
<1> QED BY <1>1, <1>2, <1>3 DEF RefTo

LEMMA RegisteredCalm ==
  ASSUME NEW S, NEW L, NEW K, Calm(S, L, K), NEW n \in Node, NEW s \in Slot,
         S.obj[n][s] # Free, NEW e \in Registered(S, n, s)
  PROVE  Calm(e.mem, L, K) /\ Backs(e.mem, e.ref) /\ Spot(e.mem, e.ref) = <<n, s>>
<1> DEFINE T == e.mem  i == e.ref.index
<1>1. Sound(S) /\ NoneLacks(S) /\ Full(S) /\ Shaped(S) /\ S \in Memories
  BY DEF Calm, Fit, Sound, Shaped
<1>2. /\ Sound(T) /\ T.obj = S.obj /\ T.held = S.held /\ T.net = S.net
      /\ e.ref \in Given /\ e.ref.node = n /\ e.ref.wec = EXPORT_UNIT_WEC
      /\ \A a \in Node, j \in Index :
           Surplus(T, a, j) = Surplus(S, a, j) + RefWeight(e.ref, a, j)
  BY <1>1, RegisteredGives
<1>3. /\ i \in Index /\ S.exp[n][i] = Unused /\ T.exp[n][i] = Entry(s)
      /\ \A a \in Node, j \in Index : a # n \/ j # i => T.exp[a][j] = S.exp[a][j]
  BY <1>1, RegisteredIs
<1> HIDE DEF T, i
<1>4. Entry(s).wec = EXPORT_UNIT_WEC /\ Entry(s).data = s /\ Entry(s) # Unused
  BY WecAssumption DEF Entry, Unused
<1>5. Fit(T)
  <2>1. \A a \in Node, j \in Index : T.exp[a][j].wec <= EXPORT_UNIT_WEC
    BY <1>1, <1>3, <1>4, WecAssumption DEF Full
  <2>2. Full(T)
    BY <1>1, <1>2, <2>1 DEF Full, RepliesOn, HooksOn, Content
  <2>3. ASSUME NEW a \in Node, NEW j \in Index PROVE Surplus(T, a, j) >= 0
    <3>1. /\ Surplus(S, a, j) \in Int /\ Surplus(S, a, j) >= 0
          /\ RefWeight(e.ref, a, j) \in Nat
      BY <1>1, <1>2, SurplusType, WeightTypes DEF NoneLacks
    <3> QED BY <1>2, <3>1
  <2> QED BY <1>2, <2>2, <2>3 DEF Fit, NoneLacks
<1>6. \A r : Backs(S, r) => Backs(T, r) /\ T.exp[r.node][r.index] = S.exp[r.node][r.index]
  BY <1>3 DEF Backs
<1> DEFINE H == With(T, L, K)  M == {}
<1>7. L \subseteq H.links /\ K \subseteq H.asks /\ H = With(T, L, K)
  BY DEF With
<1>8. /\ M \in SUBSET BagToSet(S.net) /\ Unmoved(S, T, {}, M, M)
      /\ \A m \in M : Arrived(S, H, m) /\ m.type # "read" /\ m.type # "answer"
      /\ \A k \in K : PassedOn(S, H, k)
  BY <1>2, <1>6, <1>7 DEF Unmoved, Content, PassedOn
<1> HIDE DEF H, M
<1>9. L \in SUBSET (Spots \X Spots) /\ \A k \in K : Backs(T, k) /\ k.at \in Spots
  BY <1>6 DEF Calm
<1>10. ASSUME NEW l \in L PROVE SameSide(H, l[1], l[2])
  <2>1. l = <<l[1], l[2]>>
    BY <1>9
  <2>2. <<l[1], l[2]>> \in H.links
    BY <1>7, <2>1
  <2> QED BY <2>2, SameSideBasics
<1>11. Calm(T, L, K)
  BY <1>5, <1>7, <1>8, <1>9, <1>10, TablesStep
<1>12. Backs(T, e.ref) /\ Spot(T, e.ref) = <<n, s>>
  BY <1>2, <1>3, <1>4 DEF Backs, Spot, SpotOf, i
<1> QED BY <1>11, <1>12 DEF T

(* A message that asks nobody anything, but may be an answer.              *)
LEMMA PostCalm ==
  ASSUME NEW S, NEW L, NEW K, Calm(S, L, K), NEW m \in Carried, m.type # "read",
         m.type = "answer" => m.wec = EXPORT_UNIT_WEC /\ Ask(m.to, m.index, Nowhere) \in K,
         \A a \in Node, i \in Index : MessageWeight(m, a, i) <= Surplus(S, a, i),
         NEW K2 \in SUBSET K,
         \A k \in K : k \in K2 \/ (m.type = "answer" /\ k = Ask(m.to, m.index, Nowhere))
  PROVE  Calm(Post(S, One(m)), L, K2)
<1> DEFINE T == Post(S, One(m))
<1>1. Sound(S) /\ NoneLacks(S) /\ Full(S) /\ Shaped(S) /\ Rooted(S) /\ S \in Memories
  BY DEF Calm, Fit, Sound, Shaped
<1>2. /\ Sound(T) /\ T.exp = S.exp /\ T.obj = S.obj /\ T.held = S.held
      /\ \A a \in Node, i \in Index :
           Surplus(T, a, i) = Surplus(S, a, i) - MessageWeight(m, a, i)
  BY <1>1, PostOne DEF Sound
<1>3. BagToSet(T.net) = BagToSet(S.net) \cup {m}
  <2>1. IsABag(S.net)
    BY <1>1, BagsOfAre DEF Memories, Flights
  <2>2. T.net = S.net (+) One(m)
    BY <1>1 DEF Post, Memories
  <2> QED BY <2>1, <2>2, CopiesAdd, CopiesOne
<1> HIDE DEF T
<1>4. Fit(T)
  <2>1. ASSUME NEW a \in Node, NEW i \in Index PROVE Surplus(T, a, i) >= 0
    <3>1. Surplus(S, a, i) \in Int /\ MessageWeight(m, a, i) \in Nat
      BY <1>1, SurplusType, WeightTypes
    <3> QED BY <1>2, <3>1
  <2>2. Full(T)
    BY <1>1, <1>2, <1>3 DEF Full, RepliesOn, HooksOn, Content
  <2> QED BY <1>2, <2>1, <2>2 DEF Fit, NoneLacks
<1> DEFINE H == With(T, L, K2)  M == {}
<1>5. L \subseteq H.links /\ K2 \subseteq H.asks /\ Asks(T) \subseteq H.asks /\ H = With(T, L, K2)
  BY DEF With
<1>6. /\ M \in SUBSET BagToSet(S.net) /\ Unmoved(S, T, {}, M, {m})
      /\ \A x \in M : Arrived(S, H, x)
  BY <1>2, <1>3 DEF Unmoved, Content
<1> HIDE DEF H, M
<1>7. L \in SUBSET (Spots \X Spots) /\ \A k \in K2 : Backs(T, k) /\ k.at \in Spots
  BY <1>2 DEF Calm, Backs
<1>8. ASSUME NEW l \in L PROVE SameSide(H, l[1], l[2])
  <2>1. l = <<l[1], l[2]>>
    BY <1>7
  <2>2. <<l[1], l[2]>> \in H.links
    BY <1>5, <2>1
  <2> QED BY <2>2, SameSideBasics
<1>9. ASSUME NEW k \in K PROVE PassedOn(S, H, k)
  <2>1. CASE k \in K2
    BY <1>5, <2>1 DEF PassedOn
  <2>2. CASE m.type = "answer" /\ k = Ask(m.to, m.index, Nowhere)
    <3>1. k \in Asks(T)
      BY <1>3, <2>2, AskIs
    <3> QED BY <1>5, <3>1 DEF PassedOn
  <2> QED BY <2>1, <2>2
<1>10. \A x \in {m} : /\ x.type # "read"
                       /\ x.type = "answer" => Ask(x.to, x.index, Nowhere) \in K
  OBVIOUS
<1>11. Calm(T, L, K2)
  BY <1>4, <1>5, <1>6, <1>7, <1>8, <1>9, <1>10, TablesStep
<1> QED BY <1>11 DEF T

(* Goals come to hold something, or hold it no more.                       *)
LEMMA HeldCalm ==
  ASSUME NEW S, NEW L, NEW K, Calm(S, L, K), NEW T, Kept(S, T),
         T.exp = S.exp, T.obj = S.obj, T.net = S.net
  PROVE  Calm(T, L, K)
<1>1. With(T, L, K) = With(S, L, K)
  BY DEF With, Links, Waits, Asks, Open, Sent, Spot, TermSpot, ReadsOn, RepliesOn, HooksOn,
         Content
<1>2. Fit(T)
  BY DEF Calm, Fit, Kept, NoneLacks, Full, RepliesOn, HooksOn, Content
<1>3. \A k : Backs(S, k) <=> Backs(T, k)
  BY DEF Backs
<1>4. Waits(T) = Waits(S) /\ Asks(T) = Asks(S) /\ \A k : Spot(T, k) = Spot(S, k)
  BY DEF Waits, Asks, Sent, Spot, ReadsOn, RepliesOn, HooksOn, Content
<1>5. \A k : Met(T, k) <=> Met(S, k)
  BY <1>4 DEF Met
<1> QED BY <1>1, <1>2, <1>3, <1>4, <1>5 DEF Calm

-----------------------------------------------------------------------------
(* Operations that change one object.                                      *)
Only(S, T, z, o) ==
  /\ z \in Places /\ Content(T, z) = o
  /\ \A p \in Places : p # z => Content(T, p) = Content(S, p)

LEMMA OnlyIs ==
  ASSUME NEW S, NEW T, NEW n \in Node, NEW s \in Slot, NEW o,
         \A a \in Node, x \in Slot : T.obj[a][x] = IF a = n /\ x = s THEN o ELSE S.obj[a][x]
  PROVE  Only(S, T, <<n, s>>, o) /\ Content(S, <<n, s>>) = S.obj[n][s]
<1>1. ASSUME NEW p \in Places, p # <<n, s>> PROVE Content(T, p) = Content(S, p)
  <2>1. p = <<p[1], p[2]>> /\ p[1] \in Node /\ p[2] \in Slot
    BY DEF Places
  <2>2. ~(p[1] = n /\ p[2] = s)
    BY <1>1, <2>1
  <2> QED BY <2>1, <2>2 DEF Content
<1> QED BY <1>1 DEF Only, Places, Content

LEMMA NoHooks ==
  ASSUME NEW S, NEW p
  PROVE  /\ Content(S, p) = Free \/ IsExref(Content(S, p)) => HooksOn(S, p) = {}
         /\ Content(S, p) = Var(EmptyBag) => HooksOn(S, p) = {}
         /\ HooksOn(S, p) = {} => ReadsOn(S, p) = {} /\ RepliesOn(S, p) = {}
         /\ Content(S, p) = Free => ~IsExref(Content(S, p))
  BY CopiesNone DEF HooksOn, ReadsOn, RepliesOn, IsVar, IsExref, Free, Var

(* A new variable, or a reference that comes from another node.            *)
LEMMA FreshCalm ==
  ASSUME NEW S, NEW L, NEW K, Calm(S, L, K), NEW T, Sound(T), NoneLacks(T),
         NEW z, NEW o, Only(S, T, z, o), Content(S, z) = Free, HooksOn(T, z) = {},
         T.exp = S.exp, T.net = S.net,
         NEW L2 \in SUBSET (Spots \X Spots),
         \A l \in L : SameSide(With(T, L2, K), l[1], l[2])
  PROVE  Calm(T, L2, K)
<1> DEFINE H == With(T, L2, K)  M == {}  Z == {z}  G == With(S, L, K)
<1>1. Sound(S) /\ NoneLacks(S) /\ Full(S)
  BY DEF Calm, Fit
<1>2. z \in Places /\ \A p \in Places : p # z => Content(T, p) = Content(S, p)
  BY DEF Only
<1>3. /\ HooksOn(S, z) = {} /\ ReadsOn(S, z) = {} /\ RepliesOn(S, z) = {}
      /\ ~IsExref(Content(S, z)) /\ RepliesOn(T, z) = {}
  BY NoHooks
<1>4. Fit(T)
  <2>1. ASSUME NEW p \in Places, NEW h \in RepliesOn(T, p) PROVE h.wec = EXPORT_UNIT_WEC
    <3>1. p # z /\ h \in RepliesOn(S, p)
      BY <1>2, <1>3, <2>1 DEF RepliesOn, HooksOn
    <3> QED BY <1>1, <3>1 DEF Full
  <2>2. Full(T)
    BY <1>1, <2>1 DEF Full
  <2> QED BY <2>2 DEF Fit
<1>5. K \subseteq H.asks /\ H = With(T, L2, K) /\ G = With(S, L, K) /\ K \subseteq G.asks
  BY DEF With
<1>6. /\ Z \in SUBSET Places /\ M \in SUBSET BagToSet(S.net) /\ Unmoved(S, T, Z, M, M)
      /\ \A m \in M : Arrived(S, H, m)
  BY <1>2 DEF Unmoved
<1>7. \A p \in Z : Remains(S, T, H, p)
  BY <1>3 DEF Remains
<1>8. \A k \in K : Backs(T, k) /\ k.at \in Spots
  BY DEF Calm, Backs
<1>9. \A C : Vain(H, C) /\ ~Awaited(G, C) => NotNewly(T, C, Z, M, K)
  BY <1>5 DEF NotNewly, Awaited
<1>10. \A l \in L : SameSide(H, l[1], l[2])
  OBVIOUS
<1>11. \A k \in K : PassedOn(S, H, k)
  BY <1>5 DEF PassedOn
<1>12. NoneAsksAnew(S, K, T, Z, M, K)
  BY <1>3 DEF NoneAsksAnew, AskedBefore
<1> HIDE DEF H, M, Z, G
<1> QED BY <1>4, <1>5, <1>6, <1>7, <1>8, <1>9, <1>10, <1>11, <1>12, StayStep

LEMMA PutStep ==
  ASSUME NEW S, NEW L, NEW K, Calm(S, L, K), NEW T, Fit(T), NEW z, NEW o, Only(S, T, z, o),
         NEW N, BagToSet(S.net) \subseteq BagToSet(T.net),
         BagToSet(T.net) \subseteq BagToSet(S.net) \cup N,
         \A r : Backs(S, r) => T.exp[r.node][r.index] = S.exp[r.node][r.index],
         NEW K2 \in SUBSET K, NEW G, G = With(S, L, K), NEW H, H = With(T, L, K2),
         Remains(S, T, H, z), \A k \in K : k \in K2 \/ PassedOn(S, H, k),
         \A C : Vain(H, C) /\ ~Awaited(G, C) =>
           /\ z \in C => HooksOn(T, z) = {}
           /\ \A m \in N : m.type = "read" => Spot(T, Addressed(m)) \notin C,
         NoneAsksAnew(S, K, T, {z}, N, {})
  PROVE  Calm(T, L, K2)
<1> DEFINE M == {}  Z == {z}
<1>1. L \in SUBSET (Spots \X Spots) /\ \A k \in K : Backs(S, k) /\ k.at \in Spots
  BY DEF Calm
<1>2. L \subseteq H.links /\ K2 \subseteq H.asks /\ K \subseteq G.asks
  BY DEF With
<1>3. /\ Z \in SUBSET Places /\ M \in SUBSET BagToSet(S.net) /\ Unmoved(S, T, Z, M, N)
      /\ \A m \in M : Arrived(S, H, m)
  BY DEF Only, Unmoved
<1>4. \A p \in Z : Remains(S, T, H, p)
  OBVIOUS
<1>5. \A k \in K2 : Backs(T, k) /\ k.at \in Spots
  BY <1>1 DEF Backs
<1>6. ASSUME NEW C, Vain(H, C), ~Awaited(G, C) PROVE NotNewly(T, C, Z, N, K2)
  <2>1. \A k \in K2 : k.at \notin C
    BY <1>2, <1>6 DEF Awaited
  <2> QED BY <1>6, <2>1 DEF NotNewly
<1>7. ASSUME NEW l \in L PROVE SameSide(H, l[1], l[2])
  <2>1. l = <<l[1], l[2]>>
    BY <1>1
  <2>2. <<l[1], l[2]>> \in H.links
    BY <1>2, <2>1
  <2> QED BY <2>2, SameSideBasics
<1>8. \A k \in K : PassedOn(S, H, k)
  BY <1>2 DEF PassedOn
<1>9. NoneAsksAnew(S, K, T, Z, N, K2)
  BY DEF NoneAsksAnew, AskedBefore
<1> HIDE DEF M, Z
<1> QED BY <1>1, <1>3, <1>4, <1>5, <1>6, <1>7, <1>8, <1>9, StayStep

(* A reference gives half of its weight away.                              *)
LEMMA SplitCalm ==
  ASSUME NEW S, NEW L, NEW K, Calm(S, L, K), NEW T, Sound(T), NoneLacks(T),
         NEW z, NEW o, Only(S, T, z, o), IsExref(o), IsExref(Content(S, z)),
         o.node = Content(S, z).node, o.index = Content(S, z).index,
         T.exp = S.exp, T.net = S.net
  PROVE  Calm(T, L, K)
<1> DEFINE H == With(T, L, K)  N == {}  G == With(S, L, K)  q == Spot(S, Content(S, z))
<1>1. Full(S)
  BY DEF Calm, Fit
<1>2. /\ z \in Places /\ Content(T, z) = o
      /\ \A p \in Places : p # z => Content(T, p) = Content(S, p)
  BY DEF Only
<1>3. /\ HooksOn(S, z) = {} /\ ReadsOn(S, z) = {} /\ RepliesOn(S, z) = {}
      /\ HooksOn(T, z) = {} /\ RepliesOn(T, z) = {}
  BY <1>2, NoHooks
<1>4. Fit(T)
  <2>1. ASSUME NEW p \in Places, NEW h \in RepliesOn(T, p) PROVE h.wec = EXPORT_UNIT_WEC
    <3>1. p # z /\ h \in RepliesOn(S, p)
      BY <1>2, <1>3, <2>1 DEF RepliesOn, HooksOn
    <3> QED BY <1>1, <3>1 DEF Full
  <2>2. Full(T)
    BY <1>1, <2>1 DEF Full
  <2> QED BY <2>2 DEF Fit
<1>5. Remains(S, T, H, z)
  <2>1. Spot(T, Content(T, z)) = q
    BY <1>2 DEF Spot
  <2>2. <<z, q>> \in H.links
    BY <1>2, <2>1, LinkIs DEF With
  <2> QED BY <1>3, <2>2, SameSideBasics DEF Remains
<1>6. /\ BagToSet(S.net) \subseteq BagToSet(T.net)
      /\ BagToSet(T.net) \subseteq BagToSet(S.net) \cup N
      /\ \A r : Backs(S, r) => T.exp[r.node][r.index] = S.exp[r.node][r.index]
      /\ \A C : \A m \in N : m.type = "read" => Spot(T, Addressed(m)) \notin C
      /\ G = With(S, L, K) /\ H = With(T, L, K) /\ K \in SUBSET K
  OBVIOUS
<1>7. NoneAsksAnew(S, K, T, {z}, N, {})
  BY <1>3 DEF NoneAsksAnew
<1> HIDE DEF H, N, G
<1> QED BY <1>3, <1>4, <1>5, <1>6, <1>7, PutStep

GeneratedBy(S, T, z, e) ==
  LET o == Content(S, z)
  IN  /\ T.exp = e.mem.exp
      /\ Only(S, T, z, Var(One(ReadHook(RefTo(o.node, o.index, o.wec - 1), e.ref.index))))
      /\ BagToSet(T.net) = BagToSet(S.net) \cup {ReadMsg(o, e.ref, TRANSFER_CNT)}

LEMMA GenerateIs ==
  ASSUME NEW S, Sound(S), NEW n \in Node, NEW s \in Slot, IsExref(S.obj[n][s]),
         NEW T \in Generate(S, n, s)
  PROVE  \E e \in Registered(S, n, s) : GeneratedBy(S, T, <<n, s>>, e)
<1> DEFINE o == S.obj[n][s]
           h(i) == ReadHook(RefTo(o.node, o.index, o.wec - 1), i)
<1>1. PICK e \in Registered(S, n, s) :
        T = Post([e.mem EXCEPT !.obj[n][s] = Var(One(h(e.ref.index)))],
                 One(ReadMsg(o, e.ref, TRANSFER_CNT)))
  BY DEF Generate
<1> DEFINE v == Var(One(h(e.ref.index)))  m == ReadMsg(o, e.ref, TRANSFER_CNT)
           U == Put(e.mem, n, s, v)
<1>2. S \in Memories /\ o # Free /\ o \in Exrefs
  <2>1. S \in Memories /\ o \in Objects
    BY DEF Sound, Shaped, Memories
  <2> QED BY <2>1, ObjectKinds
<1>3. /\ Sound(e.mem) /\ e.mem.obj = S.obj /\ e.mem.net = S.net
      /\ e.ref \in Given /\ e.ref.index \in Index
  BY <1>2, RegisteredGives DEF Given, Reference
<1>4. h(e.ref.index) \in Hook
  BY <1>2, <1>3, WecAssumption DEF Hook, Hooked, ReadHook, RefTo, Exrefs
<1> HIDE DEF h
<1>5. v \in Objects
  BY <1>4, HooksOne DEF Objects
<1>6. T = Post(U, One(m))
  BY <1>1 DEF Put
<1> HIDE DEF v, m
<1>7. HasPut(e.mem, U, n, s, v)
  BY <1>3, <1>5, PutObject DEF Sound
<1> HIDE DEF U
<1>8. /\ U.exp = e.mem.exp /\ U.net = S.net /\ U \in Memories
      /\ \A a \in Node, x \in Slot : U.obj[a][x] = IF a = n /\ x = s THEN v ELSE S.obj[a][x]
  BY <1>3, <1>7 DEF HasPut, Shaped
<1>9. T.exp = U.exp /\ T.obj = U.obj /\ T.net = S.net (+) One(m)
  BY <1>6, <1>8 DEF Post, Memories
<1>10. Only(S, T, <<n, s>>, v)
  <2>1. \A a \in Node, x \in Slot : T.obj[a][x] = IF a = n /\ x = s THEN v ELSE S.obj[a][x]
    BY <1>8, <1>9
  <2> QED BY <2>1, OnlyIs
<1>11. BagToSet(T.net) = BagToSet(S.net) \cup {m}
  <2>1. IsABag(S.net)
    BY <1>2, BagsOfAre DEF Memories, Flights
  <2> QED BY <1>9, <2>1, CopiesAdd, CopiesOne
<1>12. Content(S, <<n, s>>) = o
  BY DEF Content
<1>13. GeneratedBy(S, T, <<n, s>>, e)
  BY <1>8, <1>9, <1>10, <1>11, <1>12 DEF GeneratedBy, v, m, h
<1> QED BY <1>13

(* An exref becomes a variable with a read hook: what it leads to is asked, *)
(* so that a way from the variable to there remains.                       *)
LEMMA GenerateCalm ==
  ASSUME NEW S, NEW L, NEW K, Calm(S, L, K), NEW n \in Node, NEW s \in Slot,
         IsExref(S.obj[n][s]), NEW T \in Generate(S, n, s)
  PROVE  Calm(T, L, K)
<1> DEFINE o == S.obj[n][s]  z == <<n, s>>
<1>1. Sound(S) /\ NoneLacks(S) /\ Full(S) /\ S \in Memories
  BY DEF Calm, Fit, Sound, Shaped
<1>2. /\ Sound(T) /\ NoneLacks(T) /\ T \in Memories
      /\ Content(S, z) = o /\ z \in Places /\ IsExref(Content(S, z))
  <2>1. Kept(S, T)
    BY <1>1, GenerateKeeps
  <2> QED BY <1>1, <2>1 DEF Kept, NoneLacks, Content, Places, Sound, Shaped
<1>3. PICK e \in Registered(S, n, s) : GeneratedBy(S, T, z, e)
  BY <1>1, GenerateIs
<1>4. /\ T.exp = e.mem.exp
      /\ Only(S, T, z, Var(One(ReadHook(RefTo(o.node, o.index, o.wec - 1), e.ref.index))))
      /\ BagToSet(T.net) = BagToSet(S.net) \cup {ReadMsg(o, e.ref, TRANSFER_CNT)}
  BY <1>3, <1>2 DEF GeneratedBy
<1> DEFINE i == e.ref.index
           h == ReadHook(RefTo(o.node, o.index, o.wec - 1), i)
           m == ReadMsg(o, e.ref, TRANSFER_CNT)
           q == Spot(T, o)
<1>5. /\ e.ref.node = n /\ i \in Index /\ e.ref.wec = EXPORT_UNIT_WEC
      /\ S.exp[n][i] = Unused /\ T.exp[n][i] = Entry(s)
      /\ \A a \in Node, j \in Index : a # n \/ j # i => T.exp[a][j] = S.exp[a][j]
  BY <1>1, <1>4, RegisteredIs
<1>6. h.ret = i /\ i # None /\ h.node = o.node /\ h.index = o.index
  BY <1>5, TermAssumption DEF ReadHook, RefTo
<1>7. /\ m.type = "read" /\ m.term = e.ref /\ m.to = o.node /\ m.index = o.index
  BY DEF ReadMsg, Message, RefTo
<1> HIDE DEF h, m
<1>8. HooksOn(T, z) = {h}
  BY <1>4, CopiesOne DEF Only, HooksOn, IsVar, Var, h
<1>9. ReadsOn(T, z) = {h} /\ RepliesOn(T, z) = {}
  BY <1>6, <1>8 DEF ReadsOn, RepliesOn
<1>10. ReadsOn(S, z) = {} /\ RepliesOn(S, z) = {}
  BY <1>2, NoHooks
<1>11. /\ \A r : Backs(S, r) => T.exp[r.node][r.index] = S.exp[r.node][r.index]
       /\ Spot(S, o) = q /\ Spot(T, h) = q /\ Spot(T, Addressed(m)) = q
       /\ q \in Spots /\ Backs(S, o)
  <2>1. Backs(S, o)
    BY <1>1, <1>2, ExrefBacks
  <2>2. ASSUME NEW r, Backs(S, r) PROVE T.exp[r.node][r.index] = S.exp[r.node][r.index]
    <3>1. r.node \in Node /\ r.index \in Index /\ S.exp[r.node][r.index] # Unused
      BY <2>2 DEF Backs
    <3>2. r.node # n \/ r.index # i
      BY <1>5, <3>1
    <3> QED BY <1>5, <3>1, <3>2
  <2>3. Spot(S, o) = q
    BY <2>1, <2>2 DEF Spot
  <2>4. Spot(S, o) \in Spots
    BY <1>1, <2>1, SpotIs
  <2>5. Spot(T, h) = q /\ Spot(T, Addressed(m)) = q
    BY <1>6, <1>7 DEF Spot, Addressed, RefTo
  <2> QED BY <2>1, <2>2, <2>3, <2>4, <2>5
<1> DEFINE H == With(T, L, K)  N == {m}  G == With(S, L, K)
<1>12. /\ Wait(z, i, q) \in H.waits /\ Ask(n, i, q) \in H.asks /\ <<z, i>> \in H.open
  <2>1. Wait(z, h.ret, Spot(T, h)) \in Waits(T)
    BY <1>2, <1>9, WaitIs
  <2>2. Ask(m.term.node, m.term.index, Spot(T, Addressed(m))) \in Asks(T)
    BY <1>4, <1>7, AskIs DEF m
  <2>3. <<z, i>> \in Open(T)
    BY <1>2, <1>5 DEF Open, Entry
  <2> QED BY <1>5, <1>6, <1>7, <1>11, <2>1, <2>2, <2>3 DEF With
<1>13. Met(T, Ask(n, i, q))
  <2>1. Spot(T, Ask(n, i, q)) = z
    BY <1>5 DEF Spot, SpotOf, Ask, Entry
  <2>2. Wait(z, h.ret, Spot(T, h)) \in Waits(T)
    BY <1>2, <1>9, WaitIs
  <2>3. Ask(n, i, q).index = i
    BY DEF Ask
  <2> QED BY <1>6, <2>1, <2>2, <2>3 DEF Met, Wait
<1> HIDE DEF q, i
<1>14. ASSUME NEW C, Vain(H, C) PROVE z \notin C /\ q \notin C
  <2> DEFINE w == Wait(z, i, q)  k == Ask(n, i, q)
  <2>1. /\ w \in H.waits /\ w.at = z /\ w.on = q /\ w.ret = i
        /\ k \in H.asks /\ k.at = q /\ k.node = n /\ k.index = i
    BY <1>12 DEF Wait, Ask
  <2> HIDE DEF w, k
  <2>2. AsksFor(H, k, w)
    BY <1>12, <2>1 DEF AsksFor
  <2>3. Enclosed(H, C) /\ ~ReadInto(H, C)
    BY <1>14 DEF Vain
  <2>4. z \in C => q \in C
    BY <2>1, <2>2, <2>3 DEF Enclosed
  <2>5. q \notin C
    BY <2>1, <2>2, <2>3 DEF ReadInto
  <2> QED BY <2>4, <2>5
<1>15. SameSide(H, z, q)
  BY <1>14 DEF SameSide
<1>16. Remains(S, T, H, z)
  BY <1>2, <1>10, <1>11, <1>15 DEF Remains
<1>17. Fit(T)
  <2>1. ASSUME NEW p \in Places, NEW g \in RepliesOn(T, p) PROVE g.wec = EXPORT_UNIT_WEC
    <3>1. p # z
      BY <1>9, <2>1
    <3>2. g \in RepliesOn(S, p)
      BY <1>4, <2>1, <3>1 DEF RepliesOn, HooksOn, Only
    <3> QED BY <1>1, <3>2 DEF Full
  <2>2. ASSUME NEW a \in Node, NEW j \in Index PROVE T.exp[a][j].wec <= EXPORT_UNIT_WEC
    BY <1>1, <1>5, WecAssumption DEF Full, Entry, i
  <2>3. \A x \in BagToSet(T.net) : x.type = "answer" => x.wec = EXPORT_UNIT_WEC
    BY <1>1, <1>4, <1>7 DEF Full, m
  <2>4. Full(T)
    BY <2>1, <2>2, <2>3 DEF Full
  <2> QED BY <1>2, <2>4 DEF Fit
<1>18. /\ BagToSet(S.net) \subseteq BagToSet(T.net)
       /\ BagToSet(T.net) \subseteq BagToSet(S.net) \cup N
       /\ \A x \in N : x = m
       /\ G = With(S, L, K) /\ H = With(T, L, K) /\ K \in SUBSET K
  BY <1>4 DEF m
<1> HIDE DEF H, N, G
<1>19. ASSUME NEW C, Vain(H, C)
       PROVE  /\ z \in C => HooksOn(T, z) = {}
              /\ \A x \in N : x.type = "read" => Spot(T, Addressed(x)) \notin C
  BY <1>11, <1>14, <1>18, <1>19
<1>20. NoneAsksAnew(S, K, T, {z}, N, {})
  <2>1. Ask(m.term.node, m.term.index, Spot(T, Addressed(m))) = Ask(n, i, q)
    BY <1>5, <1>7, <1>11 DEF i
  <2> QED BY <1>7, <1>9, <1>18, <1>13, <2>1 DEF NoneAsksAnew, AskedBefore
<1> HIDE DEF z, o
<1> QED BY <1>4, <1>11, <1>16, <1>17, <1>18, <1>19, <1>20, PutStep

(* A read that has come to a variable stays on it as a reply hook.         *)
LEMMA AddReplyCalm ==
  ASSUME NEW S, NEW n \in Node, NEW s \in Slot, NEW back \in Given, back.wec = EXPORT_UNIT_WEC,
         NEW L, NEW K, K = {Ask(back.node, back.index, <<n, s>>)}, Calm(S, L, K),
         IsVar(S.obj[n][s]), \A a \in Node, i \in Index : RefWeight(back, a, i) <= Surplus(S, a, i)
  PROVE  Calm(AddReply(S, n, s, back), L, {})
<1> DEFINE T == AddReply(S, n, s, back)  o == S.obj[n][s]  c == o.hooks  h == ReplyHook(back)
           z == <<n, s>>  v == Var(c (+) One(h))
<1>1. /\ Sound(S) /\ NoneLacks(S) /\ Full(S) /\ Shaped(S) /\ S \in Memories
      /\ Content(S, z) = o /\ z \in Places
  BY DEF Calm, Fit, Sound, Shaped, Content, Places
<1>2. c \in HookBags /\ o = Var(c) /\ IsVar(o)
  <2>1. o \in Objects
    BY <1>1 DEF Memories
  <2> QED BY <2>1, ObjectKinds
<1>3. h \in Hook /\ h.ret = None /\ h.wec = EXPORT_UNIT_WEC /\ h.node = back.node /\ h.index = back.index
  BY WecAssumption DEF ReplyHook, ReadHook, Hook, Hooked, Given, Reference
<1>4. /\ Sound(T)
      /\ \A a \in Node, i \in Index :
           Surplus(T, a, i) = Surplus(S, a, i) - RefWeight(back, a, i)
  BY <1>1, AddReplyTakes
<1>5. NoneLacks(T)
  <2> SUFFICES ASSUME NEW a \in Node, NEW i \in Index PROVE Surplus(T, a, i) >= 0
    BY DEF NoneLacks
  <2>1. Surplus(S, a, i) \in Int /\ RefWeight(back, a, i) \in Nat
    BY <1>1, SurplusType, WeightTypes
  <2> QED BY <1>4, <2>1
<1> HIDE DEF h
<1>6. v \in Objects /\ BagToSet(c (+) One(h)) = BagToSet(c) \cup {h}
  <2>1. One(h) \in HookBags
    BY <1>3, HooksOne
  <2>2. c (+) One(h) \in HookBags
    BY <1>2, <2>1, HooksAdd
  <2>3. IsABag(c) /\ IsABag(One(h)) /\ BagToSet(One(h)) = {h}
    BY <1>2, BagsOfAre, CopiesOne DEF HookBags
  <2> QED BY <2>2, <2>3, CopiesAdd DEF Objects
<1>7. T = Put(S, n, s, v)
  <2>1. T = [S EXCEPT !.obj[n][s] = [o EXCEPT !.hooks = c (+) One(h)]]
    BY DEF AddReply, h
  <2>2. [o EXCEPT !.hooks = c (+) One(h)] = v
    BY <1>2 DEF Var
  <2> QED BY <2>1, <2>2 DEF Put
<1> HIDE DEF T, v
<1>8. T.exp = S.exp /\ T.net = S.net /\ Only(S, T, z, v)
  <2>1. HasPut(S, T, n, s, v)
    BY <1>1, <1>6, <1>7, PutObject
  <2>2. \A a \in Node, x \in Slot : T.obj[a][x] = IF a = n /\ x = s THEN v ELSE S.obj[a][x]
    BY <2>1 DEF HasPut
  <2> QED BY <2>1, <2>2, OnlyIs DEF HasPut
<1>9. HooksOn(S, z) = BagToSet(c) /\ HooksOn(T, z) = BagToSet(c) \cup {h}
  <2>1. HooksOn(S, z) = BagToSet(c)
    BY <1>1, <1>2 DEF HooksOn
  <2>2. HooksOn(T, z) = BagToSet(c (+) One(h))
    BY <1>8 DEF HooksOn, Only, v, IsVar, Var
  <2> QED BY <1>6, <2>1, <2>2
<1> DEFINE H == With(T, L, {})  N == {}  G == With(S, L, K)  k == Ask(back.node, back.index, z)
<1>10. k \in H.asks /\ k \in G.asks /\ k.at = z
  <2>1. h \in RepliesOn(T, z)
    BY <1>3, <1>9 DEF RepliesOn
  <2>2. Ask(h.node, h.index, z) \in Asks(T)
    BY <1>1, <2>1, AskIs
  <2> QED BY <1>3, <2>2 DEF With, Ask
<1>11. Fit(T)
  <2>1. ASSUME NEW p \in Places, NEW g \in RepliesOn(T, p) PROVE g.wec = EXPORT_UNIT_WEC
    <3>1. CASE g \in RepliesOn(S, p)
      BY <1>1, <3>1 DEF Full
    <3>2. CASE g \notin RepliesOn(S, p)
      <4>1. p = z
        BY <1>8, <2>1, <3>2 DEF RepliesOn, HooksOn, Only
      <4>2. g = h
        BY <1>9, <2>1, <3>2, <4>1 DEF RepliesOn
      <4> QED BY <1>3, <4>2
    <3> QED BY <3>1, <3>2
  <2>2. Full(T)
    BY <1>1, <1>8, <2>1 DEF Full
  <2> QED BY <1>4, <1>5, <2>2 DEF Fit
<1>12. Remains(S, T, H, z)
  <2>1. ~IsExref(Content(S, z))
    BY <1>1, <1>2 DEF IsExref, IsVar
  <2>2. ReadsOn(S, z) \subseteq ReadsOn(T, z) /\ RepliesOn(S, z) \subseteq RepliesOn(T, z)
    BY <1>9 DEF ReadsOn, RepliesOn
  <2>3. ASSUME NEW g \in ReadsOn(S, z) PROVE Wait(z, g.ret, Spot(S, g)) \in Waits(T)
    <3>1. Spot(T, g) = Spot(S, g)
      BY <1>8 DEF Spot
    <3>2. Wait(z, g.ret, Spot(T, g)) \in Waits(T)
      BY <1>1, <2>2, WaitIs
    <3> QED BY <3>1, <3>2
  <2>4. ASSUME NEW g \in RepliesOn(S, z) PROVE Ask(g.node, g.index, z) \in H.asks
    BY <1>1, <2>2, AskIs DEF With
  <2> QED BY <2>1, <2>3, <2>4 DEF Remains
<1>13. /\ BagToSet(S.net) \subseteq BagToSet(T.net)
       /\ BagToSet(T.net) \subseteq BagToSet(S.net) \cup N
       /\ \A r : Backs(S, r) => T.exp[r.node][r.index] = S.exp[r.node][r.index]
       /\ G = With(S, L, K) /\ H = With(T, L, {}) /\ {} \in SUBSET K
       /\ \A C : ~Awaited(G, C) => z \notin C
       /\ \A C : \A m \in N : m.type = "read" => Spot(T, Addressed(m)) \notin C
  BY <1>8, <1>10 DEF Awaited
<1>14. \A x \in K : PassedOn(S, H, x)
  BY <1>10 DEF PassedOn
<1>15. NoneAsksAnew(S, K, T, {z}, N, {})
  <2>1. ASSUME NEW g \in RepliesOn(T, z) PROVE AskedBefore(S, K, T, Ask(g.node, g.index, z))
    <3>1. CASE g = h
      <4>1. k \in K
        OBVIOUS
      <4> QED BY <1>3, <3>1, <4>1 DEF AskedBefore, Ask
    <3>2. CASE g # h
      <4>1. g \in RepliesOn(S, z)
        BY <1>9, <3>2 DEF RepliesOn
      <4>2. Ask(g.node, g.index, z) \in Asks(S)
        BY <1>1, <4>1, AskIs
      <4> QED BY <4>2 DEF AskedBefore
    <3> QED BY <3>1, <3>2
  <2> QED BY <2>1 DEF NoneAsksAnew
<1> HIDE DEF H, N, G, z
<1> QED BY <1>8, <1>11, <1>12, <1>13, <1>14, <1>15, PutStep DEF T

(* A read that has come to a reference is sent on along it.                *)
LEMMA PassOnCalm ==
  ASSUME NEW S, NEW L, NEW z, NEW back,
         NEW K, K = {Ask(back.node, back.index, z)}, Calm(S, L, K),
         NEW T, Sound(T), NoneLacks(T), NEW o, Only(S, T, z, o),
         IsExref(o), IsExref(Content(S, z)),
         o.node = Content(S, z).node, o.index = Content(S, z).index,
         T.exp = S.exp, NEW m, BagToSet(T.net) = BagToSet(S.net) \cup {m}, m.type = "read",
         m.to = o.node, m.index = o.index, m.term.node = back.node, m.term.index = back.index
  PROVE  Calm(T, L, {})
<1> DEFINE H == With(T, L, {})  N == {m}  G == With(S, L, K)  q == Spot(S, Content(S, z))
           k == Ask(back.node, back.index, z)
<1>1. Full(S)
  BY DEF Calm, Fit
<1>2. /\ z \in Places /\ Content(T, z) = o
      /\ \A p \in Places : p # z => Content(T, p) = Content(S, p)
  BY DEF Only
<1>3. /\ HooksOn(S, z) = {} /\ ReadsOn(S, z) = {} /\ RepliesOn(S, z) = {}
      /\ HooksOn(T, z) = {} /\ RepliesOn(T, z) = {}
  BY <1>2, NoHooks
<1>4. Fit(T)
  <2>1. ASSUME NEW p \in Places, NEW h \in RepliesOn(T, p) PROVE h.wec = EXPORT_UNIT_WEC
    <3>1. p # z /\ h \in RepliesOn(S, p)
      BY <1>2, <1>3, <2>1 DEF RepliesOn, HooksOn
    <3> QED BY <1>1, <3>1 DEF Full
  <2>2. Full(T)
    BY <1>1, <2>1 DEF Full
  <2> QED BY <2>2 DEF Fit
<1>5. <<z, q>> \in H.links
  <2>1. Spot(T, Content(T, z)) = q
    BY <1>2 DEF Spot
  <2> QED BY <1>2, <2>1, LinkIs DEF With
<1>6. Remains(S, T, H, z)
  BY <1>3, <1>5, SameSideBasics DEF Remains
<1>7. Spot(T, Addressed(m)) = q
  BY DEF Spot, Addressed, RefTo
<1>8. PassedOn(S, H, k)
  <2> DEFINE j == Ask(m.term.node, m.term.index, q)
  <2>1. j \in Asks(T)
    BY <1>7, AskIs
  <2>2. j \in H.asks /\ j.node = k.node /\ j.index = k.index /\ j.at = q /\ k.at = z
    BY <2>1 DEF With, Ask
  <2>3. SameSide(H, q, z)
    BY <1>5, SameSideBasics
  <2> HIDE DEF j, k, H
  <2> QED BY <2>2, <2>3 DEF PassedOn
<1>9. ASSUME NEW C, Vain(H, C), ~Awaited(G, C) PROVE z \notin C /\ q \notin C
  <2>1. k \in G.asks /\ k.at = z
    BY DEF With, Ask
  <2>2. z \notin C
    BY <1>9, <2>1 DEF Awaited
  <2>3. SameSide(H, z, q)
    BY <1>5, SameSideBasics
  <2> QED BY <1>9, <2>2, <2>3 DEF SameSide
<1>10. /\ BagToSet(S.net) \subseteq BagToSet(T.net)
       /\ BagToSet(T.net) \subseteq BagToSet(S.net) \cup N
       /\ \A x \in N : x = m
       /\ \A r : Backs(S, r) => T.exp[r.node][r.index] = S.exp[r.node][r.index]
       /\ G = With(S, L, K) /\ H = With(T, L, {}) /\ {} \in SUBSET K
       /\ \A x \in K : PassedOn(S, H, x)
  BY <1>8
<1>11. NoneAsksAnew(S, K, T, {z}, N, {})
  <2>1. k \in K /\ k.node = m.term.node /\ k.index = m.term.index
    BY DEF Ask
  <2>2. AskedBefore(S, K, T, Ask(m.term.node, m.term.index, Spot(T, Addressed(m))))
    BY <2>1 DEF AskedBefore, Ask
  <2> QED BY <1>3, <2>2 DEF NoneAsksAnew
<1> HIDE DEF H, N, G, q, k
<1>12. ASSUME NEW C, Vain(H, C), ~Awaited(G, C)
       PROVE  /\ z \in C => HooksOn(T, z) = {}
              /\ \A x \in N : x.type = "read" => Spot(T, Addressed(x)) \notin C
  BY <1>7, <1>9, <1>10, <1>12
<1> QED BY <1>4, <1>6, <1>10, <1>12, <1>11, PutStep

-----------------------------------------------------------------------------
(* Operations by which what led to one spot leads to another.              *)
Move(X, q) == [s \in Spots |-> IF s = X THEN q ELSE s]

LEMMA MoveIs ==
  ASSUME NEW X \in Places, NEW q \in Spots, q # X, NEW f, f = Move(X, q)
  PROVE  /\ f \in [Spots -> Spots] /\ f[Nowhere] = Nowhere /\ f[X] = q /\ f[q] = q
         /\ \A s \in Spots : s # X => f[s] = s
         /\ X \in Spots /\ X # Nowhere
<1>1. X \in Spots /\ Nowhere \in Spots /\ X # Nowhere
  BY NowhereIs DEF Spots
<1> QED BY <1>1 DEF Move

LEMMA MoveStep ==
  ASSUME NEW S, NEW L, Calm(S, L, {}), NEW T, Fit(T),
         NEW X \in Places, NEW q \in Spots, q # X, NEW f, f = Move(X, q),
         L \subseteq {X, q} \X {X, q},
         NEW Z \in SUBSET Places, X \in Z, NEW N, \A m \in N : m.type # "read",
         \A p \in Places \ Z : Content(T, p) = Content(S, p),
         BagToSet(S.net) \subseteq BagToSet(T.net),
         BagToSet(T.net) \subseteq BagToSet(S.net) \cup N,
         \A r : Backs(S, r) /\ Backs(T, r) => Spot(T, r) = f[Spot(S, r)],
         NEW G, G = With(S, L, {}), NEW H, H = With(T, {}, {}),
         PlacesCarried(S, T, G, H, f, Z),
         \A p \in Z : HooksOn(T, p) # {} => \E o \in Places : HooksOn(S, o) # {} /\ f[o] = p,
         NoneAsksAnew(S, {}, T, Z, N, {})
  PROVE  Calm(T, {}, {})
<1> DEFINE M == {}
<1>1. /\ f \in [Spots -> Spots] /\ f[Nowhere] = Nowhere /\ f[X] = q /\ f[q] = q
      /\ \A s \in Spots : s # X => f[s] = s
  BY MoveIs
<1>2. Changed(S, T, f, Z, M, N)
  BY <1>1 DEF Changed, Spots
<1>3. MessagesCarried(S, H, f, M)
  BY DEF MessagesCarried
<1>4. ASSUME NEW l \in L PROVE SameSide(H, f[l[1]], f[l[2]])
  <2>1. f[l[1]] = q /\ f[l[2]] = q
    BY <1>1
  <2> QED BY <2>1, SameSideBasics
<1>5. WaitedBefore(T, G, H, f, Z, N, {})
  <2>1. ASSUME NEW C, Vain(H, C), ~Awaited(G, Before(f, C)), NEW p \in Z \cap C
        PROVE  HooksOn(T, p) = {}
    <3> SUFFICES ASSUME HooksOn(T, p) # {} PROVE FALSE
      OBVIOUS
    <3>1. PICK o \in Places : HooksOn(S, o) # {} /\ f[o] = p
      OBVIOUS
    <3>2. o \in Before(f, C)
      BY <2>1, <3>1 DEF Before
    <3>3. PICK h \in HooksOn(S, o) : TRUE
      BY <3>1
    <3>4. CASE h.ret = None
      <4>1. Ask(h.node, h.index, o) \in Asks(S)
        BY <3>4, AskIs DEF RepliesOn
      <4>2. Ask(h.node, h.index, o) \in G.asks /\ Ask(h.node, h.index, o).at = o
        BY <4>1 DEF With, Ask
      <4> QED BY <2>1, <3>2, <4>2 DEF Awaited
    <3>5. CASE h.ret # None
      <4>1. Wait(o, h.ret, Spot(S, h)) \in Waits(S)
        BY <3>5, WaitIs DEF ReadsOn
      <4>2. Wait(o, h.ret, Spot(S, h)) \in G.waits /\ Wait(o, h.ret, Spot(S, h)).at = o
        BY <4>1 DEF With, Wait
      <4> QED BY <2>1, <3>2, <4>2 DEF Awaited
    <3> QED BY <3>4, <3>5
  <2> QED BY <2>1 DEF WaitedBefore
<1> DEFINE E == {}
<1>6. E \in SUBSET (Spots \X Spots) /\ (\A k \in E : Backs(T, k) /\ k.at \in Spots)
      /\ H = With(T, E, E) /\ G = With(S, L, E) /\ Calm(S, L, E) /\ WaitedBefore(T, G, H, f, Z, N, E)
      /\ NoneAsksAnew(S, E, T, Z, N, E)
      /\ \A k \in E : AskedAgain(H, f, k) \/ SameSide(H, f[Spot(S, k)], f[k.at])
  BY <1>5
<1> HIDE DEF M, E
<1>7. Calm(T, E, E)
  BY <1>1, <1>2, <1>3, <1>4, <1>6, NextStep
<1> QED BY <1>7 DEF E

(* What Redirect makes of a memory.                                        *)
Moved(S, T, n, x, t) ==
  \A a \in Node, i \in Index :
    T.exp[a][i] = IF a = n /\ S.exp[a][i].data = x THEN [S.exp[a][i] EXCEPT !.data = t]
                  ELSE S.exp[a][i]

LEMMA RedirectIs ==
  ASSUME NEW S, S \in Memories, NEW n \in Node, NEW x \in Slot, NEW t \in Slot \cup {Bound},
         NEW T, T = Redirect(S, n, x, t)
  PROVE  /\ T.net = S.net /\ Moved(S, T, n, x, t) /\ Only(S, T, <<n, x>>, Free)
<1>1. /\ S.exp \in [Node -> [Index -> Entries]] /\ S.obj \in [Node -> [Slot -> Objects]]
      /\ S.held \in [Node -> SUBSET Slot]
  BY DEF Memories
<1> DEFINE E == [i \in Index |-> IF S.exp[n][i].data = x THEN [S.exp[n][i] EXCEPT !.data = t]
                                 ELSE S.exp[n][i]]
           H == IF x \in S.held[n] THEN (S.held[n] \ {x}) \cup ({t} \cap Slot) ELSE S.held[n]
<1>2. T = [S EXCEPT !.obj[n][x] = Free, !.exp = [S.exp EXCEPT ![n] = E],
                    !.held = [S.held EXCEPT ![n] = H]]
  BY <1>1 DEF Redirect, Memories
<1> HIDE DEF H
<1>3. /\ T.exp = [S.exp EXCEPT ![n] = E] /\ T.net = S.net
      /\ T.obj = [S.obj EXCEPT ![n] = [S.obj[n] EXCEPT ![x] = Free]]
  BY <1>1, <1>2 DEF Memories
<1>4. Moved(S, T, n, x, t)
  <2> SUFFICES ASSUME NEW a \in Node, NEW i \in Index
               PROVE  T.exp[a][i] = IF a = n /\ S.exp[a][i].data = x
                                    THEN [S.exp[a][i] EXCEPT !.data = t] ELSE S.exp[a][i]
    BY DEF Moved
  <2>1. T.exp[a] = IF a = n THEN E ELSE S.exp[a]
    BY <1>1, <1>3
  <2>2. CASE a = n
    <3>1. E[i] = IF S.exp[n][i].data = x THEN [S.exp[n][i] EXCEPT !.data = t] ELSE S.exp[n][i]
      OBVIOUS
    <3> HIDE DEF E
    <3>2. T.exp[a][i] = E[i]
      BY <2>1, <2>2
    <3> QED BY <2>2, <3>1, <3>2
  <2>3. CASE a # n
    BY <2>1, <2>3
  <2> QED BY <2>2, <2>3
<1>5. \A a \in Node, s \in Slot : T.obj[a][s] = IF a = n /\ s = x THEN Free ELSE S.obj[a][s]
  BY <1>1, <1>3
<1>6. Only(S, T, <<n, x>>, Free)
  BY <1>5, OnlyIs
<1> QED BY <1>3, <1>4, <1>6

LEMMA MovedSpots ==
  ASSUME NEW S, S \in Memories, NEW T, NEW n \in Node, NEW x \in Slot,
         NEW t \in Slot \cup {Bound}, t # x, Moved(S, T, n, x, t)
  PROVE  /\ <<n, x>> \in Places /\ SpotOf(n, t) \in Spots /\ SpotOf(n, t) # <<n, x>>
         /\ \A r : Backs(S, r) => Spot(T, r) = Move(<<n, x>>, SpotOf(n, t))[Spot(S, r)]
         /\ \A a \in Node, i \in Index : T.exp[a][i].wec = S.exp[a][i].wec
<1> DEFINE f == Move(<<n, x>>, SpotOf(n, t))
<1>1. /\ <<n, x>> \in Places /\ SpotOf(n, t) \in Spots /\ SpotOf(n, t) # <<n, x>>
  BY NowhereIs DEF Places, SpotOf, Spots
<1>2. ASSUME NEW r, Backs(S, r) PROVE Spot(T, r) = f[Spot(S, r)]
  <2>1. /\ S.exp[r.node][r.index] \in [wec : Nat \ {0}, data : Slot \cup {Bound}]
        /\ Spot(S, r) \in Spots /\ r.node \in Node /\ r.index \in Index
    <3>1. r.node \in Node /\ r.index \in Index /\ S.exp[r.node][r.index] # Unused
      BY <1>2 DEF Backs
    <3>2. S.exp[r.node][r.index] \in Entries
      BY <3>1 DEF Memories
    <3> QED BY <1>2, <3>1, <3>2, SpotIs DEF Entries
  <2> DEFINE d == S.exp[r.node][r.index].data
  <2>2. CASE r.node = n /\ d = x
    <3>1. T.exp[r.node][r.index].data = t
      BY <2>1, <2>2 DEF Moved
    <3>2. Spot(S, r) = <<n, x>> /\ Spot(T, r) = SpotOf(n, t)
      BY <2>2, <3>1 DEF Spot, SpotOf
    <3> QED BY <1>1, <3>2, MoveIs
  <2>3. CASE ~(r.node = n /\ d = x)
    <3>1. T.exp[r.node][r.index].data = d
      BY <2>1, <2>3 DEF Moved
    <3>2. Spot(T, r) = Spot(S, r)
      BY <3>1 DEF Spot
    <3>3. Spot(S, r) # <<n, x>>
      BY <1>1, <2>1, <2>3, NowhereIs DEF Spot, SpotOf
    <3> QED BY <1>1, <2>1, <3>2, <3>3, MoveIs
  <2> QED BY <2>2, <2>3
<1>3. \A a \in Node, i \in Index : T.exp[a][i].wec = S.exp[a][i].wec
  <2> TAKE a \in Node, i \in Index
  <2>1. S.exp[a][i] = Unused \/ S.exp[a][i] \in [wec : Nat \ {0}, data : Slot \cup {Bound}]
    BY DEF Memories, Entries
  <2> QED BY <2>1 DEF Moved, Unused
<1> QED BY <1>1, <1>2, <1>3

RefsMoved(S, T, f) ==
  /\ \A r : Backs(S, r) => Spot(T, r) = f[Spot(S, r)]
  /\ \A a \in Node, i \in Index : T.exp[a][i].wec = S.exp[a][i].wec
LEMMA MovedRefs ==
  ASSUME NEW S, S \in Memories, NEW T, NEW n \in Node, NEW x \in Slot,
         NEW t \in Slot \cup {Bound}, t # x, Moved(S, T, n, x, t)
  PROVE  RefsMoved(S, T, Move(<<n, x>>, SpotOf(n, t)))
  BY MovedSpots DEF RefsMoved

(* The object in a slot is gone, and what is on it has been carried along. *)
LEMMA BindCalm ==
  ASSUME NEW S, NEW L, Calm(S, L, {}), NEW n \in Node, NEW x \in Slot, S.obj[n][x] # Free,
         NEW answered, \A k \in Asks(S) : ~(k.node = n /\ k.index = answered),
         L \subseteq {<<n, x>>, Nowhere} \X {<<n, x>>, Nowhere}
  PROVE  Calm(Bind(S, n, x, answered), {}, {})
<1> DEFINE o == S.obj[n][x]
           c == IF IsExref(o) THEN One(UnifyMsg(o, Bound, None)) ELSE HookMsgs(o.hooks, answered)
           U == Post(S, c)
           T == Redirect(U, n, x, Bound)
           X == <<n, x>>
           N == IF IsExref(o) THEN {UnifyMsg(o, Bound, None)}
                ELSE {HookMsg(h, answered) : h \in BagToSet(o.hooks)}
           f == Move(X, Nowhere)
           G == With(S, L, {})
           H == With(T, {}, {})
<1>1. /\ Sound(S) /\ NoneLacks(S) /\ Full(S) /\ Shaped(S) /\ S \in Memories
      /\ o \in Objects /\ X \in Places /\ Content(S, X) = o
  BY DEF Calm, Fit, Sound, Shaped, Memories, Content, Places
<1>2. Bind(S, n, x, answered) = T
  BY DEF Bind
<1>3. Sound(T) /\ NoneLacks(T)
  <2>1. Kept(S, T)
    BY <1>1, <1>2, BindKeeps
  <2> QED BY <1>1, <2>1 DEF Kept, NoneLacks
<1>4. o \in Exrefs \/ (o = Var(o.hooks) /\ o.hooks \in HookBags /\ IsVar(o) /\ ~IsExref(o))
  BY <1>1, ObjectKinds DEF IsVar, IsExref, Var
<1>5. /\ U \in Memories /\ U.exp = S.exp /\ U.obj = S.obj
      /\ BagToSet(U.net) = BagToSet(S.net) \cup N
  <2>1. c \in Flights /\ BagToSet(c) = N
    <3>1. CASE IsExref(o)
      <4>1. o \in Exrefs
        BY <1>4, <3>1 DEF IsExref, IsVar, Exrefs
      <4>2. UnifyMsg(o, Bound, None) \in Carried
        BY <4>1, UnifyMsgWeighs, WecAssumption DEF Exrefs
      <4> QED BY <3>1, <4>2, FlightsOne, CopiesOne
    <3>2. CASE ~IsExref(o)
      <4>1. o.hooks \in HookBags
        BY <1>4, <3>2 DEF Exrefs, IsExref
      <4> QED BY <3>2, <4>1, HooksSent DEF HookMsgs, BagToSet
    <3> QED BY <3>1, <3>2
  <2> HIDE DEF c, N
  <2>2. U.exp = S.exp /\ U.obj = S.obj /\ U.net = S.net (+) c /\ U \in Memories
    <3>1. Shaped(U) /\ U.exp = S.exp /\ U.obj = S.obj
      BY <1>1, <2>1, PostMany
    <3> QED BY <1>1, <3>1 DEF Post, Memories, Shaped
  <2>3. IsABag(S.net) /\ IsABag(c)
    BY <1>1, <2>1, BagsOfAre DEF Memories, Flights
  <2> QED BY <2>1, <2>2, <2>3, CopiesAdd
<1>6. Nowhere = SpotOf(n, Bound) /\ Bound # x /\ Bound \notin Slot
  BY TermAssumption DEF SpotOf
<1> HIDE DEF c, U
<1>7. T.net = U.net /\ Moved(U, T, n, x, Bound) /\ Only(U, T, X, Free)
  BY <1>5, RedirectIs
<1> HIDE DEF T
<1>8. /\ Content(T, X) = Free
      /\ \A p \in Places : p # X => Content(T, p) = Content(S, p)
      /\ BagToSet(T.net) = BagToSet(S.net) \cup N
  BY <1>5, <1>7 DEF Only, Content
<1>9. /\ \A r : Backs(S, r) => Spot(T, r) = f[Spot(S, r)]
      /\ \A a \in Node, i \in Index : T.exp[a][i].wec = S.exp[a][i].wec
  <2>1. Moved(S, T, n, x, Bound)
    BY <1>5, <1>7 DEF Moved
  <2>2. Bound \in Slot \cup {Bound} /\ f = Move(<<n, x>>, SpotOf(n, Bound))
    BY <1>6 DEF f
  <2> HIDE DEF f
  <2>3. RefsMoved(S, T, Move(<<n, x>>, SpotOf(n, Bound)))
    BY <1>1, <1>6, <2>1, <2>2, MovedRefs
  <2>4. RefsMoved(S, T, f)
    BY <2>2, <2>3, Zenon
  <2> QED BY <2>4 DEF RefsMoved
<1>10. /\ f \in [Spots -> Spots] /\ f[Nowhere] = Nowhere /\ f[X] = Nowhere
       /\ Nowhere \in Spots /\ Nowhere # X
  <2>1. X \in Places /\ Nowhere \in Spots /\ Nowhere # X /\ f = Move(X, Nowhere)
    BY <1>1, NowhereIs DEF Spots
  <2> HIDE DEF f, X
  <2> QED BY <2>1, MoveIs
<1> HIDE DEF f
<1>11. /\ Links(T) \subseteq H.links /\ Asks(T) \subseteq H.asks /\ G.asks = Asks(S)
       /\ H = With(T, {}, {}) /\ G = With(S, L, {})
  BY DEF With
<1> HIDE DEF H, G
<1>12. HooksOn(T, X) = {} /\ RepliesOn(T, X) = {}
  BY <1>8, NoHooks
<1>13. ASSUME NEW r, Backs(S, r), NEW from, UnifyMsg(r, Bound, from) \in N
       PROVE  SameSide(H, f[Spot(S, r)], Nowhere)
  <2> DEFINE m == UnifyMsg(r, Bound, from)
  <2>1. m.type = "unify" /\ m.term = Bound /\ m.to = r.node /\ m.index = r.index
    BY DEF UnifyMsg, Message
  <2>2. m \in BagToSet(T.net)
    BY <1>8, <1>13
  <2> HIDE DEF m
  <2>3. Spot(T, Addressed(m)) = Spot(T, r) /\ TermSpot(T, m.term) = Nowhere
    BY <2>1 DEF Spot, Addressed, RefTo, TermSpot
  <2>4. <<f[Spot(S, r)], Nowhere>> \in H.links
    BY <1>9, <1>11, <1>13, <2>1, <2>2, <2>3, LinkIs
  <2> QED BY <2>4, SameSideBasics
<1>14. ASSUME NEW h \in HooksOn(S, X)
       PROVE  ~IsExref(o) /\ HookMsg(h, answered) \in N /\ Backs(S, h)
  <2>1. IsVar(o) /\ h \in BagToSet(o.hooks) /\ Backs(S, h)
    BY <1>1, HookBacks
  <2>2. ~IsExref(o)
    BY <2>1 DEF IsVar, IsExref
  <2> QED BY <2>1, <2>2
<1>15. PlacesCarried(S, T, G, H, f, {X})
  <2>1. ASSUME IsExref(o) PROVE SameSide(H, f[X], f[Spot(S, o)])
    <3>1. Backs(S, o)
      BY <1>1, <2>1, ExrefBacks
    <3>2. UnifyMsg(o, Bound, None) \in N
      BY <2>1
    <3> QED BY <1>10, <1>13, <3>1, <3>2, SameSideBasics
  <2>2. ASSUME NEW h \in ReadsOn(S, X)
        PROVE  \/ SameSide(H, f[Spot(S, h)], Nowhere)
               \/ \A k \in G.asks : ~(k.node = n /\ k.index = h.ret)
    <3>1. h \in HooksOn(S, X) /\ h.ret # None
      BY DEF ReadsOn
    <3>2. CASE h.ret = answered
      BY <1>11, <3>2
    <3>3. CASE h.ret # answered
      <4>1. UnifyMsg(h, Bound, h.ret) \in N /\ Backs(S, h)
        BY <1>14, <3>1, <3>3 DEF HookMsg
      <4> QED BY <1>13, <4>1
    <3> QED BY <3>2, <3>3
  <2>3. ASSUME NEW h \in RepliesOn(S, X)
        PROVE  AskedAgain(H, f, Ask(h.node, h.index, X))
    <3> DEFINE m == AnswerMsg(h)
    <3>1. m \in N
      BY <1>14 DEF HookMsg, RepliesOn
    <3>2. m.type = "answer" /\ m.to = h.node /\ m.index = h.index
      BY DEF AnswerMsg, Message
    <3>3. m \in BagToSet(T.net)
      BY <1>8, <3>1
    <3> HIDE DEF m
    <3>4. Ask(h.node, h.index, Nowhere) \in H.asks
      BY <1>11, <3>2, <3>3, AskIs
    <3> QED BY <1>10, <3>4, SameSideBasics DEF AskedAgain, Ask
  <2>4. X[1] = n
    OBVIOUS
  <2> HIDE DEF N, X
  <2> QED BY <1>1, <1>10, <2>1, <2>2, <2>3, <2>4 DEF PlacesCarried
<1>16. Fit(T)
  <2>1. ASSUME NEW p \in Places, NEW h \in RepliesOn(T, p) PROVE h.wec = EXPORT_UNIT_WEC
    <3>1. p # X /\ h \in RepliesOn(S, p)
      BY <1>8, <1>12, <2>1 DEF RepliesOn, HooksOn
    <3> QED BY <1>1, <3>1 DEF Full
  <2>2. ASSUME NEW m \in N, m.type = "answer" PROVE m.wec = EXPORT_UNIT_WEC
    <3>1. CASE IsExref(o)
      BY <2>2, <3>1 DEF UnifyMsg, Message
    <3>2. CASE ~IsExref(o)
      <4>1. PICK h \in BagToSet(o.hooks) : m = HookMsg(h, answered)
        BY <3>2
      <4>2. h.ret = None /\ m.wec = h.wec
        BY <2>2, <4>1 DEF HookMsg, AnswerMsg, UnifyMsg, ReleaseMsg, Message
      <4>3. IsVar(o)
        BY <1>4, <3>2 DEF Exrefs, IsExref
      <4>4. h \in RepliesOn(S, X)
        BY <1>1, <4>2, <4>3 DEF RepliesOn, HooksOn
      <4> QED BY <1>1, <4>2, <4>4 DEF Full
    <3> QED BY <3>1, <3>2
  <2>3. Full(T)
    BY <1>1, <1>8, <1>9, <2>1, <2>2 DEF Full
  <2> QED BY <1>3, <2>3 DEF Fit
<1>17. \A m \in N : m.type # "read"
  <2>1. \A r, from : UnifyMsg(r, Bound, from).type = "unify"
    BY DEF UnifyMsg, Message
  <2>2. \A h : HookMsg(h, answered).type # "read"
    BY DEF HookMsg, UnifyMsg, AnswerMsg, ReleaseMsg, Message
  <2> QED BY <2>1, <2>2
<1>18. ASSUME NEW m \in N, m.type = "answer"
       PROVE  \E k \in Asks(S) : k.node = m.to /\ k.index = m.index
  <2>1. ~IsExref(o)
    BY <1>18 DEF UnifyMsg, Message
  <2>2. PICK h \in BagToSet(o.hooks) : m = HookMsg(h, answered)
    BY <1>18, <2>1
  <2>3. h.ret = None /\ m.to = h.node /\ m.index = h.index
    BY <1>18, <2>2 DEF HookMsg, AnswerMsg, UnifyMsg, ReleaseMsg, Message
  <2>4. h \in RepliesOn(S, X)
    BY <1>1, <1>4, <2>1, <2>2, <2>3 DEF RepliesOn, HooksOn, Exrefs, IsExref
  <2>5. Ask(h.node, h.index, X) \in Asks(S)
    BY <1>1, <2>4, AskIs
  <2> QED BY <2>3, <2>5 DEF Ask
<1> DEFINE Z == {X}
<1>19. NoneAsksAnew(S, {}, T, Z, N, {})
  BY <1>12, <1>17, <1>18 DEF NoneAsksAnew, AskedBefore, Ask
<1>20. /\ Z \in SUBSET Places /\ X \in Z /\ \A p \in Places \ Z : Content(T, p) = Content(S, p)
       /\ BagToSet(S.net) \subseteq BagToSet(T.net)
       /\ BagToSet(T.net) \subseteq BagToSet(S.net) \cup N
       /\ \A r : Backs(S, r) /\ Backs(T, r) => Spot(T, r) = f[Spot(S, r)]
       /\ PlacesCarried(S, T, G, H, f, Z)
       /\ \A p \in Z : HooksOn(T, p) = {}
  BY <1>1, <1>8, <1>9, <1>12, <1>15
<1>21. f = Move(X, Nowhere)
  BY DEF f
<1> HIDE DEF N, X, Z
<1>22. L \subseteq {X, Nowhere} \X {X, Nowhere}
  BY DEF X
<1>23. \A p \in Z : HooksOn(T, p) # {} => \E p2 \in Places : HooksOn(S, p2) # {} /\ f[p2] = p
  BY <1>20
<1> QED BY <1>1, <1>2, <1>10, <1>11, <1>16, <1>17, <1>20, <1>21, <1>22, <1>23, <1>19, MoveStep

LEMMA MergeIs ==
  ASSUME NEW S, Sound(S), NEW n \in Node, NEW x \in Slot, NEW y \in Slot, x # y,
         IsVar(S.obj[n][x]), IsVar(S.obj[n][y]), NEW T, T = Merge(S, n, x, y)
  PROVE  /\ T.net = S.net /\ Moved(S, T, n, x, y)
         /\ \A p \in Places : p \notin {<<n, x>>, <<n, y>>} => Content(T, p) = Content(S, p)
         /\ Content(T, <<n, x>>) = Free
         /\ HooksOn(T, <<n, y>>) = HooksOn(S, <<n, x>>) \cup HooksOn(S, <<n, y>>)
<1> DEFINE b == S.obj[n][x].hooks  c == S.obj[n][y].hooks  o == S.obj[n][y]
           v == Var(c (+) b)
           U == [S EXCEPT !.obj[n][y].hooks = @ (+) b]
           X == <<n, x>>  Y == <<n, y>>
<1>1. /\ Shaped(S) /\ S \in Memories /\ o \in Objects /\ S.obj[n][x] \in Objects
      /\ X \in Places /\ Y \in Places /\ X # Y
      /\ Content(S, X) = S.obj[n][x] /\ Content(S, Y) = o
  BY DEF Sound, Shaped, Memories, Places, Content
<1>2. b \in HookBags /\ c \in HookBags /\ o = Var(c)
  BY <1>1, ObjectKinds
<1>3. [o EXCEPT !.hooks = c (+) b] = v
  BY <1>2 DEF Var
<1>4. U = [S EXCEPT !.obj[n][y] = [o EXCEPT !.hooks = c (+) b]]
  OBVIOUS
<1>5. U = Put(S, n, y, v)
  BY <1>3, <1>4 DEF Put
<1>6. T = Redirect(U, n, x, y)
  BY DEF Merge
<1>7. HooksOn(S, X) = BagToSet(b) /\ HooksOn(S, Y) = BagToSet(c)
  BY <1>1 DEF HooksOn
<1> HIDE DEF b, c
<1>8. v \in Objects /\ BagToSet(c (+) b) = BagToSet(c) \cup BagToSet(b)
  <2>1. c (+) b \in HookBags
    BY <1>2, HooksAdd
  <2>2. IsABag(c) /\ IsABag(b)
    BY <1>2, BagsOfAre DEF HookBags
  <2> QED BY <2>1, <2>2, CopiesAdd DEF Objects
<1> HIDE DEF U, v
<1>9. U \in Memories /\ U.exp = S.exp /\ U.net = S.net /\ Only(S, U, Y, v)
  <2>1. HasPut(S, U, n, y, v)
    BY <1>1, <1>5, <1>8, PutObject
  <2>2. \A a \in Node, s \in Slot : U.obj[a][s] = IF a = n /\ s = y THEN v ELSE S.obj[a][s]
    BY <2>1 DEF HasPut
  <2> QED BY <2>1, <2>2, OnlyIs DEF HasPut, Shaped
<1>10. T.net = U.net /\ Moved(U, T, n, x, y) /\ Only(U, T, X, Free)
  BY <1>6, <1>9, RedirectIs
<1>11. Content(T, Y) = v
  BY <1>1, <1>9, <1>10 DEF Only
<1>12. HooksOn(T, Y) = BagToSet(c (+) b)
  BY <1>11 DEF HooksOn, v, IsVar, Var
<1>13. Moved(S, T, n, x, y)
  BY <1>9, <1>10 DEF Moved
<1> HIDE DEF X, Y
<1>14. \A p \in Places : p \notin {X, Y} => Content(T, p) = Content(S, p)
  BY <1>9, <1>10 DEF Only
<1>15. Content(T, X) = Free
  BY <1>10 DEF Only
<1> QED BY <1>7, <1>8, <1>9, <1>10, <1>12, <1>13, <1>14, <1>15 DEF X, Y

(* What waits on one variable waits on the other.                          *)
LEMMA MergeCalm ==
  ASSUME NEW S, NEW L, Calm(S, L, {}), NEW n \in Node, NEW x \in Slot, NEW y \in Slot, x # y,
         IsVar(S.obj[n][x]), IsVar(S.obj[n][y]),
         L \subseteq {<<n, x>>, <<n, y>>} \X {<<n, x>>, <<n, y>>}
  PROVE  Calm(Merge(S, n, x, y), {}, {})
<1> DEFINE T == Merge(S, n, x, y)  X == <<n, x>>  Y == <<n, y>>  f == Move(X, Y)
           G == With(S, L, {})  H == With(T, {}, {})  Z == {X, Y}  N == {}
<1>1. /\ Sound(S) /\ NoneLacks(S) /\ Full(S) /\ Shaped(S) /\ S \in Memories
      /\ X \in Places /\ Y \in Places /\ X # Y /\ Y \in Spots
      /\ ~IsExref(Content(S, X)) /\ ~IsExref(Content(S, Y))
  BY DEF Calm, Fit, Sound, Shaped, Content, Places, Spots, IsVar, IsExref
<1>2. Sound(T) /\ NoneLacks(T)
  <2>1. Kept(S, T)
    BY <1>1, MergeKeeps
  <2> QED BY <1>1, <2>1 DEF Kept, NoneLacks
<1>3. /\ T.net = S.net /\ Moved(S, T, n, x, y)
      /\ \A p \in Places : p \notin Z => Content(T, p) = Content(S, p)
      /\ Content(T, X) = Free
      /\ HooksOn(T, Y) = HooksOn(S, X) \cup HooksOn(S, Y)
  BY <1>1, MergeIs
<1>4. X[1] = n /\ Y[1] = n /\ Y = SpotOf(n, y)
  BY DEF SpotOf
<1> HIDE DEF T
<1>5. /\ \A r : Backs(S, r) => Spot(T, r) = f[Spot(S, r)]
      /\ \A a \in Node, i \in Index : T.exp[a][i].wec = S.exp[a][i].wec
  <2>1. y # x /\ f = Move(<<n, x>>, SpotOf(n, y)) /\ y \in Slot \cup {Bound}
    BY <1>4 DEF f
  <2> HIDE DEF f
  <2> QED BY <1>1, <1>3, <2>1, MovedSpots
<1>6. /\ f = Move(X, Y)
      /\ f \in [Spots -> Spots] /\ f[Nowhere] = Nowhere /\ f[X] = Y /\ f[Y] = Y
      /\ Y # Nowhere
  <2>1. f = Move(X, Y) /\ Y # X
    BY <1>1
  <2> HIDE DEF f, X, Y
  <2> QED BY <1>1, <2>1, MoveIs, NowhereIs
<1> HIDE DEF f
<1>7. HooksOn(T, X) = {} /\ RepliesOn(T, X) = {}
  BY <1>3, NoHooks
<1>8. Asks(T) \subseteq H.asks /\ H = With(T, {}, {}) /\ G = With(S, L, {})
  BY DEF With
<1> HIDE DEF H, G
<1>9. ASSUME NEW p \in Z, NEW h \in HooksOn(S, p)
      PROVE  /\ h \in HooksOn(T, Y) /\ f[p] = Y /\ Spot(T, h) = f[Spot(S, h)] /\ p \in Places
  <2>1. p \in Places /\ h \in HooksOn(T, Y) /\ f[p] = Y
    BY <1>1, <1>3, <1>6
  <2>2. Backs(S, h)
    BY <1>1, <2>1, HookBacks
  <2> QED BY <1>5, <2>1, <2>2
<1>10. PlacesCarried(S, T, G, H, f, Z)
  <2>1. ASSUME NEW p \in Z, NEW h \in ReadsOn(S, p)
        PROVE  f[p] = Y /\ f[p][1] = p[1] /\ Wait(f[p], h.ret, f[Spot(S, h)]) \in Waits(T)
    <3>1. /\ h \in HooksOn(T, Y) /\ f[p] = Y /\ Spot(T, h) = f[Spot(S, h)] /\ h.ret # None
      BY <1>9 DEF ReadsOn
    <3>2. h \in ReadsOn(T, Y)
      BY <3>1 DEF ReadsOn
    <3>3. Wait(Y, h.ret, Spot(T, h)) \in Waits(T)
      BY <1>1, <3>2, WaitIs
    <3>4. p[1] = Y[1]
      BY <1>4
    <3> QED BY <3>1, <3>3, <3>4
  <2>2. ASSUME NEW p \in Z, NEW h \in RepliesOn(S, p)
        PROVE  AskedAgain(H, f, Ask(h.node, h.index, p))
    <3>1. h \in HooksOn(T, Y) /\ f[p] = Y /\ h.ret = None
      BY <1>9 DEF RepliesOn
    <3>2. h \in RepliesOn(T, Y)
      BY <3>1 DEF RepliesOn
    <3>3. Ask(h.node, h.index, Y) \in H.asks
      BY <1>1, <1>8, <3>2, AskIs
    <3> QED BY <3>1, <3>3, SameSideBasics DEF AskedAgain, Ask
  <2>3. \A p \in Z : ~IsExref(Content(S, p))
    BY <1>1
  <2> HIDE DEF Z
  <2> QED BY <1>6, <2>1, <2>2, <2>3 DEF PlacesCarried
<1>11. Fit(T)
  <2>1. ASSUME NEW p \in Places, NEW h \in RepliesOn(T, p) PROVE h.wec = EXPORT_UNIT_WEC
    <3>1. CASE p \notin Z
      <4>1. h \in RepliesOn(S, p)
        BY <1>3, <2>1, <3>1 DEF RepliesOn, HooksOn
      <4> QED BY <1>1, <4>1 DEF Full
    <3>2. CASE p \in Z
      <4>1. p = Y
        BY <1>7, <2>1, <3>2
      <4>2. \E o \in Z : h \in RepliesOn(S, o)
        BY <1>3, <2>1, <4>1 DEF RepliesOn
      <4> QED BY <1>1, <4>2 DEF Full
    <3> QED BY <3>1, <3>2
  <2>2. Full(T)
    BY <1>1, <1>3, <1>5, <2>1 DEF Full
  <2> QED BY <1>2, <2>2 DEF Fit
<1>12. ASSUME NEW p \in Z, HooksOn(T, p) # {}
       PROVE  \E o \in Places : HooksOn(S, o) # {} /\ f[o] = p
  <2>1. p = Y
    BY <1>7, <1>12
  <2> QED BY <1>1, <1>3, <1>6, <1>12, <2>1
<1>13. /\ Z \in SUBSET Places /\ X \in Z /\ \A p \in Places \ Z : Content(T, p) = Content(S, p)
       /\ BagToSet(S.net) \subseteq BagToSet(T.net)
       /\ BagToSet(T.net) \subseteq BagToSet(S.net) \cup N
       /\ \A m \in N : m.type # "read"
       /\ L \subseteq {X, Y} \X {X, Y}
  BY <1>1, <1>3
<1>14. NoneAsksAnew(S, {}, T, Z, N, {})
  <2>1. ASSUME NEW p \in Z, NEW h \in RepliesOn(T, p)
        PROVE  AskedBefore(S, {}, T, Ask(h.node, h.index, p))
    <3>1. PICK o \in Z : h \in RepliesOn(S, o)
      BY <1>3, <1>7, <2>1 DEF RepliesOn
    <3>2. Ask(h.node, h.index, o) \in Asks(S)
      BY <1>1, <3>1, AskIs
    <3> QED BY <3>2 DEF AskedBefore, Ask
  <2> QED BY <2>1 DEF NoneAsksAnew
<1> HIDE DEF Z, N, X, Y
<1> QED BY <1>1, <1>5, <1>6, <1>8, <1>10, <1>11, <1>12, <1>13, <1>14, MoveStep DEF T

(* A variable nothing is on is bound to a reference.                       *)
LEMMA EmptyCalm ==
  ASSUME NEW S, NEW L, Calm(S, L, {}), NEW n \in Node, NEW y \in Slot, NEW x \in Slot, x # y,
         S.obj[n][x] # Free, S.obj[n][y] = Var(EmptyBag),
         L \subseteq {<<n, x>>, <<n, y>>} \X {<<n, x>>, <<n, y>>}
  PROVE  Calm(Redirect(S, n, y, x), {}, {})
<1> DEFINE T == Redirect(S, n, y, x)  X == <<n, y>>  Q == <<n, x>>  f == Move(X, Q)
           G == With(S, L, {})  H == With(T, {}, {})  Z == {X}  N == {}
<1>1. /\ Sound(S) /\ NoneLacks(S) /\ Full(S) /\ Shaped(S) /\ S \in Memories
      /\ X \in Places /\ Q \in Places /\ X # Q /\ Q \in Spots
      /\ Content(S, X) = Var(EmptyBag) /\ ~IsExref(Content(S, X)) /\ HooksOn(S, X) = {}
  BY NoHooks DEF Calm, Fit, Sound, Shaped, Content, Places, Spots, Var, IsExref
<1>2. Sound(T) /\ NoneLacks(T)
  <2>1. /\ Sound(T)
        /\ \A a \in Node, i \in Index :
             Surplus(T, a, i) = Surplus(S, a, i) + ObjWeight(S.obj[n][y], a, i)
    BY <1>1, RedirectLeaves DEF Live
  <2>2. ASSUME NEW a \in Node, NEW i \in Index PROVE Surplus(T, a, i) >= 0
    <3>1. ObjWeight(S.obj[n][y], a, i) = 0 /\ Surplus(S, a, i) \in Int
      BY <1>1, HooksNone, ObjectWeighs, SurplusType
    <3>2. Surplus(S, a, i) >= 0
      BY <1>1 DEF NoneLacks
    <3> QED BY <2>1, <3>1, <3>2
  <2> QED BY <2>1, <2>2 DEF NoneLacks
<1>3. T.net = S.net /\ Moved(S, T, n, y, x) /\ Only(S, T, X, Free)
  BY <1>1, RedirectIs
<1>4. Q = SpotOf(n, x)
  BY DEF SpotOf
<1> HIDE DEF T
<1>5. /\ \A r : Backs(S, r) => Spot(T, r) = f[Spot(S, r)]
      /\ \A a \in Node, i \in Index : T.exp[a][i].wec = S.exp[a][i].wec
  <2> DEFINE t == x
  <2>1. /\ t # y /\ f = Move(<<n, y>>, SpotOf(n, t)) /\ t \in Slot \cup {Bound}
        /\ S \in Memories /\ Moved(S, T, n, y, t)
    BY <1>1, <1>3, <1>4 DEF f
  <2> HIDE DEF f, X, Q, G, H, Z, N, t
  <2>2. RefsMoved(S, T, Move(<<n, y>>, SpotOf(n, t)))
    BY <2>1, MovedRefs
  <2>3. RefsMoved(S, T, f)
    BY <2>1, <2>2, Zenon
  <2> QED BY <2>3 DEF RefsMoved
<1>6. f = Move(X, Q) /\ f \in [Spots -> Spots] /\ f[Nowhere] = Nowhere
  <2>1. f = Move(X, Q) /\ Q # X
    BY <1>1
  <2> HIDE DEF f, X, Q
  <2> QED BY <1>1, <2>1, MoveIs
<1> HIDE DEF f
<1>7. /\ \A p \in Places : p # X => Content(T, p) = Content(S, p)
      /\ HooksOn(T, X) = {} /\ RepliesOn(T, X) = {}
  <2>1. Content(T, X) = Free /\ \A p \in Places : p # X => Content(T, p) = Content(S, p)
    BY <1>3 DEF Only
  <2> QED BY <2>1, NoHooks
<1>8. PlacesCarried(S, T, G, H, f, Z)
  <2>1. ReadsOn(S, X) = {} /\ RepliesOn(S, X) = {}
    BY <1>1, NoHooks
  <2> QED BY <1>1, <2>1 DEF PlacesCarried
<1>9. Fit(T)
  <2>1. ASSUME NEW p \in Places, NEW h \in RepliesOn(T, p) PROVE h.wec = EXPORT_UNIT_WEC
    <3>1. p # X /\ h \in RepliesOn(S, p)
      BY <1>7, <2>1 DEF RepliesOn, HooksOn
    <3> QED BY <1>1, <3>1 DEF Full
  <2>2. Full(T)
    BY <1>1, <1>3, <1>5, <2>1 DEF Full
  <2> QED BY <1>2, <2>2 DEF Fit
<1>10. /\ Z \in SUBSET Places /\ X \in Z /\ \A p \in Places \ Z : Content(T, p) = Content(S, p)
       /\ BagToSet(S.net) \subseteq BagToSet(T.net)
       /\ BagToSet(T.net) \subseteq BagToSet(S.net) \cup N
       /\ \A m \in N : m.type # "read"
       /\ L \subseteq {X, Q} \X {X, Q}
       /\ G = With(S, L, {}) /\ H = With(T, {}, {})
       /\ X \in Places /\ Q \in Spots /\ Q # X
  BY <1>1, <1>3, <1>7
<1>11. \A p \in Z : HooksOn(T, p) # {} => \E o \in Places : HooksOn(S, o) # {} /\ f[o] = p
  BY <1>7
<1>12. NoneAsksAnew(S, {}, T, Z, N, {})
  BY <1>7 DEF NoneAsksAnew
<1> HIDE DEF Z, N, X, Q, G, H
<1>13. Calm(T, {}, {})
  BY <1>5, <1>6, <1>8, <1>9, <1>10, <1>11, <1>12, MoveStep
<1> QED BY <1>13 DEF T

LEMMA UnifyExrefVarCalm ==
  ASSUME NEW S, NEW L, Calm(S, L, {}), NEW n \in Node, NEW x \in Slot, NEW y \in Slot, x # y,
         IsExref(S.obj[n][x]), IsVar(S.obj[n][y]),
         L \subseteq {<<n, x>>, <<n, y>>} \X {<<n, x>>, <<n, y>>},
         NEW T \in UnifyExrefVar(S, n, x, y)
  PROVE  Calm(T, {}, {})
<1>1. Sound(S) /\ S.obj[n][x] \in Objects /\ S.obj[n][x] # Free
  <2>1. Sound(S) /\ S.obj[n][x] \in Objects
    BY DEF Calm, Fit, Sound, Shaped, Memories
  <2> QED BY <2>1, ObjectKinds
<1>2. CASE \E G \in Generate(S, n, x) : T = Merge(G, n, x, y)
  <2>1. PICK G \in Generate(S, n, x) : T = Merge(G, n, x, y)
    BY <1>2
  <2>2. IsVar(G.obj[n][x]) /\ G.obj[n][y] = S.obj[n][y]
    BY <1>1, GenerateKeeps
  <2>3. Calm(G, L, {})
    BY GenerateCalm
  <2> QED BY <2>1, <2>2, <2>3, MergeCalm
<1>3. CASE S.obj[n][y] = Var(EmptyBag) /\ T = Redirect(S, n, y, x)
  BY <1>1, <1>3, EmptyCalm
<1> QED BY <1>2, <1>3 DEF UnifyExrefVar

(* What encode_data() writes leads to what it was for, or from it.         *)
LEMMA EncodeCalm ==
  ASSUME NEW S, NEW L, NEW K, Calm(S, L, K), NEW n \in Node, NEW s \in Slot,
         S.obj[n][s] # Free, NEW e \in Encode(S, n, s)
  PROVE  /\ Calm(e.mem, L, K) /\ Backs(e.mem, e.ref) /\ e.mem.net = S.net
         /\ \/ Spot(e.mem, e.ref) = <<n, s>>
            \/ /\ IsExref(S.obj[n][s]) /\ Spot(e.mem, e.ref) = Spot(S, S.obj[n][s])
         /\ \A p \in Places :
              /\ p # <<n, s>> => Content(e.mem, p) = Content(S, p)
              /\ IsExref(Content(S, p)) =>
                   /\ IsExref(Content(e.mem, p))
                   /\ Content(e.mem, p).node = Content(S, p).node
                   /\ Content(e.mem, p).index = Content(S, p).index
         /\ \A a \in Node, i \in Index : S.exp[a][i] # Unused => e.mem.exp[a][i] = S.exp[a][i]
<1> DEFINE o == S.obj[n][s]  z == <<n, s>>
<1>1. /\ Sound(S) /\ NoneLacks(S) /\ Shaped(S) /\ S \in Memories
      /\ Content(S, z) = o /\ z \in Places /\ o \in Objects
  BY DEF Calm, Fit, Sound, Shaped, Memories, Content, Places
<1>2. CASE IsExref(o) /\ o.wec >= 2 * MIN_WEC
  <2> DEFINE g == [o EXCEPT !.wec = @ - (@ \div 2)]  T == e.mem
  <2>1. e = [mem |-> [S EXCEPT !.obj[n][s].wec = @ - (@ \div 2)],
             ref |-> RefTo(o.node, o.index, o.wec \div 2)]
    BY <1>2 DEF Encode
  <2>2. T = [S EXCEPT !.obj[n][s] = g]
    BY <2>1
  <2>3. /\ o \in Exrefs /\ Backs(S, o)
        /\ g.node = o.node /\ g.index = o.index /\ IsExref(g)
    <3>1. o \in Exrefs /\ Backs(S, o)
      BY <1>1, <1>2, ExrefBacks
    <3> QED BY <3>1 DEF Exrefs, IsExref
  <2>4. e.ref.node = o.node /\ e.ref.index = o.index
    BY <2>1 DEF RefTo
  <2>5. Sound(T) /\ NoneLacks(T)
    <3>1. /\ Sound(T) /\ e.ref \in Given
          /\ \A a \in Node, j \in Index :
               Surplus(T, a, j) = Surplus(S, a, j) + RefWeight(e.ref, a, j)
      BY <1>1, EncodeGives
    <3>2. ASSUME NEW a \in Node, NEW j \in Index PROVE Surplus(T, a, j) >= 0
      <4>1. Surplus(S, a, j) >= 0 /\ Surplus(S, a, j) \in Int /\ RefWeight(e.ref, a, j) \in Nat
        BY <1>1, <3>1, SurplusType, WeightTypes DEF NoneLacks
      <4> QED BY <3>1, <4>1
    <3> QED BY <3>1, <3>2 DEF NoneLacks
  <2>6. T.exp = S.exp /\ T.net = S.net
    BY <1>1, <2>2 DEF Memories
  <2>7. \A a \in Node, x \in Slot : T.obj[a][x] = IF a = n /\ x = s THEN g ELSE S.obj[a][x]
    BY <1>1, <2>2 DEF Memories
  <2> HIDE DEF T, g
  <2>8. Only(S, T, z, g)
    BY <2>7, OnlyIs
  <2>9. Calm(T, L, K)
    BY <1>1, <1>2, <2>3, <2>5, <2>6, <2>8, SplitCalm
  <2>10. Backs(T, e.ref) /\ Spot(T, e.ref) = Spot(S, o)
    BY <2>3, <2>4, <2>6 DEF Backs, Spot
  <2>11. \A p \in Places :
              /\ p # z => Content(T, p) = Content(S, p)
              /\ IsExref(Content(S, p)) =>
                   /\ IsExref(Content(T, p))
                   /\ Content(T, p).node = Content(S, p).node
                   /\ Content(T, p).index = Content(S, p).index
    BY <1>1, <2>3, <2>8 DEF Only
  <2> QED BY <1>2, <2>6, <2>9, <2>10, <2>11 DEF T
<1>3. CASE ~(IsExref(o) /\ o.wec >= 2 * MIN_WEC)
  <2>1. e \in Registered(S, n, s)
    BY <1>3 DEF Encode
  <2>2. Calm(e.mem, L, K) /\ Backs(e.mem, e.ref) /\ Spot(e.mem, e.ref) = z
    BY <2>1, RegisteredCalm
  <2>3. e.mem.obj = S.obj /\ e.mem.net = S.net
    BY <1>1, <2>1, RegisteredGives
  <2>4. \A a \in Node, i \in Index : S.exp[a][i] # Unused => e.mem.exp[a][i] = S.exp[a][i]
    BY <1>1, <2>1, RegisteredIs
  <2>5. \A p \in Places : Content(e.mem, p) = Content(S, p)
    BY <2>3 DEF Content
  <2> QED BY <2>2, <2>3, <2>4, <2>5
<1> QED BY <1>2, <1>3

(* A reference is bound to a reference, which it leads to by a unification. *)
LEMMA ExrefsCalm ==
  ASSUME NEW S, NEW L, Calm(S, L, {}), NEW n \in Node, NEW x \in Slot, NEW y \in Slot, x # y,
         IsExref(S.obj[n][x]), IsExref(S.obj[n][y]),
         L \subseteq {<<n, x>>, <<n, y>>} \X {<<n, x>>, <<n, y>>},
         NEW e \in Encode(S, n, y)
  PROVE  Calm(Redirect(Post(e.mem, One(UnifyMsg(S.obj[n][x], e.ref, None))), n, x, y), {}, {})
<1> DEFINE o == S.obj[n][x]  u == UnifyMsg(o, e.ref, None)  D == e.mem  U == Post(D, One(u))
           T == Redirect(U, n, x, y)  X == <<n, x>>  Y == <<n, y>>  f == Move(X, Y)
           G == With(D, L, {})  H == With(T, {}, {})  Z == {X}  N == {u}
<1>1. /\ Sound(S) /\ NoneLacks(S) /\ S \in Memories
      /\ X \in Places /\ Y \in Places /\ X # Y /\ Y \in Spots
      /\ Content(S, X) = o /\ Content(S, Y) = S.obj[n][y]
      /\ S.obj[n][x] \in Objects /\ S.obj[n][y] \in Objects
  BY DEF Calm, Fit, Sound, Shaped, Memories, Content, Places, Spots
<1>2. o \in Exrefs /\ Backs(S, o) /\ Backs(S, S.obj[n][y]) /\ o # Free /\ S.obj[n][y] # Free
  <2>1. o \in Exrefs /\ Backs(S, o) /\ Backs(S, S.obj[n][y])
    BY <1>1, ExrefBacks
  <2> QED BY <1>1, <2>1, ObjectKinds
<1>3. Sound(T) /\ NoneLacks(T)
  <2>1. T \in DoUnify(S, n, x, y, None)
    BY TermAssumption DEF DoUnify, IsVar, IsExref
  <2> HIDE DEF T
  <2>2. Kept(S, T)
    BY <1>1, <1>2, <2>1, DoUnifyKeeps DEF Live
  <2> QED BY <1>1, <2>2 DEF Kept, NoneLacks
<1>4. /\ Calm(D, L, {}) /\ Backs(D, e.ref) /\ e.ref \in Given
      /\ \/ Spot(D, e.ref) = Y
         \/ Spot(D, e.ref) = Spot(S, S.obj[n][y])
      /\ Content(D, X) = o /\ IsExref(Content(D, Y))
      /\ Content(D, Y).node = S.obj[n][y].node /\ Content(D, Y).index = S.obj[n][y].index
      /\ \A a \in Node, i \in Index : S.exp[a][i] # Unused => D.exp[a][i] = S.exp[a][i]
  BY <1>1, <1>2, EncodeCalm, EncodeGives
<1> HIDE DEF D
<1>5. D \in Memories /\ Full(D) /\ D.net \in Flights /\ IsABag(D.net)
  <2>1. D \in Memories /\ Full(D) /\ D.net \in Flights
    BY <1>4 DEF Calm, Fit, Sound, Shaped, Memories
  <2> QED BY <2>1, BagsOfAre DEF Flights
<1>6. /\ u.type = "unify" /\ u.to = o.node /\ u.index = o.index /\ u.term = e.ref
      /\ One(u) \in Flights
  <2>1. u \in Carried
    BY <1>2, <1>4, UnifyMsgWeighs, WecAssumption DEF Exrefs
  <2>2. u.type = "unify" /\ u.to = o.node /\ u.index = o.index /\ u.term = e.ref
    BY DEF UnifyMsg, Message
  <2> QED BY <2>1, <2>2, FlightsOne
<1> HIDE DEF u, o
<1>7. /\ U \in Memories /\ U.exp = D.exp /\ U.obj = D.obj
      /\ BagToSet(U.net) = BagToSet(D.net) \cup {u}
  <2>1. U.exp = D.exp /\ U.obj = D.obj /\ U.net = D.net (+) One(u) /\ U \in Memories
    <3>1. Shaped(U) /\ U.exp = D.exp /\ U.obj = D.obj
      BY <1>4, <1>6, PostMany DEF Calm, Fit, Sound
    <3> QED BY <1>5, <3>1 DEF Post, Memories, Shaped
  <2> QED BY <1>5, <2>1, CopiesAdd, CopiesOne
<1> HIDE DEF U
<1>8. T.net = U.net /\ Moved(U, T, n, x, y) /\ Only(U, T, X, Free)
  BY <1>7, RedirectIs
<1>9. Y = SpotOf(n, y)
  BY DEF SpotOf
<1> HIDE DEF T
<1>10. /\ \A r : Backs(D, r) => Spot(T, r) = f[Spot(D, r)]
       /\ \A a \in Node, i \in Index : T.exp[a][i].wec = D.exp[a][i].wec
  <2> DEFINE t == y
  <2>1. /\ t # x /\ f = Move(<<n, x>>, SpotOf(n, t)) /\ t \in Slot \cup {Bound}
        /\ D \in Memories /\ Moved(D, T, n, x, t)
    BY <1>5, <1>7, <1>8, <1>9 DEF f, Moved
  <2> HIDE DEF f, X, Y, G, H, Z, N, t
  <2>2. RefsMoved(D, T, Move(<<n, x>>, SpotOf(n, t)))
    BY <2>1, MovedRefs
  <2>3. RefsMoved(D, T, f)
    BY <2>1, <2>2, Zenon
  <2> QED BY <2>3 DEF RefsMoved
<1>11. /\ f = Move(X, Y) /\ f \in [Spots -> Spots] /\ f[Nowhere] = Nowhere
       /\ f[X] = Y /\ f[Y] = Y
  <2>1. f = Move(X, Y) /\ Y # X
    BY <1>1
  <2> HIDE DEF f, X, Y
  <2> QED BY <1>1, <2>1, MoveIs
<1> HIDE DEF f
<1>12. /\ \A p \in Places : p # X => Content(T, p) = Content(D, p)
       /\ HooksOn(T, X) = {} /\ RepliesOn(T, X) = {}
       /\ BagToSet(T.net) = BagToSet(D.net) \cup {u}
  <2>1. Content(T, X) = Free /\ \A p \in Places : p # X => Content(T, p) = Content(D, p)
    BY <1>7, <1>8 DEF Only, Content
  <2> QED BY <1>7, <1>8, <2>1, NoHooks
<1>13. SameSide(H, Y, f[Spot(D, o)])
  <2>1. <<f[Spot(D, o)], f[Spot(D, e.ref)]>> \in Links(T)
    <3>1. Backs(D, o)
      <4>1. \A a \in Node, i \in Index : S.exp[a][i] # Unused => D.exp[a][i] = S.exp[a][i]
        BY <1>4
      <4>2. Backs(S, o)
        BY <1>2
      <4> QED BY <4>1, <4>2, BacksStill
    <3>2. Spot(T, Addressed(u)) = Spot(T, o)
      BY <1>6 DEF Spot, Addressed, RefTo
    <3>3. TermSpot(T, u.term) = Spot(T, e.ref)
      <4>1. e.ref # Bound
        BY <1>4, TermAssumption DEF Given, Reference
      <4> QED BY <1>6, <4>1 DEF TermSpot
    <3>4. Spot(T, o) = f[Spot(D, o)] /\ Spot(T, e.ref) = f[Spot(D, e.ref)]
      BY <1>4, <1>10, <3>1
    <3>5. u \in BagToSet(T.net) /\ u.type = "unify"
      BY <1>6, <1>12
    <3> QED BY <3>2, <3>3, <3>4, <3>5, LinkIs
  <2>2. SameSide(H, f[Spot(D, o)], f[Spot(D, e.ref)])
    BY <2>1, SameSideBasics DEF With
  <2>3. CASE Spot(D, e.ref) = Y
    BY <1>11, <2>2, <2>3 DEF SameSide
  <2>4. CASE Spot(D, e.ref) = Spot(S, S.obj[n][y])
    <3> DEFINE c == Content(D, Y)
    <3>1. Backs(D, c) /\ Spot(D, c) = Spot(D, e.ref)
      <4> DEFINE r == S.obj[n][y]
      <4>1. /\ c.node = r.node /\ c.index = r.index /\ Backs(S, r)
            /\ \A a \in Node, i \in Index : S.exp[a][i] # Unused => D.exp[a][i] = S.exp[a][i]
            /\ Spot(D, e.ref) = Spot(S, r)
        BY <1>2, <1>4, <2>4
      <4> HIDE DEF c, r
      <4> QED BY <4>1 DEF Backs, Spot
    <3>2. <<Y, Spot(T, c)>> \in Links(T)
      BY <1>1, <1>4, <1>12, LinkIs
    <3>3. SameSide(H, Y, f[Spot(D, e.ref)])
      BY <1>10, <3>1, <3>2, SameSideBasics DEF With
    <3> QED BY <2>2, <3>3 DEF SameSide
  <2> QED BY <1>4, <2>3, <2>4
<1>14. PlacesCarried(D, T, G, H, f, Z)
  <2>1. ReadsOn(D, X) = {} /\ RepliesOn(D, X) = {}
    <3>1. IsExref(Content(D, X))
      BY <1>4 DEF o
    <3> QED BY <3>1, NoHooks
  <2> QED BY <1>4, <1>11, <1>13, <2>1 DEF PlacesCarried
<1>15. Fit(T)
  <2>1. ASSUME NEW p \in Places, NEW h \in RepliesOn(T, p) PROVE h.wec = EXPORT_UNIT_WEC
    <3>1. p # X /\ h \in RepliesOn(D, p)
      BY <1>12, <2>1 DEF RepliesOn, HooksOn
    <3> QED BY <1>5, <3>1 DEF Full
  <2>2. Full(T)
    BY <1>5, <1>6, <1>10, <1>12, <2>1 DEF Full
  <2> QED BY <1>3, <2>2 DEF Fit
<1>16. /\ Z \in SUBSET Places /\ X \in Z /\ \A p \in Places \ Z : Content(T, p) = Content(D, p)
       /\ BagToSet(D.net) \subseteq BagToSet(T.net)
       /\ BagToSet(T.net) \subseteq BagToSet(D.net) \cup N
       /\ \A m \in N : m.type # "read"
       /\ L \subseteq {X, Y} \X {X, Y}
       /\ G = With(D, L, {}) /\ H = With(T, {}, {})
       /\ X \in Places /\ Y \in Spots /\ Y # X
  BY <1>1, <1>6, <1>12
<1>17. \A p \in Z : HooksOn(T, p) # {} => \E g \in Places : HooksOn(D, g) # {} /\ f[g] = p
  BY <1>12
<1>18. NoneAsksAnew(D, {}, T, Z, N, {})
  BY <1>6, <1>12 DEF NoneAsksAnew
<1> HIDE DEF Z, N, X, Y, G, H
<1>19. Calm(T, {}, {})
  BY <1>4, <1>10, <1>11, <1>14, <1>15, <1>16, <1>17, <1>18, MoveStep
<1> QED BY <1>19 DEF T, U, u, D, o

LEMMA DoUnifyCalm ==
  ASSUME NEW S, NEW n \in Node, NEW x, NEW y, Live(S, n, x), Live(S, n, y),
         NEW L, L \subseteq {SpotOf(n, x), SpotOf(n, y)} \X {SpotOf(n, x), SpotOf(n, y)},
         Calm(S, L, {}),
         NEW answered, \A k \in Asks(S) : ~(k.node = n /\ k.index = answered),
         NEW T \in DoUnify(S, n, x, y, answered)
  PROVE  Calm(T, {}, {})
<1>1. /\ Sound(S)
      /\ x # Bound => x \in Slot /\ S.obj[n][x] \in Objects /\ S.obj[n][x] # Free
      /\ y # Bound => y \in Slot /\ S.obj[n][y] \in Objects /\ S.obj[n][y] # Free
  BY DEF Calm, Fit, Sound, Shaped, Memories, Live
<1>2. SpotOf(n, Bound) = Nowhere
  BY TermAssumption DEF SpotOf
<1>3. CASE x = y
  <2>1. T = S
    BY <1>3 DEF DoUnify
  <2>2. \A l \in L : l[1] = l[2]
    BY <1>3
  <2>3. NeverInVain(With(S, {}, {}))
    <3>1. ASSUME NEW C, Enclosed(With(S, {}, {}), C) PROVE Enclosed(With(S, L, {}), C)
      BY <2>2, <3>1 DEF Enclosed, With, AsksFor
    <3>2. \A C : /\ Awaited(With(S, {}, {}), C) <=> Awaited(With(S, L, {}), C)
                 /\ ReadInto(With(S, {}, {}), C) <=> ReadInto(With(S, L, {}), C)
      BY DEF Awaited, ReadInto, With, AsksFor
    <3>3. NeverInVain(With(S, L, {}))
      BY DEF Calm
    <3> QED BY <3>1, <3>2, <3>3 DEF NeverInVain
  <2> QED BY <2>1, <2>3 DEF Calm
<1>4. CASE x # y /\ y = Bound
  <2>1. T = Bind(S, n, x, answered)
    BY <1>4 DEF DoUnify
  <2>2. L \subseteq {<<n, x>>, Nowhere} \X {<<n, x>>, Nowhere}
    BY <1>1, <1>2, <1>4 DEF SpotOf
  <2> QED BY <1>1, <1>4, <2>1, <2>2, BindCalm
<1>5. CASE x # y /\ y # Bound /\ x = Bound
  <2>1. T = Bind(S, n, y, answered)
    BY <1>5 DEF DoUnify
  <2>2. L \subseteq {<<n, y>>, Nowhere} \X {<<n, y>>, Nowhere}
    BY <1>1, <1>2, <1>5 DEF SpotOf
  <2> QED BY <1>1, <1>5, <2>1, <2>2, BindCalm
<1>6. ASSUME x # y, x # Bound, y # Bound PROVE Calm(T, {}, {})
  <2> DEFINE X == S.obj[n][x]  Y == S.obj[n][y]
  <2>1. /\ x \in Slot /\ y \in Slot
        /\ (IsVar(X) \/ IsExref(X)) /\ (IsVar(Y) \/ IsExref(Y))
        /\ L \subseteq {<<n, x>>, <<n, y>>} \X {<<n, x>>, <<n, y>>}
        /\ L \subseteq {<<n, y>>, <<n, x>>} \X {<<n, y>>, <<n, x>>}
    BY <1>1, <1>6, ObjectKinds DEF SpotOf
  <2>2. CASE IsVar(X) /\ IsVar(Y)
    <3>1. T = Merge(S, n, x, y)
      BY <1>6, <2>2 DEF DoUnify
    <3> QED BY <1>6, <2>1, <2>2, <3>1, MergeCalm
  <2>3. CASE IsVar(X) /\ ~IsVar(Y)
    <3>1. T \in UnifyExrefVar(S, n, y, x)
      BY <1>6, <2>3 DEF DoUnify
    <3> QED BY <1>6, <2>1, <2>3, <3>1, UnifyExrefVarCalm
  <2>4. CASE ~IsVar(X) /\ IsVar(Y)
    <3>1. T \in UnifyExrefVar(S, n, x, y)
      BY <1>6, <2>4 DEF DoUnify
    <3> QED BY <1>6, <2>1, <2>4, <3>1, UnifyExrefVarCalm
  <2>5. CASE ~IsVar(X) /\ ~IsVar(Y)
    <3>1. PICK e \in Encode(S, n, y) :
            T = Redirect(Post(e.mem, One(UnifyMsg(X, e.ref, None))), n, x, y)
      BY <1>6, <2>5 DEF DoUnify
    <3> QED BY <1>6, <2>1, <2>5, <3>1, ExrefsCalm
  <2> QED BY <2>2, <2>3, <2>4, <2>5
<1> QED BY <1>3, <1>4, <1>5, <1>6

(* What no entry means, nothing leads to; and on a variable that nothing   *)
(* leads to, nobody waits.                                                 *)
LEMMA LoneSpots ==
  ASSUME NEW S, NEW n \in Node, NEW s \in Slot, \A i \in Index : S.exp[n][i].data # s,
         NEW r, Backs(S, r)
  PROVE  Spot(S, r) # <<n, s>>
<1> SUFFICES ASSUME Spot(S, r) = <<n, s>> PROVE FALSE
  OBVIOUS
<1> DEFINE d == S.exp[r.node][r.index].data
<1>1. Spot(S, r) # Nowhere /\ Spot(S, r) = SpotOf(r.node, d)
  BY NowhereIs DEF Spot, Places
<1> HIDE DEF d
<1>2. <<r.node, d>> = <<n, s>>
  BY <1>1 DEF SpotOf
<1> QED BY <1>2 DEF d, Backs

LEMMA LoneHasNoHooks ==
  ASSUME NEW S, Calm(S, {}, {}), NEW n \in Node, NEW s \in Slot, ~IsExref(S.obj[n][s]),
         \A i \in Index : S.exp[n][i].data # s
  PROVE  HooksOn(S, <<n, s>>) = {}
<1> DEFINE z == <<n, s>>  G == With(S, {}, {})  C == {z}
<1>1. Sound(S) /\ NoneLacks(S) /\ z \in Places /\ ~IsExref(Content(S, z)) /\ NeverInVain(G)
  BY DEF Calm, Fit, Places, Content
<1>2. \A r : Backs(S, r) => Spot(S, r) # z
  BY LoneSpots
<1>3. z # Nowhere /\ C \in SUBSET Places
  BY <1>1, NowhereIs
<1>4. ASSUME NEW l \in G.links PROVE l[1] # z /\ l[2] # z
  <2>1. l \in Links(S)
    BY DEF With
  <2>2. CASE \E p \in Places : IsExref(Content(S, p)) /\ l = <<p, Spot(S, Content(S, p))>>
    <3>1. PICK p \in Places : IsExref(Content(S, p)) /\ l = <<p, Spot(S, Content(S, p))>>
      BY <2>2
    <3>2. Backs(S, Content(S, p))
      BY <1>1, <3>1, ExrefBacks
    <3>3. p # z /\ l[1] = p /\ l[2] = Spot(S, Content(S, p))
      BY <1>1, <3>1
    <3> HIDE DEF z
    <3> QED BY <1>2, <3>2, <3>3
  <2>3. CASE \E m \in BagToSet(S.net) :
               m.type = "unify" /\ l = <<Spot(S, Addressed(m)), TermSpot(S, m.term)>>
    <3>1. PICK m \in BagToSet(S.net) :
            m.type = "unify" /\ l = <<Spot(S, Addressed(m)), TermSpot(S, m.term)>>
      BY <2>3
    <3>2. Backs(S, Addressed(m)) /\ (m.term # Bound => Backs(S, m.term))
      BY <1>1, <3>1, UnifySpots
    <3>3. TermSpot(S, m.term) # z
      BY <1>2, <1>3, <3>2 DEF TermSpot
    <3> HIDE DEF z
    <3> QED BY <1>2, <3>1, <3>2, <3>3
  <2> QED BY <2>1, <2>2, <2>3, LinkIs
<1>5. \A w \in G.waits : w.on # z
  <2>1. ASSUME NEW p \in Places, NEW h \in ReadsOn(S, p) PROVE Spot(S, h) # z
    <3>1. Backs(S, h)
      BY <1>1, <2>1, HookBacks DEF ReadsOn
    <3> QED BY <1>2, <3>1
  <2>2. G.waits = Waits(S)
    BY DEF With
  <2> HIDE DEF G, z
  <2> QED BY <2>1, <2>2, WaitIs DEF Wait
<1>6. \A i \in Index : <<z, i>> \notin G.open
  BY DEF With, Open
<1>7. Enclosed(G, C)
  <2>1. \A w \in G.waits, k \in G.asks : w.at \in C => ~AsksFor(G, k, w)
    <3> SUFFICES ASSUME NEW w \in G.waits, NEW k \in G.asks, w.at = z,
                        <<w.at, w.ret>> \in G.open
                 PROVE  FALSE
      BY DEF AsksFor
    <3>1. w.ret \in Index
      BY DEF With, Open
    <3> QED BY <1>6, <3>1
  <2> HIDE DEF G, z
  <2> QED BY <1>4, <2>1 DEF Enclosed
<1>8. ~ReadInto(G, C)
  <2> HIDE DEF G, z
  <2> QED BY <1>5 DEF ReadInto
<1>9. ~Awaited(G, C)
  BY <1>1, <1>3, <1>7, <1>8 DEF NeverInVain
<1>10. ASSUME NEW h \in ReadsOn(S, z) PROVE FALSE
  <2>1. Wait(z, h.ret, Spot(S, h)) \in G.waits
    BY <1>1, <1>10, WaitIs DEF With
  <2> HIDE DEF G, z
  <2> QED BY <1>9, <2>1 DEF Awaited, Wait
<1>11. ASSUME NEW h \in RepliesOn(S, z) PROVE FALSE
  <2>1. Ask(h.node, h.index, z) \in G.asks
    BY <1>1, <1>11, AskIs DEF With
  <2> HIDE DEF G, z
  <2> QED BY <1>9, <2>1 DEF Awaited, Ask
<1> QED BY <1>10, <1>11 DEF ReadsOn, RepliesOn

(* A collection: what led to the object leads to what that led to, and a   *)
(* variable had nothing on it.                                             *)
LEMMA CollectCalm ==
  ASSUME NEW S, Calm(S, {}, {}), NEW n \in Node, NEW s \in Slot,
         \A i \in Index : S.exp[n][i].data # s,
         NEW T, Sound(T), NoneLacks(T), T.exp = S.exp, Only(S, T, <<n, s>>, Free),
         NEW N, \A m \in N : m.type = "release", BagToSet(T.net) = BagToSet(S.net) \cup N
  PROVE  Calm(T, {}, {})
<1> DEFINE X == <<n, s>>  o == Content(S, X)  Q == IF IsExref(o) THEN Spot(S, o) ELSE Nowhere
           f == Move(X, Q)  L == {}  G == With(S, L, {})  H == With(T, {}, {})  Z == {X}
<1>1. Sound(S) /\ NoneLacks(S) /\ Full(S) /\ S \in Memories /\ X \in Places
  BY DEF Calm, Fit, Sound, Shaped, Places
<1>2. \A r : Backs(S, r) => Spot(S, r) # X /\ Spot(S, r) \in Spots
  BY <1>1, LoneSpots, SpotIs
<1>3. Q # X /\ Q \in Spots
  <2>1. IsExref(o) => Backs(S, o)
    BY <1>1, ExrefBacks
  <2>2. X # Nowhere /\ Nowhere \in Spots
    BY <1>1, NowhereIs DEF Spots
  <2> HIDE DEF X
  <2> QED BY <1>2, <2>1, <2>2
<1>4. ~IsExref(o) => HooksOn(S, X) = {}
  <2>1. o = S.obj[n][s]
    BY DEF Content
  <2> QED BY <2>1, LoneHasNoHooks
<1>5. ReadsOn(S, X) = {} /\ RepliesOn(S, X) = {}
  BY <1>4, NoHooks
<1>6. /\ \A p \in Places : p # X => Content(T, p) = Content(S, p)
      /\ HooksOn(T, X) = {} /\ RepliesOn(T, X) = {}
  <2>1. Content(T, X) = Free /\ \A p \in Places : p # X => Content(T, p) = Content(S, p)
    BY DEF Only
  <2> QED BY <2>1, NoHooks
<1> HIDE DEF X, Q, o
<1>7. /\ f = Move(X, Q) /\ f \in [Spots -> Spots] /\ f[Nowhere] = Nowhere
      /\ f[X] = Q /\ f[Q] = Q
      /\ \A a \in Spots : a # X => f[a] = a
  <2>1. f = Move(X, Q)
    OBVIOUS
  <2> HIDE DEF f
  <2> QED BY <1>1, <1>3, <2>1, MoveIs
<1> HIDE DEF f
<1>8. \A r : Backs(S, r) => Spot(T, r) = f[Spot(S, r)]
  <2>1. \A r : Spot(T, r) = Spot(S, r)
    BY DEF Spot
  <2> QED BY <1>2, <1>7, <2>1
<1>9. PlacesCarried(S, T, G, H, f, Z)
  <2>1. IsExref(Content(S, X)) => SameSide(H, f[X], f[Spot(S, Content(S, X))])
    <3>1. IsExref(Content(S, X)) => Q = Spot(S, Content(S, X))
      BY DEF Q, o
    <3> QED BY <1>7, <3>1 DEF SameSide
  <2> QED BY <1>5, <2>1 DEF PlacesCarried
<1>10. Fit(T)
  <2>1. ASSUME NEW p \in Places, NEW h \in RepliesOn(T, p) PROVE h.wec = EXPORT_UNIT_WEC
    <3>1. p # X /\ h \in RepliesOn(S, p)
      BY <1>6, <2>1 DEF RepliesOn, HooksOn
    <3> QED BY <1>1, <3>1 DEF Full
  <2>2. Full(T)
    BY <1>1, <2>1 DEF Full
  <2> QED BY <2>2 DEF Fit
<1>11. /\ Z \in SUBSET Places /\ X \in Z /\ \A p \in Places \ Z : Content(T, p) = Content(S, p)
       /\ BagToSet(S.net) \subseteq BagToSet(T.net)
       /\ BagToSet(T.net) \subseteq BagToSet(S.net) \cup N
       /\ \A m \in N : m.type # "read"
       /\ L \subseteq {X, Q} \X {X, Q} /\ Calm(S, L, {})
       /\ G = With(S, L, {}) /\ H = With(T, {}, {})
  BY <1>1, <1>6
<1>12. \A p \in Z : HooksOn(T, p) # {} => \E g \in Places : HooksOn(S, g) # {} /\ f[g] = p
  BY <1>6
<1>13. NoneAsksAnew(S, {}, T, Z, N, {})
  BY <1>6 DEF NoneAsksAnew
<1> HIDE DEF Z, G, H, L
<1> QED BY <1>1, <1>3, <1>7, <1>8, <1>9, <1>10, <1>11, <1>12, <1>13, MoveStep

-----------------------------------------------------------------------------
(* The inductive invariant: nobody waits in vain in a sound memory.        *)
RInv == Calm(Memory, {}, {})

LEMMA CalmMemory ==
  ASSUME RInv
  PROVE  /\ IInv /\ Full(Memory) /\ NoneWaitsInVain
         /\ Sound(Memory) /\ NoneLacks(Memory) /\ Memory \in Memories
BY GraphWith DEF RInv, Calm, Fit, IInv, NoneWaitsInVain, Sound, Shaped

LEMMA KeptLacks ==
  ASSUME RInv, Kept(Memory, Memory')
  PROVE  Sound(Memory') /\ NoneLacks(Memory')
BY CalmMemory DEF Kept, NoneLacks

(* What goals do.                                                          *)
LEMMA NewVarCalm ==
  ASSUME RInv, NEW n \in Node, NEW s \in Slot, NewVar(n, s)
  PROVE  Calm(Memory', {}, {})
<1> DEFINE S == Memory  T == Memory'  z == <<n, s>>  v == Var(EmptyBag)  L == {}  K == {}
<1>1. Sound(T) /\ NoneLacks(T)
  BY CalmMemory, NewVarKeeps, KeptLacks
<1>2. T.exp = S.exp /\ T.net = S.net /\ S.obj[n][s] = Free
  BY MemoryFields DEF NewVar
<1>3. \A a \in Node, x \in Slot : T.obj[a][x] = IF a = n /\ x = s THEN v ELSE S.obj[a][x]
  <2>1. S.obj \in [Node -> [Slot -> Objects]]
    BY CalmMemory DEF Memories
  <2>2. T.obj = [S.obj EXCEPT ![n][s] = v]
    BY MemoryFields DEF NewVar
  <2> HIDE DEF S, T, v
  <2> QED BY <2>1, <2>2
<1>4. Calm(S, L, K)
  BY DEF RInv
<1> HIDE DEF S, T, v
<1>5. Only(S, T, z, v) /\ Content(S, z) = Free
  BY <1>2, <1>3, OnlyIs
<1>6. HooksOn(T, z) = {}
  BY <1>5, NoHooks DEF Only, v
<1>7. L \in SUBSET (Spots \X Spots) /\ \A l \in L : SameSide(With(T, L, K), l[1], l[2])
  OBVIOUS
<1> HIDE DEF L, K, z
<1>8. Calm(T, L, K)
  BY <1>1, <1>2, <1>4, <1>5, <1>6, <1>7, FreshCalm
<1> QED BY <1>8 DEF T, L, K

LEMMA SuspendCalm ==
  ASSUME RInv, NEW n \in Node, NEW s \in Slot, Suspend(n, s)
  PROVE  Calm(Memory', {}, {})
<1>1. PICK S \in Generate(Memory, n, s) : Becomes(S)
  BY DEF Suspend
<1>2. Sound(Memory) /\ IsExref(Memory.obj[n][s])
  BY CalmMemory, MemoryFields DEF Suspend
<1>3. Calm(S, {}, {})
  BY <1>2, GenerateCalm DEF RInv
<1>4. Memory' = S
  BY <1>1, <1>3, BecomesIs DEF Calm, Fit
<1> QED BY <1>3, <1>4

(* Goals wait for no index.                                                *)
LEMMA NoneAsksNone ==
  ASSUME NEW S, Sound(S), NoneLacks(S), NEW k \in Asks(S)
  PROVE  k.index # None
<1>1. k.index \in Index
  BY AskBacks DEF Backs
<1> QED BY <1>1, TermAssumption

LEMMA BindTermCalm ==
  ASSUME RInv, NEW n \in Node, NEW s \in Slot, BindTerm(n, s)
  PROVE  Calm(Memory', {}, {})
<1> DEFINE T == Bind(Memory, n, s, None)  L == {}
<1>1. Sound(Memory) /\ Memory.obj[n][s] # Free
  BY CalmMemory, HeldLive, MemoryFields DEF BindTerm
<1>2. \A k \in Asks(Memory) : ~(k.node = n /\ k.index = None)
  BY CalmMemory, NoneAsksNone
<1>3. Calm(Memory, L, {}) /\ L \subseteq {<<n, s>>, Nowhere} \X {<<n, s>>, Nowhere}
  BY DEF RInv
<1>4. Becomes(T)
  BY DEF BindTerm
<1> HIDE DEF L
<1>5. Calm(T, {}, {})
  BY <1>1, <1>2, <1>3, BindCalm
<1> HIDE DEF T
<1>6. Memory' = T
  BY <1>4, <1>5, BecomesIs DEF Calm, Fit
<1> QED BY <1>5, <1>6

LEMMA AliasCalm ==
  ASSUME RInv, NEW n \in Node, NEW x \in Slot, NEW y \in Slot, Alias(n, x, y)
  PROVE  Calm(Memory', {}, {})
<1> DEFINE L == {}
<1>1. PICK S \in DoUnify(Memory, n, x, y, None) : Becomes(S)
  BY DEF Alias
<1>2. Live(Memory, n, x) /\ Live(Memory, n, y)
  BY CalmMemory, HeldLive DEF Alias
<1>3. \A k \in Asks(Memory) : ~(k.node = n /\ k.index = None)
  BY CalmMemory, NoneAsksNone
<1>4. /\ Calm(Memory, L, {})
      /\ L \subseteq {SpotOf(n, x), SpotOf(n, y)} \X {SpotOf(n, x), SpotOf(n, y)}
  BY DEF RInv
<1> HIDE DEF L
<1>5. Calm(S, {}, {})
  BY <1>2, <1>3, <1>4, DoUnifyCalm
<1>6. Memory' = S
  BY <1>1, <1>5, BecomesIs DEF Calm, Fit
<1> QED BY <1>5, <1>6

LEMMA ThrowCalm ==
  ASSUME RInv, NEW n \in Node, NEW d \in Node, NEW s \in Slot, Throw(n, d, s)
  PROVE  Calm(Memory', {}, {})
<1> DEFINE L == {}  K == {}
<1>1. PICK e \in Encode(Memory, n, s) : Becomes(Post(e.mem, One(ThrowMsg(d, e.ref))))
  BY DEF Throw
<1>2. Sound(Memory) /\ NoneLacks(Memory) /\ Memory.obj[n][s] # Free /\ Calm(Memory, L, K)
  BY CalmMemory, HeldLive, MemoryFields DEF Throw, RInv
<1> HIDE DEF L, K
<1>3. Calm(e.mem, L, K)
  BY <1>2, EncodeCalm
<1>4. /\ e.ref \in Given
      /\ \A a \in Node, j \in Index :
           Surplus(e.mem, a, j) = Surplus(Memory, a, j) + RefWeight(e.ref, a, j)
  BY <1>2, EncodeGives
<1> DEFINE m == ThrowMsg(d, e.ref)  T == Post(e.mem, One(m))
<1>5. m.type = "throw" /\ m.to = d /\ m.index = None /\ m.wec = 0 /\ m.term = e.ref
  BY DEF ThrowMsg, Message, RefTo
<1>6. m \in Carried
  <2>1. e.ref \in Reference
    BY <1>4 DEF Given
  <2> QED BY <1>4, <2>1, TermAssumption DEF ThrowMsg, Message, RefTo, Carried, InMessage
<1> HIDE DEF m
<1>7. ASSUME NEW a \in Node, NEW j \in Index
      PROVE  MessageWeight(m, a, j) <= Surplus(e.mem, a, j)
  <2>1. MessageWeight(m, a, j) = RefWeight(e.ref, a, j) /\ RefWeight(e.ref, a, j) \in Nat
    BY <1>4, <1>5, <1>6, MessageParts, WeightTypes
  <2>2. Surplus(Memory, a, j) >= 0 /\ Surplus(Memory, a, j) \in Int
    BY <1>2, SurplusType DEF NoneLacks, Sound
  <2> QED BY <1>4, <2>1, <2>2
<1>8. Becomes(T)
  BY <1>1 DEF m
<1>9. K \in SUBSET K /\ m.type # "read" /\ m.type # "answer"
  BY <1>5
<1>10. Calm(T, L, K)
  BY <1>3, <1>6, <1>7, <1>9, PostCalm
<1> HIDE DEF T
<1>11. Memory' = T
  BY <1>8, <1>10, BecomesIs DEF Calm, Fit
<1> QED BY <1>10, <1>11 DEF L, K

LEMMA DropCalm ==
  ASSUME RInv, NEW n \in Node, NEW s \in Slot, Drop(n, s)
  PROVE  Calm(Memory', {}, {})
<1> DEFINE L == {}  K == {}
<1>1. Kept(Memory, Memory')
  BY CalmMemory, DropKeeps
<1>2. Memory'.exp = Memory.exp /\ Memory'.obj = Memory.obj /\ Memory'.net = Memory.net
  BY MemoryFields DEF Drop
<1>3. Calm(Memory, L, K)
  BY DEF RInv
<1> HIDE DEF L, K
<1>4. Calm(Memory', L, K)
  BY <1>1, <1>2, <1>3, HeldCalm
<1> QED BY <1>4 DEF L, K

(* A collection.                                                           *)
LEMMA CollectStepCalm ==
  ASSUME RInv, NEW n \in Node, NEW s \in Slot, Collect(n, s)
  PROVE  Calm(Memory', {}, {})
<1> DEFINE S == Memory  T == Memory'  o == obj[n][s]  r == ReleaseMsg(o, None)
           N == IF IsExref(o) THEN {r} ELSE {}
<1>1. Sound(T) /\ NoneLacks(T)
  <2>1. /\ Sound(T)
        /\ \A a \in Node, i \in Index : Surplus(T, a, i) >= Surplus(S, a, i)
    BY CalmMemory, CollectKeeps
  <2>2. \A a \in Node, i \in Index :
          Surplus(S, a, i) >= 0 /\ Surplus(S, a, i) \in Int /\ Surplus(T, a, i) \in Int
    BY <2>1, CalmMemory, SurplusType DEF NoneLacks, Sound
  <2> QED BY <2>1, <2>2 DEF NoneLacks
<1>2. T.exp = S.exp /\ \A i \in Index : S.exp[n][i].data # s
  BY MemoryFields DEF Collect, Unreachable
<1>3. \A a \in Node, x \in Slot : T.obj[a][x] = IF a = n /\ x = s THEN Free ELSE S.obj[a][x]
  <2>1. S.obj \in [Node -> [Slot -> Objects]]
    BY CalmMemory DEF Memories
  <2>2. T.obj = [S.obj EXCEPT ![n][s] = Free]
    BY MemoryFields DEF Collect
  <2> HIDE DEF S, T
  <2> QED BY <2>1, <2>2
<1>4. BagToSet(T.net) = BagToSet(S.net) \cup N
  <2>1. IsABag(net)
    BY CalmMemory, MemoryFields, BagsOfAre DEF Memories, Flights
  <2>2. net' = IF IsExref(o) THEN net (+) One(r) ELSE net
    BY DEF Collect
  <2> HIDE DEF r, o
  <2>3. BagToSet(net') = BagToSet(net) \cup N
    BY <2>1, <2>2, CopiesAdd, CopiesOne
  <2> QED BY <2>3, MemoryFields
<1>5. \A m \in N : m.type = "release"
  BY DEF ReleaseMsg, Message
<1>6. Calm(S, {}, {})
  BY DEF RInv
<1> HIDE DEF S, T, N
<1>7. Only(S, T, <<n, s>>, Free)
  BY <1>3, OnlyIs
<1>8. Calm(T, {}, {})
  BY <1>1, <1>2, <1>4, <1>5, <1>6, <1>7, CollectCalm
<1> QED BY <1>8 DEF T

-----------------------------------------------------------------------------
(* What messages bring.  The answer that an index waits for has come, and  *)
(* with it all the weight of its entry: nobody else asks for that index.   *)
LEMMA SettleCalm ==
  ASSUME NEW S, NEW k, NEW L, NEW K, k \in K, \A j \in K : j = k, Calm(S, L, K),
         NEW n \in Node, NEW i \in Index, k.node = n, k.index = i,
         NEW x, x = S.exp[n][i].data, NEW w, w = EXPORT_UNIT_WEC, w <= Surplus(S, n, i),
         NEW T, T = Search(S, n, i, w),
         NEW L2 \in SUBSET (Spots \X Spots), L \subseteq L2, <<SpotOf(n, x), k.at>> \in L2
  PROVE  /\ Calm(T, L2, {})
         /\ \A j \in Asks(T) : ~(j.node = n /\ j.index = i)
         /\ T.obj = S.obj /\ Live(S, n, x)
<1> DEFINE K2 == {}
<1>1. /\ Sound(S) /\ Full(S) /\ Shaped(S) /\ S \in Memories
      /\ S.exp \in [Node -> [Index -> Entries]]
      /\ Backs(S, k) /\ k.at \in Spots
  BY DEF Calm, Fit, Sound, Shaped, Memories
<1>2. SpotOf(n, x) = Spot(S, k) /\ Spot(S, k) \in Spots
  BY <1>1, SpotIs DEF Spot
<1>3. /\ K2 \in SUBSET K
      /\ \A j \in K2 : Backs(T, j)
      /\ \A j \in K : j \in K2 \/ <<Spot(S, j), j.at>> \in L2
  BY <1>1, <1>2
<1>4. w \in Nat \ {0}
  BY WecAssumption
<1> HIDE DEF K2
<1>5. /\ Calm(T, L2, K2) /\ T.obj = S.obj /\ Live(S, n, x)
  BY <1>3, <1>4, SearchCalm
<1>6. S.exp[n][i].wec = w
  <2>1. /\ Surplus(S, n, i) <= S.exp[n][i].wec /\ Surplus(S, n, i) \in Int
        /\ S.exp[n][i].wec \in Nat /\ S.exp[n][i].wec <= w
    BY <1>1, SurplusType DEF Full
  <2> QED BY <1>4, <2>1
<1>7. T.exp[n][i] = Unused
  <2>1. T.exp = [S.exp EXCEPT ![n] = [S.exp[n] EXCEPT ![i] = Unused]]
    BY <1>1, <1>6 DEF Search, Memories
  <2> QED BY <1>1, <2>1
<1>8. ASSUME NEW j \in Asks(T), j.node = n, j.index = i PROVE FALSE
  <2>1. Backs(T, j)
    BY <1>5, AskBacks DEF Calm, Fit
  <2> QED BY <1>7, <1>8, <2>1 DEF Backs
<1> QED BY <1>5, <1>8 DEF K2

LEMMA ReceiveReleaseCalm ==
  ASSUME RInv, NEW n \in Node, NEW m \in InFlight, ReceiveRelease(n, m)
  PROVE  Calm(Memory', {}, {})
<1> DEFINE R == Receive(Memory, m)  U == Search(R, n, m.index, m.wec)  L == {}  K == {}
<1>1. m.to = n /\ m.type = "release" /\ Becomes(U) /\ m \in BagToSet(Memory.net)
  BY MemoryFields DEF ReceiveRelease, InFlight
<1>2. /\ Calm(R, L, K)
      /\ \A a \in Node, i \in Index : Surplus(R, a, i) >= MessageWeight(m, a, i)
  <2>1. LinksOf(Memory, m) = L /\ AsksOf(Memory, m) = K
    BY <1>1 DEF LinksOf, AsksOf
  <2> HIDE DEF L, K, R
  <2> QED BY <1>1, <2>1, ReceiveCalm DEF RInv, R
<1>3. m \in Carried /\ m.index \in Index /\ m.wec \in Nat \ {0} /\ m.term = None
  <2>1. m \in Carried
    BY CalmMemory, <1>1, NetFacts
  <2> QED BY <1>1, <2>1, MessageParts DEF Carried
<1> HIDE DEF R
<1>4. m.wec <= Surplus(R, n, m.index)
  <2>1. MessageWeight(m, n, m.index) = m.wec
    BY <1>1, <1>3, TermAssumption DEF MessageWeight, RefWeight, RefTo
  <2> QED BY <1>2, <1>3, <2>1
<1>5. L \in SUBSET (Spots \X Spots) /\ L \subseteq L /\ K \in SUBSET K /\ \A k \in K : FALSE
  OBVIOUS
<1> HIDE DEF L, K
<1>6. Calm(U, L, K)
  BY <1>2, <1>3, <1>4, <1>5, SearchCalm
<1> HIDE DEF U
<1>7. Memory' = U
  BY <1>1, <1>6, BecomesIs DEF Calm, Fit
<1> QED BY <1>6, <1>7 DEF L, K

LEMMA ReceiveAnswerCalm ==
  ASSUME RInv, NEW n \in Node, NEW m \in InFlight, ReceiveAnswer(n, m)
  PROVE  Calm(Memory', {}, {})
<1> DEFINE R == Receive(Memory, m)  U == Search(R, n, m.index, m.wec)
           k == Ask(n, m.index, Nowhere)  L == {}  K == {k}
<1>1. m.to = n /\ m.type = "answer" /\ m \in BagToSet(Memory.net)
  BY MemoryFields DEF ReceiveAnswer, InFlight
<1>2. /\ Calm(R, L, K)
      /\ \A a \in Node, i \in Index : Surplus(R, a, i) >= MessageWeight(m, a, i)
  <2>1. LinksOf(Memory, m) = L /\ AsksOf(Memory, m) = K
    BY <1>1 DEF LinksOf, AsksOf
  <2> HIDE DEF L, K, R
  <2> QED BY <1>1, <2>1, ReceiveCalm DEF RInv, R
<1>3. m.index \in Index /\ m.wec = EXPORT_UNIT_WEC /\ m.term = Bound
  <2>1. m \in Carried
    BY CalmMemory, <1>1, NetFacts
  <2>2. m.wec = EXPORT_UNIT_WEC
    BY CalmMemory, <1>1 DEF Full
  <2> QED BY <1>1, <2>1, <2>2, MessageParts DEF Carried
<1>4. R.exp = exp
  BY CalmMemory, <1>1, Received
<1>5. PICK S \in DoUnify(U, n, exp[n][m.index].data, Bound, m.index) : Becomes(S)
  BY DEF ReceiveAnswer
<1> HIDE DEF R
<1>6. EXPORT_UNIT_WEC <= Surplus(R, n, m.index)
  <2>1. MessageWeight(m, n, m.index) = m.wec
    BY <1>1, <1>3, WecAssumption DEF MessageWeight, RefWeight, RefTo
  <2>2. Surplus(R, n, m.index) \in Int
    BY <1>2, <1>3, SurplusType DEF Calm, Fit, Sound
  <2> QED BY <1>2, <1>3, <2>1, <2>2, WecAssumption
<1>7. k.node = n /\ k.index = m.index /\ k.at = Nowhere /\ SpotOf(n, Bound) = Nowhere
  BY TermAssumption DEF Ask, SpotOf
<1> DEFINE x == exp[n][m.index].data  M == {<<SpotOf(n, x), SpotOf(n, Bound)>>}
<1>8. /\ U = Search(R, n, m.index, m.wec) /\ L \subseteq M /\ k \in K /\ \A j \in K : j = k
      /\ x = R.exp[n][m.index].data /\ <<SpotOf(n, x), k.at>> \in M
      /\ m.wec = EXPORT_UNIT_WEC /\ m.wec <= Surplus(R, n, m.index)
  BY <1>3, <1>4, <1>6, <1>7
<1>9. M \in SUBSET (Spots \X Spots)
  <2>1. Backs(R, k) /\ Spot(R, k) = SpotOf(n, x)
    BY <1>2, <1>4, <1>7 DEF Calm, Spot
  <2>2. SpotOf(n, x) \in Spots /\ Nowhere \in Spots
    BY <1>2, <2>1, SpotIs DEF Calm, Fit, Sound, Shaped, Spots
  <2> QED BY <1>7, <2>2
<1> HIDE DEF U, L, K, k, M, x
<1>10. /\ Calm(U, M, {}) /\ \A j \in Asks(U) : ~(j.node = n /\ j.index = m.index)
      /\ U.obj = R.obj /\ Live(R, n, x)
  BY <1>2, <1>3, <1>7, <1>8, <1>9, SettleCalm
<1>11. Live(U, n, x) /\ Live(U, n, Bound)
  BY <1>10 DEF Live
<1>12. M \subseteq {SpotOf(n, x), SpotOf(n, Bound)} \X {SpotOf(n, x), SpotOf(n, Bound)}
  BY DEF M
<1>13. S \in DoUnify(U, n, x, Bound, m.index)
  BY <1>5 DEF x
<1>14. Calm(S, {}, {})
  BY <1>10, <1>11, <1>12, <1>13, DoUnifyCalm
<1>15. Memory' = S
  BY <1>5, <1>14, BecomesIs DEF Calm, Fit
<1> QED BY <1>14, <1>15

(* A %read, with what it asks for in the hands of the handler.             *)
LEMMA ReadSpentCalm ==
  ASSUME RInv, NEW n \in Node, NEW m \in InFlight, m.to = n, m.type = "read",
         NEW P, P = ReadSpent(n, m)
  PROVE  /\ Calm(P, {}, {Ask(m.term.node, m.term.index, SpotOf(n, ReadTarget(n, m)))})
         /\ \A a \in Node, i \in Index : RefWeight(m.term, a, i) <= Surplus(P, a, i)
<1> DEFINE R == Receive(Memory, m)  L == {}
           k == Ask(m.term.node, m.term.index, SpotOf(n, ReadTarget(n, m)))  K == {k}
<1>1. m \in BagToSet(Memory.net)
  BY MemoryFields DEF InFlight
<1>2. /\ Calm(R, L, K)
      /\ \A a \in Node, i \in Index : Surplus(R, a, i) >= MessageWeight(m, a, i)
  <2>1. Spot(Memory, Addressed(m)) = SpotOf(n, ReadTarget(n, m))
    BY MemoryFields DEF Spot, Addressed, RefTo, ReadTarget
  <2>2. LinksOf(Memory, m) = L /\ AsksOf(Memory, m) = K
    BY <2>1 DEF LinksOf, AsksOf
  <2> HIDE DEF L, K, R
  <2> QED BY <1>1, <2>2, ReceiveCalm DEF RInv, R
<1>3. /\ P = Search(R, n, m.index, m.wec)
      /\ m \in Carried /\ m.term \in Given /\ m.term.node \in Node /\ m.term.index \in Index
      /\ \A a \in Node, i \in Index :
           /\ Surplus(P, a, i) = Surplus(Memory, a, i) + RefWeight(m.term, a, i)
           /\ Surplus(Memory, a, i) \in Nat /\ RefWeight(m.term, a, i) \in Nat
      /\ Sound(P)
  BY CalmMemory, ReadReceived DEF ReadSpent
<1>4. /\ m.index \in Index /\ m.wec \in Nat \ {0}
      /\ \A a \in Node, i \in Index :
           /\ MessageWeight(m, a, i)
                = RefWeight(RefTo(n, m.index, m.wec), a, i) + TermWeight(m.term, a, i)
           /\ TermWeight(m.term, a, i) \in Nat
  BY <1>3, MessageParts
<1> HIDE DEF R
<1>5. m.wec <= Surplus(R, n, m.index)
  <2>1. RefWeight(RefTo(n, m.index, m.wec), n, m.index) = m.wec
    BY DEF RefWeight, RefTo
  <2>2. Surplus(R, n, m.index) \in Int
    BY <1>2, <1>4, SurplusType DEF Calm, Fit, Sound
  <2> QED BY <1>2, <1>4, <2>1, <2>2
<1>6. \A a \in Node, i \in Index : RefWeight(m.term, a, i) <= Surplus(P, a, i)
  BY <1>3
<1>7. Backs(P, k)
  <2> DEFINE t == m.term
  <2>1. t.wec \in Nat \ {0} /\ RefWeight(t, t.node, t.index) = t.wec
    BY <1>3, WecAssumption DEF Given, Reference, RefWeight
  <2>2. t.wec <= P.exp[t.node][t.index].wec
    <3>1. t.node \in Node /\ t.index \in Index /\ Shaped(P)
      BY <1>3 DEF Sound
    <3>2. /\ Surplus(P, t.node, t.index) <= P.exp[t.node][t.index].wec
          /\ Surplus(P, t.node, t.index) \in Int /\ P.exp[t.node][t.index].wec \in Nat
      BY <3>1, SurplusType
    <3>3. RefWeight(t, t.node, t.index) <= Surplus(P, t.node, t.index)
      BY <1>6, <3>1
    <3> QED BY <2>1, <3>2, <3>3
  <2>3. Backs(P, t)
    BY <1>3, <2>1, <2>2, ShareBacks
  <2> QED BY <2>3 DEF Backs, Ask
<1>8. /\ L \in SUBSET (Spots \X Spots) /\ L \subseteq L /\ K \in SUBSET K
      /\ \A j \in K : Backs(P, j)
  BY <1>7
<1> HIDE DEF L, K, k
<1>9. Calm(P, L, K)
  BY <1>2, <1>3, <1>4, <1>5, <1>8, SearchCalm
<1> QED BY <1>6, <1>9 DEF L, K, k

(* The read has come back to the node that waits for the answer.           *)
LEMMA ReadComesHomeCalm ==
  ASSUME RInv, NEW n \in Node, NEW m \in InFlight, ReadComesHome(n, m)
  PROVE  Calm(Memory', {}, {})
<1> DEFINE P == ReadSpent(n, m)  i == m.term.index  x == P.exp[n][i].data
           y == ReadTarget(n, m)  k == Ask(n, i, SpotOf(n, y))  L == {}  K == {k}
           U == Search(P, n, i, m.term.wec)  M == {<<SpotOf(n, x), SpotOf(n, y)>>}
<1>1. m.to = n /\ m.type = "read" /\ m.term.node = n
  BY DEF ReadComesHome
<1>2. PICK S \in DoUnify(U, n, x, y, i) : Becomes(S)
  BY DEF ReadComesHome
<1>3. /\ Sound(P) /\ m.term \in Given /\ m.term.wec = EXPORT_UNIT_WEC /\ i \in Index
      /\ Live(P, n, y)
  BY CalmMemory, <1>1, ReadReceived
<1>4. Calm(P, L, K) /\ RefWeight(m.term, n, i) <= Surplus(P, n, i)
  BY <1>1, <1>3, ReadSpentCalm
<1> HIDE DEF P
<1>5. m.term.wec <= Surplus(P, n, i)
  BY <1>1, <1>4 DEF RefWeight
<1>6. k.node = n /\ k.index = i /\ k.at = SpotOf(n, y)
  BY DEF Ask
<1>7. M \in SUBSET (Spots \X Spots)
  <2>1. Backs(P, k) /\ Spot(P, k) = SpotOf(n, x) /\ k.at \in Spots
    BY <1>4, <1>6 DEF Calm, Spot
  <2>2. SpotOf(n, x) \in Spots
    BY <1>4, <2>1, SpotIs DEF Calm, Fit, Sound, Shaped
  <2> QED BY <1>6, <2>1, <2>2
<1>8. L \subseteq M /\ k \in K /\ (\A j \in K : j = k) /\ <<SpotOf(n, x), k.at>> \in M
  BY <1>6
<1>9. M \subseteq {SpotOf(n, x), SpotOf(n, y)} \X {SpotOf(n, x), SpotOf(n, y)}
  OBVIOUS
<1>10. U = Search(P, n, i, m.term.wec) /\ x = P.exp[n][i].data
  OBVIOUS
<1> HIDE DEF U, L, K, k, M, x, y, i
<1>11. /\ Calm(U, M, {}) /\ \A j \in Asks(U) : ~(j.node = n /\ j.index = i)
       /\ U.obj = P.obj /\ Live(P, n, x)
  BY <1>3, <1>4, <1>5, <1>6, <1>7, <1>8, <1>10, SettleCalm
<1>12. Live(U, n, x) /\ Live(U, n, y)
  BY <1>3, <1>11 DEF Live
<1>13. Calm(S, {}, {})
  BY <1>2, <1>9, <1>11, <1>12, DoUnifyCalm
<1>14. Memory' = S
  BY <1>2, <1>13, BecomesIs DEF Calm, Fit
<1> QED BY <1>13, <1>14

LEMMA ReadAnsweredCalm ==
  ASSUME RInv, NEW n \in Node, NEW m \in InFlight, ReadAnswered(n, m)
  PROVE  Calm(Memory', {}, {})
<1> DEFINE P == ReadSpent(n, m)  a == AnswerMsg(m.term)  T == Post(P, One(a))
           k == Ask(m.term.node, m.term.index, Nowhere)  L == {}  K == {k}  K2 == {}
<1>1. m.to = n /\ m.type = "read" /\ Becomes(T) /\ ReadTarget(n, m) = Bound
  BY DEF ReadAnswered
<1>2. /\ m.term \in Given /\ m.term.node \in Node /\ m.term.index \in Index
      /\ m.term.wec = EXPORT_UNIT_WEC
  BY CalmMemory, <1>1, ReadReceived
<1>3. Calm(P, L, K) /\ \A b \in Node, i \in Index : RefWeight(m.term, b, i) <= Surplus(P, b, i)
  <2>1. SpotOf(n, ReadTarget(n, m)) = Nowhere
    BY <1>1, TermAssumption DEF SpotOf
  <2> QED BY <1>1, <2>1, ReadSpentCalm
<1>4. /\ a.to = m.term.node /\ a.index = m.term.index /\ a.wec = m.term.wec /\ a.term = Bound
      /\ a.type = "answer"
  BY DEF AnswerMsg, Message
<1>5. a \in Carried
  BY <1>2, WecAssumption
     DEF AnswerMsg, Message, Carried, InMessage, Given, Reference
<1> HIDE DEF a, P
<1>6. \A b \in Node, i \in Index : MessageWeight(a, b, i) <= Surplus(P, b, i)
  <2>1. \A b \in Node, i \in Index : /\ MessageWeight(a, b, i) = RefWeight(m.term, b, i)
                                     /\ RefWeight(m.term, b, i) \in Nat
    BY <1>2, <1>4, WeightTypes DEF MessageWeight, RefWeight, RefTo
  <2> QED BY <1>3, <2>1
<1>7. /\ K2 \in SUBSET K /\ Ask(a.to, a.index, Nowhere) \in K
      /\ \A j \in K : j \in K2 \/ (a.type = "answer" /\ j = Ask(a.to, a.index, Nowhere))
  BY <1>4
<1> HIDE DEF L, K, K2, k
<1>8. Calm(T, L, K2)
  BY <1>2, <1>3, <1>4, <1>5, <1>6, <1>7, PostCalm
<1> HIDE DEF T
<1>9. Memory' = T
  BY <1>1, <1>8, BecomesIs DEF Calm, Fit
<1> QED BY <1>8, <1>9 DEF L, K2

LEMMA ReadTransferredCalm ==
  ASSUME RInv, NEW n \in Node, NEW m \in InFlight, ReadTransferred(n, m)
  PROVE  Calm(Memory', {}, {})
<1> DEFINE P == ReadSpent(n, m)  s == ReadTarget(n, m)  c == obj[n][s]  z == <<n, s>>
           o == [c EXCEPT !.wec = c.wec - 1]
           back == RefTo(m.term.node, m.term.index, EXPORT_UNIT_WEC)
           r == ReadMsg(c, back, m.transc - 1)
           U == [P EXCEPT !.obj[n][s].wec = @ - 1]
           T == Memory'  k == Ask(m.term.node, m.term.index, SpotOf(n, s))  L == {}  K == {k}
<1>1. /\ m.to = n /\ m.type = "read" /\ s # Bound /\ Transferable(n, m)
      /\ Becomes(Post(U, One(r)))
  BY DEF ReadTransferred
<1>2. /\ Sound(P) /\ P.obj = obj /\ Live(P, n, s) /\ P \in Memories
      /\ m.term \in Given /\ m.term.node \in Node /\ m.term.index \in Index /\ m.transc \in Nat
  BY CalmMemory, <1>1, ReadReceived DEF Sound, Shaped
<1>3. Calm(P, L, K)
  BY <1>1, ReadSpentCalm
<1>4. Sound(T) /\ NoneLacks(T)
  BY CalmMemory, ReadTransferredKeeps, KeptLacks
<1> HIDE DEF P
<1>5. s \in Slot /\ P.obj[n][s] = c /\ IsExref(c) /\ z = SpotOf(n, s) /\ z \in Places
  BY <1>1, <1>2 DEF Live, Transferable, SpotOf, Places
<1>6. /\ U = [P EXCEPT !.obj[n][s] = o] /\ U.exp = P.exp /\ U.net = P.net
      /\ \A b \in Node, x \in Slot : U.obj[b][x] = IF b = n /\ x = s THEN o ELSE P.obj[b][x]
  <2>1. U = [P EXCEPT !.obj[n][s] = o]
    BY <1>5
  <2> HIDE DEF U, o
  <2> QED BY <1>2, <1>5, <2>1 DEF Memories
<1>7. Only(P, U, z, o) /\ Content(P, z) = c
  <2>1. \A b \in Node, x \in Slot : U.obj[b][x] = IF b = n /\ x = s THEN o ELSE P.obj[b][x]
    BY <1>6
  <2>2. s \in Slot
    BY <1>5
  <2> HIDE DEF U, o, s, c, T, r, k, K, L
  <2>3. ASSUME NEW x \in Slot, x = s
        PROVE  Only(P, U, <<n, x>>, o) /\ Content(P, <<n, x>>) = P.obj[n][x]
    <3>1. \A b \in Node, y \in Slot : U.obj[b][y] = IF b = n /\ y = x THEN o ELSE P.obj[b][y]
      BY <2>1, <2>3
    <3> HIDE DEF back, z
    <3>2. <<n, x>> \in Places /\ Content(U, <<n, x>>) = o /\ Content(P, <<n, x>>) = P.obj[n][x]
      BY <3>1 DEF Places, Content
    <3>3. ASSUME NEW p \in Places, p # <<n, x>> PROVE Content(U, p) = Content(P, p)
      <4>1. p = <<p[1], p[2]>> /\ p[1] \in Node /\ p[2] \in Slot
        BY DEF Places
      <4>2. ~(p[1] = n /\ p[2] = x)
        BY <3>3, <4>1
      <4> QED BY <3>1, <4>1, <4>2 DEF Content
    <3> QED BY <3>2, <3>3 DEF Only
  <2>4. Only(P, U, <<n, s>>, o) /\ Content(P, <<n, s>>) = P.obj[n][s]
    BY <2>2, <2>3
  <2> QED BY <1>5, <2>4
<1>8. c \in Exrefs /\ o.node = c.node /\ o.index = c.index /\ IsExref(o)
  <2>1. c \in Exrefs
    BY <1>3, <1>5, <1>7, ExrefBacks DEF Calm, Fit
  <2> QED BY <2>1 DEF Exrefs, IsExref
<1> HIDE DEF U, o, s
<1>9. T.exp = P.exp /\ T.obj = U.obj /\ T.net = P.net (+) One(r)
  <2>1. /\ Post(U, One(r)).exp = U.exp /\ Post(U, One(r)).obj = U.obj
        /\ Post(U, One(r)).net = U.net (+) One(r)
    <3>1. U \in [{"exp", "obj", "held", "net"} -> {U.exp, U.obj, U.held, U.net}]
      BY <1>2, <1>6 DEF Memories
    <3> QED BY <3>1 DEF Post
  <2> QED BY <1>1, <1>6, <2>1, MemoryFields DEF Becomes
<1>10. BagToSet(T.net) = BagToSet(P.net) \cup {r}
  <2>1. IsABag(P.net)
    BY <1>2, BagsOfAre DEF Memories, Flights
  <2> HIDE DEF r
  <2> QED BY <1>9, <2>1, CopiesAdd, CopiesOne
<1>11. /\ r.type = "read" /\ r.to = o.node /\ r.index = o.index
       /\ r.term.node = m.term.node /\ r.term.index = m.term.index
  BY <1>8 DEF ReadMsg, Message, RefTo
<1>12. Only(P, T, z, o) /\ IsExref(Content(P, z))
  BY <1>5, <1>7, <1>9 DEF Only, Content
<1>13. K = {Ask(m.term.node, m.term.index, z)} /\ L = {}
  BY <1>5
<1> DEFINE t == m.term
<1>14. /\ K = {Ask(t.node, t.index, z)} /\ r.term.node = t.node /\ r.term.index = t.index
       /\ o.node = Content(P, z).node /\ o.index = Content(P, z).index
  BY <1>7, <1>8, <1>11, <1>13
<1> HIDE DEF T, r, L, K, k, c, z, t
<1>15. Calm(T, L, {})
  BY <1>3, <1>4, <1>8, <1>9, <1>10, <1>11, <1>12, <1>14, PassOnCalm
<1> QED BY <1>15 DEF T, L

LEMMA ReadHookedCalm ==
  ASSUME RInv, NEW n \in Node, NEW m \in InFlight, ReadHooked(n, m)
  PROVE  Calm(Memory', {}, {})
<1> DEFINE P == ReadSpent(n, m)  s == ReadTarget(n, m)  t == m.term
           K == {Ask(t.node, t.index, <<n, s>>)}  L == {}
<1>1. m.to = n /\ m.type = "read" /\ s # Bound
  BY DEF ReadHooked
<1>2. /\ Sound(P) /\ P.obj = obj /\ Live(P, n, s)
      /\ t \in Given /\ t.wec = EXPORT_UNIT_WEC
  BY CalmMemory, <1>1, ReadReceived
<1>3. PICK S \in IF IsExref(obj[n][s]) THEN Generate(P, n, s) ELSE {P} :
        Becomes(AddReply(S, n, s, t))
  BY DEF ReadHooked
<1>4. /\ Calm(P, L, K)
      /\ \A a \in Node, i \in Index : RefWeight(t, a, i) <= Surplus(P, a, i)
  <2>1. SpotOf(n, s) = <<n, s>>
    BY <1>1, <1>2 DEF Live, SpotOf
  <2> QED BY <1>1, <2>1, ReadSpentCalm
<1> HIDE DEF P
<1>5. s \in Slot /\ P.obj[n][s] = obj[n][s] /\ P.obj[n][s] \in Objects /\ P.obj[n][s] # Free
  BY <1>1, <1>2 DEF Sound, Shaped, Memories, Live
<1>6. K = {Ask(t.node, t.index, <<n, s>>)}
  OBVIOUS
<1> HIDE DEF s, t, K, L
<1>7. Kept(P, S) /\ IsVar(S.obj[n][s]) /\ Calm(S, L, K)
  <2>1. CASE IsExref(obj[n][s])
    BY <1>2, <1>3, <1>4, <1>5, <2>1, GenerateKeeps, GenerateCalm
  <2>2. CASE ~IsExref(obj[n][s])
    <3>1. S = P
      BY <1>3, <2>2
    <3>2. IsVar(obj[n][s])
      BY <1>5, <2>2, ObjectKinds
    <3> QED BY <1>2, <1>4, <1>5, <3>1, <3>2 DEF Kept
  <2> QED BY <2>1, <2>2
<1>8. \A a \in Node, i \in Index : RefWeight(t, a, i) <= Surplus(S, a, i)
  BY <1>4, <1>7 DEF Kept
<1> DEFINE T == AddReply(S, n, s, t)
<1>9. Calm(T, L, {})
  BY <1>2, <1>5, <1>6, <1>7, <1>8, AddReplyCalm
<1>10. Becomes(T)
  BY <1>3
<1> HIDE DEF T
<1>11. Memory' = T
  BY <1>9, <1>10, BecomesIs DEF Calm, Fit
<1> QED BY <1>9, <1>11 DEF L

(* A reference that comes home is what was exported; one from another      *)
(* node leads there.  q is what is to be unified with it.                  *)
LEMMA DecodeCalm ==
  ASSUME NEW S, NEW n \in Node, NEW t \in Given \cup {Bound}, t # Bound => Backs(S, t),
         t # Bound => \A a \in Node, i \in Index : RefWeight(t, a, i) <= Surplus(S, a, i),
         NEW Q, NEW L, L = {<<q, TermSpot(S, t)>> : q \in Q}, Calm(S, L, {}),
         NEW d \in Decode(S, n, t),
         NEW L2, L2 = {<<q, SpotOf(n, d.term)>> : q \in Q}
  PROVE  /\ Calm(d.mem, L2, {})
         /\ \A a \in Node, i \in Index :
              d.mem.exp[a][i] # Unused => d.mem.exp[a][i].data = S.exp[a][i].data
<1> DEFINE T == d.mem
<1>1. Sound(S) /\ NoneLacks(S) /\ Shaped(S) /\ S \in Memories
  BY DEF Calm, Fit, Sound, Shaped
<1>2. CASE t = Bound
  <2>1. d.mem = S /\ d.term = Bound
    BY <1>2 DEF Decode
  <2>2. TermSpot(S, t) = Nowhere /\ SpotOf(n, d.term) = Nowhere
    BY <1>2, <2>1, TermAssumption DEF TermSpot, SpotOf
  <2> QED BY <2>1, <2>2
<1>3. ASSUME t # Bound
      PROVE  /\ t \in Given /\ t.node \in Node /\ t.index \in Index /\ t.wec \in Nat \ {0}
             /\ TermSpot(S, t) = Spot(S, t)
             /\ \A a \in Node, j \in Index : TermWeight(t, a, j) = RefWeight(t, a, j)
  <2>1. t \in Given
    BY <1>3
  <2>2. t.node \in Node /\ t.index \in Index /\ t.wec \in Nat \ {0}
    BY <2>1, WecAssumption DEF Given, Reference
  <2> QED BY <1>3, <2>1, <2>2, WeightTypes DEF TermSpot
<1>4. CASE t # Bound /\ t.node = n
  <2> DEFINE K == {}
  <2>1. T = Search(S, n, t.index, t.wec) /\ d.term = S.exp[n][t.index].data
    BY <1>4 DEF Decode
  <2>2. L2 = L
    <3>1. TermSpot(S, t) = SpotOf(n, d.term)
      BY <1>3, <1>4, <2>1 DEF Spot
    <3> QED BY <3>1
  <2>3. t.wec <= Surplus(S, n, t.index) /\ t.index \in Index /\ t.wec \in Nat \ {0}
    BY <1>3, <1>4 DEF RefWeight
  <2>4. /\ L \in SUBSET (Spots \X Spots) /\ L \subseteq L /\ K \in SUBSET K
        /\ (\A k \in K : Backs(T, k)) /\ Calm(S, L, K) /\ \A k \in K : k \in K
    BY DEF Calm
  <2> DEFINE i == t.index  w == t.wec
  <2> HIDE DEF K, T, i, w
  <2>5. /\ Calm(T, L, K)
        /\ \A a \in Node, j \in Index : T.exp[a][j] # Unused => T.exp[a][j].data = S.exp[a][j].data
    <3>1. i \in Index /\ w \in Nat \ {0} /\ w <= Surplus(S, n, i) /\ T = Search(S, n, i, w)
      BY <2>1, <2>3 DEF i, w
    <3> QED BY <2>4, <3>1, SearchCalm
  <2> QED BY <2>2, <2>5 DEF T, K
<1>5. CASE t # Bound /\ t.node # n
  <2> DEFINE o == Exref(t)  K == {}
  <2>1. PICK s \in Slot : /\ S.obj[n][s] = Free
                          /\ d = [mem |-> [S EXCEPT !.obj[n][s] = o], term |-> s]
    BY <1>5 DEF Decode
  <2> DEFINE z == <<n, s>>
  <2>2. T = [S EXCEPT !.obj[n][s] = o] /\ d.term = s /\ SpotOf(n, d.term) = z
    BY <2>1 DEF SpotOf
  <2>3. IsExref(o) /\ o.node = t.node /\ o.index = t.index
    BY DEF Exref, IsExref
  <2>4. Sound(T) /\ NoneLacks(T)
    <3>1. t # Bound /\ t.node = n => t.wec <= S.exp[n][t.index].wec
      BY <1>5
    <3>2. /\ Sound(T)
          /\ \A a \in Node, j \in Index :
               Surplus(T, a, j) = Surplus(S, a, j) - TermWeight(t, a, j)
      BY <1>1, <3>1, DecodeTakes
    <3>3. \A a \in Node, j \in Index :
            /\ Surplus(S, a, j) \in Int /\ RefWeight(t, a, j) \in Nat
            /\ RefWeight(t, a, j) <= Surplus(S, a, j)
            /\ TermWeight(t, a, j) = RefWeight(t, a, j)
      BY <1>1, <1>3, <1>5, SurplusType, WeightTypes
    <3> QED BY <3>2, <3>3 DEF NoneLacks
  <2> HIDE DEF o
  <2>5. /\ T.exp = S.exp /\ T.net = S.net
        /\ \A a \in Node, x \in Slot : T.obj[a][x] = IF a = n /\ x = s THEN o ELSE S.obj[a][x]
    BY <1>1, <2>2 DEF Memories
  <2> HIDE DEF T
  <2>6. Only(S, T, <<n, s>>, o) /\ Content(S, <<n, s>>) = S.obj[n][s]
    <3>1. \A a \in Node, x \in Slot : T.obj[a][x] = IF a = n /\ x = s THEN o ELSE S.obj[a][x]
      BY <2>5
    <3> HIDE DEF K, z
    <3>2. <<n, s>> \in Places /\ Content(T, <<n, s>>) = o /\ Content(S, <<n, s>>) = S.obj[n][s]
      BY <3>1 DEF Places, Content
    <3>3. ASSUME NEW p \in Places, p # <<n, s>> PROVE Content(T, p) = Content(S, p)
      <4>1. p = <<p[1], p[2]>> /\ p[1] \in Node /\ p[2] \in Slot
        BY DEF Places
      <4>2. ~(p[1] = n /\ p[2] = s)
        BY <3>3, <4>1
      <4> QED BY <3>1, <4>1, <4>2 DEF Content
    <3> QED BY <3>2, <3>3 DEF Only
  <2>7. Only(S, T, z, o) /\ Content(S, z) = Free /\ HooksOn(T, z) = {} /\ z \in Places
    <3>1. Content(T, z) = o /\ z \in Places
      BY <2>6 DEF Only
    <3> QED BY <2>1, <2>3, <2>6, <3>1, NoHooks
  <2>8. ASSUME NEW q \in Q PROVE q \in Spots
    <3>1. L \in SUBSET (Spots \X Spots)
      BY DEF Calm
    <3>2. <<q, TermSpot(S, t)>> \in L
      OBVIOUS
    <3> QED BY <3>1, <3>2
  <2>9. L2 \in SUBSET (Spots \X Spots)
    <3>1. z \in Spots
      BY <2>7 DEF Spots
    <3> QED BY <2>2, <2>8, <3>1
  <2> DEFINE H == With(T, L2, K)
  <2>10. ASSUME NEW q \in Q PROVE SameSide(H, q, TermSpot(S, t))
    <3>1. <<q, z>> \in H.links
      BY <2>2 DEF With
    <3>2. <<z, Spot(T, o)>> \in H.links
      <4>1. <<z, Spot(T, o)>> \in Links(T)
        BY <2>3, <2>7, LinkIs DEF Only
      <4> QED BY <4>1 DEF With
    <3>3. Spot(T, o) = TermSpot(S, t)
      BY <1>3, <1>5, <2>3, <2>5 DEF Spot
    <3> HIDE DEF H, z
    <3> QED BY <3>1, <3>2, <3>3, SameSideBasics
  <2>11. \A l \in L : SameSide(With(T, L2, K), l[1], l[2])
    BY <2>10
  <2>12. Calm(S, L, K)
    OBVIOUS
  <2> HIDE DEF K, z, H
  <2>13. Calm(T, L2, K)
    BY <2>4, <2>5, <2>7, <2>9, <2>11, <2>12, FreshCalm
  <2> QED BY <2>5, <2>13 DEF T, K
<1> QED BY <1>2, <1>4, <1>5

(* The same, with the links of Q to a spot. *)
LinksTo(Q, s) == {<<q, s>> : q \in Q}
SameData(S, T) ==
  \A a \in Node, i \in Index : T.exp[a][i] # Unused => T.exp[a][i].data = S.exp[a][i].data
LEMMA DecodeCarries ==
  ASSUME NEW S, NEW n \in Node, NEW t \in Given \cup {Bound}, t # Bound => Backs(S, t),
         t # Bound => \A a \in Node, i \in Index : RefWeight(t, a, i) <= Surplus(S, a, i),
         NEW Q, Calm(S, LinksTo(Q, TermSpot(S, t)), {}), NEW d \in Decode(S, n, t)
  PROVE  Calm(d.mem, LinksTo(Q, SpotOf(n, d.term)), {}) /\ SameData(S, d.mem)
  BY DecodeCalm DEF LinksTo, SameData

LEMMA ReceiveThrowCalm ==
  ASSUME RInv, NEW n \in Node, NEW m \in InFlight, ReceiveThrow(n, m)
  PROVE  Calm(Memory', {}, {})
<1> DEFINE R == Receive(Memory, m)  t == m.term  Q == {}
           L == {<<q, TermSpot(R, t)>> : q \in Q}
<1>1. m.to = n /\ m.type = "throw" /\ m \in BagToSet(Memory.net)
  BY MemoryFields DEF ReceiveThrow, InFlight
<1>2. /\ Calm(R, L, {})
      /\ \A a \in Node, i \in Index : Surplus(R, a, i) >= MessageWeight(m, a, i)
  <2>1. LinksOf(Memory, m) = {} /\ AsksOf(Memory, m) = {} /\ L = {}
    BY <1>1 DEF LinksOf, AsksOf
  <2> HIDE DEF L, R
  <2> QED BY <1>1, <2>1, ReceiveCalm DEF RInv, R
<1>3. /\ t \in Given /\ t # Bound
      /\ \A a \in Node, i \in Index :
           MessageWeight(m, a, i) = RefWeight(t, a, i) /\ RefWeight(t, a, i) \in Nat
  <2>1. m \in Carried
    BY CalmMemory, <1>1, NetFacts
  <2>2. t \in Given
    BY <1>1, <2>1, MessageParts
  <2>3. t # Bound
    BY <2>2, TermAssumption DEF Given, Reference
  <2> QED BY <1>1, <2>1, <2>2, <2>3, MessageParts, WeightTypes
<1>4. PICK d \in Decode(R, n, t) :
        Becomes([d.mem EXCEPT !.held[n] = @ \cup ({d.term} \cap Slot)])
  BY DEF ReceiveThrow
<1>5. Backs(R, t)
  <2>1. Backs(Memory, t)
    BY CalmMemory, <1>1, <1>3, MessageBacks, TermAssumption DEF Given, Reference
  <2>2. R.exp = exp
    BY CalmMemory, <1>1, Received
  <2> QED BY <2>1, <2>2, MemoryFields DEF Backs
<1> DEFINE L2 == {<<q, SpotOf(n, d.term)>> : q \in Q}
<1>6. \A a \in Node, i \in Index : RefWeight(t, a, i) <= Surplus(R, a, i)
  <2>1. \A a \in Node, i \in Index : Surplus(R, a, i) \in Int
    BY <1>2, SurplusType DEF Calm, Fit, Sound
  <2> HIDE DEF R, t
  <2> QED BY <1>2, <1>3, <2>1
<1>7. L2 = {}
  OBVIOUS
<1> HIDE DEF R, Q, t
<1>8. Calm(d.mem, L2, {})
  BY <1>2, <1>3, <1>5, <1>6, DecodeCalm
<1>9. Live(d.mem, n, d.term)
  <2>1. t.node = n => t.wec <= R.exp[n][t.index].wec
    <3> SUFFICES ASSUME t.node = n PROVE t.wec <= R.exp[n][t.index].wec
      OBVIOUS
    <3>1. t.index \in Index /\ t.wec \in Nat /\ RefWeight(t, n, t.index) = t.wec
      BY <1>3 DEF Given, Reference, RefWeight
    <3>2. /\ Surplus(R, n, t.index) <= R.exp[n][t.index].wec
          /\ Surplus(R, n, t.index) \in Int /\ R.exp[n][t.index].wec \in Nat
      BY <1>2, <3>1, SurplusType DEF Calm, Fit, Sound
    <3> QED BY <1>6, <3>1, <3>2
  <2>2. Sound(R)
    BY <1>2 DEF Calm, Fit
  <2> QED BY <1>3, <2>1, <2>2, DecodeTakes
<1> DEFINE D == d.mem  H == D.held[n] \cup ({d.term} \cap Slot)  T == [D EXCEPT !.held[n] = H]
<1>10. Becomes(T)
  BY <1>4
<1>11. Sound(D) /\ D \in Memories /\ D.held \in [Node -> SUBSET Slot]
  BY <1>8 DEF Calm, Fit, Sound, Shaped, Memories
<1>12. H \in SUBSET Slot /\ \A s \in H : D.obj[n][s] # Free
  <2>1. \A s \in D.held[n] : D.obj[n][s] # Free
    BY <1>11 DEF Sound, Rooted
  <2>2. d.term \in Slot => D.obj[n][d.term] # Free
    BY <1>9, TermAssumption DEF Live
  <2> QED BY <1>11, <2>1, <2>2
<1> HIDE DEF D, H
<1>13. Kept(D, T)
  BY <1>11, <1>12, HeldKeeps
<1>14. T.exp = D.exp /\ T.obj = D.obj /\ T.net = D.net
  BY <1>11 DEF Memories
<1> HIDE DEF T
<1>15. Calm(T, {}, {})
  <2>1. Calm(D, L2, {})
    BY <1>8 DEF D
  <2> HIDE DEF L2
  <2>2. Calm(T, L2, {})
    BY <1>13, <1>14, <2>1, HeldCalm
  <2> QED BY <1>7, <2>2
<1>16. Memory' = T
  BY <1>10, <1>15, BecomesIs DEF Calm, Fit
<1> QED BY <1>15, <1>16

LEMMA ReceiveUnifyCalm ==
  ASSUME RInv, NEW n \in Node, NEW m \in InFlight, ReceiveUnify(n, m)
  PROVE  Calm(Memory', {}, {})
<1> DEFINE R == Receive(Memory, m)  t == m.term  q == Spot(Memory, Addressed(m))  Q == {q}
           L == {<<p, TermSpot(R, t)>> : p \in Q}
<1>1. m.to = n /\ m.type = "unify" /\ m \in BagToSet(Memory.net)
  BY MemoryFields DEF ReceiveUnify, InFlight
<1>2. /\ m \in Carried /\ Sound(R) /\ R.exp = Memory.exp
      /\ \A a \in Node, i \in Index :
           /\ Surplus(R, a, i) = Surplus(Memory, a, i) + MessageWeight(m, a, i)
           /\ Surplus(Memory, a, i) \in Nat
  BY CalmMemory, <1>1, Received, MemoryFields
<1>3. Calm(R, L, {})
  <2>1. TermSpot(R, t) = TermSpot(Memory, t)
    BY <1>2 DEF TermSpot, Spot
  <2>2. LinksOf(Memory, m) = L /\ AsksOf(Memory, m) = {}
    BY <1>1, <2>1 DEF LinksOf, AsksOf
  <2> HIDE DEF L, R
  <2> QED BY <1>1, <2>2, ReceiveCalm DEF RInv, R
<1>4. PICK d \in Decode(R, n, t) :
        \E S \in DoUnify(Search(d.mem, n, m.index, m.wec), n,
                         d.mem.exp[n][m.index].data, d.term, None) : Becomes(S)
  BY DEF ReceiveUnify
<1> DEFINE L2 == {<<p, SpotOf(n, d.term)>> : p \in Q}
<1> HIDE DEF R, q
<1>5. /\ t \in Given \cup {Bound} /\ m.index \in Index /\ m.wec \in Nat \ {0}
      /\ \A a \in Node, i \in Index :
           /\ MessageWeight(m, a, i) = RefWeight(RefTo(n, m.index, m.wec), a, i) + TermWeight(t, a, i)
           /\ TermWeight(t, a, i) \in Nat
           /\ RefWeight(RefTo(n, m.index, m.wec), a, i) \in Nat
  <2>1. t \in Given \cup {Bound}
    BY <1>1, <1>2 DEF Carried
  <2>2. m.wec \in Nat
    BY <1>2 DEF Carried, InMessage
  <2> QED BY <1>1, <1>2, <2>1, <2>2, MessageParts DEF RefWeight, RefTo
<1> HIDE DEF t
<1>6. \A a \in Node, i \in Index : TermWeight(t, a, i) <= Surplus(R, a, i)
  BY <1>2, <1>5
<1>7. /\ t # Bound => Backs(R, t)
      /\ t # Bound => \A a \in Node, i \in Index : RefWeight(t, a, i) <= Surplus(R, a, i)
  <2> SUFFICES ASSUME t # Bound
               PROVE  /\ Backs(R, t)
                      /\ \A a \in Node, i \in Index : RefWeight(t, a, i) <= Surplus(R, a, i)
    OBVIOUS
  <2>1. t \in Given /\ t # None
    BY <1>5, TermAssumption DEF Given, Reference
  <2>2. Backs(Memory, t)
    BY CalmMemory, <1>1, <2>1, MessageBacks DEF t
  <2>3. Backs(R, t)
    BY <1>2, <2>2 DEF Backs
  <2>4. ASSUME NEW a \in Node, NEW i \in Index
        PROVE  RefWeight(t, a, i) <= Surplus(R, a, i)
    <3>1. TermWeight(t, a, i) = RefWeight(t, a, i)
      BY <2>1, WeightTypes
    <3>2. TermWeight(t, a, i) <= Surplus(R, a, i)
      BY <1>6
    <3> QED BY <3>1, <3>2, Zenon
  <2> QED BY <2>3, <2>4, Zenon
<1> HIDE DEF Q
<1>8. /\ Calm(d.mem, L2, {})
      /\ \A a \in Node, i \in Index :
           d.mem.exp[a][i] # Unused => d.mem.exp[a][i].data = R.exp[a][i].data
  <2>1. Calm(R, LinksTo(Q, TermSpot(R, t)), {})
    BY <1>3 DEF LinksTo
  <2>2. L2 = LinksTo(Q, SpotOf(n, d.term))
    BY DEF LinksTo
  <2>3. t \in Given \cup {Bound} /\ (t # Bound => Backs(R, t))
    BY <1>5, <1>7
  <2>4. t # Bound => \A a \in Node, i \in Index : RefWeight(t, a, i) <= Surplus(R, a, i)
    BY <1>7
  <2> HIDE DEF L2
  <2>5. /\ Calm(d.mem, LinksTo(Q, SpotOf(n, d.term)), {})
        /\ SameData(R, d.mem)
    BY <1>4, <2>1, <2>3, <2>4, DecodeCarries
  <2> QED BY <2>2, <2>5 DEF SameData
<1>9. /\ Live(d.mem, n, d.term)
      /\ \A a \in Node, i \in Index : Surplus(d.mem, a, i) = Surplus(R, a, i) - TermWeight(t, a, i)
  <2>1. t # Bound /\ t.node = n => t.wec <= R.exp[n][t.index].wec
    <3> SUFFICES ASSUME t # Bound, t.node = n PROVE t.wec <= R.exp[n][t.index].wec
      OBVIOUS
    <3>1. t.index \in Index /\ t.wec \in Nat /\ RefWeight(t, n, t.index) = t.wec
      BY <1>5 DEF Given, Reference, RefWeight
    <3>2. /\ Surplus(R, n, t.index) <= R.exp[n][t.index].wec
          /\ Surplus(R, n, t.index) \in Int /\ R.exp[n][t.index].wec \in Nat
      BY <1>2, <3>1, SurplusType DEF Sound
    <3> QED BY <1>7, <3>1, <3>2
  <2> QED BY <1>2, <1>5, <2>1, DecodeTakes
<1> DEFINE D == d.mem  i == m.index  w == m.wec  x == D.exp[n][i].data
           U == Search(D, n, i, w)  M == L2  K == {}  K2 == {}
<1>10. w <= Surplus(D, n, i)
  <2>1. RefWeight(RefTo(n, i, w), n, i) = w
    BY DEF RefWeight, RefTo
  <2> QED BY <1>2, <1>5, <1>9, <2>1
<1>11. PICK S \in DoUnify(U, n, x, d.term, None) : Becomes(S)
  BY <1>4
<1>12. /\ i \in Index /\ w \in Nat \ {0} /\ M \in SUBSET (Spots \X Spots) /\ L2 \subseteq M
       /\ K2 \in SUBSET K /\ (\A k \in K2 : Backs(U, k))
       /\ \A k \in K : k \in K2 \/ <<Spot(D, k), k.at>> \in M
  BY <1>5, <1>8 DEF Calm
<1>13. U = Search(D, n, i, w) /\ Calm(D, L2, K) /\ Live(D, n, d.term) /\ K2 = {}
  BY <1>8, <1>9
<1>14. D.exp[n][i] # Unused => x = R.exp[n][i].data
  BY <1>8, <1>12
<1> HIDE DEF D, U, i, w, L2, M, K, K2, x
<1>15. /\ Calm(U, M, K2) /\ U.obj = D.obj /\ D.exp[n][i] # Unused /\ Live(D, n, D.exp[n][i].data)
  BY <1>10, <1>12, <1>13, SearchCalm
<1>16. M \subseteq {SpotOf(n, x), SpotOf(n, d.term)} \X {SpotOf(n, x), SpotOf(n, d.term)}
  <2>1. q = SpotOf(n, x)
    <3>1. q = SpotOf(n, Memory.exp[n][i].data)
      BY <1>1 DEF q, i, Spot, Addressed, RefTo
    <3> QED BY <1>2, <1>14, <1>15, <3>1
  <2> QED BY <2>1 DEF M, L2, Q
<1>17. Live(U, n, x) /\ Live(U, n, d.term)
  BY <1>13, <1>15 DEF Live, x
<1>18. \A k \in Asks(U) : ~(k.node = n /\ k.index = None)
  BY <1>15, NoneAsksNone DEF Calm, Fit
<1>19. Calm(S, {}, {})
  BY <1>11, <1>13, <1>15, <1>16, <1>17, <1>18, DoUnifyCalm
<1>20. Memory' = S
  BY <1>11, <1>19, BecomesIs DEF Calm, Fit
<1> QED BY <1>19, <1>20

-----------------------------------------------------------------------------
LEMMA NextCalm ==
  ASSUME RInv, [Next]_vars
  PROVE  RInv'
<1>1. ASSUME NEW n \in Node, GoalStep(n) PROVE Calm(Memory', {}, {})
  BY <1>1, NewVarCalm, SuspendCalm, BindTermCalm, DropCalm, ThrowCalm, AliasCalm DEF GoalStep
<1>2. ASSUME NEW n \in Node, ReceiveStep(n) PROVE Calm(Memory', {}, {})
  BY <1>2, ReceiveThrowCalm, ReceiveUnifyCalm, ReceiveAnswerCalm, ReceiveReleaseCalm,
     ReadComesHomeCalm, ReadAnsweredCalm, ReadTransferredCalm, ReadHookedCalm
     DEF ReceiveStep
<1>3. ASSUME NEW n \in Node, CollectStep(n) PROVE Calm(Memory', {}, {})
  BY <1>3, CollectStepCalm DEF CollectStep
<1>4. CASE UNCHANGED vars
  <2>1. Memory' = Memory
    BY <1>4 DEF vars, Memory
  <2> QED BY <2>1 DEF RInv
<1> QED BY <1>1, <1>2, <1>3, <1>4 DEF Next, RInv

LEMMA InitCalm == Init => RInv
<1> SUFFICES ASSUME Init PROVE RInv
  OBVIOUS
<1> DEFINE S == Memory  G == With(S, {}, {})
<1>1. Sound(S) /\ NoneLacks(S)
  BY InitSound DEF IInv
<1>2. /\ \A p \in Places : Content(S, p) = Free
      /\ BagToSet(S.net) = {}
      /\ \A a \in Node, i \in Index : S.exp[a][i] = Unused
  <2>1. \A p \in Places : Content(S, p) = Free
    BY MemoryFields DEF Init, Content, Places
  <2>2. BagToSet(S.net) = {}
    BY CopiesNone, MemoryFields DEF Init
  <2> QED BY <2>1, <2>2, MemoryFields DEF Init
<1> HIDE DEF S
<1>3. \A p \in Places : HooksOn(S, p) = {} /\ ReadsOn(S, p) = {} /\ RepliesOn(S, p) = {}
  BY <1>2, NoHooks
<1>4. Full(S)
  BY <1>2, <1>3, WecAssumption DEF Full, Unused
<1>5. G.waits = {} /\ G.asks = {}
  <2>1. Waits(S) = {}
    BY <1>3 DEF Waits
  <2>2. Asks(S) = {}
    BY <1>2, <1>3 DEF Asks, Sent
  <2> QED BY <2>1, <2>2 DEF With
<1> HIDE DEF G
<1>6. NeverInVain(G)
  BY <1>5 DEF NeverInVain, Awaited
<1>7. Asks(S) = {}
  BY <1>5 DEF With, G
<1> QED BY <1>1, <1>4, <1>6, <1>7 DEF RInv, Calm, Fit, S, G

LEMMA AlwaysCalm == Spec => []RInv
<1>1. Init => RInv
  BY InitCalm
<1>2. RInv /\ [Next]_vars => RInv'
  BY NextCalm
<1> QED BY <1>1, <1>2, PTL DEF Spec

(* Nobody waits for an answer that does not come: however reads are        *)
(* answered, hooked, sent on or come home in decode_read(), and whatever   *)
(* becomes of variables that are unified, aliased, exported or collected   *)
(* meanwhile, what a read hook waits for has been asked for, and what was  *)
(* asked leads on to something that is not lost.                           *)
THEOREM NobodyWaitsInVain == Spec => []NoneWaitsInVain
<1>1. RInv => NoneWaitsInVain
  BY CalmMemory
<1> QED BY <1>1, AlwaysCalm, PTL

(* scan_imp_table() and the collection before it never meet a variable     *)
(* with hooks: whatever has a hook, a goal or an export entry refers to.   *)
THEOREM HookedNeverLost == Spec => []HookedIsWanted
<1>1. RInv => HookedIsWanted
  <2> SUFFICES ASSUME RInv, NEW p \in Places, HooksAt(p) # {} PROVE Wanted(p)
    BY DEF HookedIsWanted
  <2>1. p = <<p[1], p[2]>> /\ p[1] \in Node /\ p[2] \in Slot
    BY DEF Places
  <2>2. IsVar(At(p)) /\ HooksOn(Memory, p) # {}
    BY MemoryFields DEF HooksAt, HooksOn, At, Content
  <2>3. ~IsExref(Memory.obj[p[1]][p[2]])
    BY <2>2, MemoryFields DEF At, IsVar, IsExref
  <2>4. ~(\A i \in Index : Memory.exp[p[1]][i].data # p[2])
    BY <2>1, <2>2, <2>3, LoneHasNoHooks DEF RInv
  <2> QED BY <2>4, MemoryFields DEF Wanted
<1> QED BY <1>1, AlwaysCalm, PTL

(* No step of any node creates or loses weight: what send, receive, export *)
(* table, import table and hooks have of an entry is its WEC at all times. *)
THEOREM WeightConserved == Spec => []WecConserved
BY ConservedWhileWanted, HookedNeverLost, PTL

-----------------------------------------------------------------------------
(* Who has all that there is, leaves nothing to others.                    *)
LEMMA SoleTerm ==
  ASSUME NEW D, NEW f \in [D -> Nat], IsFiniteSet(Grains(f)), NEW x \in D,
         Total(f) <= f[x]
  PROVE  \A y \in D : y # x => f[y] = 0
<1> DEFINE g == [f EXCEPT ![x] = 0]
<1>1. g \in [D -> Nat] /\ g[x] = 0 /\ \A y \in D : y # x => g[y] = f[y]
  OBVIOUS
<1> HIDE DEF g
<1>2. /\ IsFiniteSet(Grains(g)) /\ Total(g) = Total(f) - f[x] + g[x]
      /\ Total(f) \in Nat
  BY <1>1, TotalChange
<1>3. Total(g) \in Nat /\ \A y \in D : g[y] <= Total(g)
  BY <1>1, <1>2, TotalAtLeast
<1>4. Total(g) = 0
  <2>1. f[x] \in Nat
    OBVIOUS
  <2> QED BY <1>1, <1>2, <1>3, <2>1
<1>5. ASSUME NEW y \in D, y # x PROVE f[y] = 0
  <2>1. f[y] \in Nat /\ g[y] = f[y] /\ g[y] <= 0
    BY <1>1, <1>3, <1>4, <1>5
  <2> QED BY <2>1
<1> QED BY <1>5

LEMMA SoleElement ==
  ASSUME NEW U, NEW w \in [U -> Nat], NEW b, IsABag(b), BagToSet(b) \subseteq U,
         Finite(b, w), NEW x \in BagToSet(b), Weight(b, w) <= w[x], w[x] > 0
  PROVE  b[x] = 1 /\ \A y \in BagToSet(b) : y # x => w[y] = 0
<1> DEFINE f == Parts(b, w)
<1>1. /\ \A y : Copies(y, b) \in Nat
      /\ \A y \in BagToSet(b) : Copies(y, b) = b[y] /\ b[y] \in Nat \ {0}
  BY DEF IsABag, Copies, BagToSet
<1>2. f \in [U -> Nat] /\ \A y \in U : f[y] = Copies(y, b) * w[y]
  BY <1>1, PartsType
<1>3. IsFiniteSet(Grains(f)) /\ Total(f) = Weight(b, w)
  BY DEF Finite, Weight
<1> HIDE DEF f
<1>4. Total(f) \in Nat /\ \A y \in U : f[y] <= Total(f)
  BY <1>2, <1>3, TotalAtLeast
<1>5. PICK j \in Nat \ {0}, k \in Nat \ {0} : j = b[x] /\ k = w[x]
  BY <1>1
<1>6. f[x] = j * k
  BY <1>1, <1>2, <1>5
<1>7. j * k <= k
  BY <1>3, <1>4, <1>5, <1>6
<1>8. j = 1
  BY <1>7
<1>9. f[x] = k
  BY <1>6, <1>8
<1>10. \A y \in U : y # x => f[y] = 0
  BY <1>2, <1>3, <1>5, <1>9, SoleTerm
<1>11. ASSUME NEW y \in BagToSet(b), y # x PROVE w[y] = 0
  <2>1. PICK a \in Nat \ {0}, c \in Nat : a = b[y] /\ c = w[y]
    BY <1>1
  <2>2. a * c = 0
    BY <1>1, <1>2, <1>10, <1>11, <2>1
  <2>3. c = 0
    BY <2>2
  <2> QED BY <2>1, <2>3
<1> QED BY <1>5, <1>8, <1>11

(* Whoever will answer a read has a unit of the entry that the answer      *)
(* comes to, which is all that there is of it.                             *)
LEMMA UnitHasAll ==
  ASSUME NEW S, Fit(S), NEW n \in Node, NEW i \in Index
  PROVE  /\ Total(Placed(S, n, i)) \in Nat /\ FlightWeight(S.net, n, i) \in Nat
         /\ Total(Placed(S, n, i)) + FlightWeight(S.net, n, i) <= EXPORT_UNIT_WEC
         /\ EXPORT_UNIT_WEC \in Nat \ {0}
<1>1. Shaped(S)
  BY DEF Fit, Sound
<1>2. /\ Total(Placed(S, n, i)) \in Nat /\ FlightWeight(S.net, n, i) \in Nat
      /\ S.exp[n][i].wec \in Nat
      /\ Surplus(S, n, i)
           = S.exp[n][i].wec - Total(Placed(S, n, i)) - FlightWeight(S.net, n, i)
  BY <1>1, SurplusType DEF Surplus
<1>3. Surplus(S, n, i) >= 0 /\ S.exp[n][i].wec <= EXPORT_UNIT_WEC
  BY DEF Fit, NoneLacks, Full
<1> QED BY <1>2, <1>3, WecAssumption

LEMMA SoleReply ==
  ASSUME NEW S, Fit(S), NEW n \in Node, NEW i \in Index,
         NEW p \in Places, NEW h \in RepliesOn(S, p), h.node = n, h.index = i
  PROVE  /\ Total(Placed(S, n, i)) >= EXPORT_UNIT_WEC
         /\ Content(S, p).hooks[h] = 1
         /\ \A q \in Places : \A g \in RepliesOn(S, q) :
              g.node = n /\ g.index = i => q = p /\ g = h
<1>1. Sound(S) /\ NoneLacks(S) /\ Full(S) /\ Shaped(S)
  BY DEF Fit, Sound
<1> DEFINE f == Placed(S, n, i)  u == EXPORT_UNIT_WEC
<1>2. /\ f \in [Places -> Nat] /\ IsFiniteSet(Grains(f)) /\ Total(f) \in Nat
      /\ Total(f) <= u /\ u \in Nat \ {0}
  <2>1. /\ Total(f) \in Nat /\ FlightWeight(S.net, n, i) \in Nat
        /\ Total(f) + FlightWeight(S.net, n, i) <= u /\ u \in Nat \ {0}
    BY UnitHasAll
  <2> QED BY <1>1, <2>1, SurplusType DEF Shaped
<1>3. \A q \in Places : f[q] = ObjWeight(Content(S, q), n, i)
  BY DEF Placed, Content
<1> HIDE DEF f
<1>4. ASSUME NEW q \in Places, NEW g \in RepliesOn(S, q), g.node = n, g.index = i
      PROVE  /\ HW(n, i)[g] = u /\ g \in BagToSet(Content(S, q).hooks)
             /\ Content(S, q).hooks \in HookBags
             /\ f[q] = HooksWeight(Content(S, q).hooks, n, i)
             /\ u <= f[q]
  <2> DEFINE o == Content(S, q)  b == o.hooks
  <2>1. /\ g \in Hook /\ IsVar(o) /\ b \in HookBags /\ g \in BagToSet(b)
        /\ o \in Objects
    BY <1>1, HookBacks, ContentFacts DEF RepliesOn
  <2>2. o = Var(b)
    BY <2>1, ObjectKinds DEF IsVar, Free
  <2>3. g.wec = u
    BY <1>1 DEF Full
  <2>4. RefWeight(g, n, i) = u /\ HW(n, i)[g] = u
    BY <1>4, <2>1, <2>3, WeightTypes DEF RefWeight
  <2> HIDE DEF b
  <2>5. f[q] = HooksWeight(b, n, i)
    BY <1>3, <2>1, <2>2, ObjectWeighs
  <2>6. u <= HooksWeight(b, n, i)
    BY <2>1, <2>4, HooksWeigh
  <2> QED BY <2>1, <2>4, <2>5, <2>6 DEF b
<1> DEFINE b == Content(S, p).hooks
<1>5. /\ HW(n, i)[h] = u /\ h \in BagToSet(b) /\ b \in HookBags
      /\ f[p] = HooksWeight(b, n, i) /\ u <= f[p]
  BY <1>4
<1> HIDE DEF b
<1>6. Total(f) <= f[p] /\ f[p] <= Total(f) /\ f[p] \in Nat
  <2>1. f[p] <= Total(f) /\ f[p] \in Nat
    BY <1>2, TotalAtLeast
  <2> QED BY <1>2, <1>5, <2>1
<1>7. \A q \in Places : q # p => f[q] = 0
  BY <1>2, <1>6, SoleTerm
<1>8. b[h] = 1 /\ \A g \in BagToSet(b) : g # h => HW(n, i)[g] = 0
  <2>1. /\ IsABag(b) /\ BagToSet(b) \subseteq Hook /\ Finite(b, HW(n, i))
        /\ HooksWeight(b, n, i) = Weight(b, HW(n, i)) /\ HW(n, i) \in [Hook -> Nat]
    BY <1>5, HooksWeigh, WeightTypes
  <2>2. Weight(b, HW(n, i)) <= HW(n, i)[h] /\ HW(n, i)[h] > 0
    BY <1>2, <1>5, <1>6, <2>1
  <2> QED BY <1>5, <2>1, <2>2, SoleElement
<1>9. ASSUME NEW q \in Places, NEW g \in RepliesOn(S, q), g.node = n, g.index = i
      PROVE  q = p /\ g = h
  <2>1. q = p
    BY <1>2, <1>4, <1>7, <1>9
  <2>2. g \in BagToSet(b) /\ HW(n, i)[g] = u
    BY <1>4, <1>9, <2>1 DEF b
  <2> QED BY <1>2, <1>8, <2>1, <2>2
<1>10. Total(f) >= u
  BY <1>2, <1>5, <1>6
<1> QED BY <1>8, <1>9, <1>10 DEF b, f

(* A message that asks, or is the answer.                                  *)
WillAnswer(m, n, i) ==
  \/ m.type = "read" /\ m.term.node = n /\ m.term.index = i
  \/ m.type = "answer" /\ m.to = n /\ m.index = i

LEMMA SoleMessage ==
  ASSUME NEW S, Fit(S), NEW n \in Node, NEW i \in Index,
         NEW m \in BagToSet(S.net), WillAnswer(m, n, i)
  PROVE  /\ FlightWeight(S.net, n, i) >= EXPORT_UNIT_WEC
         /\ S.net[m] = 1
         /\ \A k \in BagToSet(S.net) : WillAnswer(k, n, i) => k = m
<1>1. Sound(S) /\ NoneLacks(S) /\ Full(S) /\ S.net \in Flights
  BY DEF Fit, Sound, Shaped, Memories
<1> DEFINE b == S.net  w == MW(n, i)  u == EXPORT_UNIT_WEC
<1>2. /\ FlightWeight(b, n, i) \in Nat /\ FlightWeight(b, n, i) <= u /\ u \in Nat \ {0}
  <2>1. /\ Total(Placed(S, n, i)) \in Nat /\ FlightWeight(b, n, i) \in Nat
        /\ Total(Placed(S, n, i)) + FlightWeight(b, n, i) <= u /\ u \in Nat \ {0}
    BY UnitHasAll
  <2> QED BY <2>1
<1>3. /\ IsABag(b) /\ BagToSet(b) \subseteq Carried /\ Finite(b, w)
      /\ FlightWeight(b, n, i) = Weight(b, w) /\ w \in [Carried -> Nat]
      /\ \A k \in BagToSet(b) : w[k] <= FlightWeight(b, n, i)
  <2>1. \A k \in BagToSet(b) : MessageWeight(k, n, i) <= FlightWeight(b, n, i)
    BY <1>1, FlightsWeigh
  <2> QED BY <1>1, <2>1, FlightsWeigh, WeightTypes DEF FlightWeight
<1>4. ASSUME NEW k \in BagToSet(b), WillAnswer(k, n, i) PROVE w[k] >= u
  <2>1. k \in Carried /\ w[k] = MessageWeight(k, n, i) /\ w[k] \in Nat
    BY <1>3, WeightTypes
  <2>2. k.type # "throw" /\ k.type \in {"read", "answer"}
    BY <1>4 DEF WillAnswer
  <2> DEFINE r == RefTo(k.to, k.index, k.wec)
  <2>3. /\ MessageWeight(k, n, i) = RefWeight(r, n, i) + TermWeight(k.term, n, i)
        /\ TermWeight(k.term, n, i) \in Nat /\ k.wec \in Nat
    BY <2>1, <2>2, MessageParts
  <2>4. RefWeight(r, n, i) \in Nat
    BY <2>3 DEF RefWeight, RefTo
  <2>5. CASE k.type = "read"
    <3>1. k.term \in Given /\ k.term.wec = u
      BY <2>1, <2>5 DEF Carried
    <3>2. TermWeight(k.term, n, i) = u
      BY <1>4, <2>5, <3>1, WeightTypes DEF WillAnswer, RefWeight
    <3> QED BY <1>2, <2>1, <2>3, <2>4, <3>2
  <2>6. CASE k.type = "answer"
    <3>1. RefWeight(r, n, i) = u
      BY <1>1, <1>4, <2>6 DEF WillAnswer, RefWeight, RefTo, Full
    <3> QED BY <1>2, <2>1, <2>3, <3>1
  <2> QED BY <2>2, <2>5, <2>6
<1> HIDE DEF w
<1>5. w[m] \in Nat /\ w[m] >= u
  BY <1>3, <1>4
<1>6. Weight(b, w) <= w[m] /\ w[m] > 0
  BY <1>2, <1>3, <1>5
<1>7. b[m] = 1 /\ \A k \in BagToSet(b) : k # m => w[k] = 0
  BY <1>3, <1>6, SoleElement
<1>8. ASSUME NEW k \in BagToSet(b), WillAnswer(k, n, i) PROVE k = m
  BY <1>2, <1>4, <1>7, <1>8
<1>9. FlightWeight(b, n, i) >= u
  BY <1>2, <1>3, <1>5
<1> QED BY <1>7, <1>8, <1>9

LEMMA RepliesAre ==
  ASSUME RInv, NEW n \in Node, NEW i \in Index, NEW u \in Askers(n, i)
  PROVE  \/ \E p \in Places : \E h \in RepliesOn(Memory, p) :
              h.node = n /\ h.index = i /\ u = <<p, h>> /\ u[1] # Nowhere
         \/ \E m \in BagToSet(Memory.net) : WillAnswer(m, n, i) /\ u = <<Nowhere, m>>
<1>1. ASSUME NEW p \in Places, NEW h \in RepliesOn(Memory, p),
             h.node = n, h.index = i, u = <<p, h>>
      PROVE  u[1] # Nowhere
  BY <1>1, NowhereIs
<1> QED BY <1>1 DEF Askers, Sent, WillAnswer

LEMMA AskersSole ==
  ASSUME RInv, NEW n \in Node, NEW i \in Index,
         NEW u \in Askers(n, i), NEW v \in Askers(n, i)
  PROVE  u = v /\ Times(u) = 1
<1> DEFINE S == Memory
           OnPlace(x, p, h) == h.node = n /\ h.index = i /\ x = <<p, h>> /\ x[1] # Nowhere
           OnItsWay(x, m) == WillAnswer(m, n, i) /\ x = <<Nowhere, m>>
<1>1. Fit(S)
  BY DEF RInv, Calm
<1>2. /\ Total(Placed(S, n, i)) \in Nat /\ FlightWeight(S.net, n, i) \in Nat
      /\ Total(Placed(S, n, i)) + FlightWeight(S.net, n, i) <= EXPORT_UNIT_WEC
      /\ EXPORT_UNIT_WEC \in Nat \ {0}
  BY <1>1, UnitHasAll
<1>3. \A x \in Askers(n, i) :
        \/ \E p \in Places : \E h \in RepliesOn(S, p) : OnPlace(x, p, h)
        \/ \E m \in BagToSet(S.net) : OnItsWay(x, m)
  BY RepliesAre
<1>4. ASSUME NEW p \in Places, NEW h \in RepliesOn(S, p), OnPlace(u, p, h) PROVE u = v /\ Times(u) = 1
  <2>1. /\ Total(Placed(S, n, i)) >= EXPORT_UNIT_WEC
        /\ Content(S, p).hooks[h] = 1
        /\ \A q \in Places : \A g \in RepliesOn(S, q) :
             g.node = n /\ g.index = i => q = p /\ g = h
    BY <1>1, <1>4, SoleReply
  <2>2. ASSUME NEW m \in BagToSet(S.net), OnItsWay(v, m) PROVE FALSE
    <3>1. FlightWeight(S.net, n, i) >= EXPORT_UNIT_WEC
      BY <1>1, <2>2, SoleMessage
    <3> QED BY <1>2, <2>1, <3>1
  <2>3. u = v
    BY <1>3, <1>4, <2>1, <2>2
  <2>4. At(p).hooks[h] = 1
    BY <2>1, MemoryFields DEF At, Content
  <2> QED BY <1>4, <2>3, <2>4 DEF Times
<1>5. ASSUME NEW m \in BagToSet(S.net), OnItsWay(u, m) PROVE u = v /\ Times(u) = 1
  <2>1. /\ FlightWeight(S.net, n, i) >= EXPORT_UNIT_WEC
        /\ S.net[m] = 1
        /\ \A k \in BagToSet(S.net) : WillAnswer(k, n, i) => k = m
    BY <1>1, <1>5, SoleMessage
  <2>2. ASSUME NEW p \in Places, NEW h \in RepliesOn(S, p), OnPlace(v, p, h) PROVE FALSE
    <3>1. Total(Placed(S, n, i)) >= EXPORT_UNIT_WEC
      BY <1>1, <2>2, SoleReply
    <3> QED BY <1>2, <2>1, <3>1
  <2>3. u = v
    BY <1>3, <1>5, <2>1, <2>2
  <2> QED BY <1>5, <2>1, <2>3, MemoryFields DEF Times
<1> QED BY <1>3, <1>4, <1>5

LEMMA AskerMet ==
  ASSUME RInv, NEW k \in Asks(Memory)
  PROVE  \/ exp[k.node][k.index].data = Bound
         \/ \E w \in Waits(Memory) : AsksFor(Graph(Memory), k, w)
<1>1. Met(Memory, k) /\ Backs(Memory, k) /\ Memory \in Memories
  BY CalmMemory, AskBacks DEF RInv, Calm
<1> DEFINE t == exp[k.node][k.index].data
<1>2. t \in Slot \cup {Bound} /\ Spot(Memory, k) = SpotOf(k.node, t)
  BY <1>1, SpotIs, MemoryFields DEF Spot
<1>3. k.node \in Node /\ k.index \in Index
  BY <1>1 DEF Backs
<1>4. CASE Spot(Memory, k) = Nowhere
  <2>1. t \in Slot => <<k.node, t>> \in Places
    BY <1>3 DEF Places
  <2>2. t \notin Slot
    BY <1>2, <1>4, <2>1, NowhereIs DEF SpotOf
  <2> QED BY <1>2, <2>2
<1>5. CASE Spot(Memory, k) # Nowhere
  <2>1. PICK w \in Waits(Memory) : w.at = Spot(Memory, k) /\ w.ret = k.index
    BY <1>1, <1>5 DEF Met
  <2>2. w.at[1] = k.node /\ <<w.at, w.ret>> \in Open(Memory)
    BY <1>3, <1>5, <2>1, OpenIs, Zenon
  <2>3. AsksFor(Graph(Memory), k, w)
    BY <2>1, <2>2 DEF AsksFor, Graph
  <2> QED BY <2>1, <2>3
<1> QED BY <1>4, <1>5

(* A read is answered once, and the answer finds the variable with the     *)
(* hook that is released then, or a value: a read takes a whole unit of    *)
(* the entry its answer comes to from node to node, until nothing of it is *)
(* left to others.                                                         *)
THEOREM ReadAnsweredOnce == Spec => []AnsweredOnce
<1>1. RInv => AnsweredOnce
  <2> SUFFICES ASSUME RInv PROVE AnsweredOnce
    OBVIOUS
  <2>1. \A n \in Node, i \in Index : \A u, v \in Askers(n, i) : u = v /\ Times(u) = 1
    BY AskersSole
  <2>2. \A k \in Graph(Memory).asks : \/ exp[k.node][k.index].data = Bound
                                      \/ \E w \in Graph(Memory).waits : AsksFor(Graph(Memory), k, w)
    BY AskerMet DEF Graph
  <2> QED BY <2>1, <2>2 DEF AnsweredOnce
<1> QED BY <1>1, AlwaysCalm, PTL
=============================================================================
