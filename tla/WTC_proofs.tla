----------------------------- MODULE WTC_proofs -----------------------------
(***************************************************************************)
(* Proofs about WTC, for any set of nodes and any units that satisfy the   *)
(* assumptions.  First the lemmas that say what sending or receiving a     *)
(* message and changing one node's weight do to the total weight, counted  *)
(* as the number of elements of a set; then the inductive invariant.       *)
(***************************************************************************)
EXTENDS WTC, FiniteSetTheorems, TLAPS

(* A message posted to a bag: one more copy of it, nothing else changed.   *)
LEMMA BagPost ==
  ASSUME NEW b, IsABag(b), NEW m
  PROVE  /\ IsABag(b (+) SetToBag({m}))
         /\ DOMAIN (b (+) SetToBag({m})) = DOMAIN b \cup {m}
         /\ \A x \in DOMAIN b \cup {m} :
              (b (+) SetToBag({m}))[x] =
                 (IF x \in DOMAIN b THEN b[x] ELSE 0) + (IF x = m THEN 1 ELSE 0)
  BY DEF IsABag, SetToBag, (+)

(* A message taken from a bag it is in: one copy less of it. *)
LEMMA BagTake ==
  ASSUME NEW b, IsABag(b), NEW m \in DOMAIN b
  PROVE  /\ IsABag(b (-) SetToBag({m}))
         /\ DOMAIN (b (-) SetToBag({m})) \subseteq DOMAIN b
         /\ \A x \in DOMAIN b : x \in DOMAIN (b (-) SetToBag({m})) <=> x # m \/ b[x] > 1
         /\ \A x \in DOMAIN (b (-) SetToBag({m})) :
              (b (-) SetToBag({m}))[x] = b[x] - (IF x = m THEN 1 ELSE 0)
  BY DEF IsABag, SetToBag, (-)

(* A message taken out and put back leaves the bag as it was.              *)
LEMMA BagTakePost ==
  ASSUME NEW b, IsABag(b), NEW m \in DOMAIN b
  PROVE  b = (b (-) SetToBag({m})) (+) SetToBag({m})
<1> DEFINE r == b (-) SetToBag({m})
           a == r (+) SetToBag({m})
<1>1. /\ IsABag(r) /\ DOMAIN r \subseteq DOMAIN b
      /\ \A x \in DOMAIN b : x \in DOMAIN r <=> x # m \/ b[x] > 1
      /\ \A x \in DOMAIN r : r[x] = b[x] - (IF x = m THEN 1 ELSE 0)
  BY BagTake
<1> HIDE DEF r
<1>2. /\ IsABag(a) /\ DOMAIN a = DOMAIN r \cup {m}
      /\ \A x \in DOMAIN r \cup {m} :
           a[x] = (IF x \in DOMAIN r THEN r[x] ELSE 0) + (IF x = m THEN 1 ELSE 0)
  BY <1>1, BagPost
<1> HIDE DEF a
<1>3. DOMAIN a = DOMAIN b
  BY <1>1, <1>2
<1>4. ASSUME NEW x \in DOMAIN b PROVE a[x] = b[x]
  <2>1. b[x] \in Nat /\ b[x] > 0
    BY DEF IsABag
  <2>2. CASE x # m
    BY <1>1, <1>2, <2>1, <2>2
  <2>3. CASE x = m /\ b[x] > 1
    BY <1>1, <1>2, <2>1, <2>3
  <2>4. CASE x = m /\ b[x] = 1
    BY <1>1, <1>2, <2>1, <2>4
  <2> QED
    BY <2>1, <2>2, <2>3, <2>4
<1>5. a = [x \in DOMAIN a |-> a[x]] /\ b = [x \in DOMAIN b |-> b[x]]
  BY <1>2 DEF IsABag
<1> QED
  BY <1>3, <1>4, <1>5 DEF a, r
-----------------------------------------------------------------------------
(* {x} \X 1..k has k elements. *)
LEMMA Column ==
  ASSUME NEW x, NEW k \in Nat
  PROVE  IsFiniteSet({x} \X (1..k)) /\ Cardinality({x} \X (1..k)) = k
<1>1. IsFiniteSet({x}) /\ Cardinality({x}) = 1
  BY FS_Singleton
<1>2. IsFiniteSet(1..k) /\ Cardinality(1..k) = k
  BY FS_Interval
<1>3. /\ IsFiniteSet({x} \X (1..k))
      /\ Cardinality({x} \X (1..k)) = Cardinality({x}) * Cardinality(1..k)
  BY <1>1, <1>2, FS_Product
<1> QED
  BY <1>1, <1>2, <1>3

(* Adding a column to a set none of whose elements is in it. *)
LEMMA AddColumn ==
  ASSUME NEW S, IsFiniteSet(S), NEW x, NEW k \in Nat, \A t \in S : t[1] # x
  PROVE  /\ IsFiniteSet(S \cup ({x} \X (1..k)))
         /\ Cardinality(S \cup ({x} \X (1..k))) = Cardinality(S) + k
<1> DEFINE C == {x} \X (1..k)
<1>1. IsFiniteSet(C) /\ Cardinality(C) = k
  BY Column
<1>2. S \cap C = {}
  OBVIOUS
<1> HIDE DEF C
<1>3. Cardinality(S \cap C) = 0
  BY <1>2, FS_EmptySet
<1>4. Cardinality(S) \in Nat
  BY FS_CardinalityType
<1>5. /\ IsFiniteSet(S \cup C)
      /\ Cardinality(S \cup C) = Cardinality(S) + Cardinality(C) - Cardinality(S \cap C)
  BY <1>1, FS_Union, Zenon
<1>6. Cardinality(S \cup C) = Cardinality(S) + k
  BY <1>1, <1>3, <1>4, <1>5
<1> QED
  BY <1>5, <1>6 DEF C

(* Changing the weight of one node changes the total by as much. *)
LEMMA NodeUnitsUpdate ==
  ASSUME NEW w \in [Node -> Nat], IsFiniteSet(NodeUnits(w)), NEW n \in Node, NEW k \in Nat
  PROVE  /\ IsFiniteSet(NodeUnits([w EXCEPT ![n] = k]))
         /\ Cardinality(NodeUnits([w EXCEPT ![n] = k]))
              = Cardinality(NodeUnits(w)) - w[n] + k
         /\ Cardinality(NodeUnits(w)) \in Nat
<1> DEFINE R == UNION {{p} \X (1..w[p]) : p \in Node \ {n}}
           w2 == [w EXCEPT ![n] = k]
<1>1. NodeUnits(w) = R \cup ({n} \X (1..w[n]))
  BY DEF NodeUnits
<1>2. NodeUnits(w2) = R \cup ({n} \X (1..k))
  <2>1. \A p \in Node : w2[p] = IF p = n THEN k ELSE w[p]
    OBVIOUS
  <2> HIDE DEF w2
  <2> QED
    BY <2>1 DEF NodeUnits
<1>3. \A t \in R : t[1] # n
  OBVIOUS
<1>4. IsFiniteSet(R)
  BY <1>1, FS_Subset
<1>5. Cardinality(R) \in Nat /\ w[n] \in Nat
  BY <1>4, FS_CardinalityType
<1> HIDE DEF R, w2
<1>6. Cardinality(NodeUnits(w)) = Cardinality(R) + w[n]
  <2>1. Cardinality(R \cup ({n} \X (1..w[n]))) = Cardinality(R) + w[n]
    BY <1>3, <1>4, <1>5, AddColumn, Zenon
  <2> QED
    BY <1>1, <2>1
<1>7. IsFiniteSet(NodeUnits(w2)) /\ Cardinality(NodeUnits(w2)) = Cardinality(R) + k
  <2>1. /\ IsFiniteSet(R \cup ({n} \X (1..k)))
        /\ Cardinality(R \cup ({n} \X (1..k))) = Cardinality(R) + k
    BY <1>3, <1>4, AddColumn, Zenon
  <2> QED
    BY <1>2, <2>1
<1>8. Cardinality(NodeUnits(w2)) = Cardinality(NodeUnits(w)) - w[n] + k
  BY <1>5, <1>6, <1>7
<1> QED
  BY <1>5, <1>6, <1>7, <1>8 DEF w2

(* Posting a message adds its weight to the total. *)
LEMMA MessageUnitsPost ==
  ASSUME NEW b, IsABag(b), IsFiniteSet(MessageUnits(b)), NEW m \in Message
  PROVE  /\ IsFiniteSet(MessageUnits(b (+) SetToBag({m})))
         /\ Cardinality(MessageUnits(b (+) SetToBag({m}))) =
              Cardinality(MessageUnits(b)) + m.wtc
         /\ Cardinality(MessageUnits(b)) \in Nat
<1> DEFINE a == b (+) SetToBag({m})
           c == IF m \in DOMAIN b THEN b[m] ELSE 0
<1>1. /\ DOMAIN a = DOMAIN b \cup {m}
      /\ \A x \in DOMAIN b \cup {m} :
           a[x] = (IF x \in DOMAIN b THEN b[x] ELSE 0) + (IF x = m THEN 1 ELSE 0)
  BY BagPost
<1>2. \A x \in DOMAIN b : b[x] \in Nat /\ b[x] > 0
  BY DEF IsABag
<1> HIDE DEF a
<1>3. Copies(a) = Copies(b) \cup {<<m, c + 1>>}
  <2>1. \A x \in DOMAIN b \ {m} : x \in DOMAIN a /\ a[x] = b[x]
    BY <1>1, <1>2
  <2>2. a[m] = c + 1 /\ m \in DOMAIN a /\ c \in Nat
    BY <1>1, <1>2
  <2>3. 1..a[m] = (1..c) \cup {c + 1}
    BY <2>2
  <2>4. \A x, i : <<x, i>> \in Copies(a) <=> x \in DOMAIN a /\ i \in 1..a[x]
    BY DEF Copies
  <2>5. \A x, i : <<x, i>> \in Copies(b) <=> x \in DOMAIN b /\ i \in 1..b[x]
    BY DEF Copies
  <2>6. \A t \in Copies(a) \cup Copies(b) : t = <<t[1], t[2]>>
    BY DEF Copies
  <2>7. \A x, i : <<x, i>> \in Copies(a) <=>
                  <<x, i>> \in Copies(b) \/ (x = m /\ i = c + 1)
    <3> TAKE x, i
    <3>1. CASE x # m
      BY <2>1, <2>4, <2>5, <1>1, <3>1
    <3>2. CASE x = m
      BY <2>2, <2>3, <2>4, <2>5, <3>2
    <3> QED
      BY <3>1, <3>2
  <2> HIDE DEF c
  <2> QED
    BY <2>6, <2>7
<1>4. MessageUnits(a) = MessageUnits(b) \cup ({<<m, c + 1>>} \X (1..m.wtc))
  BY <1>3 DEF MessageUnits
<1>5. <<m, c + 1>> \notin Copies(b)
  BY <1>2 DEF Copies
<1>6. \A t \in MessageUnits(b) : t[1] # <<m, c + 1>>
  BY <1>5 DEF MessageUnits
<1>7. m.wtc \in Nat
  BY DEF Message
<1> HIDE DEF c
<1>8. /\ IsFiniteSet(MessageUnits(a))
      /\ Cardinality(MessageUnits(a)) = Cardinality(MessageUnits(b)) + m.wtc
  <2> DEFINE S == MessageUnits(b)
             x == <<m, c + 1>>
             k == m.wtc
  <2>1. IsFiniteSet(S) /\ (\A t \in S : t[1] # x) /\ k \in Nat
    BY <1>6, <1>7
  <2> HIDE DEF S, x, k
  <2>2. /\ IsFiniteSet(S \cup ({x} \X (1..k)))
        /\ Cardinality(S \cup ({x} \X (1..k))) = Cardinality(S) + k
    BY <2>1, AddColumn, Zenon
  <2> QED
    BY <1>4, <2>2 DEF S, x, k
<1> QED
  BY <1>8, FS_CardinalityType DEF a

(* Receiving one takes it away. *)
LEMMA MessageUnitsTake ==
  ASSUME NEW b, IsABag(b), IsFiniteSet(MessageUnits(b)), NEW m \in DOMAIN b,
         m \in Message
  PROVE  /\ IsFiniteSet(MessageUnits(b (-) SetToBag({m})))
         /\ Cardinality(MessageUnits(b (-) SetToBag({m}))) =
              Cardinality(MessageUnits(b)) - m.wtc
         /\ Cardinality(MessageUnits(b (-) SetToBag({m}))) \in Nat
<1> DEFINE r == b (-) SetToBag({m})
<1>1. /\ IsABag(r) /\ DOMAIN r \subseteq DOMAIN b
      /\ \A x \in DOMAIN r : r[x] = b[x] - (IF x = m THEN 1 ELSE 0)
  BY BagTake
<1>2. b = r (+) SetToBag({m})
  BY BagTakePost
<1> HIDE DEF r
<1>3. \A x \in DOMAIN b : b[x] \in Nat /\ b[x] > 0
  BY DEF IsABag
<1>4. Copies(r) \subseteq Copies(b)
  BY <1>1, <1>3 DEF Copies
<1>5. MessageUnits(r) \subseteq MessageUnits(b)
  BY <1>4 DEF MessageUnits
<1>6. IsFiniteSet(MessageUnits(r))
  BY <1>5, FS_Subset
<1>7. /\ Cardinality(MessageUnits(b)) = Cardinality(MessageUnits(r)) + m.wtc
      /\ Cardinality(MessageUnits(r)) \in Nat
  BY <1>1, <1>2, <1>6, MessageUnitsPost
<1>8. m.wtc \in Nat
  BY DEF Message
<1> QED
  BY <1>6, <1>7, <1>8 DEF r
-----------------------------------------------------------------------------
(* The two ways a step changes the network, and all that the invariant     *)
(* has to know of each.                                                    *)
GoodNet(b) == IsABag(b) /\ DOMAIN b \subseteq Message /\ IsFiniteSet(MessageUnits(b))
Weight(b) == Cardinality(MessageUnits(b))
CountIn(x, b) == IF x \in DOMAIN b THEN b[x] ELSE 0
One(x, m) == IF x = m THEN 1 ELSE 0

(* One copy and its weight more ... *)
LEMMA Posted ==
  ASSUME NEW b, GoodNet(b), NEW m \in Message
  PROVE  LET a == b (+) SetToBag({m})
         IN  /\ GoodNet(a)
             /\ DOMAIN a = DOMAIN b \cup {m}
             /\ \A x : CountIn(x, a) = CountIn(x, b) + One(x, m)
             /\ \A x : CountIn(x, b) \in Nat
             /\ Weight(b) \in Nat /\ Weight(a) = Weight(b) + m.wtc
<1> DEFINE a == b (+) SetToBag({m})
<1>1. /\ IsABag(a) /\ DOMAIN a = DOMAIN b \cup {m}
      /\ \A x \in DOMAIN b \cup {m} :
           a[x] = (IF x \in DOMAIN b THEN b[x] ELSE 0) + (IF x = m THEN 1 ELSE 0)
  BY BagPost DEF GoodNet
<1>2. /\ IsFiniteSet(MessageUnits(a))
      /\ Cardinality(MessageUnits(a)) = Cardinality(MessageUnits(b)) + m.wtc
      /\ Cardinality(MessageUnits(b)) \in Nat
  BY MessageUnitsPost DEF GoodNet
<1>3. \A x \in DOMAIN b : b[x] \in Nat /\ b[x] > 0
  BY DEF IsABag, GoodNet
<1> HIDE DEF a
<1>4. \A x : CountIn(x, a) = CountIn(x, b) + One(x, m) /\ CountIn(x, b) \in Nat
  BY <1>1, <1>3 DEF CountIn, One
<1> QED
  BY <1>1, <1>2, <1>4 DEF a, GoodNet, Weight

(* ... or one copy and its weight less. *)
LEMMA Taken ==
  ASSUME NEW b, GoodNet(b), NEW m \in DOMAIN b
  PROVE  LET a == b (-) SetToBag({m})
         IN  /\ GoodNet(a)
             /\ DOMAIN a \subseteq DOMAIN b
             /\ \A x : x # m /\ x \in DOMAIN b => x \in DOMAIN a
             /\ \A x : CountIn(x, a) = CountIn(x, b) - One(x, m)
             /\ \A x : CountIn(x, b) \in Nat /\ CountIn(x, a) \in Nat
             /\ Weight(b) \in Nat /\ Weight(a) = Weight(b) - m.wtc
<1> DEFINE a == b (-) SetToBag({m})
<1>1. /\ IsABag(a) /\ DOMAIN a \subseteq DOMAIN b
      /\ \A x \in DOMAIN b : x \in DOMAIN a <=> x # m \/ b[x] > 1
      /\ \A x \in DOMAIN a : a[x] = b[x] - (IF x = m THEN 1 ELSE 0)
  BY BagTake DEF GoodNet
<1>2. m \in Message
  BY DEF GoodNet
<1>3. /\ IsFiniteSet(MessageUnits(a))
      /\ Cardinality(MessageUnits(a)) = Cardinality(MessageUnits(b)) - m.wtc
      /\ Cardinality(MessageUnits(a)) \in Nat
  BY <1>2, MessageUnitsTake DEF GoodNet
<1>4. \A x \in DOMAIN b : b[x] \in Nat /\ b[x] > 0
  BY DEF IsABag, GoodNet
<1>5. Cardinality(MessageUnits(b)) \in Nat
  BY FS_CardinalityType DEF GoodNet
<1> HIDE DEF a
<1>6. ASSUME NEW x
      PROVE  /\ CountIn(x, a) = CountIn(x, b) - One(x, m)
             /\ CountIn(x, b) \in Nat /\ CountIn(x, a) \in Nat
  <2>1. CASE x = m
    BY <1>1, <1>4, <2>1 DEF CountIn, One
  <2>2. CASE x # m
    BY <1>1, <1>4, <2>2 DEF CountIn, One
  <2> QED
    BY <2>1, <2>2
<1> QED
  BY <1>1, <1>3, <1>5, <1>6 DEF a, GoodNet, Weight
-----------------------------------------------------------------------------
(* What the constants and the weight functions guarantee. *)
LEMMA Units ==
  /\ MIN_WTC = 2 /\ SUPPLY_WTC_UNIT \in Nat /\ SUPPLY_WTC_UNIT >= 4
  /\ RETURN_WTC_UNIT \in Nat /\ RETURN_WTC_UNIT >= 1 /\ NODE_WTC_LIMIT \in Nat
  /\ RETURN_WTC_UNIT + 2 <= NODE_WTC_LIMIT
  /\ \A k \in WorkKind : /\ WtcUnit[k] \in Nat /\ WtcUnit[k] >= 2
                         /\ WtcUnit[k] + 2 <= SUPPLY_WTC_UNIT
  /\ TRANSFER_CNT \in Nat /\ MaxSends \in Nat
  BY UnitAssumption, BoundAssumption DEF WorkKind, WtcUnit

(* get_wtc() gives MIN_WTC at least, and leaves the node as much. *)
LEMMA GetWtcKeepsReserve ==
  ASSUME NEW w \in Nat, NEW r \in Nat, GetWtc(w, r) # 0
  PROVE  GetWtc(w, r) \in Nat /\ GetWtc(w, r) >= 2 /\ w - GetWtc(w, r) >= 2
<1>1. Share(w, r) \in Int
  BY DEF Share
<1> QED
  BY <1>1, Units DEF GetWtc

(* get_full_wtc() gives what is asked for or nothing, and leaves MIN_WTC. *)
LEMMA GetFullWtcKeepsReserve ==
  ASSUME NEW w \in Nat, NEW r \in Nat, GetFullWtc(w, r) # 0
  PROVE  GetFullWtc(w, r) = r /\ w - r >= 2
  BY Units DEF GetFullWtc

(* add_node_wtc() leaves MIN_WTC to a node that has it, surplus or not. *)
LEMMA AfterAddHolds ==
  ASSUME NEW w \in Nat
  PROVE  /\ AfterAdd(w) \in Nat
         /\ w >= 2 => AfterAdd(w) >= 2
         /\ AfterAdd(w) = IF Surplus(w) THEN w - RETURN_WTC_UNIT ELSE w
  BY Units DEF AfterAdd, Surplus

(* What a goal sends is work for another node, of a size a supply covers. *)
LEMMA OutgoingMessage ==
  ASSUME NEW n \in Node, NEW m \in Outgoing(n)
  PROVE  /\ m \in Message /\ m.kind \in WorkKind
         /\ m.from = n /\ m.to \in Node
         /\ m.wtc >= 2 /\ m.wtc + 2 <= SUPPLY_WTC_UNIT
  BY Units DEF Outgoing, Message, Kind

-----------------------------------------------------------------------------
(* The inductive invariant: well-formed messages, a holder's reserve, one   *)
(* supply per request, and the conservation of weight, which is what makes *)
(* a shoen at zero mean that nobody holds any.                             *)
MessageOK(m) ==
  /\ m.wtc >= 1
  /\ m.kind \in WorkKind => m.from \in Node /\ m.to \in Node /\ m.wtc >= 2
  /\ m.kind = "request" => m.from \in Node /\ m = Request(m.from)
  /\ m.kind = "supply" => m.to \in Node /\ m = Supply(m.to)

MessagesOK == \A m \in InFlight : MessageOK(m)

SuspendedOK ==
  \A n \in Node : \A i \in 1..Len(susp_msg_list[n]) :
    LET m == susp_msg_list[n][i]
    IN  m.kind \in WorkKind /\ m.from \in Node /\ m.to \in Node /\ m.wtc >= 2

HolderOK(n) ==
  /\ active[n] => node_wtc[n] >= 2 \/ requesting_wtc[n]
  /\ requesting_wtc[n] => node_wtc[n] >= 1 /\ susp_msg_list[n] # <<>> /\ ~resuming[n]
  /\ resuming[n] => node_wtc[n] >= 2
  /\ ~resuming[n] /\ susp_msg_list[n] # <<>> => requesting_wtc[n]

HoldersOK == \A n \in Node : HolderOK(n)

SuppliesOK ==
  \A n \in Node : CountIn(Request(n), net) + CountIn(Supply(n), net)
                   = (IF requesting_wtc[n] THEN 1 ELSE 0)

DetectedOK == terminated => shoen_wtc = 0

IInv == /\ TypeOK
        /\ IsFiniteSet(NodeUnits(node_wtc)) /\ IsFiniteSet(MessageUnits(net))
        /\ WtcConserved
        /\ MessagesOK /\ SuspendedOK /\ HoldersOK /\ SuppliesOK /\ DetectedOK

(* The part that speaks of the network and of the weights. *)
NetInv == /\ GoodNet(net) /\ MessagesOK /\ SuppliesOK
          /\ IsFiniteSet(NodeUnits(node_wtc)) /\ WtcConserved

(* The part that speaks of the nodes only. *)
LocalInv == /\ active \in [Node -> BOOLEAN] /\ node_wtc \in [Node -> Nat]
            /\ requesting_wtc \in [Node -> BOOLEAN] /\ resuming \in [Node -> BOOLEAN]
            /\ susp_msg_list \in [Node -> Seq(Message)]
            /\ shoen_wtc \in Int /\ terminated \in BOOLEAN /\ sends \in 0..MaxSends
            /\ SuspendedOK /\ HoldersOK /\ DetectedOK

(* The two parts together are the invariant, before and after a step. *)
LEMMA IInvParts == /\ IInv <=> NetInv /\ LocalInv
                   /\ IInv' <=> NetInv' /\ LocalInv'
  BY DEF IInv, NetInv, LocalInv, TypeOK, GoodNet, InFlight, BagToSet

(* At the start the master has the one supply the shoen owes. *)
LEMMA InitInv == Init => IInv
<1> SUFFICES ASSUME Init PROVE IInv
  OBVIOUS
<1> USE DEF Init
<1>1. LocalInv
  <2>1. \A n \in Node : susp_msg_list[n] = <<>> /\ Len(susp_msg_list[n]) = 0
    OBVIOUS
  <2>2. SuspendedOK /\ HoldersOK /\ DetectedOK
    <3>1. SuspendedOK
      BY <2>1 DEF SuspendedOK
    <3>2. ASSUME NEW n \in Node PROVE HolderOK(n)
      <4>1. active[n] => node_wtc[n] = SUPPLY_WTC_UNIT
        OBVIOUS
      <4>2. ~requesting_wtc[n] /\ ~resuming[n]
        OBVIOUS
      <4> QED
        BY <2>1, <4>1, <4>2, Units DEF HolderOK
    <3> QED
      BY <3>1, <3>2 DEF HoldersOK, DetectedOK
  <2>3. susp_msg_list \in [Node -> Seq(Message)]
    OBVIOUS
  <2>4. node_wtc \in [Node -> Nat] /\ shoen_wtc \in Int /\ sends \in 0..MaxSends
    BY Units
  <2> QED
    BY <2>2, <2>3, <2>4 DEF LocalInv
<1>2. net = EmptyBag /\ DOMAIN net = {} /\ IsABag(net)
  BY DEF EmptyBag, SetToBag, IsABag
<1>3. MessageUnits(net) = {}
  BY <1>2 DEF MessageUnits, Copies
<1>4. GoodNet(net) /\ Cardinality(MessageUnits(net)) = 0
  BY <1>2, <1>3, FS_EmptySet DEF GoodNet
<1>5. NodeUnits(node_wtc) = {Master} \X (1..SUPPLY_WTC_UNIT)
  <2>1. \A n \in Node : n # Master => {n} \X (1..node_wtc[n]) = {}
    OBVIOUS
  <2>2. {Master} \X (1..node_wtc[Master]) = {Master} \X (1..SUPPLY_WTC_UNIT)
    BY NodeAssumption
  <2> QED
    BY <2>1, <2>2, NodeAssumption DEF NodeUnits
<1>6. /\ IsFiniteSet(NodeUnits(node_wtc))
      /\ Cardinality(NodeUnits(node_wtc)) = SUPPLY_WTC_UNIT
  <2>1. /\ IsFiniteSet({Master} \X (1..SUPPLY_WTC_UNIT))
        /\ Cardinality({Master} \X (1..SUPPLY_WTC_UNIT)) = SUPPLY_WTC_UNIT
    BY Units, Column, Zenon
  <2> QED
    BY <1>5, <2>1
<1>7. WtcConserved
  BY <1>4, <1>6, Units DEF WtcConserved
<1>8. MessagesOK /\ SuppliesOK
  BY <1>2 DEF MessagesOK, SuppliesOK, InFlight, BagToSet, CountIn
<1> QED
  BY <1>1, <1>4, <1>6, <1>7, <1>8, IInvParts DEF NetInv
-----------------------------------------------------------------------------
(* Every action preserves it: first the part about the nodes, then the     *)
(* part about the network.                                                 *)

(* Two facts every action but the shoen's uses.  A message that is neither *)
(* a request nor a supply leaves the balance of supplies as it is ...      *)
LEMMA SuppliesUnchanged ==
  ASSUME SuppliesOK, requesting_wtc' = requesting_wtc,
         \A n \in Node : /\ CountIn(Request(n), net') = CountIn(Request(n), net)
                         /\ CountIn(Supply(n), net') = CountIn(Supply(n), net)
  PROVE  SuppliesOK'
  BY DEF SuppliesOK, Request, Supply

(* ... and giving a node another weight changes the sum by as much. *)
LEMMA Reweighed ==
  ASSUME NetInv, LocalInv, NEW n \in Node, node_wtc' \in [Node -> Nat],
         \A x \in Node \ {n} : node_wtc'[x] = node_wtc[x]
  PROVE  /\ IsFiniteSet(NodeUnits(node_wtc'))
         /\ Cardinality(NodeUnits(node_wtc'))
              = Cardinality(NodeUnits(node_wtc)) - node_wtc[n] + node_wtc'[n]
         /\ Cardinality(NodeUnits(node_wtc)) \in Nat
         /\ node_wtc[n] \in Nat
<1> DEFINE k == node_wtc'[n]
<1>1. node_wtc \in [Node -> Nat] /\ IsFiniteSet(NodeUnits(node_wtc)) /\ k \in Nat
  BY DEF NetInv, LocalInv
<1>2. node_wtc' = [node_wtc EXCEPT ![n] = k]
  BY <1>1
<1> HIDE DEF k
<1>3. /\ IsFiniteSet(NodeUnits(node_wtc'))
      /\ Cardinality(NodeUnits(node_wtc'))
           = Cardinality(NodeUnits(node_wtc)) - node_wtc[n] + k
      /\ Cardinality(NodeUnits(node_wtc)) \in Nat
  BY <1>1, <1>2, NodeUnitsUpdate, ZenonT(60)
<1> QED
  BY <1>1, <1>3 DEF k

(* send_message(): some of the node's weight goes with the message. *)
LEMMA SendMessageInv ==
  ASSUME IInv, NEW n \in Node, NEW m \in Outgoing(n), SendMessage(n, m)
  PROVE  IInv'
<1> DEFINE g == GetWtc(node_wtc[n], m.wtc)
           p == [m EXCEPT !.wtc = g]
<1> USE IInvParts
<1>1. /\ m \in Message /\ m.kind \in WorkKind /\ m.wtc >= 2 /\ m.wtc \in Nat
      /\ m.from \in Node /\ m.to \in Node
  BY OutgoingMessage DEF Message
<1>2. node_wtc[n] \in Nat /\ shoen_wtc \in Int
  BY DEF LocalInv
<1>3. g \in Nat /\ g >= 2 /\ node_wtc[n] - g >= 2
  BY <1>1, <1>2, GetWtcKeepsReserve DEF SendMessage
<1>4. /\ p \in Message /\ p.kind = m.kind /\ p.wtc = g
      /\ p.from = m.from /\ p.to = m.to
  BY <1>1, <1>3 DEF Message
<1>5. /\ node_wtc' = [node_wtc EXCEPT ![n] = node_wtc[n] - g]
      /\ net' = net (+) SetToBag({p})
      /\ sends < MaxSends /\ sends' = sends + 1
      /\ UNCHANGED <<active, requesting_wtc, susp_msg_list, resuming, shoen_wtc, terminated>>
  BY DEF SendMessage, Emit, Sent
<1> HIDE DEF g, p
<1>6. LocalInv'
  BY <1>2, <1>3, <1>5, Units DEF LocalInv, SuspendedOK, HoldersOK, HolderOK, DetectedOK
<1>7. /\ GoodNet(net') /\ DOMAIN net' = DOMAIN net \cup {p}
      /\ \A x : CountIn(x, net') = CountIn(x, net) + One(x, p)
      /\ \A x : CountIn(x, net) \in Nat
      /\ Weight(net) \in Nat /\ Weight(net') = Weight(net) + g
  BY <1>4, <1>5, Posted DEF NetInv
<1>8. /\ IsFiniteSet(NodeUnits(node_wtc'))
      /\ Cardinality(NodeUnits(node_wtc')) = Cardinality(NodeUnits(node_wtc)) - g
      /\ Cardinality(NodeUnits(node_wtc)) \in Nat
  <2>1. /\ node_wtc' \in [Node -> Nat] /\ node_wtc'[n] = node_wtc[n] - g
        /\ \A x \in Node \ {n} : node_wtc'[x] = node_wtc[x]
    BY <1>5, <1>6 DEF LocalInv
  <2>2. NetInv /\ LocalInv
    OBVIOUS
  <2>3. /\ IsFiniteSet(NodeUnits(node_wtc'))
        /\ Cardinality(NodeUnits(node_wtc'))
             = Cardinality(NodeUnits(node_wtc)) - node_wtc[n] + node_wtc'[n]
        /\ Cardinality(NodeUnits(node_wtc)) \in Nat
    BY <2>1, <2>2, Reweighed, Zenon
  <2> QED
    BY <1>2, <1>3, <2>1, <2>3
<1>9. WtcConserved'
  BY <1>2, <1>3, <1>5, <1>7, <1>8 DEF NetInv, WtcConserved, Weight
<1>10. MessagesOK'
  BY <1>1, <1>3, <1>4, <1>7 DEF NetInv, MessagesOK, MessageOK, InFlight, BagToSet, WorkKind
<1>11. SuppliesOK'
  <2>1. \A x \in Node : p # Request(x) /\ p # Supply(x)
    BY <1>1, <1>4 DEF Request, Supply, WorkKind
  <2> QED
    BY <1>5, <1>7, <2>1, SuppliesUnchanged DEF NetInv, One
<1> QED
  BY <1>6, <1>7, <1>8, <1>9, <1>10, <1>11 DEF NetInv

(* message_suspend() pushes on susp_msg_list. *)
LEMMA Pushed ==
  ASSUME NEW s \in Seq(Message), NEW m \in Message
  PROVE  /\ <<m>> \o s \in Seq(Message) /\ <<m>> \o s # <<>>
         /\ Len(<<m>> \o s) = Len(s) + 1
         /\ \A i \in 1..Len(s) + 1 :
              (<<m>> \o s)[i] = IF i = 1 THEN m ELSE s[i - 1]
  OBVIOUS

(* message_resume() takes the head. *)
LEMMA Popped ==
  ASSUME NEW s \in Seq(Message), s # <<>>
  PROVE  /\ Tail(s) \in Seq(Message) /\ Head(s) \in Message
         /\ Len(Tail(s)) = Len(s) - 1 /\ Len(s) >= 1
         /\ Head(s) = s[1]
         /\ \A i \in 1..Len(Tail(s)) : Tail(s)[i] = s[i + 1]
  OBVIOUS

(* send_request_wtc(): one unit moves from the node to the request. *)
LEMMA RequestWtcNet ==
  ASSUME NetInv, LocalInv, NEW n \in Node, ~requesting_wtc[n], RequestWtc(n),
         shoen_wtc' = shoen_wtc
  PROVE  NetInv'
<1> DEFINE p == Request(n)
<1>1. /\ node_wtc[n] \in Nat /\ node_wtc[n] - 1 \in Nat /\ shoen_wtc \in Int
      /\ node_wtc' = [node_wtc EXCEPT ![n] = node_wtc[n] - 1]
      /\ requesting_wtc' = [requesting_wtc EXCEPT ![n] = TRUE]
      /\ net' = net (+) SetToBag({p})
      /\ requesting_wtc \in [Node -> BOOLEAN]
  BY DEF LocalInv, RequestWtc, Sent
<1>2. p \in Message /\ p.wtc = 1 /\ p.kind = "request" /\ p.from = n
  BY DEF Request, Message, Kind
<1>3. \A x \in Node : Request(x) = p <=> x = n
  BY DEF Request
<1>4. \A x \in Node : Supply(x) # p
  BY DEF Request, Supply
<1> HIDE DEF p
<1>5. /\ GoodNet(net') /\ DOMAIN net' = DOMAIN net \cup {p}
      /\ \A x : CountIn(x, net') = CountIn(x, net) + One(x, p)
      /\ \A x : CountIn(x, net) \in Nat
      /\ Weight(net) \in Nat /\ Weight(net') = Weight(net) + 1
  BY <1>1, <1>2, Posted DEF NetInv
<1>6. /\ IsFiniteSet(NodeUnits(node_wtc'))
      /\ Cardinality(NodeUnits(node_wtc')) = Cardinality(NodeUnits(node_wtc)) - 1
      /\ Cardinality(NodeUnits(node_wtc)) \in Nat
  <2>1. /\ node_wtc' \in [Node -> Nat] /\ node_wtc'[n] = node_wtc[n] - 1
        /\ \A x \in Node \ {n} : node_wtc'[x] = node_wtc[x]
    BY <1>1 DEF LocalInv
  <2>2. /\ IsFiniteSet(NodeUnits(node_wtc'))
        /\ Cardinality(NodeUnits(node_wtc'))
             = Cardinality(NodeUnits(node_wtc)) - node_wtc[n] + node_wtc'[n]
        /\ Cardinality(NodeUnits(node_wtc)) \in Nat
    BY <2>1, Reweighed, Zenon
  <2> QED
    BY <1>1, <2>1, <2>2
<1>7. WtcConserved'
  BY <1>1, <1>5, <1>6 DEF NetInv, WtcConserved, Weight
<1>8. MessagesOK'
  BY <1>2, <1>5 DEF p, NetInv, MessagesOK, MessageOK, InFlight, BagToSet, WorkKind, Request, Supply
<1>9. SuppliesOK'
  <2> SUFFICES ASSUME NEW x \in Node
               PROVE  CountIn(Request(x), net') + CountIn(Supply(x), net')
                        = (IF requesting_wtc'[x] THEN 1 ELSE 0)
    BY DEF SuppliesOK, Request, Supply
  <2>1. /\ CountIn(Request(x), net') = CountIn(Request(x), net) + (IF x = n THEN 1 ELSE 0)
        /\ CountIn(Supply(x), net') = CountIn(Supply(x), net)
    BY <1>3, <1>4, <1>5 DEF One
  <2>2. CountIn(Request(x), net) + CountIn(Supply(x), net)
          = (IF requesting_wtc[x] THEN 1 ELSE 0)
    BY DEF NetInv, SuppliesOK
  <2>3. CASE x = n
    BY <1>1, <1>5, <2>1, <2>2, <2>3
  <2>4. CASE x # n
    BY <1>1, <1>5, <2>1, <2>2, <2>4
  <2> QED
    BY <2>3, <2>4
<1> QED
  BY <1>5, <1>6, <1>7, <1>8, <1>9 DEF NetInv

(* message_suspend(): a request goes out unless one has already. *)
LEMMA SuspendMessageInv ==
  ASSUME IInv, NEW n \in Node, NEW m \in Outgoing(n), SuspendMessage(n, m)
  PROVE  IInv'
<1> USE IInvParts
<1>1. /\ m \in Message /\ m.kind \in WorkKind /\ m.wtc >= 2
      /\ m.from \in Node /\ m.to \in Node
  BY OutgoingMessage
<1>2. /\ susp_msg_list' = [susp_msg_list EXCEPT ![n] = <<m>> \o susp_msg_list[n]]
      /\ sends < MaxSends /\ sends' = sends + 1 /\ ~resuming[n]
      /\ UNCHANGED <<active, resuming, shoen_wtc, terminated>>
  BY DEF SuspendMessage, Emit
<1>3. /\ susp_msg_list[n] \in Seq(Message)
      /\ susp_msg_list \in [Node -> Seq(Message)]
  BY DEF LocalInv
<1>4. /\ susp_msg_list' \in [Node -> Seq(Message)] /\ susp_msg_list'[n] # <<>>
      /\ Len(susp_msg_list'[n]) = Len(susp_msg_list[n]) + 1
      /\ \A i \in 1..Len(susp_msg_list[n]) + 1 :
           susp_msg_list'[n][i] = IF i = 1 THEN m ELSE susp_msg_list[n][i - 1]
      /\ \A x \in Node \ {n} : susp_msg_list'[x] = susp_msg_list[x]
  BY <1>1, <1>2, <1>3, Pushed
<1>5. SuspendedOK'
  <2> SUFFICES ASSUME NEW x \in Node, NEW i \in 1..Len(susp_msg_list'[x])
               PROVE  LET y == susp_msg_list'[x][i]
                      IN  y.kind \in WorkKind /\ y.from \in Node /\ y.to \in Node /\ y.wtc >= 2
    BY DEF SuspendedOK
  <2>1. CASE x # n
    BY <1>4, <2>1 DEF LocalInv, SuspendedOK
  <2>2. CASE x = n /\ i = 1
    BY <1>1, <1>4, <2>2
  <2>3. CASE x = n /\ i # 1
    <3>1. i - 1 \in 1..Len(susp_msg_list[n]) /\ i \in 1..Len(susp_msg_list[n]) + 1
      BY <1>3, <1>4, <2>3
    <3> QED
      BY <1>4, <2>3, <3>1 DEF LocalInv, SuspendedOK
  <2> QED
    BY <2>1, <2>2, <2>3
<1>6. sends' \in 0..MaxSends
  BY <1>2, Units DEF LocalInv
<1>7. CASE requesting_wtc[n] /\ UNCHANGED <<node_wtc, requesting_wtc, net>>
  <2>1. HoldersOK'
    BY <1>2, <1>4, <1>7 DEF LocalInv, HoldersOK, HolderOK
  <2>2. LocalInv'
    BY <1>2, <1>4, <1>5, <1>6, <1>7, <2>1 DEF LocalInv, DetectedOK
  <2>3. NetInv'
    BY <1>2, <1>7 DEF NetInv, GoodNet, MessagesOK, MessageOK, InFlight, SuppliesOK, WtcConserved,
                      Request, Supply
  <2> QED
    BY <2>2, <2>3
<1>8. CASE ~requesting_wtc[n] /\ RequestWtc(n)
  <2>1. NetInv'
    BY <1>2, <1>8, RequestWtcNet
  <2>2. /\ node_wtc' = [node_wtc EXCEPT ![n] = node_wtc[n] - 1]
        /\ requesting_wtc' = [requesting_wtc EXCEPT ![n] = TRUE]
        /\ node_wtc[n] - 1 >= 1 /\ node_wtc[n] \in Nat
    BY <1>8 DEF RequestWtc, LocalInv
  <2>3. HoldersOK'
    BY <1>2, <1>4, <2>2 DEF LocalInv, HoldersOK, HolderOK
  <2>4. LocalInv'
    BY <1>2, <1>4, <1>5, <1>6, <2>2, <2>3 DEF LocalInv, DetectedOK
  <2> QED
    BY <2>1, <2>4
<1> QED
  BY <1>7, <1>8 DEF SuspendMessage

(* Becoming idle touches no weight. *)
LEMMA BecomeIdleInv ==
  ASSUME IInv, NEW n \in Node, BecomeIdle(n)
  PROVE  IInv'
<1> USE IInvParts
<1>1. /\ active' = [active EXCEPT ![n] = FALSE]
      /\ UNCHANGED <<node_wtc, requesting_wtc, susp_msg_list, resuming, shoen_wtc, net,
                     terminated, sends>>
  BY DEF BecomeIdle
<1>2. LocalInv'
  BY <1>1 DEF LocalInv, SuspendedOK, HoldersOK, HolderOK, DetectedOK
<1>3. NetInv'
  BY <1>1 DEF NetInv, GoodNet, MessagesOK, MessageOK, InFlight, SuppliesOK, WtcConserved,
              Request, Supply
<1> QED
  BY <1>2, <1>3

(* topsucceed(): all of an idle node's weight moves into one return message. *)
LEMMA ReturnAllWtcInv ==
  ASSUME IInv, NEW n \in Node, ReturnAllWtc(n)
  PROVE  IInv'
<1> DEFINE p == Return(n, node_wtc[n])
<1> USE IInvParts
<1>1. /\ node_wtc[n] \in Nat /\ node_wtc[n] # 0 /\ shoen_wtc \in Int
      /\ ~active[n] /\ ~resuming[n] /\ susp_msg_list[n] = <<>>
      /\ node_wtc' = [node_wtc EXCEPT ![n] = 0]
      /\ net' = net (+) SetToBag({p})
      /\ UNCHANGED <<active, requesting_wtc, susp_msg_list, resuming, shoen_wtc,
                     terminated, sends>>
  BY DEF LocalInv, ReturnAllWtc, Sent
<1>2. p \in Message /\ p.wtc = node_wtc[n] /\ p.kind = "return"
  BY <1>1 DEF Return, Message, Kind
<1> HIDE DEF p
<1>3. LocalInv'
  BY <1>1 DEF LocalInv, SuspendedOK, HoldersOK, HolderOK, DetectedOK
<1>4. /\ GoodNet(net') /\ DOMAIN net' = DOMAIN net \cup {p}
      /\ \A x : CountIn(x, net') = CountIn(x, net) + One(x, p)
      /\ \A x : CountIn(x, net) \in Nat
      /\ Weight(net) \in Nat /\ Weight(net') = Weight(net) + node_wtc[n]
  BY <1>1, <1>2, Posted DEF NetInv
<1>5. /\ IsFiniteSet(NodeUnits(node_wtc'))
      /\ Cardinality(NodeUnits(node_wtc')) = Cardinality(NodeUnits(node_wtc)) - node_wtc[n]
      /\ Cardinality(NodeUnits(node_wtc)) \in Nat
  <2>1. /\ node_wtc' \in [Node -> Nat] /\ node_wtc'[n] = 0
        /\ \A x \in Node \ {n} : node_wtc'[x] = node_wtc[x]
    BY <1>1, <1>3 DEF LocalInv
  <2>2. NetInv /\ LocalInv
    OBVIOUS
  <2>3. /\ IsFiniteSet(NodeUnits(node_wtc'))
        /\ Cardinality(NodeUnits(node_wtc'))
             = Cardinality(NodeUnits(node_wtc)) - node_wtc[n] + node_wtc'[n]
        /\ Cardinality(NodeUnits(node_wtc)) \in Nat
    BY <2>1, <2>2, Reweighed, Zenon
  <2> QED
    BY <1>1, <2>1, <2>3
<1>6. WtcConserved'
  BY <1>1, <1>4, <1>5 DEF NetInv, WtcConserved, Weight
<1>7. MessagesOK'
  BY <1>1, <1>2, <1>4 DEF NetInv, MessagesOK, MessageOK, InFlight, BagToSet, WorkKind,
                          Request, Supply
<1>8. SuppliesOK'
  <2>1. \A x \in Node : p # Request(x) /\ p # Supply(x)
    BY <1>2 DEF Request, Supply
  <2> QED
    <3>1. \A x \in Node : /\ CountIn(Request(x), net') = CountIn(Request(x), net)
                         /\ CountIn(Supply(x), net') = CountIn(Supply(x), net)
      BY <1>4, <2>1 DEF One
    <3> QED
      BY <1>1, <3>1, SuppliesUnchanged DEF NetInv
<1> QED
  BY <1>3, <1>4, <1>5, <1>6, <1>7, <1>8 DEF NetInv

(* add_node_wtc() with the message it takes the weight from: the sum stays, *)
(* the message is gone, and at most a return message is new.               *)
LEMMA AddNodeWtcNet ==
  ASSUME NetInv, LocalInv, NEW n \in Node, NEW m \in InFlight, AddNodeWtc(n, m),
         shoen_wtc' = shoen_wtc
  PROVE  /\ GoodNet(net') /\ IsFiniteSet(NodeUnits(node_wtc')) /\ WtcConserved'
         /\ MessagesOK'
         /\ node_wtc' \in [Node -> Nat]
         /\ \A x \in Node \ {n} : node_wtc'[x] = node_wtc[x]
         /\ node_wtc[n] + m.wtc >= 2 => node_wtc'[n] >= 2
         /\ \A x \in Node :
              /\ CountIn(Request(x), net') = CountIn(Request(x), net) - One(Request(x), m)
              /\ CountIn(Supply(x), net') = CountIn(Supply(x), net) - One(Supply(x), m)
<1> DEFINE w == node_wtc[n] + m.wtc
           p == Return(n, RETURN_WTC_UNIT)
<1>1. m \in DOMAIN net /\ m \in Message /\ m.wtc \in Nat /\ GoodNet(net)
  BY DEF NetInv, GoodNet, InFlight, BagToSet, Message
<1>2. node_wtc[n] \in Nat /\ w \in Nat /\ shoen_wtc \in Int
  BY <1>1 DEF LocalInv
<1>3. /\ AfterAdd(w) \in Nat
      /\ w >= 2 => AfterAdd(w) >= 2
      /\ AfterAdd(w) = IF Surplus(w) THEN w - RETURN_WTC_UNIT ELSE w
  BY <1>2, AfterAddHolds
<1>4. /\ node_wtc' = [node_wtc EXCEPT ![n] = AfterAdd(w)]
      /\ net' = IF Surplus(w) THEN (net (-) SetToBag({m})) (+) SetToBag({p})
                ELSE net (-) SetToBag({m})
  BY DEF AddNodeWtc, Received
<1>5. /\ p \in Message /\ p.wtc = RETURN_WTC_UNIT /\ p.kind = "return"
      /\ RETURN_WTC_UNIT \in Nat /\ RETURN_WTC_UNIT >= 1
  BY Units DEF Return, Message, Kind
<1>6. \A x \in Node : p # Request(x) /\ p # Supply(x)
  BY <1>5 DEF Request, Supply
<1> HIDE DEF p, w
<1>7. /\ GoodNet(net') /\ DOMAIN net' \subseteq DOMAIN net \cup {p}
      /\ Weight(net) \in Nat
      /\ Weight(net') + AfterAdd(w) = Weight(net) - m.wtc + w
      /\ Weight(net') \in Int
      /\ \A x \in Node :
           /\ CountIn(Request(x), net') = CountIn(Request(x), net) - One(Request(x), m)
           /\ CountIn(Supply(x), net') = CountIn(Supply(x), net) - One(Supply(x), m)
  <2>1. CASE Surplus(w)
    <3>1. /\ GoodNet(net') /\ DOMAIN net' \subseteq DOMAIN net \cup {p}
          /\ \A x : CountIn(x, net') = CountIn(x, net) - One(x, m) + One(x, p)
          /\ \A x : CountIn(x, net) \in Nat
          /\ Weight(net) \in Nat /\ Weight(net') = Weight(net) - m.wtc + p.wtc
      <4> DEFINE r == net (-) SetToBag({m})
                 a == r (+) SetToBag({p})
      <4>1. /\ GoodNet(r) /\ DOMAIN r \subseteq DOMAIN net
            /\ \A x : CountIn(x, r) = CountIn(x, net) - One(x, m)
            /\ \A x : CountIn(x, net) \in Nat
            /\ Weight(net) \in Nat /\ Weight(r) = Weight(net) - m.wtc
        BY <1>1, Taken
      <4>2. net' = a
        BY <1>4, <2>1
      <4> HIDE DEF r
      <4>3. /\ GoodNet(a) /\ DOMAIN a = DOMAIN r \cup {p}
            /\ \A x : CountIn(x, a) = CountIn(x, r) + One(x, p)
            /\ Weight(a) = Weight(r) + p.wtc
        BY <1>5, <4>1, Posted
      <4> HIDE DEF a
      <4> QED
        BY <4>1, <4>2, <4>3
    <3>2. \A x \in Node : One(Request(x), p) = 0 /\ One(Supply(x), p) = 0
      BY <1>6 DEF One
    <3>3. \A x : One(x, m) \in Nat
      BY DEF One
    <3>4. AfterAdd(w) = w - RETURN_WTC_UNIT /\ w \in Nat
      BY <1>2, <1>3, <2>1 DEF w
    <3>5. \A x \in Node :
           /\ CountIn(Request(x), net') = CountIn(Request(x), net) - One(Request(x), m)
           /\ CountIn(Supply(x), net') = CountIn(Supply(x), net) - One(Supply(x), m)
      BY <3>1, <3>2, <3>3
    <3>6. Weight(net') + AfterAdd(w) = Weight(net) - m.wtc + w /\ Weight(net') \in Int
      BY <1>1, <1>5, <3>1, <3>4
    <3> QED
      BY <3>1, <3>5, <3>6
  <2>2. CASE ~Surplus(w)
    <3>1. /\ GoodNet(net') /\ DOMAIN net' \subseteq DOMAIN net
          /\ \A x : CountIn(x, net') = CountIn(x, net) - One(x, m)
          /\ Weight(net) \in Nat /\ Weight(net') = Weight(net) - m.wtc
      BY <1>1, <1>4, <2>2, Taken
    <3>2. AfterAdd(w) = w /\ w \in Nat
      BY <1>2, <1>3, <2>2 DEF w
    <3> QED
      BY <1>1, <3>1, <3>2
  <2> QED
    BY <2>1, <2>2
<1>8. /\ node_wtc' \in [Node -> Nat] /\ node_wtc'[n] = AfterAdd(w)
      /\ \A x \in Node \ {n} : node_wtc'[x] = node_wtc[x]
  <2>1. /\ node_wtc' = [node_wtc EXCEPT ![n] = AfterAdd(w)] /\ AfterAdd(w) \in Nat
        /\ node_wtc \in [Node -> Nat]
    BY <1>3, <1>4, Zenon DEF LocalInv
  <2> QED
    BY <2>1
<1>9. /\ IsFiniteSet(NodeUnits(node_wtc'))
      /\ Cardinality(NodeUnits(node_wtc'))
           = Cardinality(NodeUnits(node_wtc)) - node_wtc[n] + node_wtc'[n]
      /\ Cardinality(NodeUnits(node_wtc)) \in Nat
  BY <1>8, Reweighed, Zenon
<1>10. WtcConserved'
  <2>1. Weight(net') + node_wtc'[n] = Weight(net) + node_wtc[n]
    BY <1>1, <1>2, <1>3, <1>7, <1>8 DEF w
  <2> QED
    <3>1. /\ shoen_wtc + Cardinality(NodeUnits(node_wtc)) + Weight(net) = 0
          /\ Weight(net) \in Nat /\ Weight(net') \in Int /\ node_wtc'[n] \in Nat
      BY <1>7, <1>8 DEF NetInv, WtcConserved, Weight
    <3>2. shoen_wtc' + Cardinality(NodeUnits(node_wtc')) + Weight(net') = 0
      BY <1>2, <1>9, <2>1, <3>1
    <3> QED
      BY <3>2 DEF WtcConserved, Weight
<1>11. MessagesOK'
  BY <1>5, <1>7 DEF NetInv, MessagesOK, MessageOK, InFlight, BagToSet, WorkKind,
                    Request, Supply
<1>12. node_wtc[n] + m.wtc >= 2 => node_wtc'[n] >= 2
  BY <1>3, <1>8 DEF w
<1> QED
  BY <1>7, <1>8, <1>9, <1>10, <1>11, <1>12

(* Receiving work: the message's weight makes its receiver a holder. *)
LEMMA ReceiveWorkInv ==
  ASSUME IInv, NEW n \in Node, NEW m \in InFlight, ReceiveWork(n, m)
  PROVE  IInv'
<1> USE IInvParts
<1>1. /\ m.kind \in WorkKind /\ m.wtc >= 2 /\ m.wtc \in Nat
  BY DEF ReceiveWork, NetInv, MessagesOK, MessageOK, GoodNet, InFlight, BagToSet, Message
<1>2. /\ AddNodeWtc(n, m) /\ ~resuming[n]
      /\ active' \in {active, [active EXCEPT ![n] = TRUE]}
      /\ UNCHANGED <<requesting_wtc, susp_msg_list, resuming, shoen_wtc, terminated, sends>>
  BY DEF ReceiveWork
<1>3. \A x \in Node : m # Request(x) /\ m # Supply(x)
  BY <1>1 DEF Request, Supply, WorkKind
<1>4. NetInv /\ LocalInv /\ shoen_wtc' = shoen_wtc
  BY <1>2
<1>5. /\ GoodNet(net') /\ IsFiniteSet(NodeUnits(node_wtc')) /\ WtcConserved'
      /\ MessagesOK'
      /\ node_wtc' \in [Node -> Nat]
      /\ \A x \in Node \ {n} : node_wtc'[x] = node_wtc[x]
      /\ node_wtc[n] + m.wtc >= 2 => node_wtc'[n] >= 2
      /\ \A x \in Node :
           /\ CountIn(Request(x), net') = CountIn(Request(x), net) - One(Request(x), m)
           /\ CountIn(Supply(x), net') = CountIn(Supply(x), net) - One(Supply(x), m)
  BY <1>2, <1>4, AddNodeWtcNet, Zenon
<1>6. node_wtc'[n] \in Nat /\ node_wtc'[n] >= 2
  <2>1. node_wtc[n] \in Nat
    BY DEF LocalInv
  <2> QED
    BY <1>1, <1>5, <2>1
<1>7. SuppliesOK'
  <2>1. \A x \in Node : One(Request(x), m) = 0 /\ One(Supply(x), m) = 0
    BY <1>3 DEF One
  <2>2. \A x \in Node : CountIn(Request(x), net) \in Nat /\ CountIn(Supply(x), net) \in Nat
    BY DEF NetInv, GoodNet, IsABag, CountIn
  <2>3. \A x \in Node : /\ CountIn(Request(x), net') = CountIn(Request(x), net)
                       /\ CountIn(Supply(x), net') = CountIn(Supply(x), net)
    BY <1>5, <2>1, <2>2
  <2> QED
    BY <1>2, <2>3, SuppliesUnchanged DEF NetInv
<1>8. active' \in [Node -> BOOLEAN] /\ \A x \in Node \ {n} : active'[x] = active[x]
  BY <1>2 DEF LocalInv
<1>9. HoldersOK'
  <2> SUFFICES ASSUME NEW x \in Node PROVE HolderOK(x)'
    BY DEF HoldersOK
  <2>1. HolderOK(x)
    BY DEF LocalInv, HoldersOK
  <2>2. CASE x = n
    BY <1>2, <1>6, <2>1, <2>2 DEF HolderOK
  <2>3. CASE x # n
    BY <1>2, <1>5, <1>8, <2>1, <2>3 DEF HolderOK
  <2> QED
    BY <2>2, <2>3
<1>10. LocalInv'
  BY <1>2, <1>5, <1>8, <1>9 DEF LocalInv, SuspendedOK, DetectedOK
<1> QED
  BY <1>5, <1>7, <1>10 DEF NetInv

(* A read that becomes an answer, or is passed on, keeps its weight. *)
LEMMA RelayedInv ==
  ASSUME IInv, NEW m \in InFlight, m.kind \in WorkKind, NEW p \in Message,
         p.kind \in WorkKind, p.wtc = m.wtc, p.from \in Node, p.to \in Node,
         net' = (net (-) SetToBag({m})) (+) SetToBag({p}),
         UNCHANGED <<nodeVars, shoen_wtc, terminated, sends>>
  PROVE  IInv'
<1> USE IInvParts
<1>1. m \in DOMAIN net /\ m.wtc \in Nat /\ m.wtc >= 2 /\ GoodNet(net)
  BY DEF NetInv, MessagesOK, MessageOK, GoodNet, InFlight, BagToSet, Message
<1> DEFINE r == net (-) SetToBag({m})
           a == r (+) SetToBag({p})
<1>2. /\ GoodNet(r) /\ DOMAIN r \subseteq DOMAIN net
      /\ \A x : CountIn(x, r) = CountIn(x, net) - One(x, m)
      /\ \A x : CountIn(x, net) \in Nat
      /\ Weight(net) \in Nat /\ Weight(r) = Weight(net) - m.wtc
  BY <1>1, Taken
<1>3. net' = a
  OBVIOUS
<1> HIDE DEF r
<1>4. /\ GoodNet(a) /\ DOMAIN a = DOMAIN r \cup {p}
      /\ \A x : CountIn(x, a) = CountIn(x, r) + One(x, p)
      /\ Weight(a) = Weight(r) + p.wtc
  BY <1>2, Posted
<1> HIDE DEF a
<1>5. \A x \in Node : /\ One(Request(x), m) = 0 /\ One(Supply(x), m) = 0
                     /\ One(Request(x), p) = 0 /\ One(Supply(x), p) = 0
  BY DEF One, Request, Supply, WorkKind
<1>6. \A x \in Node : /\ CountIn(Request(x), net') = CountIn(Request(x), net)
                     /\ CountIn(Supply(x), net') = CountIn(Supply(x), net)
  BY <1>2, <1>3, <1>4, <1>5
<1>7. SuppliesOK'
  BY <1>6, SuppliesUnchanged DEF NetInv, nodeVars
<1>8. Weight(net') = Weight(net)
  BY <1>1, <1>2, <1>3, <1>4
<1>9. WtcConserved' /\ IsFiniteSet(NodeUnits(node_wtc'))
  BY <1>8 DEF NetInv, WtcConserved, Weight, nodeVars, NodeUnits
<1>10. MessagesOK'
  BY <1>1, <1>2, <1>3, <1>4 DEF NetInv, MessagesOK, MessageOK, InFlight, BagToSet, WorkKind
<1>11. LocalInv'
  BY DEF LocalInv, SuspendedOK, HoldersOK, HolderOK, DetectedOK, nodeVars
<1> QED
  BY <1>3, <1>4, <1>7, <1>9, <1>10, <1>11 DEF NetInv

(* decode_read with the value at hand, and transfer_read. *)
LEMMA AnswerReadInv ==
  ASSUME IInv, NEW n \in Node, NEW m \in InFlight, AnswerRead(n, m)
  PROVE  IInv'
<1> DEFINE p == [m EXCEPT !.kind = "answer", !.from = n, !.to = m.from, !.transc = 0]
<1>1. m \in Message /\ m.kind = "read" /\ m.from \in Node /\ m.kind \in WorkKind
  BY IInvParts DEF AnswerRead, NetInv, MessagesOK, MessageOK, GoodNet, InFlight, BagToSet,
                   WorkKind
<1>2. /\ p \in Message /\ p.kind \in WorkKind /\ p.wtc = m.wtc
      /\ p.from \in Node /\ p.to \in Node
  BY <1>1 DEF Message, Kind, WorkKind
<1>3. /\ net' = (net (-) SetToBag({m})) (+) SetToBag({p})
      /\ UNCHANGED <<nodeVars, shoen_wtc, terminated, sends>>
  BY DEF AnswerRead, Received
<1> HIDE DEF p
<1> QED
  BY <1>1, <1>2, <1>3, RelayedInv, Zenon

(* The relayed read is a read still, with one transfer less. *)
LEMMA TransferReadInv ==
  ASSUME IInv, NEW n \in Node, NEW m \in InFlight, NEW d \in Node, TransferRead(n, m, d)
  PROVE  IInv'
<1> DEFINE p == [m EXCEPT !.to = d, !.transc = m.transc - 1]
<1>1. /\ m \in Message /\ m.kind = "read" /\ m.from \in Node /\ m.kind \in WorkKind
      /\ m.transc \in Nat /\ m.transc - 1 > 0
  BY IInvParts DEF TransferRead, NetInv, MessagesOK, MessageOK, GoodNet, InFlight, BagToSet,
                   WorkKind, Message
<1>2. m.transc - 1 \in Nat
  BY <1>1
<1>3. /\ p \in Message /\ p.kind \in WorkKind /\ p.wtc = m.wtc
      /\ p.from \in Node /\ p.to \in Node
  BY <1>1, <1>2 DEF Message, Kind, WorkKind
<1>4. /\ net' = (net (-) SetToBag({m})) (+) SetToBag({p})
      /\ UNCHANGED <<nodeVars, shoen_wtc, terminated, sends>>
  BY DEF TransferRead, Received
<1> HIDE DEF p
<1> QED
  BY <1>1, <1>3, <1>4, RelayedInv, Zenon

(* The supply n asked for: nothing is on its way to n any more. *)
LEMMA ReceiveSupplyInv ==
  ASSUME IInv, NEW n \in Node, NEW m \in InFlight, ReceiveSupply(n, m)
  PROVE  IInv'
<1> USE IInvParts
<1>1. m = Supply(n) /\ m.wtc = SUPPLY_WTC_UNIT
  BY DEF ReceiveSupply, NetInv, MessagesOK, MessageOK, Supply
<1>2. /\ AddNodeWtc(n, m) /\ ~resuming[n] /\ requesting_wtc[n]
      /\ requesting_wtc' = [requesting_wtc EXCEPT ![n] = FALSE]
      /\ resuming' = [resuming EXCEPT ![n] = TRUE]
      /\ UNCHANGED <<active, susp_msg_list, shoen_wtc, terminated, sends>>
  BY DEF ReceiveSupply
<1>3. NetInv /\ LocalInv /\ shoen_wtc' = shoen_wtc
  BY <1>2
<1>4. /\ GoodNet(net') /\ IsFiniteSet(NodeUnits(node_wtc')) /\ WtcConserved'
      /\ MessagesOK'
      /\ node_wtc' \in [Node -> Nat]
      /\ \A x \in Node \ {n} : node_wtc'[x] = node_wtc[x]
      /\ node_wtc[n] + m.wtc >= 2 => node_wtc'[n] >= 2
      /\ \A x \in Node :
           /\ CountIn(Request(x), net') = CountIn(Request(x), net) - One(Request(x), m)
           /\ CountIn(Supply(x), net') = CountIn(Supply(x), net) - One(Supply(x), m)
  BY <1>2, <1>3, AddNodeWtcNet, Zenon
<1>5. node_wtc'[n] \in Nat /\ node_wtc'[n] >= 2
  <2>1. node_wtc[n] \in Nat
    BY DEF LocalInv
  <2> QED
    BY <1>1, <1>4, <2>1, Units
<1>6. SuppliesOK'
  <2> SUFFICES ASSUME NEW x \in Node
               PROVE  CountIn(Request(x), net') + CountIn(Supply(x), net')
                        = (IF requesting_wtc'[x] THEN 1 ELSE 0)
    BY DEF SuppliesOK, Request, Supply
  <2>1. One(Request(x), m) = 0 /\ One(Supply(x), m) = (IF x = n THEN 1 ELSE 0)
    BY <1>1 DEF One, Request, Supply
  <2>2. CountIn(Request(x), net) \in Nat /\ CountIn(Supply(x), net) \in Nat
    BY DEF NetInv, GoodNet, IsABag, CountIn
  <2>3. CountIn(Request(x), net) + CountIn(Supply(x), net)
          = (IF requesting_wtc[x] THEN 1 ELSE 0)
    BY DEF NetInv, SuppliesOK
  <2>4. /\ CountIn(Request(x), net') = CountIn(Request(x), net)
        /\ CountIn(Supply(x), net')
             = CountIn(Supply(x), net) - (IF x = n THEN 1 ELSE 0)
    BY <1>4, <2>1, <2>2
  <2>5. requesting_wtc'[x] = IF x = n THEN FALSE ELSE requesting_wtc[x]
    BY <1>2 DEF LocalInv
  <2>6. CASE x = n
    <3>1. requesting_wtc[x] /\ ~requesting_wtc'[x]
      BY <1>2, <2>5, <2>6
    <3>2. CountIn(Request(x), net) + CountIn(Supply(x), net) = 1
      BY <2>3, <3>1
    <3>3. /\ CountIn(Request(x), net') = CountIn(Request(x), net)
          /\ CountIn(Supply(x), net') = CountIn(Supply(x), net) - 1
      BY <2>4, <2>6
    <3>4. CountIn(Request(x), net') + CountIn(Supply(x), net') = 0
      BY <2>2, <3>2, <3>3
    <3> QED
      BY <3>1, <3>4
  <2>7. CASE x # n
    BY <2>2, <2>3, <2>4, <2>5, <2>7
  <2> QED
    BY <2>6, <2>7
<1>7. HoldersOK'
  <2> SUFFICES ASSUME NEW x \in Node PROVE HolderOK(x)'
    BY DEF HoldersOK
  <2>1. HolderOK(x)
    BY DEF LocalInv, HoldersOK
  <2>2. /\ requesting_wtc'[x] = IF x = n THEN FALSE ELSE requesting_wtc[x]
        /\ resuming'[x] = IF x = n THEN TRUE ELSE resuming[x]
    BY <1>2 DEF LocalInv
  <2>3. CASE x = n
    BY <1>2, <1>5, <2>1, <2>2, <2>3 DEF HolderOK
  <2>4. CASE x # n
    BY <1>2, <1>4, <2>1, <2>2, <2>4 DEF HolderOK
  <2> QED
    BY <2>3, <2>4
<1>8. LocalInv'
  BY <1>2, <1>4, <1>7 DEF LocalInv, SuspendedOK, DetectedOK
<1> QED
  BY <1>4, <1>6, <1>8 DEF NetInv

(* A suspended message is sent with the whole unit it was encoded with. *)
LEMMA ResumeMessageInv ==
  ASSUME IInv, NEW n \in Node, ResumeMessage(n)
  PROVE  IInv'
<1> DEFINE m == Head(susp_msg_list[n])
<1> USE IInvParts
<1>1. /\ susp_msg_list[n] \in Seq(Message) /\ susp_msg_list[n] # <<>>
      /\ resuming[n] /\ GetFullWtc(node_wtc[n], m.wtc) # 0
  BY DEF LocalInv, ResumeMessage
<1>2. /\ Tail(susp_msg_list[n]) \in Seq(Message) /\ m \in Message
      /\ Len(Tail(susp_msg_list[n])) = Len(susp_msg_list[n]) - 1
      /\ Len(susp_msg_list[n]) >= 1 /\ m = susp_msg_list[n][1]
      /\ \A i \in 1..Len(Tail(susp_msg_list[n])) :
           Tail(susp_msg_list[n])[i] = susp_msg_list[n][i + 1]
  BY <1>1, Popped
<1>3. /\ m.kind \in WorkKind /\ m.from \in Node /\ m.to \in Node /\ m.wtc >= 2
      /\ m.wtc \in Nat /\ node_wtc[n] \in Nat /\ shoen_wtc \in Int
  <2> HIDE DEF m
  <2>1. 1 \in 1..Len(susp_msg_list[n])
    BY <1>1, <1>2
  <2>2. m.kind \in WorkKind /\ m.from \in Node /\ m.to \in Node /\ m.wtc >= 2
    BY <1>2, <2>1 DEF LocalInv, SuspendedOK
  <2> QED
    BY <1>2, <2>2 DEF LocalInv, Message
<1>4. GetFullWtc(node_wtc[n], m.wtc) = m.wtc /\ node_wtc[n] - m.wtc >= 2
  BY <1>1, <1>3, GetFullWtcKeepsReserve
<1>5. /\ node_wtc' = [node_wtc EXCEPT ![n] = node_wtc[n] - m.wtc]
      /\ net' = net (+) SetToBag({m})
      /\ susp_msg_list' = [susp_msg_list EXCEPT ![n] = Tail(susp_msg_list[n])]
      /\ UNCHANGED <<active, requesting_wtc, resuming, shoen_wtc, terminated, sends>>
  BY <1>4 DEF ResumeMessage, Sent
<1> HIDE DEF m
<1>6. /\ GoodNet(net') /\ DOMAIN net' = DOMAIN net \cup {m}
      /\ \A x : CountIn(x, net') = CountIn(x, net) + One(x, m)
      /\ \A x : CountIn(x, net) \in Nat
      /\ Weight(net) \in Nat /\ Weight(net') = Weight(net) + m.wtc
  BY <1>2, <1>5, Posted, ZenonT(60) DEF NetInv
<1>7. /\ node_wtc' \in [Node -> Nat] /\ node_wtc'[n] = node_wtc[n] - m.wtc
      /\ \A x \in Node \ {n} : node_wtc'[x] = node_wtc[x]
  BY <1>3, <1>4, <1>5 DEF LocalInv
<1>8. /\ IsFiniteSet(NodeUnits(node_wtc'))
      /\ Cardinality(NodeUnits(node_wtc')) = Cardinality(NodeUnits(node_wtc)) - m.wtc
      /\ Cardinality(NodeUnits(node_wtc)) \in Nat
  <2>1. NetInv /\ LocalInv
    OBVIOUS
  <2>2. /\ IsFiniteSet(NodeUnits(node_wtc'))
        /\ Cardinality(NodeUnits(node_wtc'))
             = Cardinality(NodeUnits(node_wtc)) - node_wtc[n] + node_wtc'[n]
        /\ Cardinality(NodeUnits(node_wtc)) \in Nat
    BY <1>7, <2>1, Reweighed, Zenon
  <2> QED
    BY <1>3, <1>7, <2>2
<1>9. WtcConserved'
  BY <1>3, <1>5, <1>6, <1>8 DEF NetInv, WtcConserved, Weight
<1>10. MessagesOK'
  BY <1>3, <1>6 DEF NetInv, MessagesOK, MessageOK, InFlight, BagToSet, WorkKind
<1>11. SuppliesOK'
  <2>1. \A x \in Node : One(Request(x), m) = 0 /\ One(Supply(x), m) = 0
    BY <1>3 DEF Request, Supply, WorkKind, One
  <2>2. \A x \in Node : /\ CountIn(Request(x), net') = CountIn(Request(x), net)
                       /\ CountIn(Supply(x), net') = CountIn(Supply(x), net)
    BY <1>6, <2>1
  <2> QED
    BY <1>5, <2>2, SuppliesUnchanged DEF NetInv
<1>12. /\ susp_msg_list' \in [Node -> Seq(Message)]
       /\ susp_msg_list'[n] = Tail(susp_msg_list[n])
       /\ \A x \in Node \ {n} : susp_msg_list'[x] = susp_msg_list[x]
  BY <1>2, <1>5 DEF LocalInv
<1>13. SuspendedOK'
  <2> SUFFICES ASSUME NEW x \in Node, NEW i \in 1..Len(susp_msg_list'[x])
               PROVE  LET y == susp_msg_list'[x][i]
                      IN  y.kind \in WorkKind /\ y.from \in Node /\ y.to \in Node /\ y.wtc >= 2
    BY DEF SuspendedOK
  <2>1. CASE x # n
    BY <1>12, <2>1 DEF LocalInv, SuspendedOK
  <2>2. CASE x = n
    <3>1. /\ susp_msg_list'[n][i] = susp_msg_list[n][i + 1]
          /\ i + 1 \in 1..Len(susp_msg_list[n])
      BY <1>1, <1>2, <1>12, <2>2
    <3> QED
      BY <2>2, <3>1 DEF LocalInv, SuspendedOK
  <2> QED
    BY <2>1, <2>2
<1>14. HoldersOK'
  <2> SUFFICES ASSUME NEW x \in Node PROVE HolderOK(x)'
    BY DEF HoldersOK
  <2>1. HolderOK(x) /\ HolderOK(n)
    BY DEF LocalInv, HoldersOK
  <2>2. CASE x = n
    BY <1>1, <1>3, <1>4, <1>5, <1>7, <2>1, <2>2 DEF HolderOK
  <2>3. CASE x # n
    BY <1>5, <1>7, <1>12, <2>1, <2>3 DEF HolderOK
  <2> QED
    BY <2>2, <2>3
<1>15. LocalInv'
  BY <1>5, <1>7, <1>12, <1>13, <1>14 DEF LocalInv, DetectedOK
<1> QED
  BY <1>6, <1>8, <1>9, <1>10, <1>11, <1>15 DEF NetInv

(* The loop of message_resume() stops for want of weight, or is done. *)
LEMMA RequestAgainInv ==
  ASSUME IInv, NEW n \in Node, RequestAgain(n)
  PROVE  IInv'
<1> USE IInvParts
<1>1. /\ resuming[n] /\ susp_msg_list[n] # <<>> /\ RequestWtc(n)
      /\ resuming' = [resuming EXCEPT ![n] = FALSE]
      /\ UNCHANGED <<active, susp_msg_list, shoen_wtc, terminated, sends>>
  BY DEF RequestAgain
<1>2. ~requesting_wtc[n]
  BY <1>1 DEF LocalInv, HoldersOK, HolderOK
<1>3. NetInv'
  BY <1>1, <1>2, RequestWtcNet
<1>4. /\ node_wtc' = [node_wtc EXCEPT ![n] = node_wtc[n] - 1]
      /\ requesting_wtc' = [requesting_wtc EXCEPT ![n] = TRUE]
      /\ node_wtc[n] - 1 >= 1 /\ node_wtc[n] \in Nat
  BY <1>1 DEF RequestWtc, LocalInv
<1>5. HoldersOK'
  BY <1>1, <1>4 DEF LocalInv, HoldersOK, HolderOK
<1>6. LocalInv'
  BY <1>1, <1>4, <1>5 DEF LocalInv, SuspendedOK, DetectedOK
<1> QED
  BY <1>3, <1>6

(* message_resume() has sent them all. *)
LEMMA AllResumedInv ==
  ASSUME IInv, NEW n \in Node, AllResumed(n)
  PROVE  IInv'
<1> USE IInvParts
<1>1. /\ susp_msg_list[n] = <<>>
      /\ resuming' = [resuming EXCEPT ![n] = FALSE]
      /\ UNCHANGED <<active, node_wtc, requesting_wtc, susp_msg_list, shoen_wtc, net,
                     terminated, sends>>
  BY DEF AllResumed
<1>2. LocalInv'
  BY <1>1 DEF LocalInv, SuspendedOK, HoldersOK, HolderOK, DetectedOK
<1>3. NetInv'
  BY <1>1 DEF NetInv, GoodNet, MessagesOK, MessageOK, InFlight, SuppliesOK, WtcConserved,
              Request, Supply
<1> QED
  BY <1>2, <1>3

(* The shoen turns a request into a supply and owes that much more ... *)
LEMMA ShoenRequestInv ==
  ASSUME IInv, NEW m \in InFlight, ShoenRequest(m)
  PROVE  IInv'
<1> DEFINE n == m.from
           p == Supply(n)
           r == net (-) SetToBag({m})
           a == r (+) SetToBag({p})
<1> USE IInvParts
<1>1. /\ m \in DOMAIN net /\ n \in Node /\ m = Request(n) /\ m.wtc = 1 /\ GoodNet(net)
  BY DEF ShoenRequest, NetInv, MessagesOK, MessageOK, InFlight, BagToSet, Request
<1>2. /\ net' = a /\ ~terminated
      /\ shoen_wtc' = shoen_wtc + 1 - SUPPLY_WTC_UNIT
      /\ UNCHANGED <<nodeVars, terminated, sends>>
  BY DEF ShoenRequest, Received
<1>3. /\ p \in Message /\ p = Supply(n) /\ p.wtc = SUPPLY_WTC_UNIT
      /\ p.kind = "supply" /\ p.to = n /\ SUPPLY_WTC_UNIT \in Nat /\ SUPPLY_WTC_UNIT >= 4
  BY <1>1, Units DEF Supply, Message, Kind
<1>4. /\ GoodNet(r) /\ DOMAIN r \subseteq DOMAIN net
      /\ \A x : CountIn(x, r) = CountIn(x, net) - One(x, m)
      /\ \A x : CountIn(x, net) \in Nat
      /\ Weight(net) \in Nat /\ Weight(r) = Weight(net) - m.wtc
  BY <1>1, Taken
<1> HIDE DEF r, n, p
<1>5. /\ GoodNet(a) /\ DOMAIN a = DOMAIN r \cup {p}
      /\ \A x : CountIn(x, a) = CountIn(x, r) + One(x, p)
      /\ Weight(a) = Weight(r) + p.wtc
  BY <1>3, <1>4, Posted
<1> HIDE DEF a
<1>6. Weight(net') = Weight(net) - 1 + SUPPLY_WTC_UNIT
  BY <1>1, <1>2, <1>3, <1>4, <1>5
<1>7. shoen_wtc' \in Int /\ shoen_wtc \in Int
  BY <1>2, <1>3 DEF LocalInv
<1>8. /\ IsFiniteSet(NodeUnits(node_wtc)) /\ Cardinality(NodeUnits(node_wtc)) \in Nat
      /\ node_wtc' = node_wtc
  BY <1>2, FS_CardinalityType DEF NetInv, nodeVars
<1>9. WtcConserved' /\ IsFiniteSet(NodeUnits(node_wtc'))
  BY <1>2, <1>3, <1>4, <1>6, <1>7, <1>8 DEF NetInv, WtcConserved, Weight
<1>10. MessagesOK'
  BY <1>1, <1>2, <1>3, <1>4, <1>5
     DEF NetInv, MessagesOK, MessageOK, InFlight, BagToSet, WorkKind, Supply
<1>11. SuppliesOK'
  <2> SUFFICES ASSUME NEW x \in Node
               PROVE  CountIn(Request(x), net') + CountIn(Supply(x), net')
                        = (IF requesting_wtc'[x] THEN 1 ELSE 0)
    BY DEF SuppliesOK, Request, Supply
  <2>1. /\ One(Request(x), m) = (IF x = n THEN 1 ELSE 0) /\ One(Supply(x), m) = 0
        /\ One(Supply(x), p) = (IF x = n THEN 1 ELSE 0) /\ One(Request(x), p) = 0
    BY <1>1, <1>3 DEF One, Request, Supply
  <2>2. /\ CountIn(Request(x), net') = CountIn(Request(x), net) - (IF x = n THEN 1 ELSE 0)
        /\ CountIn(Supply(x), net') = CountIn(Supply(x), net) + (IF x = n THEN 1 ELSE 0)
        /\ CountIn(Request(x), net) \in Nat /\ CountIn(Supply(x), net) \in Nat
    BY <1>2, <1>4, <1>5, <2>1
  <2>3. CountIn(Request(x), net') + CountIn(Supply(x), net')
          = CountIn(Request(x), net) + CountIn(Supply(x), net)
    BY <2>2
  <2> QED
    BY <1>2, <2>3 DEF NetInv, SuppliesOK, nodeVars
<1>12. LocalInv'
  BY <1>2, <1>7 DEF LocalInv, SuspendedOK, HoldersOK, HolderOK, DetectedOK, nodeVars
<1> QED
  BY <1>2, <1>5, <1>9, <1>10, <1>11, <1>12 DEF NetInv

(* ... and what is returned to it, it owes no longer. *)
LEMMA ShoenReturnInv ==
  ASSUME IInv, NEW m \in InFlight, ShoenReturn(m)
  PROVE  IInv'
<1> USE IInvParts
<1>1. /\ m \in DOMAIN net /\ m \in Message /\ m.wtc \in Nat /\ GoodNet(net)
      /\ m.kind = "return"
  BY DEF ShoenReturn, NetInv, GoodNet, InFlight, BagToSet, Message
<1>2. /\ net' = net (-) SetToBag({m}) /\ ~terminated
      /\ shoen_wtc' = shoen_wtc + m.wtc
      /\ UNCHANGED <<nodeVars, terminated, sends>>
  BY DEF ShoenReturn, Received
<1>3. /\ GoodNet(net') /\ DOMAIN net' \subseteq DOMAIN net
      /\ \A x : CountIn(x, net') = CountIn(x, net) - One(x, m)
      /\ \A x : CountIn(x, net) \in Nat
      /\ Weight(net) \in Nat /\ Weight(net') = Weight(net) - m.wtc
  BY <1>1, <1>2, Taken
<1>4. shoen_wtc' \in Int /\ shoen_wtc \in Int
  BY <1>1, <1>2 DEF LocalInv
<1>5. /\ IsFiniteSet(NodeUnits(node_wtc)) /\ Cardinality(NodeUnits(node_wtc)) \in Nat
      /\ node_wtc' = node_wtc
  BY <1>2, FS_CardinalityType DEF NetInv, nodeVars
<1>6. WtcConserved' /\ IsFiniteSet(NodeUnits(node_wtc'))
  BY <1>1, <1>2, <1>3, <1>4, <1>5 DEF NetInv, WtcConserved, Weight
<1>7. MessagesOK'
  BY <1>3 DEF NetInv, MessagesOK, MessageOK, InFlight, BagToSet, WorkKind, Request, Supply
<1>8. SuppliesOK'
  <2>1. \A x \in Node : One(Request(x), m) = 0 /\ One(Supply(x), m) = 0
    BY <1>1 DEF Request, Supply, One
  <2>2. \A x \in Node : /\ CountIn(Request(x), net') = CountIn(Request(x), net)
                       /\ CountIn(Supply(x), net') = CountIn(Supply(x), net)
    BY <1>3, <2>1
  <2> QED
    BY <1>2, <2>2, SuppliesUnchanged DEF NetInv, nodeVars
<1>9. LocalInv'
  BY <1>2, <1>4 DEF LocalInv, SuspendedOK, HoldersOK, HolderOK, DetectedOK, nodeVars
<1> QED
  BY <1>3, <1>6, <1>7, <1>8, <1>9 DEF NetInv

(* Nothing but the flag changes when the shoen ends the program. *)
LEMMA TerminateInv ==
  ASSUME IInv, Terminate
  PROVE  IInv'
<1> USE IInvParts
<1>1. /\ shoen_wtc = 0 /\ terminated' = TRUE
      /\ UNCHANGED <<nodeVars, shoen_wtc, net, sends>>
  BY DEF Terminate
<1>2. LocalInv'
  BY <1>1 DEF LocalInv, SuspendedOK, HoldersOK, HolderOK, DetectedOK, nodeVars
<1>3. NetInv'
  BY <1>1 DEF NetInv, GoodNet, MessagesOK, MessageOK, InFlight, SuppliesOK, WtcConserved,
              Request, Supply, nodeVars
<1> QED
  BY <1>2, <1>3

(* Steps of the outside world. *)
LEMMA StutterInv ==
  ASSUME IInv, UNCHANGED vars
  PROVE  IInv'
<1> USE IInvParts
<1>1. LocalInv'
  BY DEF vars, LocalInv, SuspendedOK, HoldersOK, HolderOK, DetectedOK, nodeVars
<1>2. NetInv'
  BY DEF vars, NetInv, GoodNet, MessagesOK, MessageOK, InFlight, SuppliesOK, WtcConserved,
         Request, Supply, nodeVars
<1> QED
  BY <1>1, <1>2

(* Every step of the runtime keeps the invariant. *)
LEMMA NextInv ==
  ASSUME IInv, [Next]_vars
  PROVE  IInv'
<1>1. ASSUME NEW n \in Node, NodeStep(n) PROVE IInv'
  <2>1. ASSUME NEW m \in Outgoing(n), SendMessage(n, m) \/ SuspendMessage(n, m) PROVE IInv'
    BY <2>1, SendMessageInv, SuspendMessageInv
  <2>2. CASE ReturnAllWtc(n)
    BY <2>2, ReturnAllWtcInv
  <2>3. ASSUME NEW m \in InFlight, ReceiveWork(n, m) \/ AnswerRead(n, m) PROVE IInv'
    BY <2>3, ReceiveWorkInv, AnswerReadInv
  <2>4. ASSUME NEW m \in InFlight, NEW d \in Node, TransferRead(n, m, d) PROVE IInv'
    BY <2>4, TransferReadInv
  <2>5. ASSUME NEW m \in InFlight, ReceiveSupply(n, m) PROVE IInv'
    BY <2>5, ReceiveSupplyInv
  <2>6. CASE ResumeMessage(n)
    BY <2>6, ResumeMessageInv
  <2>7. CASE RequestAgain(n) \/ AllResumed(n)
    BY <2>7, RequestAgainInv, AllResumedInv
  <2> QED
    BY <1>1, <2>1, <2>2, <2>3, <2>4, <2>5, <2>6, <2>7 DEF NodeStep
<1>2. ASSUME NEW n \in Node, BecomeIdle(n) PROVE IInv'
  BY <1>2, BecomeIdleInv
<1>3. CASE ShoenStep
  BY <1>3, ShoenRequestInv, ShoenReturnInv, TerminateInv DEF ShoenStep
<1>4. CASE Exited \/ UNCHANGED vars
  BY <1>4, StutterInv DEF Exited
<1> QED
  BY <1>1, <1>2, <1>3, <1>4 DEF Next

(* The inductive invariant holds in every state the runtime can reach.     *)
THEOREM Invariance == Spec => []IInv
<1>1. Init => IInv
  BY InitInv
<1>2. IInv /\ [Next]_vars => IInv'
  BY NextInv
<1> QED
  BY <1>1, <1>2, PTL DEF Spec
-----------------------------------------------------------------------------
(* Every variable has a value of its type, whatever the units and nodes.   *)
THEOREM TypeCorrect == Spec => []TypeOK
<1>1. IInv => TypeOK
  BY DEF IInv
<1> QED
  BY <1>1, Invariance, PTL

(* The weight of the nodes and messages is at all times what the shoen has *)
(* given out: encoding, decoding, splitting, requesting, supplying and     *)
(* returning weight neither create nor lose any.                           *)
THEOREM WeightConserved == Spec => []WtcConserved
<1>1. IInv => WtcConserved
  BY DEF IInv
<1> QED
  BY <1>1, Invariance, PTL

(* A weightless world: when the shoen is at zero no node has weight and no *)
(* message exists, so no node is active or has a message suspended.        *)
LEMMA NothingLeft ==
  ASSUME IInv, shoen_wtc = 0
  PROVE  /\ net = EmptyBag
         /\ \A n \in Node : ~active[n] /\ susp_msg_list[n] = <<>>
<1> USE IInvParts
<1>1. /\ IsFiniteSet(NodeUnits(node_wtc)) /\ IsFiniteSet(MessageUnits(net))
      /\ Cardinality(NodeUnits(node_wtc)) \in Nat /\ Cardinality(MessageUnits(net)) \in Nat
  BY FS_CardinalityType DEF NetInv, GoodNet
<1>2. Cardinality(NodeUnits(node_wtc)) = 0 /\ Cardinality(MessageUnits(net)) = 0
  BY <1>1 DEF NetInv, WtcConserved
<1>3. NodeUnits(node_wtc) = {} /\ MessageUnits(net) = {}
  BY <1>1, <1>2, FS_EmptySet
<1>4. ASSUME NEW n \in Node PROVE node_wtc[n] = 0
  <2>1. node_wtc[n] \in Nat
    BY DEF LocalInv
  <2>2. node_wtc[n] >= 1 => <<n, 1>> \in NodeUnits(node_wtc)
    BY <2>1 DEF NodeUnits
  <2> QED
    BY <1>3, <2>1, <2>2
<1>5. DOMAIN net = {}
  <2> SUFFICES ASSUME NEW m \in DOMAIN net PROVE FALSE
    OBVIOUS
  <2>1. m.wtc >= 1 /\ m.wtc \in Nat /\ net[m] \in Nat /\ net[m] >= 1
    BY DEF NetInv, GoodNet, IsABag, MessagesOK, MessageOK, InFlight, BagToSet, Message
  <2>2. <<m, 1>> \in Copies(net)
    BY <2>1 DEF Copies
  <2>3. <<<<m, 1>>, 1>> \in MessageUnits(net)
    BY <2>1, <2>2 DEF MessageUnits
  <2> QED
    BY <1>3, <2>3
<1>6. net = EmptyBag
  <2>1. net = [x \in DOMAIN net |-> net[x]]
    BY DEF NetInv, GoodNet, IsABag
  <2> QED
    BY <1>5, <2>1 DEF EmptyBag, SetToBag
<1>7. ASSUME NEW n \in Node PROVE ~active[n] /\ susp_msg_list[n] = <<>>
  BY <1>4, <1>7 DEF LocalInv, HoldersOK, HolderOK
<1> QED
  BY <1>6, <1>7

(* %terminate is sent only when no node has a goal, no message waits on a  *)
(* susp_msg_list and none is on its way.                                   *)
THEOREM SafeTermination == Spec => []TerminatedSafely
<1>1. IInv => TerminatedSafely
  <2> SUFFICES ASSUME IInv, terminated PROVE Quiescent /\ net = EmptyBag
    BY DEF TerminatedSafely
  <2>1. shoen_wtc = 0
    BY DEF IInv, DetectedOK
  <2>2. net = EmptyBag /\ \A n \in Node : ~active[n] /\ susp_msg_list[n] = <<>>
    BY <2>1, NothingLeft
  <2>3. InFlight = {}
    BY <2>2 DEF InFlight, BagToSet, EmptyBag, SetToBag
  <2> QED
    BY <2>2, <2>3 DEF Quiescent
<1> QED
  BY <1>1, Invariance, PTL

(* One request or one supply is on its way to exactly the nodes that wait  *)
(* for one, and those are the nodes with suspended messages.               *)
THEOREM SupplyPerRequest == Spec => []OneSupplyPerRequest
<1>1. IInv => OneSupplyPerRequest
  <2> SUFFICES ASSUME IInv, NEW n \in Node
               PROVE  /\ CopiesOf(Request(n)) + CopiesOf(Supply(n))
                            = (IF requesting_wtc[n] THEN 1 ELSE 0)
                      /\ ~resuming[n] => (requesting_wtc[n] <=> susp_msg_list[n] # <<>>)
    BY DEF OneSupplyPerRequest
  <2>1. \A x : CopiesOf(x) = CountIn(x, net)
    BY DEF CopiesOf, CountIn, BagIn, BagToSet
  <2>2. CountIn(Request(n), net) + CountIn(Supply(n), net)
          = (IF requesting_wtc[n] THEN 1 ELSE 0)
    BY DEF IInv, SuppliesOK
  <2>3. ~resuming[n] => (requesting_wtc[n] <=> susp_msg_list[n] # <<>>)
    BY DEF IInv, HoldersOK, HolderOK
  <2> QED
    BY <2>1, <2>2, <2>3
<1> QED
  BY <1>1, Invariance, PTL

(* The runtime never stops itself with one of the fatal() calls of the     *)
(* weight protocol.                                                        *)
THEOREM NoFatal == Spec => []NeverFatal
<1>1. IInv => NeverFatal
  <2> SUFFICES ASSUME IInv PROVE NeverFatal
    OBVIOUS
  <2> USE IInvParts
  <2>1. ASSUME NEW n \in Node
        PROVE  /\ active[n] /\ ~resuming[n] => ~InvalidWtc(n)
               /\ active[n] /\ ~requesting_wtc[n] => node_wtc[n] - 1 >= 1
               /\ resuming[n] => ~InvalidWtc(n)
    <3>1. HolderOK(n) /\ node_wtc[n] \in Nat
      BY DEF LocalInv, HoldersOK
    <3> QED
      BY <3>1, Units DEF HolderOK, InvalidWtc
  <2>2. ASSUME NEW m \in InFlight, m.kind = "supply" PROVE requesting_wtc[m.to]
    <3>1. m \in DOMAIN net /\ m.to \in Node /\ m = Supply(m.to)
      BY <2>2 DEF NetInv, MessagesOK, MessageOK, InFlight, BagToSet
    <3>2. CountIn(Supply(m.to), net) \in Nat /\ CountIn(Supply(m.to), net) > 0
      BY <3>1 DEF CountIn, NetInv, GoodNet, IsABag
    <3>3. CountIn(Request(m.to), net) \in Nat
      BY DEF CountIn, NetInv, GoodNet, IsABag
    <3>4. CountIn(Request(m.to), net) + CountIn(Supply(m.to), net)
            = (IF requesting_wtc[m.to] THEN 1 ELSE 0)
      BY <3>1 DEF NetInv, SuppliesOK
    <3> QED
      BY <3>2, <3>3, <3>4
  <2>3. shoen_wtc <= 0
    <3>1. /\ Cardinality(NodeUnits(node_wtc)) \in Nat
          /\ Cardinality(MessageUnits(net)) \in Nat /\ shoen_wtc \in Int
      BY FS_CardinalityType DEF NetInv, GoodNet, LocalInv
    <3> QED
      BY <3>1 DEF NetInv, WtcConserved
  <2> QED
    BY <2>1, <2>2, <2>3 DEF NeverFatal
<1> QED
  BY <1>1, Invariance, PTL

(* What add_node_wtc() leaves a node that had or is given two units. *)
LEMMA AddNodeWtcKeepsTwo ==
  ASSUME IInv, NEW n \in Node, NEW m \in InFlight, m.wtc >= 2, AddNodeWtc(n, m)
  PROVE  \A x \in Node : node_wtc'[x] # 0 \/ node_wtc'[x] = node_wtc[x]
<1> USE IInvParts
<1>1. m.wtc \in Nat /\ node_wtc[n] \in Nat /\ node_wtc \in [Node -> Nat]
  BY DEF LocalInv, NetInv, GoodNet, InFlight, BagToSet, Message
<1> DEFINE w == node_wtc[n] + m.wtc
<1>2. w \in Nat /\ w >= 2
  BY <1>1
<1>3. node_wtc' = [node_wtc EXCEPT ![n] = AfterAdd(w)]
  BY DEF AddNodeWtc
<1> HIDE DEF w
<1>4. AfterAdd(w) \in Nat /\ AfterAdd(w) >= 2
  BY <1>2, AfterAddHolds
<1> QED
  BY <1>1, <1>3, <1>4

(* A node gives up its last unit only in topsucceed(), when it has no goal *)
(* and nothing left to send: no other step leaves it without weight.       *)
THEOREM LastUnit == Spec => LastUnitOnlyWhenIdle
<1> DEFINE Kept == \A n \in Node : node_wtc[n] > 0 /\ node_wtc'[n] = 0
                      => ~active[n] /\ susp_msg_list[n] = <<>>
<1>1. IInv /\ [Next]_vars => [Kept]_vars
  <2> SUFFICES ASSUME IInv, Next PROVE Kept
    OBVIOUS
  <2> USE IInvParts
  <2>0. node_wtc \in [Node -> Nat]
    BY DEF LocalInv
  <2>1. ASSUME NEW n \in Node, NodeStep(n) PROVE Kept
    <3>1. ASSUME NEW m \in Outgoing(n), SendMessage(n, m) PROVE Kept
      <4>1. m.wtc \in Nat /\ node_wtc[n] \in Nat
        BY <2>0, OutgoingMessage DEF Message
      <4>2. node_wtc[n] - GetWtc(node_wtc[n], m.wtc) >= 2
        BY <3>1, <4>1, GetWtcKeepsReserve DEF SendMessage
      <4>3. node_wtc' = [node_wtc EXCEPT ![n] = node_wtc[n] - GetWtc(node_wtc[n], m.wtc)]
        BY <3>1 DEF SendMessage
      <4> QED
        BY <2>0, <4>2, <4>3
    <3>2. ASSUME NEW m \in Outgoing(n), SuspendMessage(n, m) PROVE Kept
      BY <2>0, <3>2 DEF SuspendMessage, RequestWtc
    <3>3. CASE ReturnAllWtc(n)
      BY <2>0, <3>3 DEF ReturnAllWtc
    <3>4. ASSUME NEW m \in InFlight, ReceiveWork(n, m) \/ ReceiveSupply(n, m) PROVE Kept
      <4>1. m.wtc >= 2
        BY <3>4, Units DEF NetInv, MessagesOK, MessageOK, ReceiveWork, ReceiveSupply, Supply
      <4>2. AddNodeWtc(n, m)
        BY <3>4 DEF ReceiveWork, ReceiveSupply
      <4>3. \A x \in Node : node_wtc'[x] # 0 \/ node_wtc'[x] = node_wtc[x]
        BY <4>1, <4>2, AddNodeWtcKeepsTwo
      <4> QED
        BY <2>0, <4>3
    <3>5. ASSUME NEW m \in InFlight, AnswerRead(n, m) PROVE Kept
      BY <2>0, <3>5 DEF AnswerRead, nodeVars
    <3>6. ASSUME NEW m \in InFlight, NEW d \in Node, TransferRead(n, m, d) PROVE Kept
      BY <2>0, <3>6 DEF TransferRead, nodeVars
    <3>7. CASE ResumeMessage(n)
      <4> DEFINE m == Head(susp_msg_list[n])
      <4>1. susp_msg_list[n] \in Seq(Message) /\ susp_msg_list[n] # <<>>
        BY <3>7 DEF LocalInv, ResumeMessage
      <4>2. m \in Message
        BY <4>1, Popped
      <4>3. m.wtc \in Nat /\ node_wtc[n] \in Nat
        BY <2>0, <4>2 DEF Message
      <4>4. GetFullWtc(node_wtc[n], m.wtc) # 0
        BY <3>7 DEF ResumeMessage
      <4>5. GetFullWtc(node_wtc[n], m.wtc) = m.wtc /\ node_wtc[n] - m.wtc >= 2
        BY <4>3, <4>4, GetFullWtcKeepsReserve
      <4>6. node_wtc' = [node_wtc EXCEPT ![n] = node_wtc[n] - m.wtc]
        BY <3>7, <4>5 DEF ResumeMessage
      <4> HIDE DEF m
      <4> QED
        BY <2>0, <4>3, <4>5, <4>6
    <3>8. CASE RequestAgain(n) \/ AllResumed(n)
      BY <2>0, <3>8 DEF RequestAgain, RequestWtc, AllResumed
    <3> QED
      BY <2>1, <3>1, <3>2, <3>3, <3>4, <3>5, <3>6, <3>7, <3>8, Zenon DEF NodeStep
  <2>2. ASSUME NEW n \in Node, BecomeIdle(n) PROVE Kept
    BY <2>0, <2>2 DEF BecomeIdle
  <2>3. CASE ShoenStep
    <3>1. node_wtc' = node_wtc
      BY <2>3, Zenon DEF ShoenStep, ShoenRequest, ShoenReturn, Terminate, nodeVars
    <3> QED
      BY <2>0, <3>1
  <2>4. CASE Exited
    BY <2>0, <2>4 DEF Exited, vars, nodeVars
  <2> HIDE DEF Kept
  <2> QED
    BY <2>1, <2>2, <2>3, <2>4, Zenon DEF Next
<1> QED
  BY <1>1, Invariance, PTL DEF Spec, LastUnitOnlyWhenIdle
=============================================================================
