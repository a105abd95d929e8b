--------------------------- MODULE WTC_refinement ---------------------------
(***************************************************************************)
(* Weighted throw counting implements the termination detector: every step *)
(* of the nodes, the shoen and the messages between them is a step of      *)
(* TerminationDetection under the mapping of WTC, or changes nothing of    *)
(* it.  (That the detector is fair is left to model checking.)             *)
(***************************************************************************)
EXTENDS WTC_proofs

(* Work is owed to d by the network, or by a list of suspended messages.   *)
InNet(d, b) == \E m \in DOMAIN b : m.kind \in WorkKind /\ m.to = d
InLists(d, s) == \E n \in Node : \E i \in 1..Len(s[n]) : s[n][i].to = d

(* The mapping's owed, element by element. *)
LEMMA OwedMember ==
  /\ \A d : d \in Owed <=> InNet(d, net) \/ InLists(d, susp_msg_list)
  /\ \A d : d \in Owed' <=> InNet(d, net') \/ InLists(d, susp_msg_list')
<1>1. \A d : d \in Owed <=> InNet(d, net) \/ InLists(d, susp_msg_list)
  BY DEF Owed, Elements, InFlight, BagToSet, InNet, InLists
<1>2. \A d : d \in Owed' <=> InNet(d, net') \/ InLists(d, susp_msg_list')
  BY DEF Owed, Elements, InFlight, BagToSet, InNet, InLists
<1> QED
  BY <1>1, <1>2

(* A posted message is owed if it is work ... *)
LEMMA OwedPosted ==
  ASSUME NEW b, NEW a, NEW m, DOMAIN a = DOMAIN b \cup {m}
  PROVE  \A d : InNet(d, a) <=> InNet(d, b) \/ (m.kind \in WorkKind /\ m.to = d)
  BY DEF InNet

(* ... and taking one out settles at most what was owed to its addressee. *)
LEMMA OwedTaken ==
  ASSUME NEW b, NEW a, NEW m, DOMAIN a \subseteq DOMAIN b,
         \A x : x # m /\ x \in DOMAIN b => x \in DOMAIN a
  PROVE  \A d : /\ InNet(d, a) => InNet(d, b)
                /\ InNet(d, b) => InNet(d, a) \/ (m.kind \in WorkKind /\ m.to = d)
  BY DEF InNet

(* The messages that only move weight are not owed to anyone. *)
LEMMA AddNodeWtcOwed ==
  ASSUME IInv, NEW n \in Node, NEW m \in InFlight, AddNodeWtc(n, m)
  PROVE  \A d : /\ InNet(d, net') => InNet(d, net)
                /\ InNet(d, net) => InNet(d, net') \/ (m.kind \in WorkKind /\ m.to = d)
<1> DEFINE r == net (-) SetToBag({m})
           p == Return(n, RETURN_WTC_UNIT)
           a == r (+) SetToBag({p})
<1>1. m \in DOMAIN net /\ GoodNet(net)
  BY IInvParts DEF NetInv, InFlight, BagToSet
<1>2. /\ GoodNet(r) /\ DOMAIN r \subseteq DOMAIN net
      /\ \A x : x # m /\ x \in DOMAIN net => x \in DOMAIN r
  BY <1>1, Taken
<1>3. net' = r \/ net' = a
  BY DEF AddNodeWtc, Received
<1>4. p \in Message /\ p.kind \notin WorkKind
  BY Units DEF Return, Message, Kind, WorkKind
<1> HIDE DEF r, p
<1>5. DOMAIN a = DOMAIN r \cup {p}
  BY <1>2, <1>4, Posted
<1> HIDE DEF a
<1>6. \A d : InNet(d, a) <=> InNet(d, r)
  BY <1>4, <1>5, OwedPosted
<1>7. \A d : /\ InNet(d, r) => InNet(d, net)
             /\ InNet(d, net) => InNet(d, r) \/ (m.kind \in WorkKind /\ m.to = d)
  BY <1>2, OwedTaken, Zenon
<1> QED
  BY <1>3, <1>6, <1>7
-----------------------------------------------------------------------------
(* A program that starts owes no work. *)
LEMMA InitRefines == Init => Detector!Init
<1> SUFFICES ASSUME Init PROVE Detector!Init
  OBVIOUS
<1>1. DOMAIN net = {} /\ \A n \in Node : Len(susp_msg_list[n]) = 0
  BY DEF Init, EmptyBag, SetToBag
<1>2. Owed = {}
  BY <1>1, OwedMember DEF InNet, InLists
<1>3. Busy \in SUBSET Node /\ terminated = FALSE
  BY DEF Busy, Init
<1> QED
  BY <1>2, <1>3 DEF Detector!Init

(* A step that neither makes nor settles work is none of the detector's. *)
LEMMA Stutters ==
  ASSUME active' = active, terminated' = terminated,
         \A d : InNet(d, net') \/ InLists(d, susp_msg_list')
                <=> InNet(d, net) \/ InLists(d, susp_msg_list)
  PROVE  UNCHANGED Detector!vars
<1>1. Owed' = Owed
  <2>1. \A d : d \in Owed' <=> d \in Owed
    BY OwedMember
  <2> QED
    BY <2>1
<1>2. Busy' = Busy
  BY DEF Busy
<1> QED
  BY <1>1, <1>2 DEF Detector!vars

(* A goal's message, sent or suspended, is work assigned to its addressee. *)
LEMMA AssignRefines ==
  ASSUME NEW n \in Node, NEW e \in Node, active[n], active' = active,
         terminated' = terminated,
         \A d : InNet(d, net') \/ InLists(d, susp_msg_list')
                <=> InNet(d, net) \/ InLists(d, susp_msg_list) \/ d = e
  PROVE  Detector!Next
<1>1. Owed' = Owed \cup {e}
  <2>1. \A d : d \in Owed' <=> d \in Owed \/ d = e
    BY OwedMember
  <2> QED
    BY <2>1
<1>2. Busy' = Busy /\ n \in Busy
  BY DEF Busy
<1>3. Detector!Assign(n, e)
  BY <1>1, <1>2 DEF Detector!Assign
<1> QED
  BY <1>3 DEF Detector!Next

(* A goal's message sent: an Assign. *)
LEMMA SendMessageRefines ==
  ASSUME IInv, NEW n \in Node, NEW m \in Outgoing(n), SendMessage(n, m)
  PROVE  Detector!Next
<1> DEFINE g == GetWtc(node_wtc[n], m.wtc)
           p == [m EXCEPT !.wtc = g]
<1>1. m \in Message /\ m.kind \in WorkKind /\ m.to \in Node /\ m.wtc \in Nat
  BY OutgoingMessage DEF Message
<1>2. g \in Nat
  <2>1. node_wtc[n] \in Nat /\ GetWtc(node_wtc[n], m.wtc) # 0
    BY IInvParts DEF SendMessage, LocalInv
  <2> QED
    BY <1>1, <2>1, GetWtcKeepsReserve
<1> HIDE DEF g
<1>3. p \in Message /\ p.kind \in WorkKind /\ p.to = m.to
  BY <1>1, <1>2 DEF Message
<1>4. /\ net' = net (+) SetToBag({p}) /\ active[n]
      /\ UNCHANGED <<active, terminated, susp_msg_list>>
  BY DEF SendMessage, Emit, Sent, g
<1> HIDE DEF p
<1>5. DOMAIN net' = DOMAIN net \cup {p}
  BY <1>3, <1>4, Posted, IInvParts DEF NetInv
<1>6. \A d : InNet(d, net') <=> InNet(d, net) \/ d = m.to
  BY <1>3, <1>5, OwedPosted
<1>7. \A d : InNet(d, net') \/ InLists(d, susp_msg_list')
             <=> InNet(d, net) \/ InLists(d, susp_msg_list) \/ d = m.to
  BY <1>4, <1>6
<1> QED
  BY <1>1, <1>4, <1>7, AssignRefines

(* A goal's message suspended: an Assign as well. *)
LEMMA SuspendMessageRefines ==
  ASSUME IInv, NEW n \in Node, NEW m \in Outgoing(n), SuspendMessage(n, m)
  PROVE  Detector!Next
<1>1. m \in Message /\ m.kind \in WorkKind /\ m.to \in Node
  BY OutgoingMessage
<1>2. /\ susp_msg_list' = [susp_msg_list EXCEPT ![n] = <<m>> \o susp_msg_list[n]]
      /\ active[n] /\ UNCHANGED <<active, terminated>>
  BY DEF SuspendMessage, Emit
<1>3. susp_msg_list[n] \in Seq(Message) /\ susp_msg_list \in [Node -> Seq(Message)]
  BY IInvParts DEF LocalInv
<1>4. /\ Len(susp_msg_list'[n]) = Len(susp_msg_list[n]) + 1
      /\ \A i \in 1..Len(susp_msg_list[n]) + 1 :
           susp_msg_list'[n][i] = IF i = 1 THEN m ELSE susp_msg_list[n][i - 1]
      /\ \A x \in Node \ {n} : susp_msg_list'[x] = susp_msg_list[x]
      /\ Len(susp_msg_list[n]) \in Nat
  BY <1>1, <1>2, <1>3, Pushed
<1>5. ASSUME NEW d
      PROVE  InLists(d, susp_msg_list') <=> InLists(d, susp_msg_list) \/ d = m.to
  <2>1. ASSUME InLists(d, susp_msg_list')
        PROVE  InLists(d, susp_msg_list) \/ d = m.to
    <3>1. PICK x \in Node : \E i \in 1..Len(susp_msg_list'[x]) :
                             susp_msg_list'[x][i].to = d
      BY <2>1 DEF InLists
    <3>2. PICK i \in 1..Len(susp_msg_list'[x]) : susp_msg_list'[x][i].to = d
      BY <3>1
    <3>3. CASE x # n
      BY <1>4, <3>2, <3>3 DEF InLists
    <3>4. CASE x = n /\ i = 1
      BY <1>4, <3>2, <3>4
    <3>5. CASE x = n /\ i # 1
      <4>1. /\ i - 1 \in 1..Len(susp_msg_list[n])
            /\ susp_msg_list'[n][i] = susp_msg_list[n][i - 1]
        BY <1>4, <3>5
      <4> QED
        BY <3>2, <3>5, <4>1 DEF InLists
    <3> QED
      BY <3>3, <3>4, <3>5
  <2>2. ASSUME InLists(d, susp_msg_list)
        PROVE  InLists(d, susp_msg_list')
    <3>1. PICK x \in Node : \E i \in 1..Len(susp_msg_list[x]) :
                             susp_msg_list[x][i].to = d
      BY <2>2 DEF InLists
    <3>2. PICK i \in 1..Len(susp_msg_list[x]) : susp_msg_list[x][i].to = d
      BY <3>1
    <3>3. CASE x # n
      BY <1>4, <3>2, <3>3 DEF InLists
    <3>4. CASE x = n
      <4>1. /\ i + 1 \in 1..Len(susp_msg_list'[n]) /\ i + 1 # 1
            /\ susp_msg_list'[n][i + 1] = susp_msg_list[n][i]
        BY <1>4, <3>4
      <4> QED
        BY <3>2, <3>4, <4>1 DEF InLists
    <3> QED
      BY <3>3, <3>4
  <2>3. ASSUME d = m.to PROVE InLists(d, susp_msg_list')
    <3>1. 1 \in 1..Len(susp_msg_list'[n]) /\ susp_msg_list'[n][1] = m
      BY <1>4
    <3> QED
      BY <2>3, <3>1 DEF InLists
  <2> QED
    BY <2>1, <2>2, <2>3
<1>6. \A d : InNet(d, net') <=> InNet(d, net)
  <2>1. CASE UNCHANGED net
    BY <2>1
  <2>2. CASE RequestWtc(n)
    <3> DEFINE p == Request(n)
    <3>1. p \in Message /\ p.kind \notin WorkKind
      BY DEF Request, Message, Kind, WorkKind
    <3>2. net' = net (+) SetToBag({p})
      BY <2>2 DEF RequestWtc, Sent
    <3> HIDE DEF p
    <3>3. DOMAIN net' = DOMAIN net \cup {p}
      BY <3>1, <3>2, Posted, IInvParts DEF NetInv
    <3> QED
      BY <3>1, <3>3, OwedPosted
  <2> QED
    BY <2>1, <2>2 DEF SuspendMessage
<1>7. \A d : InNet(d, net') \/ InLists(d, susp_msg_list')
             <=> InNet(d, net) \/ InLists(d, susp_msg_list) \/ d = m.to
  BY <1>5, <1>6
<1> QED
  BY <1>1, <1>2, <1>7, AssignRefines

(* The last goal ends: the node finishes. *)
LEMMA BecomeIdleRefines ==
  ASSUME IInv, NEW n \in Node, BecomeIdle(n)
  PROVE  Detector!Next
<1>1. /\ active[n] /\ active' = [active EXCEPT ![n] = FALSE]
      /\ UNCHANGED <<susp_msg_list, net, terminated>>
  BY DEF BecomeIdle
<1>2. active \in [Node -> BOOLEAN]
  BY IInvParts DEF LocalInv
<1>3. Owed' = Owed
  BY <1>1 DEF Owed, InFlight, Elements
<1>4. n \in Busy /\ Busy' = Busy \ {n}
  BY <1>1, <1>2 DEF Busy
<1>5. Detector!Finish(n)
  BY <1>1, <1>3, <1>4 DEF Detector!Finish
<1> QED
  BY <1>5 DEF Detector!Next

(* Received work is taken up; the last copy of it settles what was owed.   *)
LEMMA ReceiveWorkRefines ==
  ASSUME IInv, NEW n \in Node, NEW m \in InFlight, ReceiveWork(n, m)
  PROVE  Detector!Next
<1>1. /\ m.kind \in WorkKind /\ m.to = n /\ AddNodeWtc(n, m)
      /\ active' \in {active, [active EXCEPT ![n] = TRUE]}
      /\ UNCHANGED <<susp_msg_list, terminated>>
  BY DEF ReceiveWork
<1>2. n \in Owed
  BY <1>1, OwedMember DEF InNet, InFlight, BagToSet
<1>3. \A d : /\ InNet(d, net') => InNet(d, net)
             /\ InNet(d, net) => InNet(d, net') \/ d = n
  BY <1>1, AddNodeWtcOwed
<1>4. \A d : /\ d \in Owed' => d \in Owed
             /\ d \in Owed => d \in Owed' \/ d = n
  BY <1>1, <1>3, OwedMember
<1>5. Owed' \in {Owed, Owed \ {n}}
  <2>1. CASE n \in Owed'
    BY <1>4, <2>1
  <2>2. CASE n \notin Owed'
    BY <1>4, <2>2
  <2> QED
    BY <2>1, <2>2
<1>6. Busy' \in {Busy, Busy \cup {n}}
  <2>1. active \in [Node -> BOOLEAN]
    BY IInvParts DEF LocalInv
  <2>2. CASE active' = active
    BY <2>2 DEF Busy
  <2>3. CASE active' = [active EXCEPT ![n] = TRUE]
    BY <2>1, <2>3 DEF Busy
  <2> QED
    BY <1>1, <2>2, <2>3
<1>7. Detector!Take(n)
  BY <1>1, <1>2, <1>5, <1>6 DEF Detector!Take
<1> QED
  BY <1>7 DEF Detector!Next

(* A read answered or passed on forwards the work to another node. *)
LEMMA RelayedRefines ==
  ASSUME IInv, NEW n \in Node, NEW m \in InFlight, NEW p \in Message, NEW e \in Node,
         m.kind \in WorkKind, m.to = n, p.kind \in WorkKind, p.to = e,
         net' = (net (-) SetToBag({m})) (+) SetToBag({p}),
         UNCHANGED <<active, susp_msg_list, terminated>>
  PROVE  Detector!Next
<1> DEFINE r == net (-) SetToBag({m})
           a == r (+) SetToBag({p})
<1>1. m \in DOMAIN net /\ GoodNet(net)
  BY IInvParts DEF NetInv, InFlight, BagToSet
<1>2. /\ GoodNet(r) /\ DOMAIN r \subseteq DOMAIN net
      /\ \A x : x # m /\ x \in DOMAIN net => x \in DOMAIN r
  BY <1>1, Taken
<1>3. net' = a
  OBVIOUS
<1> HIDE DEF r
<1>4. DOMAIN a = DOMAIN r \cup {p}
  BY <1>2, Posted
<1> HIDE DEF a
<1>5. \A d : /\ InNet(d, r) => InNet(d, net)
             /\ InNet(d, net) => InNet(d, r) \/ d = n
  <2>1. \A d : /\ InNet(d, r) => InNet(d, net)
               /\ InNet(d, net) => InNet(d, r) \/ (m.kind \in WorkKind /\ m.to = d)
    BY <1>2, OwedTaken, Zenon
  <2> QED
    BY <2>1
<1>6. \A d : InNet(d, a) <=> InNet(d, r) \/ d = e
  BY <1>4, OwedPosted
<1>7. n \in Owed
  BY <1>1, OwedMember DEF InNet
<1>8. \A d : /\ d \in Owed' => d \in Owed \/ d = e
             /\ d \in Owed \/ d = e => d \in Owed' \/ d = n
             /\ e \in Owed'
  BY <1>3, <1>5, <1>6, OwedMember
<1>9. Owed' \in {Owed \cup {e}, (Owed \ {n}) \cup {e}}
  <2>1. CASE n \in Owed'
    BY <1>7, <1>8, <2>1
  <2>2. CASE n \notin Owed'
    BY <1>7, <1>8, <2>2
  <2> QED
    BY <2>1, <2>2
<1>10. Busy' = Busy
  BY DEF Busy
<1>11. Detector!Forward(n, e)
  BY <1>7, <1>9, <1>10 DEF Detector!Forward
<1> QED
  BY <1>11 DEF Detector!Next

(* An answered read goes back to the reader. *)
LEMMA AnswerReadRefines ==
  ASSUME IInv, NEW n \in Node, NEW m \in InFlight, AnswerRead(n, m)
  PROVE  Detector!Next
<1> DEFINE p == [m EXCEPT !.kind = "answer", !.from = n, !.to = m.from, !.transc = 0]
<1>1. /\ m \in Message /\ m.from \in Node /\ m.kind \in WorkKind /\ m.to = n
  BY IInvParts DEF AnswerRead, NetInv, MessagesOK, MessageOK, GoodNet, InFlight, BagToSet,
                   WorkKind
<1>2. p \in Message /\ p.kind \in WorkKind /\ p.to = m.from
  BY <1>1 DEF Message, Kind, WorkKind
<1>3. /\ net' = (net (-) SetToBag({m})) (+) SetToBag({p})
      /\ UNCHANGED <<active, susp_msg_list, terminated>>
  BY DEF AnswerRead, Received, nodeVars
<1> HIDE DEF p
<1> QED
  BY <1>1, <1>2, <1>3, RelayedRefines, Zenon

(* A transferred read goes to the node its variable refers to. *)
LEMMA TransferReadRefines ==
  ASSUME IInv, NEW n \in Node, NEW m \in InFlight, NEW e \in Node, TransferRead(n, m, e)
  PROVE  Detector!Next
<1> DEFINE p == [m EXCEPT !.to = e, !.transc = m.transc - 1]
<1>1. /\ m \in Message /\ m.kind = "read" /\ m.kind \in WorkKind /\ m.to = n
      /\ m.transc - 1 \in Nat
  BY IInvParts DEF TransferRead, NetInv, GoodNet, InFlight, BagToSet, WorkKind, Message
<1>2. p \in Message /\ p.kind \in WorkKind /\ p.to = e
  BY <1>1 DEF Message, Kind, WorkKind
<1>3. /\ net' = (net (-) SetToBag({m})) (+) SetToBag({p})
      /\ UNCHANGED <<active, susp_msg_list, terminated>>
  BY DEF TransferRead, Received, nodeVars
<1> HIDE DEF p
<1> QED
  BY <1>1, <1>2, <1>3, RelayedRefines, Zenon
-----------------------------------------------------------------------------
(* Weight that comes, goes or is asked for is not work.  A message that is *)
(* not work is posted or taken ...                                         *)
LEMMA WeightPosted ==
  ASSUME IInv, NEW p \in Message, p.kind \notin WorkKind, net' = net (+) SetToBag({p}),
         UNCHANGED <<active, susp_msg_list, terminated>>
  PROVE  UNCHANGED Detector!vars
<1>1. DOMAIN net' = DOMAIN net \cup {p}
  BY Posted, IInvParts DEF NetInv
<1>2. \A d : InNet(d, net') <=> InNet(d, net)
  BY <1>1, OwedPosted
<1> QED
  BY <1>2, Stutters

(* ... and a supply is added to the weight of the node that asked for it.  *)
LEMMA ReceiveSupplyRefines ==
  ASSUME IInv, NEW n \in Node, NEW m \in InFlight, ReceiveSupply(n, m)
  PROVE  UNCHANGED Detector!vars
<1>1. /\ AddNodeWtc(n, m) /\ m.kind \notin WorkKind
      /\ UNCHANGED <<active, susp_msg_list, terminated>>
  BY DEF ReceiveSupply, WorkKind
<1>2. \A d : InNet(d, net') <=> InNet(d, net)
  BY <1>1, AddNodeWtcOwed
<1> QED
  BY <1>1, <1>2, Stutters

(* A suspended message that is sent goes on being owed to its addressee.   *)
LEMMA ResumeMessageRefines ==
  ASSUME IInv, NEW n \in Node, ResumeMessage(n)
  PROVE  UNCHANGED Detector!vars
<1> DEFINE m == Head(susp_msg_list[n])
<1>1. /\ susp_msg_list[n] \in Seq(Message) /\ susp_msg_list[n] # <<>>
      /\ susp_msg_list \in [Node -> Seq(Message)]
  BY IInvParts DEF LocalInv, ResumeMessage
<1>2. /\ net' = net (+) SetToBag({m})
      /\ susp_msg_list' = [susp_msg_list EXCEPT ![n] = Tail(susp_msg_list[n])]
      /\ UNCHANGED <<active, terminated>>
  BY DEF ResumeMessage, Sent
<1>3. /\ m \in Message /\ m = susp_msg_list[n][1] /\ Len(susp_msg_list[n]) >= 1
      /\ Len(Tail(susp_msg_list[n])) = Len(susp_msg_list[n]) - 1
      /\ \A i \in 1..Len(Tail(susp_msg_list[n])) :
           Tail(susp_msg_list[n])[i] = susp_msg_list[n][i + 1]
      /\ Len(susp_msg_list[n]) \in Nat
  BY <1>1, Popped
<1>4. /\ susp_msg_list'[n] = Tail(susp_msg_list[n])
      /\ \A x \in Node \ {n} : susp_msg_list'[x] = susp_msg_list[x]
  BY <1>1, <1>2
<1> HIDE DEF m
<1>5. m.kind \in WorkKind
  <2>1. 1 \in 1..Len(susp_msg_list[n])
    BY <1>3
  <2> QED
    BY <1>3, <2>1, IInvParts DEF LocalInv, SuspendedOK
<1>6. DOMAIN net' = DOMAIN net \cup {m}
  BY <1>2, <1>3, Posted, IInvParts DEF NetInv
<1>7. \A d : InNet(d, net') <=> InNet(d, net) \/ m.to = d
  BY <1>5, <1>6, OwedPosted
<1>8. ASSUME NEW d
      PROVE  InLists(d, susp_msg_list) <=> InLists(d, susp_msg_list') \/ m.to = d
  <2>1. ASSUME InLists(d, susp_msg_list) PROVE InLists(d, susp_msg_list') \/ m.to = d
    <3>1. PICK x \in Node : \E i \in 1..Len(susp_msg_list[x]) :
                             susp_msg_list[x][i].to = d
      BY <2>1 DEF InLists
    <3>2. PICK i \in 1..Len(susp_msg_list[x]) : susp_msg_list[x][i].to = d
      BY <3>1
    <3>3. CASE x # n
      BY <1>4, <3>2, <3>3 DEF InLists
    <3>4. CASE x = n /\ i = 1
      BY <1>3, <3>2, <3>4
    <3>5. CASE x = n /\ i # 1
      <4>1. /\ i - 1 \in 1..Len(susp_msg_list'[n])
            /\ susp_msg_list'[n][i - 1] = susp_msg_list[n][i]
        BY <1>3, <1>4, <3>5
      <4> QED
        BY <3>2, <3>5, <4>1 DEF InLists
    <3> QED
      BY <3>3, <3>4, <3>5
  <2>2. ASSUME InLists(d, susp_msg_list') PROVE InLists(d, susp_msg_list)
    <3>1. PICK x \in Node : \E i \in 1..Len(susp_msg_list'[x]) :
                             susp_msg_list'[x][i].to = d
      BY <2>2 DEF InLists
    <3>2. PICK i \in 1..Len(susp_msg_list'[x]) : susp_msg_list'[x][i].to = d
      BY <3>1
    <3>3. CASE x # n
      BY <1>4, <3>2, <3>3 DEF InLists
    <3>4. CASE x = n
      <4>1. i \in 1..Len(Tail(susp_msg_list[n]))
        BY <1>4, <3>4
      <4> DEFINE l == Len(susp_msg_list[n])
                 k == Len(Tail(susp_msg_list[n]))
      <4>2. l \in Nat /\ k = l - 1 /\ i \in 1..k
        BY <1>3, <4>1
      <4> HIDE DEF l, k
      <4>3. i + 1 \in 1..l
        BY <4>2
      <4>4. i \in 1..Len(Tail(susp_msg_list[n])) /\ i + 1 \in 1..Len(susp_msg_list[n])
        BY <4>1, <4>3 DEF l
      <4>5. susp_msg_list'[n][i] = susp_msg_list[n][i + 1]
        BY <1>3, <1>4, <4>4
      <4> QED
        BY <3>2, <3>4, <4>4, <4>5 DEF InLists
    <3> QED
      BY <3>3, <3>4
  <2>3. ASSUME m.to = d PROVE InLists(d, susp_msg_list)
    <3>1. 1 \in 1..Len(susp_msg_list[n])
      BY <1>3
    <3> QED
      BY <1>3, <2>3, <3>1 DEF InLists
  <2> QED
    BY <2>1, <2>2, <2>3
<1>9. \A d : InNet(d, net') \/ InLists(d, susp_msg_list')
             <=> InNet(d, net) \/ InLists(d, susp_msg_list)
  BY <1>7, <1>8
<1> QED
  BY <1>2, <1>9, Stutters

(* The shoen takes messages that are not work, and sends supplies. *)
LEMMA ShoenRefines ==
  ASSUME IInv, NEW m \in InFlight, ShoenRequest(m) \/ ShoenReturn(m)
  PROVE  UNCHANGED Detector!vars
<1> DEFINE r == net (-) SetToBag({m})
           p == Supply(m.from)
           a == r (+) SetToBag({p})
<1>1. m \in DOMAIN net /\ GoodNet(net) /\ m.kind \notin WorkKind
  BY IInvParts DEF NetInv, InFlight, BagToSet, ShoenRequest, ShoenReturn, WorkKind
<1>2. /\ net' = r \/ (net' = a /\ m.kind = "request")
      /\ UNCHANGED <<active, susp_msg_list, terminated>>
  BY DEF ShoenRequest, ShoenReturn, Received, nodeVars
<1>3. m.kind = "request" => p \in Message
  BY Units, <1>1, IInvParts
     DEF NetInv, MessagesOK, MessageOK, InFlight, BagToSet, Supply, Message, Kind
<1>4. p.kind \notin WorkKind
  BY DEF Supply, WorkKind
<1>5. /\ GoodNet(r) /\ DOMAIN r \subseteq DOMAIN net
      /\ \A x : x # m /\ x \in DOMAIN net => x \in DOMAIN r
  BY <1>1, Taken
<1> HIDE DEF r, p
<1>6. m.kind = "request" => DOMAIN a = DOMAIN r \cup {p}
  BY <1>3, <1>5, Posted
<1> HIDE DEF a
<1>7. \A d : InNet(d, r) <=> InNet(d, net)
  BY <1>1, <1>5, OwedTaken
<1>8. m.kind = "request" => \A d : InNet(d, a) <=> InNet(d, r)
  BY <1>4, <1>6, OwedPosted
<1>9. \A d : InNet(d, net') <=> InNet(d, net)
  BY <1>2, <1>7, <1>8
<1> QED
  BY <1>2, <1>9, Stutters

(* %terminate is the detector's Detect: all is quiet by then. *)
LEMMA TerminateRefines ==
  ASSUME IInv, Terminate
  PROVE  Detector!Next
<1>1. /\ shoen_wtc = 0 /\ terminated' = TRUE
      /\ UNCHANGED <<active, susp_msg_list, net>>
  BY DEF Terminate, nodeVars
<1>2. net = EmptyBag /\ \A n \in Node : ~active[n] /\ susp_msg_list[n] = <<>>
  BY <1>1, NothingLeft
<1>3. DOMAIN net = {} /\ \A n \in Node : Len(susp_msg_list[n]) = 0
  BY <1>2 DEF EmptyBag, SetToBag
<1>4. Owed = {} /\ Owed' = Owed
  <2>1. Owed = {}
    BY <1>3, OwedMember DEF InNet, InLists
  <2>2. Owed' = Owed
    BY <1>1 DEF Owed, InFlight, Elements
  <2> QED
    BY <2>1, <2>2
<1>5. Busy = {} /\ Busy' = Busy
  BY <1>1, <1>2 DEF Busy
<1>6. Detector!Detect
  BY <1>1, <1>4, <1>5 DEF Detector!Detect, Detector!Quiescent
<1> QED
  BY <1>6 DEF Detector!Next
-----------------------------------------------------------------------------
(* Every step of the runtime is one of the detector, or stutters. *)
LEMMA NextRefines ==
  ASSUME IInv, [Next]_vars
  PROVE  [Detector!Next]_(Detector!vars)
<1>1. ASSUME NEW n \in Node, NodeStep(n) PROVE [Detector!Next]_(Detector!vars)
  <2>1. ASSUME NEW m \in Outgoing(n), SendMessage(n, m) \/ SuspendMessage(n, m)
        PROVE  Detector!Next
    BY <2>1, SendMessageRefines, SuspendMessageRefines
  <2>2. ASSUME ReturnAllWtc(n) PROVE UNCHANGED Detector!vars
    <3> DEFINE p == Return(n, node_wtc[n])
    <3>1. p \in Message /\ p.kind \notin WorkKind
      BY IInvParts DEF LocalInv, Return, Message, Kind, WorkKind
    <3>2. net' = net (+) SetToBag({p}) /\ UNCHANGED <<active, susp_msg_list, terminated>>
      BY <2>2 DEF ReturnAllWtc, Sent
    <3> HIDE DEF p
    <3> QED
      BY <3>1, <3>2, WeightPosted
  <2>3. ASSUME NEW m \in InFlight, ReceiveWork(n, m) \/ AnswerRead(n, m)
        PROVE  Detector!Next
    BY <2>3, ReceiveWorkRefines, AnswerReadRefines
  <2>4. ASSUME NEW m \in InFlight, NEW d \in Node, TransferRead(n, m, d)
        PROVE  Detector!Next
    BY <2>4, TransferReadRefines
  <2>5. ASSUME NEW m \in InFlight, ReceiveSupply(n, m) PROVE UNCHANGED Detector!vars
    BY <2>5, ReceiveSupplyRefines
  <2>6. ASSUME ResumeMessage(n) PROVE UNCHANGED Detector!vars
    BY <2>6, ResumeMessageRefines
  <2>7. ASSUME RequestAgain(n) PROVE UNCHANGED Detector!vars
    <3> DEFINE p == Request(n)
    <3>1. p \in Message /\ p.kind \notin WorkKind
      BY DEF Request, Message, Kind, WorkKind
    <3>2. net' = net (+) SetToBag({p}) /\ UNCHANGED <<active, susp_msg_list, terminated>>
      BY <2>7 DEF RequestAgain, RequestWtc, Sent
    <3> HIDE DEF p
    <3> QED
      BY <3>1, <3>2, WeightPosted
  <2>8. ASSUME AllResumed(n) PROVE UNCHANGED Detector!vars
    BY <2>8, Stutters DEF AllResumed
  <2> QED
    BY <1>1, <2>1, <2>2, <2>3, <2>4, <2>5, <2>6, <2>7, <2>8, Zenon DEF NodeStep
<1>2. ASSUME NEW n \in Node, BecomeIdle(n) PROVE Detector!Next
  BY <1>2, BecomeIdleRefines
<1>3. ASSUME NEW m \in InFlight, ShoenRequest(m) \/ ShoenReturn(m)
      PROVE  UNCHANGED Detector!vars
  BY <1>3, ShoenRefines
<1>4. ASSUME Terminate PROVE Detector!Next
  BY <1>4, TerminateRefines
<1>5. ASSUME Exited \/ UNCHANGED vars PROVE UNCHANGED Detector!vars
  BY <1>5, Stutters DEF Exited, vars, nodeVars
<1> QED
  BY <1>1, <1>2, <1>3, <1>4, <1>5, Zenon DEF Next, ShoenStep

(* Every behaviour of the runtime's protocol is one of the termination     *)
(* detector: the end it declares is a real end, for any nodes and units.   *)
THEOREM DetectorImplemented == Spec => Detector!Safety
<1>1. Init => Detector!Init
  BY InitRefines
<1>2. IInv /\ [Next]_vars => [Detector!Next]_(Detector!vars)
  BY NextRefines
<1> QED
  BY <1>1, <1>2, Invariance, PTL DEF Spec, Detector!Safety
=============================================================================
