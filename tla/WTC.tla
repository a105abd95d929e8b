-------------------------------- MODULE WTC --------------------------------
(***************************************************************************)
(* Weighted throw counting: how the distributed KLIC runtime finds out     *)
(* that a program has ended.  Every node holds some weight (node_wtc) while *)
(* it has goals, every message that can make a goal runnable carries some, *)
(* and the shoen node, an extra process that runs no goals, holds the debt *)
(* (shoen_wtc): the sum is zero, so a shoen at zero means there is no      *)
(* weight, hence no work, anywhere.  A node that runs short of weight      *)
(* suspends its messages on susp_msg_list and asks the shoen for more.     *)
(* The goals themselves are abstracted to active[n]: n has some, runnable  *)
(* or suspended (suspensions # resumes).                                   *)
(***************************************************************************)
EXTENDS Integers, Sequences, FiniteSets, Bags

CONSTANTS
  Node,             \* the nodes that reduce goals
  Master,           \* the node that starts with the goal main:main
  Shoen,            \* the node that holds the debt
  SUPPLY_WTC_UNIT, RETURN_WTC_UNIT, NODE_WTC_LIMIT, MIN_WTC,
  THROW_WTC_UNIT, UNIFY_WTC_UNIT, READ_WTC_UNIT, ANSWER_WTC_UNIT,
  TRANSFER_CNT,     \* how often a read may be passed on
  MaxSends          \* bound: the messages the program's goals send in all

ASSUME NodeAssumption == Master \in Node /\ Shoen \notin Node

(* SUPPLY_WTC_UNIT is what a node gets for one request: enough for the      *)
(* largest message, MIN_WTC to keep and one more.                           *)
ASSUME UnitAssumption ==
  /\ MIN_WTC = 2
  /\ {THROW_WTC_UNIT, UNIFY_WTC_UNIT, READ_WTC_UNIT, ANSWER_WTC_UNIT}
       \subseteq {u \in Nat : u >= MIN_WTC /\ u + MIN_WTC <= SUPPLY_WTC_UNIT}
  /\ {SUPPLY_WTC_UNIT, RETURN_WTC_UNIT, NODE_WTC_LIMIT} \subseteq Nat \ {0}
  /\ RETURN_WTC_UNIT + MIN_WTC <= NODE_WTC_LIMIT

ASSUME BoundAssumption == TRANSFER_CNT \in Nat /\ MaxSends \in Nat

VARIABLES
  active,           \* active[n]: n has goals, runnable or suspended
  node_wtc,         \* the weight n holds
  requesting_wtc,   \* n waits for a supply
  susp_msg_list,    \* the messages n could not pay for, last one first
  resuming,         \* n is in the loop of message_resume()
  shoen_wtc,        \* minus the weight the shoen has given out
  net,              \* the messages in flight, a bag
  terminated,       \* the shoen has sent %terminate to every node
  sends             \* messages sent by goals so far (see MaxSends)

nodeVars == <<active, node_wtc, requesting_wtc, susp_msg_list, resuming>>
vars == <<nodeVars, shoen_wtc, net, terminated, sends>>

-----------------------------------------------------------------------------
(* Messages.  The two kinds the shoen takes and the one it sends only move *)
(* weight; the four kinds of work messages move weight and work.           *)

WorkKind == {"throw", "unify", "read", "answer"}
Kind == WorkKind \cup {"request", "supply", "return"}

Message == [kind : Kind, from : Node \cup {Shoen}, to : Node \cup {Shoen},
            transc : Nat, wtc : Nat]

WtcUnit == [throw |-> THROW_WTC_UNIT, unify |-> UNIFY_WTC_UNIT,
            read |-> READ_WTC_UNIT, answer |-> ANSWER_WTC_UNIT]

(* What a goal of n may send, encoded with the full unit of its kind.  The *)
(* sender of a read is the node the answer goes to.                        *)
Outgoing(n) ==
  {[kind |-> k, from |-> n, to |-> d,
    transc |-> IF k = "read" THEN TRANSFER_CNT ELSE 0, wtc |-> WtcUnit[k]] :
      k \in WorkKind, d \in Node \ {n}}

Request(n) == [kind |-> "request", from |-> n, to |-> Shoen, transc |-> 0, wtc |-> 1]
Supply(n)  == [kind |-> "supply", from |-> Shoen, to |-> n, transc |-> 0,
               wtc |-> SUPPLY_WTC_UNIT]
Return(n, w) == [kind |-> "return", from |-> n, to |-> Shoen, transc |-> 0, wtc |-> w]

InFlight == BagToSet(net)
Sent(m) == net (+) SetToBag({m})
Received(m) == net (-) SetToBag({m})
CopiesOf(m) == IF BagIn(m, net) THEN net[m] ELSE 0

-----------------------------------------------------------------------------
(* get_wtc(): what a node holding w gives to a message that asks for r,    *)
(* zero when it would keep, or give, less than MIN_WTC.                    *)
Share(w, r) == IF w >= 2 * r THEN r ELSE w \div 2
GetWtc(w, r) ==
  IF Share(w, r) >= MIN_WTC /\ w - Share(w, r) >= MIN_WTC THEN Share(w, r) ELSE 0
GetFullWtc(w, r) == IF w - r >= MIN_WTC THEN r ELSE 0

(* Defect: the unit spent on a pending request is not allowed for. *)
InvalidWtc_Strict(n) == node_wtc[n] < MIN_WTC

(* get_wtc() stops the system with "Invalid WTC" when a node without       *)
(* MIN_WTC sends, unless it has spent the missing one on a request.        *)
InvalidWtc(n) == /\ node_wtc[n] < MIN_WTC
                 /\ ~(requesting_wtc[n] /\ node_wtc[n] + 1 >= MIN_WTC)

(* add_node_wtc(): a node beyond the limit gives some weight back at once. *)
Surplus_WrongLimit(w) == w > MIN_WTC  \* Defect: another constant
Surplus(w) == w > NODE_WTC_LIMIT
AfterAdd(w) == IF Surplus(w) THEN w - RETURN_WTC_UNIT ELSE w
AddNodeWtc(n, m) ==
  /\ node_wtc' = [node_wtc EXCEPT ![n] = AfterAdd(@ + m.wtc)]
  /\ net' = IF Surplus(node_wtc[n] + m.wtc)
            THEN Received(m) (+) SetToBag({Return(n, RETURN_WTC_UNIT)})
            ELSE Received(m)

(* send_request_wtc(): the request itself carries one. *)
RequestWtc(n) ==
  /\ node_wtc[n] - 1 >= 1
  /\ node_wtc' = [node_wtc EXCEPT ![n] = @ - 1]
  /\ requesting_wtc' = [requesting_wtc EXCEPT ![n] = TRUE]
  /\ net' = Sent(Request(n))

-----------------------------------------------------------------------------
Init ==
  /\ active = [n \in Node |-> n = Master]
  /\ node_wtc = [n \in Node |-> IF n = Master THEN SUPPLY_WTC_UNIT ELSE 0]
  /\ requesting_wtc = [n \in Node |-> FALSE]
  /\ susp_msg_list = [n \in Node |-> <<>>]
  /\ resuming = [n \in Node |-> FALSE]
  /\ shoen_wtc = -SUPPLY_WTC_UNIT
  /\ net = EmptyBag
  /\ terminated = FALSE
  /\ sends = 0

(* A goal of n sends a message: send_throw_goal, send_unify, send_read,    *)
(* send_answer_value.                                                      *)
Emit(n, m) == /\ active[n] /\ ~resuming[n] /\ ~InvalidWtc(n)
              /\ m \in Outgoing(n)
              /\ sends < MaxSends
              /\ sends' = sends + 1
              /\ UNCHANGED <<active, resuming, shoen_wtc, terminated>>

SendMessage(n, m) ==
  LET w == GetWtc(node_wtc[n], m.wtc)
  IN /\ w # 0
     /\ Emit(n, m)
     /\ node_wtc' = [node_wtc EXCEPT ![n] = @ - w]
     /\ net' = Sent([m EXCEPT !.wtc = w])
     /\ UNCHANGED <<requesting_wtc, susp_msg_list>>

(* Defect: message_suspend() asks for a supply every time. *)
SuspendMessage_AlwaysRequests(n, m) ==
  /\ GetWtc(node_wtc[n], m.wtc) = 0
  /\ Emit(n, m)
  /\ susp_msg_list' = [susp_msg_list EXCEPT ![n] = <<m>> \o @]
  /\ RequestWtc(n)

(* message_suspend() keeps it, with the unit it was encoded with. *)
SuspendMessage(n, m) ==
  /\ GetWtc(node_wtc[n], m.wtc) = 0
  /\ Emit(n, m)
  /\ susp_msg_list' = [susp_msg_list EXCEPT ![n] = <<m>> \o @]
  /\ \/ requesting_wtc[n] /\ UNCHANGED <<node_wtc, requesting_wtc, net>>
     \/ ~requesting_wtc[n] /\ RequestWtc(n)

(* The last goal of n ends and none of its goals is suspended. *)
BecomeIdle(n) ==
  /\ active[n] /\ ~resuming[n]
  /\ active' = [active EXCEPT ![n] = FALSE]
  /\ UNCHANGED <<node_wtc, requesting_wtc, susp_msg_list, resuming,
                 shoen_wtc, net, terminated, sends>>

(* Defects: a node returns its weight while goals of its own are suspended, *)
(* while it has messages to send, or all but one unit of it.               *)
ReturnAllWtc_NotIdle(n) ==
  /\ ~resuming[n] /\ susp_msg_list[n] = <<>> /\ node_wtc[n] # 0
  /\ node_wtc' = [node_wtc EXCEPT ![n] = 0]
  /\ net' = Sent(Return(n, node_wtc[n]))
  /\ UNCHANGED <<active, requesting_wtc, susp_msg_list, resuming, shoen_wtc,
                 terminated, sends>>
ReturnAllWtc_StillSending(n) ==
  /\ ~active[n] /\ ~resuming[n] /\ node_wtc[n] # 0
  /\ node_wtc' = [node_wtc EXCEPT ![n] = 0]
  /\ net' = Sent(Return(n, node_wtc[n]))
  /\ UNCHANGED <<active, requesting_wtc, susp_msg_list, resuming, shoen_wtc,
                 terminated, sends>>
ReturnAllWtc_KeepsOne(n) ==
  /\ ~active[n] /\ ~resuming[n] /\ susp_msg_list[n] = <<>> /\ node_wtc[n] > 1
  /\ node_wtc' = [node_wtc EXCEPT ![n] = 1]
  /\ net' = Sent(Return(n, node_wtc[n] - 1))
  /\ UNCHANGED <<active, requesting_wtc, susp_msg_list, resuming, shoen_wtc,
                 terminated, sends>>

(* topsucceed(): an idle node gives all its weight back. *)
ReturnAllWtc(n) ==
  /\ ~active[n] /\ ~resuming[n] /\ susp_msg_list[n] = <<>>
  /\ node_wtc[n] # 0
  /\ node_wtc' = [node_wtc EXCEPT ![n] = 0]
  /\ net' = Sent(Return(n, node_wtc[n]))
  /\ UNCHANGED <<active, requesting_wtc, susp_msg_list, resuming, shoen_wtc,
                 terminated, sends>>

(* decode_throw_goal, decode_unify, decode_answer_value, and decode_read   *)
(* when the variable is still unbound (a reply hook is left on it) or the  *)
(* reader is n itself.  Only a thrown goal is sure to make n active; the   *)
(* others may resume goals.                                                *)
ReceiveWork(n, m) ==
  /\ m.kind \in WorkKind /\ m.to = n /\ ~resuming[n]
  /\ AddNodeWtc(n, m)
  /\ active' \in {active, [active EXCEPT ![n] = TRUE]}
  /\ m.kind = "throw" => active'[n]
  /\ UNCHANGED <<requesting_wtc, susp_msg_list, resuming, shoen_wtc, terminated,
                 sends>>

(* decode_read when the value is there: the answer takes the weight of the *)
(* read, which never becomes part of node_wtc.                             *)
AnswerRead(n, m) ==
  /\ m.kind = "read" /\ m.to = n /\ m.from # n /\ ~resuming[n]
  /\ net' = Received(m) (+) SetToBag({[m EXCEPT !.kind = "answer", !.from = n,
                                               !.to = m.from, !.transc = 0]})
  /\ UNCHANGED <<nodeVars, shoen_wtc, terminated, sends>>

(* transfer_read(): the variable is itself a reference to node d. *)
TransferRead(n, m, d) ==
  /\ m.kind = "read" /\ m.to = n /\ m.from # n /\ ~resuming[n]
  /\ m.transc - 1 > 0
  /\ d # n
  /\ net' = Received(m) (+) SetToBag({[m EXCEPT !.to = d, !.transc = @ - 1]})
  /\ UNCHANGED <<nodeVars, shoen_wtc, terminated, sends>>

-----------------------------------------------------------------------------
(* decode_supply_wtc().  Its loop, message_resume(), sends the suspended   *)
(* messages one by one: other processes run between two of them, but n     *)
(* does nothing else until the loop ends, which resuming[n] records.       *)
ReceiveSupply(n, m) ==
  /\ m.kind = "supply" /\ m.to = n /\ ~resuming[n]
  /\ requesting_wtc[n]
  /\ AddNodeWtc(n, m)
  /\ requesting_wtc' = [requesting_wtc EXCEPT ![n] = FALSE]
  /\ resuming' = [resuming EXCEPT ![n] = TRUE]
  /\ UNCHANGED <<active, susp_msg_list, shoen_wtc, terminated, sends>>

ResumeMessage(n) ==
  LET m == Head(susp_msg_list[n])
      w == GetFullWtc(node_wtc[n], m.wtc)
  IN /\ resuming[n] /\ susp_msg_list[n] # <<>> /\ w # 0
     /\ node_wtc' = [node_wtc EXCEPT ![n] = @ - w]
     /\ net' = Sent(m)
     /\ susp_msg_list' = [susp_msg_list EXCEPT ![n] = Tail(@)]
     /\ UNCHANGED <<active, requesting_wtc, resuming, shoen_wtc, terminated, sends>>

(* Defect: the loop ends early and nothing asks for the next supply. *)
RequestAgain_Forgotten(n) ==
  /\ resuming[n] /\ susp_msg_list[n] # <<>>
  /\ GetFullWtc(node_wtc[n], Head(susp_msg_list[n]).wtc) = 0
  /\ requesting_wtc' = [requesting_wtc EXCEPT ![n] = TRUE]
  /\ resuming' = [resuming EXCEPT ![n] = FALSE]
  /\ UNCHANGED <<active, node_wtc, net, susp_msg_list, shoen_wtc, terminated,
                 sends>>

RequestAgain(n) ==
  /\ resuming[n] /\ susp_msg_list[n] # <<>>
  /\ GetFullWtc(node_wtc[n], Head(susp_msg_list[n]).wtc) = 0
  /\ RequestWtc(n)
  /\ resuming' = [resuming EXCEPT ![n] = FALSE]
  /\ UNCHANGED <<active, susp_msg_list, shoen_wtc, terminated, sends>>

AllResumed(n) ==
  /\ resuming[n] /\ susp_msg_list[n] = <<>>
  /\ resuming' = [resuming EXCEPT ![n] = FALSE]
  /\ UNCHANGED <<active, node_wtc, requesting_wtc, susp_msg_list, shoen_wtc, net,
                 terminated, sends>>

-----------------------------------------------------------------------------
(* Defect: the unit the request carried is not added to the debt. *)
ShoenRequest_UnitLost(m) ==
  /\ m.kind = "request" /\ ~terminated
  /\ shoen_wtc' = shoen_wtc - SUPPLY_WTC_UNIT
  /\ net' = Received(m) (+) SetToBag({Supply(m.from)})
  /\ UNCHANGED <<nodeVars, terminated, sends>>

(* The shoen: decode_request_wtc() with send_supply_wtc(), and             *)
(* decode_return_wtc().                                                    *)
ShoenRequest(m) ==
  /\ m.kind = "request" /\ ~terminated
  /\ shoen_wtc' = shoen_wtc + 1 - SUPPLY_WTC_UNIT
  /\ net' = Received(m) (+) SetToBag({Supply(m.from)})
  /\ UNCHANGED <<nodeVars, terminated, sends>>

ShoenReturn(m) ==
  /\ m.kind = "return" /\ ~terminated
  /\ shoen_wtc' = shoen_wtc + m.wtc
  /\ net' = Received(m)
  /\ UNCHANGED <<nodeVars, terminated, sends>>

(* topsucceed() on the shoen: it runs after every batch of messages. *)
Terminate ==
  /\ ~terminated /\ shoen_wtc = 0
  /\ terminated' = TRUE
  /\ UNCHANGED <<nodeVars, shoen_wtc, net, sends>>

(* The processes have exited. *)
Exited == terminated /\ UNCHANGED vars

-----------------------------------------------------------------------------
NodeStep(n) ==
  \/ \E m \in Outgoing(n) : SendMessage(n, m) \/ SuspendMessage(n, m)
  \/ ReturnAllWtc(n)
  \/ \E m \in InFlight : \/ ReceiveWork(n, m)
                         \/ AnswerRead(n, m)
                         \/ \E d \in Node : TransferRead(n, m, d)
                         \/ ReceiveSupply(n, m)
  \/ ResumeMessage(n) \/ RequestAgain(n) \/ AllResumed(n)

ShoenStep == (\E m \in InFlight : ShoenRequest(m) \/ ShoenReturn(m)) \/ Terminate

Next == (\E n \in Node : NodeStep(n) \/ BecomeIdle(n)) \/ ShoenStep \/ Exited

Spec == Init /\ [][Next]_vars

(* The runtime's own steps: every process polls its messages in            *)
(* klic_interrupt() and the transport loses none.                          *)
RuntimeStep(n) ==
  \/ ReturnAllWtc(n)
  \/ \E m \in InFlight : ReceiveWork(n, m) \/ ReceiveSupply(n, m)
  \/ ResumeMessage(n) \/ RequestAgain(n) \/ AllResumed(n)

FairSpec == /\ Spec
            /\ \A n \in Node : WF_vars(RuntimeStep(n))
            /\ WF_vars(ShoenStep)
-----------------------------------------------------------------------------
(* The variables have values the program can give them. *)
TypeOK ==
  /\ active \in [Node -> BOOLEAN]
  /\ node_wtc \in [Node -> Nat]
  /\ requesting_wtc \in [Node -> BOOLEAN]
  /\ susp_msg_list \in [Node -> Seq(Message)]
  /\ resuming \in [Node -> BOOLEAN]
  /\ shoen_wtc \in Int
  /\ IsABag(net) /\ InFlight \subseteq Message
  /\ terminated \in BOOLEAN
  /\ sends \in 0..MaxSends

(* Every unit of weight, as an element of a set: the k-th unit node n       *)
(* holds, and the k-th unit carried by the c-th copy of a message.         *)
NodeUnits(w) == UNION {{n} \X (1..w[n]) : n \in Node}
Copies(b) == UNION {{m} \X (1..b[m]) : m \in DOMAIN b}
MessageUnits(b) == UNION {{c} \X (1..c[1].wtc) : c \in Copies(b)}

(* No handler of any node or of the shoen creates or loses weight: what    *)
(* the shoen is owed is what the nodes and the messages have.              *)
WtcConserved == shoen_wtc + Cardinality(NodeUnits(node_wtc)) + Cardinality(MessageUnits(net)) = 0

(* No process ever reaches one of the fatal() calls of the protocol: in    *)
(* get_wtc() and encode_request_wtc() ("Invalid WTC"), decode_supply_wtc() *)
(* ("Not requesting wtc now") and topsucceed() ("illegal WTC").            *)
NeverFatal ==
  /\ \A n \in Node : active[n] /\ ~resuming[n] => ~InvalidWtc(n)
  /\ \A n \in Node : active[n] /\ ~requesting_wtc[n] => node_wtc[n] - 1 >= 1
  /\ \A n \in Node : resuming[n] => ~InvalidWtc(n)
  /\ \A m \in InFlight : m.kind = "supply" => requesting_wtc[m.to]
  /\ shoen_wtc <= 0

(* A node with messages on susp_msg_list has exactly one request or one    *)
(* supply on its way, so a supply comes for every request and none is      *)
(* asked for twice; a node without such messages has none on its way.      *)
OneSupplyPerRequest ==
  \A n \in Node :
    /\ CopiesOf(Request(n)) + CopiesOf(Supply(n))
         = (IF requesting_wtc[n] THEN 1 ELSE 0)
    /\ ~resuming[n] => (requesting_wtc[n] <=> susp_msg_list[n] # <<>>)

(* The computation has ended: no node has a goal, a message it still has   *)
(* to send, or work on its way.                                            *)
Quiescent ==
  /\ \A n \in Node : ~active[n] /\ susp_msg_list[n] = <<>>
  /\ \A m \in InFlight : m.kind \notin WorkKind

(* The shoen kills the processes only after the computation has ended and  *)
(* with no message of this protocol on its way, so that nothing is cut off *)
(* (a %release, which has no weight and brings no work, may still be).     *)
TerminatedSafely == terminated => Quiescent /\ net = EmptyBag

(* A node gives up its last unit of weight only in topsucceed(), when it   *)
(* has no goal and no message left to send; sending, requesting and        *)
(* returning a surplus always leave it some.                               *)
LastUnitOnlyWhenIdle ==
  [][\A n \in Node : node_wtc[n] > 0 /\ node_wtc'[n] = 0
        => ~active[n] /\ susp_msg_list[n] = <<>>]_vars

(* A suspended message is sent in the end, whatever the other nodes do.    *)
SuspendedSent ==
  \A n \in Node : susp_msg_list[n] # <<>> ~> susp_msg_list[n] = <<>>

(* The protocol implements the termination detector, its promise included  *)
(* that the shoen finds out when the computation has ended: nodes are busy *)
(* when they have goals, and work is owed to the addressee of a message in *)
(* flight or still on a susp_msg_list.                                     *)
Elements(s) == {s[i] : i \in 1..Len(s)}
Busy == {n \in Node : active[n]}
Owed == {m.to : m \in {x \in InFlight : x.kind \in WorkKind}}
          \cup UNION {{m.to : m \in Elements(susp_msg_list[n])} : n \in Node}
Detector == INSTANCE TerminationDetection WITH busy <- Busy, owed <- Owed
ImplementsDetector == Detector!Spec
=============================================================================
