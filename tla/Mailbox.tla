------------------------------- MODULE Mailbox -------------------------------
(***************************************************************************)
(* What a node may expect of the transport below it: a message posted to a *)
(* node is in that node's box once, and the boxes are emptied in the order *)
(* they were filled in.                                                    *)
(***************************************************************************)
EXTENDS Naturals, Sequences

CONSTANTS Node, Msg

VARIABLES
  box,              \* box[d]: the messages for d that it has not handled
  posted            \* the messages that have been put into a box

Init == box = [d \in Node |-> <<>>] /\ posted = {}

Post(d, m) ==
  /\ m \notin posted
  /\ posted' = posted \cup {m}
  /\ box' = [box EXCEPT ![d] = Append(@, m)]

Handle(d) ==
  /\ box[d] # <<>>
  /\ box' = [box EXCEPT ![d] = Tail(@)]
  /\ UNCHANGED posted

Next == \E d \in Node : Handle(d) \/ \E m \in Msg : Post(d, m)

vars == <<box, posted>>
Spec == Init /\ [][Next]_vars
=============================================================================
