------------------------ MODULE TerminationDetection ------------------------
(***************************************************************************)
(* What the shoen node of a distributed KLIC program promises: it declares *)
(* the program finished only when no node has a goal left and no message   *)
(* that could make a goal runnable is on its way, and it does declare it   *)
(* once that is so.  Nothing is said of how it finds out.                  *)
(***************************************************************************)

CONSTANT Node

VARIABLES busy,       \* the nodes that have a goal, runnable or suspended
          owed,       \* the nodes that some unprocessed work is addressed to
          terminated  \* the shoen has told every node to exit

vars == <<busy, owed, terminated>>

TypeOK == /\ busy \in SUBSET Node
          /\ owed \in SUBSET Node
          /\ terminated \in BOOLEAN

Init == /\ busy \in SUBSET Node
        /\ owed = {}
        /\ terminated = FALSE

Quiescent == busy = {} /\ owed = {}

(* A busy node addresses work to another one. *)
Assign(n, d) == /\ n \in busy
                /\ owed' = owed \cup {d}
                /\ UNCHANGED <<busy, terminated>>

(* A node takes up work addressed to it, perhaps not the last of it. *)
Take(n) == /\ n \in owed
           /\ owed' \in {owed, owed \ {n}}
           /\ busy' \in {busy, busy \cup {n}}
           /\ UNCHANGED terminated

(* A node, even one with nothing else to do, passes work on to another. *)
Forward(n, d) == /\ n \in owed
                 /\ owed' \in {owed \cup {d}, (owed \ {n}) \cup {d}}
                 /\ UNCHANGED <<busy, terminated>>

Finish(n) == /\ n \in busy
             /\ busy' = busy \ {n}
             /\ UNCHANGED <<owed, terminated>>

Detect == /\ Quiescent
          /\ terminated' = TRUE
          /\ UNCHANGED <<busy, owed>>

Next == \/ \E n, d \in Node : Assign(n, d) \/ Forward(n, d)
        \/ \E n \in Node : Take(n) \/ Finish(n)
        \/ Detect

Safety == Init /\ [][Next]_vars

Spec == Safety /\ WF_vars(Detect)

=============================================================================
