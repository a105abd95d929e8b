----------------------------- MODULE StreamMerge -----------------------------
(***************************************************************************)
(* What a merger promises: its output is made of the messages of its       *)
(* inputs, each once and those of an input in their order, and it ends     *)
(* when the last input does.  A stream that ends with a vector of streams  *)
(* stands for inputs from all of these.                                    *)
(***************************************************************************)
EXTENDS Naturals, Sequences

CONSTANTS Stream, Root, Length, Last, None

VARIABLES
  fed,              \* fed[s]: how much of s there is, its end counted as one
  inputs,           \* the inputs: a stream, how much of it is read, and where it came from
  out, ended        \* the output, and if it is complete

Init ==
  /\ fed = [s \in Stream |-> 0]
  /\ inputs = {[stream |-> Root, at |-> 0, path |-> <<>>]}
  /\ out = <<>> /\ ended = FALSE

Send(s) ==
  /\ fed[s] <= Length[s]
  /\ fed' = [fed EXCEPT ![s] = @ + 1]
  /\ UNCHANGED <<inputs, out, ended>>

Take(x) ==
  /\ x.at < Length[x.stream]
  /\ out' = Append(out, <<x.stream, x.at>>)
  /\ inputs' = (inputs \ {x}) \cup {[x EXCEPT !.at = @ + 1]}
  /\ UNCHANGED <<fed, ended>>

Leave(x) ==
  /\ x.at = Length[x.stream]
  /\ LET ss == Last[x.stream] IN
     inputs' = (inputs \ {x}) \cup
                 IF ss = None THEN {}
                 ELSE {[stream |-> ss[i], at |-> 0, path |-> Append(x.path, i)] : i \in DOMAIN ss}
  /\ ended' = (inputs' = {})
  /\ UNCHANGED <<fed, out>>

Next ==
  \/ \E s \in Stream : Send(s)
  \/ \E x \in inputs : x.at < fed[x.stream] /\ (Take(x) \/ Leave(x))

vars == <<fed, inputs, out, ended>>
Spec == Init /\ [][Next]_vars
=============================================================================
