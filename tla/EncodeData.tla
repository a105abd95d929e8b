----------------------------- MODULE EncodeData -----------------------------
(***************************************************************************)
(* How a term becomes the code of a message: a program for the decoder of  *)
(* the receiver, a stack machine.  A term is a sequence, of a principal    *)
(* functor and arguments: <<".", car, cdr>> is a list cell, and a term     *)
(* without arguments an atom.                                              *)
(***************************************************************************)
EXTENDS Integers, SequencesExt

CONSTANTS
  Term,       \* the terms, with their arguments
  Depth       \* the depths, -1 and 0 among them

Arity(t) == Len(t) - 1

(* encode_data(): below the given depth (without end if it is negative) a  *)
(* reference is sent that stands for the term.  The loop along the cdrs of *)
(* a list, which puts all its decode_list at the end, comes to the same.   *)
EncodeData[t \in Term, depth \in Depth] ==
  IF Arity(t) = 0 THEN <<[op |-> "atom", term |-> t]>>
  ELSE IF depth = 0 THEN <<[op |-> "exref", term |-> t]>>
  ELSE FlattenSeq([i \in 1..Arity(t) |-> EncodeData[t[i + 1], IF depth > 0 THEN depth - 1 ELSE depth]])
         \o IF Head(t) = "." THEN <<[op |-> "list"]>>
            ELSE <<[op |-> "funct", name |-> Head(t), arity |-> Arity(t)]>>

(* A message: its arguments, then its own decoder.                         *)
EncodeMessage(kind, args, depth) ==
  [args |-> args,
   code |-> FlattenSeq([i \in DOMAIN args |-> EncodeData[args[i], depth]])
              \o <<[op |-> kind, arity |-> Len(args)]>>]
=============================================================================
