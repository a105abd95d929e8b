------------------------------ MODULE MC_Decode ------------------------------
(* Messages for Decode: goals, a binding, a read, an answer and a release, *)
(* with short lists and structures as arguments, encoded to the default    *)
(* depth, to one more and to the end.                                      *)
EXTENDS Decode, EncodeData

Pair == <<".", <<"a">>, <<"b">> >>
Deep == <<".", Pair, <<"f", <<"a">>, Pair>> >>
Flat == <<"f", <<"a">>, <<"b">>, <<"c">> >>

MCTerm == {<<"a">>, <<"b">>, <<"c">>, Pair, Deep, Deep[3], Flat}

MCDepth == -1..2

MCMessage ==
  { EncodeMessage("throw", <<Pair, Flat>>, 1),
    EncodeMessage("throw", <<Deep>>, 2),
    EncodeMessage("unify", <<Deep>>, -1),
    EncodeMessage("answer", <<Deep>>, 1),
    EncodeMessage("read", <<>>, 1),
    EncodeMessage("release", <<>>, 1) }

(* What the first i - 1 items of a message's code leave on the stack.      *)
Effect(item, s) ==
  CASE item.op = "list" -> Combined(".", 2, s)
    [] item.op = "funct" -> Combined(item.name, item.arity, s)
    [] OTHER -> Append(s, item.term)
PointsOf(m) ==
  LET terms[i \in DOMAIN m.code] ==
        IF i = 1 THEN <<>> ELSE Effect(m.code[i - 1], terms[i - 1])
  IN  {[left |-> SubSeq(m.code, i, Len(m.code)), terms |-> terms[i], args |-> m.args]
         : i \in DOMAIN m.code}
MCPoint == UNION {PointsOf(m) : m \in MCMessage}
=============================================================================
