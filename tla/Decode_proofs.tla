--------------------------- MODULE Decode_proofs ---------------------------
(***************************************************************************)
(* Decoding broken off, for any messages, heap sizes and numbers of        *)
(* packets: whatever reductions, collections and demands for space come    *)
(* between, the stack and the rest of the packet are at a point of the     *)
(* decoding of a message that nothing comes between (CodeAssumption).      *)
(***************************************************************************)
EXTENDS Decode, SequenceTheorems, TLAPS

(* Code that is left of a message and perhaps of another behind it.        *)
Remains(code, left, args) ==
  \/ code = left /\ meant = <<args>>
  \/ \E m \in Message : code = left \o m.code /\ meant = <<args, m.args>>
(* Where a packet that is not yet decoded stands: at the point p of a      *)
(* message.                                                                *)
Within(p) == Terms(stack) = p.terms /\ Remains(inbuf, p.left, p.args)
Progress == inbuf # <<>> => \E p \in Point : Within(p)
Between == inbuf = <<>> => stack = <<>>
(* A packet is left only while it is decoded or remembered.                *)
Remembered ==
  /\ pc = "decode" => inbuf # <<>>
  /\ pc = "reduce" => ~pending
  /\ pc \in {"reduce", "receive", "gc"} /\ ~pending => inbuf = <<>>

IInv ==
  /\ intact /\ pc # "stack error"
  /\ IsSequence(stack) /\ Progress /\ Between /\ Remembered

-----------------------------------------------------------------------------
(* Sequences, of which it does not matter what they are made of.           *)
LEMMA AnySequence ==
  ASSUME NEW S, NEW s \in Seq(S) PROVE IsSequence(s)
<1>1. Len(s) \in Nat /\ DOMAIN s = 1..Len(s) /\ s \in [1..Len(s) -> S]
  BY LenProperties
<1>2. s \in [1..Len(s) -> Range(s)]
  BY <1>1 DEF Range
<1> QED
  BY <1>1, <1>2, SeqDef DEF IsSequence

LEMMA TwoSequences ==
  ASSUME NEW s, NEW t, IsSequence(s), IsSequence(t)
  PROVE  s \in Seq(Range(s) \cup Range(t)) /\ t \in Seq(Range(s) \cup Range(t))
BY SeqMonotonic DEF IsSequence

(* What is read first of two pieces of code.                               *)
LEMMA FirstPiece ==
  ASSUME NEW s, NEW t, IsSequence(s), IsSequence(t), s # <<>>
  PROVE  Head(s \o t) = Head(s) /\ Tail(s \o t) = Tail(s) \o t /\ s \o t # <<>>
<1> DEFINE S == Range(s) \cup Range(t)
<1>1. s \in Seq(S) /\ t \in Seq(S)
  BY TwoSequences
<1> HIDE DEF S
<1>2. Len(s) \in Nat \ {0} /\ Len(t) \in Nat
  BY <1>1, LenProperties, EmptySeq
<1>3. /\ s \o t \in Seq(S) /\ Len(s \o t) = Len(s) + Len(t)
      /\ \A i \in 1..Len(s) + Len(t) : (s \o t)[i] = IF i <= Len(s) THEN s[i] ELSE t[i - Len(s)]
  BY <1>1, ConcatProperties
<1>4. s \o t # <<>>
  BY <1>2, <1>3, EmptySeq
<1>5. /\ Tail(s \o t) \in Seq(S) /\ Len(Tail(s \o t)) = Len(s) + Len(t) - 1
      /\ \A i \in 1..Len(Tail(s \o t)) : Tail(s \o t)[i] = (s \o t)[i + 1]
  BY <1>3, <1>4, HeadTailProperties
<1>6. /\ Tail(s) \in Seq(S) /\ Len(Tail(s)) = Len(s) - 1
      /\ \A i \in 1..Len(Tail(s)) : Tail(s)[i] = s[i + 1]
  BY <1>1, HeadTailProperties
<1>7. /\ Tail(s) \o t \in Seq(S) /\ Len(Tail(s) \o t) = Len(s) - 1 + Len(t)
      /\ \A i \in 1..Len(s) - 1 + Len(t) :
           (Tail(s) \o t)[i] = IF i <= Len(s) - 1 THEN Tail(s)[i] ELSE t[i - (Len(s) - 1)]
  BY <1>1, <1>6, ConcatProperties
<1>8. \A i \in 1..Len(Tail(s \o t)) : Tail(s \o t)[i] = (Tail(s) \o t)[i]
  BY <1>2, <1>3, <1>5, <1>6, <1>7
<1>9. Tail(s \o t) = Tail(s) \o t
  BY <1>2, <1>5, <1>7, <1>8, SeqEqual
<1>10. Head(s \o t) = Head(s)
  BY <1>2, <1>3, <1>4
<1> QED
  BY <1>4, <1>9, <1>10

(* The terms of a part of the stack are that part of the terms.            *)
LEMMA TermsOfPart ==
  ASSUME NEW s, IsSequence(s), NEW a \in 1..(Len(s) + 1), NEW b \in 0..Len(s)
  PROVE  IsSequence(SubSeq(s, a, b)) /\ Terms(SubSeq(s, a, b)) = SubSeq(Terms(s), a, b)
<1> DEFINE S == Range(s)  t == Terms(s)  T == Range(t)  u == SubSeq(s, a, b)
<1>1. s \in Seq(S) /\ Len(s) \in Nat /\ DOMAIN s = 1..Len(s)
  BY LenProperties DEF IsSequence
<1>2. /\ t = [i \in 1..Len(s) |-> s[i].term]
      /\ \A i \in a..b : s[i] \in S
  BY <1>1 DEF Terms, Range
<1>3. \A i \in a..b : t[i] \in T
  BY <1>1, <1>2 DEF Range
<1> HIDE DEF S, t, T
<1>4. /\ u \in Seq(S) /\ Len(u) = IF a <= b THEN b - a + 1 ELSE 0
      /\ \A i \in 1..(b - a + 1) : u[i] = s[a + i - 1]
  BY <1>1, <1>2, SubSeqProperties
<1>5. /\ SubSeq(t, a, b) \in Seq(T) /\ Len(SubSeq(t, a, b)) = IF a <= b THEN b - a + 1 ELSE 0
      /\ \A i \in 1..(b - a + 1) : SubSeq(t, a, b)[i] = t[a + i - 1]
  BY <1>1, <1>3, SubSeqProperties
<1> HIDE DEF u
<1>6. Terms(u) = [i \in 1..Len(u) |-> u[i].term]
  BY <1>4, LenProperties DEF Terms
<1>7. SubSeq(t, a, b) = [i \in 1..Len(u) |-> SubSeq(t, a, b)[i]]
  BY <1>4, <1>5, LenProperties
<1>8. \A i \in 1..Len(u) : u[i].term = SubSeq(t, a, b)[i]
  BY <1>1, <1>2, <1>4, <1>5
<1>9. Terms(u) = SubSeq(t, a, b)
  BY <1>6, <1>7, <1>8
<1> QED
  BY <1>4, <1>9, AnySequence DEF u, t

(* The top of the stack and what is below it.                              *)
LEMMA TermsOfStack ==
  ASSUME NEW s, IsSequence(s)
  PROVE  /\ Len(Terms(s)) = Len(s) /\ Len(s) \in Nat
         /\ Terms(s) = <<>> <=> s = <<>>
         /\ \A n \in 0..Len(s) :
              /\ IsSequence(Below(s, n))
              /\ Terms(Below(s, n)) = Below(Terms(s), n) /\ Terms(Top(s, n)) = Top(Terms(s), n)
<1>1. s \in Seq(Range(s)) /\ Len(s) \in Nat /\ DOMAIN s = 1..Len(s) /\ s \in [1..Len(s) -> Range(s)]
  BY LenProperties DEF IsSequence
<1>2. Terms(s) = [i \in 1..Len(s) |-> s[i].term]
  BY <1>1 DEF Terms
<1>3. Len(Terms(s)) = Len(s)
  BY <1>1, <1>2
<1>4. Terms(s) = <<>> <=> s = <<>>
  BY <1>1, <1>2, <1>3, EmptySeq
<1>5. ASSUME NEW n \in 0..Len(s)
      PROVE  /\ IsSequence(Below(s, n))
             /\ Terms(Below(s, n)) = Below(Terms(s), n) /\ Terms(Top(s, n)) = Top(Terms(s), n)
  <2>1. /\ Len(s) - n \in 0..Len(s) /\ Len(s) \in 0..Len(s)
        /\ Len(s) - n + 1 \in 1..(Len(s) + 1) /\ 1 \in 1..(Len(s) + 1)
    BY <1>1
  <2>2. /\ IsSequence(SubSeq(s, 1, Len(s) - n))
        /\ Terms(SubSeq(s, 1, Len(s) - n)) = SubSeq(Terms(s), 1, Len(s) - n)
    BY <2>1, TermsOfPart
  <2>3. Terms(SubSeq(s, Len(s) - n + 1, Len(s))) = SubSeq(Terms(s), Len(s) - n + 1, Len(s))
    BY <2>1, TermsOfPart
  <2> QED
    BY <1>3, <2>2, <2>3 DEF Below, Top
<1> QED
  BY <1>1, <1>3, <1>4, <1>5

(* A term pushed on the stack.                                             *)
LEMMA TermsOfPushed ==
  ASSUME NEW s, IsSequence(s), NEW x
  PROVE  IsSequence(Append(s, x)) /\ Terms(Append(s, x)) = Append(Terms(s), x.term)
<1> DEFINE S == Range(s) \cup {x}
<1>1. s \in Seq(S) /\ x \in S
  BY SeqMonotonic DEF IsSequence
<1> HIDE DEF S
<1>2. /\ Append(s, x) \in Seq(S) /\ Len(Append(s, x)) = Len(s) + 1
      /\ \A i \in 1..Len(s) : Append(s, x)[i] = s[i]
      /\ Append(s, x)[Len(s) + 1] = x
      /\ Len(s) \in Nat /\ DOMAIN s = 1..Len(s)
  BY <1>1, AppendProperties, LenProperties
<1>3. Terms(Append(s, x)) = [i \in 1..(Len(s) + 1) |-> Append(s, x)[i].term]
  BY <1>2, LenProperties DEF Terms
<1>4. Terms(s) = [i \in 1..Len(s) |-> s[i].term] /\ Terms(s) \in Seq(Range(Terms(s)))
  <2>1. Terms(s) = [i \in 1..Len(s) |-> s[i].term]
    BY <1>2 DEF Terms
  <2>2. Terms(s) \in [1..Len(s) -> Range(Terms(s))]
    BY <2>1 DEF Range
  <2> QED
    BY <1>2, <2>1, <2>2, SeqDef
<1> DEFINE t == Terms(s)  T == Range(t) \cup {x.term}
<1>5. t \in Seq(T) /\ x.term \in T /\ Len(t) = Len(s)
  BY <1>2, <1>4, SeqMonotonic, LenProperties
<1>6. t = [i \in 1..Len(s) |-> s[i].term]
  BY <1>4
<1> HIDE DEF t, T
<1>7. /\ Append(t, x.term) \in Seq(T) /\ Len(Append(t, x.term)) = Len(s) + 1
      /\ \A i \in 1..Len(s) : Append(t, x.term)[i] = t[i]
      /\ Append(t, x.term)[Len(s) + 1] = x.term
  BY <1>5, AppendProperties
<1>8. Append(t, x.term) = [i \in 1..(Len(s) + 1) |-> Append(t, x.term)[i]]
  BY <1>7, LenProperties
<1>9. \A i \in 1..(Len(s) + 1) : Append(s, x)[i].term = Append(t, x.term)[i]
  BY <1>2, <1>6, <1>7
<1> QED
  BY <1>2, <1>3, <1>8, <1>9, AnySequence DEF t

-----------------------------------------------------------------------------
LEMMA CodeOfMessage ==
  ASSUME NEW m \in Message PROVE IsSequence(m.code) /\ m.code # <<>>
<1>1. [left |-> m.code, terms |-> <<>>, args |-> m.args] \in Point
  BY CodeAssumption
<1> QED
  BY <1>1, CodeAssumption

(* While decoding, the packet stands at a point that leads on.             *)
LEMMA AtPoint ==
  ASSUME IInv, inbuf # <<>>
  PROVE  \E p \in Point :
           /\ Within(p) /\ Leads(p) /\ IsSequence(p.left) /\ p.left # <<>>
           /\ Head(inbuf) = Head(p.left) /\ Len(p.terms) = Len(stack) /\ Len(stack) \in Nat
           /\ Remains(Tail(inbuf), Tail(p.left), p.args)
<1>1. PICK p \in Point : Within(p)
  BY DEF IInv, Progress
<1>2. /\ DOMAIN p = {"left", "terms", "args"} /\ Leads(p)
      /\ IsSequence(p.left) /\ p.left # <<>>
  BY CodeAssumption
<1>3. Len(p.terms) = Len(stack) /\ Len(stack) \in Nat
  BY <1>1, TermsOfStack DEF IInv, Within, Remains
<1>4. \A m \in Message : /\ Head(p.left \o m.code) = Head(p.left)
                          /\ Tail(p.left \o m.code) = Tail(p.left) \o m.code
  BY <1>2, CodeOfMessage, FirstPiece
<1> QED
  BY <1>1, <1>2, <1>3, <1>4 DEF Within, Remains

(* The step from a point to the one it leads to keeps the invariant.       *)
LEMMA ItemDecoded ==
  ASSUME IInv, pc = "decode", NEW p \in Point, NEW terms,
         [p EXCEPT !.left = Tail(@), !.terms = terms] \in Point,
         Remains(Tail(inbuf), Tail(p.left), p.args),
         IsSequence(stack'), Terms(stack') = terms, meant' = meant, intact' = intact,
         AfterDecoder(Tail(inbuf))
  PROVE  IInv'
<1> DEFINE q == [p EXCEPT !.left = Tail(@), !.terms = terms]
<1>1. /\ q \in Point /\ DOMAIN p = {"left", "terms", "args"}
  BY CodeAssumption
<1>2. q.left = Tail(p.left) /\ q.terms = terms /\ q.args = p.args
  BY <1>1
<1> HIDE DEF q
<1>3. IsSequence(q.left) /\ q.left # <<>>
  BY <1>1, CodeAssumption
<1>4. \A m \in Message : q.left \o m.code # <<>>
  BY <1>3, CodeOfMessage, FirstPiece
<1>5. inbuf' = Tail(inbuf) /\ inbuf' # <<>>
  BY <1>2, <1>3, <1>4 DEF AfterDecoder, Remains
<1>6. Within(q)'
  BY <1>2, <1>5 DEF Within, Remains
<1>7. Remembered' /\ pc' # "stack error"
  BY <1>5 DEF AfterDecoder, Remembered
<1> QED
  BY <1>1, <1>5, <1>6, <1>7 DEF IInv, Progress, Between

(* So does the decoder of a message, which finds its arguments.            *)
LEMMA MessageDecoded ==
  ASSUME IInv, pc = "decode", NEW p \in Point, Terms(stack) = p.args, Tail(p.left) = <<>>,
         Remains(Tail(inbuf), Tail(p.left), p.args),
         TakeArguments(Len(p.args)), AfterDecoder(Tail(inbuf))
  PROVE  IInv'
<1>1. IsSequence(stack) /\ Len(stack) \in Nat /\ Len(p.args) = Len(stack)
  BY TermsOfStack DEF IInv
<1>2. stack \in Seq(Range(stack))
  BY <1>1 DEF IsSequence
<1>3. stack' = <<>>
  BY <1>1, <1>2, SubSeqEmpty DEF TakeArguments, Below
<1>4. Top(stack, Len(p.args)) = stack
  BY <1>1, <1>2, SubSeqFull DEF Top
<1>5. intact'
  <2>1. Head(meant) = p.args
    <3>1. ASSUME NEW b PROVE Head(<<p.args>>) = p.args /\ Head(<<p.args, b>>) = p.args
      OBVIOUS
    <3> QED
      BY <3>1 DEF Remains
  <2>2. Terms(Top(stack, Len(p.args))) = Head(meant)
    BY <1>4, <2>1
  <2> QED
    BY <2>2, Zenon DEF TakeArguments, IInv
<1>6. IsSequence(stack') /\ Terms(stack') = <<>>
  <2>1. <<>> \in Seq({})
    BY EmptySeq
  <2>2. IsSequence(<<>>)
    BY <2>1, AnySequence
  <2> QED
    BY <1>3, <2>2, TermsOfStack
<1>7. Remembered' /\ pc' # "stack error"
  BY DEF AfterDecoder, Remembered
<1>8. inbuf' # <<>> => \E q \in Point : Within(q)'
  <2> SUFFICES ASSUME inbuf' # <<>> PROVE \E q \in Point : Within(q)'
    OBVIOUS
  <2>1. PICK m \in Message : Tail(inbuf) = Tail(p.left) \o m.code /\ meant = <<p.args, m.args>>
    BY DEF AfterDecoder, Remains
  <2>2. <<>> \o m.code = m.code
    BY CodeOfMessage, ConcatEmptySeq DEF IsSequence
  <2>3. inbuf' = m.code
    BY <2>1, <2>2 DEF AfterDecoder
  <2>4. meant' = <<m.args>>
    BY <2>1 DEF TakeArguments
  <2> DEFINE q == [left |-> m.code, terms |-> <<>>, args |-> m.args]
  <2>5. q \in Point
    BY CodeAssumption
  <2>6. Within(q)'
    BY <1>6, <2>3, <2>4 DEF Within, Remains
  <2> QED
    BY <2>5, <2>6
<1> QED
  BY <1>3, <1>5, <1>6, <1>7, <1>8 DEF IInv, Progress, Between

(* A packet broken off stays where it is.                                  *)
LEMMA PutBack ==
  ASSUME IInv, pc = "decode", UNCHANGED <<stack, meant, intact>>, AfterDecoder(inbuf)
  PROVE  IInv'
<1>1. inbuf # <<>>
  BY DEF IInv, Remembered
<1> QED
  BY <1>1 DEF IInv, AfterDecoder, Remembered, Progress, Between, Within, Remains

-----------------------------------------------------------------------------
LEMMA InitInv == Init => IInv
<1> SUFFICES ASSUME Init PROVE IInv
  OBVIOUS
<1>1. <<>> \in Seq({})
  BY EmptySeq
<1>2. IsSequence(stack)
  BY <1>1, AnySequence DEF Init
<1> QED
  BY <1>2 DEF Init, IInv, Progress, Between, Remembered

(* Steps that touch neither the packet nor the stack.                      *)
LEMMA NotTouched ==
  ASSUME IInv, UNCHANGED msgVars,
         \/ UNCHANGED pc
         \/ pc = "reduce" /\ pc' \in {"reduce", "receive"}
         \/ pc = "receive" /\ pc' \in {"gc", "reduce"} /\ (pc' = "reduce" => ~pending)
         \/ pc = "gc" /\ pc' \in {"gc", "receive", "exhausted", "invalid WTC"}
  PROVE  IInv'
<1>1. Progress' /\ Between' /\ IsSequence(stack')
  BY DEF IInv, Progress, Between, Within, Remains, msgVars
<1>2. Remembered'
  BY DEF IInv, Remembered, msgVars
<1> QED
  BY <1>1, <1>2 DEF IInv, msgVars

LEMMA ReceiveInv ==
  ASSUME IInv, Receive PROVE IInv'
<1>1. CASE ReceiveWhenFull
  BY <1>1, NotTouched DEF ReceiveWhenFull
<1>2. CASE TakePending
  BY <1>2 DEF TakePending, IInv, Progress, Between, Within, Remains, Remembered
<1>3. CASE TakePacket
  <2>1. inbuf = <<>> /\ stack = <<>>
    BY <1>3 DEF TakePacket, IInv, Remembered, Between
  <2>2. PICK m \in Message :
          \/ inbuf' = m.code /\ meant' = <<m.args>>
          \/ \E n \in Message : inbuf' = m.code \o n.code /\ meant' = <<m.args, n.args>>
    BY <1>3 DEF TakePacket
  <2> DEFINE p == [left |-> m.code, terms |-> <<>>, args |-> m.args]
  <2>3. p \in Point
    BY CodeAssumption
  <2>4. Terms(stack') = <<>>
    BY <1>3, <2>1, TermsOfStack DEF TakePacket, IInv
  <2>5. Within(p)'
    BY <2>2, <2>4 DEF Within, Remains
  <2>6. inbuf' # <<>>
    BY <2>2, CodeOfMessage, FirstPiece
  <2> QED
    BY <1>3, <2>3, <2>5, <2>6 DEF TakePacket, IInv, Progress, Between, Remembered
<1>4. CASE NoPacket
  <2>1. stack = <<>>
    BY <1>4 DEF NoPacket, IInv, Remembered, Between
  <2> QED
    BY <1>4, <2>1, NotTouched DEF NoPacket
<1> QED
  BY <1>1, <1>2, <1>3, <1>4 DEF Receive

(* A structure or a list of the top n terms, from a point that leads on.   *)
LEMMA BuildInv ==
  ASSUME IInv, pc = "decode", NEW p \in Point, Within(p), NEW n \in 0..Len(p.terms),
         Len(p.terms) = Len(stack), NEW f, NEW words,
         [p EXCEPT !.left = Tail(@), !.terms = Combined(f, n, p.terms)] \in Point,
         Remains(Tail(inbuf), Tail(p.left), p.args),
         Build(f, n, words), meant' = meant, intact' = intact, AfterDecoder(Tail(inbuf))
  PROVE  IInv'
<1> DEFINE x == [term |-> <<f>> \o Terms(Top(stack, n)), upto |-> Words(stack) + words]
<1>1. /\ IsSequence(Below(stack, n))
      /\ Terms(Below(stack, n)) = Below(p.terms, n) /\ Terms(Top(stack, n)) = Top(p.terms, n)
  BY TermsOfStack DEF IInv, Within, Remains
<1>2. stack' = Append(Below(stack, n), x)
  BY DEF Build
<1>3. x.term = <<f>> \o Top(p.terms, n)
  BY <1>1
<1> HIDE DEF x
<1>4. IsSequence(stack') /\ Terms(stack') = Combined(f, n, p.terms)
  BY <1>1, <1>2, <1>3, TermsOfPushed DEF Combined
<1> QED
  BY <1>4, ItemDecoded

(* A term pushed on it, from a point that leads on.                        *)
LEMMA PushInv ==
  ASSUME IInv, pc = "decode", NEW p \in Point, Within(p), NEW x,
         [p EXCEPT !.left = Tail(@), !.terms = Append(p.terms, x.term)] \in Point,
         Remains(Tail(inbuf), Tail(p.left), p.args),
         stack' = Append(stack, x), meant' = meant, intact' = intact,
         AfterDecoder(Tail(inbuf))
  PROVE  IInv'
<1>1. IsSequence(stack') /\ Terms(stack') = Append(p.terms, x.term)
  BY TermsOfPushed DEF IInv, Within, Remains
<1> QED
  BY <1>1, ItemDecoded

LEMMA DecodeInv ==
  ASSUME IInv, Decode PROVE IInv'
<1>1. pc = "decode" /\ inbuf # <<>>
  BY DEF Decode, DecodeAtom, DecodeExref, DecodeList, DecodeFunct, DecodeThrowGoal,
         DecodeUnify, DecodeAnswerValue, DecodeRead, DecodeRelease, At, IInv, Remembered
<1> DEFINE item == Head(inbuf)
           To(p, s) == [p EXCEPT !.left = Tail(@), !.terms = s] \in Point
<1>2. PICK p \in Point :
        /\ Within(p) /\ Leads(p) /\ item = Head(p.left)
        /\ Len(p.terms) = Len(stack) /\ Len(stack) \in Nat
        /\ Remains(Tail(inbuf), Tail(p.left), p.args)
  BY <1>1, AtPoint
<1>3. /\ Pops(item) \in 0..Len(p.terms)
      /\ \/ item.op \in {"atom", "exref"} /\ To(p, Append(p.terms, item.term))
         \/ item.op = "list" /\ To(p, Combined(".", 2, p.terms))
         \/ item.op = "funct" /\ To(p, Combined(item.name, item.arity, p.terms))
         \/ /\ item.op \in {"throw", "unify", "answer", "read", "release"}
            /\ Tail(p.left) = <<>> /\ p.terms = p.args /\ Pops(item) = Len(p.args)
  BY <1>2 DEF Leads
<1>4. CASE DecodeAtom \/ DecodeExref
  <2>1. PICK words :
           stack' = Append(stack, [term |-> item.term, upto |-> words])
    BY <1>4 DEF DecodeAtom, DecodeExref
  <2>2. /\ item.op \in {"atom", "exref"}
        /\ meant' = meant /\ intact' = intact /\ AfterDecoder(Tail(inbuf))
    BY <1>4 DEF DecodeAtom, DecodeExref, At
  <2>3. To(p, Append(p.terms, item.term))
    BY <1>3, <2>2
  <2> DEFINE x == [term |-> item.term, upto |-> words]
  <2>4. x.term = item.term /\ stack' = Append(stack, x)
    BY <2>1
  <2> HIDE DEF x
  <2>5. To(p, Append(p.terms, x.term))
    BY <2>3, <2>4
  <2> QED
    BY <1>1, <1>2, <2>2, <2>4, <2>5, PushInv
<1>5. CASE DecodeList
  <2>1. /\ item.op = "list" /\ Build(".", 2, 2)
        /\ meant' = meant /\ intact' = intact /\ AfterDecoder(Tail(inbuf))
    BY <1>5 DEF DecodeList, At
  <2>2. To(p, Combined(".", 2, p.terms)) /\ 2 \in 0..Len(p.terms)
    BY <1>3, <2>1 DEF Pops
  <2> QED
    BY <1>1, <1>2, <2>1, <2>2, BuildInv
<1>6. CASE DecodeFunct
  <2>1. item.op = "funct" /\ meant' = meant /\ intact' = intact
    BY <1>6 DEF DecodeFunct, At
  <2>2. \/ stack' = stack /\ AfterDecoder(inbuf)
        \/ Build(item.name, item.arity, item.arity + 1) /\ AfterDecoder(Tail(inbuf))
    BY <1>6 DEF DecodeFunct
  <2>3. To(p, Combined(item.name, item.arity, p.terms)) /\ item.arity \in 0..Len(p.terms)
    BY <1>3, <2>1 DEF Pops
  <2>4. CASE stack' = stack /\ AfterDecoder(inbuf)
    BY <1>1, <2>1, <2>4, PutBack
  <2>5. CASE Build(item.name, item.arity, item.arity + 1) /\ AfterDecoder(Tail(inbuf))
    BY <1>1, <1>2, <2>1, <2>3, <2>5, BuildInv
  <2> QED
    BY <2>2, <2>4, <2>5
<1>7. CASE \/ DecodeThrowGoal \/ DecodeUnify \/ DecodeAnswerValue \/ DecodeRead
           \/ DecodeRelease
  <2>1. /\ item.op \in {"throw", "unify", "answer", "read", "release"}
        /\ TakeArguments(Pops(item)) /\ AfterDecoder(Tail(inbuf))
    BY <1>7 DEF DecodeThrowGoal, DecodeUnify, DecodeAnswerValue, DecodeRead, DecodeRelease,
                At, Pops
  <2>2. Tail(p.left) = <<>> /\ p.terms = p.args /\ Pops(item) = Len(p.args)
    BY <1>3, <2>1
  <2> QED
    BY <1>1, <1>2, <2>1, <2>2, MessageDecoded DEF Within, Remains
<1> QED
  BY <1>4, <1>5, <1>6, <1>7 DEF Decode

LEMMA NextInv ==
  ASSUME IInv, [Next]_vars PROVE IInv'
<1>1. CASE \E w \in 0..MaxWords : \E k \in 0..(kept + w) : Reduce(w, k)
  <2>1. pc = "reduce" /\ pc' \in {"reduce", "receive"} /\ UNCHANGED msgVars
    BY <1>1 DEF Reduce
  <2> QED
    BY <2>1, NotTouched
<1>2. CASE Poll \/ Idle
  BY <1>2, NotTouched DEF Poll, Idle
<1>3. CASE Receive
  BY <1>3, ReceiveInv
<1>4. CASE Decode
  BY <1>4, DecodeInv
<1>5. CASE GcPass
  <2>1. /\ pc = "gc" /\ pc' \in {"gc", "receive", "exhausted", "invalid WTC"}
        /\ UNCHANGED msgVars
    BY <1>5 DEF GcPass
  <2> QED
    BY <2>1, NotTouched
<1>6. CASE UNCHANGED vars
  BY <1>6, NotTouched DEF vars
<1> QED
  BY <1>1, <1>2, <1>3, <1>4, <1>5, <1>6 DEF Next

(* However often and wherever the decoding of packets is broken off, it    *)
(* goes on at the same point.                                              *)
THEOREM Invariance == Spec => []IInv
<1>1. Init => IInv
  BY InitInv
<1>2. IInv /\ [Next]_vars => IInv'
  BY NextInv
<1> QED
  BY <1>1, <1>2, PTL DEF Spec

(* AsSent: all messages get the arguments they were sent with, although    *)
(* receive_message() may leave a packet after every item of it.            *)
THEOREM ArgumentsIntact == Spec => []AsSent
<1>1. IInv => AsSent
  BY DEF IInv, AsSent
<1> QED
  BY <1>1, Invariance, PTL

(* StackClean: neither check_decode_stack() nor pop_decode_stack() ever    *)
(* finds an error in the decode stack.                                     *)
THEOREM StackCorrect == Spec => []StackClean
<1>1. IInv => StackClean
  <2> SUFFICES ASSUME IInv PROVE StackClean
    BY Zenon
  <2>1. ASSUME pc = "decode" PROVE Pops(Head(inbuf)) \in 0..Len(stack)
    <3>1. inbuf # <<>>
      BY <2>1 DEF IInv, Remembered
    <3> QED
      BY <3>1, AtPoint, Zenon DEF Leads
  <2> QED
    BY <2>1 DEF IInv, StackClean
<1> QED
  BY <1>1, Invariance, PTL

-----------------------------------------------------------------------------
(* The words of a stack only grow towards its top.                         *)
Grows(s) ==
  \A i \in 1..Len(s) : /\ s[i].upto \in Nat
                       /\ \A j \in 1..Len(s) : i <= j => s[i].upto <= s[j].upto

(* What must be kept is what is used, or less, and by the record of        *)
(* topsucceed() less while that may be taken back; and goals and decoders  *)
(* start below the limit.                                                  *)
Space ==
  /\ TypeOK /\ Grows(stack) /\ NoOverrun
  /\ Live <= allocp
  /\ idling # 0 => Live + TopSize <= allocp
  /\ pc = "reduce" => allocp < heapsize
  /\ pc = "decode" => allocp + this_more_space < heapsize

LEMMA Sizes ==
  /\ HEAPSIZE \in Nat /\ MAXHEAPSIZE \in Nat /\ INCREMENTSIZE \in Nat
  /\ ObjectSize \in Nat /\ VariableSize \in Nat /\ UnifyWords \in Nat /\ MaxWords \in Nat
  /\ ObjectSize + VariableSize \in 0..INCREMENTSIZE /\ GoalSize \in 0..INCREMENTSIZE
  /\ TopSize = 2 /\ 2 <= INCREMENTSIZE /\ 2 < HEAPSIZE /\ HEAPSIZE <= MAXHEAPSIZE
BY SizeAssumption DEF TopSize

LEMMA Numbers ==
  ASSUME TypeOK
  PROVE  /\ idling \in Nat /\ goals \in Nat /\ kept \in Nat /\ allocp \in Nat
         /\ this_more_space \in Nat /\ heapsize \in Nat /\ heapsize \in HEAPSIZE..MAXHEAPSIZE
BY Sizes DEF TypeOK

(* Sums, free of what they are sums of.                                    *)
LEMMA Sums ==
  ASSUME NEW a \in Nat, NEW b \in Nat, NEW c \in Nat, NEW d \in Nat, NEW e \in Nat
  PROVE  /\ ~(a + b >= c) => a + b < c
         /\ a + b <= c + d + e => a + b + 2 <= c + d + 2 + e
         /\ a + b + 2 = a + (b + 2) /\ a + d + b + 2 = a + d + (b + 2)
OBVIOUS

LEMMA StillBelow ==
  ASSUME NEW a \in Nat, NEW b \in Nat, NEW c \in Nat, NEW d \in Nat, NEW e \in Nat,
         a <= b, b <= c + e, c <= d
  PROVE  a <= d + e
OBVIOUS

LEMMA SumBelow ==
  ASSUME NEW a \in Nat, NEW b \in Nat, NEW c \in Nat, NEW d \in Nat, a <= b + c
  PROVE  /\ b <= d => a <= d + c
         /\ b + 2 <= d => a + 2 <= d + c
OBVIOUS

LEMMA LiveNumber ==
  ASSUME kept \in Nat, Words(stack) \in Nat
  PROVE  Live = kept + Words(stack) + 2 /\ Live \in Nat
BY Sizes DEF Live

LEMMA LiveNext ==
  ASSUME kept' \in Nat, Words(stack)' \in Nat
  PROVE  Live' = kept' + Words(stack)' + 2 /\ Live' \in Nat
BY DEF Live, TopSize

LEMMA WordsOfStack ==
  ASSUME NEW s, IsSequence(s), Grows(s)
  PROVE  Words(s) \in Nat /\ \A i \in 1..Len(s) : s[i].upto \in 0..Words(s)
<1>1. s \in Seq(Range(s)) /\ Len(s) \in Nat
  BY LenProperties DEF IsSequence
<1>2. s # <<>> => Len(s) \in 1..Len(s)
  BY <1>1, EmptySeq
<1>3. s = <<>> => Len(s) = 0
  BY <1>1, EmptySeq
<1> QED
  BY <1>1, <1>2, <1>3 DEF Words, Last, Grows

LEMMA WordsBelow ==
  ASSUME NEW s, IsSequence(s), Grows(s), NEW n \in 0..Len(s)
  PROVE  Grows(Below(s, n)) /\ Words(Below(s, n)) \in 0..Words(s)
<1> DEFINE b == Below(s, n)
<1>1. s \in Seq(Range(s)) /\ Len(s) \in Nat
  BY LenProperties DEF IsSequence
<1>2. \A i \in 1..Len(s) : s[i] \in Range(s)
  BY <1>1, ElementOfSeq
<1>3. Len(b) = Len(s) - n /\ \A i \in 1..Len(s) - n : b[i] = s[i]
  BY <1>1, <1>2, SubSeqProperties DEF Below
<1>4. IsSequence(b)
  BY TermsOfStack
<1> HIDE DEF b
<1>5. Grows(b)
  <2>1. \A i \in 1..Len(b) : i \in 1..Len(s) /\ b[i] = s[i]
    BY <1>1, <1>3
  <2> QED
    BY <2>1 DEF Grows
<1>6. b # <<>> => Len(b) \in 1..Len(b) /\ Words(b) = b[Len(b)].upto
  BY <1>4, EmptySeq DEF IsSequence, Words, Last
<1>7. b # <<>> => Words(b) \in 0..Words(s)
  BY <1>1, <1>3, <1>6, WordsOfStack
<1>8. b = <<>> => Words(b) \in 0..Words(s)
  BY WordsOfStack DEF Words
<1> QED
  BY <1>5, <1>7, <1>8 DEF b

LEMMA WordsPushed ==
  ASSUME NEW s, IsSequence(s), Grows(s), NEW x, x.upto \in Nat, Words(s) <= x.upto
  PROVE  Grows(Append(s, x)) /\ Words(Append(s, x)) = x.upto
<1> DEFINE S == Range(s) \cup {x}  t == Append(s, x)
<1>1. s \in Seq(S) /\ x \in S
  BY SeqMonotonic DEF IsSequence
<1> HIDE DEF S
<1>2. /\ Len(s) \in Nat /\ Len(t) = Len(s) + 1 /\ t # <<>>
      /\ \A i \in 1..Len(s) : t[i] = s[i]
      /\ t[Len(s) + 1] = x
  BY <1>1, AppendProperties, LenProperties
<1> HIDE DEF t
<1>3. Words(t) = x.upto
  BY <1>2 DEF Words, Last
<1>4. \A i \in 1..Len(s) : s[i].upto \in Nat /\ s[i].upto <= x.upto
  BY WordsOfStack
<1>5. Grows(t)
  BY <1>2, <1>4 DEF Grows
<1> QED
  BY <1>3, <1>5 DEF t

-----------------------------------------------------------------------------
(* What is the same for all decoders: w more words are used and as many    *)
(* more at most must be kept, and they fit, or do with the increment and   *)
(* the words of one do_unify().                                            *)
LEMMA DecodedSpace ==
  ASSUME Space, pc = "decode", NEW rest, AfterDecoder(rest),
         NEW w \in Nat, w <= INCREMENTSIZE + UnifyWords \/ allocp + w <= heapsize,
         allocp' = allocp + w, Live' <= Live + w, Live \in Nat, Live' \in Nat,
         this_more_space' \in Nat, kept' \in Nat, goals' \in Nat,
         weighted' \in BOOLEAN, intact' \in BOOLEAN, idling' \in {0, idling}, Grows(stack')
  PROVE  Space'
<1>1. /\ allocp \in Nat /\ heapsize \in Nat /\ this_more_space \in Nat /\ idling \in Nat
      /\ heapsize \in HEAPSIZE..MAXHEAPSIZE /\ allocp + this_more_space < heapsize
      /\ Live <= allocp /\ (idling # 0 => Live + TopSize <= allocp)
  BY Numbers DEF Space
<1>2. heapsize' = heapsize /\ UNCHANGED <<make_heap_larger, lastgc_dangerous, messages, reductions>>
  BY DEF AfterDecoder, spaceVars
<1>3. pc' \in {"gc", "receive", "decode"} /\ pending' \in BOOLEAN
  BY DEF AfterDecoder
<1>4. pc' = "decode" => allocp' + this_more_space' < heapsize'
  <2>1. pc' = "decode" => ~(allocp' + this_more_space' >= heapsize)
    BY DEF AfterDecoder
  <2>2. allocp' \in Nat
    BY <1>1
  <2>3. ~(allocp' + this_more_space' >= heapsize) => allocp' + this_more_space' < heapsize
    BY <1>1, <2>2, Sums
  <2> QED
    BY <1>2, <2>1, <2>3
<1>5. TypeOK'
  BY <1>1, <1>2, <1>3 DEF Space, TypeOK
<1>6. NoOverrun' /\ Live' <= allocp' /\ (idling' # 0 => Live' + TopSize <= allocp')
  <2>1. allocp' <= heapsize + (INCREMENTSIZE + UnifyWords)
    BY <1>1, Sizes
  <2> DEFINE l == Live
  <2>2. /\ l \in Nat /\ l' \in Nat /\ l' <= l + w /\ l <= allocp
        /\ idling # 0 => l + TopSize <= allocp
    BY <1>1
  <2> HIDE DEF l
  <2>3. l' <= allocp' /\ (l + TopSize <= allocp => l' + TopSize <= allocp')
    <3>1. (l <= allocp => l' <= allocp + w) /\ (l + 2 <= allocp => l' + 2 <= allocp + w)
      BY <1>1, <2>2, SumBelow
    <3> QED
      BY <2>2, <3>1, Sizes
  <2>4. idling' # 0 => l' + TopSize <= allocp'
    BY <2>2, <2>3
  <2> QED
    BY <1>2, <2>1, <2>3, <2>4 DEF NoOverrun, l
<1> QED
  BY <1>3, <1>4, <1>5, <1>6 DEF Space

LEMMA PushSpace ==
  ASSUME IInv, Space, pc = "decode", NEW x, NEW w \in Nat, NEW k \in Nat,
         w + k \in 0..INCREMENTSIZE,
         x.upto = Words(stack) + w, stack' = Append(stack, x),
         kept' = kept + k, allocp' = allocp + (w + k),
         this_more_space' \in Nat, goals' \in Nat, idling' \in {0, idling},
         UNCHANGED <<weighted, intact>>, AfterDecoder(Tail(inbuf))
  PROVE  Space'
<1>1. IsSequence(stack) /\ Grows(stack) /\ Words(stack) \in Nat
  BY WordsOfStack DEF IInv, Space
<1>2. x.upto \in Nat /\ Words(stack) <= x.upto
  BY <1>1, Sizes
<1>3. Grows(stack') /\ Words(stack)' = Words(stack) + w
  BY <1>1, <1>2, WordsPushed
<1>4. kept \in Nat /\ kept' \in Nat /\ Words(stack)' \in Nat
  <2>1. kept \in Nat
    BY Numbers DEF Space
  <2> DEFINE v == Words(stack)  v1 == Words(stack)'
  <2>2. v \in Nat /\ v1 = v + w
    BY <1>1, <1>3
  <2> HIDE DEF v, v1
  <2>3. kept' \in Nat /\ v1 \in Nat
    BY <2>1, <2>2
  <2> QED
    BY <2>1, <2>3 DEF v1
<1>5. Live \in Nat /\ Live' \in Nat /\ Live' = Live + (w + k)
  <2> DEFINE v == Words(stack)  v1 == Words(stack)'
  <2>1. /\ v \in Nat /\ v1 = v + w /\ v1 \in Nat
        /\ Live = kept + v + 2 /\ Live' = kept' + v1 + 2
    BY <1>1, <1>3, <1>4, LiveNumber, LiveNext
  <2> HIDE DEF v, v1
  <2> QED
    BY <1>4, <2>1
<1>6. weighted' \in BOOLEAN /\ intact' \in BOOLEAN
  BY DEF Space, TypeOK
<1>7. w + k \in Nat /\ w + k <= INCREMENTSIZE + UnifyWords
  BY Sizes
<1>8. Live' <= Live + (w + k)
  BY <1>5
<1> QED
  BY <1>3, <1>4, <1>5, <1>6, <1>7, <1>8, DecodedSpace

LEMMA BuildSpace ==
  ASSUME IInv, Space, pc = "decode", NEW f, NEW n \in 0..Len(stack), NEW w \in Nat,
         w <= INCREMENTSIZE \/ allocp + w <= heapsize,
         Build(f, n, w), UNCHANGED <<idling, nodeVars, intact>>, AfterDecoder(Tail(inbuf))
  PROVE  Space'
<1>1. IsSequence(stack) /\ Grows(stack) /\ Words(stack) \in Nat
  BY WordsOfStack DEF IInv, Space
<1>2. /\ IsSequence(Below(stack, n)) /\ Grows(Below(stack, n))
      /\ Words(Below(stack, n)) \in 0..Words(stack)
  BY <1>1, TermsOfStack, WordsBelow
<1> DEFINE x == [term |-> <<f>> \o Terms(Top(stack, n)), upto |-> Words(stack) + w]
<1>3. stack' = Append(Below(stack, n), x) /\ allocp' = allocp + w /\ UNCHANGED this_more_space
  BY DEF Build
<1>4. x.upto = Words(stack) + w
  OBVIOUS
<1> HIDE DEF x
<1>5. Grows(stack') /\ Words(stack)' = Words(stack) + w
  BY <1>1, <1>2, <1>3, <1>4, WordsPushed
<1>6. Live \in Nat /\ Live' = Live + w
  <2>1. kept \in Nat /\ kept' = kept
    BY Numbers DEF Space, nodeVars
  <2>2. Words(stack)' \in Nat
    BY <1>1, <1>5
  <2> QED
    BY <1>1, <1>5, <2>1, <2>2, LiveNumber, LiveNext
<1>7. /\ this_more_space' \in Nat /\ kept' \in Nat /\ goals' \in Nat /\ weighted' \in BOOLEAN
      /\ intact' \in BOOLEAN /\ idling' = idling
  BY <1>3 DEF Space, TypeOK, nodeVars
<1>8. w <= INCREMENTSIZE + UnifyWords \/ allocp + w <= heapsize
  BY Sizes
<1> QED
  BY <1>3, <1>5, <1>6, <1>7, <1>8, DecodedSpace

(* Arguments taken from the stack are kept, or are not.                    *)
LEMMA TakeSpace ==
  ASSUME IInv, Space, pc = "decode", NEW n \in 0..Len(stack), TakeArguments(n),
         NEW w \in Nat, w <= INCREMENTSIZE + UnifyWords, allocp' = allocp + w,
         kept' \in {kept, kept + (WordsOfTop(n) + w)},
         goals' \in Nat, weighted' \in BOOLEAN, idling' \in {0, idling},
         this_more_space' \in Nat, AfterDecoder(Tail(inbuf))
  PROVE  Space'
<1>1. IsSequence(stack) /\ Grows(stack) /\ Words(stack) \in Nat
  BY WordsOfStack DEF IInv, Space
<1>2. stack' = Below(stack, n) /\ intact' \in BOOLEAN
  BY DEF TakeArguments
<1>3. /\ Grows(stack') /\ Words(stack)' = Words(Below(stack, n))
      /\ Words(Below(stack, n)) \in 0..Words(stack)
  BY <1>1, <1>2, WordsBelow
<1>4. kept \in Nat
  BY DEF Space, TypeOK
<1>5. WordsOfTop(n) \in Nat /\ WordsOfTop(n) + Words(stack)' = Words(stack)
  BY <1>1, <1>3 DEF WordsOfTop
<1>6. kept' \in Nat /\ Words(stack)' \in Nat /\ kept' + Words(stack)' <= kept + Words(stack) + w
  <2> DEFINE v == Words(stack)  v1 == Words(stack)'  t == WordsOfTop(n)
  <2>1. /\ v \in Nat /\ v1 \in Nat /\ t \in Nat /\ t + v1 = v
        /\ kept' \in {kept, kept + (t + w)}
    BY <1>1, <1>3, <1>5
  <2> HIDE DEF v, v1, t
  <2>2. kept' \in Nat /\ v1 \in Nat /\ kept' + v1 <= kept + v + w
    <3>1. CASE kept' = kept
      BY <1>4, <2>1, <3>1
    <3>2. CASE kept' = kept + (t + w)
      BY <1>4, <2>1, <3>2
    <3> QED
      BY <2>1, <3>1, <3>2
  <2> QED
    BY <2>2 DEF v, v1
<1>7. Live \in Nat /\ Live' \in Nat /\ Live' <= Live + w
  <2>1. kept' + Words(stack)' + 2 <= kept + Words(stack) + 2 + w
    BY <1>1, <1>4, <1>6, Sums
  <2> QED
    BY <1>1, <1>4, <1>6, <2>1, LiveNumber, LiveNext
<1> QED
  BY <1>2, <1>3, <1>6, <1>7, DecodedSpace

(* Arguments taken and dropped, and nothing allocated.                     *)
LEMMA NothingSpace ==
  ASSUME IInv, Space, pc = "decode", NEW n \in 0..Len(stack), TakeArguments(n),
         UNCHANGED <<idling, goals, kept, allocp, this_more_space>>, weighted' \in BOOLEAN,
         AfterDecoder(Tail(inbuf))
  PROVE  Space'
<1>1. /\ allocp' = allocp + 0 /\ goals' \in Nat /\ this_more_space' \in Nat
      /\ 0 \in Nat /\ 0 <= INCREMENTSIZE + UnifyWords
  BY Numbers, Sizes DEF Space
<1> QED
  BY <1>1, TakeSpace

LEMMA NothingBelow ==
  ASSUME IsSequence(stack) PROVE Below(stack, 0) = stack
<1>1. stack \in Seq(Range(stack)) /\ Len(stack) \in Nat
  BY LenProperties DEF IsSequence
<1> QED
  BY <1>1 DEF Below

(* The object of a decoder, and what do_unify() adds to it.                *)
LEMMA Objects ==
  ASSUME Space, NEW object \in {NoObject, NewObject}
  PROVE  /\ object.words \in 0..INCREMENTSIZE /\ object.more \in Nat /\ object.goals \in {0, 1}
         /\ object.goals = 0 => object.goals * object.words = 0
         /\ object.goals = 1 => object.goals * object.words = object.words
<1>1. CASE object = NoObject
  BY <1>1, Sizes DEF NoObject
<1>2. CASE object = NewObject
  <2>1. CASE allocp + ObjectSize >= heapsize
    BY <1>2, <2>1, Sizes DEF NewObject
  <2>2. CASE ~(allocp + ObjectSize >= heapsize)
    BY <1>2, <2>2, Sizes DEF NewObject
  <2> QED
    BY <2>1, <2>2
<1> QED
  BY <1>1, <1>2

LEMMA UnifySpace ==
  ASSUME IInv, Space, pc = "decode", NEW n \in 0..Len(stack), TakeArguments(n),
         NEW taken, taken = WordsOfTop(n), NEW object \in {NoObject, NewObject},
         DoUnify(taken, object), weighted' = TRUE, AfterDecoder(Tail(inbuf))
  PROVE  Space'
<1>1. PICK words \in 0..UnifyWords, more \in 0..UnifyWords, new \in {0, 1} :
        LET all == kept + (taken + (object.words + words))
        IN  /\ allocp' = allocp + (object.words + words)
            /\ this_more_space' = this_more_space + object.more + more
            /\ goals' = goals + object.goals + new
            /\ IF goals' > goals THEN kept' = all /\ idling' = 0
               ELSE /\ kept' \in {kept, all} /\ idling' \in {0, idling}
                    /\ goals = 0 => idling' = idling
  BY DEF DoUnify
<1> DEFINE w == object.words + words
<1>2. w \in Nat /\ w <= INCREMENTSIZE + UnifyWords
  BY Objects, Sizes
<1>3. /\ allocp' = allocp + w
      /\ kept' \in {kept, kept + (WordsOfTop(n) + w)} /\ idling' \in {0, idling}
  BY <1>1
<1> HIDE DEF w
<1>4. this_more_space' \in Nat /\ goals' \in Nat
  <2>1. this_more_space \in Nat /\ goals \in Nat
    BY Numbers DEF Space
  <2>2. object.more \in Nat /\ object.goals \in Nat
    BY Objects
  <2>3. more \in Nat /\ new \in Nat
    BY Sizes
  <2>4. /\ this_more_space' = this_more_space + object.more + more
        /\ goals' = goals + object.goals + new
    BY <1>1
  <2> DEFINE m == object.more  g == object.goals
  <2>5. /\ m \in Nat /\ this_more_space' = this_more_space + m + more
        /\ g \in Nat /\ goals' = goals + g + new
    BY <2>2, <2>4
  <2> HIDE DEF m, g
  <2> QED
    BY <2>1, <2>3, <2>5
<1> QED
  BY <1>2, <1>3, <1>4, TakeSpace

LEMMA DecodeSpace ==
  ASSUME IInv, Space, Decode PROVE Space'
<1>1. pc = "decode" /\ inbuf # <<>>
  BY DEF Decode, DecodeAtom, DecodeExref, DecodeList, DecodeFunct, DecodeThrowGoal,
         DecodeUnify, DecodeAnswerValue, DecodeRead, DecodeRelease, At, IInv, Remembered
<1> DEFINE item == Head(inbuf)
<1>2. /\ Pops(item) \in 0..Len(stack)
      /\ item.op = "throw" => item.arity + 2 <= INCREMENTSIZE
  <2>1. PICK p \in Point : item = Head(p.left) /\ Len(p.terms) = Len(stack) /\ Leads(p)
    BY <1>1, AtPoint
  <2> QED
    BY <2>1, SizeAssumption DEF Leads
<1>3. IsSequence(stack) /\ Len(stack) \in Nat /\ Words(stack) \in Nat
  BY WordsOfStack, TermsOfStack DEF IInv, Space
<1>4. CASE DecodeAtom
  <2> DEFINE x == [term |-> item.term, upto |-> Words(stack)]
  <2>1. stack' = Append(stack, x) /\ x.upto = Words(stack) + 0 /\ allocp' = allocp + 0
    BY <1>3, <1>4 DEF DecodeAtom, Space, TypeOK
  <2> HIDE DEF x
  <2>2. /\ kept' = kept + 0 /\ allocp' = allocp + (0 + 0) /\ idling' = idling
        /\ this_more_space' \in Nat /\ goals' \in Nat /\ UNCHANGED <<weighted, intact>>
        /\ AfterDecoder(Tail(inbuf))
    BY <1>4, Numbers DEF DecodeAtom, nodeVars, Space
  <2>3. 0 + 0 \in 0..INCREMENTSIZE
    BY Sizes
  <2> QED
    BY <1>1, <2>1, <2>2, <2>3, PushSpace
<1>5. CASE DecodeExref
  <2>1. PICK object \in {NoObject, NewObject} :
          LET goal == object.goals * object.words
          IN  /\ stack' = Append(stack, [term |-> item.term,
                                         upto |-> Words(stack) + object.words - goal])
              /\ kept' = kept + goal
              /\ allocp' = allocp + object.words
              /\ this_more_space' = this_more_space + object.more
              /\ goals' = goals + object.goals
              /\ idling' = IF object.goals > 0 THEN 0 ELSE idling
    BY <1>5 DEF DecodeExref
  <2> DEFINE k == object.goals * object.words  w == object.words - k
             x == [term |-> item.term, upto |-> Words(stack) + object.words - k]
  <2>2. /\ k \in Nat /\ w \in Nat /\ w + k = object.words /\ w + k \in 0..INCREMENTSIZE
        /\ object.more \in Nat /\ object.goals \in {0, 1}
    <3>1. /\ object.words \in 0..INCREMENTSIZE /\ object.more \in Nat
          /\ object.goals \in {0, 1} /\ INCREMENTSIZE \in Nat
          /\ object.goals = 0 => k = 0
          /\ object.goals = 1 => k = object.words
      BY Objects, Sizes
    <3> HIDE DEF k
    <3> QED
      BY <3>1
  <2>3. /\ stack' = Append(stack, x) /\ kept' = kept + k /\ allocp' = allocp + (w + k)
        /\ idling' \in {0, idling}
    BY <2>1, <2>2
  <2>4. x.upto = Words(stack) + w
    BY <1>3, <2>2
  <2>5. this_more_space' \in Nat /\ goals' \in Nat
    <3>1. this_more_space \in Nat /\ goals \in Nat
      BY Numbers DEF Space
    <3> DEFINE m == object.more  g == object.goals
    <3>2. this_more_space' = this_more_space + m /\ goals' = goals + g
      BY <2>1, Zenon
    <3>3. m \in Nat /\ g \in {0, 1}
      BY Objects
    <3> HIDE DEF m, g
    <3> QED
      BY <3>1, <3>2, <3>3
  <2>6. UNCHANGED <<weighted, intact>> /\ AfterDecoder(Tail(inbuf))
    BY <1>5 DEF DecodeExref
  <2> HIDE DEF x, k, w
  <2> QED
    BY <1>1, <2>2, <2>3, <2>4, <2>5, <2>6, PushSpace
<1>6. CASE DecodeList
  <2>1. 2 \in 0..Len(stack)
    BY <1>2, <1>6 DEF DecodeList, At, Pops
  <2> QED
    BY <1>1, <1>6, <2>1, Sizes, BuildSpace DEF DecodeList
<1>7. CASE DecodeFunct
  <2>1. item.arity \in 0..Len(stack)
    BY <1>2, <1>7 DEF DecodeFunct, At, Pops
  <2>2. UNCHANGED <<idling, nodeVars, intact>>
    BY <1>7 DEF DecodeFunct
  <2>3. CASE heapsize - allocp < item.arity + 1
    <3>1. /\ this_more_space' = this_more_space + item.arity + 1
          /\ UNCHANGED <<stack, allocp>> /\ AfterDecoder(inbuf)
      BY <1>7, <2>3 DEF DecodeFunct
    <3>2. /\ kept \in Nat /\ goals \in Nat /\ allocp \in Nat /\ this_more_space \in Nat
          /\ item.arity \in Nat
      BY <1>3, <2>1, Numbers DEF Space
    <3>3. /\ UNCHANGED <<kept, goals, weighted, intact, idling, stack>>
          /\ allocp' = allocp + 0 /\ this_more_space' \in Nat
      BY <2>2, <3>1, <3>2 DEF nodeVars
    <3>4. Live \in Nat /\ Live' = Live + 0
      BY <1>3, <3>2, <3>3, LiveNumber, LiveNext
    <3>5. weighted' \in BOOLEAN /\ intact' \in BOOLEAN /\ Grows(stack')
      BY <3>3 DEF Space, TypeOK
    <3>6. 0 \in Nat /\ 0 <= INCREMENTSIZE + UnifyWords /\ Live' <= Live + 0
      BY <3>4, Sizes
    <3> QED
      BY <1>1, <3>1, <3>2, <3>3, <3>4, <3>5, <3>6, DecodedSpace
  <2>4. CASE ~(heapsize - allocp < item.arity + 1)
    <3>1. Build(item.name, item.arity, item.arity + 1) /\ AfterDecoder(Tail(inbuf))
      BY <1>7, <2>4 DEF DecodeFunct
    <3>2. item.arity + 1 \in Nat /\ allocp + (item.arity + 1) <= heapsize
      <4>1. allocp \in Nat /\ heapsize \in Nat /\ item.arity \in Nat
        BY <1>3, <2>1, Numbers DEF Space
      <4> DEFINE n == item.arity
      <4>2. n \in Nat /\ ~(heapsize - allocp < n + 1)
        BY <2>4, <4>1
      <4> HIDE DEF n
      <4>3. n + 1 \in Nat /\ allocp + (n + 1) <= heapsize
        BY <4>1, <4>2
      <4> QED
        BY <4>3 DEF n
    <3> QED
      BY <1>1, <2>1, <2>2, <3>1, <3>2, BuildSpace
  <2> QED
    BY <2>3, <2>4
<1>8. CASE DecodeThrowGoal
  <2>1. item.arity \in 0..Len(stack) /\ item.arity + 2 \in 0..INCREMENTSIZE
    BY <1>2, <1>3, <1>8, Sizes DEF DecodeThrowGoal, At, Pops
  <2>2. /\ TakeArguments(item.arity) /\ AfterDecoder(Tail(inbuf))
        /\ UNCHANGED <<idling, this_more_space>>
        /\ allocp' = allocp + item.arity + 2
        /\ kept' = kept + WordsOfTop(item.arity) + item.arity + 2
        /\ goals' = goals + 1 /\ weighted' = TRUE
    BY <1>8 DEF DecodeThrowGoal
  <2>3. WordsOfTop(item.arity) \in Nat
    BY <1>3, <2>1, WordsBelow DEF WordsOfTop, Space
  <2>4. /\ allocp' = allocp + (item.arity + 2) /\ goals' \in Nat
        /\ kept' = kept + (WordsOfTop(item.arity) + (item.arity + 2))
    <3>1. allocp \in Nat /\ kept \in Nat /\ goals \in Nat /\ item.arity \in Nat
      BY <1>3, <2>1, Numbers DEF Space
    <3> DEFINE n == item.arity  t == WordsOfTop(item.arity)
    <3>2. n \in Nat /\ t \in Nat
      BY <2>3, <3>1
    <3> HIDE DEF n, t
    <3>3. /\ allocp + n + 2 = allocp + (n + 2) /\ kept + t + n + 2 = kept + (t + (n + 2))
          /\ goals + 1 \in Nat
      BY <3>1, <3>2
    <3> QED
      BY <2>2, <3>3 DEF n, t
  <2>5. /\ item.arity + 2 \in Nat /\ item.arity + 2 <= INCREMENTSIZE + UnifyWords
        /\ this_more_space' \in Nat /\ weighted' \in BOOLEAN
    <3>1. this_more_space \in Nat
      BY Numbers DEF Space
    <3> DEFINE w == item.arity + 2
    <3>2. w \in 0..INCREMENTSIZE
      BY <2>1
    <3> HIDE DEF w
    <3>3. w \in Nat /\ w <= INCREMENTSIZE + UnifyWords
      BY <3>2, Sizes
    <3> QED
      BY <2>2, <3>1, <3>3 DEF w
  <2> QED
    BY <1>1, <2>1, <2>2, <2>4, <2>5, TakeSpace
<1>9. CASE DecodeUnify
  <2>1. 1 \in 0..Len(stack)
    BY <1>2, <1>9 DEF DecodeUnify, At, Pops
  <2> QED
    BY <1>1, <1>9, <2>1, UnifySpace DEF DecodeUnify
<1>10. CASE DecodeAnswerValue
  <2>1. 1 \in 0..Len(stack)
    BY <1>2, <1>10 DEF DecodeAnswerValue, At, Pops
  <2>2. TakeArguments(1) /\ weighted' = TRUE /\ AfterDecoder(Tail(inbuf))
    BY <1>10 DEF DecodeAnswerValue
  <2>3. CASE DoUnify(WordsOfTop(1), NoObject)
    BY <1>1, <2>1, <2>2, <2>3, UnifySpace
  <2>4. CASE UNCHANGED <<idling, goals, kept, allocp, this_more_space>>
    BY <1>1, <2>1, <2>2, <2>4, NothingSpace
  <2> QED
    BY <1>10, <2>3, <2>4 DEF DecodeAnswerValue
<1>11. CASE DecodeRead
  <2>1. 0 \in 0..Len(stack) /\ TakeArguments(0) /\ AfterDecoder(Tail(inbuf))
    BY <1>3, <1>11 DEF DecodeRead
  <2>2. CASE UNCHANGED <<idling, nodeVars, allocp, this_more_space>>
    <3>1. weighted' \in BOOLEAN
      BY <2>2 DEF nodeVars, Space, TypeOK
    <3> QED
      BY <1>1, <2>1, <2>2, <3>1, NothingSpace DEF nodeVars
  <2>3. ASSUME weighted' = TRUE, NEW object \in {NoObject, NewObject}, DoUnify(0, object)
        PROVE  Space'
    <3>1. WordsOfTop(0) = 0
      <4>1. Below(stack, 0) = stack
        BY <1>3, NothingBelow DEF IInv
      <4> QED
        BY <1>3, <4>1 DEF WordsOfTop
    <3> QED
      BY <1>1, <2>1, <2>3, <3>1, UnifySpace
  <2> QED
    BY <1>11, <2>2, <2>3 DEF DecodeRead
<1>12. CASE DecodeRelease
  <2>1. 0 \in 0..Len(stack) /\ TakeArguments(0) /\ AfterDecoder(Tail(inbuf))
        /\ UNCHANGED <<idling, goals, kept, allocp, this_more_space>> /\ weighted' \in BOOLEAN
    BY <1>3, <1>12 DEF DecodeRelease, Space, TypeOK, nodeVars
  <2> QED
    BY <1>1, <2>1, NothingSpace
<1> QED
  BY <1>4, <1>5, <1>6, <1>7, <1>8, <1>9, <1>10, <1>11, <1>12 DEF Decode

-----------------------------------------------------------------------------
LEMMA InitSpace == Init => Space
<1> SUFFICES ASSUME Init PROVE Space
  OBVIOUS
<1>1. Live = 2 /\ allocp = 2 /\ heapsize = HEAPSIZE /\ Grows(stack)
  BY Sizes DEF Init, Live, Words, Grows
<1>2. TypeOK
  <2>1. {idling, goals, kept, allocp, this_more_space} \subseteq Nat
    BY <1>1 DEF Init
  <2>2. {weighted, make_heap_larger, lastgc_dangerous, pending, intact} \subseteq BOOLEAN
    BY DEF Init
  <2>3. /\ heapsize \in HEAPSIZE..MAXHEAPSIZE
        /\ messages \in 0..MaxMessages /\ reductions \in 0..MaxReductions
    BY <1>1, Sizes, BoundAssumption DEF Init
  <2> QED
    BY <2>1, <2>2, <2>3 DEF Init, TypeOK
<1> QED
  BY <1>1, <1>2, Sizes DEF Init, Space, NoOverrun

LEMMA ReduceSpace ==
  ASSUME IInv, Space, NEW w \in 0..MaxWords, NEW k \in 0..(kept + w), Reduce(w, k)
  PROVE  Space'
<1>1. /\ kept \in Nat /\ allocp \in Nat /\ goals \in Nat /\ w \in Nat /\ w <= MaxWords
      /\ heapsize \in Nat /\ allocp < heapsize /\ Live <= allocp
  BY Numbers, Sizes DEF Space, Reduce
<1>2. stack = <<>> /\ Words(stack) = 0 /\ Words(stack)' = 0
  BY DEF Reduce, IInv, Remembered, Between, Words, msgVars
<1>3. allocp' = allocp + w /\ kept' = k /\ k \in Nat /\ k <= kept + w
  BY <1>1 DEF Reduce
<1>4. Live = kept + 2 /\ Live' = k + 2
  BY <1>1, <1>2, <1>3, LiveNumber, LiveNext
<1>5. Live' <= allocp' /\ allocp' \in Nat
  BY <1>1, <1>3, <1>4
<1>6. pc' \in {"reduce", "receive"} /\ (pc' = "reduce" => allocp' < heapsize)
  BY <1>1, <1>3 DEF Reduce
<1>7. idling' = idling /\ heapsize' = heapsize /\ goals' \in Nat /\ reductions' \in 0..MaxReductions
  BY <1>1, BoundAssumption DEF Reduce, Space, TypeOK, spaceVars
<1>8. TypeOK'
  BY <1>3, <1>5, <1>6, <1>7 DEF Reduce, Space, TypeOK, spaceVars, msgVars
<1>9. idling # 0 => Live' + TopSize <= allocp'
  <2>1. idling # 0 => kept + 2 + 2 <= allocp
    BY <1>4, Sizes DEF Space
  <2> QED
    BY <1>1, <1>3, <1>4, <2>1, Sizes
<1>10. NoOverrun'
  BY <1>1, <1>3, <1>7, Sizes DEF NoOverrun
<1>11. Grows(stack')
  BY DEF Reduce, Space, msgVars
<1> QED
  BY <1>5, <1>6, <1>7, <1>8, <1>9, <1>10, <1>11 DEF Space

LEMMA IdleSpace ==
  ASSUME IInv, Space, Idle PROVE Space'
<1>1. /\ kept \in Nat /\ allocp \in Nat /\ heapsize \in Nat
      /\ allocp < heapsize /\ Live <= allocp
  BY Numbers DEF Space, Idle
<1>2. stack' = <<>> /\ Words(stack) = 0 /\ Words(stack)' = 0
  BY DEF Idle, IInv, Remembered, Between, Words, msgVars
<1>3. allocp' = allocp + 2 /\ idling' = allocp + 2 /\ kept' = kept /\ heapsize' = heapsize
  BY Sizes DEF Idle, spaceVars
<1>4. Live = kept + 2 /\ Live' = kept + 2
  BY <1>1, <1>2, <1>3, LiveNumber, LiveNext
<1>5. Live' + TopSize <= allocp' /\ Live' <= allocp' /\ allocp' \in Nat /\ idling' \in Nat
  BY <1>1, <1>3, <1>4, Sizes
<1>6. NoOverrun'
  BY <1>1, <1>3, Sizes DEF NoOverrun
<1>7. pc' = "receive"
  BY DEF Idle
<1>8. weighted' \in BOOLEAN
  BY DEF Idle
<1>9. TypeOK'
  BY <1>3, <1>5, <1>7, <1>8 DEF Idle, Space, TypeOK, spaceVars, msgVars
<1>10. Grows(stack')
  BY DEF Idle, Space, msgVars
<1> QED
  BY <1>5, <1>6, <1>7, <1>9, <1>10 DEF Space

(* Steps that allocate nothing, and go on to decode or to reduce only when *)
(* there is room.                                                          *)
LEMMA SameSpace ==
  ASSUME Space, UNCHANGED <<idling, nodeVars, heapVars, reductions>>,
         stack' = stack, intact' = intact,
         pc' \in {"receive", "decode", "gc", "reduce"} \cup Stopped,
         pc' = "decode" => ~Full, pc' # "reduce",
         pending' \in BOOLEAN, messages' \in 0..MaxMessages
  PROVE  Space'
<1>1. heapsize' = heapsize /\ allocp' = allocp /\ this_more_space' = this_more_space /\ kept' = kept
  BY DEF heapVars, spaceVars, nodeVars
<1>2. TypeOK'
  BY DEF heapVars, spaceVars, nodeVars, Space, TypeOK
<1>3. Live' = Live /\ NoOverrun' /\ Grows(stack')
  BY <1>1 DEF Live, Space, NoOverrun
<1>4. pc' = "decode" => allocp' + this_more_space' < heapsize'
  <2>1. ~Full => allocp + this_more_space < heapsize
    BY Numbers, Sums DEF Full, Space
  <2> QED
    BY <1>1, <2>1
<1> QED
  BY <1>1, <1>2, <1>3, <1>4 DEF Space

LEMMA ReceiveSpace ==
  ASSUME IInv, Space, Receive PROVE Space'
<1>1. CASE ReceiveWhenFull
  BY <1>1, SameSpace DEF ReceiveWhenFull, Space, TypeOK, msgVars
<1>2. CASE TakePending
  BY <1>2, SameSpace DEF TakePending, Space, TypeOK
<1>3. CASE TakePacket
  <2>1. messages' \in 0..MaxMessages
    <3>1. messages \in 0..MaxMessages /\ MaxMessages \in Nat
      BY BoundAssumption DEF Space, TypeOK
    <3>2. messages' \in {messages + 1, messages + 2} /\ messages' <= MaxMessages
      BY <1>3 DEF TakePacket
    <3> QED
      BY <3>1, <3>2
  <2> QED
    BY <1>3, <2>1, SameSpace DEF TakePacket, Space, TypeOK
<1>4. CASE NoPacket
  <2>1. stack = <<>> /\ Words(stack) = 0 /\ Words(stack)' = 0
    BY <1>4 DEF NoPacket, IInv, Remembered, Between, Words, msgVars
  <2>2. /\ kept \in Nat /\ allocp \in Nat /\ heapsize \in Nat /\ this_more_space \in Nat
        /\ Live <= allocp /\ Live = kept + 2 /\ (idling # 0 => Live + 2 <= allocp)
    BY <2>1, Numbers, LiveNumber, Sizes DEF Space
  <2>3. /\ pc' = "reduce" /\ idling' = 0 /\ kept' = kept /\ heapsize' = heapsize
        /\ allocp' = IF allocp = idling THEN allocp - 2 ELSE allocp
    BY <1>4, <2>1, Sizes DEF NoPacket, nodeVars, spaceVars
  <2>4. Live' = kept + 2
    BY <2>1, <2>2, <2>3, LiveNext
  <2>5. allocp = idling => kept + 4 <= allocp
    BY <2>2
  <2>6. allocp' \in Nat /\ Live' <= allocp' /\ allocp' <= allocp
    BY <2>2, <2>3, <2>4, <2>5
  <2>7. allocp < heapsize
    <3>1. allocp + this_more_space < heapsize
      BY <1>4, <2>2, Sums DEF NoPacket, Full
    <3> QED
      BY <2>2, <3>1
  <2>8. allocp' < heapsize' /\ NoOverrun'
    BY <2>2, <2>3, <2>6, <2>7, Sizes DEF NoOverrun
  <2>9. TypeOK' /\ Grows(stack')
    BY <1>4, <2>3, <2>6 DEF NoPacket, Space, TypeOK, nodeVars, spaceVars, msgVars
  <2> QED
    BY <2>3, <2>6, <2>8, <2>9 DEF Space
<1> QED
  BY <1>1, <1>2, <1>3, <1>4 DEF Receive

(* A collection keeps what must be kept, which is no more than was used,   *)
(* in spaces that are not smaller.                                         *)
LEMMA GcSpace ==
  ASSUME IInv, Space, GcPass PROVE Space'
<1>1. /\ kept \in Nat /\ allocp \in Nat /\ heapsize \in Nat /\ this_more_space \in Nat
      /\ heapsize \in HEAPSIZE..MAXHEAPSIZE /\ Live <= allocp
  BY Numbers DEF Space
<1>2. Words(stack) \in Nat /\ Words(stack)' = Words(stack)
  BY WordsOfStack DEF GcPass, msgVars, IInv, Space
<1>3. Live \in Nat /\ Live' = Live
  BY <1>1, <1>2, LiveNumber, LiveNext DEF GcPass, nodeVars
<1>4. heapsize' \in HEAPSIZE..MAXHEAPSIZE /\ heapsize <= heapsize'
  <2>1. Larger \in HEAPSIZE..MAXHEAPSIZE /\ heapsize <= Larger
    BY <1>1, Sizes DEF Larger
  <2>2. heapsize' \in {heapsize, Larger}
    BY DEF GcPass, heapVars, spaceVars
  <2> QED
    BY <1>1, <2>1, <2>2
<1>5. allocp' \in {allocp, Live} /\ idling' \in {0, idling}
      /\ (allocp' = Live => idling' = 0 \/ allocp' = allocp)
  BY DEF GcPass, heapVars
<1>6. /\ pc' \in {"gc", "receive", "exhausted", "invalid WTC"}
      /\ this_more_space' \in {0, this_more_space}
      /\ make_heap_larger' \in BOOLEAN /\ lastgc_dangerous' \in BOOLEAN
  <2>0. make_heap_larger \in BOOLEAN /\ lastgc_dangerous \in BOOLEAN
    BY DEF Space, TypeOK
  <2>1. CASE lastgc_dangerous /\ ~make_heap_larger
    BY <2>0, <2>1 DEF GcPass, heapVars, spaceVars
  <2>2. CASE ~(lastgc_dangerous /\ ~make_heap_larger) /\ ~weighted
    BY <2>0, <2>2 DEF GcPass
  <2>3. CASE ~(lastgc_dangerous /\ ~make_heap_larger) /\ weighted
    <3>1. /\ make_heap_larger' = (/\ 2 * (Live + this_more_space) > heapsize'
                                  /\ heapsize' < MAXHEAPSIZE)
          /\ lastgc_dangerous' = (heapsize' < Live + this_more_space)
          /\ this_more_space' = IF lastgc_dangerous' THEN this_more_space ELSE 0
          /\ pc' = IF lastgc_dangerous' THEN "gc" ELSE "receive"
      BY <2>3 DEF GcPass
    <3> QED
      BY <3>1
  <2> QED
    BY <2>1, <2>2, <2>3
<1>7. allocp' \in Nat /\ allocp' <= allocp /\ Live' <= allocp'
  BY <1>1, <1>3, <1>5
<1>8. NoOverrun'
  <2>1. PICK n \in {INCREMENTSIZE + UnifyWords, MaxWords} : allocp <= heapsize + n
    BY DEF Space, NoOverrun
  <2>2. n \in Nat
    BY Sizes
  <2>3. allocp' <= heapsize' + n
    <3>1. heapsize' \in Nat
      BY <1>4, Sizes
    <3>2. allocp' \in Nat /\ allocp \in Nat /\ heapsize \in Nat
      BY <1>1, <1>7
    <3> QED
      BY <1>4, <1>7, <2>1, <2>2, <3>1, <3>2, StillBelow
  <2> QED
    BY <2>3 DEF NoOverrun
<1>9. idling' # 0 => Live' + TopSize <= allocp'
  <2>1. idling' # 0 => allocp' = allocp /\ idling' = idling
    BY <1>5
  <2> QED
    BY <1>3, <2>1 DEF Space
<1>10. TypeOK' /\ Grows(stack')
  <2>1. UNCHANGED <<goals, weighted, kept, pending, intact, stack, messages, reductions>>
    BY DEF GcPass, nodeVars, msgVars
  <2>2. {idling', goals', kept', allocp', this_more_space'} \subseteq Nat
    <3>1. idling \in Nat /\ goals \in Nat /\ this_more_space \in Nat /\ 0 \in Nat
      BY Numbers DEF Space
    <3>2. idling' \in Nat
      BY <1>5, <3>1, Zenon
    <3>3. this_more_space' \in Nat
      BY <1>6, <3>1, Zenon
    <3> QED
      BY <1>1, <1>7, <2>1, <3>1, <3>2, <3>3
  <2>3. {weighted', make_heap_larger', lastgc_dangerous', pending', intact'} \subseteq BOOLEAN
    BY <1>6, <2>1 DEF Space, TypeOK
  <2>4. pc' \in {"reduce", "receive", "decode", "gc"} \cup Stopped
    BY <1>6 DEF Stopped
  <2> QED
    BY <1>4, <2>1, <2>2, <2>3, <2>4 DEF Space, TypeOK
<1> QED
  BY <1>6, <1>7, <1>8, <1>9, <1>10 DEF Space

LEMMA NextSpace ==
  ASSUME IInv, Space, [Next]_vars PROVE Space'
<1>1. ASSUME NEW w \in 0..MaxWords, NEW k \in 0..(kept + w), Reduce(w, k) PROVE Space'
  BY <1>1, ReduceSpace
<1>2. CASE Poll
  BY <1>2, SameSpace DEF Poll, Space, TypeOK, msgVars
<1>3. CASE Idle
  BY <1>3, IdleSpace
<1>4. CASE Receive
  BY <1>4, ReceiveSpace
<1>5. CASE Decode
  BY <1>5, DecodeSpace
<1>6. CASE GcPass
  BY <1>6, GcSpace
<1>7. CASE UNCHANGED vars
  BY <1>7 DEF vars, heapVars, spaceVars, nodeVars, msgVars, Space, TypeOK, NoOverrun, Live
<1> QED
  BY <1>1, <1>2, <1>3, <1>4, <1>5, <1>6, <1>7 DEF Next

(* What must be kept is no more than what is used, and whoever allocates   *)
(* starts below the limit.                                                 *)
THEOREM SpaceInvariance == Spec => []Space
<1>1. Init => Space
  BY InitSpace
<1>2. IInv /\ Space /\ [Next]_vars => Space'
  BY NextSpace
<1> QED
  BY <1>1, <1>2, Invariance, PTL DEF Spec

(* TypeOK: in particular the heap never gets larger than the maximum that  *)
(* klic_gc() is given, and no demand for space is negative.                *)
THEOREM TypeCorrect == Spec => []TypeOK
<1>1. Space => TypeOK
  BY DEF Space
<1> QED
  BY <1>1, SpaceInvariance, PTL

(* NoOverrun: however long a packet is, what its decoders write behind the *)
(* limit is no more than one of them allocates: they keep within the       *)
(* increment that alloc.c leaves, but for the words of one do_unify().     *)
THEOREM NeverOverruns == Spec => []NoOverrun
<1>1. Space => NoOverrun
  BY DEF Space
<1> QED
  BY <1>1, SpaceInvariance, PTL
=============================================================================
