------------------------------- MODULE Decode -------------------------------
(***************************************************************************)
(* How a distributed node decodes its messages while its heap fills up     *)
(* (the build that polls, USE_REDUCTION_COUNT).  A packet is code for a    *)
(* stack machine that builds terms on the heap.  When the heap is full in  *)
(* the middle of a packet, receive_message() leaves it as pending_msg, and *)
(* klic_interrupt() collects garbage and calls receive_message() again.    *)
(* The heap is abstracted to numbers of words: how many are used, and how  *)
(* many of them a collection must keep.                                    *)
(***************************************************************************)
EXTENDS Integers, SequencesExt

CONSTANTS
  Message,          \* messages: their arguments and their code
  Point,            \* the points in their decoding, if nothing comes between:
                    \* the code left, the terms on the stack, the arguments
  HEAPSIZE, MAXHEAPSIZE, INCREMENTSIZE,
  ObjectSize,       \* the words of an object: an external reference, or the
  VariableSize,     \* hook that answers a read; those of its variable; and
  GoalSize,         \* those of the goal that makes it, when it does not fit
  UnifyWords,       \* the words one do_unify() allocates at most, which
                    \* depends on how many hooks a variable has
  MaxWords,         \* bound: the words one reduction allocates
  MaxMessages, MaxReductions   \* bounds: messages and reductions in all

TopSize == 2        \* the words of the goal topsucceed

ASSUME SizeAssumption ==
  /\ {HEAPSIZE, MAXHEAPSIZE, INCREMENTSIZE, UnifyWords, MaxWords} \subseteq Nat
  /\ {ObjectSize, VariableSize, GoalSize} \subseteq Nat
  /\ TopSize < HEAPSIZE /\ HEAPSIZE <= MAXHEAPSIZE
  /\ {ObjectSize + VariableSize, GoalSize, TopSize} \subseteq 0..INCREMENTSIZE
  /\ \A p \in Point : Head(p.left).op = "throw" => Head(p.left).arity + 2 <= INCREMENTSIZE
ASSUME BoundAssumption == {MaxMessages, MaxReductions} \subseteq Nat

Top(s, n) == SubSeq(s, Len(s) - n + 1, Len(s))
Below(s, n) == SubSeq(s, 1, Len(s) - n)
Combined(f, n, s) == Append(Below(s, n), <<f>> \o Top(s, n))

(* How many terms an item of the code pops from the stack.                 *)
Pops(item) ==
  CASE item.op \in {"atom", "exref", "read", "release"} -> 0
    [] item.op \in {"unify", "answer"} -> 1
    [] item.op = "list" -> 2
    [] OTHER -> item.arity

(* The code of a message builds its arguments: from each point an item     *)
(* that finds the terms it pops leads to another, or is the last one, the  *)
(* decoder of the message, and pops the arguments and nothing else.        *)
IsSequence(s) == s \in Seq(Range(s))
Leads(p) ==
  LET item == Head(p.left)
      To(s) == [p EXCEPT !.left = Tail(@), !.terms = s] \in Point
  IN  /\ Pops(item) \in 0..Len(p.terms)
      /\ \/ item.op \in {"atom", "exref"} /\ To(Append(p.terms, item.term))
         \/ item.op = "list" /\ To(Combined(".", 2, p.terms))
         \/ item.op = "funct" /\ To(Combined(item.name, item.arity, p.terms))
         \/ /\ item.op \in {"throw", "unify", "answer", "read", "release"}
            /\ Tail(p.left) = <<>> /\ p.terms = p.args /\ Pops(item) = Len(p.args)

ASSUME CodeAssumption ==
  /\ \A m \in Message : [left |-> m.code, terms |-> <<>>, args |-> m.args] \in Point
  /\ \A p \in Point :
       /\ DOMAIN p = {"left", "terms", "args"}
       /\ IsSequence(p.left) /\ IsSequence(p.terms) /\ p.left # <<>>
       /\ Leads(p)

VARIABLES
  pc,               \* where the process is: "reduce", "receive" (at the head
                    \* of the loop of receive_message()), "decode", "gc" (at
                    \* gc_again of klic_gc()), or what has stopped it
  idling,           \* allocp when topsucceed() called klic_interrupt(), or 0
  goals,            \* the goals of the node, runnable or suspended
  weighted,         \* node_wtc # 0
  kept,             \* the words that goals and export entries refer to
  allocp,           \* the words used
  heapsize,         \* real_heaplimit, in words
  this_more_space,
  make_heap_larger, lastgc_dangerous,
  inbuf,            \* what is left of the packet
  pending,          \* pending_msg # 0
  stack,            \* the decode stack: terms, and the words that each and
                    \* those below it take
  meant,            \* the arguments of the messages left in the packet
  intact,           \* history: all messages had the arguments they were sent with
  messages, reductions

spaceVars == <<heapsize, make_heap_larger, lastgc_dangerous>>
heapVars == <<allocp, this_more_space, spaceVars>>
nodeVars == <<goals, weighted, kept>>
msgVars == <<inbuf, pending, stack, meant, intact>>
vars == <<pc, idling, nodeVars, heapVars, msgVars, messages, reductions>>

Stopped == {"exhausted", "invalid WTC", "stack error"}

-----------------------------------------------------------------------------
(* The words of the terms on a stack, up to and with its last one.         *)
Words(s) == IF s = <<>> THEN 0 ELSE Last(s).upto
Live == TopSize + kept + Words(stack)
Full == allocp + this_more_space >= heapsize

(* The master has the goal main:main and a supply of weight, other nodes   *)
(* have neither.                                                           *)
Init ==
  /\ pc = "reduce" /\ idling = 0
  /\ goals \in {0, 1} /\ weighted = (goals = 1)
  /\ kept = 0 /\ allocp = TopSize /\ heapsize = HEAPSIZE
  /\ this_more_space = 0 /\ make_heap_larger = FALSE /\ lastgc_dangerous = FALSE
  /\ inbuf = <<>> /\ pending = FALSE /\ stack = <<>> /\ meant = <<>>
  /\ intact = TRUE /\ messages = 0 /\ reductions = 0

-----------------------------------------------------------------------------
(* Reductions                                                              *)

(* A reduction that allocates w words and leaves k in use.                 *)
Reduce(w, k) ==
  /\ pc = "reduce" /\ goals > 0
  /\ reductions < MaxReductions /\ reductions' = reductions + 1
  /\ allocp' = allocp + w
  /\ k <= kept + w /\ kept' = k
  /\ goals' \in {goals - 1, goals}
  /\ pc' = IF allocp' >= heapsize THEN "receive" ELSE pc
  /\ UNCHANGED <<idling, weighted, this_more_space, spaceVars, msgVars, messages>>

(* The reduction count has run out, or the bell was rung.                  *)
Poll ==
  /\ pc = "reduce" /\ goals > 0
  /\ pc' = "receive"
  /\ UNCHANGED <<idling, nodeVars, heapVars, msgVars, messages, reductions>>

(* topsucceed() of a node, which has no goal that can run: all weight is   *)
(* returned if none is suspended either, and the goal topsucceed is made   *)
(* anew before the messages are looked at.                                 *)
Idle ==
  /\ pc = "reduce"
  /\ weighted' = (weighted /\ goals > 0)
  /\ allocp' = allocp + TopSize
  /\ idling' = allocp'
  /\ pc' = "receive"
  /\ UNCHANGED <<goals, kept, this_more_space, spaceVars, msgVars, messages, reductions>>

-----------------------------------------------------------------------------
(* receive_message()                                                       *)

ReceiveWhenFull ==
  /\ pc = "receive" /\ Full
  /\ pc' = "gc"
  /\ UNCHANGED <<idling, nodeVars, heapVars, msgVars, messages, reductions>>

TakePending ==
  /\ pc = "receive" /\ ~Full /\ pending
  /\ pending' = FALSE
  /\ pc' = IF inbuf = <<>> THEN "receive" ELSE "decode"
  /\ UNCHANGED <<idling, nodeVars, heapVars, inbuf, stack, meant, intact, messages, reductions>>

(* A packet of one message or two has arrived.                             *)
TakePacket ==
  /\ pc = "receive" /\ ~Full /\ ~pending
  /\ \/ /\ messages' = messages + 1 /\ messages' <= MaxMessages
        /\ \E m \in Message : inbuf' = m.code /\ meant' = <<m.args>>
     \/ /\ messages' = messages + 2 /\ messages' <= MaxMessages
        /\ \E m, n \in Message : inbuf' = m.code \o n.code /\ meant' = <<m.args, n.args>>
  /\ pc' = "decode"
  /\ UNCHANGED <<idling, nodeVars, heapVars, pending, stack, intact, reductions>>

(* No packet is there: back to the reductions.  topsucceed() takes its     *)
(* record back if nothing was allocated behind it.                         *)
NoPacket ==
  /\ pc = "receive" /\ ~Full /\ ~pending
  /\ IF stack # <<>> THEN pc' = "stack error" /\ UNCHANGED <<idling, allocp>>
     ELSE /\ pc' = "reduce" /\ idling' = 0
          /\ allocp' = IF allocp = idling THEN allocp - TopSize ELSE allocp
  /\ UNCHANGED <<nodeVars, this_more_space, spaceVars, msgVars, messages, reductions>>

(* Defect: the heap is looked at when the packet has been decoded.         *)
AfterDecoder_AtEnd(rest) ==
  LET full == rest = <<>> /\ allocp' + this_more_space' >= heapsize
  IN /\ inbuf' = rest /\ pending' = full
     /\ pc' = IF full THEN "gc" ELSE IF rest = <<>> THEN "receive" ELSE "decode"
     /\ UNCHANGED <<spaceVars, messages, reductions>>

(* Defect: a packet broken off is not remembered.                          *)
AfterDecoder_Forgotten(rest) ==
  LET full == allocp' + this_more_space' >= heapsize
  IN /\ inbuf' = rest /\ pending' = FALSE
     /\ pc' = IF full THEN "gc" ELSE IF rest = <<>> THEN "receive" ELSE "decode"
     /\ UNCHANGED <<spaceVars, messages, reductions>>

(* What receive_message() does after each decoder: rest of the packet is   *)
(* left.                                                                   *)
AfterDecoder(rest) ==
  LET full == allocp' + this_more_space' >= heapsize
  IN /\ inbuf' = rest
     /\ pending' = full
     /\ pc' = IF full THEN "gc" ELSE IF rest = <<>> THEN "receive" ELSE "decode"
     /\ UNCHANGED <<spaceVars, messages, reductions>>

-----------------------------------------------------------------------------
(* The decoders                                                            *)

At(op) == pc = "decode" /\ Head(inbuf).op = op

Terms(s) == [i \in DOMAIN s |-> s[i].term]

(* A term of functor f and the top n terms of the stack is built in words  *)
(* more of the heap and takes their place.                                 *)
Build(f, n, words) ==
  /\ stack' = Append(Below(stack, n), [term |-> <<f>> \o Terms(Top(stack, n)),
                                       upto |-> Words(stack) + words])
  /\ allocp' = allocp + words
  /\ UNCHANGED this_more_space

DecodeAtom ==
  /\ At("atom")
  /\ stack' = Append(stack, [term |-> Head(inbuf).term, upto |-> Words(stack)])
  /\ UNCHANGED <<idling, nodeVars, allocp, this_more_space, meant, intact>>
  /\ AfterDecoder(Tail(inbuf))

(* new_generic(): the words of the object and its variable; if the object  *)
(* does not fit, its words are demanded of the next collection, and a goal *)
(* is resumed that makes it then.                                          *)
NewObject ==
  IF allocp + ObjectSize >= heapsize
  THEN [words |-> GoalSize, more |-> ObjectSize, goals |-> 1]
  ELSE [words |-> ObjectSize + VariableSize, more |-> 0, goals |-> 0]
NoObject == [words |-> 0, more |-> 0, goals |-> 0]

(* A reference to a term of another node, for which an object is made, or  *)
(* one to the node's own, which is looked up in the export table.          *)
DecodeExref ==
  /\ At("exref")
  /\ \E object \in {NoObject, NewObject} :
       LET goal == object.goals * object.words
       IN  /\ stack' = Append(stack, [term |-> Head(inbuf).term,
                                      upto |-> Words(stack) + object.words - goal])
           /\ kept' = kept + goal
           /\ allocp' = allocp + object.words
           /\ this_more_space' = this_more_space + object.more
           /\ goals' = goals + object.goals
           /\ idling' = IF object.goals > 0 THEN 0 ELSE idling
  /\ UNCHANGED <<weighted, meant, intact>>
  /\ AfterDecoder(Tail(inbuf))

DecodeList ==
  /\ At("list")
  /\ Build(".", 2, 2)
  /\ UNCHANGED <<idling, nodeVars, meant, intact>>
  /\ AfterDecoder(Tail(inbuf))

(* Defect: a structure that does not fit is not put back.                  *)
DecodeFunct_Skipped ==
  /\ At("funct")
  /\ LET f == Head(inbuf)
     IN IF heapsize - allocp < f.arity + 1
        THEN /\ this_more_space' = this_more_space + f.arity + 1
             /\ UNCHANGED <<stack, allocp>>
        ELSE Build(f.name, f.arity, f.arity + 1)
  /\ UNCHANGED <<idling, nodeVars, meant, intact>>
  /\ AfterDecoder(Tail(inbuf))

(* Defect: a structure is put back and no space is demanded for it.        *)
DecodeFunct_NoDemand ==
  /\ At("funct")
  /\ LET f == Head(inbuf)
     IN IF heapsize - allocp < f.arity + 1
        THEN UNCHANGED <<stack, allocp, this_more_space>> /\ AfterDecoder(inbuf)
        ELSE Build(f.name, f.arity, f.arity + 1) /\ AfterDecoder(Tail(inbuf))
  /\ UNCHANGED <<idling, nodeVars, meant, intact>>

(* A structure that does not fit is put back, and its size demanded of     *)
(* the next collection.                                                    *)
DecodeFunct ==
  /\ At("funct")
  /\ LET f == Head(inbuf)
     IN IF heapsize - allocp < f.arity + 1
        THEN /\ this_more_space' = this_more_space + f.arity + 1
             /\ UNCHANGED <<stack, allocp>>
             /\ AfterDecoder(inbuf)
        ELSE Build(f.name, f.arity, f.arity + 1) /\ AfterDecoder(Tail(inbuf))
  /\ UNCHANGED <<idling, nodeVars, meant, intact>>

(* A message takes its n arguments from the stack.                         *)
WordsOfTop(n) == Words(stack) - Words(Below(stack, n))
TakeArguments(n) ==
  /\ stack' = Below(stack, n)
  /\ meant' = Tail(meant)
  /\ intact' = (intact /\ Terms(Top(stack, n)) = Head(meant))

DecodeThrowGoal ==
  /\ At("throw")
  /\ LET n == Head(inbuf).arity
     IN /\ TakeArguments(n)
        /\ allocp' = allocp + n + 2
        /\ kept' = kept + WordsOfTop(n) + n + 2
  /\ goals' = goals + 1 /\ weighted' = TRUE
  /\ UNCHANGED <<idling, this_more_space>>
  /\ AfterDecoder(Tail(inbuf))

(* do_unify() of a variable, with an object that has been made for it and  *)
(* the terms taken from the stack.  It allocates for each merger on the    *)
(* hooks of the variable, and for the goals it leaves what cannot be done  *)
(* at once to, without looking at the heap; mergers that find no room      *)
(* demand it.  Resumed goals are in front of topsucceed.                   *)
DoUnify(taken, object) ==
  \E words, more \in 0..UnifyWords, new \in {0, 1} :
    LET all == kept + (taken + (object.words + words))
    IN  /\ new > 0 => words > 0
        /\ more > 0 => allocp + object.words + words + more >= heapsize
        /\ allocp' = allocp + (object.words + words)
        /\ this_more_space' = this_more_space + object.more + more
        /\ goals' = goals + object.goals + new
        /\ IF goals' > goals THEN kept' = all /\ idling' = 0
           ELSE /\ kept' \in {kept, all} /\ idling' \in {0, idling}
                /\ goals = 0 => idling' = idling

(* The value is bound to an exported variable.                             *)
DecodeUnify ==
  /\ At("unify")
  /\ TakeArguments(1)
  /\ DoUnify(WordsOfTop(1), NoObject)
  /\ weighted' = TRUE
  /\ AfterDecoder(Tail(inbuf))

(* The answer to a read; it is dropped if its variable has got a value.    *)
DecodeAnswerValue ==
  /\ At("answer")
  /\ TakeArguments(1)
  /\ \/ DoUnify(WordsOfTop(1), NoObject)
     \/ UNCHANGED <<idling, goals, kept, allocp, this_more_space>>
  /\ weighted' = TRUE
  /\ AfterDecoder(Tail(inbuf))

(* A read is answered, with its own weight, or passed on; one that has     *)
(* come home is unified with the variable that waits for the answer, and   *)
(* otherwise a hook that answers it is unified with the variable it is for. *)
DecodeRead ==
  /\ At("read")
  /\ TakeArguments(0)
  /\ \/ UNCHANGED <<idling, nodeVars, allocp, this_more_space>>
     \/ weighted' = TRUE /\ \E object \in {NoObject, NewObject} : DoUnify(0, object)
  /\ AfterDecoder(Tail(inbuf))

DecodeRelease ==
  /\ At("release")
  /\ TakeArguments(0)
  /\ UNCHANGED <<idling, nodeVars, allocp, this_more_space>>
  /\ AfterDecoder(Tail(inbuf))

-----------------------------------------------------------------------------
(* klic_gc()                                                               *)

Larger_NoMaximum == 2 * heapsize   \* Defect
Larger == IF 2 * heapsize > MAXHEAPSIZE THEN MAXHEAPSIZE ELSE 2 * heapsize

(* One pass of the collector, into spaces that are made larger first if    *)
(* the last pass has decided so; malloc() is taken to succeed.  After the  *)
(* last pass klic_interrupt() looks at the messages again.                 *)
GcPass ==
  /\ pc = "gc"
  /\ IF lastgc_dangerous /\ ~make_heap_larger
     THEN pc' = "exhausted" /\ UNCHANGED <<idling, heapVars>>
     ELSE /\ heapsize' = IF make_heap_larger THEN Larger ELSE heapsize
          /\ IF ~weighted
             THEN /\ pc' = "invalid WTC"
                  /\ UNCHANGED <<idling, allocp, this_more_space, make_heap_larger, lastgc_dangerous>>
             ELSE /\ allocp' = Live /\ idling' = 0
                  /\ make_heap_larger' = (/\ 2 * (Live + this_more_space) > heapsize'
                                          /\ heapsize' < MAXHEAPSIZE)
                  /\ lastgc_dangerous' = (heapsize' < Live + this_more_space)
                  /\ this_more_space' = IF lastgc_dangerous' THEN this_more_space ELSE 0
                  /\ pc' = IF lastgc_dangerous' THEN "gc" ELSE "receive"
  /\ UNCHANGED <<nodeVars, msgVars, messages, reductions>>

-----------------------------------------------------------------------------
Receive ==
  ReceiveWhenFull \/ TakePending \/ TakePacket \/ NoPacket
Decode ==
  \/ DecodeAtom \/ DecodeExref \/ DecodeList \/ DecodeFunct
  \/ DecodeThrowGoal \/ DecodeUnify \/ DecodeAnswerValue \/ DecodeRead \/ DecodeRelease

Next ==
  \/ \E w \in 0..MaxWords : \E k \in 0..(kept + w) : Reduce(w, k)
  \/ Poll \/ Idle
  \/ Receive \/ Decode \/ GcPass

(* klic_interrupt() is one thread of a process that goes on running.       *)
Spec == Init /\ [][Next]_vars /\ WF_vars(Receive \/ Decode \/ GcPass)

-----------------------------------------------------------------------------
(* Properties                                                              *)

(* Types and ranges: the heap never gets larger than the maximum given,    *)
(* and a demand for space is met or pending, never negative.               *)
TypeOK ==
  /\ pc \in {"reduce", "receive", "decode", "gc"} \cup Stopped
  /\ {idling, goals, kept, allocp, this_more_space} \subseteq Nat
  /\ {weighted, make_heap_larger, lastgc_dangerous, pending, intact} \subseteq BOOLEAN
  /\ heapsize \in HEAPSIZE..MAXHEAPSIZE
  /\ messages \in 0..MaxMessages /\ reductions \in 0..MaxReductions

(* Every message gets the arguments it was sent with, however often its    *)
(* decoding was broken off by a full heap, and a structure put back.       *)
AsSent == intact

(* The heap is looked at after each decoder and each reduction, however    *)
(* many there are in a packet: what is written behind the limit is never   *)
(* more than one of them allocates, that is, the increment, into which all *)
(* but do_unify() keep, and what one do_unify() takes; or one reduction.    *)
NoOverrun == \E n \in {INCREMENTSIZE + UnifyWords, MaxWords} : allocp <= heapsize + n

(* The decode stack is right: check_decode_stack() finds it empty whenever *)
(* no packet is left, and pop_decode_stack() never below its bottom, so a  *)
(* packet broken off is gone on with before another one is taken.          *)
StackClean ==
  /\ pc # "stack error"
  /\ pc = "decode" => Pops(Head(inbuf)) \in 0..Len(stack)

(* A packet is decoded to its end, unless the process stops or what must   *)
(* be kept needs more than the maximum of the heap.                        *)
PacketDecoded ==
  inbuf # <<>> ~> inbuf = <<>> \/ pc \in Stopped \/ Live + this_more_space >= MAXHEAPSIZE

(* Whenever a collection starts the node has weight, as the collector      *)
(* demands with "invalid WTC in gc".                                       *)
GcHasWeight == pc = "gc" => weighted
=============================================================================
