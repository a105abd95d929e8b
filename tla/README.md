# Verification of the KLIC runtime

KLIC compiles KL1, a concurrent logic language, to C and runs it on one process,
on processes with shared memory, or on nodes that exchange messages. This
directory models the runtime of release 3.014 (`src/klic-3.014/runtime`,
`src/klic-3.014/include/klic`) in TLA+, checks the models with TLC and proves
the main results about each of the six larger ones with TLAPS. File names below are relative to
`src/klic-3.014/runtime` unless they start with `src/`. `src/klic` and
`src/klic-3.01*` hold other releases of the same sources, which are not modelled.

## Inventory

| Component | State it keeps | Operations | What makes it correct |
|---|---|---|---|
| weighted throw counting (`sendrecv.c`, `cntlmsg.c`, `kmain.c`) | `node_wtc`, `requesting_wtc`, `susp_msg_list` of each node, `shoen_wtc` of the shoen | send, suspend and resume a message, request, supply, return weight, the handlers of work messages, the shoen's check | weight is neither lost nor made; the program ends only when all work has, and then it does end |
| external references (`ge_exref.c`, `ge_readhook.c`, `ge_replyhook.c`) | the objects on a node's heap that stand for variables of others | encode, decode, generate (send `%read`), unify, merge, collect | a value reaches all that wait for it, no matter how references were passed on |
| export and import tables (`export_table.c`, `import_table.c`) | entries with a weighted export count (wec) | register, search and spend, free, release | an entry lives exactly as long as something refers to it |
| message encoding and decoding (`datamsg.c`, `sendrecv.c`) | the packet, the decode stack, `pending_msg`, `this_more_space` | encode a term, decode an item, break off, go on | what arrives is what was sent, also when the heap fills up in the middle |
| goal queues and priorities (`sched.c`, `intrpt.c`, `faisus.c`, `control.h`) | `current_queue`, `prioq`, `resumed_goals`, `higher_priority_goal`, `heaplimit` | enqueue, suspend, resume, interrupt, wait for a priority, queue empty | a goal is in exactly one place, runs at its priority, highest first, and is never forgotten |
| unification (`unify.c`) | variables and their chains of hooks | bind, unify, resume goals and call consumer objects | the hooks of both sides survive |
| top level (`kmain.c`) | `suspensions`, `resumes` | start-up, `topsucceed()` of a process, a node, the shoen | ends when, and only when, nothing is left |
| signals (`signal.c`) | `signal_flags`, `signal_done`, `interrupt_off` | record a signal, attend to it between reductions | no signal is lost |
| memory management (`gc.c`, `alloc.c`) | the two spaces, `heapsize`, `make_heap_larger`, `lastgc_dangerous` | collect, grow, give up | what is referred to survives; demands for space are met |
| parallel runtime with one shared heap (`shm_*.c`) | shared heap, queues of thrown goals, states of processes | throw, invoke, collect in step, check for the end | not built in this release, not modelled |
| timers and I/O (`timer.c`, `ktimer.c`, `asyncio.c`) | list of timers, streams waiting | set, fire, retry | every timer fires once |
| merger and mutable vectors (`gmerge.c`, `gcmerge.kl1`, `gmvv.c`) | `count` of open inputs, `outstream`, the variables it is hooked at; versions | take a message, an end or a vector of streams; leave work to goals when the heap is full | each message comes out once and in its stream's order; the output ends with the last input |
| transport (`config/*/distpkt.c`) | buffers of PVM, TCP or shared memory (`config/shm`) and their locks | send and receive packets, ring the doorbell | nothing lost, duplicated or overtaken, and the node told of it |
| compiler, libraries, tracer, profiler, monitor | - | - | sequential or interactive; not modelled |

How they interact: compiled code reduces the goal at the head of the current
queue until the allocation pointer passes `heaplimit`; everything else asks for
attention by setting `heaplimit` to 0 and is attended to in `klic_interrupt()`:
resumed goals, signals, messages, a higher priority, a collection. A reduction
binds variables (`do_unify()`), which resumes goals or, through the generator
object of an external reference, sends a message. A message goes through
`get_wtc()` for weight and, if there is none, waits on `susp_msg_list`. A node
without goals runs `topsucceed()`, returns its weight and looks for messages.
Consumer objects, such as the merger, are hooked on variables like goals, and
`resume_goals()` calls them where it would enqueue a goal.

What is hard: messages of many nodes in any order; entries, references and reads
that outlive what they were made for; interrupts between any two reductions;
state that several things share (`heaplimit`, `resumed_goals`), and that other
processes and the timer write without a lock; a packet that is
broken off and gone on with, and objects that break off in the middle of a call
because the heap is full; fixed amounts and limits of weight. PROJECT.json
lists 40 such places with the properties that cover them, or the reason why none
does yet.

## Modules

| Module | Models | State | Proofs |
|---|---|---|---|
| `TerminationDetection` | what the weights are for: an abstract detector of the end of a computation | who is busy, who is owed a message, whether the end was announced | - |
| `WTC` | weighted throw counting | as in the table, and the messages in flight as a bag | `WTC_proofs`, `WTC_refinement` |
| `ExRef` | external references, the tables and their messages | tables `exp`, heaps `obj`, what goals refer to `held`, the bag `net` | `ExRef_proofs`, `ExRef_reads` |
| `Sched` | scheduler, priorities, suspension, signals and the end of one process | the C globals by their names, and for each goal where it sleeps and what priority it is due | `Sched_proofs` |
| `Mailbox` | what a node may expect of the transport: boxes of messages | the boxes, what has been posted | - |
| `ShmNet` | nodes as processes with message buffers in shared memory: transport, doorbells, signals, timer, idle loops | buffers and locks, `heaplimit`, `interrupt_off`, `signal_done`, `signal_flags`, the packet, and where in the code each node is | `ShmNet_proofs` |
| `StreamMerge` | what a merger promises: an output made of the messages of its inputs | the inputs, how far each is read, the output | - |
| `Merger` | the merger, its hooks, and the goals it leaves behind when the heap is full | hooks, goals, `count`, the term and the vector it is working on, the room in the heap | `Merger_proofs` |
| `EncodeData`, `Decode` | the code of messages; a node that decodes it under a heap limit | heap sizes in words, the packet, the stack, `pending_msg` | `Decode_proofs` |
| `MC_*` | instances for TLC | | |

Definitions have the names of the functions they translate; the map in
PROJECT.json gives the lines. Operators named `X_Defect` next to an operator `X`,
with the comment "Defect", are variants with a plausible bug that show that each
property can fail.

### WTC

`active[n]` stands for "n has goals, runnable or suspended" (`suspensions #
resumes` in the code). A send (`SendMessage`, `SuspendMessage`) contains
`get_wtc()`, the encoding and the transmission or suspension, with the request
when one is due. A handler is one action with everything it sends
(`AnswerRead`, `TransferRead`, `ReceiveSupply`), because handlers run to their
end between reductions; `message_resume()` alone is taken in steps, since it
sends a list. The shoen's steps are `ShoenRequest`, `ShoenReturn`, `Terminate`.
Messages are a bag: they may overtake each other.

### ExRef

A variable's value is abstracted to `Bound`. A heap is a few slots that hold a
variable with its read and reply hooks, an exref, or nothing. The hooks of a
variable are a bag: the code splices chains (`unify.c:343-346`), so two hooks
with the same contents stay two, with the weight of each. Binding and
unifying are operators on the whole memory (`Bind`, `Merge`, `DoUnify`), the
handlers compose them. Readers that pass a read on (`ReadTransferred`) spend
weight of the entry (`cntlmsg.c:291`), a read that comes home
(`ReadComesHome`) and one that must wait (`ReadHooked`) are actions of their own.
`Collect` takes one slot per step, so it allows more interleavings than the
collector, which takes all at once.

Who waits for whom is a graph (`Graph`): references and `%unify`s on their way are
its links, each read hook waits for the place it refers to, and what it has asked
for is known by its return index: a `%read` on its way, a reply hook, or an answer.
`NoneWaitsInVain` takes any set of places that nothing crosses the border of,
neither a link nor what readers in it have asked for, and in which somebody waits:
a read got into it, along a reference that still leads there. So it is neither lost
nor did it get a value that nobody outside is told of. `AnsweredOnce` says that for
each return index at most one thing will be the answer, and that it finds a value
or the hook it is for.

Two things one might expect do not hold, and no property claims them. A value may
be sent back to where it came from: references become circular by aliases, and
also without any, when a reference is exported again and its read comes home (2
nodes, 3 throws), and the hooks on a circle forward to each other what they have
got. It does no harm, since both have the same value then. And there may be more
variables without a read of their own than goals have made; that is why
`NoneWaitsInVain` is about sets of places. Variables that refer to each other across
nodes are never reclaimed (`Reclaimed` is checked with one variable).

### Sched

The build without message passing and shared memory. A reduction is one effect of
the goal at the head of the queue (fork, fork with a variable priority, bind, unify,
suspend on some variables, nothing), after which it goes on or ends; `After` is the
test of `heaplimit` at its end, with all of `klic_interrupt()` (`Interrupt`). Queues
are sequences, `prioq` a sequence of records with the sentinel of priority -1. One
signal can be pending; it comes at any time and is attended to between reductions.
`handle_signal()` may also run between the test and the assignment of `if
(interrupt_off) heaplimit = real_heaplimit` (`intrpt.c:37`, `:113`, `gc.c:566`), and
the bell it has rung is then turned off: `Interrupt` is what one call makes of the
globals (`Interrupted`), with or without such a late signal. Everywhere else in the
call its effect is that of a signal right after it, since once `interrupt_off` is 0
nothing turns the bell off. So the bell tells of resumed goals and higher priorities
at all times (`DoorbellRung`); of signals it does not, but whoever sleeps on its
variable is reduced in the end (`ReadyRuns`): what has made it late has been an
interrupt, and another one, or `topsucceed()`, which does not wait for the bell,
looks at `signal_done` again. A full heap looks like a bell that was rung (`After`).
A goal that waits for its priority (`wait_prio_routine()`) busy-waits in the queues,
sinks to lower priorities and is not counted as suspended. The record that a waking
`topsucceed()` leaves in the queue behind the new one (`kmain.c:513`) is a leak
without other effect; the model keeps one. The search for perpetually suspended
goals is abstracted to its outcome.

### EncodeData and Decode

A message is code for a stack machine: `EncodeData` is `encode_data()` with its
depth, and the decoders of `datamsg.c` and of `cntlmsg.c` are actions of `Decode`:
atoms, references, lists and structures, and the messages `%throw_goal`, `%unify`,
`%answer_value`, `%read` and `%release`. Not among them are the decoders of generic
data (vectors, strings, floats), those of `%terminate` and of profiles, and those
that move weight (`sendrecv.c:245` ff.), which take no terms, allocate nothing here
and are in WTC. After each item `receive_message()` looks at the heap
(`AfterDecoder`); when it is full, the packet becomes `pending_msg` and `klic_gc()`
is called, whose passes are `GcPass`: grow if the last pass said so, stop if it was
dangerous and the heap is at its maximum, refuse a node without weight. Heaps are
counted in words, and each term on the stack carries the words of all terms up to
it; what a goal keeps alive is chosen freely. A decoder allocates in one of four
ways: a structure looks at the heap first and is put back; a list and a goal do not
look; an external reference and the hook that answers a read are objects, and one
that does not fit leaves a goal that makes it later (`NewObject`); and `do_unify()`
(`DoUnify`), which `%unify`, `%answer_value` and `%read` call, allocates for each
consumer object hooked on the variable, without looking, and for the goals that do
what cannot be done at once. How much that is depends on how many hooks there are,
which nothing bounds: up to `UnifyWords`, a constant that may be any number. So
`NoOverrun` says that no more than one decoder's words are ever written behind the
limit, and not that these are within the increment. A packet has one message or two.
That the code of a message builds its arguments, when nothing comes between, is an
assumption (`CodeAssumption`): from each point of its decoding (`Point`) an item
leads to another, and the last one is the message's own decoder and finds just the
arguments. For the messages of the runs, which `EncodeData` makes, TLC evaluates it.
The build is the one that polls (`USE_REDUCTION_COUNT`); with signals the same
functions are called by the signal handler. `malloc()` is taken to succeed.

### StreamMerge and Merger

A merger is hooked at the variables its input streams end with so far.
`resume_goals()` calls it with what one of them is bound to, and it goes on along
the stream as far as that is made. A step of `Merger` is a turn of its loop
(`List`, `Atomic`, `GenericData`, `HookElement`, `Susp`) or what a goal does
before it binds a variable (`Produce`, `UnifyGoal`, `InPair`, `InLast`). Where
the heap has no room, the merger leaves the rest to a goal and is hooked at a
variable which that goal binds: `GcRequest` for a message, with `unify_goal/2`;
`GcRequest2` for the elements of a vector that are left, with `gcmerge:in/4`,
whose pairs are vectors in their turn. The count is corrected there by hand
(`gmerge.c:110`). A failed allocation sets `heaplimit` to 0, so that the heap is
collected before the next goal (`Collect`); until then something smaller may still
fit, the hooked variable of an element (1 word) where a cell (2 words) did not.

A term is an input, that is a stream from some point on, or a variable that
stands for the elements of a vector (`Rest`, `Var`). A stream may occur in
several vectors and twice in one; the `path` of an input says which occurrence
it is. What is a term's `taps` are the inputs it stands for, and `inputs`, the
refinement mapping, is the union of those of all the terms the merger has to do
with, wherever they are. `StreamMerge` says what that is to amount to: `Take` a
message of an input, or `Leave` an input, which ends or becomes those of a
vector; the output ends when no input is left. Abstracted: the order in which
goals run, which is free; the cells of the output behind `GC_UNIFY`, which are a
sequence; how much room a collection makes, which is at least that of a cell;
other goals and objects hooked on the same variables, and data a merger does not
accept. Producers are external: a stream has a length and an end, and grows at
any time. `UnifyGoal` follows one alias at a time, where `do_unify()` follows all
of them in a loop.

### Mailbox and ShmNet

The message passing runtime of `config/shm` (`DIST`, `SHM_DIST`): nodes are
processes, each with a buffer for its messages in shared memory. Here the order
of single statements matters, because three parties write the variables of one
node's doorbell without a lock: the node itself (`intrpt.c`, `signal.c`,
`kmain.c`), its timer (`ktimer.c:18`) and every node that sends to it
(`sendsig()`, `distpkt.c:278`). `pc[n]` says where node n is, and an action is
one access to a variable that somebody else writes, with what follows it up to
the next such access:

| Where | Actions |
|---|---|
| `send_packet()`, `sendsig()` | `StartSend` (part of the steps that send), `SendLock`, `SendFull`, `Spin`, `Put`, `RingDone`, `RingFlag`, `RingOff`, `RingBell` |
| `klic_interrupt()` | `Enqueue`, `Restore`, `Signals`, `HeapHasRoom`, `Collect`, `RestoreLimit` |
| `klic_signal_handler()` | `Scan`, `Skip`, `Handled`, `Restore`, `Rescan`, `PutOff` |
| `receive_message()`, `receive_packet()`, `process_timer_interrupt()` | `TakeUp`, `TakePacket`, `Clear`, `NoPacket`, `Decode` |
| goals and `topsucceed()` | `GoalSends`, `GoalsEnd`, `GoalsFillHeap`, `Interrupted`, `NoGoals`, `ReturnWtc`, `Wait`, `Listen`, `DoNotWait` |
| the timer's signal | `Expire` |

Statements are merged only where nobody can tell: the four writes of the timer's
handler, since a UNIX signal interrupts the node whose variables they are and
their order matters to no one else's writes (both clear `signal_done`,
`interrupt_off` and `heaplimit`); the last write of `sendsig()` and the
`Unlock()` after it; the test and the assignment in lines whose operands only
the node itself writes. Memory is sequentially consistent: the code has
`store_barrier()` between the writes of `sendsig()`. Messages are counted, not
sized: a buffer takes `Capacity` of them, and a sender hands over one at a time.
What goals do is free: reduce, send, end, fill the heap. A message may resume
goals, fill the heap or make its receiver send. The priority part of
`klic_interrupt()` is in Sched. A node returns its weight whenever it is idle
(`ReturnWtc`), so at least as often as in WTC.

`Mailbox` is what all of that is to amount to. The box of a node is the packet
it is decoding or has put off, and behind it its buffer (`Box`); while the packet
is being copied out its messages are in both and count once. The message of a
sender is posted by `Put` and handled by `Decode`.

A bell of another node *can* be lost: `sendsig()` clears `signal_done` before it
sets the flag, and the node may look at the flags in between, set `signal_done`
again, and turn `heaplimit` back at `intrpt.c:37`. What the properties say is
what saves it: the flag stays set (`SomebodyLooks`), a node that waits in its
loop is told (`NobodyDeaf`), the signal of the timer is not passed over
(`AlarmNoticed`), and so every message is handled (`Delivered`). That needs the
timer, so a node started with `-noitimer` is not covered.

## Checks

| Run | Instance | States | Shows |
|---|---|---|---|
| `wtc` | 2 nodes, 3 sends | 40 000 | `WtcConserved`: the debt of the shoen is the weight of nodes and messages. `NeverFatal`, `OneSupplyPerRequest`, `LastUnitOnlyWhenIdle`, `TerminatedSafely`; suspended messages are sent; `WTC` implements `TerminationDetection`, whose fairness says that the end is detected |
| `exref_read` | 3 nodes, 1 variable, 3 throws | 257 000 | `NeverIllegal`: nothing spends on a free entry. `NoneWaitsInVain`: whatever readers wait for leads on to what is neither collected nor bound behind their back |
| `exref_alias` | 2 nodes, 2 variables, 1 alias | 138 000 | `WecConserved`: an entry's count is the weight of what refers to it. `NoneWaitsInVain` and `NothingDangles` while variables are unified across nodes; each read is answered once, and the answer finds what it is for (`AnsweredOnce`); of one variable alone the value arrives (`BindingArrives`) and everything is reclaimed (`Reclaimed`) |
| `sched_queues` | 4 goals, 3 priorities, 2 variables, 1 of them external | 245 000 | `PlacedOnce`, `CountRight`, `NoneSleepsBound`, `HighestFirst`, `DoorbellRung`, `KeepsPriority` |
| `sched_live` | 3 goals, no variable priorities | 25 000 | `ReadyRuns`, also of goals that a signal will wake whose bell has been turned off; `NothingLeft` holds without variable priorities |
| `sched_exit` | 3 goals, 1 of them with a variable priority | - | `NothingLeft` violated (finding 1) |
| `merger` | 4 streams, 3 of them nested, room for up to 4 words | 191 000 | `CountRight`: the count is the number of inputs that have not ended. `Merger` implements `StreamMerge`; `AllMerged`: the output is complete in the end |
| `decode` | heap of 7 to 20 words, 2 messages in one packet or two, 2 reductions | 289 000 | `AsSent`, `NoOverrun`, `StackClean`, `PacketDecoded` |
| `decode_gc` | as `decode` | - | `GcHasWeight` violated (finding 2) |
| `shm_net` | a node and the shoen, 3 messages, buffers for 2 | 755 000 | `SomebodyLooks`, `AlarmNoticed`, `NobodyDeaf`, `ShmNet` implements `Mailbox` |
| `shm_live` | 2 messages, buffers for 1 | 207 000 | `Delivered`: messages are handled, timers armed again |
| `shm_full` | the same | - | `RoomIsSeen` violated (finding 3) |

Bounds. Units and limits of WTC are scaled down (supply 7, limit 9, messages 2
to 4) so that a node runs short after one message and exceeds the limit after
one supply; three sends suffice for a suspended message behind another one while
a supply is on its way; a third node, which can only send and receive like the
second, makes the run too long, and the proofs of `WTC` have any set of nodes.
In ExRef weights of 5 to 8 with a minimum
of 2 make references split, odd and even, until one can be split no further; two or three
indices make freed ones be used again. In Sched three priorities give a current,
a higher and a lower one, and values 0 and 2 let a variable priority be either.
In Merger the first stream ends with a vector of three elements, two of them the
same stream, so that a merger can be hooked at one variable twice and a vector be
broken off at its first or second element, and the pairs it then becomes again;
another ends with a vector of one, and that with an empty one, the cases where
the count stays and falls; with room for at most two cells or four hooked
variables, which goals get none of, every allocation fails in some behaviour, and
succeeds after another has failed. In Decode every item can be the one that fills the heap, structures of 4 words
need to be put back, one collection grows the heap and another exhausts it; two
words for one `do_unify()` are enough to be the ones that fill it. In
ShmNet two processes are all that any one doorbell and buffer involve (owner and
sender; a third can only be another sender, kept out by the lock until the bell
is rung); three messages are enough for one in the packet, one in the buffer and
one whose sender finds that full or rings while the owner is decoding. The proofs
have no such bounds.
Bounds on sends, throws, packets and so on stand in guards of the program's own
steps, never of the runtime's. `CHECK_DEADLOCK FALSE` in ExRef, Merger, Decode and
ShmNet: the program may stop there, because the bounds are used up, the process
or the streams have ended, or, in ShmNet, because two nodes wait for room in each other's
buffers, which nothing in the code prevents.

Symmetry is used in runs without liveness only: nodes, indices and slots of
`ExRef`, goals except the first.

Fairness. WTC: a node's handlers and loops go on (`RuntimeStep`), and the shoen's
do: each is a process that polls; no goal is assumed to send or to end. ExRef:
received messages are handled and collections take place. Sched: the process
takes steps as long as it is runnable (`FairSpec`, which spells out
`WF_vars(SchedStep)`), and no goal goes on for ever without any effect; without
that nothing could be promised, since the queues are stacks and give no fairness
among the goals of a priority. Merger: the node reduces goals and goes on with a call it
is in, it collects when it has to, and each stream is made to its end; the order
of goals is free, so fairness is of `Goal` as a whole, and that is enough because
each goal does something that counts only finitely often. Decode:
`klic_interrupt()`, once entered, is not abandoned. ShmNet: each process runs on, and its timer expires when it is armed
(`FairSpec`); who waits for a lock need not get it as long as others take it in
turn, but messages are finitely many, so that it is free in the end. Goals need
neither end nor send, but a reduction ends, so that a set bell is seen: that is
part of `WF_vars(Step(n))` together with the bounds on what goals do.

## Proofs

`WTC_proofs` proves for all sets of nodes and all units that meet
`UnitAssumption` (units are at least 2, a supply pays for the largest message and
leaves 2 and one more unit for a request, the limit leaves 2 after a return):

- `Invariance`: `Spec => []IInv`;
- `TypeCorrect`, `WeightConserved`, `SafeTermination`, `SupplyPerRequest`,
  `NoFatal`, `LastUnit`: the invariants and the action property of `wtc`.

None of these is inductive by itself. That the shoen at zero means the end needs
that weight is conserved *and* that whoever has work has weight; so `IInv` adds
to types and conservation what messages carry (`MessagesOK`: a work message has
at least 2 units), what suspended messages will carry (`SuspendedOK`), what nodes
hold (`HoldersOK`: an active node has 2 units, or 1 and a request), that requests
and supplies match (`SuppliesOK`) and that the end was announced at zero
(`DetectedOK`). Weight is counted as the cardinality of a set of units, so that a
step adds or removes a column (`AddColumn`) of it and no induction over data is
needed; lemmas on bags say what sending and receiving does to a message's number.
The part about the network (`NetInv`) and the part about nodes (`LocalInv`) are
preserved by separate lemmas, one per action.

`WTC_refinement` proves `DetectorImplemented`: every step of the protocol is a
step of `TerminationDetection`'s safety part or leaves it unchanged, with busy
nodes the active ones and owed nodes the addressees of work messages. The
fairness part is checked by TLC (`ImplementsDetector` in `wtc`).

`ShmNet_proofs` proves for all sets of nodes, capacities and numbers of messages:

- `TypeCorrect`: types, no overrun of a buffer, locks held by who works on the
  buffer;
- `NothingForgotten`, `AlarmKept`, `DoorbellHeard`: `SomebodyLooks`,
  `AlarmNoticed`, `NobodyDeaf`;
- `MailboxImplemented`: `Spec => Mail!Spec`, so that no message is lost, handled
  twice or overtaken.

`TypeOK` and `AlarmNoticed` are inductive; the others need more. `SomebodyLooks`
follows from `Told` (the node that will tell is the one that has the lock) and
`PutOffSeen`. `NobodyDeaf` follows from two facts that each leave a gap the other
closes: `Opened`, a flag that is set has `interrupt_off` cleared or its sender
about to, and `Awake`, a node that waits has `interrupt_off`, or the bell, or a
sender about to ring it. The refinement needs that senders find the room they
saw (`RoomLeft`), that a packet is finished before the next is taken (`Emptied`),
that a buffer is not written while it is copied out (`LockRight`), and four
lemmas on sequences. `IInv` is the conjunction; each conjunct has a lemma with
one case per action or, where the provers manage, one per part of the next-state
relation.

`Merger_proofs` proves for all streams, however their ends are nested, and any
room in the heap (`StreamAssumption`, `RoomAssumption`):

- `CountCorrect`: `CountRight`;
- `MergeImplemented`: `Spec => ImplementsMerge`: no message is lost, comes twice
  or overtakes one of its own stream, and the output ends with the last input
  and not before.

Counting terms is not enough: two hooks at variables that stand for the same
input would be counted twice and merged twice. So `IInv` says that the terms
that are hooked, in goals, woken, called or left of a vector are in exactly one
of these places (`Disjoint`) and stand for inputs apart from each other
(`Separate`): of the paths of any two of them neither begins with the other, which
the elements of a vector inherit (`ApartSiblings`, `FarCovered`). For the terms that
stand for the rest of a vector it adds that what they stand for is not empty
(`GoodVec`) and that the rest of a pair that has been bound is known
(`TailOK`); and `EndsRight`, the output has ended when the count is zero. The
lemma of a step shows the invariant and that `inputs` stays as it is, with
`Exchange`, or, for `List`, `Atomic` and a vector, changes as `StreamMerge` says,
with `TakeOut`, which is where `Separate` is needed. The nesting of terms is a
set of finite facts on each level (`Vecs`), so that there is no induction.

`Decode_proofs` proves for all messages that meet `CodeAssumption` and all sizes
that meet `SizeAssumption` (an object with its variable, and a goal, fit into the
increment; what one `do_unify()` and one reduction allocate is any number):

- `ArgumentsIntact`, `StackCorrect`: `AsSent`, `StackClean`;
- `TypeCorrect`, `NeverOverruns`: `TypeOK`, `NoOverrun`.

The first two follow from `Invariance`: whenever some of a packet is left, it and
the stack are together at a point of a message's decoding (`Within`), no matter
what reductions and collections came since; and it is left only while it is
decoded or remembered as pending (`Remembered`). A structure that is put back
leaves both as they are (`PutBack`). The last two follow from `SpaceInvariance`:
what must be kept is at most what is used (`Live <= allocp`), so that a collection
never makes an overrun; when `topsucceed()` may take its record back it is less by
the size of the record; and whoever allocates starts below the limit. Each way of
allocating has its lemma (`BuildSpace`, `PushSpace`, `TakeSpace`, `UnifySpace`). That
decoders pop no more than there is, which the sizes rest on, comes from the first
invariant.

`Sched_proofs` proves for all goals, variables, priorities and values that meet
`SchedAssumption` (0 is a priority and not the only one; `None` is neither a
value nor what a goal can sleep or wait on):

- `TypeCorrect`, `PlacedExactlyOnce`, `SuspendedCounted`, `NoLostWakeUp`,
  `QueuesOrdered`, `AlwaysRung`, `PriorityKept`: the invariants of `sched_queues`,
  with late signals, so that of the bell nothing is claimed about signals;
- `NothingGivenUp`: `NothingLeft` if no priority is a variable. With one it does
  not hold (finding 1).

The argument is about what the C functions hand to each other. A handler works
on a record of the globals, and `Right(S, A)` says that such a record is in order
when the goals of `A`, and no others, are asleep or queued: its queues are the
records of `prioq` in their order before the sentinel (`Shape`), the doorbell is
rung (`Rung`), `suspended` is a number of goals (`Counted`), each goal is where it
belongs (`Placed`) with its priority (`Keeping`), and references of variables are
one deep (`Standing`). For the places, the queues are read as one function from
priorities to queues (`QueueFn`), so that moving the current queue to `prioq` and
back leaves it as it is (`RightAttended`), and each operation, `EnqueueGoal`, `ResumeSamePrio`, `Wake`,
`Interrupt` and so on, has a lemma that takes `Right(S, A)` to `Right` of
what it makes of `S`. The head of the queue is taken away from `A` at the start of
a reduction, and comes back when it goes on. `IInv` is `Right(State, alive)` with
three more parts: `Unbound`, which is `NoneSleepsBound`; `Resuming`, that between
reductions only goals that wait for their priority are in `resumed_goals`, without
which a goal would be put at the priority it comes to and not at its own;
and `Ends`, without which `topsucceed` might run below a higher queue.

`resume_goals()` and the removal of a goal from hooks are folds. Their recursion
is over finite sets of indices, and their results are needed for hooks of any
length: `WakeFold` and `WithoutFold` unroll them into a function of the number of
hooks gone through, and `InductTo` is induction for a set of such numbers, from a
least counterexample. After *k* hooks the state is in order and the first *k* goals are
awake.

`ExRef_proofs` proves for all nodes, tables, heaps and weights that meet
`TermAssumption` and `WecAssumption` (references, places and values are told
apart; `MIN_WEC` is 2 as in the code and a new entry has at least that):

- `TypeCorrect`, `NeverStopsIllegal`, `NoneDangles`: `TypeOK`, `NeverIllegal`,
  `NothingDangles`;
- `WeightNeverShort`: an entry has at least the weight of all that refers to it,
  so what `search_exptbl()` frees, nothing refers to;
- `OnlyLostHooksUnbalance`: of all steps only the collection of a variable with
  hooks on it can leave an entry with more; all others keep `WecConserved`.

The sums in these properties are over tables, heaps, chains of hooks and messages
on all nodes. A sum is the size of a set of grains (`Grains`), as weight is in WTC,
which makes adding to one a matter of finite sets (`TotalChange`, `TotalAdd`); the
weight of a bag of hooks or messages is such a sum of its elements as often as they
occur (`WeightSplit`, `WeightOne`). Turning a bag of hooks into a bag of messages
keeps it, because no two hooks become the same message (`WeightImage`, `HooksSent`),
for which `Message` has `from`. The *surplus* of an entry is what it has beyond all
that refers to it. `Kept(S, T)` says that an operation takes a sound memory to a
sound one and leaves every surplus as it is; each of `Encode`, `Decode`, `Search`,
`Generate`, `Bind`, `Merge`, `DoUnify` has a lemma that says so, or says how much the
reference it makes or takes away changes, and a handler composes them as the code
does. The invariant is `IInv == Sound(Memory) /\ NoneLacks(Memory)`: types, that
the sums are finite, that what goals and entries refer to exists, and that no
surplus is negative. `NeverIllegal` follows: what has weight finds an entry with at
least as much. That nothing dangles has to be part of it, since a handler binds what
an entry refers to.

That surplus never grows either needs more. A variable that is collected with hooks
on it takes their weight along (`LosesHooks`). That this does not happen
(`HookedIsWanted`) has its reason on other nodes: a variable with a reply hook is in
use because some chain of references still leads to it from the node that reads. So
`ConservedWhileWanted` proves conservation with that as a hypothesis here, and
`ExRef_reads`, under the same two assumptions and no other, proves the rest:

- `NobodyWaitsInVain`: `NoneWaitsInVain`;
- `HookedNeverLost`: `HookedIsWanted`; a variable only it refers to would be a set of
  places that is waited in and not read into;
- `WeightConserved`: `WecConserved`, now without hypothesis;
- `ReadAnsweredOnce`: `AnsweredOnce`.

Chains of references have no bound, and the provers no induction; so nothing is said
about chains. A set of places is `Vain` when nothing crosses its border and nothing
reads into it, and two spots are on the `SameSide` when every such set has both or
neither, which is what being connected amounts to. A step renames places (a
variable that is redirected moves to where it goes), makes references hooks, takes
messages and sends others. `Carry` says when it keeps the property: each link of
the graph before is between spots on the same side in the graph after, each hook is
where it was renamed to, or what it waited for has its value with it, what hooks ask
for is still asked, and nobody waits who did not. `NextStep` reduces that to the few
places and messages an operation touches.

A handler composes operations, and between two of them the property fails: the
message has been received and its effect not come about. So the invariant has as
parameters what the handler has in its hands: `Calm(S, L, K)` is the invariant of a
memory `S` with the links `L` of a `%unify` received and the asks `K` of a `%read` or
an answer received. Each operation has a lemma that takes such a memory to another
(`ReceiveCalm`, `SearchCalm`, `GenerateCalm`, `BindCalm`, `MergeCalm`, `DoUnifyCalm`,
...), and each action one that strings them together and ends with empty hands.
Besides soundness `Calm` contains `Full`, that an entry has no more than a unit, and a
reply hook or an answer all of one; and `Met`, that whoever asks will find a value or
the hook that waits. `RInv` is `Calm` with empty hands. `ReadAnsweredOnce` follows
from it by counting: of an entry's unit, whoever will answer has all, so nobody else
can have any (`SoleTerm`, `SoleElement`).

Model-checked only: liveness (`Reclaimed`, `BindingArrives`, and those of the other
modules), since the provers know neither `ENABLED` nor fairness.

## Findings

1. `sched_exit`. A goal that waits for its priority and gets one above 0, when
   the rest of the queue is empty, is put in a queue of its own; but
   `wait_prio_routine()` (`sched.c:256`) goes on to the next goal without looking
   at the bell it has just rung. That goal is `topsucceed`, which finds nothing
   suspended and exits. The tutorial (`src/klic-3.014/documents/tutorial/tutorial.tex:469`)
   says the execution ends when the set of goals to execute becomes empty.
2. `decode_gc`. An idle node returns all its weight (`kmain.c:433`); the record of
   `topsucceed`, or the arguments of the next message, whose weight is added only
   after them, may then fill the heap, and the collector stops the system with
   "invalid WTC in gc" (`gc.c:502`), its own assertion.

3. `shm_full`. The wait for room in a full buffer (`distpkt.c:236`) goes on as long
   as there *is* room: `while (LEFT_SHM_BUFF(node) >= sendbufsize) ;`, under the
   comment "buffer full. wait..." (`distpkt.c:234`). With the buffer full the
   sender takes the lock again and again; with the buffer emptied in between it
   waits until somebody else fills it.

Noted without a run:

- The bell is turned off by `if (interrupt_off) heaplimit = real_heaplimit`
  (`intrpt.c:113`, and `:37` called at `:78`): a signal's handler that runs between
  the test and the assignment has rung it in vain. The signal is pending and
  `heaplimit` is not 0, though the notes on the implementation
  (`src/klic-3.014/documents/inside/code2.tex:452`) say that this comparison alone
  detects all interrupts; it waits for the next interrupt, whatever that is due to.
- The heap is looked at between reductions and messages only, because no more than
  a fixed number of words (`INCREMENTSIZE`) is to be allocated in between
  (`src/klic-3.014/documents/inside/data2.tex:758`); but a merger that finds no room
  takes 5 words all the same and reports success (`gmerge.c:120`), and
  `resume_goals()` takes 4 more for hooking it again (`unify.c:166`) and goes on to
  the next hook: with 114 mergers on one variable that is more than the increment.
- `klic_gc()` goes on with a doubled `heapsize` when a larger space could not be
  allocated and the last collection was not dangerous (`gc.c:76`).
- A heap exactly full at its maximum is collected again and again (`gc.c:102`).
- A node of the TCP transport that writes does not read.

## Not modelled, and the plan

Done: WTC, ExRef, Sched, ShmNet, Merger and Decode, with proofs. Next, in this
order:

1. ShmNet with sizes: `FLUSH`ing of several messages at once, a packet larger
   than the buffer ("no enough shared memory buffer");
2. ExRef composed with WTC: messages of references that carry weight, a read
   whose answer takes its weight over;
3. the sorted reservations of `timer.c`, which a handler may change while they
   are gone through; streams of asynchronous I/O (`asyncio.c`) and of signals;
   the blocking writes of the TCP transport; the chain of versions of `gmvv.c`,
   whose methods for hashing and printing read the newest version.

Not modelled: the parallel runtime over one shared heap (`shm_*.c`, `sched.c:446`
ff.), because this release does not build it: `Configure:471` has the question for
it commented out, and `README:93` says that it has fatal bugs.

Left out for good: the compiler and the libraries, which are sequential and
reach the runtime only through the operations modelled; the tracer, profiler and
monitor; the contents of terms beyond what encoding needs; the copying of the
collector.
