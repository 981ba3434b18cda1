----------------------------- MODULE UringQueue -----------------------------
(***************************************************************************)
(* The queue of easyio's io_uring backend (easyio/src/uring_queue.cpp) and *)
(* the objects whose addresses travel through its rings as user_data: the  *)
(* awaiters on coroutine frames and the sinks of receive streams           *)
(* (uring_recv_stream.cpp).                                                *)
(*                                                                         *)
(* One thread.  Coroutines run before and between calls of step() (phase   *)
(* "app") and inside _dispatch() (phase "resumed"); while they run they    *)
(* start operations, open, close and resubmit streams, each of which takes *)
(* an SQE.  Memory is a small set of addresses that are reused; gen tells  *)
(* the objects that lived at one address apart and is not in the code.     *)
(***************************************************************************)
EXTENDS Integers, FiniteSets, SequencesExt

CONSTANTS
  Depth,     \* entries of the submission ring
  CqSize,    \* entries of the completion ring
  Addrs,     \* addresses objects are allocated at
  Files,     \* files that are read and written
  Groups,    \* number of buffer group ids (65536 in the code)
  MaxGen,    \* bound: objects allocated
  MaxCq      \* bound: completions not yet dispatched, those of cancels aside

ASSUME UringQueueAssumption ==
  /\ Depth \in Nat \ {0} /\ CqSize \in Nat \ {0}
  /\ Addrs \subseteq Nat \ {0}
  /\ Groups \in Nat \ {0}
  /\ MaxGen \in Nat /\ MaxCq \in Nat

VARIABLES
  phase,       \* "app", "dispatch", "resumed"; "gone", "terminated"
  sq,          \* SQEs not yet submitted
  ops,         \* operations in the kernel
  cq,          \* CQEs not yet advanced over, the ones in overflow included
  nr,          \* _dispatch(): how many of them it has passed
  obj,         \* what is at each address
  gen,         \* objects allocated so far
  registered,  \* _registered_fd
  counter,     \* next_buffer_group_id()'s counter
  leaked       \* groups registered by a sink whose constructor threw

vars == <<phase, sq, ops, cq, nr, obj, gen, registered, counter, leaked>>

ringVars == <<sq, ops, cq>>
idVars == <<registered, counter, leaked>>

NULL == 0
Free == [kind |-> "free"]
Awaiter(g) == [kind |-> "awaiter", gen |-> g]
\* recv is "live" (_live), "dry" (_needs_resubmit) or "over" (end or error).
Sink(g, id) ==
  [kind |-> "sink", gen |-> g, recv |-> "live", owned |-> TRUE, group |-> id]

Awaiters == {a \in Addrs : obj[a].kind = "awaiter"}
Sinks == {a \in Addrs : obj[a].kind = "sink"}

Init ==
  /\ phase = "app"
  /\ sq = <<>> /\ ops = {} /\ cq = <<>> /\ nr = 0
  /\ obj = [a \in Addrs |-> Free]
  /\ gen = 0
  /\ registered = "none"
  /\ counter = 1 % Groups
  /\ leaked = {}

-----------------------------------------------------------------------------
(* SQEs and the kernel. *)

\* An operation's SQE: multi is a multishot recv, fixed the file that was meant when
\* the SQE says index 0 of the registered files instead of a descriptor.
OpSqe(a, g, multi, fixed) ==
  [what |-> "op", addr |-> a, gen |-> g, multi |-> multi, fixed |-> fixed]

\* prep_cancel() by address, itself without user_data.
CancelSqe(a) == [what |-> "cancel", addr |-> a, gen |-> obj[a].gen]

Cqe(a, g, last) == [addr |-> a, gen |-> g, last |-> last]

\* The kernel takes one SQE; a cancel ends the operation with that user_data.
Consume(k, e) ==
  IF e.what = "op" THEN [k EXCEPT !.ops = @ \cup {e}]
  ELSE LET hit == {o \in k.ops : o.addr = e.addr}
       IN  [ops |-> k.ops \ hit,
            cq |-> k.cq \o SetToSeq({Cqe(o.addr, o.gen, TRUE) : o \in hit})
                        \o <<Cqe(NULL, 0, TRUE)>>]

\* io_uring_submit(): the kernel takes what is queued, in order.
Submitted ==
  LET kernel[i \in 0..Len(sq)] ==
        IF i = 0 THEN [ops |-> ops, cq |-> cq] ELSE Consume(kernel[i - 1], sq[i])
  IN  kernel[Len(sq)]

\* Mutation: the ring is taken to have room.
GetSqeUnchecked(e) == sq' = Append(sq, e) /\ UNCHANGED <<ops, cq>>

\* Mutation: an entry of a full ring is used again without submitting it.
GetSqeOverwrites(e) ==
  /\ sq' = IF Len(sq) < Depth THEN Append(sq, e) ELSE Append(Front(sq), e)
  /\ UNCHANGED <<ops, cq>>

\* _get_sqe(), then the SQE is filled in; a full ring is flushed first.
GetSqe(e) ==
  IF Len(sq) < Depth
  THEN sq' = Append(sq, e) /\ UNCHANGED <<ops, cq>>
  ELSE sq' = <<e>> /\ ops' = Submitted.ops /\ cq' = Submitted.cq

\* _get_sqe() throws: the ring is full and io_uring_submit() failed.
GetSqeThrows == Len(sq) = Depth /\ UNCHANGED ringVars

\* An operation completes, a multishot one possibly not for the last time.
KernelComplete(g) ==
  /\ \E o \in ops, last \in BOOLEAN :
       /\ o.gen = g
       /\ last \/ o.multi
       /\ Len(cq) < MaxCq
       /\ cq' = Append(cq, Cqe(o.addr, g, last))
       /\ ops' = IF last THEN ops \ {o} ELSE ops
  /\ UNCHANGED <<phase, sq, nr, obj, gen, idVars>>

-----------------------------------------------------------------------------
(* What coroutines do while they run. *)

Running == phase \in {"app", "resumed"}

\* A new object at a.
Allocate(a, o) ==
  /\ obj[a] = Free
  /\ gen < MaxGen
  /\ gen' = gen + 1
  /\ obj' = [obj EXCEPT ![a] = o]

\* accept(), connect(), send(), sendmsg(), open(), close(): an awaiter on the
\* coroutine's frame.  (When _get_sqe() throws, the coroutine has an exception
\* and the queue nothing.)
StartOp(a) ==
  /\ Running
  /\ Allocate(a, Awaiter(gen + 1))
  /\ GetSqe(OpSqe(a, gen + 1, FALSE, "none"))
  /\ UNCHANGED <<phase, nr, idVars>>

\* Mutation: index 0 is used for any file once one is registered.
AnyFixed(f) == registered # "none"

\* _use_fixed_file(): is the file registered already?
IsRegistered(f) == registered = f

\* pread(), pwrite(), pwrite_dsync(): the first file is registered at index 0, or its
\* registration fails; any other goes by its descriptor.
StartFileOp(a, f) ==
  /\ Running
  /\ Allocate(a, Awaiter(gen + 1))
  /\ \/ IsRegistered(f) /\ GetSqe(OpSqe(a, gen + 1, FALSE, f)) /\ UNCHANGED registered
     \/ /\ ~IsRegistered(f) /\ registered = "none"
        /\ registered' = f
        /\ GetSqe(OpSqe(a, gen + 1, FALSE, f))
     \/ ~IsRegistered(f) /\ GetSqe(OpSqe(a, gen + 1, FALSE, "none")) /\ UNCHANGED registered
  /\ UNCHANGED <<phase, nr, counter, leaked>>

GroupsInUse == leaked \cup {obj[a].group : a \in Sinks}

\* Mutation: the result of io_uring_register_buf_ring() is not looked at.
NeverTaken(id) == FALSE

\* io_uring_register_buf_ring() returns EEXIST.
Taken(id) == id \in GroupsInUse

\* RecvSink's constructor: a group id, its registration, the first recv.
OpenStream(a) ==
  /\ Running
  /\ counter' = (counter + 1) % Groups
  /\ \/ /\ Taken(counter)
        /\ UNCHANGED <<ringVars, obj, gen, leaked>>
     \/ /\ ~Taken(counter)
        /\ Allocate(a, Sink(gen + 1, counter))
        /\ GetSqe(OpSqe(a, gen + 1, TRUE, "none"))
        /\ UNCHANGED leaked
     \/ /\ ~Taken(counter) /\ obj[a] = Free
        /\ GetSqeThrows
        /\ leaked' = leaked \cup {counter}
        /\ UNCHANGED <<obj, gen>>
  /\ UNCHANGED <<phase, nr, registered>>

\* Mutation: the sink is deleted once the cancel is queued.
DeleteNow(a) == Free

\* The sink of a stream that is destroyed while its operation is out: detach().
Detached(a) == [obj[a] EXCEPT !.owned = FALSE]

\* ~RecvStreamImpl(): detach() and request_cancel(), which may find no SQE; or
\* delete.
CloseStream(a) ==
  /\ Running
  /\ a \in Sinks /\ obj[a].owned
  /\ IF obj[a].recv = "live"
     THEN /\ obj' = [obj EXCEPT ![a] = Detached(a)]
          /\ GetSqe(CancelSqe(a)) \/ GetSqeThrows
     ELSE /\ obj' = [obj EXCEPT ![a] = Free]
          /\ UNCHANGED ringVars
  /\ UNCHANGED <<phase, nr, gen, idVars>>

\* submit_recv() of a stream whose operation has ended; its callers are noexcept,
\* so an exception of _get_sqe() ends the process.
SubmitRecv(a, to) ==
  \/ /\ GetSqe(OpSqe(a, obj[a].gen, TRUE, "none"))
     /\ obj' = [obj EXCEPT ![a].recv = "live"]
     /\ phase' \in to
  \/ /\ GetSqeThrows
     /\ phase' = "terminated"
     /\ UNCHANGED obj

\* A reader's next call resubmits.
Resubmit(a) ==
  /\ Running
  /\ a \in Sinks /\ obj[a].owned /\ obj[a].recv = "dry"
  /\ SubmitRecv(a, {phase})
  /\ UNCHANGED <<nr, gen, idVars>>

Coroutine ==
  \E a \in Addrs : \/ StartOp(a) \/ OpenStream(a) \/ CloseStream(a) \/ Resubmit(a)
                   \/ \E f \in Files : StartFileOp(a, f)

-----------------------------------------------------------------------------
(* step() and _dispatch(). *)

\* io_uring_submit_and_wait(), which may also throw and leave all as it was.  The wait
\* ends when a completion is there or the time is up, and completions go on arriving
\* until _dispatch() looks; after EINTR it does not.
StepSubmit ==
  /\ phase = "app"
  /\ phase' \in {"dispatch", "app"}
  /\ sq' = <<>>
  /\ ops' = Submitted.ops
  /\ cq' = Submitted.cq
  /\ UNCHANGED <<nr, obj, gen, idVars>>

\* What io_uring_for_each_cqe() sees: the tail is read again for every entry.
Visible == IF Len(cq) < CqSize THEN Len(cq) ELSE CqSize

\* RecvSink::on_cqe() with its stream: handle_cqe() may resubmit and may resume the
\* reader.
OwnedCqe(a, last) ==
  \/ /\ \E r \in IF last THEN {"dry", "over"} ELSE {"live"} :
          obj' = [obj EXCEPT ![a].recv = r]
     /\ phase' \in {"dispatch", "resumed"}
     /\ UNCHANGED ringVars
  \/ last /\ SubmitRecv(a, {"dispatch", "resumed"})

\* ... and without it: the last CQE frees the sink.
OrphanCqe(a, last) ==
  /\ obj' = [obj EXCEPT ![a] = IF last THEN Free ELSE @]
  /\ UNCHANGED <<phase, ringVars>>

\* SqeAwaiter::on_cqe(): the coroutine is resumed and its awaiter gone.
AwaiterCqe(a) ==
  /\ obj' = [obj EXCEPT ![a] = Free]
  /\ phase' = "resumed"
  /\ UNCHANGED ringVars

\* The next CQE; a cancel's own has no sink.
DispatchNext ==
  /\ phase = "dispatch" /\ nr < Visible
  /\ nr' = nr + 1
  /\ LET e == cq[nr + 1]
     IN  \/ e.addr = NULL /\ UNCHANGED <<phase, obj, ringVars>>
         \/ e.addr \in Awaiters /\ AwaiterCqe(e.addr)
         \/ e.addr \in Sinks /\ obj[e.addr].owned /\ OwnedCqe(e.addr, e.last)
         \/ e.addr \in Sinks /\ ~obj[e.addr].owned /\ OrphanCqe(e.addr, e.last)
  /\ UNCHANGED <<gen, idVars>>

\* The resumed coroutine suspends or ends.
Suspend ==
  /\ phase = "resumed"
  /\ phase' = "dispatch"
  /\ UNCHANGED <<ringVars, nr, obj, gen, idVars>>

\* Mutation: all completions there are by now are dropped.
AdvanceAll == Len(cq)

\* io_uring_cq_advance(&_ring, nr).
AdvanceBy == nr

DispatchEnd ==
  /\ phase = "dispatch" /\ nr = Visible
  /\ phase' = "app"
  /\ cq' = SubSeq(cq, AdvanceBy + 1, Len(cq))
  /\ nr' = 0
  /\ UNCHANGED <<sq, ops, obj, gen, idVars>>

\* ~Queue(): submits, drops the completions and resumes nobody.
DestroyQueue ==
  /\ phase = "app"
  /\ phase' = "gone"
  /\ sq' = <<>> /\ ops' = {} /\ cq' = <<>>
  /\ UNCHANGED <<nr, obj, gen, idVars>>

Thread == DispatchNext \/ Suspend \/ DispatchEnd

Next ==
  \/ Coroutine
  \/ StepSubmit \/ Thread \/ DestroyQueue
  \/ \E g \in 1..MaxGen : KernelComplete(g)

(***************************************************************************)
(* The thread calls step() for ever, and not every call is interrupted by  *)
(* a signal; the kernel completes every operation.                         *)
(***************************************************************************)
Fairness ==
  /\ WF_vars(Thread)
  /\ SF_vars(StepSubmit /\ phase' = "dispatch")
  /\ \A g \in 1..MaxGen : SF_vars(KernelComplete(g))

Spec == Init /\ [][Next]_vars

FairSpec == Spec /\ Fairness

-----------------------------------------------------------------------------
(* Properties. *)

Over == phase \in {"gone", "terminated"}

Gens == 1..MaxGen
Ops ==
  [what : {"op"}, addr : Addrs, gen : Gens, multi : BOOLEAN, fixed : Files \cup {"none"}]
Cancels == [what : {"cancel"}, addr : Addrs, gen : Gens]
Objects ==
  {Free} \cup {Awaiter(g) : g \in Gens} \cup
  [kind : {"sink"}, gen : Gens, recv : {"live", "dry", "over"}, owned : BOOLEAN,
   group : 0..(Groups - 1)]

(***************************************************************************)
(* Type correctness: the submission ring never holds more than its entries *)
(* and _dispatch() never passes more CQEs than the completion ring has.    *)
(***************************************************************************)
TypeOK ==
  /\ phase \in {"app", "dispatch", "resumed", "gone", "terminated"}
  /\ \A i \in DOMAIN sq : sq[i] \in Ops \cup Cancels
  /\ Len(sq) <= Depth
  /\ ops \subseteq Ops
  /\ \A i \in DOMAIN cq :
       cq[i] \in [addr : Addrs, gen : Gens, last : BOOLEAN] \cup {Cqe(NULL, 0, TRUE)}
  /\ nr \in 0..CqSize
  /\ obj \in [Addrs -> Objects]
  /\ gen \in 0..MaxGen
  /\ registered \in Files \cup {"none"}
  /\ counter \in 0..(Groups - 1)
  /\ leaked \subseteq 0..(Groups - 1)

\* Op SQEs, kernel operations and CQEs still to be dispatched.
Queued == {sq[i] : i \in {j \in DOMAIN sq : sq[j].what = "op"}}
Undispatched == {cq[i] : i \in (nr + 1)..Len(cq)}

(***************************************************************************)
(* What the rings refer to is what it was when the SQE was made. Every     *)
(* user_data still on its way is the address of the very object it was     *)
(* submitted for: an awaiter still suspended, or a sink, orphaned or not,  *)
(* that has not been deleted -- also while _dispatch() is in the middle of *)
(* a batch whose earlier completions destroyed streams and reused their    *)
(* memory (the comment on RecvSink). Index 0 of the registered files is    *)
(* the file a read or write means. No two sinks feed on one buffer group,  *)
(* even after the 16-bit counter of next_buffer_group_id() has wrapped     *)
(* round to ids still in use.                                              *)
(***************************************************************************)
RefersToSame ==
  ~Over =>
    /\ \A e \in Queued \cup ops \cup Undispatched :
         e.addr # NULL => obj[e.addr] # Free /\ obj[e.addr].gen = e.gen
    /\ \A e \in Queued \cup ops : e.fixed # "none" => registered = e.fixed
    /\ \A a, b \in Sinks : a # b => obj[a].group # obj[b].group

\* How many last completions are to come for the object at a.
LastToCome(a) ==
  Cardinality({i \in DOMAIN sq : sq[i].what = "op" /\ sq[i].addr = a})
    + Cardinality({o \in ops : o.addr = a})
    + Cardinality({i \in (nr + 1)..Len(cq) : cq[i].addr = a /\ cq[i].last})

(***************************************************************************)
(* Exactly one last completion is to come for every suspended awaiter and  *)
(* every live sink, and none for anything else: _dispatch() loses none     *)
(* when completions arrive while it runs or the ring overflows, no reader  *)
(* has two receives in flight, and _live is true as long as an orphan has  *)
(* to stay.                                                                *)
(***************************************************************************)
OneCompletion ==
  ~Over => \A a \in Addrs :
    LastToCome(a) =
      IF a \in Awaiters \/ (a \in Sinks /\ obj[a].recv = "live") THEN 1 ELSE 0

(***************************************************************************)
(* Every co_await on the queue is resumed, unless the queue is destroyed   *)
(* or the process ends: neither a full submission ring, nor an overflown   *)
(* completion ring, nor a busy multishot receive holds a completion back   *)
(* for ever.  (Between two awaiters at one address there is a moment when  *)
(* nothing is there.)                                                      *)
(***************************************************************************)
Resumed ==
  \A a \in Addrs : a \in Awaiters ~> a \notin Awaiters \/ Over

=============================================================================
