-------------------------- MODULE UringRecvStream --------------------------
(***************************************************************************)
(* The receive streams of easyio's io_uring backend                        *)
(* (easyio/src/uring_recv_stream.cpp).                                     *)
(*                                                                         *)
(* Multishot (RecvSink, RecvStreamImpl): the kernel fills buffers of a     *)
(* provided-buffer ring and posts one CQE per chunk until the operation    *)
(* ends; the stream resubmits it when it ended for want of buffers.        *)
(* Single-shot (SingleShotRecvSink, SingleShotRecvStreamImpl): one buffer, *)
(* at most one plain recv, resubmitted when the reader comes back.  In     *)
(* both the sink that the CQEs address outlives the stream until the       *)
(* operation's last CQE has been seen.                                     *)
(*                                                                         *)
(* The kernel posts CQEs at any moment; the worker thread runs the reader  *)
(* and Queue::_dispatch().  A byte is its offset in what the peer sends,   *)
(* slot[b] the offset of the first byte in buffer b.  The single-shot      *)
(* stream's _has_chunk and _len are a pending of at most one chunk, its    *)
(* _checked_out a checkedOut of at most its one buffer.                    *)
(***************************************************************************)
EXTENDS ChunkBatch

CONSTANTS
  Modes,      \* values of multishot to consider
  Buffers,    \* the buffers of the provided ring
  EntrySize,  \* bytes in a buffer
  MaxBytes,   \* bound: bytes the peer sends on the connection
  MaxCap,     \* bound: largest out.size() a reader passes
  MaxWant     \* bound: largest max_bytes a reader passes

ASSUME UringAssumption ==
  /\ Modes \subseteq BOOLEAN
  /\ Buffers # {}
  /\ EntrySize \in Nat \ {0}
  /\ MaxBytes \in Nat
  /\ MaxCap \in Nat \ {0}
  /\ MaxWant \in Nat \ {0}

VARIABLES
  multishot,     \* make_recv_stream()'s switch
  sent, peer,    \* the peer: bytes sent, "open" / "closed" / "reset"
  rcvd,          \* bytes the kernel has put in buffers
  slot,          \* offset of the first byte in each buffer
  free,          \* buffers in the provided ring
  sq,            \* SQEs not yet submitted: "recv", "cancelFd", "cancelSink"
  op,            \* the recv: "none" or "armed"
  cq,            \* CQEs not yet dispatched
  sink,          \* the sink: "owned", "orphan" (detached) or "freed"
  live,          \* the sink's _live
  pending,       \* _pending
  checkedOut,    \* _checked_out
  eof, error,    \* _eof, _error
  needsResubmit, \* _needs_resubmit
  reader, asked, held, delivered, cancelled  \* as in RecvStream

vars == <<multishot, sent, peer, rcvd, slot, free, sq, op, cq, sink, live, pending,
          checkedOut, eof, error, needsResubmit,
          reader, asked, held, delivered, cancelled>>

peerVars == <<multishot, sent, peer>>
sinkVars == <<sink, live>>
streamVars == <<pending, checkedOut, eof, error, needsResubmit>>
readerVars == <<reader, asked, held, delivered>>

Asks == [cap : 1..MaxCap, max : 1..MaxWant]

\* The single-shot stream's buffer.
Buf == CHOOSE b \in Buffers : TRUE

\* What make_recv_stream() made: RecvSink's constructor provides every buffer; both
\* queue the first recv.
Init ==
  /\ multishot \in Modes
  /\ sent = 0 /\ peer = "open"
  /\ rcvd = 0
  /\ slot = [b \in Buffers |-> 0]
  /\ free = IF multishot THEN Buffers ELSE {}
  /\ sq = <<"recv">>
  /\ op = "none"
  /\ cq = <<>>
  /\ sink = "owned"
  /\ live = TRUE
  /\ pending = <<>>
  /\ checkedOut = {}
  /\ eof = FALSE /\ error = "none"
  /\ needsResubmit = FALSE
  /\ reader = "running"
  /\ asked = [cap |-> 1, max |-> 1]
  /\ held = <<>>
  /\ delivered = 0
  /\ cancelled = FALSE

-----------------------------------------------------------------------------
(* The peer and the kernel (external). *)

PeerSend ==
  /\ peer = "open"
  /\ \E n \in 1..(MaxBytes - sent) : sent' = sent + n
  /\ UNCHANGED <<multishot, peer, rcvd, slot, free, sq, op, cq, sinkVars, streamVars,
                 readerVars, cancelled>>

PeerEnd ==
  /\ peer = "open"
  /\ peer' \in {"closed", "reset"}
  /\ UNCHANGED <<multishot, sent, rcvd, slot, free, sq, op, cq, sinkVars, streamVars,
                 readerVars, cancelled>>

\* The kernel takes SQEs in order.  Cancelling posts the operation's last CQE;
\* it finds nothing when the operation has already ended.
Submit ==
  /\ sq # <<>>
  /\ sq' = Tail(sq)
  /\ CASE Head(sq) = "recv" -> op' = "armed" /\ UNCHANGED cq
       [] Head(sq) # "recv" /\ op = "armed" ->
            op' = "none" /\ cq' = Append(cq, [kind |-> "cancelled", more |-> FALSE])
       [] OTHER -> UNCHANGED <<op, cq>>
  /\ UNCHANGED <<peerVars, rcvd, slot, free, sinkVars, streamVars, readerVars,
                 cancelled>>

\* A chunk arrives in a provided buffer, and the kernel may end the operation with
\* the CQE that carries it (IORING_CQE_F_MORE unset); or in the one buffer.
KernelData ==
  /\ op = "armed"
  /\ \E b \in (IF multishot THEN free ELSE {Buf}), r \in 1..EntrySize, more \in BOOLEAN :
       /\ more => multishot
       /\ rcvd + r <= sent
       /\ rcvd' = rcvd + r
       /\ slot' = [slot EXCEPT ![b] = rcvd]
       /\ free' = free \ {b}
       /\ op' = IF more THEN op ELSE "none"
       /\ cq' = Append(cq, [kind |-> "data", idx |-> b, len |-> r, more |-> more])
  /\ UNCHANGED <<peerVars, sq, sinkVars, streamVars, readerVars, cancelled>>

\* The operation ends: no buffer to select, end of file, or a reset.
KernelEnd ==
  /\ op = "armed"
  /\ \E kind \in {"nobufs", "eof", "reset"} :
       /\ kind = "nobufs" => multishot /\ free = {}
       /\ kind = "eof" => rcvd = sent /\ peer = "closed" /\ (multishot => free # {})
       /\ kind = "reset" => peer = "reset"
       /\ cq' = Append(cq, [kind |-> kind, more |-> FALSE])
  /\ op' = "none"
  /\ UNCHANGED <<peerVars, rcvd, slot, free, sq, sinkVars, streamVars,
                 readerVars, cancelled>>

-----------------------------------------------------------------------------
(* The stream. *)

HasResult(pend, end, err) == pend # <<>> \/ end \/ err # "none"

\* Mutation: an error is reported before the chunks that were received.
ErrorFirst(ask, pend, out) ==
  LET k == IF error = "none" /\ pend # <<>> THEN 1 ELSE 0
  IN  /\ held' = SubSeq(pend, 1, k)
      /\ pending' = Remaining(pend, k)
      /\ checkedOut' = out \cup {pend[i].idx : i \in 1..k}
      /\ delivered' = IF k = 1 THEN slot[pend[1].idx] + pend[1].len ELSE delivered
      /\ reader' = IF k = 1 THEN "running" ELSE "over"

\* _take() / _take_batch(), pend being what is pending by then.
TakeBatch(ask, pend, out) ==
  \/ \E k \in BatchSizes(pend, ask.cap, ask.max) :
       /\ held' = SubSeq(pend, 1, k)
       /\ pending' = Remaining(pend, k)
       /\ checkedOut' = out \cup {pend[i].idx : i \in 1..k}
       /\ delivered' = slot[pend[k].idx] + pend[k].len
       /\ reader' = "running"
  \/ /\ pend = <<>>
     /\ held' = <<>>
     /\ pending' = pend
     /\ checkedOut' = out
     /\ reader' = "over"
     /\ UNCHANGED delivered

\* SingleShotRecvStreamImpl::_take() / _take_batch(): the one chunk, whatever was asked.
TakeOne(pend, out) ==
  /\ held' = pend
  /\ pending' = <<>>
  /\ checkedOut' = IF pend # <<>> THEN {Buf} ELSE out
  /\ delivered' = IF pend # <<>> THEN slot[Buf] + pend[1].len ELSE delivered
  /\ reader' = IF pend # <<>> THEN "running" ELSE "over"

Take(ask, pend, out) ==
  \/ multishot /\ TakeBatch(ask, pend, out)
  \/ ~multishot /\ TakeOne(pend, out)

\* Mutation: the operation is resubmitted only by a call that gives a buffer back.
LazyResubmits(needs, out) == needs /\ out # {}

\* _maybe_resubmit(), needs and out being the values of _needs_resubmit and
\* _checked_out by then: does it call submit_recv()?
Resubmits(needs, out) == needs /\ out = {}

\* Mutation: buffers that hold a chunk not yet taken are given back as well.
ProvidePending(provided, out) ==
  provided \cup out \cup {pending[i].idx : i \in DOMAIN pending}

\* io_uring_buf_ring_add() for each checked-out buffer, then one advance.
Provide(provided, out) == provided \cup out

\* Mutation: a chunk that ends the operation is not taken for a dry ring.
EndedOnlyByNoBufs(cqe) == cqe.kind = "nobufs"

\* handle_cqe()'s `enobufs`: the operation ended, the connection did not.
RanDry(cqe) == cqe.kind = "nobufs" \/ (cqe.kind = "data" /\ ~cqe.more)

Chunk(cqe) == [idx |-> cqe.idx, len |-> cqe.len]

\* handle_cqe()'s last resort: a multishot operation that ended without any of these
\* reasons is taken for the end of the connection.
EndsUnsaid(cqe, end, err) ==
  multishot /\ ~cqe.more /\ err = "none" /\ ~end /\ ~RanDry(cqe)

\* The end of both handle_cqe(): what the CQE tells, then the waiter, if any, is
\* resumed and takes first thing.
Settle(cqe, pend) ==
  /\ error' = IF cqe.kind \in {"reset", "cancelled"} THEN cqe.kind ELSE error
  /\ LET end == eof \/ cqe.kind = "eof"
     IN  eof' = (end \/ EndsUnsaid(cqe, end, error'))
  /\ IF reader = "waiting" /\ HasResult(pend, eof', error')
     THEN Take(asked, pend, checkedOut) /\ UNCHANGED asked
     ELSE pending' = pend /\ UNCHANGED <<checkedOut, readerVars>>
  /\ UNCHANGED sink

\* RecvSink::on_cqe() for a sink that still has its stream: handle_cqe().
HandleCqe(cqe) ==
  LET needs == needsResubmit \/ RanDry(cqe)
      resubmit == RanDry(cqe) /\ Resubmits(needs, checkedOut)
  IN  /\ needsResubmit' = (needs /\ ~resubmit)
      /\ sq' = IF resubmit THEN Append(sq, "recv") ELSE sq
      /\ live' = (resubmit \/ (live /\ cqe.more))
      /\ Settle(cqe, IF cqe.kind = "data" THEN Append(pending, Chunk(cqe)) ELSE pending)

\* SingleShotRecvSink::on_cqe() likewise.
SingleHandleCqe(cqe) ==
  /\ live' = FALSE
  /\ Settle(cqe, IF cqe.kind = "data" THEN <<Chunk(cqe)>> ELSE pending)
  /\ UNCHANGED <<sq, needsResubmit>>

\* Mutation: an orphan is freed by the first CQE that finds it.
FreeAtOnce(cqe) == TRUE

\* Mutation: IORING_CQE_F_MORE is tested the wrong way round.
InvertedLast(cqe) == cqe.more

\* An orphaned sink may go once its operation has posted its last CQE.
LastCqe(cqe) == ~cqe.more

\* RecvSink::on_cqe() after ~RecvStreamImpl().
OrphanCqe(cqe) ==
  /\ live' = (live /\ cqe.more)
  /\ sink' = IF LastCqe(cqe) THEN "freed" ELSE sink
  /\ UNCHANGED <<sq, streamVars, readerVars>>

\* SingleShotRecvSink::on_cqe() after ~SingleShotRecvStreamImpl().
SingleOrphanCqe ==
  /\ live' = FALSE
  /\ sink' = "freed"
  /\ UNCHANGED <<sq, streamVars, readerVars>>

\* Queue::_dispatch(), one CQE.
Dispatch ==
  /\ cq # <<>>
  /\ cq' = Tail(cq)
  /\ \/ sink = "owned" /\ multishot /\ HandleCqe(Head(cq))
     \/ sink = "owned" /\ ~multishot /\ SingleHandleCqe(Head(cq))
     \/ sink = "orphan" /\ multishot /\ OrphanCqe(Head(cq))
     \/ sink = "orphan" /\ ~multishot /\ SingleOrphanCqe
  /\ UNCHANGED <<peerVars, rcvd, slot, free, op, cancelled>>

\* _return_checked_out(), first thing in every next()/next_batch().
ReturnCheckedOut ==
  LET resubmit == Resubmits(needsResubmit, {})
  IN  /\ free' = Provide(free, checkedOut)
      /\ needsResubmit' = (needsResubmit /\ ~resubmit)
      /\ sq' = IF resubmit THEN Append(sq, "recv") ELSE sq
      /\ live' = (live \/ resubmit)

\* Mutation: the next recv is queued by every call, chunk in hand or not.
ReclaimAlways == error = "none" /\ ~eof

\* _reclaim(): does it call submit_recv()?
Reclaims == checkedOut # {} /\ error = "none" /\ ~eof

\* _reclaim(), first thing in every next()/next_batch() of a single-shot stream.
Reclaim ==
  /\ sq' = IF Reclaims THEN Append(sq, "recv") ELSE sq
  /\ live' = (live \/ Reclaims)
  /\ UNCHANGED <<free, needsResubmit>>

\* co_await stream.next_batch(...): takes a batch at once or suspends.
NextBatch ==
  /\ reader = "running"
  /\ IF multishot THEN ReturnCheckedOut ELSE Reclaim
  /\ IF HasResult(pending, eof, error)
     THEN \E ask \in Asks : Take(ask, pending, {}) /\ UNCHANGED asked
     ELSE /\ asked' \in Asks
          /\ reader' = "waiting"
          /\ held' = <<>>
          /\ checkedOut' = {}
          /\ UNCHANGED <<pending, delivered>>
  /\ UNCHANGED <<peerVars, rcvd, slot, op, cq, sink, eof, error, cancelled>>

\* Queue::cancel_fd(): queues a cancel SQE; nobody is resumed before step().
CancelFd ==
  /\ ~cancelled
  /\ reader # "gone"
  /\ cancelled' = TRUE
  /\ sq' = Append(sq, "cancelFd")
  /\ UNCHANGED <<peerVars, rcvd, slot, free, op, cq, sinkVars, streamVars, readerVars>>

\* detach(), then request_cancel() (which may find no SQE and leak the sink) or
\* delete.
ReleaseSink ==
  \/ live /\ sink' = "orphan" /\ sq' = Append(sq, "cancelSink")
  \/ live /\ sink' = "orphan" /\ UNCHANGED sq
  \/ ~live /\ sink' = "freed" /\ UNCHANGED sq

\* ~RecvStreamImpl(), ~SingleShotRecvStreamImpl().
Destroy ==
  /\ reader \in {"running", "over"}
  /\ reader' = "gone"
  /\ held' = <<>>
  /\ ReleaseSink
  /\ UNCHANGED <<peerVars, rcvd, slot, free, op, cq, live, streamVars, asked,
                 delivered, cancelled>>

Kernel == Submit \/ KernelData \/ KernelEnd

Next == PeerSend \/ PeerEnd \/ Kernel \/ Dispatch \/ NextBatch \/ CancelFd \/ Destroy

(***************************************************************************)
(* step() submits what is queued, and dispatches what has completed; the   *)
(* kernel completes what it can; a reader calls next_batch() again.        *)
(***************************************************************************)
Fairness ==
  /\ WF_vars(Submit)
  /\ WF_vars(KernelData)
  /\ WF_vars(KernelEnd)
  /\ WF_vars(Dispatch)
  /\ WF_vars(NextBatch)

Spec == Init /\ [][Next]_vars

FairSpec == Spec /\ Fairness

-----------------------------------------------------------------------------
(* Properties. *)

Piece == [idx : Buffers, len : 1..EntrySize]

Cqe == [kind : {"data"}, idx : Buffers, len : 1..EntrySize, more : BOOLEAN]
       \cup [kind : {"nobufs", "eof", "reset", "cancelled"}, more : {FALSE}]

TypeOK ==
  /\ multishot \in Modes
  /\ sent \in 0..MaxBytes
  /\ peer \in {"open", "closed", "reset"}
  /\ rcvd \in 0..sent
  /\ slot \in [Buffers -> 0..MaxBytes]
  /\ free \in SUBSET Buffers
  /\ sq \in Seq({"recv", "cancelFd", "cancelSink"})
  /\ op \in {"none", "armed"}
  /\ cq \in Seq(Cqe)
  /\ sink \in {"owned", "orphan", "freed"}
  /\ live \in BOOLEAN
  /\ pending \in Seq(Piece)
  /\ checkedOut \in SUBSET Buffers
  /\ eof \in BOOLEAN
  /\ error \in {"none", "reset", "cancelled"}
  /\ needsResubmit \in BOOLEAN
  /\ reader \in {"running", "waiting", "over", "gone"}
  /\ asked \in Asks
  /\ held \in Seq(Piece)
  /\ delivered \in 0..sent
  /\ cancelled \in BOOLEAN

\* The CQEs that carry a chunk.
Arriving == {i \in DOMAIN cq : cq[i].kind = "data"}

\* The buffers whose chunk is in the reader's hands, pending, or in a CQE.
HeldBufs == {held[i].idx : i \in DOMAIN held}
PendingBufs == {pending[i].idx : i \in DOMAIN pending}
ArrivingBufs == {cq[i].idx : i \in Arriving}

\* The buffers the kernel may put a chunk in.
KernelMayWrite ==
  IF multishot THEN free ELSE {b \in {Buf} : op = "armed" \/ "recv" \in ToSet(sq)}

(***************************************************************************)
(* No buffer is in two places: each is the kernel's to write (in the       *)
(* provided ring, or with the single-shot recv) or holds exactly one chunk *)
(* that is on its way to the reader or in its hands; and no buffer of the  *)
(* provided ring is lost.                                                  *)
(***************************************************************************)
BuffersConserved ==
  reader # "gone" =>
    /\ \A i, j \in DOMAIN held : held[i].idx = held[j].idx => i = j
    /\ \A i, j \in DOMAIN pending : pending[i].idx = pending[j].idx => i = j
    /\ \A i, j \in Arriving : cq[i].idx = cq[j].idx => i = j
    /\ HeldBufs \cap PendingBufs = {}
    /\ (HeldBufs \cup PendingBufs) \cap ArrivingBufs = {}
    /\ (HeldBufs \cup PendingBufs \cup ArrivingBufs) \cap KernelMayWrite = {}
    /\ multishot => HeldBufs \cup PendingBufs \cup ArrivingBufs \cup free = Buffers

\* The recv operation exists: queued, in the kernel, or its last CQE is due.
Outstanding ==
  \/ "recv" \in ToSet(sq)
  \/ op = "armed"
  \/ \E i \in DOMAIN cq : ~cq[i].more

(***************************************************************************)
(* The sink's memory (the buffers and the object CQEs point at) is freed   *)
(* only when the kernel will neither write to it nor complete to it, and   *)
(* _live says exactly that.                                                *)
(***************************************************************************)
SinkSafe ==
  /\ sink = "freed" => ~Outstanding /\ cq = <<>>
  /\ sink # "freed" => live = Outstanding

(***************************************************************************)
(* A suspended reader can be resumed: its recv operation is outstanding.   *)
(* Running dry of buffers, or giving the one buffer back, never leaves it  *)
(* waiting for data that the kernel was not asked for.                     *)
(***************************************************************************)
WaiterHasOp ==
  reader = "waiting" => Outstanding /\ ~HasResult(pending, eof, error)

(***************************************************************************)
(* The error of a reset or of cancel_fd(), and end of file, overtake no    *)
(* data: a reader is told that the stream ended only when it was given     *)
(* every byte the kernel had put in a buffer, whether its chunk was        *)
(* pending or its CQE still to come when the operation failed, and the     *)
(* kernel writes no more after that (uring_recv_stream.cpp: _take() looks  *)
(* at _pending before _eof and _error, and an operation that failed is not *)
(* resubmitted).                                                           *)
(***************************************************************************)
EndAfterData == reader = "over" => delivered = rcvd

\* The contract's view of the stream; buffers are read where they are, so one
\* refilled while the reader holds it shows.
Contract == INSTANCE RecvStream WITH
  held <- [i \in 1..Len(held) |-> [pos |-> slot[held[i].idx], len |-> held[i].len]]

\* Both streams implement the contract of recv_stream.hpp: what
\* next_batch() returns, and when, is what the contract allows.
Refines == Contract!Spec

\* Every byte sent is delivered unless the stream ends first.
EveryByteDelivered ==
  \A n \in 1..MaxBytes :
    sent >= n ~> delivered >= n \/ reader \in {"over", "gone"}

\* An abandoned sink whose cancellation was queued is freed in the end.
OrphanFreed == "cancelSink" \in ToSet(sq) ~> sink = "freed"
=============================================================================
