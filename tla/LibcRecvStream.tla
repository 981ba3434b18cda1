--------------------------- MODULE LibcRecvStream ---------------------------
(***************************************************************************)
(* The receive stream of easyio's libc backend                             *)
(* (easyio/src/libc_recv_stream.cpp): a ring of Entries buffers that       *)
(* on_ready() fills with ::recv() whenever poll() says the fd is readable, *)
(* a queue of filled slots and a count of the slots the reader still       *)
(* holds.  One worker thread runs on_ready(), the reader and cancel(); the *)
(* peer runs in between any two of their system calls.                     *)
(*                                                                         *)
(* A byte is its offset in what the peer sends.  slot[i] is the offset of  *)
(* the first byte in ring buffer i, so that overwriting a buffer that is   *)
(* pending or held shows.                                                  *)
(***************************************************************************)
EXTENDS ChunkBatch

CONSTANTS
  Entries,    \* buffers in the ring
  EntrySize,  \* bytes in a buffer
  MaxBytes,   \* bound: bytes the peer sends on the connection
  MaxCap,     \* bound: largest out.size() a reader passes
  MaxWant     \* bound: largest max_bytes a reader passes

ASSUME LibcAssumption ==
  /\ Entries \in Nat \ {0}
  /\ EntrySize \in Nat \ {0}
  /\ MaxBytes \in Nat
  /\ MaxCap \in Nat \ {0}
  /\ MaxWant \in Nat \ {0}

VARIABLES
  sent,        \* bytes the peer has sent
  peer,        \* "open", "closed" or "reset"
  rcvd,        \* bytes ::recv() has returned
  slot,        \* _buf_base: offset of the first byte in each buffer
  pending,     \* _pending: filled slots, oldest first
  checkedOut,  \* _checked_out_count
  writeIdx,    \* _write_idx
  eof,         \* _eof
  error,       \* _error: "none", "reset" or "cancelled"
  registered,  \* the queue polls the fd for this stream
  phase,       \* "idle", or inside on_ready(): "drain" or "wake"
  reader,      \* "running", "waiting" (in _waiter), "over" or "gone"
  asked,       \* arguments of the call the reader is suspended in
  held,        \* the slots of the last batch, until the next call
  delivered,   \* history: end of what the reader was given
  cancelled    \* history: cancel_fd() was called

vars == <<sent, peer, rcvd, slot, pending, checkedOut, writeIdx, eof, error,
          registered, phase, reader, asked, held, delivered, cancelled>>

peerVars == <<sent, peer>>
streamVars == <<rcvd, slot, pending, checkedOut, writeIdx, eof, error, registered>>
readerVars == <<reader, asked, held, delivered>>

Slots == 0..(Entries - 1)
Asks == [cap : 1..MaxCap, max : 1..MaxWant]

\* The constructor registers the stream and calls on_ready().
Init ==
  /\ sent = 0 /\ peer = "open"
  /\ rcvd = 0
  /\ slot = [i \in Slots |-> 0]
  /\ pending = <<>>
  /\ checkedOut = 0
  /\ writeIdx = 0
  /\ eof = FALSE
  /\ error = "none"
  /\ registered = TRUE
  /\ phase = "drain"
  /\ reader = "running"
  /\ asked = [cap |-> 1, max |-> 1]
  /\ held = <<>>
  /\ delivered = 0
  /\ cancelled = FALSE

-----------------------------------------------------------------------------
(* The peer and the kernel's socket buffer (external). *)

PeerSend ==
  /\ peer = "open"
  /\ \E n \in 1..(MaxBytes - sent) : sent' = sent + n
  /\ UNCHANGED <<peer, streamVars, phase, readerVars, cancelled>>

PeerEnd ==
  /\ peer = "open"
  /\ peer' \in {"closed", "reset"}
  /\ UNCHANGED <<sent, streamVars, phase, readerVars, cancelled>>

\* poll() reports the fd (POLLIN, POLLHUP or POLLERR).
Readable == sent > rcvd \/ peer # "open"

-----------------------------------------------------------------------------
(* on_ready(). *)

\* The stream was polled readable; Queue::step() calls on_ready().
PollReady ==
  /\ phase = "idle"
  /\ registered
  /\ reader # "gone"
  /\ Readable
  /\ phase' = "drain"
  /\ UNCHANGED <<peerVars, streamVars, readerVars, cancelled>>

\* Mutation: held slots are forgotten, the ring laps the reader.
PendingOnlyRoom == Len(pending) < Entries

\* The room check that keeps writeIdx from lapping a pending or held slot.
HasRoom == Len(pending) + checkedOut < Entries

LoopGuard == error = "none" /\ ~eof /\ HasRoom

\* Mutation: the index wraps one slot too late.
LateWrapIdx(idx) == (idx + 1) % (Entries + 1)

NextIdx(idx) == (idx + 1) % Entries

\* recv() returns r > 0 bytes into the slot at writeIdx.
RecvData ==
  /\ phase = "drain"
  /\ LoopGuard
  /\ \E r \in 1..EntrySize :
       /\ rcvd + r <= sent
       /\ rcvd' = rcvd + r
       /\ slot' = [slot EXCEPT ![writeIdx] = rcvd]
       /\ pending' = Append(pending, [idx |-> writeIdx, len |-> r])
  /\ writeIdx' = NextIdx(writeIdx)
  /\ UNCHANGED <<peerVars, checkedOut, eof, error, registered, phase,
                 readerVars, cancelled>>

\* recv() returns EAGAIN.
RecvAgain ==
  /\ phase = "drain"
  /\ LoopGuard
  /\ rcvd = sent /\ peer = "open"
  /\ phase' = "wake"
  /\ UNCHANGED <<peerVars, streamVars, readerVars, cancelled>>

\* recv() returns 0.
RecvEof ==
  /\ phase = "drain"
  /\ LoopGuard
  /\ rcvd = sent /\ peer = "closed"
  /\ eof' = TRUE
  /\ phase' = "wake"
  /\ UNCHANGED <<peerVars, rcvd, slot, pending, checkedOut, writeIdx, error,
                 registered, readerVars, cancelled>>

\* recv() fails; a reset may discard what the kernel still buffers.
RecvError ==
  /\ phase = "drain"
  /\ LoopGuard
  /\ peer = "reset"
  /\ error' = "reset"
  /\ phase' = "wake"
  /\ UNCHANGED <<peerVars, rcvd, slot, pending, checkedOut, writeIdx, eof,
                 registered, readerVars, cancelled>>

\* The while condition is false: nothing more to receive or no room.
LoopExit ==
  /\ phase = "drain"
  /\ ~LoopGuard
  /\ phase' = "wake"
  /\ UNCHANGED <<peerVars, streamVars, readerVars, cancelled>>

-----------------------------------------------------------------------------
(* The reader's side. *)

\* _ready()'s answer, and the condition on which on_ready() resumes a waiter.
HasResult == pending # <<>> \/ eof \/ error # "none"

\* Mutation: an error is reported before the chunks that were received.
ErrorFirst(ask, out) ==
  /\ reader' = IF error = "none" /\ pending # <<>> THEN "running" ELSE "over"
  /\ LET k == IF reader' = "running" THEN 1 ELSE 0
     IN  /\ held' = SubSeq(pending, 1, k)
         /\ pending' = Remaining(pending, k)
         /\ checkedOut' = out + k
         /\ delivered' = IF k = 1 THEN slot[pending[1].idx] + pending[1].len ELSE delivered

\* _take() / _take_batch() for a reader that has out already slots checked out.
TakeBatch(ask, out) ==
  \/ /\ pending # <<>>
     /\ \E k \in BatchSizes(pending, ask.cap, ask.max) :
          /\ held' = SubSeq(pending, 1, k)
          /\ pending' = Remaining(pending, k)
          /\ checkedOut' = out + k
          /\ delivered' = slot[pending[k].idx] + pending[k].len
     /\ reader' = "running"
  \/ /\ pending = <<>>
     /\ held' = <<>>
     /\ checkedOut' = out
     /\ reader' = "over"
     /\ UNCHANGED <<pending, delivered>>

\* Mutation: slots are given back only when a chunk is taken, never when the
\* reader is about to suspend (the bug the comment in _ready() recalls).
KeepCheckedOut == checkedOut

\* _return_checked_out(), first thing in every next()/next_batch().
ReturnCheckedOut == 0

\* The end of on_ready(): resume the waiter, which takes its batch.
Wake ==
  /\ phase = "wake"
  /\ phase' = "idle"
  /\ IF reader = "waiting" /\ HasResult
     THEN TakeBatch(asked, checkedOut) /\ UNCHANGED asked
     ELSE UNCHANGED <<pending, checkedOut, readerVars>>
  /\ UNCHANGED <<peerVars, rcvd, slot, writeIdx, eof, error, registered, cancelled>>

\* co_await stream.next_batch(...) finds something at once.
NextBatchReady ==
  /\ phase = "idle"
  /\ reader = "running"
  /\ HasResult
  /\ \E ask \in Asks : TakeBatch(ask, ReturnCheckedOut)
  /\ UNCHANGED <<peerVars, rcvd, slot, writeIdx, eof, error, registered,
                 phase, asked, cancelled>>

\* co_await stream.next_batch(...) suspends: _arm().
NextBatchSuspend ==
  /\ phase = "idle"
  /\ reader = "running"
  /\ ~HasResult
  /\ asked' \in Asks
  /\ checkedOut' = ReturnCheckedOut
  /\ held' = <<>>
  /\ reader' = "waiting"
  /\ UNCHANGED <<peerVars, rcvd, slot, pending, writeIdx, eof, error, registered,
                 phase, delivered, cancelled>>

\* Queue::cancel_fd(): forget the read op, then RecvStreamImpl::cancel().
Cancel ==
  /\ phase = "idle"
  /\ registered
  /\ reader # "gone"
  /\ registered' = FALSE
  /\ cancelled' = TRUE
  /\ error' = IF error = "none" /\ ~eof THEN "cancelled" ELSE error
  /\ IF reader = "waiting"
     THEN TakeBatch(asked, checkedOut) /\ UNCHANGED asked
     ELSE UNCHANGED <<pending, checkedOut, readerVars>>
  /\ UNCHANGED <<peerVars, rcvd, slot, writeIdx, eof, phase>>

\* ~RecvStreamImpl(): _clear_read_op().
Destroy ==
  /\ phase = "idle"
  /\ reader \in {"running", "over"}
  /\ reader' = "gone"
  /\ held' = <<>>
  /\ registered' = FALSE
  /\ UNCHANGED <<peerVars, rcvd, slot, pending, checkedOut, writeIdx, eof, error,
                 phase, asked, delivered, cancelled>>

OnReady == RecvData \/ RecvAgain \/ RecvEof \/ RecvError \/ LoopExit \/ Wake

NextBatch == NextBatchReady \/ NextBatchSuspend

Next == PeerSend \/ PeerEnd \/ PollReady \/ OnReady \/ NextBatch \/ Cancel \/ Destroy

(***************************************************************************)
(* Queue::step() polls for ever and on_ready() is a loop of system calls   *)
(* that return.  A reader that is not finished calls next_batch() again,   *)
(* as FramedReader does until it has its bytes; it gets the thread between *)
(* two polls, each of which handles every fd that is ready, so a fd that   *)
(* stays readable (after EOF, or while the ring is full) cannot starve it. *)
(***************************************************************************)
Fairness == WF_vars(PollReady) /\ WF_vars(OnReady) /\ SF_vars(NextBatch)

Spec == Init /\ [][Next]_vars

FairSpec == Spec /\ Fairness

-----------------------------------------------------------------------------
(* Properties. *)

TypeOK ==
  /\ sent \in 0..MaxBytes
  /\ peer \in {"open", "closed", "reset"}
  /\ rcvd \in 0..sent
  /\ slot \in [Slots -> 0..MaxBytes]
  /\ pending \in Seq([idx : Slots, len : 1..EntrySize])
  /\ checkedOut \in 0..Entries
  /\ writeIdx \in Slots
  /\ eof \in BOOLEAN
  /\ error \in {"none", "reset", "cancelled"}
  /\ registered \in BOOLEAN
  /\ phase \in {"idle", "drain", "wake"}
  /\ reader \in {"running", "waiting", "over", "gone"}
  /\ asked \in Asks
  /\ held \in Seq([idx : Slots, len : 1..EntrySize])
  /\ delivered \in 0..sent
  /\ cancelled \in BOOLEAN

\* The slots in use: what the reader holds, then what it has not taken yet.
Live == held \o pending

(***************************************************************************)
(* The bytes in the slots in use are intact: read one after the other they *)
(* are the end of what was received.  on_ready() writes no slot whose      *)
(* chunk is pending or still in the reader's hands, and hands nothing out  *)
(* twice (libc_recv_stream.cpp, room check and _return_checked_out).       *)
(***************************************************************************)
LiveIntact ==
  /\ \A i \in 1..(Len(Live) - 1) :
       slot[Live[i + 1].idx] = slot[Live[i].idx] + Live[i].len
  /\ Live # <<>> => slot[Live[Len(Live)].idx] + Live[Len(Live)].len = rcvd
  /\ pending = <<>> => delivered = rcvd
  /\ pending # <<>> => slot[pending[1].idx] = delivered

(***************************************************************************)
(* A reader is never left suspended on a stream that has something for it: *)
(* outside on_ready() a waiting reader means nothing pending, no EOF, no   *)
(* error, every slot free, and the fd still polled.                        *)
(***************************************************************************)
NoLostWakeup ==
  phase = "idle" /\ reader = "waiting" =>
    ~HasResult /\ HasRoom /\ registered

(***************************************************************************)
(* The error of a reset or of cancel_fd(), and end of file, overtake no    *)
(* data: a reader is told that the stream ended only when it was given     *)
(* every byte that ::recv() had returned, the chunks that were pending     *)
(* when the error came included, and nothing is received after that        *)
(* (libc_recv_stream.cpp: _take() looks at _pending before _eof and        *)
(* _error; cancel() keeps _pending).                                       *)
(***************************************************************************)
EndAfterData == reader = "over" => delivered = rcvd

\* The contract's view of the stream: a slot stands for the bytes that are in
\* it now.
Contract == INSTANCE RecvStream WITH
  held <- [i \in 1..Len(held) |-> [pos |-> slot[held[i].idx], len |-> held[i].len]]

(***************************************************************************)
(* The libc stream implements the contract of recv_stream.hpp; a slot that *)
(* is overwritten while the reader holds it is a change the contract does  *)
(* not allow, and so are bytes skipped, repeated or reported after the end.*)
(***************************************************************************)
Refines == Contract!Spec

(***************************************************************************)
(* Every byte sent is delivered, and a reader learns of the end of the     *)
(* connection and of cancel_fd() (queue.hpp: the awaiting coroutine is     *)
(* resumed with an error) once it has taken what was received: neither a   *)
(* full ring nor a cancellation with chunks pending leaves it asleep.      *)
(***************************************************************************)
EverythingDelivered ==
  /\ \A n \in 1..MaxBytes :
       sent >= n ~> delivered >= n \/ reader \in {"over", "gone"}
  /\ peer # "open" \/ cancelled ~> reader \in {"over", "gone"}
=============================================================================
