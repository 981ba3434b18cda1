----------------------------- MODULE RecvStream -----------------------------
(***************************************************************************)
(* What easyio promises of a RecvStream, whatever backend implements it    *)
(* (easyio/include/easyio/recv_stream.hpp): one reader asks for batches of *)
(* chunks; the chunks it gets are the peer's bytes, each once, in order    *)
(* and without gaps; they stay intact until its next call; end of file is  *)
(* reported only after the last byte, an error only after a reset or a     *)
(* cancellation; nothing follows either of them.                           *)
(*                                                                         *)
(* A byte is its offset in what the peer sends, a chunk a run of offsets.  *)
(***************************************************************************)
EXTENDS ChunkBatch

CONSTANTS
  MaxBytes,   \* bound: bytes the peer sends on the connection
  MaxCap,     \* bound: largest out.size() a reader passes
  MaxWant     \* bound: largest max_bytes a reader passes

VARIABLES
  sent,       \* bytes the peer has sent
  peer,       \* "open", "closed" (orderly shutdown) or "reset"
  cancelled,  \* Queue::cancel_fd() was called
  delivered,  \* bytes handed to the reader
  held,       \* the chunks of the last batch, until the next call
  asked,      \* arguments of the call the reader is suspended in
  reader      \* "running", "waiting", "over" (EOF or error seen) or "gone"

vars == <<sent, peer, cancelled, delivered, held, asked, reader>>

Asks == [cap : 1..MaxCap, max : 1..MaxWant]

Init ==
  /\ sent = 0
  /\ peer = "open"
  /\ cancelled = FALSE
  /\ delivered = 0
  /\ held = <<>>
  /\ asked \in Asks
  /\ reader = "running"

-----------------------------------------------------------------------------
(* The peer. *)

PeerSend ==
  /\ peer = "open"
  /\ \E n \in 1..(MaxBytes - sent) : sent' = sent + n
  /\ UNCHANGED <<peer, cancelled, delivered, held, asked, reader>>

PeerEnd ==
  /\ peer = "open"
  /\ peer' \in {"closed", "reset"}
  /\ UNCHANGED <<sent, cancelled, delivered, held, asked, reader>>

-----------------------------------------------------------------------------
(* The stream. *)

\* k chunks that continue the byte stream, chunk i from offset ends[i - 1] to
\* ends[i]; only the last may reach past ask.max bytes.
GoodBatch(ends, k, ask) ==
  /\ ends[0] = delivered
  /\ \A i \in 1..k : ends[i - 1] < ends[i]
  /\ ends[k - 1] - delivered < ask.max

ReturnBatch(ask) ==
  /\ \E k \in 1..ask.cap : \E ends \in [0..k -> delivered..sent] :
       /\ GoodBatch(ends, k, ask)
       /\ held' = [i \in 1..k |-> [pos |-> ends[i - 1], len |-> ends[i] - ends[i - 1]]]
       /\ delivered' = ends[k]
  /\ reader' = "running"

ReturnEof ==
  /\ peer = "closed"
  /\ delivered = sent
  /\ held' = <<>>
  /\ reader' = "over"
  /\ UNCHANGED delivered

ReturnError(stopped) ==
  /\ peer = "reset" \/ stopped
  /\ held' = <<>>
  /\ reader' = "over"
  /\ UNCHANGED delivered

\* What a call may return, given whether the fd has been cancelled.
Return(ask, stopped) == ReturnBatch(ask) \/ ReturnEof \/ ReturnError(stopped)

\* next_batch(): returns at once or suspends; the previous batch is given back.
Call(ask) ==
  /\ reader = "running"
  /\ \/ Return(ask, cancelled) /\ UNCHANGED asked
     \/ /\ asked' = ask
        /\ reader' = "waiting"
        /\ held' = <<>>
        /\ UNCHANGED delivered
  /\ UNCHANGED <<sent, peer, cancelled>>

NextBatch == \E ask \in Asks : Call(ask)

Resume ==
  /\ reader = "waiting"
  /\ Return(asked, cancelled)
  /\ UNCHANGED <<sent, peer, cancelled, asked>>

\* cancel_fd(): may or may not resume the reader before it returns.
Cancel ==
  /\ reader # "gone"
  /\ cancelled' = TRUE
  /\ \/ reader = "waiting" /\ Return(asked, TRUE)
     \/ UNCHANGED <<delivered, held, reader>>
  /\ UNCHANGED <<sent, peer, asked>>

Destroy ==
  /\ reader \in {"running", "over"}
  /\ reader' = "gone"
  /\ held' = <<>>
  /\ UNCHANGED <<sent, peer, cancelled, delivered, asked>>

Next == PeerSend \/ PeerEnd \/ NextBatch \/ Resume \/ Cancel \/ Destroy

Spec == Init /\ [][Next]_vars
=============================================================================
