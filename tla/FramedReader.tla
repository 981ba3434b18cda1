---------------------------- MODULE FramedReader ----------------------------
(***************************************************************************)
(* easyio's FramedReader (easyio/src/framed_reader.cpp) on top of the      *)
(* RecvStream contract: read_exact(n) and read_exact_into(dest, n) turn    *)
(* chunks that split and join messages anywhere into reads of exactly n    *)
(* bytes.  A chunk may carry bytes of the next message; they are kept in   *)
(* buf for the next read.  A byte is its offset in what the peer sends.    *)
(***************************************************************************)
EXTENDS Integers, Sequences

CONSTANTS
  MaxBytes,   \* bound: bytes the peer sends on the connection
  MaxCap,     \* kBatchCapacity, the size of the array `batch`
  MaxWant     \* bound: largest n a caller asks for

ASSUME FramedAssumption ==
  /\ MaxBytes \in Nat
  /\ MaxCap \in Nat \ {0}
  /\ MaxWant \in Nat \ {0}

VARIABLES
  sent, peer, cancelled, delivered, held, asked, reader,  \* the RecvStream
  buf,        \* _buf
  consumed,   \* _consumed
  mode,       \* "idle", in "exact" or "into", or "failed" (the call threw)
  want,       \* n of the current or last call
  dest,       \* read_exact_into: what has been copied to dest
  next,       \* the chunk of the batch the for loop is at; 0 outside it
  out,        \* history: the bytes the last completed call returned
  taken       \* history: bytes asked for by completed calls

streamVars == <<sent, peer, cancelled, delivered, held, asked, reader>>
frameVars == <<buf, consumed, mode, want, dest, next, out, taken>>
vars == <<streamVars, frameVars>>

Stream == INSTANCE RecvStream

Init ==
  /\ Stream!Init
  /\ buf = <<>>
  /\ consumed = 0
  /\ mode = "idle"
  /\ want = 0
  /\ dest = <<>>
  /\ next = 0
  /\ out = <<>>
  /\ taken = 0

Smaller(a, b) == IF a < b THEN a ELSE b

\* The bytes of a chunk.
Data(chunk) == [j \in 1..chunk.len |-> chunk.pos + j - 1]

\* The elements of s after its first n.
Drop(s, n) == SubSeq(s, n + 1, Len(s))

\* The erase() both calls begin with.
Unread == Drop(buf, consumed)

\* read_exact(n) is called.
ReadExact(n) ==
  /\ mode = "idle"
  /\ reader = "running"
  /\ mode' = "exact"
  /\ want' = n
  /\ buf' = Unread
  /\ consumed' = 0
  /\ dest' = <<>>
  /\ UNCHANGED <<next, out, taken, streamVars>>

\* read_exact_into(dest, n) is called; leftover bytes are copied first.
ReadExactInto(n) ==
  LET got == Smaller(Len(Unread), n)
  IN  /\ mode = "idle"
      /\ reader = "running"
      /\ mode' = "into"
      /\ want' = n
      /\ buf' = Unread
      /\ dest' = SubSeq(Unread, 1, got)
      /\ consumed' = got
      /\ UNCHANGED <<next, out, taken, streamVars>>

Got == IF mode = "exact" THEN Len(buf) ELSE Len(dest)

Reading == mode \in {"exact", "into"}

\* The for loop starts over a batch that was just returned.
EnterBatch == next' = IF reader' = "running" THEN 1 ELSE 0

\* co_await _stream.next_batch(batch, n - got).
AskStream ==
  /\ Reading /\ next = 0
  /\ Got < want
  /\ Stream!Call([cap |-> MaxCap, max |-> want - Got])
  /\ EnterBatch
  /\ UNCHANGED <<buf, consumed, mode, want, dest, out, taken>>

\* The stream resumes the suspended call, by itself or inside cancel_fd().
StreamResumes ==
  /\ Stream!Resume \/ (Stream!Cancel /\ reader' # reader)
  /\ EnterBatch
  /\ UNCHANGED <<buf, consumed, mode, want, dest, out, taken>>

NextChunk == next' = IF next = Len(held) THEN 0 ELSE next + 1

\* read_exact()'s loop body.
AppendChunk ==
  /\ mode = "exact" /\ next > 0
  /\ buf' = buf \o Data(held[next])
  /\ NextChunk
  /\ UNCHANGED <<consumed, mode, want, dest, out, taken, streamVars>>

\* Mutation: what the chunk carries beyond this read is dropped.
StashNothing(take, data) == UNCHANGED <<buf, consumed>>

\* Mutation: the stale _consumed is kept when the overshoot replaces _buf.
StashKeepConsumed(take, data) ==
  IF take < Len(data)
  THEN buf' = Drop(data, take) /\ UNCHANGED consumed
  ELSE UNCHANGED <<buf, consumed>>

\* What the chunk carries beyond this read replaces _buf.
Stash(take, data) ==
  IF take < Len(data)
  THEN buf' = Drop(data, take) /\ consumed' = 0
  ELSE UNCHANGED <<buf, consumed>>

\* read_exact_into()'s loop body.
CopyChunk ==
  LET data == Data(held[next])
      take == Smaller(Len(data), want - Len(dest))
  IN  /\ mode = "into" /\ next > 0
      /\ dest' = dest \o SubSeq(data, 1, take)
      /\ Stash(take, data)
      /\ NextChunk
      /\ UNCHANGED <<mode, want, out, taken, streamVars>>

\* The call returns.
Finish ==
  /\ Reading /\ next = 0
  /\ Got >= want
  /\ IF mode = "exact"
     THEN out' = SubSeq(buf, 1, want) /\ consumed' = want
     ELSE out' = dest /\ UNCHANGED consumed
  /\ mode' = "idle"
  /\ taken' = taken + want
  /\ UNCHANGED <<buf, want, dest, next, streamVars>>

\* The batch is an error or end of file: the call throws.
Throw ==
  /\ Reading
  /\ reader = "over"
  /\ mode' = "failed"
  /\ UNCHANGED <<buf, consumed, want, dest, next, out, taken, streamVars>>

\* The owner drops the stream between calls or after a failure.
DropStream ==
  /\ ~Reading
  /\ Stream!Destroy
  /\ UNCHANGED frameVars

\* The peer, and a cancellation that resumes nobody.
Environment ==
  /\ \/ Stream!PeerSend
     \/ Stream!PeerEnd
     \/ Stream!Cancel /\ reader' = reader
  /\ UNCHANGED frameVars

Step == AskStream \/ AppendChunk \/ CopyChunk \/ Finish \/ Throw

Read == \E n \in 0..MaxWant : ReadExact(n) \/ ReadExactInto(n)

Next == Environment \/ StreamResumes \/ Read \/ Step \/ DropStream

\* The coroutine runs on, and a stream that has a result resumes its reader (the
\* streams' own EveryByteDelivered and EverythingDelivered).
Fairness == WF_vars(Step) /\ WF_vars(Stream!Resume /\ StreamResumes)

Spec == Init /\ [][Next]_vars

FairSpec == Spec /\ Fairness

-----------------------------------------------------------------------------
(* Properties. *)

TypeOK ==
  /\ sent \in 0..MaxBytes
  /\ peer \in {"open", "closed", "reset"}
  /\ cancelled \in BOOLEAN
  /\ delivered \in 0..sent
  /\ held \in Seq([pos : 0..MaxBytes, len : 1..MaxBytes])
  /\ reader \in {"running", "waiting", "over", "gone"}
  /\ buf \in Seq(0..MaxBytes)
  /\ consumed \in 0..Len(buf)
  /\ mode \in {"idle", "exact", "into", "failed"}
  /\ want \in 0..MaxWant
  /\ dest \in Seq(0..MaxBytes)
  /\ next \in 0..Len(held)
  /\ out \in Seq(0..MaxBytes)
  /\ taken \in Nat

\* s is the run of bytes that starts at offset start.
Run(s, start) == \A j \in 1..Len(s) : s[j] = start + j - 1

(***************************************************************************)
(* A call that returns gives exactly the n bytes that follow what the      *)
(* calls before it returned, and every byte the stream delivered beyond    *)
(* them is in buf, unread and in order: nothing is lost, doubled or        *)
(* swapped, wherever the chunk boundaries fall and however the two calls   *)
(* alternate.                                                              *)
(***************************************************************************)
ReadsExact ==
  mode = "idle" =>
    /\ Len(out) = want
    /\ Run(out \o Unread, taken - Len(out))
    /\ taken + Len(Unread) = delivered

(***************************************************************************)
(* A call whose bytes the peer has sent completes, or fails because the    *)
(* stream ended.                                                           *)
(***************************************************************************)
ReadCompletes ==
  Reading /\ sent >= taken + want ~> ~Reading
=============================================================================
