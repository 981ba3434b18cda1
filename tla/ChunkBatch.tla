----------------------------- MODULE ChunkBatch -----------------------------
(***************************************************************************)
(* How a receive stream of easyio hands out chunks.  Every backend keeps a *)
(* queue of received chunks and serves next_batch(out, max_bytes) with the *)
(* same loop: take from the front while there is capacity, while fewer     *)
(* than max_bytes bytes are taken, and while something is pending.  A      *)
(* chunk is a record with at least a field len.                            *)
(***************************************************************************)
EXTENDS Integers, SequencesExt

\* The loop's running total `bytes`, once i chunks are taken, for each i.
Bytes(chunks) ==
  LET bytes[i \in 0..Len(chunks)] ==
        IF i = 0 THEN 0 ELSE bytes[i - 1] + chunks[i].len
  IN  bytes

\* Mutation: the loop tests the total after adding the chunk, not before.
GreedyBatchSizes(pending, cap, max) ==
  {k \in 1..Len(pending) :
     /\ k <= cap
     /\ k = Len(pending) \/ k = cap}

(***************************************************************************)
(* The iteration counts _take_batch can stop at: every iteration but the   *)
(* last left room for another, and the loop stops only when pending is     *)
(* empty, out is full or max_bytes is reached.  There is exactly one when  *)
(* pending is not empty; the last chunk may overshoot max_bytes.  next()   *)
(* is next_batch with cap = 1.                                             *)
(***************************************************************************)
BatchSizes(pending, cap, max) ==
  {k \in 1..Len(pending) :
     /\ k <= cap
     /\ Bytes(pending)[k - 1] < max
     /\ \/ k = Len(pending)
        \/ k = cap
        \/ Bytes(pending)[k] >= max}

\* What stays pending once k chunks have been taken.
Remaining(pending, k) == SubSeq(pending, k + 1, Len(pending))
=============================================================================
