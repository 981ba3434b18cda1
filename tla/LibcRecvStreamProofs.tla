------------------------ MODULE LibcRecvStreamProofs ------------------------
(***************************************************************************)
(* Proofs about LibcRecvStream, for every ring size, buffer size and       *)
(* amount of data: type correctness, integrity of the chunks in use,       *)
(* absence of lost wakeups, and that the stream implements the contract of *)
(* recv_stream.hpp.                                                        *)
(***************************************************************************)
EXTENDS LibcRecvStream, TLAPS, WellFoundedInduction

\* A set of natural numbers that is not empty has a least element: induction by least
\* counterexample needs no operator, which the library's induction theorems take.
LEMMA LeastOf ==
  ASSUME NEW T \in SUBSET Nat, T # {}
  PROVE  \E x \in T : \A y \in T : x <= y
<1> DEFINE R == OpToRel(<, Nat)
<1>1. IsWellFoundedOn(R, Nat)
  BY NatLessThanWellFounded
<1>2. \A x, y \in T : y < x => <<y, x>> \in R
  BY DEF OpToRel
<1> HIDE DEF R
<1>3. PICK x \in T : \A y \in T : ~(<<y, x>> \in R)
  BY <1>1, WFMin
<1>4. x \in Nat /\ \A y \in T : y \in Nat
  OBVIOUS
<1>5. \A y \in T : ~(y < x)
  BY <1>2, <1>3
<1> QED BY <1>4, <1>5

\* Splitting a queue after its first k elements.
LEMMA SplitQueue ==
  ASSUME NEW S, NEW q \in Seq(S), NEW k \in 1..Len(q)
  PROVE  /\ SubSeq(q, 1, k) \in Seq(S)
         /\ Len(SubSeq(q, 1, k)) = k
         /\ \A i \in 1..k : SubSeq(q, 1, k)[i] = q[i]
         /\ Remaining(q, k) \in Seq(S)
         /\ Len(Remaining(q, k)) = Len(q) - k
         /\ \A i \in 1..(Len(q) - k) : Remaining(q, k)[i] = q[i + k]
BY DEF Remaining

-----------------------------------------------------------------------------
(* The running total of _take_batch(). *)

\* A function that satisfies the loop's equation up to n.
Totals(f, chunks, n) ==
  f = [i \in 0..n |-> IF i = 0 THEN 0 ELSE f[i - 1] + chunks[i].len]

\* There is one for every queue: a total up to n - 1 extends to n.
LEMMA TotalsExist ==
  ASSUME NEW chunks, NEW m \in Nat
  PROVE  \E f : Totals(f, chunks, m)
<1> DEFINE T == {n \in Nat : ~ \E f : Totals(f, chunks, n)}
<1> SUFFICES ASSUME T # {} PROVE FALSE
  OBVIOUS
<1>1. PICK n \in T : \A y \in T : n <= y
  BY LeastOf
<1>2. CASE n = 0
  <2> DEFINE g == [i \in 0..0 |-> 0]
  <2>1. Totals(g, chunks, 0)
    BY DEF Totals
  <2> QED BY <1>2, <2>1
<1>3. CASE n # 0
  <2>1. n - 1 \in Nat /\ n - 1 \notin T
    BY <1>1, <1>3
  <2>2. PICK f : Totals(f, chunks, n - 1)
    BY <2>1
  <2> DEFINE g == [i \in 0..n |-> IF i = 0 THEN 0 ELSE f[i - 1] + chunks[i].len]
  <2>3. \A i \in 0..(n - 1) : g[i] = f[i]
    BY <2>1, <2>2 DEF Totals
  <2>4. g = [i \in 0..n |-> IF i = 0 THEN 0 ELSE g[i - 1] + chunks[i].len]
    <3>1. \A i \in 0..n : i # 0 => i - 1 \in 0..(n - 1)
      BY <2>1
    <3>2. \A i \in 0..n : i # 0 => g[i - 1] = f[i - 1]
      BY <2>3, <3>1
    <3> QED BY <3>2
  <2>5. Totals(g, chunks, n)
    BY <2>4 DEF Totals
  <2> HIDE DEF g
  <2> QED BY <1>1, <2>5
<1> QED BY <1>2, <1>3

\* bytes starts at 0 and grows by the length of each chunk that is taken.
LEMMA BytesStep ==
  ASSUME NEW S, NEW chunks \in Seq(S)
  PROVE  /\ Bytes(chunks)[0] = 0
         /\ \A i \in 1..Len(chunks) :
              Bytes(chunks)[i] = Bytes(chunks)[i - 1] + chunks[i].len
<1>1. Len(chunks) \in Nat
  OBVIOUS
<1>2. PICK f : Totals(f, chunks, Len(chunks))
  BY <1>1, TotalsExist
<1>3. Bytes(chunks) = CHOOSE g : Totals(g, chunks, Len(chunks))
  BY DEF Bytes, Totals
<1>4. Totals(Bytes(chunks), chunks, Len(chunks))
  BY <1>2, <1>3
<1> QED BY <1>1, <1>4 DEF Totals

\* The total is a number of bytes.
LEMMA BytesNat ==
  ASSUME NEW S, NEW chunks \in Seq(S), \A i \in 1..Len(chunks) : chunks[i].len \in Nat
  PROVE  \A i \in 0..Len(chunks) : Bytes(chunks)[i] \in Nat
<1> DEFINE T == {i \in 0..Len(chunks) : Bytes(chunks)[i] \notin Nat}
<1> SUFFICES ASSUME T # {} PROVE FALSE
  OBVIOUS
<1>1. Len(chunks) \in Nat
  OBVIOUS
<1>2. T \in SUBSET Nat
  BY <1>1
<1>3. PICK n \in T : \A y \in T : n <= y
  BY <1>2, LeastOf
<1>4. n # 0
  BY <1>3, BytesStep
<1>5. n \in 1..Len(chunks) /\ n - 1 \in 0..Len(chunks) /\ n - 1 \notin T
  BY <1>1, <1>3, <1>4
<1>6. Bytes(chunks)[n] = Bytes(chunks)[n - 1] + chunks[n].len
  BY <1>5, BytesStep
<1> QED BY <1>3, <1>5, <1>6

\* It never decreases.
LEMMA BytesMonotonic ==
  ASSUME NEW S, NEW chunks \in Seq(S), \A i \in 1..Len(chunks) : chunks[i].len \in Nat,
         NEW i \in 0..Len(chunks), NEW m \in i..Len(chunks)
  PROVE  Bytes(chunks)[i] <= Bytes(chunks)[m]
<1> DEFINE T == {j \in i..Len(chunks) : ~(Bytes(chunks)[i] <= Bytes(chunks)[j])}
<1> SUFFICES ASSUME T # {} PROVE FALSE
  OBVIOUS
<1>1. Len(chunks) \in Nat
  OBVIOUS
<1>2. T \in SUBSET Nat
  BY <1>1
<1>3. PICK n \in T : \A y \in T : n <= y
  BY <1>2, LeastOf
<1>t. \A j \in 0..Len(chunks) : Bytes(chunks)[j] \in Nat
  BY BytesNat
<1>4. n # i
  BY <1>1, <1>3, <1>t
<1>5. n \in 1..Len(chunks) /\ n - 1 \in i..Len(chunks) /\ n - 1 \notin T
  BY <1>1, <1>3, <1>4
<1>6. Bytes(chunks)[i] <= Bytes(chunks)[n - 1]
  BY <1>5
<1>7. Bytes(chunks)[n] = Bytes(chunks)[n - 1] + chunks[n].len
  BY <1>5, BytesStep
<1>8. /\ Bytes(chunks)[i] \in Nat /\ Bytes(chunks)[n - 1] \in Nat
      /\ Bytes(chunks)[n] \in Nat /\ chunks[n].len \in Nat
  BY <1>1, <1>5, <1>t
<1> QED BY <1>3, <1>6, <1>7, <1>8

\* _take_batch() is deterministic and never comes back with nothing: for every
\* queue that is not empty, every out.size() and every max_bytes, its loop stops
\* after exactly one number of chunks.
THEOREM OneBatchSize ==
  ASSUME NEW S, NEW chunks \in Seq(S), \A i \in 1..Len(chunks) : chunks[i].len \in Nat,
         chunks # <<>>, NEW cap \in Nat \ {0}, NEW max \in Nat \ {0}
  PROVE  \E k \in 1..Len(chunks) : BatchSizes(chunks, cap, max) = {k}
<1>1. Len(chunks) \in Nat \ {0}
  OBVIOUS
<1>2. /\ \A j \in 0..Len(chunks) : Bytes(chunks)[j] \in Nat
      /\ \A j \in 0..Len(chunks) : \A m \in j..Len(chunks) :
           Bytes(chunks)[j] <= Bytes(chunks)[m]
  BY BytesNat, BytesMonotonic
<1>3. Bytes(chunks)[0] = 0
  BY BytesStep
<1> DEFINE stops == {j \in 1..Len(chunks) :
                       j = Len(chunks) \/ j = cap \/ Bytes(chunks)[j] >= max}
<1>4. Len(chunks) \in stops /\ stops \in SUBSET Nat
  BY <1>1
<1>5. PICK k \in stops : \A y \in stops : k <= y
  BY <1>4, LeastOf
<1>6. k \in 1..Len(chunks) /\ k - 1 \in 0..Len(chunks)
  BY <1>1, <1>5
<1>7. k \in BatchSizes(chunks, cap, max)
  <2>1. k <= cap
    <3>1. CASE cap \in 1..Len(chunks)
      BY <1>5, <3>1
    <3>2. CASE cap \notin 1..Len(chunks)
      BY <1>1, <1>6, <3>2
    <3> QED BY <3>1, <3>2
  <2>2. Bytes(chunks)[k - 1] < max
    <3>1. CASE k = 1
      BY <1>3, <3>1
    <3>2. CASE k # 1
      <4>1. k - 1 \in 1..Len(chunks) /\ k - 1 \notin stops
        BY <1>1, <1>5, <1>6, <3>2
      <4>2. ~(Bytes(chunks)[k - 1] >= max)
        BY <4>1
      <4> QED BY <1>2, <1>6, <4>2
    <3> QED BY <3>1, <3>2
  <2> QED BY <1>5, <1>6, <2>1, <2>2 DEF BatchSizes
<1>8. ASSUME NEW j \in BatchSizes(chunks, cap, max) PROVE j = k
  <2>1. /\ j \in 1..Len(chunks) /\ j - 1 \in 0..Len(chunks)
        /\ j <= cap /\ Bytes(chunks)[j - 1] < max
        /\ j \in stops
    BY <1>1, <1>8 DEF BatchSizes
  <2>2. k <= j
    BY <1>5, <2>1
  <2>3. ASSUME k < j PROVE FALSE
    <3>1. j - 1 \in k..Len(chunks) /\ k \in 0..Len(chunks)
      BY <1>1, <1>6, <2>1, <2>3
    <3>2. Bytes(chunks)[k] <= Bytes(chunks)[j - 1]
      BY <1>2, <3>1
    <3>3. Bytes(chunks)[k] >= max
      BY <1>1, <1>5, <1>6, <2>1, <2>3
    <3>4. Bytes(chunks)[k] \in Nat /\ Bytes(chunks)[j - 1] \in Nat
      BY <1>2, <2>1, <3>1
    <3> QED BY <2>1, <3>2, <3>3, <3>4
  <2> QED BY <1>6, <2>1, <2>2, <2>3
<1> QED BY <1>6, <1>7, <1>8

-----------------------------------------------------------------------------
(* The invariant. *)

Piece == [idx : Slots, len : 1..EntrySize]

\* The slot written d receives before the next one goes to slot w.
Back(w, d) == IF w >= d THEN w - d ELSE w - d + Entries

(***************************************************************************)
(* The slots in use are the last ones written, in the order they were      *)
(* written, and there are never more of them than there are slots.  This   *)
(* is what makes the room check enough: writeIdx, the next slot to write,  *)
(* can only be one of them when the ring is full.                          *)
(***************************************************************************)
RingInv ==
  /\ Len(held) <= checkedOut
  /\ checkedOut + Len(pending) <= Entries
  /\ \A i \in 1..Len(pending) : pending[i].idx = Back(writeIdx, Len(pending) - i + 1)
  /\ \A i \in 1..Len(held) :
       held[i].idx = Back(writeIdx, Len(pending) + Len(held) - i + 1)

(***************************************************************************)
(* What is in them: the held chunks follow each other and end at           *)
(* delivered; the pending ones start there, follow each other and end at   *)
(* rcvd.                                                                   *)
(***************************************************************************)
ContentInv ==
  /\ \A i \in 1..(Len(held) - 1) :
       slot[held[i + 1].idx] = slot[held[i].idx] + held[i].len
  /\ \A i \in 1..(Len(pending) - 1) :
       slot[pending[i + 1].idx] = slot[pending[i].idx] + pending[i].len
  /\ \A i \in 1..Len(pending) : slot[pending[i].idx] + pending[i].len <= rcvd
  /\ Len(held) > 0 => slot[held[Len(held)].idx] + held[Len(held)].len = delivered
  /\ Len(pending) > 0 =>
       /\ slot[pending[1].idx] = delivered
       /\ slot[pending[Len(pending)].idx] + pending[Len(pending)].len = rcvd
  /\ Len(pending) = 0 => delivered = rcvd

(***************************************************************************)
(* A suspended reader has given its slots back, is registered, and, unless *)
(* on_ready() is running, was told of everything there is.  A stream that  *)
(* is no longer polled has something to tell, or no reader.                *)
(***************************************************************************)
WaitInv ==
  /\ reader = "waiting" =>
       /\ registered
       /\ checkedOut = 0
       /\ phase = "idle" => pending = <<>> /\ ~eof /\ error = "none"
  /\ ~registered => error # "none" \/ eof \/ reader = "gone"

-----------------------------------------------------------------------------
(* Facts about the operators. *)

\* writeIdx advances to the next slot or wraps to the first.
LEMMA NextIdxValue ==
  ASSUME NEW w \in Slots
  PROVE  NextIdx(w) = IF w + 1 = Entries THEN 0 ELSE w + 1
<1>1. CASE w + 1 = Entries
  BY <1>1, LibcAssumption DEF NextIdx, Slots
<1>2. CASE w + 1 # Entries
  BY <1>2, LibcAssumption DEF NextIdx, Slots
<1> QED BY <1>1, <1>2

\* A batch is a proper prefix: _take_batch() takes at least one chunk and no
\* more than are pending.
LEMMA BatchSizesRange ==
  ASSUME NEW q, NEW c, NEW m, NEW k \in BatchSizes(q, c, m)
  PROVE  k \in 1..Len(q)
BY DEF BatchSizes

\* The fields of a chunk in a queue.
LEMMA PieceFields ==
  ASSUME NEW q \in Seq(Piece), NEW i \in 1..Len(q)
  PROVE  q[i] \in Piece /\ q[i].idx \in Slots /\ q[i].len \in 1..EntrySize
<1>1. q[i] \in Piece
  OBVIOUS
<1> QED BY <1>1 DEF Piece

-----------------------------------------------------------------------------
\* Type correctness needs the other parts: delivered stays within sent and
\* checkedOut within the ring because of them.
IInv == TypeOK /\ RingInv /\ ContentInv /\ WaitInv

\* A stream starts with an empty ring.
LEMMA InitIInv == Init => IInv
<1> SUFFICES ASSUME Init PROVE IInv
  OBVIOUS
<1> USE LibcAssumption DEF Init
<1>1. TypeOK
  <2>1. slot \in [Slots -> 0..MaxBytes] /\ writeIdx \in Slots /\ rcvd \in 0..sent
    BY DEF Slots
  <2>2. asked \in Asks
    BY DEF Asks
  <2>3. eof \in BOOLEAN /\ registered \in BOOLEAN /\ cancelled \in BOOLEAN
    BY Zenon
  <2> QED BY <2>1, <2>2, <2>3 DEF TypeOK
<1>2. RingInv
  BY DEF RingInv
<1>3. ContentInv
  BY DEF ContentInv
<1>4. WaitInv
  BY DEF WaitInv
<1> QED BY <1>1, <1>2, <1>3, <1>4 DEF IInv

\* The room check is enough: with a slot to spare, the one at writeIdx holds no
\* chunk that is pending or held.
LEMMA WriteIdxFree ==
  ASSUME IInv, HasRoom
  PROVE  /\ \A i \in 1..Len(pending) : pending[i].idx # writeIdx
         /\ \A i \in 1..Len(held) : held[i].idx # writeIdx
<1> USE LibcAssumption
<1>1. /\ Len(pending) + checkedOut < Entries
      /\ writeIdx \in Slots /\ checkedOut \in 0..Entries
      /\ Len(pending) \in Nat /\ Len(held) \in Nat
      /\ RingInv
  BY DEF HasRoom, IInv, TypeOK
<1>2. \A d \in 1..(Entries - 1) : Back(writeIdx, d) # writeIdx
  BY <1>1 DEF Back, Slots
<1>3. \A i \in 1..Len(pending) : Len(pending) - i + 1 \in 1..(Entries - 1)
  BY <1>1
<1>4. \A i \in 1..Len(held) : Len(pending) + Len(held) - i + 1 \in 1..(Entries - 1)
  BY <1>1 DEF RingInv
<1> QED BY <1>1, <1>2, <1>3, <1>4 DEF RingInv

\* recv() fills the slot at writeIdx, which no chunk in use occupies.
LEMMA RecvDataIInv == IInv /\ RecvData => IInv'
<1> SUFFICES ASSUME IInv, RecvData PROVE IInv'
  OBVIOUS
<1> USE LibcAssumption
<1>0. PICK r \in 1..EntrySize :
        /\ rcvd + r <= sent
        /\ rcvd' = rcvd + r
        /\ slot' = [slot EXCEPT ![writeIdx] = rcvd]
        /\ pending' = Append(pending, [idx |-> writeIdx, len |-> r])
  BY DEF RecvData
<1>1. /\ Len(pending) + checkedOut < Entries
      /\ writeIdx' = NextIdx(writeIdx)
      /\ UNCHANGED <<sent, peer, checkedOut, eof, error, registered, phase,
                     reader, asked, held, delivered, cancelled>>
      /\ phase = "drain"
  BY DEF RecvData, LoopGuard, HasRoom, peerVars, readerVars
<1>2. /\ pending \in Seq(Piece) /\ held \in Seq(Piece)
      /\ writeIdx \in Slots /\ rcvd \in 0..sent /\ sent \in 0..MaxBytes
      /\ slot \in [Slots -> 0..MaxBytes]
      /\ checkedOut \in 0..Entries
      /\ delivered \in 0..sent
  BY DEF IInv, TypeOK, Piece
<1> DEFINE p == [idx |-> writeIdx, len |-> r]
<1>3. p \in Piece
  BY <1>2 DEF Piece
<1>4. /\ pending' \in Seq(Piece)
      /\ Len(pending') = Len(pending) + 1
      /\ \A i \in 1..Len(pending) : pending'[i] = pending[i]
      /\ pending'[Len(pending) + 1] = p
  BY <1>0, <1>2, <1>3
<1>5. writeIdx' = (IF writeIdx + 1 = Entries THEN 0 ELSE writeIdx + 1)
  BY <1>1, <1>2, NextIdxValue
<1>6. TypeOK'
  BY <1>0, <1>1, <1>2, <1>4, <1>5 DEF IInv, TypeOK, Slots, Piece
<1>n. Len(pending) \in Nat /\ Len(held) \in Nat
  BY <1>2
<1>r. RingInv /\ ContentInv /\ WaitInv
  BY DEF IInv
<1>7. /\ \A i \in 1..Len(pending) : pending[i].idx # writeIdx
      /\ \A i \in 1..Len(held) : held[i].idx # writeIdx
  BY <1>1, WriteIdxFree DEF HasRoom
<1>8. RingInv'
  <2>1. \A d \in 1..(Entries - 1) : Back(writeIdx', d + 1) = Back(writeIdx, d)
    BY <1>2, <1>5 DEF Back, Slots
  <2>2. Len(held') <= checkedOut' /\ checkedOut' + Len(pending') <= Entries
    BY <1>1, <1>2, <1>4, <1>n, <1>r DEF RingInv
  <2>3. ASSUME NEW i \in 1..Len(pending') PROVE pending'[i].idx = Back(writeIdx', Len(pending') - i + 1)
    <3>1. CASE i = Len(pending) + 1
      <4>1. pending'[i].idx = writeIdx
        BY <3>1, <1>4
      <4>2. Back(writeIdx', 1) = writeIdx
        BY <1>2, <1>5 DEF Back, Slots
      <4>3. Len(pending') - i + 1 = 1
        BY <3>1, <1>4, <1>n
      <4> QED BY <4>1, <4>2, <4>3
    <3>2. CASE i # Len(pending) + 1
      <4>1. i \in 1..Len(pending)
        BY <3>2, <2>3, <1>4, <1>n
      <4> DEFINE d == Len(pending) - i + 1
      <4>2. d \in 1..(Entries - 1) /\ Len(pending') - i + 1 = d + 1
        BY <4>1, <1>1, <1>2, <1>4, <1>n
      <4>3. pending'[i].idx = Back(writeIdx, d)
        BY <4>1, <1>4, <1>r DEF RingInv
      <4>4. Back(writeIdx', d + 1) = Back(writeIdx, d)
        BY <4>2, <2>1
      <4> QED BY <4>2, <4>3, <4>4
    <3> QED BY <3>1, <3>2
  <2>4. ASSUME NEW i \in 1..Len(held')
        PROVE  held'[i].idx = Back(writeIdx', Len(pending') + Len(held') - i + 1)
    <3> DEFINE d == Len(pending) + Len(held) - i + 1
    <3>1. i \in 1..Len(held) /\ held' = held
      BY <2>4, <1>1
    <3>2. d \in 1..(Entries - 1) /\ Len(pending') + Len(held') - i + 1 = d + 1
      BY <3>1, <1>1, <1>2, <1>4, <1>n, <1>r DEF RingInv
    <3>3. held'[i].idx = Back(writeIdx, d)
      BY <3>1, <1>r DEF RingInv
    <3>4. Back(writeIdx', d + 1) = Back(writeIdx, d)
      BY <3>2, <2>1
    <3> QED BY <3>2, <3>3, <3>4
  <2> QED BY <2>2, <2>3, <2>4 DEF RingInv
<1>9. /\ \A i \in 1..Len(pending) : slot'[pending[i].idx] = slot[pending[i].idx]
      /\ \A i \in 1..Len(held) : slot'[held[i].idx] = slot[held[i].idx]
      /\ slot'[writeIdx] = rcvd
  BY <1>0, <1>2, <1>7, SMTT(30) DEF Piece
<1>10. ContentInv'
  <2>1. \A i \in 1..Len(pending) : /\ slot[pending[i].idx] \in 0..MaxBytes
                                   /\ pending[i].len \in 1..EntrySize
    BY <1>2, PieceFields
  <2>2. \A i \in 1..(Len(held') - 1) :
          slot'[held'[i + 1].idx] = slot'[held'[i].idx] + held'[i].len
    <3>1. held' = held
      BY <1>1
    <3>2. SUFFICES ASSUME NEW i \in 1..(Len(held) - 1)
          PROVE slot'[held[i + 1].idx] = slot'[held[i].idx] + held[i].len
      BY <3>1
    <3>3. i \in 1..Len(held) /\ i + 1 \in 1..Len(held)
      BY <1>n
    <3>4. slot[held[i + 1].idx] = slot[held[i].idx] + held[i].len
      BY <1>r DEF ContentInv
    <3>5. slot'[held[i + 1].idx] = slot[held[i + 1].idx] /\ slot'[held[i].idx] = slot[held[i].idx]
      BY <3>3, <1>9
    <3> QED BY <3>4, <3>5
  <2>3. \A i \in 1..(Len(pending') - 1) :
          slot'[pending'[i + 1].idx] = slot'[pending'[i].idx] + pending'[i].len
    <3>1. ASSUME NEW i \in 1..(Len(pending) - 1)
          PROVE slot'[pending'[i + 1].idx] = slot'[pending'[i].idx] + pending'[i].len
      BY <1>4, <1>9, <1>n, <1>r, SMTT(30) DEF ContentInv
    <3>2. ASSUME Len(pending) > 0
          PROVE slot'[pending'[Len(pending) + 1].idx]
                  = slot'[pending'[Len(pending)].idx] + pending'[Len(pending)].len
      BY <3>2, <1>4, <1>9, <1>n, <1>r DEF ContentInv
    <3> QED BY <3>1, <3>2, <1>4, <1>n
  <2>4. \A i \in 1..Len(pending') : slot'[pending'[i].idx] + pending'[i].len <= rcvd'
    <3>1. ASSUME NEW i \in 1..Len(pending) PROVE slot'[pending'[i].idx] + pending'[i].len <= rcvd'
      <4>1. slot[pending[i].idx] + pending[i].len <= rcvd
        BY <1>r DEF ContentInv
      <4>2. slot'[pending'[i].idx] = slot[pending[i].idx] /\ pending'[i] = pending[i]
        BY <1>4, <1>9
      <4> QED BY <4>1, <4>2, <2>1, <1>0, <1>2
    <3>2. slot'[pending'[Len(pending) + 1].idx] + pending'[Len(pending) + 1].len <= rcvd'
      BY <1>0, <1>2, <1>4, <1>9
    <3> QED BY <3>1, <3>2, <1>4, <1>n
  <2>5. Len(held') > 0 => slot'[held'[Len(held')].idx] + held'[Len(held')].len = delivered'
    BY <1>1, <1>9, <1>n, <1>r DEF ContentInv
  <2>6. slot'[pending'[1].idx] = delivered'
    <3>1. CASE Len(pending) = 0
      BY <3>1, <1>1, <1>4, <1>9, <1>r DEF ContentInv
    <3>2. CASE Len(pending) > 0
      BY <3>2, <1>1, <1>4, <1>9, <1>n, <1>r DEF ContentInv
    <3> QED BY <3>1, <3>2, <1>n
  <2>7. slot'[pending'[Len(pending')].idx] + pending'[Len(pending')].len = rcvd'
    BY <1>0, <1>4, <1>9
  <2>8. Len(pending') # 0
    BY <1>4, <1>n
  <2> QED BY <2>2, <2>3, <2>4, <2>5, <2>6, <2>7, <2>8 DEF ContentInv
<1>11. WaitInv'
  BY <1>1, <1>0, <1>r DEF WaitInv
<1> QED BY <1>6, <1>8, <1>10, <1>11 DEF IInv

\* Handing out a batch moves chunks from pending to held and writes no slot.
LEMMA TakeBatchIInv ==
  ASSUME IInv, NEW ask, NEW base \in {0, checkedOut},
         TakeBatch(ask, base),
         base = 0 \/ reader = "waiting",
         UNCHANGED <<sent, peer, rcvd, slot, writeIdx>>
  PROVE  /\ RingInv' /\ ContentInv'
         /\ pending' \in Seq(Piece) /\ held' \in Seq(Piece)
         /\ checkedOut' \in 0..Entries
         /\ delivered' \in 0..sent
         /\ reader' \in {"running", "over"}
<1> USE LibcAssumption
<1>1. /\ pending \in Seq(Piece) /\ held \in Seq(Piece)
      /\ writeIdx \in Slots /\ rcvd \in 0..sent /\ sent \in 0..MaxBytes
      /\ slot \in [Slots -> 0..MaxBytes]
      /\ checkedOut \in 0..Entries
      /\ delivered \in 0..sent
      /\ RingInv /\ ContentInv /\ WaitInv
  BY DEF IInv, TypeOK, Piece
<1>2. base = 0
  BY <1>1 DEF WaitInv
<1>u. slot' = slot /\ rcvd' = rcvd /\ writeIdx' = writeIdx /\ sent' = sent
  OBVIOUS
<1>t. \A i \in 1..Len(pending) : /\ slot[pending[i].idx] \in 0..MaxBytes
                                 /\ pending[i].len \in 1..EntrySize
  BY <1>1, PieceFields
<1>n. Len(pending) \in Nat /\ Len(held) \in Nat /\ Len(pending) <= Entries
  BY <1>1 DEF RingInv
<1>3. CASE pending # <<>>
  <2>0. PICK k \in BatchSizes(pending, ask.cap, ask.max) :
          /\ held' = SubSeq(pending, 1, k)
          /\ pending' = Remaining(pending, k)
          /\ checkedOut' = base + k
          /\ delivered' = slot[pending[k].idx] + pending[k].len
    BY <1>3 DEF TakeBatch
  <2>1. k \in 1..Len(pending)
    BY BatchSizesRange
  <2>2. /\ held' \in Seq(Piece)
        /\ Len(held') = k
        /\ \A i \in 1..k : held'[i] = pending[i]
        /\ pending' \in Seq(Piece)
        /\ Len(pending') = Len(pending) - k
        /\ \A i \in 1..(Len(pending) - k) : pending'[i] = pending[i + k]
    BY <1>1, <2>0, <2>1, SplitQueue, ZenonT(60)
  <2>3. checkedOut' = k
    BY <1>2, <2>0, <2>1, <1>n
  <2>4. RingInv'
    <3>2. ASSUME NEW i \in 1..Len(pending')
          PROVE  pending'[i].idx = Back(writeIdx', Len(pending') - i + 1)
      <4>1. i + k \in 1..Len(pending) /\ i \in 1..(Len(pending) - k)
        BY <2>1, <2>2, <1>n
      <4>2. Len(pending) - (i + k) + 1 = Len(pending') - i + 1
        BY <2>1, <2>2, <1>n
      <4>3. pending[i + k].idx = Back(writeIdx, Len(pending) - (i + k) + 1)
        BY <4>1, <1>1 DEF RingInv
      <4> QED BY <4>1, <4>2, <4>3, <1>u, <2>2
    <3>3. ASSUME NEW i \in 1..Len(held')
          PROVE  held'[i].idx = Back(writeIdx', Len(pending') + Len(held') - i + 1)
      <4>1. i \in 1..Len(pending) /\ i \in 1..k
        BY <2>1, <2>2, <1>n
      <4>2. Len(pending') + Len(held') - i + 1 = Len(pending) - i + 1
        BY <2>1, <2>2, <1>n
      <4>3. pending[i].idx = Back(writeIdx, Len(pending) - i + 1)
        BY <4>1, <1>1 DEF RingInv
      <4> QED BY <4>1, <4>2, <4>3, <1>u, <2>2
    <3> QED BY <2>1, <2>2, <2>3, <3>2, <3>3, <1>n DEF RingInv
  <2>5. ContentInv'
    <3> USE <1>n, <1>u, <2>1, <2>2
    <3>1. \A i \in 1..(Len(held') - 1) :
            slot'[held'[i + 1].idx] = slot'[held'[i].idx] + held'[i].len
      <4> TAKE i \in 1..(Len(held') - 1)
      <4>1. i \in 1..(Len(pending) - 1) /\ i \in 1..k /\ i + 1 \in 1..k
        OBVIOUS
      <4> QED BY <4>1, <1>1 DEF ContentInv
    <3>2. \A i \in 1..(Len(pending') - 1) :
            slot'[pending'[i + 1].idx] = slot'[pending'[i].idx] + pending'[i].len
      <4> TAKE i \in 1..(Len(pending') - 1)
      <4>1. i + k \in 1..(Len(pending) - 1) /\ (i + 1) + k = (i + k) + 1
            /\ i \in 1..(Len(pending) - k) /\ i + 1 \in 1..(Len(pending) - k)
        OBVIOUS
      <4>2. slot[pending[(i + k) + 1].idx] = slot[pending[i + k].idx] + pending[i + k].len
        BY <4>1, <1>1 DEF ContentInv
      <4>3. pending'[i] = pending[i + k] /\ pending'[i + 1] = pending[(i + k) + 1]
        BY <4>1
      <4> QED BY <4>2, <4>3
    <3>3. \A i \in 1..Len(pending') : slot'[pending'[i].idx] + pending'[i].len <= rcvd'
      <4> TAKE i \in 1..Len(pending')
      <4>1. i \in 1..(Len(pending) - k) /\ i + k \in 1..Len(pending)
        OBVIOUS
      <4> QED BY <4>1, <1>1 DEF ContentInv
    <3>4. Len(held') > 0 => slot'[held'[Len(held')].idx] + held'[Len(held')].len = delivered'
      BY <2>0
    <3>5. CASE Len(pending') = 0
      <4>1. k = Len(pending)
        BY <3>5
      <4>2. delivered' = rcvd'
        BY <4>1, <2>0, <1>1 DEF ContentInv
      <4> QED BY <3>5, <4>2, <3>1, <3>2, <3>3, <3>4 DEF ContentInv
    <3>6. CASE Len(pending') > 0
      <4>1. k \in 1..(Len(pending) - 1) /\ 1 \in 1..(Len(pending) - k) /\ 1 + k = k + 1
        BY <3>6
      <4>2. slot'[pending'[1].idx] = delivered'
        <5>1. pending'[1] = pending[k + 1]
          BY <4>1
        <5>2. slot[pending[k + 1].idx] = slot[pending[k].idx] + pending[k].len
          BY <4>1, <1>1 DEF ContentInv
        <5> QED BY <5>1, <5>2, <2>0
      <4>3. (Len(pending) - k) + k = Len(pending) /\ Len(pending) - k \in 1..(Len(pending) - k)
        BY <3>6
      <4>4. slot'[pending'[Len(pending')].idx] + pending'[Len(pending')].len = rcvd'
        <5>1. pending'[Len(pending) - k] = pending[(Len(pending) - k) + k]
          BY <4>3
        <5>2. slot[pending[Len(pending)].idx] + pending[Len(pending)].len = rcvd
          BY <3>6, <1>1 DEF ContentInv
        <5> QED BY <5>1, <5>2, <4>3
      <4> QED BY <3>6, <4>2, <4>4, <3>1, <3>2, <3>3, <3>4 DEF ContentInv
    <3> QED BY <3>5, <3>6
  <2>6. delivered' \in 0..sent
    <3>1. slot[pending[k].idx] + pending[k].len <= rcvd
      BY <2>1, <1>1 DEF ContentInv
    <3>2. slot[pending[k].idx] \in 0..MaxBytes /\ pending[k].len \in 1..EntrySize
      BY <2>1, <1>t
    <3>3. rcvd \in 0..sent /\ sent \in 0..MaxBytes
      BY <1>1
    <3>4. delivered' = slot[pending[k].idx] + pending[k].len
      BY <2>0
    <3> QED BY <3>1, <3>2, <3>3, <3>4
  <2> QED BY <1>3, <2>1, <2>2, <2>3, <2>4, <2>5, <2>6, <1>n DEF TakeBatch
<1>4. CASE pending = <<>>
  <2>1. /\ held' = <<>> /\ checkedOut' = 0 /\ reader' = "over"
        /\ pending' = <<>> /\ delivered' = delivered
    BY <1>2, <1>4 DEF TakeBatch
  <2>2. RingInv' /\ ContentInv'
    BY <2>1, <1>1, <1>4 DEF RingInv, ContentInv
  <2> QED BY <2>1, <2>2, <1>1
<1> QED BY <1>3, <1>4

-----------------------------------------------------------------------------
(* The other actions write no slot. *)

\* What an action must keep for IInv, when it changes neither ring nor queue.
LEMMA KeepRing ==
  ASSUME IInv,
         UNCHANGED <<rcvd, slot, pending, checkedOut, writeIdx, held, delivered>>
  PROVE  RingInv' /\ ContentInv'
BY DEF IInv, RingInv, ContentInv

\* The peer touches only what it sent and how it ended.
LEMMA PeerIInv == IInv /\ (PeerSend \/ PeerEnd) => IInv'
<1> USE LibcAssumption
<1>1. ASSUME IInv, PeerSend PROVE IInv'
  <2>1. PICK n \in 1..(MaxBytes - sent) : sent' = sent + n
    BY <1>1 DEF PeerSend
  <2>2. UNCHANGED <<peer, rcvd, slot, pending, checkedOut, writeIdx, eof, error,
                    registered, phase, reader, asked, held, delivered, cancelled>>
    BY <1>1 DEF PeerSend, streamVars, readerVars
  <2>3. sent \in 0..MaxBytes /\ rcvd \in 0..sent /\ delivered \in 0..sent
    BY <1>1 DEF IInv, TypeOK
  <2>4. sent' \in 0..MaxBytes /\ rcvd \in 0..sent' /\ delivered \in 0..sent'
    BY <2>1, <2>3
  <2>5. TypeOK'
    BY <1>1, <2>2, <2>4 DEF IInv, TypeOK
  <2>6. RingInv' /\ ContentInv'
    BY <1>1, <2>2, KeepRing
  <2>7. WaitInv'
    BY <1>1, <2>2 DEF IInv, WaitInv
  <2> QED BY <2>5, <2>6, <2>7 DEF IInv
<1>2. ASSUME IInv, PeerEnd PROVE IInv'
  <2>1. UNCHANGED <<sent, rcvd, slot, pending, checkedOut, writeIdx, eof, error,
                    registered, phase, reader, asked, held, delivered, cancelled>>
    BY <1>2 DEF PeerEnd, streamVars, readerVars
  <2>2. TypeOK'
    BY <1>2, <2>1 DEF IInv, TypeOK, PeerEnd
  <2>3. RingInv' /\ ContentInv'
    BY <1>2, <2>1, KeepRing
  <2>4. WaitInv'
    BY <1>2, <2>1 DEF IInv, WaitInv
  <2> QED BY <2>2, <2>3, <2>4 DEF IInv
<1> QED BY <1>1, <1>2

\* on_ready()'s steps other than a recv() that returns bytes and the wakeup.
LEMMA LoopIInv == IInv /\ (PollReady \/ RecvAgain \/ RecvEof \/ RecvError \/ LoopExit) => IInv'
<1> SUFFICES ASSUME IInv, PollReady \/ RecvAgain \/ RecvEof \/ RecvError \/ LoopExit
             PROVE  IInv'
  OBVIOUS
<1>1. /\ UNCHANGED <<sent, peer, rcvd, slot, pending, checkedOut, writeIdx, registered,
                     reader, asked, held, delivered, cancelled>>
      /\ phase' \in {"drain", "wake"}
  BY DEF PollReady, RecvAgain, RecvEof, RecvError, LoopExit, peerVars, streamVars, readerVars
<1>2. /\ eof' \in BOOLEAN /\ error' \in {"none", "reset", "cancelled"}
      /\ eof => eof'
      /\ error # "none" => error' # "none"
  BY DEF IInv, TypeOK, PollReady, RecvAgain, RecvEof, RecvError, LoopExit, streamVars
<1>3. TypeOK'
  BY <1>1, <1>2 DEF IInv, TypeOK
<1>4. RingInv' /\ ContentInv'
  BY <1>1, KeepRing
<1>5. WaitInv'
  BY <1>1, <1>2 DEF IInv, WaitInv
<1> QED BY <1>3, <1>4, <1>5 DEF IInv

\* The end of on_ready() tells a waiter everything before phase is idle again.
LEMMA WakeIInv == IInv /\ Wake => IInv'
<1> SUFFICES ASSUME IInv, Wake PROVE IInv'
  OBVIOUS
<1>1. /\ UNCHANGED <<sent, peer, rcvd, slot, writeIdx, eof, error, registered, cancelled>>
      /\ phase' = "idle"
  BY DEF Wake, peerVars
<1>2. CASE reader = "waiting" /\ HasResult
  <2>1. TakeBatch(asked, checkedOut) /\ asked' = asked
    BY <1>2 DEF Wake
  <2>2. /\ RingInv' /\ ContentInv'
        /\ pending' \in Seq(Piece) /\ held' \in Seq(Piece)
        /\ checkedOut' \in 0..Entries
        /\ delivered' \in 0..sent
        /\ reader' \in {"running", "over"}
    BY <1>1, <1>2, <2>1, TakeBatchIInv
  <2>3. TypeOK'
    BY <1>1, <2>1, <2>2 DEF IInv, TypeOK, Piece
  <2>4. WaitInv'
    BY <1>1, <1>2, <2>2 DEF IInv, WaitInv
  <2> QED BY <2>2, <2>3, <2>4 DEF IInv
<1>3. CASE ~(reader = "waiting" /\ HasResult)
  <2>1. UNCHANGED <<pending, checkedOut, reader, asked, held, delivered>>
    BY <1>3 DEF Wake, readerVars
  <2>2. TypeOK'
    BY <1>1, <2>1 DEF IInv, TypeOK
  <2>3. RingInv' /\ ContentInv'
    BY <1>1, <2>1, KeepRing
  <2>4. WaitInv'
    BY <1>1, <1>3, <2>1 DEF IInv, WaitInv, HasResult
  <2> QED BY <2>2, <2>3, <2>4 DEF IInv
<1> QED BY <1>2, <1>3

\* A call gives the held slots back, then takes a batch or suspends.
LEMMA NextBatchIInv == IInv /\ NextBatch => IInv'
<1> USE LibcAssumption
<1>1. ASSUME IInv, NextBatchReady PROVE IInv'
  <2>1. PICK ask \in Asks : TakeBatch(ask, 0)
    BY <1>1 DEF NextBatchReady, ReturnCheckedOut
  <2>2. UNCHANGED <<sent, peer, rcvd, slot, writeIdx, eof, error, registered, phase,
                    asked, cancelled>>
    BY <1>1 DEF NextBatchReady, peerVars
  <2>3. /\ RingInv' /\ ContentInv'
        /\ pending' \in Seq(Piece) /\ held' \in Seq(Piece)
        /\ checkedOut' \in 0..Entries
        /\ delivered' \in 0..sent
        /\ reader' \in {"running", "over"}
    BY <1>1, <2>1, <2>2, TakeBatchIInv
  <2>4. TypeOK'
    BY <1>1, <2>2, <2>3 DEF IInv, TypeOK, Piece
  <2>5. WaitInv'
    BY <1>1, <2>2, <2>3 DEF IInv, WaitInv, NextBatchReady
  <2> QED BY <2>3, <2>4, <2>5 DEF IInv
<1>2. ASSUME IInv, NextBatchSuspend PROVE IInv'
  <2>1. /\ UNCHANGED <<sent, peer, rcvd, slot, pending, writeIdx, eof, error,
                       registered, phase, delivered, cancelled>>
        /\ asked' \in Asks /\ checkedOut' = 0 /\ held' = <<>> /\ reader' = "waiting"
        /\ ~HasResult /\ phase = "idle" /\ reader = "running"
    BY <1>2 DEF NextBatchSuspend, ReturnCheckedOut, peerVars
  <2>2. TypeOK'
    BY <1>2, <2>1 DEF IInv, TypeOK
  <2>3. RingInv' /\ ContentInv'
    BY <1>2, <2>1 DEF IInv, TypeOK, RingInv, ContentInv, HasResult
  <2>4. registered
    BY <1>2, <2>1 DEF IInv, WaitInv, HasResult
  <2>5. WaitInv'
    BY <2>1, <2>4 DEF WaitInv, HasResult
  <2> QED BY <2>2, <2>3, <2>5 DEF IInv
<1> QED BY <1>1, <1>2 DEF NextBatch

\* cancel_fd() resumes a suspended reader; the fd is no longer polled.
LEMMA CancelIInv == IInv /\ Cancel => IInv'
<1> SUFFICES ASSUME IInv, Cancel PROVE IInv'
  OBVIOUS
<1>1. /\ UNCHANGED <<sent, peer, rcvd, slot, writeIdx, eof, phase>>
      /\ registered' = FALSE /\ cancelled' = TRUE
      /\ error' = IF error = "none" /\ ~eof THEN "cancelled" ELSE error
  BY DEF Cancel, peerVars
<1>2. /\ error' \in {"none", "reset", "cancelled"}
      /\ error' # "none" \/ eof'
      /\ registered' \in BOOLEAN /\ cancelled' \in BOOLEAN
  BY <1>1 DEF IInv, TypeOK
<1>3. CASE reader = "waiting"
  <2>1. TakeBatch(asked, checkedOut) /\ asked' = asked
    BY <1>3 DEF Cancel
  <2>2. /\ RingInv' /\ ContentInv'
        /\ pending' \in Seq(Piece) /\ held' \in Seq(Piece)
        /\ checkedOut' \in 0..Entries
        /\ delivered' \in 0..sent
        /\ reader' \in {"running", "over"}
    BY <1>1, <1>3, <2>1, TakeBatchIInv
  <2>3. TypeOK'
    BY <1>1, <1>2, <2>1, <2>2 DEF IInv, TypeOK, Piece
  <2>4. WaitInv'
    BY <1>2, <2>2 DEF WaitInv
  <2> QED BY <2>2, <2>3, <2>4 DEF IInv
<1>4. CASE reader # "waiting"
  <2>1. UNCHANGED <<pending, checkedOut, reader, asked, held, delivered>>
    BY <1>4 DEF Cancel, readerVars
  <2>2. TypeOK'
    BY <1>1, <1>2, <2>1 DEF IInv, TypeOK
  <2>3. RingInv' /\ ContentInv'
    BY <1>1, <2>1, KeepRing
  <2>4. WaitInv'
    BY <1>2, <1>4, <2>1 DEF WaitInv
  <2> QED BY <2>2, <2>3, <2>4 DEF IInv
<1> QED BY <1>3, <1>4

\* The destructor.
LEMMA DestroyIInv == IInv /\ Destroy => IInv'
<1> SUFFICES ASSUME IInv, Destroy PROVE IInv'
  OBVIOUS
<1> USE LibcAssumption
<1>1. /\ UNCHANGED <<sent, peer, rcvd, slot, pending, checkedOut, writeIdx, eof, error,
                     phase, asked, delivered, cancelled>>
      /\ reader' = "gone" /\ held' = <<>> /\ registered' = FALSE
  BY DEF Destroy, peerVars
<1>b. registered' \in BOOLEAN
  BY <1>1
<1>2. TypeOK'
  BY <1>1, <1>b DEF IInv, TypeOK
<1>3. RingInv' /\ ContentInv'
  BY <1>1 DEF IInv, TypeOK, RingInv, ContentInv
<1>4. WaitInv'
  BY <1>1 DEF WaitInv
<1> QED BY <1>2, <1>3, <1>4 DEF IInv

\* A step that changes nothing preserves the invariant.
LEMMA StutterIInv == IInv /\ UNCHANGED vars => IInv'
BY DEF IInv, TypeOK, RingInv, ContentInv, WaitInv, vars

\* IInv is inductive.
LEMMA StepIInv == IInv /\ [Next]_vars => IInv'
<1> SUFFICES ASSUME IInv, [Next]_vars PROVE IInv'
  OBVIOUS
<1>1. CASE PeerSend \/ PeerEnd
  BY <1>1, PeerIInv
<1>2. CASE PollReady \/ RecvAgain \/ RecvEof \/ RecvError \/ LoopExit
  BY <1>2, LoopIInv
<1>3. CASE RecvData
  BY <1>3, RecvDataIInv
<1>4. CASE Wake
  BY <1>4, WakeIInv
<1>5. CASE NextBatch
  BY <1>5, NextBatchIInv
<1>6. CASE Cancel
  BY <1>6, CancelIInv
<1>7. CASE Destroy
  BY <1>7, DestroyIInv
<1>8. CASE UNCHANGED vars
  BY <1>8, StutterIInv
<1> QED BY <1>1, <1>2, <1>3, <1>4, <1>5, <1>6, <1>7, <1>8 DEF Next, OnReady

\* The inductive invariant holds in every reachable state of on_ready(),
\* next_batch(), cancel() and the destructor interleaved.
LEMMA Inductive == Spec => []IInv
<1> QED BY InitIInv, StepIInv, PTL DEF Spec

-----------------------------------------------------------------------------
(* The theorems. *)

\* The variables of the stream keep their types; in particular the bytes
\* delivered never exceed the bytes sent and writeIdx stays inside the ring.
THEOREM TypeCorrect == Spec => []TypeOK
<1>1. IInv => TypeOK
  BY DEF IInv
<1> QED BY <1>1, Inductive, PTL

\* The chunks in the reader's hands and in the queue are never overwritten by
\* on_ready() and are, in order, the end of what was received.
THEOREM LiveIntactHolds == Spec => []LiveIntact
<1>1. ASSUME IInv PROVE LiveIntact
  <2>1. /\ held \in Seq(Piece) /\ pending \in Seq(Piece)
        /\ Len(held) \in Nat /\ Len(pending) \in Nat
        /\ ContentInv
    BY <1>1 DEF IInv, TypeOK, Piece
  <2>2. /\ Len(Live) = Len(held) + Len(pending)
        /\ \A i \in 1..Len(held) : Live[i] = held[i]
        /\ \A i \in 1..Len(pending) : Live[Len(held) + i] = pending[i]
    BY <2>1 DEF Live
  <2>3. ASSUME NEW i \in 1..(Len(Live) - 1)
        PROVE  slot[Live[i + 1].idx] = slot[Live[i].idx] + Live[i].len
    <3>1. CASE i < Len(held)
      <4>1. i \in 1..Len(held) /\ i + 1 \in 1..Len(held) /\ i \in 1..(Len(held) - 1)
        BY <3>1, <2>1, <2>2
      <4>2. Live[i] = held[i] /\ Live[i + 1] = held[i + 1]
        BY <4>1, <2>2
      <4> QED BY <4>1, <4>2, <2>1 DEF ContentInv
    <3>2. CASE i = Len(held)
      <4>1. i \in 1..Len(held) /\ 1 \in 1..Len(pending)
        BY <3>2, <2>1, <2>2
      <4>2. Live[i] = held[Len(held)] /\ Live[i + 1] = pending[1]
        BY <3>2, <4>1, <2>2
      <4>3. Len(held) > 0 /\ Len(pending) > 0
        BY <4>1, <2>1
      <4> QED BY <4>2, <4>3, <2>1 DEF ContentInv
    <3>3. CASE i > Len(held)
      <4> DEFINE j == i - Len(held)
      <4>1. j \in 1..Len(pending) /\ j + 1 \in 1..Len(pending)
            /\ j \in 1..(Len(pending) - 1)
            /\ Len(held) + j = i /\ Len(held) + (j + 1) = i + 1
        BY <3>3, <2>1, <2>2
      <4>2. Live[i] = pending[j] /\ Live[i + 1] = pending[j + 1]
        BY <4>1, <2>2
      <4> HIDE DEF j
      <4> QED BY <4>1, <4>2, <2>1 DEF ContentInv
    <3> QED BY <3>1, <3>2, <3>3, <2>1, <2>2
  <2>4. Live # <<>> => slot[Live[Len(Live)].idx] + Live[Len(Live)].len = rcvd
    <3> SUFFICES ASSUME Live # <<>>
                 PROVE  slot[Live[Len(Live)].idx] + Live[Len(Live)].len = rcvd
      OBVIOUS
    <3>0. Len(held) + Len(pending) > 0
      <4>1. CASE Len(held) = 0 /\ Len(pending) = 0
        <5>1. held = <<>> /\ pending = <<>>
          BY <4>1, <2>1
        <5> QED BY <5>1 DEF Live
      <4> QED BY <4>1, <2>1
    <3>1. CASE Len(pending) > 0
      <4>1. Len(pending) \in 1..Len(pending) /\ Len(Live) = Len(held) + Len(pending)
        BY <3>1, <2>1, <2>2
      <4>2. Live[Len(Live)] = pending[Len(pending)]
        BY <4>1, <2>2
      <4> QED BY <3>1, <4>2, <2>1 DEF ContentInv
    <3>2. CASE Len(pending) = 0
      <4>1. Len(held) \in 1..Len(held) /\ Len(Live) = Len(held) /\ Len(held) > 0
        BY <3>0, <3>2, <2>1, <2>2
      <4>2. Live[Len(Live)] = held[Len(held)]
        BY <4>1, <2>2
      <4> QED BY <3>2, <4>1, <4>2, <2>1 DEF ContentInv
    <3> QED BY <3>1, <3>2, <2>1
  <2>5. /\ pending = <<>> => delivered = rcvd
        /\ pending # <<>> => slot[pending[1].idx] = delivered
    <3>1. pending = <<>> <=> Len(pending) = 0
      BY <2>1
    <3> QED BY <3>1, <2>1 DEF ContentInv
  <2> QED BY <2>3, <2>4, <2>5 DEF LiveIntact
<1> QED BY <1>1, Inductive, PTL

\* A reader is never left suspended on a stream that has something for it, or
\* whose ring is full, or that is no longer polled.
THEOREM NoLostWakeupHolds == Spec => []NoLostWakeup
<1>1. ASSUME IInv PROVE NoLostWakeup
  BY <1>1, LibcAssumption DEF IInv, WaitInv, NoLostWakeup, HasResult, HasRoom
<1> QED BY <1>1, Inductive, PTL

\* A reader that was told of the end left nothing pending, and the stream has a
\* reason to receive no more.
OverInv == reader = "over" => pending = <<>> /\ (eof \/ error # "none")

\* OverInv is inductive: on_ready() receives nothing once there is an end or an
\* error, and _take_batch() reports either only with nothing pending.
LEMMA StepOverInv == IInv /\ OverInv /\ [Next]_vars => OverInv'
<1> SUFFICES ASSUME IInv, OverInv, [Next]_vars PROVE OverInv'
  OBVIOUS
<1> USE DEF OverInv, peerVars, streamVars, readerVars
<1>1. CASE PeerSend \/ PeerEnd \/ PollReady
  BY <1>1 DEF PeerSend, PeerEnd, PollReady
<1>2. CASE RecvData
  BY <1>2 DEF RecvData, LoopGuard
<1>3. CASE RecvAgain \/ RecvEof \/ RecvError \/ LoopExit
  BY <1>3 DEF RecvAgain, RecvEof, RecvError, LoopExit
<1>4. ASSUME NEW ask, NEW out, TakeBatch(ask, out), reader' = "over"
      PROVE  pending = <<>> /\ pending' = <<>>
  BY <1>4 DEF TakeBatch
<1>5. CASE Wake
  <2>1. CASE reader = "waiting" /\ HasResult
    BY <1>4, <1>5, <2>1 DEF Wake, HasResult
  <2>2. CASE ~(reader = "waiting" /\ HasResult)
    BY <1>5, <2>2 DEF Wake
  <2> QED BY <2>1, <2>2
<1>6. CASE NextBatchReady
  BY <1>4, <1>6 DEF NextBatchReady, HasResult
<1>7. CASE NextBatchSuspend \/ Destroy
  BY <1>7 DEF NextBatchSuspend, Destroy
<1>8. CASE Cancel
  <2>1. eof' = eof /\ (eof \/ error' # "none")
    BY <1>8 DEF Cancel
  <2>2. CASE reader = "waiting"
    BY <1>4, <1>8, <2>1, <2>2 DEF Cancel
  <2>3. CASE reader # "waiting"
    BY <1>8, <2>1, <2>3 DEF Cancel
  <2> QED BY <2>2, <2>3
<1>9. CASE UNCHANGED vars
  BY <1>9 DEF vars
<1> QED BY <1>1, <1>2, <1>3, <1>5, <1>6, <1>7, <1>8, <1>9 DEF Next, OnReady, NextBatch

\* Neither the end of the connection nor a cancellation overtakes data: the reader
\* learns of it when it was given everything ::recv() had returned.
THEOREM EndAfterDataHolds == Spec => []EndAfterData
<1>1. Init => OverInv
  BY DEF Init, OverInv
<1>2. ASSUME IInv, OverInv PROVE EndAfterData
  BY <1>2 DEF IInv, ContentInv, OverInv, EndAfterData
<1> QED BY <1>1, <1>2, StepOverInv, Inductive, PTL DEF Spec

-----------------------------------------------------------------------------
(* The contract. *)

\* The bytes in the reader's hands, as the contract sees them.
View == [i \in 1..Len(held) |-> [pos |-> slot[held[i].idx], len |-> held[i].len]]

(***************************************************************************)
(* Why the stream has ended: end of file is only seen when everything sent *)
(* was received, and an error has its cause.                               *)
(***************************************************************************)
EndInv ==
  /\ eof => peer = "closed" /\ rcvd = sent
  /\ error = "reset" => peer = "reset"
  /\ error = "cancelled" => cancelled

\* EndInv is inductive: a peer that has ended sends nothing more.
LEMMA StepEndInv == EndInv /\ [Next]_vars => EndInv'
<1> SUFFICES ASSUME EndInv, [Next]_vars PROVE EndInv'
  OBVIOUS
<1> USE DEF EndInv, peerVars, streamVars, readerVars
<1>1. CASE PeerSend \/ PeerEnd
  BY <1>1 DEF PeerSend, PeerEnd
<1>2. CASE OnReady \/ PollReady
  BY <1>2 DEF OnReady, PollReady, RecvData, RecvAgain, RecvEof, RecvError, LoopExit,
              Wake, LoopGuard
<1>3. CASE NextBatch \/ Destroy
  BY <1>3 DEF NextBatch, NextBatchReady, NextBatchSuspend, Destroy
<1>4. CASE Cancel
  BY <1>4 DEF Cancel
<1>5. CASE UNCHANGED vars
  BY <1>5 DEF vars
<1> QED BY <1>1, <1>2, <1>3, <1>4, <1>5 DEF Next

\* Both invariants hold throughout.
LEMMA InductiveEnd == Spec => [](IInv /\ EndInv)
<1>1. Init => EndInv
  BY DEF Init, EndInv
<1> QED BY <1>1, StepEndInv, Inductive, PTL DEF Spec

\* Where a pending chunk starts: after what was delivered and the chunks before it.
LEMMA PendingAt ==
  ASSUME IInv, NEW m \in 1..Len(pending)
  PROVE  slot[pending[m].idx] = delivered + Bytes(pending)[m - 1]
<1> DEFINE T == {i \in 1..Len(pending) :
                   slot[pending[i].idx] # delivered + Bytes(pending)[i - 1]}
<1> SUFFICES ASSUME T # {} PROVE FALSE
  OBVIOUS
<1>1. pending \in Seq(Piece) /\ Len(pending) \in Nat /\ delivered \in Nat /\ ContentInv
  BY LibcAssumption DEF IInv, TypeOK, Piece
<1>2. T \in SUBSET Nat
  BY <1>1
<1>3. PICK n \in T : \A y \in T : n <= y
  BY <1>2, LeastOf
<1>4. /\ Bytes(pending)[0] = 0
      /\ \A i \in 1..Len(pending) : Bytes(pending)[i] = Bytes(pending)[i - 1] + pending[i].len
  BY <1>1, BytesStep
<1>5. \A i \in 1..Len(pending) : pending[i].len \in Nat
  BY <1>1, PieceFields, LibcAssumption
<1>6. n # 1
  BY <1>1, <1>3, <1>4 DEF ContentInv
<1>7. /\ n - 1 \in 1..Len(pending) /\ n - 1 \in 1..(Len(pending) - 1) /\ n - 1 \notin T
      /\ (n - 1) + 1 = n /\ (n - 1) - 1 \in 0..Len(pending)
  <2>1. n \in 2..Len(pending)
    BY <1>1, <1>3, <1>6
  <2>2. n - 1 \notin T
    BY <1>2, <1>3, <2>1
  <2> HIDE DEF T
  <2> QED BY <1>1, <2>1, <2>2
<1>8. slot[pending[n - 1].idx] = delivered + Bytes(pending)[(n - 1) - 1]
  BY <1>7
<1>9. slot[pending[n].idx] = slot[pending[n - 1].idx] + pending[n - 1].len
  BY <1>1, <1>7 DEF ContentInv
<1>10. Bytes(pending)[n - 1] = Bytes(pending)[(n - 1) - 1] + pending[n - 1].len
  BY <1>4, <1>7
<1>11. Bytes(pending)[(n - 1) - 1] \in Nat
  BY <1>1, <1>5, <1>7, BytesNat
<1> QED BY <1>1, <1>3, <1>5, <1>7, <1>8, <1>9, <1>10, <1>11, SMTT(40)

\* What _take_batch() hands out is what the contract allows a call to return.
LEMMA TakeBatchReturns ==
  ASSUME IInv, EndInv, NEW ask \in Asks, NEW base, TakeBatch(ask, base), slot' = slot
  PROVE  \/ Contract!ReturnBatch(ask)
         \/ Contract!ReturnEof
         \/ pending = <<>> /\ ~eof /\ Contract!ReturnError(TRUE)
<1> USE LibcAssumption
<1>1. /\ pending \in Seq(Piece) /\ Len(pending) \in Nat
      /\ delivered \in Nat /\ rcvd \in 0..sent /\ sent \in Nat
      /\ ContentInv
  BY DEF IInv, TypeOK, Piece
<1>2. CASE pending # <<>>
  <2>0. PICK k \in BatchSizes(pending, ask.cap, ask.max) :
          /\ held' = SubSeq(pending, 1, k)
          /\ delivered' = slot[pending[k].idx] + pending[k].len
    BY <1>2 DEF TakeBatch
  <2>1. k \in 1..Len(pending) /\ k <= ask.cap /\ Bytes(pending)[k - 1] < ask.max
    BY DEF BatchSizes
  <2>2. ask.cap \in Nat /\ ask.max \in Nat
    BY DEF Asks
  <2>3. Len(held') = k /\ \A i \in 1..k : held'[i] = pending[i]
    BY <1>1, <2>0, <2>1, SplitQueue
  <2>4. /\ \A i \in 1..Len(pending) : pending[i].len \in Nat \ {0}
        /\ \A i \in 0..Len(pending) : Bytes(pending)[i] \in Nat
    BY <1>1, PieceFields, BytesNat
  <2>5. /\ Bytes(pending)[0] = 0
        /\ \A i \in 1..Len(pending) :
             Bytes(pending)[i] = Bytes(pending)[i - 1] + pending[i].len
    BY <1>1, BytesStep
  <2>6. \A i \in 1..k : slot[pending[i].idx] = delivered + Bytes(pending)[i - 1]
    BY <1>1, <2>1, PendingAt
  <2> DEFINE ends == [i \in 0..k |-> delivered + Bytes(pending)[i]]
  <2>7. \A i \in 1..k : /\ i \in 0..k /\ i - 1 \in 0..k /\ i \in 1..Len(pending)
                        /\ i - 1 \in 0..Len(pending)
    BY <1>1, <2>1
  <2>8. \A i \in 1..k : /\ ends[i - 1] = slot[pending[i].idx]
                        /\ ends[i] = ends[i - 1] + pending[i].len
                        /\ ends[i - 1] \in Nat
    <3> TAKE i \in 1..k
    <3>1. /\ ends[i - 1] = delivered + Bytes(pending)[i - 1]
          /\ ends[i] = delivered + Bytes(pending)[i]
      BY <2>7
    <3>2. Bytes(pending)[i - 1] \in Nat /\ pending[i].len \in Nat
      BY <2>4, <2>7
    <3>3. Bytes(pending)[i] = Bytes(pending)[i - 1] + pending[i].len
      BY <2>5, <2>7
    <3> HIDE DEF ends
    <3> QED BY <1>1, <2>6, <3>1, <3>2, <3>3
  <2>9. 0 \in 0..k /\ ends[0] = delivered
    BY <1>1, <2>1, <2>5
  <2>10. ends \in [0..k -> delivered..sent]
    <3>1. ASSUME NEW i \in 0..k PROVE delivered + Bytes(pending)[i] \in delivered..sent
      <4>1. CASE i = 0
        BY <4>1, <1>1, <2>5 DEF IInv, TypeOK
      <4>2. CASE i # 0
        <5>1. i \in 1..k
          BY <3>1, <4>2, <2>1
        <5>2. slot[pending[i].idx] + pending[i].len <= rcvd
          BY <5>1, <1>1, <2>7 DEF ContentInv
        <5>3. ends[i] <= rcvd /\ ends[i] = delivered + Bytes(pending)[i]
          BY <5>1, <5>2, <2>7, <2>8
        <5> QED BY <5>1, <5>3, <1>1, <2>4, <2>7
      <4> QED BY <4>1, <4>2
    <3> QED BY <3>1
  <2>11. \A i \in 1..k : ends[i - 1] < ends[i] /\ ends[i] - ends[i - 1] = pending[i].len
    <3> TAKE i \in 1..k
    <3>1. pending[i].len \in Nat \ {0}
      BY <2>4, <2>7
    <3> HIDE DEF ends
    <3> QED BY <2>8, <3>1
  <2>12. ends[k - 1] - delivered < ask.max
    <3>1. k - 1 \in 0..k /\ k - 1 \in 0..Len(pending)
      BY <1>1, <2>1
    <3> QED BY <3>1, <1>1, <2>1, <2>4
  <2>13. View' = [i \in 1..k |-> [pos |-> ends[i - 1], len |-> ends[i] - ends[i - 1]]]
    <3>1. \A i \in 1..k : /\ slot'[held'[i].idx] = ends[i - 1]
                          /\ held'[i].len = ends[i] - ends[i - 1]
      BY <2>3, <2>8, <2>11
    <3> HIDE DEF ends
    <3> QED BY <3>1, <2>3 DEF View
  <2>14. delivered' = ends[k]
    <3>1. k \in 1..k
      BY <1>1, <2>1
    <3> HIDE DEF ends
    <3> QED BY <2>0, <2>8, <3>1
  <2>15. k \in 1..ask.cap /\ reader' = "running"
    BY <1>2, <2>1, <2>2 DEF TakeBatch
  <2> HIDE DEF ends
  <2>16. Contract!GoodBatch(ends, k, ask)
    BY <2>9, <2>11, <2>12 DEF Contract!GoodBatch
  <2>17. Contract!ReturnBatch(ask)
    BY <2>10, <2>13, <2>14, <2>15, <2>16 DEF Contract!ReturnBatch, View
  <2> QED BY <2>17
<1>3. CASE pending = <<>>
  <2>1. held' = <<>> /\ reader' = "over" /\ delivered' = delivered
    BY <1>3 DEF TakeBatch
  <2>2. View' = <<>>
    BY <2>1 DEF View
  <2>3. CASE eof
    BY <2>1, <2>2, <2>3, <1>1, <1>3 DEF Contract!ReturnEof, View, EndInv, ContentInv
  <2>4. CASE ~eof
    BY <2>1, <2>2, <2>4, <1>3 DEF Contract!ReturnError, View
  <2> QED BY <2>3, <2>4
<1> QED BY <1>2, <1>3

\* Handed out because there is something to report, it is what the contract allows
\* given whether the fd was cancelled.
LEMMA ResultReturns ==
  ASSUME IInv, EndInv, NEW ask \in Asks, NEW base, TakeBatch(ask, base), slot' = slot,
         HasResult
  PROVE  Contract!Return(ask, cancelled)
<1>1. CASE pending = <<>> /\ ~eof /\ Contract!ReturnError(TRUE)
  <2>1. peer = "reset" \/ cancelled
    BY <1>1 DEF HasResult, IInv, TypeOK, EndInv
  <2>2. Contract!ReturnError(cancelled)
    BY <1>1, <2>1 DEF Contract!ReturnError
  <2> QED BY <2>2 DEF Contract!Return
<1> QED BY <1>1, TakeBatchReturns DEF Contract!Return

\* Every step of the stream is a step of the contract, or none.
LEMMA StepRefines ==
  IInv /\ EndInv /\ [Next]_vars => [Contract!Next]_(Contract!vars)
<1> SUFFICES ASSUME IInv, EndInv, [Next]_vars
             PROVE  Contract!Next \/ UNCHANGED <<sent, peer, cancelled, delivered, View,
                                                 asked, reader>>
  BY DEF Contract!vars, View
<1> USE DEF peerVars, streamVars, readerVars
<1>1. CASE PeerSend
  <2>1. UNCHANGED <<peer, cancelled, delivered, View, asked, reader>>
    BY <1>1 DEF PeerSend, View
  <2>2. Contract!PeerSend
    BY <1>1, <2>1 DEF PeerSend, Contract!PeerSend, View
  <2> QED BY <2>2 DEF Contract!Next
<1>2. CASE PeerEnd
  <2>1. UNCHANGED <<sent, cancelled, delivered, View, asked, reader>>
    BY <1>2 DEF PeerEnd, View
  <2>2. Contract!PeerEnd
    BY <1>2, <2>1 DEF PeerEnd, Contract!PeerEnd, View
  <2> QED BY <2>2 DEF Contract!Next
<1>3. CASE PollReady \/ RecvAgain \/ RecvEof \/ RecvError \/ LoopExit
  BY <1>3 DEF PollReady, RecvAgain, RecvEof, RecvError, LoopExit, View
<1>4. CASE RecvData
  <2>1. /\ UNCHANGED <<sent, peer, cancelled, delivered, held, asked, reader>>
        /\ slot' = [slot EXCEPT ![writeIdx] = rcvd]
        /\ HasRoom
    BY <1>4 DEF RecvData, LoopGuard
  <2>2. /\ \A i \in 1..Len(held) : held[i].idx \in Slots /\ held[i].idx # writeIdx
        /\ slot \in [Slots -> 0..MaxBytes]
    BY <2>1, WriteIdxFree, PieceFields DEF IInv, TypeOK, Piece
  <2>3. \A i \in 1..Len(held) : slot'[held[i].idx] = slot[held[i].idx]
    BY <2>1, <2>2
  <2>4. View' = View
    BY <2>1, <2>3 DEF View
  <2> QED BY <2>1, <2>4
<1>5. CASE Wake
  <2>1. CASE reader = "waiting" /\ HasResult
    <3>1. /\ TakeBatch(asked, checkedOut)
          /\ UNCHANGED <<sent, peer, slot, cancelled, asked>>
      BY <1>5, <2>1 DEF Wake
    <3> PICK ask \in Asks : ask = asked
      BY DEF IInv, TypeOK
    <3>2. TakeBatch(ask, checkedOut)
      BY <3>1 DEF TakeBatch
    <3>3. Contract!Return(ask, cancelled)
      BY <2>1, <3>1, <3>2, ResultReturns
    <3>4. Contract!Return(asked, cancelled)
      BY <3>3 DEF Contract!Return, Contract!ReturnBatch, Contract!GoodBatch
    <3>5. Contract!Resume
      BY <2>1, <3>1, <3>4 DEF Contract!Resume
    <3> QED BY <3>5 DEF Contract!Next
  <2>2. CASE ~(reader = "waiting" /\ HasResult)
    BY <1>5, <2>2 DEF Wake, View
  <2> QED BY <2>1, <2>2
<1>6. CASE NextBatchReady
  <2>1. PICK ask \in Asks : TakeBatch(ask, ReturnCheckedOut)
    BY <1>6 DEF NextBatchReady
  <2>2. UNCHANGED <<sent, peer, slot, cancelled, asked>> /\ reader = "running"
    BY <1>6 DEF NextBatchReady
  <2>3. HasResult
    BY <1>6 DEF NextBatchReady
  <2>4. Contract!Return(ask, cancelled)
    BY <2>1, <2>2, <2>3, ResultReturns
  <2>5. Contract!Call(ask)
    BY <2>2, <2>4 DEF Contract!Call
  <2>6. ask \in Contract!Asks
    BY DEF Asks, Contract!Asks
  <2> QED BY <2>5, <2>6 DEF Contract!NextBatch, Contract!Next
<1>7. CASE NextBatchSuspend
  <2>1. /\ UNCHANGED <<sent, peer, cancelled, delivered>> /\ reader = "running"
        /\ held' = <<>> /\ reader' = "waiting"
    BY <1>7 DEF NextBatchSuspend
  <2>2. View' = <<>>
    BY <2>1 DEF View
  <2> PICK ask \in Asks : asked' = ask
    BY <1>7 DEF NextBatchSuspend
  <2>3. Contract!Call(ask)
    BY <2>1, <2>2 DEF Contract!Call, View
  <2>4. ask \in Contract!Asks
    BY DEF Asks, Contract!Asks
  <2> QED BY <2>3, <2>4 DEF Contract!NextBatch, Contract!Next
<1>8. CASE Cancel
  <2>1. UNCHANGED <<sent, peer, slot>> /\ cancelled' = TRUE /\ reader # "gone"
    BY <1>8 DEF Cancel
  <2>2. CASE reader = "waiting"
    <3>1. TakeBatch(asked, checkedOut) /\ asked' = asked
      BY <1>8, <2>2 DEF Cancel
    <3>2. Contract!Return(asked, TRUE)
      <4> PICK ask \in Asks : ask = asked
        BY DEF IInv, TypeOK
      <4>1. TakeBatch(ask, checkedOut)
        BY <3>1 DEF TakeBatch
      <4>2. Contract!Return(ask, TRUE)
        BY <2>1, <4>1, TakeBatchReturns DEF Contract!Return
      <4> QED BY <4>2 DEF Contract!Return, Contract!ReturnBatch, Contract!GoodBatch
    <3>3. Contract!Cancel
      BY <2>1, <2>2, <3>1, <3>2 DEF Contract!Cancel
    <3> QED BY <3>3 DEF Contract!Next
  <2>3. CASE reader # "waiting"
    <3>1. UNCHANGED <<delivered, View, reader, asked>>
      BY <1>8, <2>1, <2>3 DEF Cancel, View
    <3>2. Contract!Cancel
      BY <2>1, <3>1 DEF Contract!Cancel, View
    <3> QED BY <3>2 DEF Contract!Next
  <2> QED BY <2>2, <2>3
<1>9. CASE Destroy
  <2>1. /\ UNCHANGED <<sent, peer, cancelled, delivered, asked>>
        /\ reader \in {"running", "over"} /\ reader' = "gone" /\ held' = <<>>
    BY <1>9 DEF Destroy
  <2>2. View' = <<>>
    BY <2>1 DEF View
  <2>3. Contract!Destroy
    BY <2>1, <2>2 DEF Contract!Destroy, View
  <2> QED BY <2>3 DEF Contract!Next
<1>10. CASE UNCHANGED vars
  BY <1>10 DEF vars, View
<1> QED BY <1>1, <1>2, <1>3, <1>4, <1>5, <1>6, <1>7, <1>8, <1>9, <1>10
        DEF Next, OnReady, NextBatch

\* The libc stream implements the contract of recv_stream.hpp, for every ring and
\* buffer size and every way of asking: chunks are the peer's bytes, each once, in
\* order, intact until the next call, and nothing follows the end.
THEOREM ImplementsContract == Spec => Refines
<1>1. Init => Contract!Init
  <2> SUFFICES ASSUME Init PROVE Contract!Init
    OBVIOUS
  <2>1. View = <<>>
    BY DEF Init, View
  <2>2. asked \in Contract!Asks
    BY LibcAssumption DEF Init, Contract!Asks
  <2> QED BY <2>1, <2>2 DEF Init, View, Contract!Init
<1> QED BY <1>1, StepRefines, InductiveEnd, PTL DEF Spec, Refines, Contract!Spec
=============================================================================
