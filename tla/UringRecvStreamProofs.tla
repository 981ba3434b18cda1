----------------------- MODULE UringRecvStreamProofs -----------------------
(***************************************************************************)
(* Proofs about UringRecvStream, for both streams, every set of buffers,   *)
(* every buffer size and amount of data: type correctness, the sink's      *)
(* lifetime, a suspended reader's operation, conservation of the buffers,  *)
(* and that the streams implement the contract of recv_stream.hpp.         *)
(***************************************************************************)
EXTENDS UringRecvStream, TLAPS, WellFoundedInduction

\* A set of natural numbers that is not empty has a least element: induction by least
\* counterexample needs no operator, which the library's induction theorems take.
LEMMA LeastOf ==
  ASSUME NEW T \in SUBSET Nat, T # {}
  PROVE  \E x \in T : \A y \in T : x <= y
<1> DEFINE R == OpToRel(<, Nat)
<1>1. IsWellFoundedOn(R, Nat)
  BY NatLessThanWellFounded
<1>2. \A x, y \in T : y < x => <<y, x>> \in R
  BY DEF OpToRel
<1> HIDE DEF R
<1>3. PICK x \in T : \A y \in T : ~(<<y, x>> \in R)
  BY <1>1, WFMin
<1>4. x \in Nat /\ \A y \in T : y \in Nat
  OBVIOUS
<1>5. \A y \in T : ~(y < x)
  BY <1>2, <1>3
<1> QED BY <1>4, <1>5

\* Taking the first element off a queue.
LEMMA TailFacts ==
  ASSUME NEW S, NEW q \in Seq(S), q # <<>>
  PROVE  /\ Len(q) \in Nat \ {0} /\ Head(q) = q[1] /\ Head(q) \in S
         /\ Tail(q) \in Seq(S)
         /\ Len(Tail(q)) = Len(q) - 1
         /\ \A i \in 1..(Len(q) - 1) : Tail(q)[i] = q[i + 1]
OBVIOUS

\* Adding an element at the end.
LEMMA AppendFacts ==
  ASSUME NEW S, NEW q \in Seq(S), NEW x \in S
  PROVE  /\ Len(q) \in Nat
         /\ Append(q, x) \in Seq(S)
         /\ Len(Append(q, x)) = Len(q) + 1
         /\ \A i \in 1..Len(q) : Append(q, x)[i] = q[i]
         /\ Append(q, x)[Len(q) + 1] = x
OBVIOUS

\* Splitting a queue after its first k elements.
LEMMA SplitQueue ==
  ASSUME NEW S, NEW q \in Seq(S), NEW k \in 1..Len(q)
  PROVE  /\ SubSeq(q, 1, k) \in Seq(S)
         /\ Len(SubSeq(q, 1, k)) = k
         /\ \A i \in 1..k : SubSeq(q, 1, k)[i] = q[i]
         /\ Remaining(q, k) \in Seq(S)
         /\ Len(Remaining(q, k)) = Len(q) - k
         /\ \A i \in 1..(Len(q) - k) : Remaining(q, k)[i] = q[i + k]
BY DEF Remaining

\* What is in a queue after these.
LEMMA ToSetFacts ==
  ASSUME NEW S, NEW q \in Seq(S)
  PROVE  /\ \A x : x \in ToSet(q) <=> \E i \in 1..Len(q) : q[i] = x
         /\ \A x \in S : ToSet(Append(q, x)) = ToSet(q) \cup {x}
         /\ q # <<>> => ToSet(q) = {Head(q)} \cup ToSet(Tail(q))
<1>1. \A x : x \in ToSet(q) <=> \E i \in 1..Len(q) : q[i] = x
  BY DEF ToSet
<1>2. ASSUME NEW x \in S PROVE ToSet(Append(q, x)) = ToSet(q) \cup {x}
  <2>1. \A y : y \in ToSet(Append(q, x)) <=> \E i \in 1..(Len(q) + 1) : Append(q, x)[i] = y
    BY <1>2, AppendFacts DEF ToSet
  <2> QED BY <1>1, <1>2, <2>1, AppendFacts
<1>3. ASSUME q # <<>> PROVE ToSet(q) = {Head(q)} \cup ToSet(Tail(q))
  <2>1. \A y : y \in ToSet(Tail(q)) <=> \E i \in 1..(Len(q) - 1) : q[i + 1] = y
    <3> DEFINE t == Tail(q)
    <3>1. /\ t \in Seq(S) /\ Len(t) = Len(q) - 1
          /\ \A i \in 1..(Len(q) - 1) : t[i] = q[i + 1]
      BY <1>3, TailFacts
    <3> HIDE DEF t
    <3>2. \A y : y \in ToSet(t) <=> \E i \in 1..(Len(q) - 1) : t[i] = y
      BY <3>1 DEF ToSet
    <3>3. \A y : y \in ToSet(t) <=> \E i \in 1..(Len(q) - 1) : q[i + 1] = y
      BY <3>1, <3>2
    <3> QED BY <3>3 DEF t
  <2>2. ASSUME NEW y \in ToSet(q), y # Head(q) PROVE y \in ToSet(Tail(q))
    <3>1. PICK i \in 1..Len(q) : q[i] = y
      BY <1>1, <2>2
    <3>2. i # 1
      BY <1>3, <2>2, <3>1, TailFacts
    <3>3. i - 1 \in 1..(Len(q) - 1) /\ (i - 1) + 1 = i
      BY <3>1, <3>2
    <3> QED BY <2>1, <3>1, <3>3
  <2>3. ASSUME NEW y \in ToSet(Tail(q)) PROVE y \in ToSet(q)
    <3>1. PICK i \in 1..(Len(q) - 1) : q[i + 1] = y
      BY <2>1, <2>3
    <3>2. i + 1 \in 1..Len(q)
      BY <3>1
    <3> QED BY <1>1, <3>1, <3>2
  <2>4. Head(q) \in ToSet(q)
    <3>1. 1 \in 1..Len(q) /\ Head(q) = q[1]
      BY <1>3, TailFacts
    <3> QED BY <1>1, <3>1
  <2> QED BY <2>2, <2>3, <2>4
<1> QED BY <1>1, <1>2, <1>3

-----------------------------------------------------------------------------
(* The running total of _take_batch(). *)

\* A function that satisfies the loop's equation up to n.
Totals(f, chunks, n) ==
  f = [i \in 0..n |-> IF i = 0 THEN 0 ELSE f[i - 1] + chunks[i].len]

\* There is one for every queue: a total up to n - 1 extends to n.
LEMMA TotalsExist ==
  ASSUME NEW chunks, NEW m \in Nat
  PROVE  \E f : Totals(f, chunks, m)
<1> DEFINE T == {n \in Nat : ~ \E f : Totals(f, chunks, n)}
<1> SUFFICES ASSUME T # {} PROVE FALSE
  OBVIOUS
<1>1. PICK n \in T : \A y \in T : n <= y
  BY LeastOf
<1>2. CASE n = 0
  <2> DEFINE g == [i \in 0..0 |-> 0]
  <2>1. Totals(g, chunks, 0)
    BY DEF Totals
  <2> QED BY <1>2, <2>1
<1>3. CASE n # 0
  <2>1. n - 1 \in Nat /\ n - 1 \notin T
    BY <1>1, <1>3
  <2>2. PICK f : Totals(f, chunks, n - 1)
    BY <2>1
  <2> DEFINE g == [i \in 0..n |-> IF i = 0 THEN 0 ELSE f[i - 1] + chunks[i].len]
  <2>3. \A i \in 0..(n - 1) : g[i] = f[i]
    BY <2>1, <2>2 DEF Totals
  <2>4. g = [i \in 0..n |-> IF i = 0 THEN 0 ELSE g[i - 1] + chunks[i].len]
    <3>1. \A i \in 0..n : i # 0 => i - 1 \in 0..(n - 1)
      BY <2>1
    <3>2. \A i \in 0..n : i # 0 => g[i - 1] = f[i - 1]
      BY <2>3, <3>1
    <3> QED BY <3>2
  <2>5. Totals(g, chunks, n)
    BY <2>4 DEF Totals
  <2> HIDE DEF g
  <2> QED BY <1>1, <2>5
<1> QED BY <1>2, <1>3

\* bytes starts at 0 and grows by the length of each chunk that is taken.
LEMMA BytesStep ==
  ASSUME NEW S, NEW chunks \in Seq(S)
  PROVE  /\ Bytes(chunks)[0] = 0
         /\ \A i \in 1..Len(chunks) :
              Bytes(chunks)[i] = Bytes(chunks)[i - 1] + chunks[i].len
<1>1. Len(chunks) \in Nat
  OBVIOUS
<1>2. PICK f : Totals(f, chunks, Len(chunks))
  BY <1>1, TotalsExist
<1>3. Bytes(chunks) = CHOOSE g : Totals(g, chunks, Len(chunks))
  BY DEF Bytes, Totals
<1>4. Totals(Bytes(chunks), chunks, Len(chunks))
  BY <1>2, <1>3
<1> QED BY <1>1, <1>4 DEF Totals

\* The total is a number of bytes.
LEMMA BytesNat ==
  ASSUME NEW S, NEW chunks \in Seq(S), \A i \in 1..Len(chunks) : chunks[i].len \in Nat
  PROVE  \A i \in 0..Len(chunks) : Bytes(chunks)[i] \in Nat
<1> DEFINE T == {i \in 0..Len(chunks) : Bytes(chunks)[i] \notin Nat}
<1> SUFFICES ASSUME T # {} PROVE FALSE
  OBVIOUS
<1>1. Len(chunks) \in Nat
  OBVIOUS
<1>2. T \in SUBSET Nat
  BY <1>1
<1>3. PICK n \in T : \A y \in T : n <= y
  BY <1>2, LeastOf
<1>4. n # 0
  BY <1>3, BytesStep
<1>5. n \in 1..Len(chunks) /\ n - 1 \in 0..Len(chunks) /\ n - 1 \notin T
  BY <1>1, <1>3, <1>4
<1>6. Bytes(chunks)[n] = Bytes(chunks)[n - 1] + chunks[n].len
  BY <1>5, BytesStep
<1> QED BY <1>3, <1>5, <1>6

-----------------------------------------------------------------------------
(* The invariant. *)

(***************************************************************************)
(* TypeOK without delivered: that no more is delivered than was sent needs *)
(* to know what is in the buffers.                                         *)
(***************************************************************************)
Shape ==
  /\ multishot \in Modes
  /\ sent \in 0..MaxBytes
  /\ peer \in {"open", "closed", "reset"}
  /\ rcvd \in 0..sent
  /\ slot \in [Buffers -> 0..MaxBytes]
  /\ free \in SUBSET Buffers
  /\ sq \in Seq({"recv", "cancelFd", "cancelSink"})
  /\ op \in {"none", "armed"}
  /\ cq \in Seq(Cqe)
  /\ sink \in {"owned", "orphan", "freed"}
  /\ live \in BOOLEAN
  /\ pending \in Seq(Piece)
  /\ checkedOut \in SUBSET Buffers
  /\ eof \in BOOLEAN
  /\ error \in {"none", "reset", "cancelled"}
  /\ needsResubmit \in BOOLEAN
  /\ reader \in {"running", "waiting", "over", "gone"}
  /\ asked \in Asks
  /\ held \in Seq(Piece)
  /\ cancelled \in BOOLEAN

\* A recv is queued; a recv's last CQE is due.
Queued == "recv" \in ToSet(sq)
Ended == \E i \in DOMAIN cq : ~cq[i].more

(***************************************************************************)
(* There is one recv operation at a time: queued, in the kernel, or with   *)
(* its last CQE at the end of the completion queue.                        *)
(***************************************************************************)
OpInv ==
  /\ \A i, j \in DOMAIN sq : sq[i] = "recv" /\ sq[j] = "recv" => i = j
  /\ op = "armed" => ~Queued /\ ~Ended
  /\ Queued => ~Ended
  /\ \A i \in DOMAIN cq : ~cq[i].more => i = Len(cq)
  /\ cq # <<>> => op = "armed" \/ Ended

(***************************************************************************)
(* The single-shot stream's one buffer is with the kernel, in a CQE, in    *)
(* _has_chunk or checked out, never in two of these.                       *)
(***************************************************************************)
SingleInv ==
  ~multishot =>
    /\ \A i \in DOMAIN cq : /\ ~cq[i].more
                            /\ cq[i].kind # "nobufs"
                            /\ cq[i].kind = "data" => cq[i].idx = Buf
    /\ Len(pending) <= 1
    /\ \A i \in DOMAIN pending : pending[i].idx = Buf
    /\ pending # <<>> => ~Outstanding
    /\ checkedOut # {} => ~Outstanding /\ pending = <<>>
    /\ ~needsResubmit

(***************************************************************************)
(* Who ends an operation says so, and who runs dry asks for it again: as   *)
(* long as the connection has not ended, the operation is outstanding or   *)
(* the next call will submit it.                                           *)
(***************************************************************************)
FlowInv ==
  /\ sink = "owned" <=> reader # "gone"
  /\ eof \/ error # "none" => ~Outstanding /\ ~needsResubmit
  /\ needsResubmit => ~Outstanding
  /\ reader # "gone" =>
       \/ eof \/ error # "none" \/ Outstanding
       \/ multishot /\ needsResubmit
       \/ ~multishot /\ (pending # <<>> \/ checkedOut # {})
  /\ reader = "waiting" => checkedOut = {}

OInv == Shape /\ OpInv /\ SingleInv /\ FlowInv /\ SinkSafe /\ WaiterHasOp

-----------------------------------------------------------------------------
(* The operation. *)

\* The fields of a CQE.
LEMMA CqeFields ==
  ASSUME NEW c \in Cqe
  PROVE  /\ c.kind \in {"data", "nobufs", "eof", "reset", "cancelled"}
         /\ c.more \in BOOLEAN
         /\ c.more => c.kind = "data"
         /\ c.kind = "data" => c.idx \in Buffers /\ c.len \in 1..EntrySize
BY DEF Cqe

\* Outstanding in terms of its three places.
LEMMA OutstandingIs == Outstanding <=> Queued \/ op = "armed" \/ Ended
BY DEF Outstanding, Queued, Ended

\* A CQE without IORING_CQE_F_MORE is the last one: dispatching it empties the
\* completion queue and leaves no operation.
LEMMA PopCqe ==
  ASSUME Shape, OpInv, cq # <<>>, cq' = Tail(cq), op' = op
  PROVE  /\ Head(cq) \in Cqe /\ Head(cq) = cq[1]
         /\ cq' \in Seq(Cqe) /\ Len(cq') = Len(cq) - 1 /\ Len(cq) \in Nat
         /\ \A i \in DOMAIN cq' : i + 1 \in DOMAIN cq /\ cq'[i] = cq[i + 1]
         /\ \A i \in DOMAIN cq' : ~cq'[i].more => i = Len(cq')
         /\ Head(cq).more => (Ended' <=> Ended)
         /\ ~Head(cq).more => cq' = <<>> /\ op = "none" /\ ~Queued /\ Ended /\ ~Ended'
         /\ cq' # <<>> => op' = "armed" \/ Ended'
<1>1. cq \in Seq(Cqe)
  BY DEF Shape
<1>2. /\ Head(cq) \in Cqe /\ Head(cq) = cq[1]
      /\ cq' \in Seq(Cqe) /\ Len(cq') = Len(cq) - 1 /\ Len(cq) \in Nat \ {0}
      /\ \A i \in 1..(Len(cq) - 1) : cq'[i] = cq[i + 1]
  BY <1>1, TailFacts
<1>3. DOMAIN cq = 1..Len(cq) /\ DOMAIN cq' = 1..(Len(cq) - 1)
  BY <1>1, <1>2
<1>4. \A i \in DOMAIN cq' : i + 1 \in DOMAIN cq /\ cq'[i] = cq[i + 1]
  BY <1>2, <1>3
<1>5. \A i \in DOMAIN cq' : ~cq'[i].more => i = Len(cq')
  BY <1>2, <1>3, <1>4 DEF OpInv
<1>6. ASSUME Head(cq).more PROVE Ended' <=> Ended
  <2>1. ASSUME NEW i \in DOMAIN cq, ~cq[i].more PROVE \E j \in DOMAIN cq' : ~cq'[j].more
    <3>1. i # 1
      BY <1>2, <1>6, <2>1
    <3>2. i - 1 \in DOMAIN cq' /\ (i - 1) + 1 = i
      BY <1>2, <1>3, <2>1, <3>1
    <3> QED BY <1>4, <2>1, <3>2
  <2> QED BY <1>4, <2>1 DEF Ended
<1>7. ASSUME ~Head(cq).more
      PROVE  cq' = <<>> /\ op = "none" /\ ~Queued /\ Ended /\ ~Ended'
  <2>1. 1 \in DOMAIN cq /\ ~cq[1].more
    BY <1>2, <1>3, <1>7
  <2>2. Len(cq) = 1
    BY <2>1 DEF OpInv
  <2>3. cq' = <<>>
    BY <1>2, <2>2
  <2>4. Ended
    BY <2>1 DEF Ended
  <2>5. op = "none" /\ ~Queued
    BY <2>4 DEF OpInv, Shape
  <2>6. ~Ended'
    BY <2>3 DEF Ended
  <2> QED BY <2>3, <2>4, <2>5, <2>6
<1>8. ASSUME cq' # <<>> PROVE op' = "armed" \/ Ended'
  BY <1>6, <1>7, <1>8 DEF OpInv
<1> QED BY <1>2, <1>4, <1>5, <1>6, <1>7, <1>8

\* A CQE is posted by an operation in the kernel, which goes on if it has more.
LEMMA PushCqe ==
  ASSUME Shape, OpInv, op = "armed", NEW c \in Cqe, cq' = Append(cq, c),
         op' = (IF c.more THEN "armed" ELSE "none"), sq' = sq \/ ~Queued'
  PROVE  /\ cq' \in Seq(Cqe) /\ Len(cq') = Len(cq) + 1 /\ Len(cq) \in Nat
         /\ \A i \in DOMAIN cq : i \in DOMAIN cq' /\ cq'[i] = cq[i]
         /\ DOMAIN cq' = DOMAIN cq \cup {Len(cq) + 1}
         /\ cq'[Len(cq) + 1] = c
         /\ \A i \in DOMAIN cq' : ~cq'[i].more => i = Len(cq')
         /\ Ended' <=> ~c.more
         /\ ~Queued'
<1>1. cq \in Seq(Cqe) /\ Len(cq) \in Nat
  BY DEF Shape
<1>2. /\ cq' \in Seq(Cqe) /\ Len(cq') = Len(cq) + 1
      /\ \A i \in 1..Len(cq) : cq'[i] = cq[i]
      /\ cq'[Len(cq) + 1] = c
  BY <1>1, AppendFacts
<1>3. DOMAIN cq = 1..Len(cq) /\ DOMAIN cq' = 1..(Len(cq) + 1)
  BY <1>1, <1>2
<1>4. \A i \in DOMAIN cq : cq[i].more
  BY DEF OpInv, Ended
<1>5. \A i \in DOMAIN cq : i \in DOMAIN cq' /\ cq'[i] = cq[i]
  BY <1>1, <1>2, <1>3
<1>6. DOMAIN cq' = DOMAIN cq \cup {Len(cq) + 1}
  BY <1>1, <1>3
<1>7. \A i \in DOMAIN cq' : ~cq'[i].more => i = Len(cq')
  BY <1>2, <1>4, <1>5, <1>6
<1>8. Ended' <=> ~c.more
  BY <1>2, <1>4, <1>5, <1>6 DEF Ended
<1>9. ~Queued'
  BY DEF OpInv, Queued
<1> QED BY <1>1, <1>2, <1>5, <1>6, <1>7, <1>8, <1>9

\* The first recv is queued when the stream is made.
LEMMA InitOInv == Init => OInv
<1> SUFFICES ASSUME Init PROVE OInv
  OBVIOUS
<1> USE UringAssumption DEF Init
<1>1. Shape
  <2>1. asked \in Asks
    BY DEF Asks
  <2>2. /\ live \in BOOLEAN /\ eof \in BOOLEAN /\ needsResubmit \in BOOLEAN
        /\ cancelled \in BOOLEAN
    BY Zenon
  <2>3. sq \in Seq({"recv", "cancelFd", "cancelSink"}) /\ cq \in Seq(Cqe)
        /\ pending \in Seq(Piece) /\ held \in Seq(Piece)
    OBVIOUS
  <2>4. slot \in [Buffers -> 0..MaxBytes] /\ rcvd \in 0..sent /\ sent \in 0..MaxBytes
    OBVIOUS
  <2>5. free \in SUBSET Buffers
    OBVIOUS
  <2> QED BY <2>1, <2>2, <2>3, <2>4, <2>5 DEF Shape
<1>2. Queued /\ ~Ended
  BY DEF Queued, Ended, ToSet
<1>3. Outstanding
  BY <1>2, OutstandingIs
<1>4. OpInv
  BY <1>2 DEF OpInv
<1>5. SingleInv /\ FlowInv
  BY <1>3 DEF SingleInv, FlowInv
<1>6. SinkSafe /\ WaiterHasOp
  BY <1>3 DEF SinkSafe, WaiterHasOp
<1> QED BY <1>1, <1>4, <1>5, <1>6 DEF OInv

\* Nothing changes for the operation when its three places do not.
LEMMA SameOp ==
  ASSUME UNCHANGED <<sq, op, cq>>
  PROVE  (Outstanding' <=> Outstanding) /\ (OpInv => OpInv')
BY DEF Outstanding, OpInv, Queued, Ended

\* An SQE is queued: a cancellation, or a recv when none is.
LEMMA PushSqe ==
  ASSUME Shape, OpInv, NEW x \in {"recv", "cancelFd", "cancelSink"},
         sq' = Append(sq, x), x = "recv" => ~Queued
  PROVE  /\ sq' \in Seq({"recv", "cancelFd", "cancelSink"})
         /\ Queued' <=> Queued \/ x = "recv"
         /\ \A i, j \in DOMAIN sq' : sq'[i] = "recv" /\ sq'[j] = "recv" => i = j
<1>1. sq \in Seq({"recv", "cancelFd", "cancelSink"}) /\ Len(sq) \in Nat
  BY DEF Shape
<1>2. /\ sq' \in Seq({"recv", "cancelFd", "cancelSink"})
      /\ Len(sq') = Len(sq) + 1
      /\ \A i \in 1..Len(sq) : sq'[i] = sq[i]
      /\ sq'[Len(sq) + 1] = x
  BY <1>1, AppendFacts
<1>3. Queued' <=> Queued \/ x = "recv"
  BY <1>1, ToSetFacts DEF Queued
<1>4. ~Queued => \A i \in 1..Len(sq) : sq[i] # "recv"
  BY <1>1, ToSetFacts DEF Queued
<1>5. DOMAIN sq = 1..Len(sq) /\ DOMAIN sq' = 1..(Len(sq) + 1)
  BY <1>1, <1>2
<1> QED BY <1>1, <1>2, <1>3, <1>4, <1>5 DEF OpInv

\* The peer has no part in it.
LEMMA PeerOInv == OInv /\ (PeerSend \/ PeerEnd) => OInv'
<1> SUFFICES ASSUME OInv, PeerSend \/ PeerEnd PROVE OInv'
  OBVIOUS
<1> USE UringAssumption
<1>1. UNCHANGED <<multishot, rcvd, slot, free, sq, op, cq, sink, live, pending,
                  checkedOut, eof, error, needsResubmit, reader, asked, held, cancelled>>
  BY DEF PeerSend, PeerEnd, sinkVars, streamVars, readerVars
<1>2. Shape'
  <2>1. CASE PeerSend
    <3>1. PICK n \in 1..(MaxBytes - sent) : sent' = sent + n
      BY <2>1 DEF PeerSend
    <3>2. sent \in 0..MaxBytes /\ rcvd \in 0..sent
      BY DEF OInv, Shape
    <3>3. sent' \in 0..MaxBytes /\ rcvd \in 0..sent'
      BY <3>1, <3>2
    <3> QED BY <1>1, <2>1, <3>3 DEF PeerSend, OInv, Shape
  <2>2. CASE PeerEnd
    BY <1>1, <2>2 DEF PeerEnd, OInv, Shape
  <2> QED BY <2>1, <2>2
<1>3. (Outstanding' <=> Outstanding) /\ OpInv'
  BY <1>1, SameOp DEF OInv
<1>4. SingleInv' /\ FlowInv'
  BY <1>1, <1>3 DEF OInv, SingleInv, FlowInv
<1>5. SinkSafe' /\ WaiterHasOp'
  BY <1>1, <1>3 DEF OInv, SinkSafe, WaiterHasOp, HasResult, Outstanding
<1> QED BY <1>2, <1>3, <1>4, <1>5 DEF OInv

\* Submitting a recv moves it into the kernel; a cancellation ends the operation
\* there, and its last CQE is due.
LEMMA SubmitOInv == OInv /\ Submit => OInv'
<1> SUFFICES ASSUME OInv, Submit PROVE OInv'
  OBVIOUS
<1> USE UringAssumption
<1>1. /\ UNCHANGED <<multishot, sent, peer, rcvd, slot, free, sink, live, pending,
                     checkedOut, eof, error, needsResubmit, reader, asked, held,
                     delivered, cancelled>>
      /\ sq # <<>> /\ sq' = Tail(sq)
  BY DEF Submit, peerVars, sinkVars, streamVars, readerVars
<1>2. Shape /\ OpInv /\ sq \in Seq({"recv", "cancelFd", "cancelSink"}) /\ Len(sq) \in Nat
  BY DEF OInv, Shape
<1>3. /\ sq' \in Seq({"recv", "cancelFd", "cancelSink"})
      /\ Len(sq) \in Nat \ {0} /\ Len(sq') = Len(sq) - 1 /\ Head(sq) = sq[1]
      /\ \A i \in 1..(Len(sq) - 1) : sq'[i] = sq[i + 1]
  BY <1>1, <1>2, TailFacts
<1>4. DOMAIN sq = 1..Len(sq) /\ DOMAIN sq' = 1..(Len(sq) - 1)
  BY <1>2, <1>3
<1>5. \A i \in DOMAIN sq' : i + 1 \in DOMAIN sq /\ i + 1 # 1 /\ sq'[i] = sq[i + 1]
  BY <1>3, <1>4
<1>6. \A i, j \in DOMAIN sq' : sq'[i] = "recv" /\ sq'[j] = "recv" => i = j
  <2> TAKE i, j \in DOMAIN sq'
  <2> HAVE sq'[i] = "recv" /\ sq'[j] = "recv"
  <2>1. i + 1 = j + 1
    BY <1>2, <1>5 DEF OpInv
  <2> QED BY <1>3, <1>4, <2>1
<1>7. /\ Queued <=> Head(sq) = "recv" \/ Queued'
      /\ Queued' <=> \E i \in 1..Len(sq') : sq'[i] = "recv"
  <2>1. ToSet(sq) = {Head(sq)} \cup ToSet(Tail(sq))
    BY <1>1, <1>2, ToSetFacts
  <2>2. Queued' <=> \E i \in 1..Len(sq') : sq'[i] = "recv"
    BY <1>3 DEF Queued, ToSet
  <2> QED BY <1>1, <2>1, <2>2 DEF Queued
<1>8. CASE Head(sq) = "recv"
  <2>1. op' = "armed" /\ cq' = cq
    BY <1>8 DEF Submit
  <2>2. ~Queued'
    <3>1. 1 \in DOMAIN sq /\ sq[1] = "recv"
      BY <1>3, <1>4, <1>8
    <3>2. \A i \in DOMAIN sq' : sq'[i] # "recv"
      BY <1>2, <1>5, <3>1 DEF OpInv
    <3> QED BY <1>4, <1>3, <1>7, <3>2
  <2>3. Queued /\ ~Ended /\ ~Ended'
    BY <1>2, <1>7, <1>8, <2>1 DEF OpInv, Ended
  <2>4. Outstanding /\ Outstanding'
    BY <2>1, <2>3 DEF Outstanding, Queued
  <2>5. OpInv'
    BY <1>2, <1>6, <2>1, <2>2, <2>3 DEF OpInv
  <2>6. Shape'
    BY <1>1, <1>3, <2>1 DEF OInv, Shape
  <2>7. SingleInv' /\ FlowInv'
    BY <1>1, <2>1, <2>4 DEF OInv, SingleInv, FlowInv
  <2>8. SinkSafe' /\ WaiterHasOp'
    BY <1>1, <2>1, <2>4 DEF OInv, SinkSafe, WaiterHasOp, HasResult
  <2> QED BY <2>5, <2>6, <2>7, <2>8 DEF OInv
<1>9. CASE Head(sq) # "recv" /\ op = "armed"
  <2> DEFINE c == [kind |-> "cancelled", more |-> FALSE]
  <2>1. op' = "none" /\ cq' = Append(cq, c)
    BY <1>9 DEF Submit
  <2>2. c \in Cqe /\ c.kind = "cancelled" /\ ~c.more
    BY DEF Cqe
  <2> HIDE DEF c
  <2>3. ~Queued'
    BY <1>2, <1>7, <1>9 DEF OpInv
  <2>4. /\ cq' \in Seq(Cqe)
        /\ \A i \in DOMAIN cq : i \in DOMAIN cq' /\ cq'[i] = cq[i]
        /\ DOMAIN cq' = DOMAIN cq \cup {Len(cq) + 1}
        /\ cq'[Len(cq) + 1] = c
        /\ \A i \in DOMAIN cq' : ~cq'[i].more => i = Len(cq')
        /\ Ended'
    BY <1>2, <1>9, <2>1, <2>2, <2>3, PushCqe
  <2>5. Outstanding /\ Outstanding'
    BY <1>9, <2>4, OutstandingIs DEF Outstanding, Ended
  <2>6. OpInv'
    BY <1>6, <2>1, <2>3, <2>4 DEF OpInv
  <2>7. Shape'
    BY <1>1, <1>3, <2>1, <2>4 DEF OInv, Shape
  <2>8. SingleInv' /\ FlowInv'
    BY <1>1, <2>2, <2>4, <2>5 DEF OInv, SingleInv, FlowInv
  <2>9. SinkSafe' /\ WaiterHasOp'
    BY <1>1, <2>5 DEF OInv, SinkSafe, WaiterHasOp, HasResult
  <2> QED BY <2>6, <2>7, <2>8, <2>9 DEF OInv
<1>10. CASE Head(sq) # "recv" /\ op # "armed"
  <2>1. op' = op /\ cq' = cq
    BY <1>10 DEF Submit
  <2>2. (Queued' <=> Queued) /\ (Ended' <=> Ended)
    BY <1>7, <1>10, <2>1 DEF Ended
  <2>3. Outstanding' <=> Outstanding
    BY <2>1, <2>2 DEF Outstanding, Queued, Ended
  <2>4. OpInv'
    BY <1>2, <1>6, <2>1, <2>2 DEF OpInv
  <2>5. Shape'
    BY <1>1, <1>3, <2>1 DEF OInv, Shape
  <2>6. SingleInv' /\ FlowInv'
    BY <1>1, <2>1, <2>3 DEF OInv, SingleInv, FlowInv
  <2>7. SinkSafe' /\ WaiterHasOp'
    BY <1>1, <2>1, <2>3 DEF OInv, SinkSafe, WaiterHasOp, HasResult
  <2> QED BY <2>4, <2>5, <2>6, <2>7 DEF OInv
<1> QED BY <1>8, <1>9, <1>10

\* The kernel posts a CQE of the operation it has.
LEMMA KernelOInv == OInv /\ (KernelData \/ KernelEnd) => OInv'
<1> SUFFICES ASSUME OInv, KernelData \/ KernelEnd PROVE OInv'
  OBVIOUS
<1> USE UringAssumption
<1>1. /\ UNCHANGED <<multishot, sent, peer, sq, sink, live, pending, checkedOut, eof,
                     error, needsResubmit, reader, asked, held, delivered, cancelled>>
      /\ op = "armed"
  BY DEF KernelData, KernelEnd, peerVars, sinkVars, streamVars, readerVars
<1>2. Shape /\ OpInv /\ multishot \in BOOLEAN
  BY DEF OInv, Shape
<1>3. \E c \in Cqe :
        /\ cq' = Append(cq, c) /\ op' = (IF c.more THEN "armed" ELSE "none")
        /\ ~multishot => ~c.more /\ c.kind # "nobufs" /\ (c.kind = "data" => c.idx = Buf)
  <2>1. CASE KernelData
    <3>1. PICK b \in (IF multishot THEN free ELSE {Buf}), r \in 1..EntrySize,
               more \in BOOLEAN :
            /\ more => multishot
            /\ op' = IF more THEN op ELSE "none"
            /\ cq' = Append(cq, [kind |-> "data", idx |-> b, len |-> r, more |-> more])
      BY <2>1 DEF KernelData
    <3> DEFINE c == [kind |-> "data", idx |-> b, len |-> r, more |-> more]
    <3>2. b \in Buffers
      BY <1>2, <3>1 DEF Shape, Buf
    <3>3. /\ c \in Cqe /\ c.kind = "data" /\ c.idx = b /\ c.more = more
      BY <3>1, <3>2 DEF Cqe
    <3>4. cq' = Append(cq, c)
      BY <3>1
    <3> HIDE DEF c
    <3> QED BY <1>1, <3>1, <3>3, <3>4
  <2>2. CASE KernelEnd
    <3>1. PICK kind \in {"nobufs", "eof", "reset"} :
            /\ kind = "nobufs" => multishot
            /\ cq' = Append(cq, [kind |-> kind, more |-> FALSE])
      BY <2>2 DEF KernelEnd
    <3> DEFINE c == [kind |-> kind, more |-> FALSE]
    <3>2. c \in Cqe /\ c.kind = kind /\ ~c.more
      BY <3>1 DEF Cqe
    <3>3. cq' = Append(cq, c) /\ op' = "none"
      BY <2>2, <3>1 DEF KernelEnd
    <3> HIDE DEF c
    <3> QED BY <3>1, <3>2, <3>3
  <2> QED BY <2>1, <2>2
<1>4. PICK c \in Cqe :
        /\ cq' = Append(cq, c) /\ op' = (IF c.more THEN "armed" ELSE "none")
        /\ ~multishot => ~c.more /\ c.kind # "nobufs" /\ (c.kind = "data" => c.idx = Buf)
  BY <1>3
<1>5. /\ cq' \in Seq(Cqe) /\ Len(cq') = Len(cq) + 1 /\ Len(cq) \in Nat
      /\ \A i \in DOMAIN cq : i \in DOMAIN cq' /\ cq'[i] = cq[i]
      /\ DOMAIN cq' = DOMAIN cq \cup {Len(cq) + 1}
      /\ cq'[Len(cq) + 1] = c
      /\ \A i \in DOMAIN cq' : ~cq'[i].more => i = Len(cq')
      /\ Ended' <=> ~c.more
      /\ ~Queued'
  BY <1>1, <1>2, <1>4, PushCqe
<1>6. Outstanding /\ Outstanding'
  BY <1>1, <1>4, <1>5, OutstandingIs DEF Outstanding, Ended
<1>7. OpInv'
  BY <1>1, <1>2, <1>4, <1>5 DEF OpInv
<1>8. Shape'
  <2>1. rcvd' \in 0..sent /\ slot' \in [Buffers -> 0..MaxBytes] /\ free' \in SUBSET Buffers
    <3>1. sent \in 0..MaxBytes /\ rcvd \in 0..sent
      BY <1>2 DEF Shape
    <3>2. CASE KernelData
      <4>1. PICK b \in (IF multishot THEN free ELSE {Buf}), r \in 1..EntrySize :
              /\ rcvd + r <= sent /\ rcvd' = rcvd + r
              /\ slot' = [slot EXCEPT ![b] = rcvd]
              /\ free' = free \ {b}
        BY <3>2 DEF KernelData
      <4>2. slot \in [Buffers -> 0..MaxBytes] /\ free \in SUBSET Buffers
        BY <1>2 DEF Shape
      <4>3. rcvd' \in 0..sent /\ rcvd \in 0..MaxBytes
        BY <3>1, <4>1
      <4> QED BY <4>1, <4>2, <4>3
    <3>3. CASE KernelEnd
      BY <1>2, <3>3 DEF KernelEnd, Shape
    <3> QED BY <3>2, <3>3
  <2> QED BY <1>1, <1>2, <1>4, <1>5, <2>1 DEF Shape
<1>9. SingleInv' /\ FlowInv'
  BY <1>1, <1>4, <1>5, <1>6 DEF OInv, SingleInv, FlowInv
<1>10. SinkSafe' /\ WaiterHasOp'
  BY <1>1, <1>6 DEF OInv, SinkSafe, WaiterHasOp, HasResult
<1> QED BY <1>7, <1>8, <1>9, <1>10 DEF OInv

\* cancel_fd() queues a cancellation and changes nothing else.
LEMMA CancelFdOInv == OInv /\ CancelFd => OInv'
<1> SUFFICES ASSUME OInv, CancelFd PROVE OInv'
  OBVIOUS
<1>1. /\ UNCHANGED <<multishot, sent, peer, rcvd, slot, free, op, cq, sink, live, pending,
                     checkedOut, eof, error, needsResubmit, reader, asked, held,
                     delivered>>
      /\ sq' = Append(sq, "cancelFd") /\ cancelled' = TRUE
  BY DEF CancelFd, peerVars, sinkVars, streamVars, readerVars
<1>2. Shape /\ OpInv
  BY DEF OInv
<1>3. /\ sq' \in Seq({"recv", "cancelFd", "cancelSink"})
      /\ Queued' <=> Queued
      /\ \A i, j \in DOMAIN sq' : sq'[i] = "recv" /\ sq'[j] = "recv" => i = j
  BY <1>1, <1>2, PushSqe
<1>4. Outstanding' <=> Outstanding
  BY <1>1, <1>3 DEF Outstanding, Queued
<1>5. OpInv'
  BY <1>1, <1>2, <1>3 DEF OpInv, Ended
<1>6. Shape'
  BY <1>1, <1>2, <1>3 DEF Shape
<1>7. SingleInv' /\ FlowInv'
  BY <1>1, <1>4 DEF OInv, SingleInv, FlowInv
<1>8. SinkSafe' /\ WaiterHasOp'
  BY <1>1, <1>4 DEF OInv, SinkSafe, WaiterHasOp, HasResult
<1> QED BY <1>5, <1>6, <1>7, <1>8 DEF OInv

\* The destructor frees the sink only when _live says that nothing is outstanding.
LEMMA DestroyOInv == OInv /\ Destroy => OInv'
<1> SUFFICES ASSUME OInv, Destroy PROVE OInv'
  OBVIOUS
<1>1. /\ UNCHANGED <<multishot, sent, peer, rcvd, slot, free, op, cq, live, pending,
                     checkedOut, eof, error, needsResubmit, asked, delivered, cancelled>>
      /\ reader \in {"running", "over"} /\ reader' = "gone" /\ held' = <<>>
      /\ \/ live /\ sink' = "orphan" /\ (sq' = Append(sq, "cancelSink") \/ sq' = sq)
         \/ ~live /\ sink' = "freed" /\ sq' = sq
  BY DEF Destroy, ReleaseSink, peerVars, streamVars
<1>2. Shape /\ OpInv /\ SinkSafe /\ sink = "owned"
  BY <1>1 DEF OInv, FlowInv
<1>3. /\ sq' \in Seq({"recv", "cancelFd", "cancelSink"})
      /\ Queued' <=> Queued
      /\ \A i, j \in DOMAIN sq' : sq'[i] = "recv" /\ sq'[j] = "recv" => i = j
  <2>1. CASE sq' = Append(sq, "cancelSink")
    BY <1>2, <2>1, PushSqe
  <2>2. CASE sq' = sq
    BY <1>2, <2>2 DEF Shape, OpInv, Queued
  <2> QED BY <1>1, <2>1, <2>2
<1>4. Outstanding' <=> Outstanding
  BY <1>1, <1>3 DEF Outstanding, Queued
<1>5. OpInv'
  BY <1>1, <1>2, <1>3 DEF OpInv, Ended
<1>6. Shape'
  BY <1>1, <1>2, <1>3 DEF Shape
<1>7. SingleInv' /\ FlowInv'
  BY <1>1, <1>2, <1>4 DEF OInv, SingleInv, FlowInv
<1>8. SinkSafe'
  <2>1. live <=> Outstanding
    BY <1>2 DEF SinkSafe
  <2>2. ~Outstanding => cq = <<>>
    BY <1>2, OutstandingIs DEF OpInv
  <2> QED BY <1>1, <1>2, <1>4, <2>1, <2>2 DEF SinkSafe, Shape
<1>9. WaiterHasOp'
  BY <1>1 DEF WaiterHasOp
<1> QED BY <1>5, <1>6, <1>7, <1>8, <1>9 DEF OInv

\* What next_batch() hands out, in both streams: the first k chunks, or nothing
\* when there is none.
Takes(ask, pend, k) ==
  /\ k \in 1..Len(pend) /\ k <= ask.cap /\ Bytes(pend)[k - 1] < ask.max
  /\ held' = SubSeq(pend, 1, k)
  /\ pending' = Remaining(pend, k)
  /\ checkedOut' = {pend[i].idx : i \in 1..k}
  /\ delivered' = slot[pend[k].idx] + pend[k].len
  /\ reader' = "running"

TakesNothing(pend) ==
  /\ pend = <<>> /\ held' = <<>> /\ pending' = <<>> /\ checkedOut' = {}
  /\ reader' = "over" /\ delivered' = delivered

\* _take() and _take_batch() hand out a batch that the asker has room for.
LEMMA TakeIs ==
  ASSUME Shape, NEW ask \in Asks, NEW pend \in Seq(Piece), Take(ask, pend, {}),
         ~multishot => Len(pend) <= 1 /\ \A i \in DOMAIN pend : pend[i].idx = Buf
  PROVE  TakesNothing(pend) \/ \E k \in 1..Len(pend) : Takes(ask, pend, k)
<1> USE UringAssumption
<1>1. Len(pend) \in Nat /\ multishot \in BOOLEAN
  BY DEF Shape
<1>2. CASE multishot
  <2>1. TakeBatch(ask, pend, {})
    BY <1>2 DEF Take
  <2>2. CASE pend = <<>> /\ held' = <<>>
    <3>1. BatchSizes(pend, ask.cap, ask.max) = {}
      BY <2>2 DEF BatchSizes
    <3> QED BY <2>1, <2>2, <3>1 DEF TakeBatch, TakesNothing
  <2>3. CASE ~(pend = <<>> /\ held' = <<>>)
    <3>1. PICK k \in BatchSizes(pend, ask.cap, ask.max) :
            /\ held' = SubSeq(pend, 1, k)
            /\ pending' = Remaining(pend, k)
            /\ checkedOut' = {} \cup {pend[i].idx : i \in 1..k}
            /\ delivered' = slot[pend[k].idx] + pend[k].len
            /\ reader' = "running"
      BY <2>1, <2>3 DEF TakeBatch
    <3>2. k \in 1..Len(pend) /\ k <= ask.cap /\ Bytes(pend)[k - 1] < ask.max
      BY <3>1 DEF BatchSizes
    <3> QED BY <3>1, <3>2 DEF Takes
  <2> QED BY <2>2, <2>3
<1>3. CASE ~multishot
  <2>1. TakeOne(pend, {})
    BY <1>3 DEF Take
  <2>2. CASE pend = <<>>
    BY <2>1, <2>2 DEF TakeOne, TakesNothing
  <2>3. CASE pend # <<>>
    <3>1. Len(pend) = 1 /\ pend[1].idx = Buf
      <4>1. Len(pend) \in Nat \ {0}
        BY <2>3, TailFacts
      <4>2. DOMAIN pend = 1..Len(pend)
        OBVIOUS
      <4> QED BY <1>3, <4>1, <4>2
    <3>2. SubSeq(pend, 1, 1) = pend /\ Remaining(pend, 1) = <<>>
      BY <3>1 DEF Remaining
    <3>3. {pend[i].idx : i \in 1..1} = {Buf}
      BY <3>1
    <3>4. 1 <= ask.cap /\ Bytes(pend)[1 - 1] < ask.max
      <4>1. Bytes(pend)[0] = 0
        BY BytesStep
      <4> QED BY <4>1 DEF Asks
    <3>5. Takes(ask, pend, 1)
      BY <2>1, <2>3, <3>1, <3>2, <3>3, <3>4 DEF TakeOne, Takes
    <3> QED BY <3>1, <3>5
  <2> QED BY <2>2, <2>3
<1> QED BY <1>1, <1>2, <1>3

\* The types of what is handed out and of what stays; a single-shot stream is left
\* with nothing pending.
LEMMA TakeTypes ==
  ASSUME NEW ask, NEW pend \in Seq(Piece),
         TakesNothing(pend) \/ \E k \in 1..Len(pend) : Takes(ask, pend, k)
  PROVE  /\ held' \in Seq(Piece) /\ pending' \in Seq(Piece)
         /\ checkedOut' \in SUBSET Buffers
         /\ reader' \in {"running", "over"}
         /\ Len(pend) <= 1 => pending' = <<>>
         /\ pend # <<>> => checkedOut' # {}
         /\ pend = <<>> => pending' = <<>> /\ checkedOut' = {}
<1>1. CASE TakesNothing(pend)
  BY <1>1 DEF TakesNothing
<1>2. ASSUME NEW k \in 1..Len(pend), Takes(ask, pend, k)
      PROVE  /\ held' \in Seq(Piece) /\ pending' \in Seq(Piece)
             /\ checkedOut' \in SUBSET Buffers
             /\ reader' \in {"running", "over"}
             /\ Len(pend) <= 1 => pending' = <<>>
             /\ checkedOut' # {}
             /\ pend # <<>>
  <2>1. /\ held' \in Seq(Piece) /\ pending' \in Seq(Piece)
        /\ Len(pending') = Len(pend) - k
    BY <1>2, SplitQueue DEF Takes
  <2>2. \A i \in 1..k : pend[i].idx \in Buffers
    <3> TAKE i \in 1..k
    <3>1. i \in 1..Len(pend)
      BY <1>2
    <3>2. pend[i] \in Piece
      BY <3>1
    <3> QED BY <3>2 DEF Piece
  <2>3. 1 \in 1..k
    BY <1>2
  <2>4. checkedOut' \in SUBSET Buffers /\ checkedOut' # {}
    BY <1>2, <2>2, <2>3 DEF Takes
  <2>5. Len(pend) <= 1 => pending' = <<>>
    BY <1>2, <2>1
  <2> QED BY <1>2, <2>1, <2>4, <2>5 DEF Takes
<1> QED BY <1>1, <1>2

\* A call gives the buffers back and asks for the operation again where it must,
\* so that it never suspends without one.
LEMMA NextBatchOInv == OInv /\ NextBatch => OInv'
<1> SUFFICES ASSUME OInv, NextBatch PROVE OInv'
  OBVIOUS
<1> USE UringAssumption
<1>1. /\ UNCHANGED <<multishot, sent, peer, rcvd, slot, op, cq, sink, eof, error,
                     cancelled>>
      /\ reader = "running"
      /\ IF multishot THEN ReturnCheckedOut ELSE Reclaim
  BY DEF NextBatch, peerVars
<1>2. Shape /\ OpInv /\ SingleInv /\ FlowInv /\ SinkSafe
  BY DEF OInv
<1>t. /\ multishot \in BOOLEAN /\ needsResubmit \in BOOLEAN /\ live \in BOOLEAN
      /\ sink = "owned" /\ checkedOut \in SUBSET Buffers /\ free \in SUBSET Buffers
      /\ live <=> Outstanding
  BY <1>1, <1>2 DEF Shape, FlowInv, SinkSafe
<1> DEFINE again == IF multishot THEN needsResubmit
                                 ELSE checkedOut # {} /\ error = "none" /\ ~eof
<1>3. /\ sq' = IF again THEN Append(sq, "recv") ELSE sq
      /\ live' = (live \/ again)
      /\ needsResubmit' = FALSE
      /\ free' \in SUBSET Buffers
  <2>1. CASE multishot
    BY <1>1, <1>t, <2>1 DEF ReturnCheckedOut, Resubmits, Provide
  <2>2. CASE ~multishot
    BY <1>1, <1>2, <1>t, <2>2 DEF Reclaim, Reclaims, SingleInv
  <2> QED BY <1>t, <2>1, <2>2
<1>4. again => ~Outstanding
  BY <1>2 DEF FlowInv, SingleInv
<1>a. again \in BOOLEAN
  BY <1>t
<1> HIDE DEF again
<1>5. /\ sq' \in Seq({"recv", "cancelFd", "cancelSink"})
      /\ Queued' <=> Queued \/ again
      /\ \A i, j \in DOMAIN sq' : sq'[i] = "recv" /\ sq'[j] = "recv" => i = j
  <2>1. CASE again
    <3>1. ~Queued
      BY <1>4, <2>1, OutstandingIs
    <3> QED BY <1>2, <1>3, <2>1, <3>1, PushSqe
  <2>2. CASE ~again
    BY <1>2, <1>3, <2>2 DEF Shape, OpInv, Queued
  <2> QED BY <2>1, <2>2
<1>6. Outstanding' <=> Outstanding \/ again
  BY <1>1, <1>5 DEF Outstanding, Queued
<1>7. OpInv'
  BY <1>1, <1>2, <1>4, <1>5, OutstandingIs DEF OpInv, Ended
<1>8. SinkSafe' /\ live' \in BOOLEAN
  <2>1. live' \in BOOLEAN /\ (live' <=> Outstanding')
    BY <1>3, <1>6, <1>a, <1>t
  <2> QED BY <1>1, <1>t, <2>1 DEF SinkSafe, Outstanding
<1>9. CASE HasResult(pending, eof, error)
  <2>1. PICK ask \in Asks : Take(ask, pending, {}) /\ UNCHANGED asked
    BY <1>9 DEF NextBatch
  <2> PICK pend \in Seq(Piece) : pend = pending
    BY <1>2 DEF Shape
  <2>2. Take(ask, pend, {})
    BY <2>1 DEF Take, TakeBatch, TakeOne
  <2>3. ~multishot => Len(pend) <= 1 /\ \A i \in DOMAIN pend : pend[i].idx = Buf
    BY <1>2 DEF SingleInv
  <2>4. TakesNothing(pend) \/ \E k \in 1..Len(pend) : Takes(ask, pend, k)
    BY <1>2, <2>2, <2>3, TakeIs
  <2>5. /\ held' \in Seq(Piece) /\ pending' \in Seq(Piece)
        /\ checkedOut' \in SUBSET Buffers
        /\ reader' \in {"running", "over"}
        /\ Len(pend) <= 1 => pending' = <<>>
        /\ pend # <<>> => checkedOut' # {}
        /\ pend = <<>> => pending' = <<>> /\ checkedOut' = {}
    BY <2>4, TakeTypes
  <2>6. Shape'
    BY <1>1, <1>2, <1>3, <1>5, <1>8, <2>1, <2>5 DEF Shape
  <2>7. ~multishot => ~again
    BY <1>2, <1>9 DEF again, SingleInv, HasResult
  <2>8. SingleInv'
    BY <1>1, <1>2, <1>3, <1>6, <2>3, <2>5, <2>7 DEF SingleInv
  <2>9. eof \/ error # "none" => ~again
    BY <1>2 DEF again, FlowInv
  <2>10. FlowInv'
    <3>1. reader' # "gone" /\ reader' # "waiting"
      BY <2>5
    <3>2. multishot /\ needsResubmit => Outstanding'
      BY <1>6 DEF again
    <3>3. /\ ~multishot /\ pending # <<>> => checkedOut' # {}
          /\ ~multishot /\ pending = <<>> => eof \/ error # "none"
      BY <1>9, <2>5 DEF HasResult
    <3> QED BY <1>1, <1>2, <1>3, <1>6, <1>t, <2>9, <3>1, <3>2, <3>3 DEF FlowInv
  <2>11. WaiterHasOp'
    BY <2>5 DEF WaiterHasOp
  <2> QED BY <1>7, <1>8, <2>6, <2>8, <2>10, <2>11 DEF OInv
<1>10. CASE ~HasResult(pending, eof, error)
  <2>1. /\ asked' \in Asks /\ reader' = "waiting" /\ held' = <<>> /\ checkedOut' = {}
        /\ UNCHANGED <<pending, delivered>>
    BY <1>10 DEF NextBatch
  <2>2. pending = <<>> /\ ~eof /\ error = "none"
    BY <1>10 DEF HasResult
  <2>3. Shape'
    <3>1. /\ held' \in Seq(Piece) /\ checkedOut' \in SUBSET Buffers
          /\ pending' \in Seq(Piece)
          /\ reader' \in {"running", "waiting", "over", "gone"}
      BY <1>2, <2>1 DEF Shape
    <3>2. needsResubmit' \in BOOLEAN
      BY <1>3, Zenon
    <3> QED BY <1>1, <1>2, <1>3, <1>5, <1>8, <2>1, <3>1, <3>2 DEF Shape
  <2>4. Outstanding'
    BY <1>1, <1>2, <1>6, <2>2 DEF FlowInv, again
  <2>5. SingleInv'
    BY <1>1, <1>2, <1>3, <2>1, <2>2 DEF SingleInv
  <2>6. FlowInv'
    BY <1>1, <1>3, <1>t, <2>1, <2>2, <2>4 DEF FlowInv
  <2>7. WaiterHasOp'
    BY <1>1, <2>1, <2>2, <2>4 DEF WaiterHasOp, HasResult
  <2> QED BY <1>7, <1>8, <2>3, <2>5, <2>6, <2>7 DEF OInv
<1> QED BY <1>9, <1>10

\* What the end of handle_cqe() may do: resume the waiter, who takes, or leave
\* everything in place.
LEMMA SettleIs ==
  ASSUME Shape, reader = "waiting" => checkedOut = {},
         NEW c \in Cqe, NEW pend \in Seq(Piece), Settle(c, pend),
         ~multishot => Len(pend) <= 1 /\ \A i \in DOMAIN pend : pend[i].idx = Buf
  PROVE  /\ eof' = (eof \/ c.kind = "eof") /\ sink' = sink /\ asked' = asked
         /\ error' = IF c.kind \in {"reset", "cancelled"} THEN c.kind ELSE error
         /\ \/ /\ reader = "waiting" /\ HasResult(pend, eof', error')
               /\ \E ask \in Asks :
                    /\ ask = asked
                    /\ TakesNothing(pend) \/ \E k \in 1..Len(pend) : Takes(ask, pend, k)
            \/ /\ ~(reader = "waiting" /\ HasResult(pend, eof', error'))
               /\ pending' = pend /\ UNCHANGED <<checkedOut, reader, held, delivered>>
<1>0. ~EndsUnsaid(c, eof \/ c.kind = "eof", error')
  <2>1. error' = IF c.kind \in {"reset", "cancelled"} THEN c.kind ELSE error
    BY DEF Settle
  <2> QED BY <2>1 DEF EndsUnsaid, RanDry, Cqe
<1>1. /\ eof' = (eof \/ c.kind = "eof") /\ sink' = sink
      /\ error' = IF c.kind \in {"reset", "cancelled"} THEN c.kind ELSE error
  BY <1>0 DEF Settle
<1>2. CASE reader = "waiting" /\ HasResult(pend, eof', error')
  <2>1. Take(asked, pend, checkedOut) /\ asked' = asked
    BY <1>2 DEF Settle
  <2> PICK ask \in Asks : ask = asked
    BY DEF Shape
  <2>2. Take(ask, pend, {})
    BY <1>2, <2>1 DEF Take, TakeBatch, TakeOne
  <2>3. TakesNothing(pend) \/ \E k \in 1..Len(pend) : Takes(ask, pend, k)
    BY <2>2, TakeIs
  <2> QED BY <1>1, <1>2, <2>1, <2>3
<1>3. CASE ~(reader = "waiting" /\ HasResult(pend, eof', error'))
  BY <1>1, <1>3 DEF Settle, readerVars
<1> QED BY <1>2, <1>3

\* In types: only a waiter is moved, and it is moved.
LEMMA SettleTypes ==
  ASSUME Shape, reader = "waiting" => checkedOut = {},
         NEW c \in Cqe, NEW pend \in Seq(Piece), Settle(c, pend),
         ~multishot => Len(pend) <= 1 /\ \A i \in DOMAIN pend : pend[i].idx = Buf
  PROVE  /\ held' \in Seq(Piece) /\ pending' \in Seq(Piece)
         /\ checkedOut' \in SUBSET Buffers
         /\ eof' \in BOOLEAN /\ error' \in {"none", "reset", "cancelled"}
         /\ asked' \in Asks
         /\ reader' \in {"running", "waiting", "over", "gone"}
         /\ reader' = "gone" <=> reader = "gone"
         /\ reader' = "waiting" => /\ checkedOut' = {} /\ checkedOut = {}
                                   /\ pending' = pend
                                   /\ ~HasResult(pend, eof', error')
         /\ \/ Len(pend) <= 1 => pending' = <<>> /\ (pend # <<>> => checkedOut' # {})
                                 /\ (pend = <<>> => checkedOut' = {})
            \/ pending' = pend /\ checkedOut' = checkedOut
<1>1. /\ eof' = (eof \/ c.kind = "eof") /\ asked' = asked
      /\ error' = IF c.kind \in {"reset", "cancelled"} THEN c.kind ELSE error
  BY SettleIs
<1>2. eof' \in BOOLEAN /\ error' \in {"none", "reset", "cancelled"} /\ asked' \in Asks
  BY <1>1 DEF Shape
<1>3. CASE \E ask \in Asks :
             TakesNothing(pend) \/ \E k \in 1..Len(pend) : Takes(ask, pend, k)
  <2>1. PICK ask \in Asks :
          TakesNothing(pend) \/ \E k \in 1..Len(pend) : Takes(ask, pend, k)
    BY <1>3
  <2>2. /\ held' \in Seq(Piece) /\ pending' \in Seq(Piece)
        /\ checkedOut' \in SUBSET Buffers
        /\ reader' \in {"running", "over"}
        /\ Len(pend) <= 1 => pending' = <<>>
        /\ pend # <<>> => checkedOut' # {}
        /\ pend = <<>> => pending' = <<>> /\ checkedOut' = {}
    BY <2>1, TakeTypes
  <2>3. CASE reader = "waiting"
    BY <1>2, <2>2, <2>3
  <2>4. CASE reader # "waiting"
    <3>1. pending' = pend /\ UNCHANGED <<checkedOut, reader, held>>
      BY <2>4, SettleIs
    <3> QED BY <1>2, <2>2, <2>4, <3>1 DEF Shape
  <2> QED BY <2>3, <2>4
<1>4. CASE /\ ~(reader = "waiting" /\ HasResult(pend, eof', error'))
           /\ pending' = pend /\ UNCHANGED <<checkedOut, reader, held, delivered>>
  BY <1>2, <1>4 DEF Shape
<1> QED BY <1>3, <1>4, SettleIs

\* A CQE leaves the operation outstanding, or says that the connection ended, or the
\* stream asks again, now or at the next call.
LEMMA DispatchOInv == OInv /\ Dispatch => OInv'
<1> SUFFICES ASSUME OInv, Dispatch PROVE OInv'
  OBVIOUS
<1> USE UringAssumption
<1>1. /\ UNCHANGED <<multishot, sent, peer, rcvd, slot, free, op, cancelled>>
      /\ cq # <<>> /\ cq' = Tail(cq)
  BY DEF Dispatch, peerVars
<1>2. Shape /\ OpInv /\ SingleInv /\ FlowInv /\ SinkSafe /\ WaiterHasOp
  BY DEF OInv
<1> PICK c \in Cqe : c = Head(cq)
  BY <1>1, <1>2, PopCqe
<1>3. /\ c = cq[1]
      /\ cq' \in Seq(Cqe) /\ Len(cq') = Len(cq) - 1 /\ Len(cq) \in Nat
      /\ \A i \in DOMAIN cq' : i + 1 \in DOMAIN cq /\ cq'[i] = cq[i + 1]
      /\ \A i \in DOMAIN cq' : ~cq'[i].more => i = Len(cq')
      /\ c.more => (Ended' <=> Ended)
      /\ ~c.more => cq' = <<>> /\ op = "none" /\ ~Queued /\ Ended /\ ~Ended'
      /\ cq' # <<>> => op' = "armed" \/ Ended'
  BY <1>1, <1>2, PopCqe
<1>4. /\ c.kind \in {"data", "nobufs", "eof", "reset", "cancelled"}
      /\ c.more \in BOOLEAN
      /\ c.more => c.kind = "data"
      /\ c.kind = "data" => c.idx \in Buffers /\ c.len \in 1..EntrySize
  BY CqeFields
<1>5. Outstanding /\ ~needsResubmit /\ ~eof /\ error = "none"
  <2>1. Outstanding
    BY <1>1, <1>2, OutstandingIs DEF OpInv
  <2> QED BY <1>2, <2>1 DEF FlowInv
<1>t. /\ multishot \in BOOLEAN /\ live \in BOOLEAN
      /\ pending \in Seq(Piece) /\ checkedOut \in SUBSET Buffers
      /\ reader = "waiting" => checkedOut = {}
      /\ sink # "freed" /\ live
  BY <1>1, <1>2, <1>5 DEF Shape, FlowInv, SinkSafe
<1>6. c.kind = "data" => Chunk(c) \in Piece
  BY <1>4 DEF Chunk, Piece
<1>7. ASSUME sink = "owned", multishot, HandleCqe(c) PROVE OInv'
  <2> DEFINE dry == c.kind = "nobufs" \/ (c.kind = "data" /\ ~c.more)
             again == dry /\ checkedOut = {}
  <2>1. /\ needsResubmit' = (dry /\ ~again)
        /\ sq' = IF again THEN Append(sq, "recv") ELSE sq
        /\ live' = (again \/ c.more)
        /\ Settle(c, IF c.kind = "data" THEN Append(pending, Chunk(c)) ELSE pending)
    BY <1>4, <1>5, <1>7, <1>t DEF HandleCqe, RanDry, Resubmits
  <2> DEFINE pend0 == IF c.kind = "data" THEN Append(pending, Chunk(c)) ELSE pending
  <2>2. pend0 \in Seq(Piece) /\ (c.kind = "data" => pend0 # <<>>)
    BY <1>6, <1>t, AppendFacts
  <2> PICK pend \in Seq(Piece) : pend = pend0
    BY <2>2
  <2>3. Settle(c, pend) /\ (c.kind = "data" => pend # <<>>)
    BY <2>1, <2>2 DEF Settle, Take, TakeBatch, TakeOne
  <2>4. /\ held' \in Seq(Piece) /\ pending' \in Seq(Piece)
        /\ checkedOut' \in SUBSET Buffers
        /\ eof' \in BOOLEAN /\ error' \in {"none", "reset", "cancelled"}
        /\ asked' \in Asks
        /\ reader' \in {"running", "waiting", "over", "gone"}
        /\ reader' = "gone" <=> reader = "gone"
        /\ reader' = "waiting" => /\ checkedOut' = {} /\ checkedOut = {}
                                  /\ pending' = pend
                                  /\ ~HasResult(pend, eof', error')
    BY <1>2, <1>7, <1>t, <2>3, SettleTypes
  <2>5. /\ eof' = (c.kind = "eof") /\ sink' = sink
        /\ error' = IF c.kind \in {"reset", "cancelled"} THEN c.kind ELSE "none"
    BY <1>2, <1>5, <1>7, <1>t, <2>3, SettleIs
  <2>6. c.more => ~dry
    BY <1>4
  <2>7. dry \in BOOLEAN /\ again \in BOOLEAN
    OBVIOUS
  <2> HIDE DEF pend0
  <2>8. /\ sq' \in Seq({"recv", "cancelFd", "cancelSink"})
        /\ Queued' <=> Queued \/ again
        /\ \A i, j \in DOMAIN sq' : sq'[i] = "recv" /\ sq'[j] = "recv" => i = j
    <3>1. CASE again
      BY <1>2, <1>3, <2>1, <2>6, <3>1, PushSqe
    <3>2. CASE ~again
      BY <1>2, <2>1, <3>2 DEF Shape, OpInv, Queued
    <3> QED BY <3>1, <3>2
  <2>9. Outstanding' <=> c.more \/ again
    <3>1. Outstanding' <=> Queued' \/ op' = "armed" \/ Ended'
      BY DEF Outstanding, Queued, Ended
    <3>2. Outstanding <=> Queued \/ op = "armed" \/ Ended
      BY OutstandingIs
    <3>3. CASE c.more
      BY <1>1, <1>3, <1>5, <2>6, <2>8, <3>1, <3>2, <3>3
    <3>4. CASE ~c.more
      BY <1>1, <1>3, <2>8, <3>1, <3>4
    <3> QED BY <3>3, <3>4
  <2>10. Shape'
    <3>1. live' \in BOOLEAN /\ needsResubmit' \in BOOLEAN
      BY <1>4, <2>1, <2>7
    <3> QED BY <1>1, <1>2, <1>3, <2>4, <2>5, <2>8, <3>1 DEF Shape
  <2>11. OpInv'
    <3>1. again => ~Ended' /\ op = "none"
      BY <1>3, <2>6
    <3>2. op' = "armed" => ~Queued' /\ ~Ended'
      BY <1>1, <1>2, <1>3, <2>8, <3>1 DEF OpInv
    <3>3. Queued' => ~Ended'
      BY <1>2, <1>3, <2>8, <3>1 DEF OpInv
    <3> QED BY <1>3, <2>8, <3>2, <3>3 DEF OpInv
  <2>12. SingleInv'
    BY <1>1, <1>7 DEF SingleInv
  <2>13. FlowInv'
    <3>1. eof' \/ error' # "none" => ~Outstanding' /\ ~needsResubmit'
      BY <1>4, <2>1, <2>5, <2>9
    <3>2. needsResubmit' => ~Outstanding'
      BY <2>1, <2>6, <2>9
    <3>3. eof' \/ error' # "none" \/ Outstanding' \/ needsResubmit'
      BY <1>4, <2>1, <2>5, <2>9
    <3>4. sink' = "owned" /\ reader' # "gone"
      BY <1>2, <1>7, <2>4, <2>5 DEF FlowInv
    <3> QED BY <1>1, <1>7, <2>4, <3>1, <3>2, <3>3, <3>4 DEF FlowInv
  <2>14. SinkSafe'
    <3>1. live' \in BOOLEAN /\ (live' <=> Outstanding')
      BY <1>4, <2>1, <2>7, <2>9
    <3> QED BY <1>7, <2>5, <3>1 DEF SinkSafe, Outstanding
  <2>15. WaiterHasOp'
    <3>1. ASSUME reader' = "waiting" PROVE Outstanding' /\ ~HasResult(pending, eof, error)'
      <4>1. pend = <<>> /\ ~eof' /\ error' = "none" /\ checkedOut = {} /\ pending' = pend
        BY <2>4, <3>1 DEF HasResult
      <4>2. c.kind = "nobufs"
        BY <1>4, <2>3, <2>5, <4>1
      <4> QED BY <2>9, <4>1, <4>2 DEF HasResult
    <3> QED BY <3>1 DEF WaiterHasOp
  <2> QED BY <2>10, <2>11, <2>12, <2>13, <2>14, <2>15 DEF OInv
<1>8. ASSUME sink = "owned", ~multishot, SingleHandleCqe(c) PROVE OInv'
  <2>1. ~c.more /\ c.kind # "nobufs" /\ (c.kind = "data" => c.idx = Buf)
    <3>1. 1 \in DOMAIN cq
      BY <1>1, <1>2, TailFacts DEF Shape
    <3> QED BY <1>2, <1>3, <1>8, <3>1 DEF SingleInv
  <2>2. pending = <<>> /\ checkedOut = {} /\ needsResubmit = FALSE
    BY <1>2, <1>5, <1>8 DEF SingleInv, Shape
  <2>3. /\ UNCHANGED <<sq, needsResubmit>> /\ live' = FALSE
        /\ Settle(c, IF c.kind = "data" THEN <<Chunk(c)>> ELSE pending)
    BY <1>8 DEF SingleHandleCqe
  <2> DEFINE pend0 == IF c.kind = "data" THEN <<Chunk(c)>> ELSE pending
  <2>4. /\ pend0 \in Seq(Piece) /\ Len(pend0) <= 1
        /\ c.kind = "data" <=> pend0 # <<>>
        /\ \A i \in DOMAIN pend0 : pend0[i].idx = Buf
    BY <1>6, <1>t, <2>1, <2>2 DEF Chunk
  <2> PICK pend \in Seq(Piece) : pend = pend0
    BY <2>4
  <2>5. /\ Settle(c, pend)
        /\ Len(pend) <= 1 /\ \A i \in DOMAIN pend : pend[i].idx = Buf
        /\ c.kind = "data" <=> pend # <<>>
    BY <2>3, <2>4 DEF Settle, Take, TakeBatch, TakeOne
  <2> HIDE DEF pend0
  <2>6. /\ held' \in Seq(Piece) /\ pending' \in Seq(Piece)
        /\ checkedOut' \in SUBSET Buffers
        /\ eof' \in BOOLEAN /\ error' \in {"none", "reset", "cancelled"}
        /\ asked' \in Asks
        /\ reader' \in {"running", "waiting", "over", "gone"}
        /\ reader' = "gone" <=> reader = "gone"
        /\ reader' = "waiting" => /\ checkedOut' = {} /\ checkedOut = {}
                                  /\ pending' = pend
                                  /\ ~HasResult(pend, eof', error')
        /\ \/ Len(pend) <= 1 => pending' = <<>> /\ (pend # <<>> => checkedOut' # {})
                                /\ (pend = <<>> => checkedOut' = {})
           \/ pending' = pend /\ checkedOut' = checkedOut
    BY <1>2, <1>8, <1>t, <2>5, SettleTypes
  <2>7. /\ eof' = (c.kind = "eof") /\ sink' = sink
        /\ error' = IF c.kind \in {"reset", "cancelled"} THEN c.kind ELSE "none"
    BY <1>2, <1>5, <1>8, <1>t, <2>5, SettleIs
  <2>8. ~Outstanding' /\ ~Queued' /\ ~Ended' /\ op' = "none" /\ cq' = <<>>
    <3>1. ~Queued' /\ ~Ended' /\ op' = "none" /\ cq' = <<>>
      BY <1>1, <1>3, <2>1, <2>3 DEF Queued
    <3> QED BY <3>1 DEF Outstanding, Queued, Ended
  <2>9. Shape'
    <3>1. live' \in BOOLEAN /\ needsResubmit' \in BOOLEAN
      BY <2>2, <2>3, Zenon
    <3>2. sq' \in Seq({"recv", "cancelFd", "cancelSink"})
      BY <1>2, <2>3 DEF Shape
    <3> QED BY <1>1, <1>2, <1>3, <2>6, <2>7, <3>1, <3>2 DEF Shape
  <2>10. OpInv'
    BY <1>2, <1>3, <2>3, <2>8 DEF OpInv
  <2>11. SingleInv'
    <3>1. /\ pending' = <<>> \/ (pending' = pend /\ checkedOut' = {})
      BY <2>2, <2>5, <2>6
    <3>2. Len(pending') <= 1 /\ \A i \in DOMAIN pending' : pending'[i].idx = Buf
      BY <2>5, <3>1
    <3> QED BY <2>2, <2>3, <2>8, <3>1, <3>2 DEF SingleInv
  <2>12. FlowInv'
    <3>1. eof' \/ error' # "none" \/ pending' # <<>> \/ checkedOut' # {}
      BY <1>4, <2>1, <2>5, <2>6, <2>7
    <3>2. sink' = "owned" /\ reader' # "gone"
      BY <1>2, <1>8, <2>6, <2>7 DEF FlowInv
    <3> QED BY <1>1, <1>8, <2>2, <2>3, <2>6, <2>8, <3>1, <3>2 DEF FlowInv
  <2>13. SinkSafe'
    BY <1>8, <2>3, <2>7, <2>8 DEF SinkSafe, Outstanding
  <2>14. WaiterHasOp'
    BY <1>4, <2>1, <2>5, <2>6, <2>7 DEF WaiterHasOp, HasResult
  <2> QED BY <2>9, <2>10, <2>11, <2>12, <2>13, <2>14 DEF OInv
<1>9. ASSUME sink = "orphan",
             (multishot /\ OrphanCqe(c)) \/ (~multishot /\ SingleOrphanCqe)
      PROVE  OInv'
  <2>1. UNCHANGED <<sq, pending, checkedOut, eof, error, needsResubmit, reader, asked,
                    held, delivered>>
    BY <1>9 DEF OrphanCqe, SingleOrphanCqe, streamVars, readerVars
  <2>2. ~multishot => ~c.more
    <3>1. 1 \in DOMAIN cq
      BY <1>1, <1>2, TailFacts DEF Shape
    <3> QED BY <1>2, <1>3, <3>1 DEF SingleInv
  <2>3. /\ live' = c.more
        /\ sink' = IF c.more THEN "orphan" ELSE "freed"
    BY <1>4, <1>9, <1>t, <2>2 DEF OrphanCqe, SingleOrphanCqe, LastCqe
  <2>4. (Queued' <=> Queued) /\ (Outstanding' <=> c.more)
    <3>1. Queued' <=> Queued
      BY <2>1 DEF Queued
    <3>2. Outstanding' <=> Queued' \/ op' = "armed" \/ Ended'
      BY DEF Outstanding, Queued, Ended
    <3>3. Outstanding <=> Queued \/ op = "armed" \/ Ended
      BY OutstandingIs
    <3> QED BY <1>1, <1>3, <1>5, <3>1, <3>2, <3>3
  <2>5. Shape'
    <3>1. live' \in BOOLEAN
      BY <1>4, <2>3
    <3> QED BY <1>1, <1>2, <1>3, <2>1, <2>3, <3>1 DEF Shape
  <2>6. OpInv'
    <3>1. op' = "armed" => ~Queued' /\ ~Ended'
      BY <1>1, <1>2, <1>3, <2>4 DEF OpInv
    <3>2. Queued' => ~Ended'
      BY <1>2, <1>3, <2>4 DEF OpInv
    <3> QED BY <1>2, <1>3, <2>1, <3>1, <3>2 DEF OpInv
  <2>7. SingleInv'
    BY <1>1, <1>2, <1>3, <2>1, <2>2, <2>4 DEF SingleInv
  <2>8. FlowInv'
    BY <1>1, <1>2, <1>5, <1>9, <2>1, <2>3 DEF FlowInv
  <2>9. SinkSafe'
    BY <1>3, <1>4, <2>3, <2>4 DEF SinkSafe, Outstanding
  <2>10. WaiterHasOp'
    BY <1>2, <1>9, <2>1 DEF FlowInv, WaiterHasOp
  <2> QED BY <2>5, <2>6, <2>7, <2>8, <2>9, <2>10 DEF OInv
<1>10. \/ sink = "owned" /\ multishot /\ HandleCqe(c)
       \/ sink = "owned" /\ ~multishot /\ SingleHandleCqe(c)
       \/ sink = "orphan" /\ multishot /\ OrphanCqe(c)
       \/ sink = "orphan" /\ ~multishot /\ SingleOrphanCqe
  BY DEF Dispatch, HandleCqe, SingleHandleCqe, OrphanCqe, Settle, RanDry, Chunk, LastCqe
<1> QED BY <1>7, <1>8, <1>9, <1>10

\* A step that changes nothing preserves the invariant.
LEMMA StutterOInv == OInv /\ UNCHANGED vars => OInv'
<1> SUFFICES ASSUME OInv, UNCHANGED vars PROVE OInv'
  OBVIOUS
<1>1. (Outstanding' <=> Outstanding) /\ OpInv' /\ Shape'
  BY SameOp DEF vars, OInv, Shape
<1>2. SingleInv' /\ FlowInv' /\ SinkSafe' /\ WaiterHasOp'
  BY <1>1 DEF vars, OInv, SingleInv, FlowInv, SinkSafe, WaiterHasOp, HasResult,
              Outstanding
<1> QED BY <1>1, <1>2 DEF OInv

\* OInv is inductive.
LEMMA StepOInv == OInv /\ [Next]_vars => OInv'
BY PeerOInv, SubmitOInv, KernelOInv, DispatchOInv, NextBatchOInv, CancelFdOInv,
   DestroyOInv, StutterOInv DEF Next, Kernel

\* It holds in every state of kernel, queue, reader and destructor interleaved.
LEMMA InductiveOp == Spec => []OInv
BY InitOInv, StepOInv, PTL DEF Spec

\* The sink is freed only when the kernel will neither write to its buffers nor
\* complete to it, and until then _live is true exactly while its recv is queued,
\* in the kernel or yet to be completed: a detached sink is neither freed early
\* nor freed by the destructor with a recv in flight.
THEOREM SinkSafeHolds == Spec => []SinkSafe
<1>1. OInv => SinkSafe
  BY DEF OInv
<1> QED BY <1>1, InductiveOp, PTL

\* A reader is suspended only while its recv is outstanding and nothing is there for
\* it: running out of provided buffers, an operation that the kernel ends with a
\* chunk, or the single-shot buffer given back never leave it without one.
THEOREM WaiterHasOpHolds == Spec => []WaiterHasOp
<1>1. OInv => WaiterHasOp
  BY DEF OInv
<1> QED BY <1>1, InductiveOp, PTL

-----------------------------------------------------------------------------
(* The buffers. *)

(***************************************************************************)
(* What next_batch() gives back is what the reader holds: neither stream   *)
(* returns a buffer that still carries a chunk, nor keeps one back.        *)
(***************************************************************************)
BInv ==
  /\ BuffersConserved
  /\ reader # "gone" => checkedOut = HeldBufs

\* The buffers of a queue of chunks, and that each occurs once.
Idxs(q) == {q[i].idx : i \in DOMAIN q}
Distinct(q) == \A i, j \in DOMAIN q : q[i].idx = q[j].idx => i = j

\* A chunk in a buffer of its own joins the queue.
LEMMA IdxsAppend ==
  ASSUME NEW q \in Seq(Piece), NEW x \in Piece, Distinct(q), x.idx \notin Idxs(q)
  PROVE  Distinct(Append(q, x)) /\ Idxs(Append(q, x)) = Idxs(q) \cup {x.idx}
<1> DEFINE a == Append(q, x)
<1>1. /\ Len(q) \in Nat /\ a \in Seq(Piece) /\ Len(a) = Len(q) + 1
      /\ \A i \in 1..Len(q) : a[i] = q[i]
      /\ a[Len(q) + 1] = x
  BY AppendFacts
<1> HIDE DEF a
<1>2. DOMAIN q = 1..Len(q) /\ DOMAIN a = 1..(Len(q) + 1)
  BY <1>1
<1>3. DOMAIN a = DOMAIN q \cup {Len(q) + 1}
  BY <1>1, <1>2
<1>4. \A i \in DOMAIN q : a[i] = q[i]
  BY <1>1, <1>2
<1>5. Distinct(a)
  BY <1>1, <1>3, <1>4 DEF Distinct, Idxs
<1>6. Idxs(a) = Idxs(q) \cup {x.idx}
  BY <1>1, <1>3, <1>4 DEF Idxs
<1> QED BY <1>5, <1>6 DEF a

\* Splitting the queue splits its buffers.
LEMMA IdxsSplit ==
  ASSUME NEW q \in Seq(Piece), NEW k \in 1..Len(q), Distinct(q)
  PROVE  /\ Distinct(SubSeq(q, 1, k)) /\ Distinct(Remaining(q, k))
         /\ Idxs(SubSeq(q, 1, k)) \cap Idxs(Remaining(q, k)) = {}
         /\ Idxs(SubSeq(q, 1, k)) \cup Idxs(Remaining(q, k)) = Idxs(q)
         /\ Idxs(SubSeq(q, 1, k)) = {q[i].idx : i \in 1..k}
<1> DEFINE a == SubSeq(q, 1, k)
           b == Remaining(q, k)
<1>1. /\ a \in Seq(Piece) /\ Len(a) = k /\ \A i \in 1..k : a[i] = q[i]
      /\ b \in Seq(Piece) /\ Len(b) = Len(q) - k
      /\ \A i \in 1..(Len(q) - k) : b[i] = q[i + k]
  BY SplitQueue
<1>n. Len(q) \in Nat
  OBVIOUS
<1> HIDE DEF a, b
<1>2. DOMAIN q = 1..Len(q) /\ DOMAIN a = 1..k /\ DOMAIN b = 1..(Len(q) - k)
  BY <1>1, <1>n
<1>3. \A i \in DOMAIN a : i \in DOMAIN q /\ a[i] = q[i]
  BY <1>1, <1>2, <1>n
<1>4. \A i \in DOMAIN b : i + k \in DOMAIN q /\ b[i] = q[i + k] /\ i + k \notin DOMAIN a
  BY <1>1, <1>2, <1>n
<1>5. \A i \in DOMAIN q : i \in DOMAIN a \/ (i - k \in DOMAIN b /\ (i - k) + k = i)
  BY <1>1, <1>2, <1>n
<1>6. Distinct(a)
  BY <1>3 DEF Distinct
<1>7. Distinct(b)
  <2>1. ASSUME NEW i \in DOMAIN b, NEW j \in DOMAIN b, b[i].idx = b[j].idx PROVE i = j
    <3>1. i + k = j + k
      BY <1>4, <2>1 DEF Distinct
    <3> QED BY <1>1, <1>2, <1>n, <3>1
  <2> QED BY <2>1 DEF Distinct
<1>8. Idxs(a) \cap Idxs(b) = {}
  BY <1>3, <1>4 DEF Idxs, Distinct
<1>9. Idxs(a) \cup Idxs(b) = Idxs(q)
  <2>1. ASSUME NEW x \in Idxs(q) PROVE x \in Idxs(a) \cup Idxs(b)
    <3>1. PICK i \in DOMAIN q : x = q[i].idx
      BY <2>1 DEF Idxs
    <3>2. CASE i \in DOMAIN a
      BY <1>3, <3>1, <3>2 DEF Idxs
    <3>3. CASE i - k \in DOMAIN b /\ (i - k) + k = i
      <4>1. b[i - k] = q[i]
        BY <1>4, <3>3
      <4> QED BY <3>1, <3>3, <4>1 DEF Idxs
    <3> QED BY <1>5, <3>2, <3>3
  <2>2. Idxs(a) \cup Idxs(b) \subseteq Idxs(q)
    BY <1>3, <1>4 DEF Idxs
  <2> QED BY <2>1, <2>2
<1>10. Idxs(a) = {q[i].idx : i \in 1..k}
  BY <1>2, <1>3 DEF Idxs
<1> QED BY <1>6, <1>7, <1>8, <1>9, <1>10 DEF a, b

\* Handing out moves buffers from the queue to the reader, and checks out just those.
LEMMA TakeBufs ==
  ASSUME NEW ask, NEW pend \in Seq(Piece), Distinct(pend),
         TakesNothing(pend) \/ \E k \in 1..Len(pend) : Takes(ask, pend, k)
  PROVE  /\ Distinct(held)' /\ Distinct(pending)'
         /\ HeldBufs' \cap PendingBufs' = {}
         /\ HeldBufs' \cup PendingBufs' = Idxs(pend)
         /\ checkedOut' = HeldBufs'
<1>1. CASE TakesNothing(pend)
  BY <1>1 DEF TakesNothing, Distinct, Idxs, HeldBufs, PendingBufs
<1>2. ASSUME NEW k \in 1..Len(pend), Takes(ask, pend, k)
      PROVE  /\ Distinct(held)' /\ Distinct(pending)'
             /\ HeldBufs' \cap PendingBufs' = {}
             /\ HeldBufs' \cup PendingBufs' = Idxs(pend)
             /\ checkedOut' = HeldBufs'
  <2> DEFINE a == SubSeq(pend, 1, k)
             b == Remaining(pend, k)
  <2>1. /\ Distinct(a) /\ Distinct(b) /\ Idxs(a) \cap Idxs(b) = {}
        /\ Idxs(a) \cup Idxs(b) = Idxs(pend)
        /\ Idxs(a) = {pend[i].idx : i \in 1..k}
    BY <1>2, IdxsSplit
  <2>2. held' = a /\ pending' = b /\ checkedOut' = {pend[i].idx : i \in 1..k}
    BY <1>2 DEF Takes
  <2> HIDE DEF a, b
  <2>3. HeldBufs' = Idxs(a) /\ PendingBufs' = Idxs(b)
    BY <2>2 DEF HeldBufs, PendingBufs, Idxs
  <2>4. Distinct(held)' /\ Distinct(pending)'
    BY <2>1, <2>2 DEF Distinct
  <2> QED BY <2>1, <2>2, <2>3, <2>4
<1> QED BY <1>1, <1>2

\* BuffersConserved by queues.
LEMMA ConservedIs ==
  BuffersConserved <=>
    (reader # "gone" =>
       /\ Distinct(held) /\ Distinct(pending)
       /\ \A i, j \in Arriving : cq[i].idx = cq[j].idx => i = j
       /\ HeldBufs \cap PendingBufs = {}
       /\ (HeldBufs \cup PendingBufs) \cap ArrivingBufs = {}
       /\ (HeldBufs \cup PendingBufs \cup ArrivingBufs) \cap KernelMayWrite = {}
       /\ multishot => HeldBufs \cup PendingBufs \cup ArrivingBufs \cup free = Buffers)
BY DEF BuffersConserved, Distinct

\* A CQE leaves the completion queue, and its buffer with it.
LEMMA PopArriving ==
  ASSUME Shape, cq # <<>>, cq' = Tail(cq),
         \A i, j \in Arriving : cq[i].idx = cq[j].idx => i = j
  PROVE  /\ (\A i, j \in Arriving : cq[i].idx = cq[j].idx => i = j)'
         /\ Head(cq).kind = "data" => /\ Head(cq).idx \in ArrivingBufs
                                      /\ ArrivingBufs' = ArrivingBufs \ {Head(cq).idx}
         /\ Head(cq).kind # "data" => ArrivingBufs' = ArrivingBufs
<1>1. cq \in Seq(Cqe)
  BY DEF Shape
<1>2. /\ Len(cq) \in Nat \ {0} /\ Head(cq) = cq[1]
      /\ cq' \in Seq(Cqe) /\ Len(cq') = Len(cq) - 1
      /\ \A i \in 1..(Len(cq) - 1) : cq'[i] = cq[i + 1]
  BY <1>1, TailFacts
<1>3. DOMAIN cq = 1..Len(cq) /\ DOMAIN cq' = 1..(Len(cq) - 1)
  BY <1>1, <1>2
<1>4. \A i \in Arriving' : i + 1 \in Arriving /\ i + 1 # 1 /\ cq'[i] = cq[i + 1]
  BY <1>2, <1>3 DEF Arriving
<1>5. \A i \in Arriving : i # 1 => i - 1 \in Arriving' /\ cq'[i - 1] = cq[i]
  <2> TAKE i \in Arriving
  <2> HAVE i # 1
  <2>1. i \in 1..Len(cq) /\ cq[i].kind = "data"
    BY <1>3 DEF Arriving
  <2>2. i - 1 \in 1..(Len(cq) - 1) /\ (i - 1) + 1 = i
    BY <1>2, <2>1
  <2>3. cq'[i - 1] = cq[i]
    BY <1>2, <2>2
  <2> QED BY <1>3, <2>1, <2>2, <2>3 DEF Arriving
<1>6. \A i, j \in Arriving' : cq'[i].idx = cq'[j].idx => i = j
  <2> TAKE i, j \in Arriving'
  <2> HAVE cq'[i].idx = cq'[j].idx
  <2>1. /\ i + 1 \in Arriving /\ j + 1 \in Arriving
        /\ cq[i + 1].idx = cq[j + 1].idx
    BY <1>4
  <2>2. i + 1 = j + 1
    BY <2>1
  <2>3. i \in 1..(Len(cq) - 1) /\ j \in 1..(Len(cq) - 1)
    BY <1>3 DEF Arriving
  <2> QED BY <1>2, <2>2, <2>3
<1>7. ArrivingBufs' = {cq[i].idx : i \in Arriving \ {1}}
  <2>1. ASSUME NEW i \in Arriving' PROVE cq'[i].idx \in {cq[j].idx : j \in Arriving \ {1}}
    BY <1>4, <2>1
  <2>2. ASSUME NEW i \in Arriving \ {1} PROVE cq[i].idx \in ArrivingBufs'
    BY <1>5, <2>2 DEF ArrivingBufs
  <2> QED BY <2>1, <2>2 DEF ArrivingBufs
<1>8. 1 \in Arriving <=> Head(cq).kind = "data"
  BY <1>2, <1>3 DEF Arriving
<1>9. CASE Head(cq).kind = "data"
  <2>1. 1 \in Arriving /\ Head(cq).idx = cq[1].idx
    BY <1>2, <1>8, <1>9
  <2>2. \A i \in Arriving : i # 1 => cq[i].idx # cq[1].idx
    BY <2>1
  <2>3. ArrivingBufs' = ArrivingBufs \ {Head(cq).idx} /\ Head(cq).idx \in ArrivingBufs
    BY <1>7, <2>1, <2>2, ZenonT(60) DEF ArrivingBufs
  <2> QED BY <1>6, <1>9, <2>3
<1>10. CASE Head(cq).kind # "data"
  <2>1. Arriving \ {1} = Arriving
    BY <1>8, <1>10
  <2> QED BY <1>6, <1>7, <1>10, <2>1 DEF ArrivingBufs
<1> QED BY <1>9, <1>10

\* A CQE joins the completion queue.
LEMMA PushArriving ==
  ASSUME Shape, NEW c \in Cqe, cq' = Append(cq, c)
  PROVE  /\ c.kind # "data" => Arriving' = Arriving
         /\ c.kind = "data" => Arriving' = Arriving \cup {Len(cq) + 1}
         /\ \A i \in Arriving : cq'[i] = cq[i] /\ i # Len(cq) + 1
         /\ cq'[Len(cq) + 1] = c
<1>1. cq \in Seq(Cqe) /\ Len(cq) \in Nat
  BY DEF Shape
<1>2. /\ Len(cq') = Len(cq) + 1 /\ cq' \in Seq(Cqe)
      /\ \A i \in 1..Len(cq) : cq'[i] = cq[i]
      /\ cq'[Len(cq) + 1] = c
  BY <1>1, AppendFacts
<1>3. DOMAIN cq = 1..Len(cq) /\ DOMAIN cq' = 1..(Len(cq) + 1)
  BY <1>1, <1>2
<1>4. DOMAIN cq' = DOMAIN cq \cup {Len(cq) + 1} /\ Len(cq) + 1 \notin DOMAIN cq
  BY <1>1, <1>3
<1>5. \A i \in DOMAIN cq : cq'[i] = cq[i]
  BY <1>2, <1>3
<1> QED BY <1>2, <1>4, <1>5 DEF Arriving

\* No chunk moves, and the kernel gets no buffer.
LEMMA KeepBufs ==
  ASSUME BInv, UNCHANGED <<multishot, reader, held, pending, checkedOut, free>>,
         Arriving' = Arriving, \A i \in Arriving : cq'[i] = cq[i],
         KernelMayWrite' \subseteq KernelMayWrite
  PROVE  BInv'
<1>1. HeldBufs' = HeldBufs /\ PendingBufs' = PendingBufs
  BY DEF HeldBufs, PendingBufs
<1>2. ArrivingBufs' = ArrivingBufs
  BY DEF ArrivingBufs
<1>3. (\A i, j \in Arriving : cq[i].idx = cq[j].idx => i = j)
        => \A i, j \in Arriving' : cq'[i].idx = cq'[j].idx => i = j
  OBVIOUS
<1>4. (Distinct(held)' <=> Distinct(held)) /\ (Distinct(pending)' <=> Distinct(pending))
  BY DEF Distinct
<1> QED BY <1>1, <1>2, <1>3, <1>4, ConservedIs DEF BInv, BuffersConserved, Distinct

\* Whose buffer the kernel may write, by mode.
LEMMA MayWriteIs ==
  /\ multishot => KernelMayWrite = free
  /\ ~multishot => KernelMayWrite = IF op = "armed" \/ Queued THEN {Buf} ELSE {}
BY DEF KernelMayWrite, Queued

\* In the first state every buffer is the kernel's.
LEMMA InitBInv == Init => BInv
<1> SUFFICES ASSUME Init PROVE BInv
  OBVIOUS
<1>1. held = <<>> /\ pending = <<>> /\ cq = <<>> /\ checkedOut = {}
      /\ (multishot => free = Buffers)
  BY DEF Init
<1>2. HeldBufs = {} /\ PendingBufs = {} /\ Arriving = {}
  BY <1>1 DEF HeldBufs, PendingBufs, Arriving
<1>3. ArrivingBufs = {}
  BY <1>2 DEF ArrivingBufs
<1> QED BY <1>1, <1>2, <1>3 DEF BInv, BuffersConserved

\* The peer, cancel_fd() and a submission move no chunk.
LEMMA QuietBInv ==
  OInv /\ BInv /\ (PeerSend \/ PeerEnd \/ CancelFd \/ Submit \/ UNCHANGED vars) => BInv'
<1> SUFFICES ASSUME OInv, BInv,
                    PeerSend \/ PeerEnd \/ CancelFd \/ Submit \/ UNCHANGED vars
             PROVE  BInv'
  OBVIOUS
<1>1. UNCHANGED <<multishot, reader, held, pending, checkedOut, free>>
  BY DEF PeerSend, PeerEnd, CancelFd, Submit, peerVars, streamVars, readerVars, vars
<1>2. Shape /\ OpInv /\ multishot \in BOOLEAN
  BY UringAssumption DEF OInv, Shape
<1>3. /\ Arriving' = Arriving /\ \A i \in Arriving : cq'[i] = cq[i]
      /\ op' = "armed" \/ Queued' => op = "armed" \/ Queued
  <2>1. CASE PeerSend \/ PeerEnd \/ UNCHANGED vars
    BY <2>1 DEF PeerSend, PeerEnd, vars, Arriving, Queued
  <2>2. CASE CancelFd
    <3>1. sq' = Append(sq, "cancelFd") /\ cq' = cq /\ op' = op
      BY <2>2 DEF CancelFd
    <3>2. Queued' <=> Queued
      BY <1>2, <3>1, PushSqe
    <3> QED BY <3>1, <3>2 DEF Arriving
  <2>3. CASE Submit
    <3>1. sq \in Seq({"recv", "cancelFd", "cancelSink"}) /\ sq # <<>> /\ sq' = Tail(sq)
      BY <1>2, <2>3 DEF Submit, Shape
    <3>2. ToSet(sq) = {Head(sq)} \cup ToSet(Tail(sq))
      BY <3>1, ToSetFacts
    <3>3. Queued <=> Head(sq) = "recv" \/ Queued'
      BY <3>1, <3>2 DEF Queued
    <3>4. CASE Head(sq) = "recv"
      BY <2>3, <3>3, <3>4 DEF Submit, Arriving
    <3>5. CASE Head(sq) # "recv" /\ op = "armed"
      <4> DEFINE c == [kind |-> "cancelled", more |-> FALSE]
      <4>1. cq' = Append(cq, c)
        BY <2>3, <3>5 DEF Submit
      <4>2. c \in Cqe /\ c.kind # "data"
        BY DEF Cqe
      <4> HIDE DEF c
      <4>3. Arriving' = Arriving /\ \A i \in Arriving : cq'[i] = cq[i]
        BY <1>2, <4>1, <4>2, PushArriving
      <4> QED BY <3>5, <4>3
    <3>6. CASE Head(sq) # "recv" /\ op # "armed"
      BY <2>3, <3>3, <3>6 DEF Submit, Arriving
    <3> QED BY <3>4, <3>5, <3>6
  <2> QED BY <2>1, <2>2, <2>3
<1>4. KernelMayWrite' \subseteq KernelMayWrite
  BY <1>1, <1>2, <1>3 DEF KernelMayWrite, Queued
<1> QED BY <1>1, <1>3, <1>4, KeepBufs

\* The kernel writes only to a buffer that is its to write, and the chunk takes the
\* buffer with it.
LEMMA KernelBInv == OInv /\ BInv /\ (KernelData \/ KernelEnd) => BInv'
<1> SUFFICES ASSUME OInv, BInv, KernelData \/ KernelEnd PROVE BInv'
  OBVIOUS
<1>1. /\ UNCHANGED <<multishot, sq, pending, checkedOut, reader, held>>
      /\ op = "armed"
  BY DEF KernelData, KernelEnd, peerVars, sinkVars, streamVars, readerVars
<1>2. /\ Shape /\ OpInv /\ multishot \in BOOLEAN /\ free \in SUBSET Buffers
      /\ Buf \in Buffers
  BY UringAssumption DEF OInv, Shape, Buf
<1>3. CASE KernelEnd
  <2>1. PICK kind \in {"nobufs", "eof", "reset"} :
          cq' = Append(cq, [kind |-> kind, more |-> FALSE])
    BY <1>3 DEF KernelEnd
  <2> DEFINE c == [kind |-> kind, more |-> FALSE]
  <2>2. c \in Cqe /\ c.kind # "data"
    BY <2>1 DEF Cqe
  <2>3. cq' = Append(cq, c)
    BY <2>1
  <2> HIDE DEF c
  <2>4. Arriving' = Arriving /\ \A i \in Arriving : cq'[i] = cq[i]
    BY <1>2, <2>2, <2>3, PushArriving
  <2>5. op' = "none" /\ free' = free
    BY <1>3 DEF KernelEnd
  <2>6. KernelMayWrite' \subseteq KernelMayWrite
    BY <1>1, <1>2, <2>5 DEF KernelMayWrite
  <2> QED BY <1>1, <2>4, <2>5, <2>6, KeepBufs
<1>4. CASE KernelData
  <2>1. PICK b \in (IF multishot THEN free ELSE {Buf}), r \in 1..EntrySize,
             more \in BOOLEAN :
          /\ more => multishot
          /\ free' = free \ {b}
          /\ op' = IF more THEN op ELSE "none"
          /\ cq' = Append(cq, [kind |-> "data", idx |-> b, len |-> r, more |-> more])
    BY <1>4 DEF KernelData
  <2> DEFINE c == [kind |-> "data", idx |-> b, len |-> r, more |-> more]
  <2>2. b \in Buffers
    BY <1>2, <2>1
  <2>3. c \in Cqe /\ c.kind = "data" /\ c.idx = b
    BY <2>1, <2>2 DEF Cqe
  <2>4. cq' = Append(cq, c)
    BY <2>1
  <2> HIDE DEF c
  <2>5. /\ Arriving' = Arriving \cup {Len(cq) + 1}
        /\ \A i \in Arriving : cq'[i] = cq[i] /\ i # Len(cq) + 1
        /\ cq'[Len(cq) + 1] = c
    BY <1>2, <2>3, <2>4, PushArriving
  <2>6. ArrivingBufs' = ArrivingBufs \cup {b}
    BY <2>3, <2>5 DEF ArrivingBufs
  <2>7. HeldBufs' = HeldBufs /\ PendingBufs' = PendingBufs
    BY <1>1 DEF HeldBufs, PendingBufs
  <2>8. b \in KernelMayWrite
    BY <1>1, <2>1 DEF KernelMayWrite
  <2>9. KernelMayWrite' = KernelMayWrite \ {b}
    <3>1. CASE multishot
      BY <1>1, <2>1, <3>1 DEF KernelMayWrite
    <3>2. CASE ~multishot
      <4>1. op' = "none" /\ ~Queued' /\ b = Buf
        BY <1>1, <1>2, <2>1, <3>2 DEF OpInv, Queued
      <4> QED BY <1>1, <3>2, <4>1 DEF KernelMayWrite, Queued
    <3> QED BY <3>1, <3>2
  <2>10. ASSUME reader # "gone"
         PROVE  /\ HeldBufs \cap PendingBufs = {}
                /\ (HeldBufs \cup PendingBufs) \cap ArrivingBufs = {}
                /\ (HeldBufs \cup PendingBufs \cup ArrivingBufs) \cap KernelMayWrite = {}
                /\ multishot =>
                     HeldBufs \cup PendingBufs \cup ArrivingBufs \cup free = Buffers
                /\ \A i, j \in Arriving : cq[i].idx = cq[j].idx => i = j
                /\ Distinct(held) /\ Distinct(pending)
                /\ checkedOut = HeldBufs
    BY <2>10, ConservedIs DEF BInv
  <2>11. ASSUME reader # "gone"
         PROVE  \A i, j \in Arriving' : cq'[i].idx = cq'[j].idx => i = j
    <3>1. \A i \in Arriving : cq'[i].idx # b
      <4>1. b \notin ArrivingBufs
        BY <2>8, <2>10, <2>11
      <4> QED BY <2>5, <4>1 DEF ArrivingBufs
    <3> QED BY <2>3, <2>5, <2>10, <2>11, <3>1
  <2>12. Distinct(held)' = Distinct(held) /\ Distinct(pending)' = Distinct(pending)
    BY <1>1 DEF Distinct
  <2>13. ASSUME reader # "gone"
         PROVE  /\ HeldBufs' \cap PendingBufs' = {}
                /\ (HeldBufs' \cup PendingBufs') \cap ArrivingBufs' = {}
                /\ (HeldBufs' \cup PendingBufs' \cup ArrivingBufs') \cap KernelMayWrite'
                     = {}
                /\ multishot' =>
                     HeldBufs' \cup PendingBufs' \cup ArrivingBufs' \cup free' = Buffers
    <3>1. multishot => b \in free
      BY <2>1
    <3> QED BY <1>1, <2>1, <2>2, <2>6, <2>7, <2>8, <2>9, <2>10, <2>13, <3>1
  <2> QED BY <1>1, <2>7, <2>10, <2>11, <2>12, <2>13 DEF BInv, BuffersConserved, Distinct
<1> QED BY <1>3, <1>4

\* The CQE c, dispatched to a sink that has its stream, leaves pend pending before
\* the waiter, if any, takes.
Handles(c, pend) ==
  /\ c = Head(cq)
  /\ pend = IF c.kind = "data" THEN Append(pending, Chunk(c)) ELSE pending
  /\ c.kind = "data" => Chunk(c) \in Piece
  /\ Settle(c, pend)
  /\ ~multishot => Len(pend) <= 1 /\ \A i \in DOMAIN pend : pend[i].idx = Buf

\* Both handle_cqe() do so.
LEMMA DispatchOwned ==
  ASSUME OInv, Dispatch, sink = "owned"
  PROVE  \E c \in Cqe, pend \in Seq(Piece) : Handles(c, pend)
<1>1. cq # <<>> /\ cq' = Tail(cq) /\ op' = op
  BY DEF Dispatch
<1>2. Shape /\ OpInv /\ SingleInv /\ FlowInv /\ multishot \in BOOLEAN
  BY UringAssumption DEF OInv, Shape
<1> PICK c \in Cqe : c = Head(cq)
  BY <1>1, <1>2, PopCqe
<1>3. c = cq[1] /\ 1 \in DOMAIN cq
  BY <1>1, <1>2, TailFacts DEF Shape
<1>4. c.kind = "data" => c.idx \in Buffers /\ c.len \in 1..EntrySize
  BY CqeFields
<1>5. c.kind = "data" => Chunk(c) \in Piece /\ Chunk(c).idx = c.idx
  BY <1>4 DEF Chunk, Piece
<1>6. pending \in Seq(Piece) /\ Outstanding
  BY <1>1, <1>2, OutstandingIs DEF Shape, OpInv
<1>7. ~multishot => pending = <<>>
  BY <1>2, <1>6 DEF SingleInv
<1> DEFINE p == IF c.kind = "data" THEN Append(pending, Chunk(c)) ELSE pending
<1>8. p \in Seq(Piece)
  BY <1>5, <1>6, AppendFacts
<1>9. ~multishot => Len(p) <= 1 /\ \A i \in DOMAIN p : p[i].idx = Buf
  <2> SUFFICES ASSUME ~multishot PROVE Len(p) <= 1 /\ \A i \in DOMAIN p : p[i].idx = Buf
    OBVIOUS
  <2>1. c.kind = "data" => c.idx = Buf
    BY <1>2, <1>3 DEF SingleInv
  <2>2. CASE c.kind = "data"
    <3>1. p = <<Chunk(c)>>
      BY <1>7, <2>2
    <3> QED BY <1>5, <2>1, <2>2, <3>1
  <2>3. CASE c.kind # "data"
    BY <1>7, <2>3
  <2> QED BY <2>2, <2>3
<1>10. \/ multishot /\ HandleCqe(c)
       \/ ~multishot /\ SingleHandleCqe(c)
  BY DEF Dispatch, HandleCqe, SingleHandleCqe, OrphanCqe, Settle, RanDry, Chunk, LastCqe
<1>11. Settle(c, p)
  <2>1. CASE multishot
    BY <1>10, <2>1 DEF HandleCqe
  <2>2. CASE ~multishot
    <3>1. Settle(c, IF c.kind = "data" THEN <<Chunk(c)>> ELSE pending)
      BY <1>10, <2>2 DEF SingleHandleCqe
    <3>2. p = IF c.kind = "data" THEN <<Chunk(c)>> ELSE pending
      BY <1>7, <2>2
    <3> HIDE DEF p
    <3> QED BY <3>1, <3>2
  <2> QED BY <1>2, <2>1, <2>2
<1> PICK pend \in Seq(Piece) : pend = p
  BY <1>8
<1>12. Handles(c, pend)
  BY <1>5, <1>9, <1>11, ZenonT(40) DEF Handles, Settle, Take, TakeBatch, TakeOne
<1> QED BY <1>12

\* A chunk moves from its CQE to the queue, and on to a waiter that takes it.
LEMMA DispatchBInv == OInv /\ BInv /\ Dispatch => BInv'
<1> SUFFICES ASSUME OInv, BInv, Dispatch PROVE BInv'
  OBVIOUS
<1>1. /\ UNCHANGED <<multishot, free, op>> /\ cq # <<>> /\ cq' = Tail(cq)
      /\ sink \in {"owned", "orphan"}
  BY DEF Dispatch, peerVars
<1>2. Shape /\ OpInv /\ FlowInv /\ multishot \in BOOLEAN /\ pending \in Seq(Piece)
  BY UringAssumption DEF OInv, Shape
<1>3. CASE sink = "orphan"
  <2>1. reader' = "gone"
    BY <1>2, <1>3 DEF Dispatch, OrphanCqe, SingleOrphanCqe, readerVars, FlowInv
  <2> QED BY <2>1 DEF BInv, BuffersConserved
<1>4. CASE sink = "owned"
  <2>1. PICK c \in Cqe, pend \in Seq(Piece) : Handles(c, pend)
    BY <1>4, DispatchOwned
  <2>2. reader # "gone"
    BY <1>2, <1>4 DEF FlowInv
  <2>3. /\ HeldBufs \cap PendingBufs = {}
        /\ (HeldBufs \cup PendingBufs) \cap ArrivingBufs = {}
        /\ (HeldBufs \cup PendingBufs \cup ArrivingBufs) \cap KernelMayWrite = {}
        /\ multishot => HeldBufs \cup PendingBufs \cup ArrivingBufs \cup free = Buffers
        /\ \A i, j \in Arriving : cq[i].idx = cq[j].idx => i = j
        /\ Distinct(held) /\ Distinct(pending)
        /\ checkedOut = HeldBufs
    BY <2>2, ConservedIs DEF BInv
  <2>4. /\ (\A i, j \in Arriving : cq[i].idx = cq[j].idx => i = j)'
        /\ c.kind = "data" => c.idx \in ArrivingBufs /\ ArrivingBufs' = ArrivingBufs \ {c.idx}
        /\ c.kind # "data" => ArrivingBufs' = ArrivingBufs
    BY <1>1, <1>2, <2>1, <2>3, PopArriving DEF Handles
  <2>5. /\ Distinct(pend)
        /\ Idxs(pend) = IF c.kind = "data" THEN PendingBufs \cup {c.idx} ELSE PendingBufs
    <3>1. PendingBufs = Idxs(pending)
      BY DEF PendingBufs, Idxs
    <3>2. CASE c.kind = "data"
      <4> DEFINE x == Chunk(c)
      <4>1. x \in Piece /\ x.idx = c.idx /\ pend = Append(pending, x)
        BY <2>1, <3>2 DEF Handles, Chunk
      <4>2. x.idx \notin Idxs(pending)
        BY <2>3, <2>4, <3>1, <3>2, <4>1
      <4> HIDE DEF x
      <4>3. Distinct(Append(pending, x)) /\ Idxs(Append(pending, x)) = Idxs(pending) \cup {x.idx}
        BY <1>2, <2>3, <4>1, <4>2, IdxsAppend
      <4> QED BY <3>1, <3>2, <4>1, <4>3
    <3>3. CASE c.kind # "data"
      <4>1. pend = pending
        BY <2>1, <3>3 DEF Handles
      <4> QED BY <2>3, <3>1, <3>3, <4>1
    <3> QED BY <3>2, <3>3
  <2>6. (HeldBufs \cup Idxs(pend)) \cap ArrivingBufs' = {} /\ HeldBufs \cap Idxs(pend) = {}
        /\ Idxs(pend) \cup ArrivingBufs' = PendingBufs \cup ArrivingBufs
    BY <2>3, <2>4, <2>5
  <2>7. KernelMayWrite' = KernelMayWrite
    <3>1. ~multishot => sq' = sq
      BY <1>4 DEF Dispatch, SingleHandleCqe
    <3> QED BY <1>1, <3>1 DEF KernelMayWrite
  <2>8. /\ Distinct(held)' /\ Distinct(pending)'
        /\ HeldBufs' \cap PendingBufs' = {}
        /\ HeldBufs' \cup PendingBufs' = HeldBufs \cup Idxs(pend)
        /\ checkedOut' = HeldBufs'
    <3>1. /\ reader = "waiting" => checkedOut = {}
          /\ ~multishot => Len(pend) <= 1 /\ \A i \in DOMAIN pend : pend[i].idx = Buf
          /\ Settle(c, pend)
      BY <1>2, <2>1 DEF FlowInv, Handles
    <3>2. CASE /\ reader = "waiting"
               /\ \E ask \in Asks :
                    TakesNothing(pend) \/ \E k \in 1..Len(pend) : Takes(ask, pend, k)
      <4>1. HeldBufs = {}
        BY <2>3, <3>1, <3>2
      <4>2. PICK ask \in Asks :
              TakesNothing(pend) \/ \E k \in 1..Len(pend) : Takes(ask, pend, k)
        BY <3>2
      <4>3. /\ Distinct(held)' /\ Distinct(pending)'
            /\ HeldBufs' \cap PendingBufs' = {}
            /\ HeldBufs' \cup PendingBufs' = Idxs(pend)
            /\ checkedOut' = HeldBufs'
        BY <2>5, <4>2, TakeBufs
      <4> QED BY <4>1, <4>3
    <3>3. CASE pending' = pend /\ UNCHANGED <<checkedOut, reader, held, delivered>>
      <4>1. HeldBufs' = HeldBufs /\ PendingBufs' = Idxs(pend)
        BY <3>3 DEF HeldBufs, PendingBufs, Idxs
      <4>2. Distinct(held)' /\ Distinct(pending)'
        BY <2>3, <2>5, <3>3 DEF Distinct
      <4> QED BY <2>3, <2>6, <3>3, <4>1, <4>2
    <3> QED BY <1>2, <3>1, <3>2, <3>3, SettleIs
  <2>9. /\ (HeldBufs' \cup PendingBufs') \cap ArrivingBufs' = {}
        /\ (HeldBufs' \cup PendingBufs' \cup ArrivingBufs') \cap KernelMayWrite' = {}
        /\ multishot' =>
             HeldBufs' \cup PendingBufs' \cup ArrivingBufs' \cup free' = Buffers
    BY <1>1, <2>3, <2>6, <2>7, <2>8
  <2> QED BY <2>4, <2>8, <2>9 DEF BInv, BuffersConserved, Distinct
<1> QED BY <1>1, <1>3, <1>4

\* A call gives back what the reader held, and nothing else.
LEMMA NextBatchBInv == OInv /\ BInv /\ NextBatch => BInv'
<1> SUFFICES ASSUME OInv, BInv, NextBatch PROVE BInv'
  OBVIOUS
<1>1. /\ UNCHANGED <<multishot, cq, op>> /\ reader = "running"
      /\ IF multishot THEN ReturnCheckedOut ELSE Reclaim
  BY DEF NextBatch, peerVars
<1>2. /\ Shape /\ OpInv /\ SingleInv /\ FlowInv /\ multishot \in BOOLEAN
      /\ pending \in Seq(Piece)
  BY UringAssumption DEF OInv, Shape
<1>3. /\ HeldBufs \cap PendingBufs = {}
      /\ (HeldBufs \cup PendingBufs) \cap ArrivingBufs = {}
      /\ (HeldBufs \cup PendingBufs \cup ArrivingBufs) \cap KernelMayWrite = {}
      /\ multishot => HeldBufs \cup PendingBufs \cup ArrivingBufs \cup free = Buffers
      /\ \A i, j \in Arriving : cq[i].idx = cq[j].idx => i = j
      /\ Distinct(held) /\ Distinct(pending)
      /\ checkedOut = HeldBufs
  BY <1>1, ConservedIs DEF BInv
<1>4. Arriving' = Arriving /\ ArrivingBufs' = ArrivingBufs
  BY <1>1 DEF Arriving, ArrivingBufs
<1>5. /\ Distinct(held)' /\ Distinct(pending)'
      /\ HeldBufs' \cap PendingBufs' = {}
      /\ HeldBufs' \cup PendingBufs' = PendingBufs
      /\ checkedOut' = HeldBufs'
  <2>1. PendingBufs = Idxs(pending)
    BY DEF PendingBufs, Idxs
  <2>2. CASE HasResult(pending, eof, error)
    <3>1. PICK ask \in Asks : Take(ask, pending, {})
      BY <2>2 DEF NextBatch
    <3> PICK pend \in Seq(Piece) : pend = pending
      BY <1>2
    <3>2. Take(ask, pend, {})
      BY <3>1 DEF Take, TakeBatch, TakeOne
    <3>3. ~multishot => Len(pend) <= 1 /\ \A i \in DOMAIN pend : pend[i].idx = Buf
      BY <1>2 DEF SingleInv
    <3>4. TakesNothing(pend) \/ \E k \in 1..Len(pend) : Takes(ask, pend, k)
      BY <1>2, <3>2, <3>3, TakeIs
    <3>5. Distinct(pend)
      BY <1>3
    <3>6. /\ Distinct(held)' /\ Distinct(pending)'
          /\ HeldBufs' \cap PendingBufs' = {}
          /\ HeldBufs' \cup PendingBufs' = Idxs(pend)
          /\ checkedOut' = HeldBufs'
      BY <3>4, <3>5, TakeBufs
    <3> QED BY <2>1, <3>6
  <2>3. CASE ~HasResult(pending, eof, error)
    <3>1. held' = <<>> /\ checkedOut' = {} /\ pending' = pending
      BY <2>3 DEF NextBatch
    <3>2. HeldBufs' = {} /\ PendingBufs' = PendingBufs
      BY <3>1 DEF HeldBufs, PendingBufs
    <3> QED BY <1>3, <3>1, <3>2 DEF Distinct
  <2> QED BY <2>2, <2>3
<1>6. CASE multishot
  <2>1. free' = free \cup HeldBufs
    BY <1>1, <1>3, <1>6 DEF ReturnCheckedOut, Provide
  <2>2. KernelMayWrite' = free' /\ KernelMayWrite = free
    BY <1>1, <1>6 DEF KernelMayWrite
  <2>3. /\ (HeldBufs' \cup PendingBufs') \cap ArrivingBufs' = {}
        /\ (HeldBufs' \cup PendingBufs' \cup ArrivingBufs') \cap KernelMayWrite' = {}
        /\ HeldBufs' \cup PendingBufs' \cup ArrivingBufs' \cup free' = Buffers
    BY <1>3, <1>4, <1>5, <1>6, <2>1, <2>2
  <2>4. \A i, j \in Arriving' : cq'[i].idx = cq'[j].idx => i = j
    BY <1>1, <1>3, <1>4
  <2> QED BY <1>5, <2>3, <2>4 DEF BInv, BuffersConserved, Distinct
<1>7. CASE ~multishot
  <2>1. sq' = IF Reclaims THEN Append(sq, "recv") ELSE sq
    BY <1>1, <1>7 DEF Reclaim
  <2>2. CASE ~Reclaims
    <3>1. KernelMayWrite' = KernelMayWrite
      BY <1>1, <1>7, <2>1, <2>2 DEF KernelMayWrite
    <3>2. /\ (HeldBufs' \cup PendingBufs') \cap ArrivingBufs' = {}
          /\ (HeldBufs' \cup PendingBufs' \cup ArrivingBufs') \cap KernelMayWrite' = {}
      BY <1>3, <1>4, <1>5, <3>1
    <3>3. \A i, j \in Arriving' : cq'[i].idx = cq'[j].idx => i = j
      BY <1>1, <1>3, <1>4
    <3> QED BY <1>1, <1>5, <1>7, <3>2, <3>3 DEF BInv, BuffersConserved, Distinct
  <2>3. CASE Reclaims
    <3>1. ~Outstanding /\ pending = <<>>
      BY <1>2, <1>7, <2>3 DEF Reclaims, SingleInv
    <3>2. cq = <<>>
      BY <1>2, <3>1, OutstandingIs DEF OpInv
    <3>3. PendingBufs = {} /\ Arriving = {}
      BY <3>1, <3>2 DEF PendingBufs, Arriving
    <3>4. ArrivingBufs = {}
      BY <3>3 DEF ArrivingBufs
    <3> QED BY <1>1, <1>4, <1>5, <1>7, <3>3, <3>4 DEF BInv, BuffersConserved, Distinct
  <2> QED BY <2>2, <2>3
<1> QED BY <1>2, <1>6, <1>7

\* Both invariants hold throughout.
LEMMA InductiveBufs == Spec => [](OInv /\ BInv)
<1>1. ASSUME OInv, BInv, [Next]_vars PROVE BInv'
  <2>1. CASE Destroy
    BY <2>1 DEF Destroy, BInv, BuffersConserved
  <2> QED BY <1>1, <2>1, QuietBInv, KernelBInv, DispatchBInv, NextBatchBInv
          DEF Next, Kernel
<1> QED BY <1>1, InitBInv, InductiveOp, PTL DEF Spec

\* The kernel never gets a buffer whose chunk has not been taken and given back, no
\* buffer carries two chunks, and none of the provided ring is lost.
THEOREM BuffersConservedHolds == Spec => []BuffersConserved
<1>1. BInv => BuffersConserved
  BY DEF BInv
<1> QED BY <1>1, InductiveBufs, PTL

-----------------------------------------------------------------------------
(* What is in the buffers. *)

\* The chunks of q carry, in order, the bytes from offset a to offset b: chunk i those
\* from p[i - 1] to p[i].
PSpan(sl, q, a, b) ==
  \E p \in [0..Len(q) -> 0..b] :
    /\ p[0] = a /\ p[Len(q)] = b
    /\ \A i \in 1..Len(q) : sl[q[i].idx] = p[i - 1] /\ p[i] = p[i - 1] + q[i].len

\* The same for CQEs, of which some carry no chunk.
Carries(sl, c, a, b) ==
  IF c.kind = "data" THEN sl[c.idx] = a /\ b = a + c.len ELSE b = a

CSpan(sl, q, a, b) ==
  \E p \in [0..Len(q) -> 0..b] :
    /\ p[0] = a /\ p[Len(q)] = b
    /\ \A i \in 1..Len(q) : Carries(sl, q[i], p[i - 1], p[i])

(***************************************************************************)
(* The queue and then the CQEs carry every byte received and not yet       *)
(* delivered, in order.                                                    *)
(***************************************************************************)
ContentInv ==
  /\ reader # "gone" =>
       \E mid \in 0..rcvd : /\ PSpan(slot, pending, delivered, mid)
                            /\ CSpan(slot, cq, mid, rcvd)
  /\ delivered \in 0..sent
  /\ reader = "gone" => held = <<>>

(***************************************************************************)
(* Why the stream has ended, or is about to: end of file is only posted    *)
(* when everything sent was received, and an error has its cause.          *)
(***************************************************************************)
EndInv ==
  /\ \A i \in DOMAIN cq : /\ cq[i].kind = "eof" => peer = "closed" /\ rcvd = sent
                          /\ cq[i].kind = "reset" => peer = "reset"
                          /\ cq[i].kind = "cancelled" => cancelled \/ reader = "gone"
  /\ "cancelFd" \in ToSet(sq) => cancelled
  /\ "cancelSink" \in ToSet(sq) => reader = "gone"
  /\ eof => peer = "closed" /\ rcvd = sent
  /\ error = "reset" => peer = "reset"
  /\ error = "cancelled" => cancelled

CInv == ContentInv /\ EndInv

\* A span of no chunks is empty, and the bytes of a span are numbered up to its end.
LEMMA SpanEmpty ==
  ASSUME NEW sl, NEW a, NEW b
  PROVE  /\ PSpan(sl, <<>>, a, b) => a = b
         /\ CSpan(sl, <<>>, a, b) => a = b
         /\ b \in Nat => PSpan(sl, <<>>, b, b) /\ CSpan(sl, <<>>, b, b)
<1>1. Len(<<>>) = 0 /\ 0..0 = {0} /\ 1..0 = {}
  OBVIOUS
<1>2. PSpan(sl, <<>>, a, b) => a = b
  BY <1>1 DEF PSpan
<1>3. CSpan(sl, <<>>, a, b) => a = b
  BY <1>1 DEF CSpan
<1>4. ASSUME b \in Nat PROVE PSpan(sl, <<>>, b, b) /\ CSpan(sl, <<>>, b, b)
  <2> DEFINE p == [i \in 0..0 |-> b]
  <2>1. p \in [0..0 -> 0..b] /\ p[0] = b
    BY <1>4
  <2> QED BY <1>1, <2>1 DEF PSpan, CSpan
<1> QED BY <1>2, <1>3, <1>4

\* The fields of the chunks of a queue.
LEMMA PieceFields ==
  ASSUME NEW q \in Seq(Piece), NEW i \in 1..Len(q)
  PROVE  q[i] \in Piece /\ q[i].idx \in Buffers /\ q[i].len \in Nat \ {0}
<1>1. q[i] \in Piece
  OBVIOUS
<1> QED BY <1>1, UringAssumption DEF Piece

\* Every chunk of a span starts where it should: after those before it.
LEMMA SpanAt ==
  ASSUME NEW q \in Seq(Piece), NEW a \in Nat, NEW p \in [0..Len(q) -> Nat], p[0] = a,
         \A i \in 1..Len(q) : p[i] = p[i - 1] + q[i].len,
         NEW m \in 0..Len(q)
  PROVE  p[m] = a + Bytes(q)[m]
<1> DEFINE T == {i \in 0..Len(q) : p[i] # a + Bytes(q)[i]}
<1> SUFFICES ASSUME T # {} PROVE FALSE
  OBVIOUS
<1>1. Len(q) \in Nat
  OBVIOUS
<1>2. T \in SUBSET Nat
  BY <1>1
<1>3. PICK n \in T : \A y \in T : n <= y
  BY <1>2, LeastOf
<1>4. \A i \in 1..Len(q) : q[i].len \in Nat
  BY PieceFields
<1>5. /\ Bytes(q)[0] = 0
      /\ \A i \in 1..Len(q) : Bytes(q)[i] = Bytes(q)[i - 1] + q[i].len
  BY BytesStep
<1>6. \A i \in 0..Len(q) : Bytes(q)[i] \in Nat
  BY <1>4, BytesNat
<1>7. n # 0
  BY <1>3, <1>5
<1>8. n \in 1..Len(q) /\ n - 1 \in 0..Len(q)
  BY <1>1, <1>3, <1>7
<1>9. p[n - 1] = a + Bytes(q)[n - 1]
  <2>1. n - 1 \notin T
    BY <1>2, <1>3, <1>8
  <2> QED BY <1>8, <2>1
<1>10. /\ p[n] = p[n - 1] + q[n].len /\ Bytes(q)[n] = Bytes(q)[n - 1] + q[n].len
       /\ q[n].len \in Nat /\ Bytes(q)[n - 1] \in Nat
  BY <1>4, <1>5, <1>6, <1>8
<1>11. p[n] # a + Bytes(q)[n]
  BY <1>3
<1> HIDE DEF T
<1> QED BY <1>9, <1>10, <1>11

\* A chunk that continues a span extends it.
LEMMA SpanAppend ==
  ASSUME NEW sl, NEW q \in Seq(Piece), NEW a \in Nat, NEW b \in Nat, PSpan(sl, q, a, b),
         NEW x \in Piece, sl[x.idx] = b
  PROVE  PSpan(sl, Append(q, x), a, b + x.len)
<1>1. PICK p \in [0..Len(q) -> 0..b] :
        /\ p[0] = a /\ p[Len(q)] = b
        /\ \A i \in 1..Len(q) : sl[q[i].idx] = p[i - 1] /\ p[i] = p[i - 1] + q[i].len
  BY DEF PSpan
<1>2. x.len \in Nat
  BY UringAssumption DEF Piece
<1> DEFINE r == Append(q, x)
           n == Len(q)
           e == b + x.len
           f == [i \in 0..(n + 1) |-> IF i = n + 1 THEN e ELSE p[i]]
<1>3. /\ n \in Nat /\ Len(r) = n + 1 /\ r[n + 1] = x
      /\ \A i \in 1..n : r[i] = q[i]
  BY AppendFacts
<1>4. e \in Nat /\ b <= e
  BY <1>2
<1>5. \A i \in 0..n : p[i] \in 0..e
  BY <1>1, <1>4
<1> HIDE DEF r, n, e
<1>6. f \in [0..(n + 1) -> 0..e]
  <2>1. \A i \in 0..(n + 1) : i # n + 1 => i \in 0..n
    BY <1>3
  <2> QED BY <1>4, <1>5, <2>1
<1>7. f[0] = a /\ f[n + 1] = e /\ f[n] = b
  BY <1>1, <1>3 DEF n
<1>8. ASSUME NEW i \in 1..(n + 1)
      PROVE  sl[r[i].idx] = f[i - 1] /\ f[i] = f[i - 1] + r[i].len
  <2>1. CASE i = n + 1
    <3>1. i - 1 = n
      BY <1>3, <2>1
    <3> HIDE DEF f
    <3> QED BY <1>3, <1>7, <2>1, <3>1 DEF e
  <2>2. CASE i # n + 1
    <3>1. i \in 1..n /\ i - 1 \in 0..n /\ i \in 0..n
      BY <1>3, <1>8, <2>2
    <3>2. f[i] = p[i] /\ f[i - 1] = p[i - 1] /\ r[i] = q[i]
      BY <1>3, <3>1
    <3> HIDE DEF f
    <3> QED BY <1>1, <3>1, <3>2 DEF n
  <2> QED BY <2>1, <2>2
<1> HIDE DEF f
<1>9. PSpan(sl, r, a, e)
  BY <1>3, <1>6, <1>7, <1>8 DEF PSpan
<1> QED BY <1>9 DEF r, e

\* What is left of a span once its first k chunks are gone.
LEMMA SpanSplit ==
  ASSUME NEW sl, NEW q \in Seq(Piece), NEW a \in Nat, NEW b \in Nat, PSpan(sl, q, a, b),
         NEW k \in 1..Len(q)
  PROVE  /\ sl[q[k].idx] + q[k].len \in 0..b
         /\ PSpan(sl, Remaining(q, k), sl[q[k].idx] + q[k].len, b)
<1>1. PICK p \in [0..Len(q) -> 0..b] :
        /\ p[0] = a /\ p[Len(q)] = b
        /\ \A i \in 1..Len(q) : sl[q[i].idx] = p[i - 1] /\ p[i] = p[i - 1] + q[i].len
  BY DEF PSpan
<1> DEFINE r == Remaining(q, k)
           n == Len(q) - k
           f == [i \in 0..n |-> p[i + k]]
<1>2. /\ Len(r) = n /\ n \in Nat /\ Len(q) \in Nat
      /\ \A i \in 1..n : r[i] = q[i + k]
  <2>1. Len(r) = n /\ \A i \in 1..n : r[i] = q[i + k]
    BY SplitQueue
  <2>2. Len(q) \in Nat
    OBVIOUS
  <2> QED BY <2>1, <2>2
<1>3. p[k] = sl[q[k].idx] + q[k].len
  BY <1>1
<1>4. \A i \in 0..n : i + k \in 0..Len(q)
  BY <1>2
<1>5. f \in [0..n -> 0..b] /\ p[k] \in 0..b
  BY <1>4
<1>6. f[0] = p[k] /\ f[n] = b
  BY <1>1, <1>2
<1> HIDE DEF r, n
<1>7. ASSUME NEW i \in 1..n
      PROVE  sl[r[i].idx] = f[i - 1] /\ f[i] = f[i - 1] + r[i].len
  <2>1. /\ i + k \in 1..Len(q) /\ i - 1 \in 0..n /\ i \in 0..n
        /\ (i - 1) + k = (i + k) - 1
    BY <1>2, <1>7 DEF n
  <2>2. f[i] = p[i + k] /\ f[i - 1] = p[(i + k) - 1] /\ r[i] = q[i + k]
    BY <1>2, <2>1
  <2> HIDE DEF f
  <2> QED BY <1>1, <2>1, <2>2
<1> HIDE DEF f
<1>8. PSpan(sl, r, p[k], b)
  BY <1>2, <1>5, <1>6, <1>7 DEF PSpan
<1> QED BY <1>3, <1>5, <1>8 DEF r

\* A CQE that continues the span of the completion queue extends it.
LEMMA CqeAppend ==
  ASSUME NEW sl, NEW q \in Seq(Cqe), NEW a \in Nat, NEW b \in Nat, CSpan(sl, q, a, b),
         NEW x \in Cqe, NEW e \in Nat, b <= e, Carries(sl, x, b, e)
  PROVE  CSpan(sl, Append(q, x), a, e)
<1>1. PICK p \in [0..Len(q) -> 0..b] :
        /\ p[0] = a /\ p[Len(q)] = b
        /\ \A i \in 1..Len(q) : Carries(sl, q[i], p[i - 1], p[i])
  BY DEF CSpan
<1> DEFINE r == Append(q, x)
           n == Len(q)
           f == [i \in 0..(n + 1) |-> IF i = n + 1 THEN e ELSE p[i]]
<1>2. /\ n \in Nat /\ Len(r) = n + 1 /\ r[n + 1] = x
      /\ \A i \in 1..n : r[i] = q[i]
  BY AppendFacts
<1>3. \A i \in 0..n : p[i] \in 0..e
  BY <1>1
<1> HIDE DEF r, n
<1>4. f \in [0..(n + 1) -> 0..e]
  <2>1. \A i \in 0..(n + 1) : i # n + 1 => i \in 0..n
    BY <1>2
  <2> QED BY <1>3, <2>1
<1>5. f[0] = a /\ f[n + 1] = e /\ f[n] = b
  BY <1>1, <1>2 DEF n
<1>6. ASSUME NEW i \in 1..(n + 1) PROVE Carries(sl, r[i], f[i - 1], f[i])
  <2>1. CASE i = n + 1
    <3>1. i - 1 = n
      BY <1>2, <2>1
    <3> HIDE DEF f
    <3> QED BY <1>2, <1>5, <2>1, <3>1
  <2>2. CASE i # n + 1
    <3>1. i \in 1..n /\ i - 1 \in 0..n /\ i \in 0..n
      BY <1>2, <1>6, <2>2
    <3>2. f[i] = p[i] /\ f[i - 1] = p[i - 1] /\ r[i] = q[i]
      BY <1>2, <3>1
    <3> HIDE DEF f
    <3> QED BY <1>1, <3>1, <3>2 DEF n
  <2> QED BY <2>1, <2>2
<1> HIDE DEF f
<1>7. CSpan(sl, r, a, e)
  BY <1>2, <1>4, <1>5, <1>6 DEF CSpan
<1> QED BY <1>7 DEF r

\* The first CQE carries the start of the span.
LEMMA CqePop ==
  ASSUME NEW sl, NEW q \in Seq(Cqe), NEW a \in Nat, NEW b \in Nat, CSpan(sl, q, a, b),
         q # <<>>
  PROVE  \E m \in 0..b : Carries(sl, Head(q), a, m) /\ CSpan(sl, Tail(q), m, b)
<1>1. PICK p \in [0..Len(q) -> 0..b] :
        /\ p[0] = a /\ p[Len(q)] = b
        /\ \A i \in 1..Len(q) : Carries(sl, q[i], p[i - 1], p[i])
  BY DEF CSpan
<1> DEFINE r == Tail(q)
           n == Len(q) - 1
           f == [i \in 0..n |-> p[i + 1]]
<1>2. /\ Len(q) \in Nat \ {0} /\ Head(q) = q[1] /\ Len(r) = n /\ n \in Nat
      /\ \A i \in 1..n : r[i] = q[i + 1]
  BY TailFacts
<1>3. \A i \in 0..n : i + 1 \in 0..Len(q)
  BY <1>2
<1>4. f \in [0..n -> 0..b] /\ p[1] \in 0..b
  BY <1>2, <1>3
<1>5. f[0] = p[1] /\ f[n] = b /\ Carries(sl, Head(q), a, p[1])
  <2>1. 1 \in 1..Len(q) /\ 1 - 1 = 0 /\ n + 1 = Len(q) /\ n \in 0..n /\ 0 \in 0..n
    BY <1>2
  <2> QED BY <1>1, <1>2, <2>1
<1> HIDE DEF r, n
<1>6. ASSUME NEW i \in 1..n PROVE Carries(sl, r[i], f[i - 1], f[i])
  <2>1. /\ i + 1 \in 1..Len(q) /\ i - 1 \in 0..n /\ i \in 0..n
        /\ (i - 1) + 1 = (i + 1) - 1
    BY <1>2, <1>6 DEF n
  <2>2. f[i] = p[i + 1] /\ f[i - 1] = p[(i + 1) - 1] /\ r[i] = q[i + 1]
    BY <1>2, <2>1
  <2> HIDE DEF f
  <2> QED BY <1>1, <2>1, <2>2
<1> HIDE DEF f
<1>7. CSpan(sl, r, p[1], b)
  BY <1>2, <1>4, <1>5, <1>6 DEF CSpan
<1> QED BY <1>4, <1>5, <1>7 DEF r

\* Writing to a buffer that no chunk of a span is in leaves the span as it is.
LEMMA SpanKept ==
  ASSUME NEW sl, NEW s2, NEW q, NEW a, NEW b,
         \A i \in 1..Len(q) : s2[q[i].idx] = sl[q[i].idx]
  PROVE  PSpan(sl, q, a, b) => PSpan(s2, q, a, b)
BY DEF PSpan

\* The same for CQEs.
LEMMA CqeKept ==
  ASSUME NEW sl, NEW s2, NEW q, NEW a, NEW b,
         \A i \in 1..Len(q) : q[i].kind = "data" => s2[q[i].idx] = sl[q[i].idx]
  PROVE  CSpan(sl, q, a, b) => CSpan(s2, q, a, b)
<1>1. ASSUME NEW i \in 1..Len(q), NEW c, NEW d, Carries(sl, q[i], c, d)
      PROVE  Carries(s2, q[i], c, d)
  BY <1>1 DEF Carries
<1> QED BY <1>1 DEF CSpan

\* EndInv is inductive: a peer that has ended sends nothing more, and only a
\* cancellation that someone asked for cancels.
LEMMA StepEndInv == OInv /\ EndInv /\ [Next]_vars => EndInv'
<1> SUFFICES ASSUME OInv, EndInv, [Next]_vars PROVE EndInv'
  OBVIOUS
<1> DEFINE Sqes == {"recv", "cancelFd", "cancelSink"}
<1>t. Shape /\ OpInv /\ FlowInv /\ sq \in Seq(Sqes) /\ cq \in Seq(Cqe)
  BY DEF OInv, Shape
<1>a. \A x \in Sqes : ToSet(Append(sq, x)) = ToSet(sq) \cup {x}
  BY <1>t, ToSetFacts
<1>1. CASE PeerSend \/ PeerEnd
  BY <1>1 DEF PeerSend, PeerEnd, EndInv, streamVars, readerVars
<1>2. CASE Submit
  <2>1. /\ UNCHANGED <<sent, peer, rcvd, eof, error, reader, cancelled>>
        /\ sq # <<>> /\ sq' = Tail(sq)
    BY <1>2 DEF Submit, peerVars, streamVars, readerVars
  <2>2. ToSet(sq) = {Head(sq)} \cup ToSet(Tail(sq)) /\ Head(sq) \in Sqes
    BY <1>t, <2>1, ToSetFacts, TailFacts
  <2>3. ToSet(sq') \subseteq ToSet(sq) /\ Head(sq) \in ToSet(sq)
    BY <2>1, <2>2
  <2>4. CASE cq' = cq
    BY <2>1, <2>3, <2>4 DEF EndInv
  <2>5. CASE cq' # cq
    <3> DEFINE c == [kind |-> "cancelled", more |-> FALSE]
    <3>1. Head(sq) # "recv" /\ op = "armed" /\ cq' = Append(cq, c)
      BY <1>2, <2>5 DEF Submit
    <3>2. c \in Cqe /\ c.kind = "cancelled"
      BY DEF Cqe
    <3> HIDE DEF c
    <3>3. cancelled \/ reader = "gone"
      BY <2>2, <2>3, <3>1 DEF EndInv
    <3>4. \A i \in DOMAIN cq' : cq'[i] = c \/ (i \in DOMAIN cq /\ cq'[i] = cq[i])
      BY <1>t, <3>1, <3>2, AppendFacts
    <3> QED BY <2>1, <2>3, <3>2, <3>3, <3>4 DEF EndInv
  <2> QED BY <2>4, <2>5
<1>3. CASE KernelData
  <2>1. /\ UNCHANGED <<sent, peer, sq, eof, error, reader, cancelled>>
    BY <1>3 DEF KernelData, peerVars, streamVars, readerVars
  <2>2. PICK b \in (IF multishot THEN free ELSE {Buf}), r \in 1..EntrySize,
             more \in BOOLEAN :
          /\ rcvd + r <= sent
          /\ cq' = Append(cq, [kind |-> "data", idx |-> b, len |-> r, more |-> more])
    BY <1>3 DEF KernelData
  <2>3. rcvd # sent
    <3>1. rcvd \in Nat /\ r \in Nat \ {0}
      BY <1>t, <2>2, UringAssumption DEF Shape
    <3> QED BY <2>2, <3>1
  <2> DEFINE c == [kind |-> "data", idx |-> b, len |-> r, more |-> more]
  <2>4. b \in Buffers
    BY <1>t, <2>2, UringAssumption DEF Shape, Buf
  <2>5. c \in Cqe /\ c.kind = "data"
    BY <2>2, <2>4 DEF Cqe
  <2>6. cq' = Append(cq, c)
    BY <2>2
  <2> HIDE DEF c
  <2>7. \A i \in DOMAIN cq' : cq'[i] = c \/ (i \in DOMAIN cq /\ cq'[i] = cq[i])
    BY <1>t, <2>5, <2>6, AppendFacts
  <2> QED BY <2>1, <2>3, <2>5, <2>7 DEF EndInv
<1>4. CASE KernelEnd
  <2>1. /\ UNCHANGED <<sent, peer, rcvd, sq, eof, error, reader, cancelled>>
    BY <1>4 DEF KernelEnd, peerVars, streamVars, readerVars
  <2>2. PICK kind \in {"nobufs", "eof", "reset"} :
          /\ kind = "eof" => rcvd = sent /\ peer = "closed"
          /\ kind = "reset" => peer = "reset"
          /\ cq' = Append(cq, [kind |-> kind, more |-> FALSE])
    BY <1>4 DEF KernelEnd
  <2> DEFINE c == [kind |-> kind, more |-> FALSE]
  <2>3. c \in Cqe /\ c.kind = kind
    BY <2>2 DEF Cqe
  <2>4. cq' = Append(cq, c)
    BY <2>2
  <2> HIDE DEF c
  <2>5. \A i \in DOMAIN cq' : cq'[i] = c \/ (i \in DOMAIN cq /\ cq'[i] = cq[i])
    BY <1>t, <2>3, <2>4, AppendFacts
  <2> QED BY <2>1, <2>2, <2>3, <2>5 DEF EndInv
<1>5. CASE Dispatch
  <2>1. /\ UNCHANGED <<sent, peer, rcvd, op, cancelled>> /\ cq # <<>> /\ cq' = Tail(cq)
    BY <1>5 DEF Dispatch, peerVars
  <2>2. \A i \in DOMAIN cq' : i + 1 \in DOMAIN cq /\ cq'[i] = cq[i + 1]
    BY <1>t, <2>1, PopCqe
  <2>3. Head(cq) = cq[1] /\ 1 \in DOMAIN cq
    BY <1>t, <2>1, TailFacts
  <2>4. sq' = sq \/ sq' = Append(sq, "recv")
    BY <1>5 DEF Dispatch, HandleCqe, SingleHandleCqe, OrphanCqe, SingleOrphanCqe
  <2>5. /\ "cancelFd" \in ToSet(sq') => "cancelFd" \in ToSet(sq)
        /\ "cancelSink" \in ToSet(sq') => "cancelSink" \in ToSet(sq)
    BY <1>a, <2>4
  <2>6. CASE sink = "owned"
    <3>1. PICK c \in Cqe, pend \in Seq(Piece) : Handles(c, pend)
      BY <1>5, <2>6, DispatchOwned
    <3>2. /\ ~multishot => Len(pend) <= 1 /\ \A i \in DOMAIN pend : pend[i].idx = Buf
          /\ Settle(c, pend) /\ (reader = "waiting" => checkedOut = {})
          /\ c = Head(cq)
      BY <1>t, <3>1 DEF FlowInv, Handles
    <3>3. /\ eof' = (eof \/ c.kind = "eof")
          /\ error' = IF c.kind \in {"reset", "cancelled"} THEN c.kind ELSE error
      BY <1>t, <3>2, SettleIs
    <3>4. reader # "gone" /\ reader' # "gone"
      BY <1>t, <2>6, <3>2, SettleTypes DEF FlowInv
    <3>5. /\ eof' => peer = "closed" /\ rcvd = sent
          /\ error' = "reset" => peer = "reset"
          /\ error' = "cancelled" => cancelled
      BY <2>3, <3>2, <3>3, <3>4 DEF EndInv
    <3> QED BY <2>1, <2>2, <2>5, <3>4, <3>5 DEF EndInv
  <2>7. CASE sink = "orphan"
    <3>1. UNCHANGED <<eof, error, reader>>
      BY <1>5, <2>7 DEF Dispatch, OrphanCqe, SingleOrphanCqe, streamVars, readerVars
    <3> QED BY <2>1, <2>2, <2>5, <3>1 DEF EndInv
  <2> QED BY <1>5, <2>6, <2>7 DEF Dispatch
<1>6. CASE NextBatch
  <2>1. UNCHANGED <<sent, peer, rcvd, cq, eof, error, cancelled>> /\ reader = "running"
    BY <1>6 DEF NextBatch, peerVars
  <2>2. sq' = sq \/ sq' = Append(sq, "recv")
    BY <1>6 DEF NextBatch, ReturnCheckedOut, Reclaim
  <2>3. /\ "cancelFd" \in ToSet(sq') => "cancelFd" \in ToSet(sq)
        /\ "cancelSink" \in ToSet(sq') => "cancelSink" \in ToSet(sq)
    BY <1>a, <2>2
  <2> QED BY <2>1, <2>3 DEF EndInv
<1>7. CASE CancelFd
  <2>1. /\ UNCHANGED <<sent, peer, rcvd, cq, eof, error, reader>>
        /\ cancelled' = TRUE /\ sq' = Append(sq, "cancelFd")
    BY <1>7 DEF CancelFd, peerVars, streamVars, readerVars
  <2>2. "cancelSink" \in ToSet(sq') => "cancelSink" \in ToSet(sq)
    BY <1>a, <2>1
  <2> QED BY <2>1, <2>2 DEF EndInv
<1>8. CASE Destroy
  <2>1. /\ UNCHANGED <<sent, peer, rcvd, cq, eof, error, cancelled>> /\ reader' = "gone"
        /\ sq' = sq \/ sq' = Append(sq, "cancelSink")
    BY <1>8 DEF Destroy, ReleaseSink, peerVars, streamVars
  <2>2. "cancelFd" \in ToSet(sq') => "cancelFd" \in ToSet(sq)
    BY <1>a, <2>1
  <2> QED BY <2>1, <2>2 DEF EndInv
<1>9. CASE UNCHANGED vars
  BY <1>9 DEF vars, EndInv
<1> QED BY <1>1, <1>2, <1>3, <1>4, <1>5, <1>6, <1>7, <1>8, <1>9 DEF Next, Kernel

\* The bytes in the reader's hands, as the contract sees them.
View == [i \in 1..Len(held) |-> [pos |-> slot[held[i].idx], len |-> held[i].len]]

\* What is handed out continues what was delivered and is what the contract allows a
\* call to return; what stays pending continues that.
LEMMA TakeReturns ==
  ASSUME Shape, delivered \in 0..sent, NEW ask \in Asks, NEW pend \in Seq(Piece),
         slot' = slot,
         TakesNothing(pend) \/ \E k \in 1..Len(pend) : Takes(ask, pend, k),
         NEW mid \in 0..rcvd, PSpan(slot, pend, delivered, mid),
         pend = <<>> => \/ peer = "closed" /\ delivered = sent
                        \/ peer = "reset" \/ cancelled
  PROVE  /\ Contract!Return(ask, cancelled)
         /\ delivered' \in 0..sent
         /\ PSpan(slot, pending', delivered', mid)
<1> USE UringAssumption
<1>1. /\ rcvd \in 0..sent /\ sent \in Nat /\ delivered \in Nat /\ mid \in Nat
      /\ mid <= sent
  BY DEF Shape
<1>2. CASE TakesNothing(pend)
  <2>1. /\ pend = <<>> /\ held' = <<>> /\ pending' = <<>> /\ reader' = "over"
        /\ delivered' = delivered
    BY <1>2 DEF TakesNothing
  <2>2. View' = <<>>
    BY <2>1 DEF View
  <2>3. Contract!ReturnEof \/ Contract!ReturnError(cancelled)
    BY <2>1, <2>2 DEF Contract!ReturnEof, Contract!ReturnError, View
  <2> QED BY <2>1, <2>3 DEF Contract!Return
<1>3. ASSUME NEW k \in 1..Len(pend), Takes(ask, pend, k)
      PROVE  /\ Contract!ReturnBatch(ask)
             /\ delivered' \in 0..sent
             /\ PSpan(slot, pending', delivered', mid)
  <2>0. /\ k <= ask.cap /\ Bytes(pend)[k - 1] < ask.max
        /\ held' = SubSeq(pend, 1, k) /\ pending' = Remaining(pend, k)
        /\ delivered' = slot[pend[k].idx] + pend[k].len
        /\ reader' = "running"
    BY <1>3 DEF Takes
  <2>1. /\ delivered' \in 0..mid /\ PSpan(slot, pending', delivered', mid)
    BY <1>1, <2>0, SpanSplit
  <2>2. PICK p \in [0..Len(pend) -> 0..mid] :
          /\ p[0] = delivered
          /\ \A i \in 1..Len(pend) : /\ slot[pend[i].idx] = p[i - 1]
                                     /\ p[i] = p[i - 1] + pend[i].len
    BY DEF PSpan
  <2>3. Len(pend) \in Nat /\ ask.cap \in Nat /\ ask.max \in Nat
    BY DEF Asks
  <2>4. Len(held') = k /\ \A i \in 1..k : held'[i] = pend[i]
    BY <2>0, SplitQueue
  <2>5. \A i \in 1..k : /\ i \in 0..k /\ i - 1 \in 0..k /\ i \in 1..Len(pend)
                        /\ i - 1 \in 0..Len(pend)
    BY <2>3
  <2>6. \A i \in 0..Len(pend) : p[i] = delivered + Bytes(pend)[i]
    <3>1. p \in [0..Len(pend) -> Nat]
      BY <1>1
    <3> QED BY <1>1, <2>2, <3>1, SpanAt
  <2>7. \A i \in 0..Len(pend) : Bytes(pend)[i] \in Nat
    BY PieceFields, BytesNat
  <2> DEFINE ends == [i \in 0..k |-> p[i]]
  <2>8. \A i \in 1..k : /\ ends[i - 1] = slot[pend[i].idx]
                        /\ ends[i] = ends[i - 1] + pend[i].len
                        /\ ends[i - 1] \in Nat /\ pend[i].len \in Nat \ {0}
    <3> TAKE i \in 1..k
    <3>1. ends[i - 1] = p[i - 1] /\ ends[i] = p[i]
      BY <2>5
    <3>2. pend[i].len \in Nat \ {0} /\ p[i - 1] \in Nat
      BY <1>1, <2>5, PieceFields
    <3> HIDE DEF ends
    <3> QED BY <2>2, <2>5, <3>1, <3>2
  <2>9. ends \in [0..k -> delivered..sent]
    <3>1. ASSUME NEW i \in 0..k PROVE p[i] \in delivered..sent
      <4>1. i \in 0..Len(pend)
        BY <2>3
      <4>2. p[i] \in 0..mid /\ p[i] = delivered + Bytes(pend)[i] /\ Bytes(pend)[i] \in Nat
        BY <2>6, <2>7, <4>1
      <4> QED BY <1>1, <4>2
    <3> QED BY <3>1
  <2>10. 0 \in 0..k /\ ends[0] = delivered
    BY <2>2, <2>3
  <2>11. ends[k - 1] - delivered < ask.max
    <3>1. k - 1 \in 0..k /\ k - 1 \in 0..Len(pend)
      BY <2>3
    <3>2. ends[k - 1] = delivered + Bytes(pend)[k - 1] /\ Bytes(pend)[k - 1] \in Nat
      BY <2>6, <2>7, <3>1
    <3> HIDE DEF ends
    <3> QED BY <1>1, <2>0, <2>3, <3>2
  <2>12. delivered' = ends[k]
    <3>1. k \in 1..k
      BY <2>3
    <3> HIDE DEF ends
    <3> QED BY <2>0, <2>8, <3>1
  <2> HIDE DEF ends
  <2>13. \A i \in 1..k : ends[i - 1] < ends[i] /\ ends[i] - ends[i - 1] = pend[i].len
    BY <2>8
  <2>14. View' = [i \in 1..k |-> [pos |-> ends[i - 1], len |-> ends[i] - ends[i - 1]]]
    <3>1. \A i \in 1..k : /\ slot'[held'[i].idx] = ends[i - 1]
                          /\ held'[i].len = ends[i] - ends[i - 1]
      BY <2>4, <2>8, <2>13
    <3> QED BY <2>4, <3>1 DEF View
  <2>15. k \in 1..ask.cap
    BY <2>0, <2>3
  <2>16. Contract!GoodBatch(ends, k, ask)
    BY <2>10, <2>11, <2>13 DEF Contract!GoodBatch
  <2>17. Contract!ReturnBatch(ask)
    BY <2>0, <2>9, <2>12, <2>14, <2>15, <2>16 DEF Contract!ReturnBatch, View
  <2> QED BY <1>1, <2>1, <2>17
<1> QED BY <1>2, <1>3 DEF Contract!Return

\* The content of the stream at a CQE: the chunk it carries continues the queue.
LEMMA DispatchContent ==
  ASSUME OInv, CInv, Dispatch, NEW c \in Cqe, NEW pend \in Seq(Piece), Handles(c, pend),
         reader # "gone"
  PROVE  \E mid \in 0..rcvd :
           /\ PSpan(slot, pend, delivered, mid)
           /\ CSpan(slot, cq', mid, rcvd)
           /\ c.kind # "data" => mid = rcvd
<1> USE UringAssumption
<1>1. /\ cq # <<>> /\ cq' = Tail(cq) /\ op' = op /\ c = Head(cq)
  BY DEF Dispatch, Handles
<1>2. /\ Shape /\ OpInv /\ cq \in Seq(Cqe) /\ rcvd \in Nat /\ delivered \in Nat
      /\ pending \in Seq(Piece)
  BY DEF OInv, Shape, CInv, ContentInv
<1>3. PICK m \in 0..rcvd : PSpan(slot, pending, delivered, m) /\ CSpan(slot, cq, m, rcvd)
  BY DEF CInv, ContentInv
<1>4. PICK n \in 0..rcvd : Carries(slot, c, m, n) /\ CSpan(slot, Tail(cq), n, rcvd)
  <2>1. \E n \in 0..rcvd : Carries(slot, Head(cq), m, n) /\ CSpan(slot, Tail(cq), n, rcvd)
    BY <1>1, <1>2, <1>3, CqePop
  <2> QED BY <1>1, <2>1
<1>5. CASE c.kind = "data"
  <2> DEFINE x == Chunk(c)
  <2>1. /\ x \in Piece /\ x.idx = c.idx /\ x.len = c.len /\ pend = Append(pending, x)
    BY <1>5 DEF Handles, Chunk
  <2>2. slot[x.idx] = m /\ n = m + x.len
    BY <1>4, <1>5, <2>1 DEF Carries
  <2> HIDE DEF x
  <2>3. PSpan(slot, Append(pending, x), delivered, m + x.len)
    BY <1>2, <1>3, <2>1, <2>2, SpanAppend
  <2> QED BY <1>1, <1>4, <1>5, <2>1, <2>2, <2>3
<1>6. CASE c.kind # "data"
  <2>1. n = m /\ pend = pending
    BY <1>4, <1>6 DEF Carries, Handles
  <2>2. ~c.more
    BY <1>6, CqeFields
  <2>3. cq' = <<>>
    BY <1>1, <1>2, <2>2, PopCqe
  <2>4. n = rcvd
    <3>1. CSpan(slot, <<>>, n, rcvd)
      BY <1>1, <1>4, <2>3
    <3> QED BY <3>1, SpanEmpty
  <2> QED BY <1>1, <1>3, <1>4, <2>1, <2>4
<1> QED BY <1>5, <1>6

\* What the resumed waiter takes is what the contract allows, and the content stays
\* in order.
LEMMA DispatchCInv ==
  ASSUME OInv, CInv, Dispatch
  PROVE  /\ ContentInv'
         /\ Contract!Resume \/ UNCHANGED <<sent, peer, cancelled, delivered, View, asked,
                                           reader>>
<1> USE UringAssumption
<1>1. /\ UNCHANGED <<multishot, sent, peer, rcvd, slot, free, op, cancelled>>
      /\ cq # <<>> /\ cq' = Tail(cq) /\ sink \in {"owned", "orphan"}
  BY DEF Dispatch, peerVars
<1>2. Shape /\ OpInv /\ FlowInv /\ delivered \in 0..sent
  BY DEF OInv, CInv, ContentInv
<1>3. CASE sink = "orphan"
  <2>1. UNCHANGED <<reader, asked, held, delivered>> /\ reader = "gone"
    BY <1>2, <1>3 DEF Dispatch, OrphanCqe, SingleOrphanCqe, readerVars, FlowInv
  <2>2. ContentInv'
    BY <1>1, <2>1 DEF CInv, ContentInv
  <2> QED BY <1>1, <2>1, <2>2 DEF View
<1>4. CASE sink = "owned"
  <2>1. PICK c \in Cqe, pend \in Seq(Piece) : Handles(c, pend)
    BY <1>4, DispatchOwned
  <2>2. reader # "gone"
    BY <1>2, <1>4 DEF FlowInv
  <2>3. PICK mid \in 0..rcvd : /\ PSpan(slot, pend, delivered, mid)
                               /\ CSpan(slot, cq', mid, rcvd)
                               /\ c.kind # "data" => mid = rcvd
    BY <2>1, <2>2, DispatchContent
  <2>4. /\ ~multishot => Len(pend) <= 1 /\ \A i \in DOMAIN pend : pend[i].idx = Buf
        /\ Settle(c, pend) /\ (reader = "waiting" => checkedOut = {})
        /\ c = Head(cq) /\ (c.kind = "data" => Chunk(c) \in Piece)
        /\ pend = IF c.kind = "data" THEN Append(pending, Chunk(c)) ELSE pending
    BY <1>2, <2>1 DEF FlowInv, Handles
  <2>5. /\ eof' = (eof \/ c.kind = "eof") /\ asked' = asked
        /\ error' = IF c.kind \in {"reset", "cancelled"} THEN c.kind ELSE error
    BY <1>2, <2>4, SettleIs
  <2>6. reader' # "gone"
    BY <1>2, <2>2, <2>4, SettleTypes
  <2>7. CASE /\ reader = "waiting" /\ HasResult(pend, eof', error')
             /\ \E ask \in Asks :
                  /\ ask = asked
                  /\ TakesNothing(pend) \/ \E k \in 1..Len(pend) : Takes(ask, pend, k)
    <3>1. PICK ask \in Asks :
            /\ ask = asked
            /\ TakesNothing(pend) \/ \E k \in 1..Len(pend) : Takes(ask, pend, k)
      BY <2>7
    <3>2. ~eof /\ error = "none"
      <4>1. Outstanding
        BY <1>1, <1>2, OutstandingIs DEF OpInv
      <4> QED BY <1>2, <4>1 DEF FlowInv
    <3>3. pend = <<>> => \/ peer = "closed" /\ delivered = sent
                         \/ peer = "reset" \/ cancelled
      <4> SUFFICES ASSUME pend = <<>>
                   PROVE  (peer = "closed" /\ delivered = sent) \/ peer = "reset" \/ cancelled
        OBVIOUS
      <4>1. c.kind # "data"
        <5>1. pending \in Seq(Piece)
          BY <1>2 DEF Shape
        <5> QED BY <2>4, <5>1, AppendFacts
      <4>2. delivered = mid /\ mid = rcvd
        BY <2>3, <4>1, SpanEmpty
      <4>3. c.kind \in {"eof", "reset", "cancelled"}
        BY <2>5, <2>7, <3>2 DEF HasResult
      <4>4. 1 \in DOMAIN cq /\ c = cq[1]
        BY <1>1, <1>2, <2>4, TailFacts DEF Shape
      <4> QED BY <2>2, <4>2, <4>3, <4>4 DEF CInv, EndInv
    <3>4. /\ Contract!Return(ask, cancelled)
          /\ delivered' \in 0..sent
          /\ PSpan(slot, pending', delivered', mid)
      BY <1>1, <1>2, <2>3, <3>1, <3>3, TakeReturns
    <3>5. Contract!Return(asked, cancelled)
      BY <3>1, <3>4 DEF Contract!Return, Contract!ReturnBatch, Contract!GoodBatch
    <3>6. Contract!Resume
      BY <1>1, <2>5, <2>7, <3>5 DEF Contract!Resume
    <3>7. ContentInv'
      BY <1>1, <2>3, <2>6, <3>4 DEF ContentInv
    <3> QED BY <3>6, <3>7
  <2>8. CASE pending' = pend /\ UNCHANGED <<checkedOut, reader, held, delivered>>
    <3>1. ContentInv'
      BY <1>1, <1>2, <2>2, <2>3, <2>8 DEF ContentInv
    <3> QED BY <1>1, <2>5, <2>8, <3>1 DEF View
  <2> QED BY <1>2, <2>4, <2>7, <2>8, SettleIs
<1> QED BY <1>1, <1>3, <1>4

\* The same for a call that need not suspend, and for one that does.
LEMMA NextBatchCInv ==
  ASSUME OInv, CInv, NextBatch
  PROVE  ContentInv' /\ Contract!NextBatch
<1> USE UringAssumption
<1>1. /\ UNCHANGED <<multishot, sent, peer, rcvd, slot, op, cq, eof, error, cancelled>>
      /\ reader = "running"
  BY DEF NextBatch, peerVars
<1>2. /\ Shape /\ OpInv /\ SingleInv /\ FlowInv /\ delivered \in 0..sent
      /\ rcvd \in 0..sent
  BY DEF OInv, CInv, ContentInv, Shape
<1>3. PICK mid \in 0..rcvd : /\ PSpan(slot, pending, delivered, mid)
                             /\ CSpan(slot, cq, mid, rcvd)
  BY <1>1 DEF CInv, ContentInv
<1>4. Asks = Contract!Asks
  BY DEF Asks, Contract!Asks
<1>5. CASE HasResult(pending, eof, error)
  <2>1. PICK ask \in Asks : Take(ask, pending, {}) /\ UNCHANGED asked
    BY <1>5 DEF NextBatch
  <2> PICK pend \in Seq(Piece) : pend = pending
    BY <1>2 DEF Shape
  <2>2. Take(ask, pend, {})
    BY <2>1 DEF Take, TakeBatch, TakeOne
  <2>3. ~multishot => Len(pend) <= 1 /\ \A i \in DOMAIN pend : pend[i].idx = Buf
    BY <1>2 DEF SingleInv
  <2>4. TakesNothing(pend) \/ \E k \in 1..Len(pend) : Takes(ask, pend, k)
    BY <1>2, <2>2, <2>3, TakeIs
  <2>5. pend = <<>> => \/ peer = "closed" /\ delivered = sent
                       \/ peer = "reset" \/ cancelled
    <3> SUFFICES ASSUME pend = <<>>
                 PROVE  (peer = "closed" /\ delivered = sent) \/ peer = "reset" \/ cancelled
      OBVIOUS
    <3>1. eof \/ error # "none"
      BY <1>5 DEF HasResult
    <3>2. cq = <<>>
      <4>1. ~Outstanding
        BY <1>2, <3>1 DEF FlowInv
      <4> QED BY <1>2, <4>1, OutstandingIs DEF OpInv
    <3>3. mid = rcvd
      <4>1. CSpan(slot, <<>>, mid, rcvd)
        BY <1>3, <3>2
      <4> QED BY <4>1, SpanEmpty
    <3>4. delivered = mid
      <4>1. PSpan(slot, <<>>, delivered, mid)
        BY <1>3
      <4> QED BY <4>1, SpanEmpty
    <3> QED BY <1>2, <3>1, <3>3, <3>4 DEF CInv, EndInv, Shape
  <2>6. PSpan(slot, pend, delivered, mid)
    BY <1>3
  <2>7. /\ Contract!Return(ask, cancelled)
        /\ delivered' \in 0..sent
        /\ PSpan(slot, pending', delivered', mid)
    BY <1>1, <1>2, <2>4, <2>5, <2>6, TakeReturns
  <2>8. Contract!Call(ask)
    BY <1>1, <2>1, <2>7 DEF Contract!Call
  <2>9. Contract!NextBatch
    BY <1>4, <2>8 DEF Contract!NextBatch
  <2>10. reader' # "gone"
    BY <2>4 DEF Takes, TakesNothing
  <2>11. ContentInv'
    BY <1>1, <1>3, <2>7, <2>10 DEF ContentInv
  <2> QED BY <2>9, <2>11
<1>6. CASE ~HasResult(pending, eof, error)
  <2>1. /\ asked' \in Asks /\ reader' = "waiting" /\ held' = <<>>
        /\ UNCHANGED <<pending, delivered>>
    BY <1>6 DEF NextBatch
  <2>2. View' = <<>>
    BY <2>1 DEF View
  <2> PICK ask \in Asks : asked' = ask
    BY <2>1
  <2>3. Contract!Call(ask)
    BY <1>1, <2>1, <2>2 DEF Contract!Call, View
  <2>4. Contract!NextBatch
    BY <1>4, <2>3 DEF Contract!NextBatch
  <2>5. ContentInv'
    BY <1>1, <1>2, <1>3, <2>1 DEF ContentInv
  <2> QED BY <2>4, <2>5
<1> QED BY <1>5, <1>6

\* The kernel writes the next bytes where no chunk is, so that nothing that anyone
\* holds changes.
LEMMA KernelCInv ==
  ASSUME OInv, BInv, CInv, KernelData \/ KernelEnd \/ Submit
  PROVE  /\ ContentInv'
         /\ UNCHANGED <<sent, peer, cancelled, delivered, View, asked, reader>>
<1> USE UringAssumption
<1>1. UNCHANGED <<multishot, sent, peer, pending, reader, held, asked, delivered, cancelled>>
  BY DEF KernelData, KernelEnd, Submit, peerVars, streamVars, readerVars
<1>2. /\ Shape /\ delivered \in 0..sent /\ rcvd \in 0..sent /\ sent \in Nat
      /\ cq \in Seq(Cqe) /\ pending \in Seq(Piece) /\ held \in Seq(Piece)
      /\ slot \in [Buffers -> 0..MaxBytes] /\ free \in SUBSET Buffers
      /\ multishot \in BOOLEAN /\ Buf \in Buffers
  BY DEF OInv, Shape, CInv, ContentInv, Buf
<1>3. ASSUME UNCHANGED <<rcvd, slot>>, NEW c \in Cqe, c.kind # "data",
             cq' = cq \/ cq' = Append(cq, c)
      PROVE  ContentInv' /\ View' = View
  <2>1. ASSUME reader # "gone"
        PROVE  \E mid \in 0..rcvd : /\ PSpan(slot, pending, delivered, mid)
                                    /\ CSpan(slot, cq', mid, rcvd)
    <3>1. PICK mid \in 0..rcvd : /\ PSpan(slot, pending, delivered, mid)
                                 /\ CSpan(slot, cq, mid, rcvd)
      BY <2>1 DEF CInv, ContentInv
    <3>2. mid \in Nat /\ rcvd \in Nat /\ rcvd <= rcvd
      BY <1>2
    <3>3. Carries(slot, c, rcvd, rcvd)
      BY <1>3 DEF Carries
    <3>4. CSpan(slot, Append(cq, c), mid, rcvd)
      BY <1>2, <3>1, <3>2, <3>3, CqeAppend
    <3> QED BY <1>3, <3>1, <3>4
  <2>2. ContentInv'
    BY <1>1, <1>2, <1>3, <2>1 DEF CInv, ContentInv
  <2> QED BY <1>1, <1>3, <2>2 DEF View
<1>4. CASE KernelEnd
  <2>1. PICK kind \in {"nobufs", "eof", "reset"} :
          cq' = Append(cq, [kind |-> kind, more |-> FALSE])
    BY <1>4 DEF KernelEnd
  <2> DEFINE c == [kind |-> kind, more |-> FALSE]
  <2>2. c \in Cqe /\ c.kind # "data"
    BY <2>1 DEF Cqe
  <2>3. cq' = Append(cq, c) /\ UNCHANGED <<rcvd, slot>>
    BY <1>4, <2>1 DEF KernelEnd
  <2> HIDE DEF c
  <2> QED BY <1>1, <1>3, <2>2, <2>3
<1>5. CASE Submit
  <2> DEFINE c == [kind |-> "cancelled", more |-> FALSE]
  <2>1. c \in Cqe /\ c.kind # "data"
    BY DEF Cqe
  <2>2. (cq' = cq \/ cq' = Append(cq, c)) /\ UNCHANGED <<rcvd, slot>>
    BY <1>5 DEF Submit
  <2> HIDE DEF c
  <2> QED BY <1>1, <1>3, <2>1, <2>2
<1>6. CASE KernelData
  <2>1. PICK b \in (IF multishot THEN free ELSE {Buf}), r \in 1..EntrySize,
             more \in BOOLEAN :
          /\ rcvd + r <= sent /\ rcvd' = rcvd + r
          /\ slot' = [slot EXCEPT ![b] = rcvd]
          /\ cq' = Append(cq, [kind |-> "data", idx |-> b, len |-> r, more |-> more])
    BY <1>6 DEF KernelData
  <2> DEFINE c == [kind |-> "data", idx |-> b, len |-> r, more |-> more]
  <2>2. b \in Buffers /\ r \in Nat
    BY <1>2, <2>1
  <2>3. c \in Cqe /\ c.kind = "data" /\ c.idx = b /\ c.len = r
    BY <2>1, <2>2 DEF Cqe
  <2>4. cq' = Append(cq, c)
    BY <2>1
  <2> HIDE DEF c
  <2>5. slot'[b] = rcvd /\ \A x \in Buffers : x # b => slot'[x] = slot[x]
    BY <1>2, <2>1, <2>2
  <2>6. ASSUME reader # "gone"
        PROVE  b \notin HeldBufs /\ b \notin PendingBufs /\ b \notin ArrivingBufs
    <3>1. b \in KernelMayWrite
      BY <1>6, <2>1 DEF KernelData, KernelMayWrite
    <3> QED BY <2>6, <3>1 DEF BInv, BuffersConserved
  <2>7. View' = View
    <3>1. CASE reader = "gone"
      <4>1. held = <<>> /\ held' = <<>>
        BY <1>1, <3>1 DEF CInv, ContentInv
      <4> QED BY <4>1 DEF View
    <3>2. CASE reader # "gone"
      <4>1. \A i \in 1..Len(held) : held[i].idx \in Buffers /\ held[i].idx # b
        <5> TAKE i \in 1..Len(held)
        <5>1. held[i].idx \in Buffers
          BY <1>2, PieceFields
        <5>2. i \in DOMAIN held
          BY <1>2
        <5> QED BY <2>6, <3>2, <5>1, <5>2 DEF HeldBufs
      <4> QED BY <1>1, <2>5, <4>1 DEF View
    <3> QED BY <3>1, <3>2
  <2>8. ASSUME reader # "gone"
        PROVE  \E mid \in 0..rcvd' : /\ PSpan(slot', pending, delivered, mid)
                                     /\ CSpan(slot', cq', mid, rcvd')
    <3>1. PICK mid \in 0..rcvd : /\ PSpan(slot, pending, delivered, mid)
                                 /\ CSpan(slot, cq, mid, rcvd)
      BY <2>8 DEF CInv, ContentInv
    <3>2. \A i \in 1..Len(pending) : slot'[pending[i].idx] = slot[pending[i].idx]
      <4> TAKE i \in 1..Len(pending)
      <4>1. pending[i].idx \in Buffers
        BY <1>2, PieceFields
      <4>2. i \in DOMAIN pending
        BY <1>2
      <4> QED BY <2>5, <2>6, <2>8, <4>1, <4>2 DEF PendingBufs
    <3>3. \A i \in 1..Len(cq) : cq[i].kind = "data" => slot'[cq[i].idx] = slot[cq[i].idx]
      <4> TAKE i \in 1..Len(cq)
      <4> HAVE cq[i].kind = "data"
      <4>1. cq[i] \in Cqe /\ i \in DOMAIN cq
        BY <1>2
      <4>2. cq[i].idx \in Buffers
        BY <4>1, CqeFields
      <4>3. cq[i].idx \in ArrivingBufs
        BY <4>1 DEF ArrivingBufs, Arriving
      <4> QED BY <2>5, <2>6, <2>8, <4>2, <4>3
    <3>4. PICK s2 : s2 = slot'
      OBVIOUS
    <3>5. PSpan(s2, pending, delivered, mid) /\ CSpan(s2, cq, mid, rcvd)
      BY <3>1, <3>2, <3>3, <3>4, SpanKept, CqeKept
    <3>6. /\ mid \in Nat /\ rcvd \in Nat /\ rcvd + r \in Nat /\ rcvd <= rcvd + r
          /\ mid \in 0..(rcvd + r)
      BY <1>2, <2>2
    <3>7. Carries(s2, c, rcvd, rcvd + r)
      BY <2>3, <2>5, <3>4 DEF Carries
    <3>8. CSpan(s2, Append(cq, c), mid, rcvd + r)
      <4> PICK e \in Nat : e = rcvd + r
        BY <3>6
      <4>1. Carries(s2, c, rcvd, e) /\ rcvd <= e
        BY <3>6, <3>7
      <4>2. CSpan(s2, Append(cq, c), mid, e)
        BY <1>2, <2>3, <3>5, <3>6, <4>1, CqeAppend
      <4> QED BY <4>2
    <3> QED BY <2>1, <2>4, <3>4, <3>5, <3>6, <3>8
  <2>9. ContentInv'
    BY <1>1, <1>2, <2>8 DEF CInv, ContentInv
  <2> QED BY <1>1, <2>7, <2>9
<1> QED BY <1>4, <1>5, <1>6

\* Every step of the stream is a step of the contract, or none, and keeps the content
\* in order.
LEMMA StepRefines ==
  ASSUME OInv, BInv, CInv, [Next]_vars
  PROVE  ContentInv' /\ [Contract!Next]_(Contract!vars)
<1> SUFFICES ContentInv' /\ (Contract!Next \/ UNCHANGED <<sent, peer, cancelled, delivered,
                                                          View, asked, reader>>)
  BY DEF Contract!vars, View
<1>1. CASE PeerSend
  <2>1. UNCHANGED <<peer, rcvd, slot, pending, cq, cancelled, delivered, held, asked,
                    reader>>
    BY <1>1 DEF PeerSend, streamVars, readerVars
  <2>2. Contract!PeerSend
    <3>1. View' = View
      BY <2>1 DEF View
    <3> QED BY <1>1, <2>1, <3>1 DEF PeerSend, Contract!PeerSend, View
  <2>3. delivered' \in 0..sent'
    <3>1. PICK n \in 1..(MaxBytes - sent) : sent' = sent + n
      BY <1>1 DEF PeerSend
    <3>2. delivered \in 0..sent /\ sent \in 0..MaxBytes
      BY DEF CInv, ContentInv, OInv, Shape
    <3> QED BY <2>1, <3>1, <3>2, UringAssumption
  <2>4. ContentInv'
    BY <2>1, <2>3 DEF CInv, ContentInv
  <2> QED BY <2>2, <2>4 DEF Contract!Next
<1>2. CASE PeerEnd
  <2>1. UNCHANGED <<sent, rcvd, slot, pending, cq, cancelled, delivered, held, asked,
                    reader>>
    BY <1>2 DEF PeerEnd, streamVars, readerVars
  <2>2. Contract!PeerEnd
    <3>1. View' = View
      BY <2>1 DEF View
    <3> QED BY <1>2, <2>1, <3>1 DEF PeerEnd, Contract!PeerEnd, View
  <2>3. ContentInv'
    BY <2>1 DEF CInv, ContentInv
  <2> QED BY <2>2, <2>3 DEF Contract!Next
<1>3. CASE Kernel
  BY <1>3, KernelCInv DEF Kernel
<1>4. CASE Dispatch
  BY <1>4, DispatchCInv DEF Contract!Next
<1>5. CASE NextBatch
  BY <1>5, NextBatchCInv DEF Contract!Next
<1>6. CASE CancelFd
  <2>1. /\ UNCHANGED <<sent, peer, rcvd, slot, pending, cq, delivered, held, asked, reader>>
        /\ cancelled' = TRUE /\ reader # "gone"
    BY <1>6 DEF CancelFd, peerVars, streamVars, readerVars
  <2>2. Contract!Cancel
    <3>1. View' = View
      BY <2>1 DEF View
    <3> QED BY <2>1, <3>1 DEF Contract!Cancel, View
  <2>3. ContentInv'
    BY <2>1 DEF CInv, ContentInv
  <2> QED BY <2>2, <2>3 DEF Contract!Next
<1>7. CASE Destroy
  <2>1. /\ UNCHANGED <<sent, peer, cancelled, delivered, asked>>
        /\ reader \in {"running", "over"} /\ reader' = "gone" /\ held' = <<>>
    BY <1>7 DEF Destroy, peerVars
  <2>2. Contract!Destroy
    <3>1. View' = <<>>
      BY <2>1 DEF View
    <3> QED BY <2>1, <3>1 DEF Contract!Destroy, View
  <2>3. ContentInv'
    BY <2>1 DEF CInv, ContentInv
  <2> QED BY <2>2, <2>3 DEF Contract!Next
<1>8. CASE UNCHANGED vars
  BY <1>8 DEF vars, View, CInv, ContentInv
<1> QED BY <1>1, <1>2, <1>3, <1>4, <1>5, <1>6, <1>7, <1>8 DEF Next

\* All three invariants hold throughout.
LEMMA Inductive == Spec => [](OInv /\ BInv /\ CInv)
<1>1. ASSUME Init PROVE CInv
  <2>1. PSpan(slot, <<>>, 0, 0) /\ CSpan(slot, <<>>, 0, 0)
    BY SpanEmpty
  <2>2. ContentInv
    BY <1>1, <2>1 DEF Init, ContentInv
  <2>3. EndInv
    BY <1>1 DEF Init, EndInv, ToSet
  <2> QED BY <2>2, <2>3 DEF CInv
<1>2. ASSUME OInv, BInv, CInv, [Next]_vars PROVE CInv'
  BY <1>2, StepRefines, StepEndInv DEF CInv
<1> QED BY <1>1, <1>2, InductiveBufs, PTL DEF Spec

\* The variables of both streams keep their types; in particular no more is ever
\* delivered than was sent, nor a CQE or SQE queued that the code does not queue.
THEOREM TypeCorrect == Spec => []TypeOK
<1>1. ASSUME OInv, CInv PROVE TypeOK
  BY <1>1 DEF OInv, Shape, CInv, ContentInv, TypeOK
<1> QED BY <1>1, Inductive, PTL

\* A reader that was told of the end left nothing pending, and there is an end or an
\* error.
OverInv == reader = "over" => pending = <<>> /\ (eof \/ error # "none")

\* OverInv is inductive: once the stream has ended no CQE is left, and _take() and
\* _take_batch() report an end only with nothing pending.
LEMMA StepOverInv == OInv /\ OverInv /\ [Next]_vars => OverInv'
<1> SUFFICES ASSUME OInv, OverInv, [Next]_vars PROVE OverInv'
  OBVIOUS
<1> USE DEF OverInv, peerVars, streamVars, readerVars
<1>1. CASE PeerSend \/ PeerEnd
  BY <1>1 DEF PeerSend, PeerEnd
<1>2. CASE Kernel
  BY <1>2 DEF Kernel, Submit, KernelData, KernelEnd
<1>3. CASE CancelFd \/ Destroy
  BY <1>3 DEF CancelFd, Destroy
<1>4. ASSUME NEW ask, NEW pend, NEW out, Take(ask, pend, out), reader' = "over"
      PROVE  pend = <<>> /\ pending' = <<>>
  BY <1>4 DEF Take, TakeBatch, TakeOne
<1>5. CASE NextBatch
  <2>1. eof' = eof /\ error' = error /\ reader = "running"
    BY <1>5 DEF NextBatch
  <2>2. CASE HasResult(pending, eof, error)
    <3>1. PICK ask \in Asks : Take(ask, pending, {})
      BY <1>5, <2>2 DEF NextBatch
    <3> QED BY <1>4, <2>1, <2>2, <3>1 DEF HasResult
  <2>3. CASE ~HasResult(pending, eof, error)
    BY <1>5, <2>3 DEF NextBatch
  <2> QED BY <2>2, <2>3
<1>6. CASE Dispatch
  <2>1. reader # "over"
    <3>1. eof \/ error # "none" => cq = <<>>
      BY OutstandingIs DEF OInv, FlowInv, OpInv
    <3> QED BY <1>6, <3>1 DEF Dispatch
  <2>2. ASSUME NEW c, NEW pend, Settle(c, pend) PROVE OverInv'
    <3>1. CASE reader = "waiting" /\ HasResult(pend, eof', error')
      <4>1. Take(asked, pend, checkedOut)
        BY <2>2, <3>1 DEF Settle
      <4> QED BY <1>4, <3>1, <4>1 DEF HasResult
    <3>2. CASE ~(reader = "waiting" /\ HasResult(pend, eof', error'))
      BY <2>1, <2>2, <3>2 DEF Settle
    <3> QED BY <3>1, <3>2
  <2>3. \/ \E c, pend : Settle(c, pend)
        \/ reader' = reader
    BY <1>6 DEF Dispatch, HandleCqe, SingleHandleCqe, OrphanCqe, SingleOrphanCqe
  <2> QED BY <2>1, <2>2, <2>3
<1>7. CASE UNCHANGED vars
  BY <1>7 DEF vars
<1> QED BY <1>1, <1>2, <1>3, <1>5, <1>6, <1>7 DEF Next

\* Neither the end of the connection nor a cancellation overtakes data: the reader
\* learns of it when it was given every byte the kernel had put in a buffer.
THEOREM EndAfterDataHolds == Spec => []EndAfterData
<1>1. Init => OverInv
  BY DEF Init, OverInv
<1>2. ASSUME OInv, CInv, OverInv PROVE EndAfterData
  <2> SUFFICES ASSUME reader = "over" PROVE delivered = rcvd
    BY DEF EndAfterData
  <2>1. pending = <<>> /\ cq = <<>>
    BY <1>2, OutstandingIs DEF OverInv, OInv, FlowInv, OpInv
  <2>2. PICK mid \in 0..rcvd : /\ PSpan(slot, pending, delivered, mid)
                               /\ CSpan(slot, cq, mid, rcvd)
    BY <1>2 DEF CInv, ContentInv
  <2> QED BY <2>1, <2>2, SpanEmpty
<1> QED BY <1>1, <1>2, StepOverInv, Inductive, PTL DEF Spec

\* Both io_uring streams implement the contract of recv_stream.hpp, for every ring and
\* buffer size and every way of asking: chunks are the peer's bytes, each once, in
\* order, intact until the next call, and nothing follows the end.
THEOREM ImplementsContract == Spec => Refines
<1>1. Init => Contract!Init
  <2> SUFFICES ASSUME Init PROVE Contract!Init
    OBVIOUS
  <2>1. View = <<>>
    BY DEF Init, View
  <2>2. asked \in Contract!Asks
    BY UringAssumption DEF Init, Contract!Asks
  <2> QED BY <2>1, <2>2 DEF Init, View, Contract!Init
<1>2. OInv /\ BInv /\ CInv /\ [Next]_vars => [Contract!Next]_(Contract!vars)
  BY StepRefines
<1> QED BY <1>1, <1>2, Inductive, PTL DEF Spec, Refines, Contract!Spec
=============================================================================
