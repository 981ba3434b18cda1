------------------------- MODULE FramedReaderProofs -------------------------
(***************************************************************************)
(* Proofs about FramedReader, for every number of bytes, every capacity of *)
(* the batch array and every length asked for: over any stream that keeps  *)
(* the RecvStream contract, read_exact() and read_exact_into() return      *)
(* consecutive runs of exactly n bytes and leave the rest in _buf.         *)
(***************************************************************************)
EXTENDS FramedReader, TLAPS, SequenceTheorems, WellFoundedInduction

\* A set of natural numbers that is not empty has a least element: induction by least
\* counterexample needs no operator, which the library's induction theorems take.
LEMMA LeastOf ==
  ASSUME NEW T \in SUBSET Nat, T # {}
  PROVE  \E x \in T : \A y \in T : x <= y
<1> DEFINE R == OpToRel(<, Nat)
<1>1. IsWellFoundedOn(R, Nat)
  BY NatLessThanWellFounded
<1>2. \A x, y \in T : y < x => <<y, x>> \in R
  BY DEF OpToRel
<1> HIDE DEF R
<1>3. PICK x \in T : \A y \in T : ~(<<y, x>> \in R)
  BY <1>1, WFMin
<1>4. x \in Nat /\ \A y \in T : y \in Nat
  OBVIOUS
<1>5. \A y \in T : ~(y < x)
  BY <1>2, <1>3
<1> QED BY <1>4, <1>5

-----------------------------------------------------------------------------
(* The invariant. *)

Byte == 0..MaxBytes
Chunk == [pos : 0..MaxBytes, len : 1..MaxBytes]

\* The first byte that the current call has not looked at.
Ahead == IF next = 0 THEN delivered ELSE held[next].pos

(***************************************************************************)
(* The chunks of a batch follow each other up to what was delivered, and   *)
(* while the for loop is in the batch none of them begins beyond what the  *)
(* call asked for: only the last chunk can overshoot.                      *)
(***************************************************************************)
HeldInv ==
  /\ next > 0 => reader = "running" /\ Reading
  /\ \A i \in 1..Len(held) :
       /\ held[i].pos + held[i].len = IF i = Len(held) THEN delivered ELSE held[i + 1].pos
       /\ held[i].pos + held[i].len <= delivered
       /\ next > 0 => held[i].pos < taken + want

\* A suspended call still wants what it asked for.
AskInv ==
  reader = "waiting" =>
    /\ Reading /\ next = 0 /\ Got < want
    /\ asked = [cap |-> MaxCap, max |-> want - Got]

\* Between calls: what was returned, and what waits in _buf.
IdleInv ==
  mode = "idle" =>
    /\ Len(out) = want /\ Run(out, taken - want)
    /\ Run(Unread, taken) /\ taken + Len(Unread) = delivered

\* In read_exact(): _buf is all there is.
ExactInv ==
  mode = "exact" => consumed = 0 /\ Run(buf, taken) /\ taken + Len(buf) = Ahead

(***************************************************************************)
(* In read_exact_into(): dest, then what is left in _buf, which is nothing *)
(* as long as dest is not full.                                            *)
(***************************************************************************)
IntoInv ==
  mode = "into" =>
    /\ Len(dest) <= want /\ Run(dest, taken)
    /\ Run(Unread, taken + Len(dest)) /\ taken + Len(dest) + Len(Unread) = Ahead
    /\ Len(dest) < want => Unread = <<>>

IInv == TypeOK /\ HeldInv /\ AskInv /\ IdleInv /\ ExactInv /\ IntoInv

-----------------------------------------------------------------------------
(* Runs of bytes. *)

\* The elements of s after its first n, and its first n.
LEMMA DropFacts ==
  ASSUME NEW s \in Seq(Byte), NEW n \in 0..Len(s)
  PROVE  /\ Drop(s, n) \in Seq(Byte) /\ Len(Drop(s, n)) = Len(s) - n
         /\ \A j \in 1..(Len(s) - n) : Drop(s, n)[j] = s[n + j]
         /\ SubSeq(s, 1, n) \in Seq(Byte) /\ Len(SubSeq(s, 1, n)) = n
         /\ \A j \in 1..n : SubSeq(s, 1, n)[j] = s[j]
BY DEF Drop

\* A run split after n bytes is two runs.
LEMMA SplitRun ==
  ASSUME NEW s \in Seq(Byte), NEW start \in Int, Run(s, start), NEW n \in 0..Len(s)
  PROVE  Run(SubSeq(s, 1, n), start) /\ Run(Drop(s, n), start + n)
<1>1. \A j \in 1..Len(s) : s[j] = start + j - 1
  BY DEF Run
<1>2. n \in Nat /\ Len(s) \in Nat
  OBVIOUS
<1>3. Run(SubSeq(s, 1, n), start)
  <2>1. ASSUME NEW j \in 1..n PROVE SubSeq(s, 1, n)[j] = start + j - 1
    BY <1>1, <1>2, DropFacts
  <2> QED BY <2>1, DropFacts DEF Run
<1>4. Run(Drop(s, n), start + n)
  <2>1. ASSUME NEW j \in 1..(Len(s) - n) PROVE Drop(s, n)[j] = (start + n) + j - 1
    <3>1. n + j \in 1..Len(s)
      BY <1>2
    <3>2. Drop(s, n)[j] = start + (n + j) - 1
      BY <1>1, <3>1, DropFacts
    <3> QED BY <1>2, <3>2
  <2> QED BY <2>1, DropFacts DEF Run
<1> QED BY <1>3, <1>4

\* Two runs that meet are one.
LEMMA JoinRun ==
  ASSUME NEW s \in Seq(Byte), NEW t \in Seq(Byte), NEW start \in Int,
         Run(s, start), Run(t, start + Len(s))
  PROVE  /\ s \o t \in Seq(Byte) /\ Len(s \o t) = Len(s) + Len(t)
         /\ Run(s \o t, start)
<1> DEFINE u == s \o t
<1>1. /\ u \in Seq(Byte) /\ Len(u) = Len(s) + Len(t)
      /\ \A i \in 1..(Len(s) + Len(t)) : u[i] = IF i <= Len(s) THEN s[i] ELSE t[i - Len(s)]
  BY ConcatProperties
<1> HIDE DEF u
<1>2. Len(s) \in Nat /\ Len(t) \in Nat
  OBVIOUS
<1>3. ASSUME NEW j \in 1..(Len(s) + Len(t)) PROVE u[j] = start + j - 1
  <2>1. CASE j <= Len(s)
    <3>1. j \in 1..Len(s) /\ u[j] = s[j]
      BY <1>1, <1>2, <2>1
    <3> QED BY <3>1 DEF Run
  <2>2. CASE ~(j <= Len(s))
    <3>1. j - Len(s) \in 1..Len(t) /\ u[j] = t[j - Len(s)]
      BY <1>1, <1>2, <2>2
    <3>2. t[j - Len(s)] = (start + Len(s)) + (j - Len(s)) - 1
      BY <3>1 DEF Run
    <3> QED BY <1>2, <3>1, <3>2
  <2> QED BY <2>1, <2>2
<1>4. Run(u, start)
  BY <1>1, <1>3 DEF Run
<1> QED BY <1>1, <1>4 DEF u

\* A chunk is a run.
LEMMA DataRun ==
  ASSUME NEW c \in Chunk, c.pos + c.len <= MaxBytes
  PROVE  Data(c) \in Seq(Byte) /\ Len(Data(c)) = c.len /\ Run(Data(c), c.pos)
<1>1. c.pos \in Nat /\ c.len \in Nat /\ MaxBytes \in Nat
  BY FramedAssumption DEF Chunk
<1>2. \A j \in 1..c.len : c.pos + j - 1 \in Byte
  BY <1>1 DEF Byte
<1>3. Data(c) \in [1..c.len -> Byte]
  BY <1>2 DEF Data
<1>4. Data(c) \in Seq(Byte) /\ Len(Data(c)) = c.len
  BY <1>1, <1>3
<1>5. \A j \in 1..c.len : Data(c)[j] = c.pos + j - 1
  BY DEF Data
<1> QED BY <1>4, <1>5 DEF Run

\* std::min().
LEMMA SmallerFacts ==
  ASSUME NEW a \in Nat, NEW b \in Nat
  PROVE  /\ Smaller(a, b) \in 0..a /\ Smaller(a, b) <= b
         /\ Smaller(a, b) < a => Smaller(a, b) = b
BY DEF Smaller

\* What lies beyond k bytes at p, taken from l bytes at p, ends where these end.
LEMMA Beyond ==
  ASSUME NEW a \in Int, NEW p \in Int, NEW k \in Int, NEW l \in Int, a = p + k
  PROVE  a + (l - k) = p + l
OBVIOUS

\* Nothing is dropped.
LEMMA DropNone ==
  ASSUME NEW s \in Seq(Byte) PROVE Drop(s, 0) = s
<1>1. Len(s) \in Nat
  OBVIOUS
<1>2. /\ Drop(s, 0) \in Seq(Byte) /\ Len(Drop(s, 0)) = Len(s)
      /\ \A j \in 1..Len(s) : Drop(s, 0)[j] = s[j]
  BY <1>1, DropFacts
<1> QED BY <1>1, <1>2, SeqEqual

\* The ends of the chunks of a batch ascend: none is beyond the last.
LEMMA Ascending ==
  ASSUME NEW k \in Nat, NEW e, \A i \in 0..k : e[i] \in Int, \A i \in 1..k : e[i - 1] < e[i]
  PROVE  \A i \in 0..k : e[i] <= e[k]
<1> DEFINE T == {d \in Nat : d <= k /\ e[k - d] > e[k]}
<1>1. T = {}
  <2>1. SUFFICES ASSUME T # {} PROVE FALSE
    OBVIOUS
  <2>2. PICK d \in T : \A y \in T : d <= y
    BY <2>1, LeastOf
  <2>3. d \in Nat /\ d <= k /\ e[k - d] > e[k] /\ k - d \in 0..k /\ k \in 0..k
    BY <2>2
  <2>4. d # 0
    BY <2>3
  <2>5. /\ d - 1 \in Nat /\ d - 1 <= k /\ ~(d <= d - 1)
        /\ k - (d - 1) \in 1..k /\ k - (d - 1) \in 0..k /\ (k - (d - 1)) - 1 = k - d
    BY <2>3, <2>4
  <2>6. ~(e[k - (d - 1)] > e[k])
    BY <2>2, <2>5
  <2>7. e[k - d] < e[k - (d - 1)]
    BY <2>5
  <2>8. e[k] \in Int /\ e[k - d] \in Int /\ e[k - (d - 1)] \in Int
    BY <2>3, <2>5
  <2> QED BY <2>3, <2>6, <2>7, <2>8
<1>2. ASSUME NEW i \in 0..k PROVE e[i] <= e[k]
  <2>1. k - i \in Nat /\ k - i <= k /\ k - (k - i) = i /\ k \in 0..k
    OBVIOUS
  <2>2. ~(e[k - (k - i)] > e[k])
    BY <1>1, <2>1
  <2>3. e[i] \in Int /\ e[k] \in Int
    BY <2>1
  <2> QED BY <2>1, <2>2, <2>3
<1> QED BY <1>2

-----------------------------------------------------------------------------
(* The state. *)

\* What TypeOK says of the numbers.
LEMMA Numbers ==
  ASSUME TypeOK
  PROVE  /\ MaxBytes \in Nat /\ sent \in Nat /\ sent <= MaxBytes
         /\ delivered \in Nat /\ delivered <= sent
         /\ want \in Nat /\ want <= MaxWant /\ taken \in Nat
         /\ held \in Seq(Chunk) /\ Len(held) \in Nat /\ next \in Nat /\ next <= Len(held)
         /\ buf \in Seq(Byte) /\ Len(buf) \in Nat /\ consumed \in 0..Len(buf)
         /\ dest \in Seq(Byte) /\ Len(dest) \in Nat
         /\ out \in Seq(Byte) /\ Len(out) \in Nat
<1>1. /\ MaxBytes \in Nat /\ MaxWant \in Nat /\ sent \in 0..MaxBytes /\ delivered \in 0..sent
      /\ want \in 0..MaxWant /\ taken \in Nat /\ consumed \in 0..Len(buf)
      /\ held \in Seq(Chunk) /\ buf \in Seq(Byte) /\ dest \in Seq(Byte) /\ out \in Seq(Byte)
      /\ next \in 0..Len(held)
  BY FramedAssumption DEF TypeOK, Byte, Chunk
<1>2. Len(held) \in Nat /\ Len(buf) \in Nat /\ Len(dest) \in Nat /\ Len(out) \in Nat
  BY <1>1
<1> QED BY <1>1, <1>2

\* What is left in _buf.
LEMMA UnreadFacts ==
  ASSUME TypeOK
  PROVE  Unread \in Seq(Byte) /\ Len(Unread) = Len(buf) - consumed /\ Len(Unread) \in Nat
<1>1. Unread \in Seq(Byte) /\ Len(Unread) = Len(buf) - consumed
  BY Numbers, DropFacts DEF Unread
<1> QED BY <1>1

\* A call that wants more has looked at all that was delivered, and holds it all.
LEMMA WantsMore ==
  ASSUME IInv, Reading, next = 0, Got < want
  PROVE  taken + Got = delivered /\ Got \in Nat
<1>1. CASE mode = "exact"
  BY <1>1, Numbers DEF IInv, ExactInv, Ahead, Got
<1>2. CASE mode = "into"
  <2>1. Got = Len(dest) /\ Len(dest) < want /\ Len(dest) \in Nat
    BY <1>2, Numbers DEF IInv, Got
  <2>2. Unread = <<>> /\ taken + Len(dest) + Len(Unread) = delivered
    BY <1>2, <2>1 DEF IInv, IntoInv, Ahead
  <2>3. Len(Unread) = 0
    BY <2>2
  <2> QED BY <2>1, <2>2, <2>3, Numbers DEF IInv
<1> QED BY <1>1, <1>2 DEF Reading

\* The call's own data stays; the first byte ahead is where it was.
LEMMA SameCall ==
  ASSUME IInv, UNCHANGED <<buf, consumed, mode, want, dest, out, taken>>, Ahead' = Ahead,
         mode = "idle" => delivered' = delivered
  PROVE  IdleInv' /\ ExactInv' /\ IntoInv'
<1>1. Unread' = Unread
  BY DEF Unread
<1>2. IdleInv'
  BY <1>1 DEF IInv, IdleInv, Run
<1>3. ExactInv'
  BY DEF IInv, ExactInv, Run
<1>4. IntoInv'
  BY <1>1 DEF IInv, IntoInv, Run
<1> QED BY <1>2, <1>3, <1>4

frameCall == <<sent, buf, consumed, mode, want, dest, out, taken>>

\* next_batch() returns chunks: the for loop starts.
LEMMA BatchInv ==
  ASSUME IInv, Reading, next = 0, Got < want, UNCHANGED frameCall, EnterBatch,
         NEW ask, ask.max = want - Got, ask.cap = MaxCap, Stream!ReturnBatch(ask),
         peer' \in {"open", "closed", "reset"}, cancelled' \in BOOLEAN
  PROVE  IInv'
<1>1. UNCHANGED <<sent, buf, consumed, mode, want, dest, out, taken>>
  BY DEF frameCall
<1>2. /\ MaxBytes \in Nat /\ sent \in Nat /\ sent <= MaxBytes /\ delivered \in Nat
      /\ delivered <= sent /\ want \in Nat /\ taken \in Nat
      /\ taken + Got = delivered /\ Got \in Nat
  BY Numbers, WantsMore DEF IInv
<1>3. PICK k \in 1..MaxCap :
        \E ends \in [0..k -> delivered..sent] :
          /\ Stream!GoodBatch(ends, k, ask)
          /\ held' = [i \in 1..k |-> [pos |-> ends[i - 1], len |-> ends[i] - ends[i - 1]]]
          /\ delivered' = ends[k]
  BY DEF Stream!ReturnBatch
<1>3a. PICK ends \in [0..k -> delivered..sent] :
         /\ Stream!GoodBatch(ends, k, ask)
         /\ held' = [i \in 1..k |-> [pos |-> ends[i - 1], len |-> ends[i] - ends[i - 1]]]
         /\ delivered' = ends[k]
  BY <1>3
<1>4. reader' = "running" /\ next' = 1 /\ k \in Nat /\ k >= 1
  BY <1>3, FramedAssumption DEF Stream!ReturnBatch, EnterBatch
<1>5. /\ ends[0] = delivered
      /\ \A i \in 1..k : ends[i - 1] < ends[i]
      /\ ends[k - 1] < taken + want
  <2>1. ends[0] = delivered /\ (\A i \in 1..k : ends[i - 1] < ends[i])
        /\ ends[k - 1] - delivered < want - Got
    BY <1>3a DEF Stream!GoodBatch
  <2>2. ends[k - 1] \in Nat
    BY <1>2, <1>3a, <1>4
  <2> QED BY <1>2, <2>1, <2>2
<1>6. \A i \in 0..k : ends[i] \in Nat /\ ends[i] <= sent /\ ends[i] >= delivered
  BY <1>2, <1>3, SMTT(30)
<1>7. \A i \in 1..k : i \in 0..k /\ i - 1 \in 0..k /\ i - 1 \in 0..(k - 1)
  BY <1>4
<1>8. \A i \in 0..k : ends[i] <= ends[k]
  <2>1. \A i \in 0..k : ends[i] \in Int
    BY <1>6
  <2>2. \A i \in 1..k : ends[i - 1] < ends[i]
    BY <1>5
  <2> QED BY <1>4, <2>1, <2>2, Ascending
<1>9. \A i \in 0..(k - 1) : ends[i] <= ends[k - 1]
  <2>1. k - 1 \in Nat /\ \A i \in 0..(k - 1) : ends[i] \in Int
    BY <1>4, <1>6
  <2>2. \A i \in 1..(k - 1) : ends[i - 1] < ends[i]
    BY <1>4, <1>5
  <2> QED BY <2>1, <2>2, Ascending
<1>10. ASSUME NEW i \in 1..k
       PROVE  /\ held'[i].pos = ends[i - 1] /\ held'[i].len = ends[i] - ends[i - 1]
              /\ held'[i] \in Chunk
  <2>1. ends[i - 1] \in 0..MaxBytes /\ ends[i] - ends[i - 1] \in 1..MaxBytes
    BY <1>2, <1>5, <1>6, <1>7, SMTT(30)
  <2>2. PICK p \in 0..MaxBytes, l \in 1..MaxBytes : p = ends[i - 1] /\ l = ends[i] - ends[i - 1]
    BY <2>1
  <2>3. held'[i] = [pos |-> p, len |-> l]
    BY <1>3a, <2>2
  <2> QED BY <2>2, <2>3 DEF Chunk
<1>11. \A i \in 1..k : held'[i] \in Chunk
  BY <1>10
<1>12. held' \in Seq(Chunk) /\ Len(held') = k
  <2>1. held' \in [1..k -> Chunk]
    BY <1>3a, <1>11
  <2> QED BY <1>4, <2>1
<1>13. delivered' \in 0..sent /\ delivered' \in Nat
  BY <1>2, <1>3a, <1>4, <1>6
<1>14. TypeOK'
  BY <1>1, <1>4, <1>12, <1>13 DEF IInv, TypeOK, Chunk
<1>15. HeldInv'
  <2>1. ASSUME NEW i \in 1..k
        PROVE  /\ held'[i].pos + held'[i].len = IF i = k THEN delivered' ELSE held'[i + 1].pos
               /\ held'[i].pos + held'[i].len <= delivered'
               /\ held'[i].pos < taken + want
    <3>1. ends[i] \in Nat /\ ends[i - 1] \in Nat /\ ends[k - 1] \in Nat
      BY <1>4, <1>6, <1>7
    <3>2. held'[i].pos + held'[i].len = ends[i] /\ held'[i].pos = ends[i - 1]
      BY <1>10, <3>1, SMTT(30)
    <3>3. ends[i] <= delivered' /\ ends[i - 1] <= ends[k - 1]
      BY <1>3a, <1>7, <1>8, <1>9
    <3>4. i # k => i + 1 \in 1..k /\ (i + 1) - 1 = i
      BY <1>4
    <3>5. i # k => held'[i + 1].pos = ends[i]
      BY <1>10, <3>4
    <3> QED BY <1>2, <1>3a, <1>5, <3>1, <3>2, <3>3, <3>5, SMTT(30)
  <2>2. Reading'
    BY <1>1 DEF Reading
  <2> QED BY <1>1, <1>4, <1>12, <2>1, <2>2 DEF HeldInv
<1>16. AskInv'
  BY <1>4 DEF AskInv
<1>17. IdleInv' /\ ExactInv' /\ IntoInv'
  <2>1. Ahead' = ends[0] /\ Ahead = delivered
    <3>1. 1 \in 1..k /\ 1 - 1 = 0
      BY <1>4
    <3>2. held'[1].pos = ends[0]
      BY <1>10, <3>1
    <3> QED BY <1>4, <3>2 DEF Ahead
  <2>2. mode # "idle"
    BY DEF Reading
  <2> QED BY <1>1, <1>5, <2>1, <2>2, SameCall
<1> QED BY <1>14, <1>15, <1>16, <1>17 DEF IInv

\* It reports the end or an error, or suspends: there is no batch.
LEMMA NoBatchInv ==
  ASSUME IInv, Reading, next = 0, UNCHANGED frameCall, EnterBatch,
         held' = <<>>, delivered' = delivered, reader' \in {"over", "waiting"},
         reader' = "waiting" => Got < want /\ asked' = [cap |-> MaxCap, max |-> want - Got],
         peer' \in {"open", "closed", "reset"}, cancelled' \in BOOLEAN
  PROVE  IInv'
<1>1. UNCHANGED <<sent, buf, consumed, mode, want, dest, out, taken>> /\ next' = 0
  BY DEF frameCall, EnterBatch
<1>2. held' \in Seq(Chunk) /\ Len(held') = 0
  OBVIOUS
<1>3. TypeOK'
  BY <1>1, <1>2 DEF IInv, TypeOK, Chunk
<1>4. HeldInv'
  BY <1>1, <1>2 DEF HeldInv
<1>5. AskInv'
  <2>1. Reading' = Reading /\ Got' = Got
    BY <1>1 DEF Reading, Got
  <2> QED BY <1>1, <2>1 DEF AskInv
<1>6. Ahead' = Ahead
  BY <1>1 DEF Ahead
<1>7. IdleInv' /\ ExactInv' /\ IntoInv'
  BY <1>1, <1>6, SameCall
<1> QED BY <1>3, <1>4, <1>5, <1>7 DEF IInv

\* Whatever next_batch() returns.
LEMMA ReturnInv ==
  ASSUME IInv, Reading, next = 0, Got < want, UNCHANGED frameCall, EnterBatch,
         NEW ask, ask = [cap |-> MaxCap, max |-> want - Got], NEW b, Stream!Return(ask, b),
         peer' \in {"open", "closed", "reset"}, cancelled' \in BOOLEAN
  PROVE  IInv'
<1>1. CASE Stream!ReturnBatch(ask)
  BY <1>1, BatchInv
<1>2. CASE Stream!ReturnEof \/ Stream!ReturnError(b)
  <2>1. held' = <<>> /\ delivered' = delivered /\ reader' = "over"
    BY <1>2 DEF Stream!ReturnEof, Stream!ReturnError
  <2> QED BY <2>1, NoBatchInv
<1> QED BY <1>1, <1>2 DEF Stream!Return

-----------------------------------------------------------------------------
(* The actions. *)

\* read_exact() is called.
LEMMA ReadExactInv ==
  ASSUME IInv, NEW n \in 0..MaxWant, ReadExact(n) PROVE IInv'
<1>1. /\ UNCHANGED <<next, out, taken, sent, peer, cancelled, delivered, held, asked, reader>>
      /\ mode = "idle" /\ reader = "running" /\ mode' = "exact" /\ want' = n
      /\ buf' = Unread /\ consumed' = 0 /\ dest' = <<>>
  BY DEF ReadExact, streamVars
<1>2. Unread \in Seq(Byte) /\ Len(Unread) \in Nat
  BY UnreadFacts DEF IInv
<1>3. next = 0
  BY <1>1, Numbers DEF IInv, HeldInv, Reading
<1>4. TypeOK'
  <2>1. 0 \in 0..Len(buf') /\ dest' \in Seq(Byte)
    BY <1>1, <1>2
  <2> QED BY <1>1, <1>2, <2>1 DEF IInv, TypeOK, Byte
<1>5. HeldInv'
  BY <1>1, <1>3 DEF IInv, HeldInv
<1>6. AskInv'
  BY <1>1 DEF AskInv
<1>7. Run(Unread, taken) /\ taken + Len(Unread) = delivered
  BY <1>1 DEF IInv, IdleInv
<1>8. ExactInv'
  <2>1. Run(buf', taken') /\ taken' + Len(buf') = delivered'
    BY <1>1, <1>7
  <2> QED BY <1>1, <1>3, <2>1 DEF ExactInv, Ahead, Run
<1> QED BY <1>1, <1>4, <1>5, <1>6, <1>8 DEF IInv, IdleInv, IntoInv

\* read_exact_into() is called: what _buf has goes first.
LEMMA ReadExactIntoInv ==
  ASSUME IInv, NEW n \in 0..MaxWant, ReadExactInto(n) PROVE IInv'
<1>1. PICK u \in Seq(Byte) : u = Unread /\ Len(u) \in Nat
  BY UnreadFacts DEF IInv
<1>2. PICK g \in 0..Len(u) : g = Smaller(Len(u), n) /\ g <= n /\ (g < n => g = Len(u))
  BY <1>1, FramedAssumption DEF Smaller
<1>3. /\ UNCHANGED <<next, out, taken, sent, peer, cancelled, delivered, held, asked, reader>>
      /\ mode = "idle" /\ reader = "running" /\ mode' = "into" /\ want' = n
      /\ buf' = u /\ consumed' = g /\ dest' = SubSeq(u, 1, g)
  BY <1>1, <1>2 DEF ReadExactInto, streamVars
<1>4. next = 0 /\ taken \in Nat
  BY <1>3, Numbers DEF IInv, HeldInv, Reading
<1>5. PICK d \in Seq(Byte), r \in Seq(Byte) :
        /\ d = SubSeq(u, 1, g) /\ Len(d) = g
        /\ r = Drop(u, g) /\ Len(r) = Len(u) - g
  BY DropFacts
<1>6. dest' = d /\ Unread' = r
  BY <1>3, <1>5 DEF Unread
<1>7. Run(d, taken) /\ Run(r, taken + g)
  <2>1. Run(u, taken)
    BY <1>1, <1>3 DEF IInv, IdleInv
  <2> QED BY <1>4, <1>5, <2>1, SplitRun
<1>8. taken + Len(u) = delivered
  BY <1>1, <1>3 DEF IInv, IdleInv
<1>9. TypeOK'
  BY <1>1, <1>3, <1>5 DEF IInv, TypeOK, Byte
<1>10. HeldInv'
  BY <1>3, <1>4 DEF IInv, HeldInv
<1>11. AskInv'
  BY <1>3 DEF AskInv
<1>12. IntoInv'
  <2>1. g < n => r = <<>>
    BY <1>2, <1>5
  <2>2. taken + g + Len(r) = delivered
    BY <1>1, <1>4, <1>5, <1>8
  <2>3. Ahead' = delivered
    BY <1>3, <1>4 DEF Ahead
  <2> QED BY <1>2, <1>3, <1>5, <1>6, <1>7, <2>1, <2>2, <2>3, SMTT(30) DEF IntoInv, Run
<1> QED BY <1>3, <1>9, <1>10, <1>11, <1>12 DEF IInv, IdleInv, ExactInv

\* co_await _stream.next_batch().
LEMMA AskStreamInv ==
  ASSUME IInv, AskStream PROVE IInv'
<1>1. PICK ask : ask = [cap |-> MaxCap, max |-> want - Got]
  OBVIOUS
<1>2. /\ Reading /\ next = 0 /\ Got < want /\ Stream!Call(ask) /\ EnterBatch
      /\ UNCHANGED <<buf, consumed, mode, want, dest, out, taken>>
  BY <1>1 DEF AskStream
<1>3. UNCHANGED frameCall /\ peer' = peer /\ cancelled' = cancelled
  BY <1>2 DEF Stream!Call, frameCall
<1>4. peer' \in {"open", "closed", "reset"} /\ cancelled' \in BOOLEAN
  BY <1>3 DEF IInv, TypeOK
<1>5. CASE Stream!Return(ask, cancelled)
  BY <1>1, <1>2, <1>3, <1>4, <1>5, ReturnInv
<1>6. CASE asked' = ask /\ reader' = "waiting" /\ held' = <<>> /\ delivered' = delivered
  BY <1>1, <1>2, <1>3, <1>4, <1>6, NoBatchInv
<1> QED BY <1>2, <1>5, <1>6 DEF Stream!Call

\* The stream resumes the suspended call.
LEMMA StreamResumesInv ==
  ASSUME IInv, StreamResumes PROVE IInv'
<1>1. EnterBatch /\ UNCHANGED <<buf, consumed, mode, want, dest, out, taken>>
  BY DEF StreamResumes
<1>2. reader = "waiting" /\ \E b : Stream!Return(asked, b)
  <2>1. CASE Stream!Resume
    BY <2>1 DEF Stream!Resume
  <2>2. CASE Stream!Cancel /\ reader' # reader
    BY <2>2 DEF Stream!Cancel
  <2> QED BY <2>1, <2>2 DEF StreamResumes
<1>3. UNCHANGED frameCall /\ peer' = peer /\ (cancelled' = cancelled \/ cancelled' = TRUE)
  BY <1>1 DEF StreamResumes, Stream!Resume, Stream!Cancel, frameCall
<1>4. peer' \in {"open", "closed", "reset"} /\ cancelled' \in BOOLEAN
  BY <1>3 DEF IInv, TypeOK
<1>5. Reading /\ next = 0 /\ Got < want /\ asked = [cap |-> MaxCap, max |-> want - Got]
  BY <1>2 DEF IInv, AskInv
<1>6. PICK ask, b : ask = asked /\ Stream!Return(ask, b)
  BY <1>2
<1> QED BY <1>1, <1>3, <1>4, <1>5, <1>6, ReturnInv

\* The for loop goes to the next chunk, or ends.
LEMMA NextChunkFacts ==
  ASSUME IInv, next > 0, NextChunk, UNCHANGED <<delivered, held>>
  PROVE  /\ held[next] \in Chunk /\ next \in 1..Len(held) /\ reader = "running" /\ Reading
         /\ Ahead = held[next].pos /\ Ahead' = held[next].pos + held[next].len
         /\ held[next].pos < taken + want
         /\ held[next].pos + held[next].len <= MaxBytes
         /\ next' \in 0..Len(held)
<1>1. /\ held \in Seq(Chunk) /\ Len(held) \in Nat /\ next \in 1..Len(held)
      /\ MaxBytes \in Nat /\ delivered \in Nat /\ delivered <= MaxBytes
  BY Numbers DEF IInv
<1>2. held[next] \in Chunk /\ next' \in 0..Len(held)
  BY <1>1 DEF NextChunk
<1>3. /\ reader = "running" /\ Reading /\ held[next].pos < taken + want
      /\ held[next].pos + held[next].len = IF next = Len(held) THEN delivered ELSE held[next + 1].pos
      /\ held[next].pos + held[next].len <= delivered
  BY <1>1 DEF IInv, HeldInv
<1>4. held[next].pos + held[next].len <= MaxBytes
  BY <1>1, <1>2, <1>3, SMTT(30) DEF Chunk
<1>5. Ahead = held[next].pos
  BY <1>1 DEF Ahead
<1>6. Ahead' = held[next].pos + held[next].len
  <2>1. CASE next = Len(held)
    BY <1>3, <2>1 DEF NextChunk, Ahead
  <2>2. CASE next # Len(held)
    <3>1. next' = next + 1 /\ next' # 0
      BY <1>1, <2>2 DEF NextChunk
    <3> QED BY <1>3, <2>2, <3>1 DEF Ahead
  <2> QED BY <2>1, <2>2
<1> QED BY <1>1, <1>2, <1>3, <1>4, <1>5, <1>6

\* read_exact()'s loop body.
LEMMA AppendChunkInv ==
  ASSUME IInv, AppendChunk PROVE IInv'
<1>1. /\ mode = "exact" /\ next > 0 /\ NextChunk /\ buf' = buf \o Data(held[next])
      /\ UNCHANGED <<consumed, mode, want, dest, out, taken>>
      /\ UNCHANGED <<sent, peer, cancelled, delivered, held, asked, reader>>
  BY DEF AppendChunk, streamVars
<1>2. /\ held[next] \in Chunk /\ reader = "running" /\ Reading
      /\ Ahead = held[next].pos /\ Ahead' = held[next].pos + held[next].len
      /\ held[next].pos + held[next].len <= MaxBytes /\ next' \in 0..Len(held)
  BY <1>1, NextChunkFacts
<1>3. PICK d \in Seq(Byte) : d = Data(held[next]) /\ Len(d) = held[next].len
                             /\ Run(d, held[next].pos)
  BY <1>2, DataRun
<1>4. /\ consumed = 0 /\ Run(buf, taken) /\ taken + Len(buf) = held[next].pos
      /\ buf \in Seq(Byte) /\ taken \in Int /\ taken \in Nat /\ Len(buf) \in Nat
  BY <1>1, <1>2, Numbers DEF IInv, ExactInv
<1>5. buf \o d \in Seq(Byte) /\ Len(buf \o d) = Len(buf) + Len(d) /\ Run(buf \o d, taken)
  BY <1>3, <1>4, JoinRun
<1>6. PICK b \in Seq(Byte) :
        b = buf' /\ Len(b) = Len(buf) + held[next].len /\ Run(b, taken) /\ Len(b) \in Nat
  <2>1. buf' = buf \o d
    BY <1>1, <1>3
  <2>2. buf' \in Seq(Byte) /\ Len(buf') = Len(buf) + held[next].len /\ Run(buf', taken)
    BY <1>3, <1>5, <2>1, Zenon
  <2>3. PICK b : b = buf'
    OBVIOUS
  <2>4. b \in Seq(Byte) /\ Len(b) = Len(buf) + held[next].len /\ Run(b, taken)
    BY <2>2, <2>3
  <2>5. Len(b) \in Nat
    BY <2>4
  <2> QED BY <2>3, <2>4, <2>5
<1>7. /\ mode' = "exact" /\ consumed' = 0 /\ taken' = taken
      /\ UNCHANGED <<want, dest, out, sent, peer, cancelled, delivered, held, asked, reader>>
  BY <1>1, <1>4
<1>8. TypeOK'
  <2>1. consumed' \in 0..Len(buf') /\ buf' \in Seq(Byte)
    BY <1>6, <1>7
  <2> QED BY <1>2, <1>7, <2>1 DEF IInv, TypeOK, Byte
<1>9. HeldInv'
  <2>1. Reading' /\ next > 0
    BY <1>1, <1>7 DEF Reading
  <2> QED BY <1>2, <1>7, <2>1 DEF IInv, HeldInv
<1>10. AskInv'
  BY <1>2, <1>7 DEF AskInv
<1>11. ExactInv'
  <2>1. taken + Len(b) = Ahead'
    <3>1. held[next].len \in Nat /\ held[next].pos \in Nat
      BY <1>2 DEF Chunk
    <3> QED BY <1>2, <1>4, <1>6, <3>1, SMTT(30)
  <2> QED BY <1>6, <1>7, <2>1 DEF ExactInv, Run
<1> QED BY <1>7, <1>8, <1>9, <1>10, <1>11 DEF IInv, IdleInv, IntoInv

\* read_exact_into()'s loop body: only the last chunk can carry more than is wanted.
LEMMA CopyChunkInv ==
  ASSUME IInv, CopyChunk PROVE IInv'
<1>1. /\ mode = "into" /\ next > 0 /\ NextChunk
      /\ UNCHANGED <<mode, want, out, taken>>
      /\ UNCHANGED <<sent, peer, cancelled, delivered, held, asked, reader>>
  BY DEF CopyChunk, streamVars
<1>2. /\ held[next] \in Chunk /\ reader = "running" /\ Reading
      /\ Ahead = held[next].pos /\ Ahead' = held[next].pos + held[next].len
      /\ held[next].pos < taken + want
      /\ held[next].pos + held[next].len <= MaxBytes /\ next' \in 0..Len(held)
  BY <1>1, NextChunkFacts
<1>3. PICK d \in Seq(Byte) : d = Data(held[next]) /\ Len(d) = held[next].len
                             /\ Run(d, held[next].pos) /\ Len(d) \in Nat
  BY <1>2, DataRun DEF Chunk
<1>4. /\ dest \in Seq(Byte) /\ Len(dest) \in Nat /\ taken \in Nat /\ want \in Nat
      /\ buf \in Seq(Byte) /\ Len(buf) \in Nat /\ consumed \in 0..Len(buf)
      /\ held[next].pos \in Nat /\ held[next].len \in Nat
  <2>1. held[next].pos \in Nat /\ held[next].len \in Nat
    BY <1>2 DEF Chunk
  <2> QED BY <2>1, Numbers DEF IInv
<1>5. Len(dest) < want /\ Unread = <<>> /\ taken + Len(dest) = held[next].pos /\ Run(dest, taken)
  <2>1. /\ Len(dest) <= want /\ Run(dest, taken) /\ taken + Len(dest) + Len(Unread) = held[next].pos
        /\ Len(dest) < want => Unread = <<>>
    BY <1>1, <1>2 DEF IInv, IntoInv
  <2>2. Len(Unread) \in Nat
    BY UnreadFacts DEF IInv
  <2>3. Len(dest) < want
    BY <1>2, <1>4, <2>1, <2>2
  <2>4. Unread = <<>> /\ Len(Unread) = 0
    BY <2>1, <2>3
  <2> QED BY <1>4, <2>1, <2>3, <2>4
<1>6. PICK k \in 0..Len(d) :
        k = Smaller(Len(d), want - Len(dest)) /\ Len(dest) + k <= want
        /\ (k < Len(d) => Len(dest) + k = want)
  <2>1. PICK w \in Nat : w = want - Len(dest)
    BY <1>4, <1>5
  <2>2. PICK k \in 0..Len(d) : k = Smaller(Len(d), w) /\ k <= w /\ (k < Len(d) => k = w)
    BY <1>3, SmallerFacts
  <2>3. Len(dest) + k <= want /\ (k < Len(d) => Len(dest) + k = want)
    BY <1>3, <1>4, <2>1, <2>2
  <2> QED BY <2>1, <2>2, <2>3
<1>7. dest' = dest \o SubSeq(d, 1, k) /\ Stash(k, d)
  BY <1>3, <1>6 DEF CopyChunk
<1>8. PICK p \in Seq(Byte), r \in Seq(Byte) :
        /\ p = SubSeq(d, 1, k) /\ Len(p) = k /\ Run(p, held[next].pos)
        /\ r = Drop(d, k) /\ Len(r) = Len(d) - k /\ Run(r, held[next].pos + k)
  <2>1. /\ SubSeq(d, 1, k) \in Seq(Byte) /\ Len(SubSeq(d, 1, k)) = k
        /\ Drop(d, k) \in Seq(Byte) /\ Len(Drop(d, k)) = Len(d) - k
    BY <1>3, <1>6, DropFacts
  <2>2. held[next].pos \in Int
    BY <1>4
  <2>3. Run(SubSeq(d, 1, k), held[next].pos) /\ Run(Drop(d, k), held[next].pos + k)
    BY <1>3, <1>6, <2>2, SplitRun
  <2> QED BY <2>1, <2>3
<1>9. PICK e \in Seq(Byte) : e = dest' /\ Len(e) = Len(dest) + k /\ Run(e, taken)
  <2>1. /\ dest \o p \in Seq(Byte) /\ Len(dest \o p) = Len(dest) + Len(p)
        /\ Run(dest \o p, taken)
    <3>1. Run(p, taken + Len(dest)) /\ taken \in Int
      BY <1>4, <1>5, <1>8
    <3> QED BY <1>4, <1>5, <1>8, <3>1, JoinRun
  <2>2. dest' = dest \o p
    BY <1>7, <1>8
  <2>3. dest' \in Seq(Byte) /\ Len(dest') = Len(dest) + k /\ Run(dest', taken)
    BY <1>8, <2>1, <2>2, Zenon
  <2>4. PICK e : e = dest'
    OBVIOUS
  <2> QED BY <2>3, <2>4
<1>10. /\ buf' \in Seq(Byte) /\ consumed' \in 0..Len(buf')
       /\ Unread' = IF k < Len(d) THEN r ELSE <<>>
  <2>1. CASE k < Len(d)
    <3>1. buf' = r /\ consumed' = 0
      BY <1>7, <1>8, <2>1 DEF Stash
    <3>2. Unread' = r
      BY <3>1, DropNone DEF Unread
    <3>3. 0 \in 0..Len(r)
      BY <1>8
    <3> QED BY <2>1, <3>1, <3>2, <3>3
  <2>2. CASE ~(k < Len(d))
    <3>1. buf' = buf /\ consumed' = consumed
      BY <1>7, <2>2 DEF Stash
    <3>2. Unread' = Unread
      BY <3>1 DEF Unread
    <3> QED BY <1>4, <1>5, <2>2, <3>1, <3>2
  <2> QED BY <2>1, <2>2
<1>11. TypeOK'
  BY <1>1, <1>2, <1>9, <1>10 DEF IInv, TypeOK, Byte
<1>12. HeldInv'
  <2>1. Reading'
    BY <1>1 DEF Reading
  <2> QED BY <1>1, <1>2, <2>1 DEF IInv, HeldInv
<1>13. AskInv'
  BY <1>1, <1>2 DEF AskInv
<1>14. IntoInv'
  <2>1. PICK u : u = Unread'
    OBVIOUS
  <2>2. CASE k < Len(d)
    <3>1. u = r /\ Len(e) = want /\ taken + want = held[next].pos + k
      BY <1>4, <1>5, <1>6, <1>9, <1>10, <2>1, <2>2, SMTT(30)
    <3>2. Run(u, taken + Len(e)) /\ taken + Len(e) + Len(u) = Ahead'
      <4>1. Run(r, taken + Len(e))
        BY <1>8, <3>1
      <4>2. Len(u) = held[next].len - k /\ Ahead' = held[next].pos + held[next].len
        BY <1>2, <1>3, <1>8, <3>1
      <4>3. taken + want + (held[next].len - k) = held[next].pos + held[next].len
        <5>1. taken + want \in Int /\ held[next].pos \in Int /\ k \in Int /\ held[next].len \in Int
          BY <1>3, <1>4, <1>6
        <5> QED BY <3>1, <5>1, Beyond
      <4>4. taken + Len(e) + Len(u) = Ahead'
        BY <3>1, <4>2, <4>3
      <4> QED BY <3>1, <4>1, <4>4
    <3> QED BY <1>1, <1>4, <1>9, <2>1, <3>1, <3>2, SMTT(30) DEF IntoInv, Run
  <2>3. CASE ~(k < Len(d))
    <3>1. u = <<>> /\ Len(u) = 0 /\ k = Len(d) /\ Len(e) <= want
      BY <1>3, <1>6, <1>9, <1>10, <2>1, <2>3
    <3>2. Run(u, taken + Len(e))
      BY <3>1 DEF Run
    <3>3. taken + Len(e) + Len(u) = Ahead'
      <4>1. Ahead' = held[next].pos + held[next].len /\ Len(e) = Len(dest) + held[next].len
        BY <1>2, <1>3, <1>9, <3>1
      <4>2. taken + (Len(dest) + held[next].len) + 0 = held[next].pos + held[next].len
        BY <1>4, <1>5, SMTT(30)
      <4> QED BY <3>1, <4>1, <4>2
    <3> QED BY <1>1, <1>4, <1>9, <2>1, <3>1, <3>2, <3>3 DEF IntoInv, Run
  <2> QED BY <2>2, <2>3
<1> QED BY <1>1, <1>11, <1>12, <1>13, <1>14 DEF IInv, IdleInv, ExactInv

\* The call returns.
LEMMA FinishInv ==
  ASSUME IInv, Finish PROVE IInv'
<1>1. /\ Reading /\ next = 0 /\ Got >= want /\ mode' = "idle" /\ taken' = taken + want
      /\ UNCHANGED <<buf, want, dest, next>>
      /\ UNCHANGED <<sent, peer, cancelled, delivered, held, asked, reader>>
      /\ mode = "exact" => out' = SubSeq(buf, 1, want) /\ consumed' = want
      /\ mode = "into" => out' = dest /\ consumed' = consumed
  BY DEF Finish, Reading, streamVars
<1>2. /\ dest \in Seq(Byte) /\ Len(dest) \in Nat /\ taken \in Nat /\ want \in Nat
      /\ buf \in Seq(Byte) /\ Len(buf) \in Nat /\ consumed \in 0..Len(buf) /\ delivered \in Nat
  BY Numbers DEF IInv
<1>3. /\ out' \in Seq(Byte) /\ consumed' \in 0..Len(buf) /\ Len(out') = want
      /\ Run(out', taken) /\ Run(Unread', taken + want)
      /\ taken + want + Len(Unread') = delivered
  <2>1. CASE mode = "exact"
    <3>1. Run(buf, taken) /\ taken + Len(buf) = delivered /\ want \in 0..Len(buf)
      BY <1>1, <1>2, <2>1 DEF IInv, ExactInv, Ahead, Got
    <3>2. PICK p \in Seq(Byte), r \in Seq(Byte) :
            /\ p = SubSeq(buf, 1, want) /\ Len(p) = want /\ Run(p, taken)
            /\ r = Drop(buf, want) /\ Len(r) = Len(buf) - want /\ Run(r, taken + want)
      <4>1. /\ SubSeq(buf, 1, want) \in Seq(Byte) /\ Len(SubSeq(buf, 1, want)) = want
            /\ Drop(buf, want) \in Seq(Byte) /\ Len(Drop(buf, want)) = Len(buf) - want
        BY <1>2, <3>1, DropFacts
      <4>2. taken \in Int
        BY <1>2
      <4>3. Run(SubSeq(buf, 1, want), taken) /\ Run(Drop(buf, want), taken + want)
        BY <1>2, <3>1, <4>2, SplitRun
      <4> QED BY <4>1, <4>3
    <3>3. out' = p /\ Unread' = r /\ consumed' = want
      BY <1>1, <2>1, <3>2 DEF Unread
    <3>4. taken + want + Len(r) = delivered
      <4>1. taken + want + (Len(buf) - want) = delivered
        <5>1. taken + want \in Int /\ taken \in Int /\ want \in Int /\ Len(buf) \in Int
          BY <1>2
        <5> QED BY <3>1, <5>1, Beyond
      <4> QED BY <3>2, <4>1
    <3> QED BY <3>1, <3>2, <3>3, <3>4
  <2>2. CASE mode = "into"
    <3>1. out' = dest /\ consumed' = consumed /\ Unread' = Unread
      BY <1>1, <2>2 DEF Unread
    <3>2. Len(dest) = want /\ Run(dest, taken) /\ Run(Unread, taken + Len(dest))
          /\ taken + Len(dest) + Len(Unread) = delivered
      BY <1>1, <1>2, <2>2 DEF IInv, IntoInv, Ahead, Got
    <3> QED BY <1>2, <3>1, <3>2
  <2> QED BY <1>1, <2>1, <2>2 DEF Reading
<1>4. TypeOK'
  <2>1. taken' \in Nat
    BY <1>1, <1>2
  <2> QED BY <1>1, <1>3, <2>1 DEF IInv, TypeOK, Byte
<1>5. HeldInv'
  BY <1>1 DEF IInv, HeldInv
<1>6. AskInv'
  <2>1. reader # "waiting"
    BY <1>1, <1>2 DEF IInv, AskInv, Got
  <2> QED BY <1>1, <2>1 DEF AskInv
<1>7. IdleInv'
  <2>1. taken' - want' = taken
    BY <1>1, <1>2
  <2>2. Run(out', taken' - want') /\ Len(out') = want'
    BY <1>1, <1>3, <2>1
  <2>3. Run(Unread', taken') /\ taken' + Len(Unread') = delivered'
    BY <1>1, <1>3
  <2> QED BY <2>2, <2>3 DEF IdleInv, Run
<1> QED BY <1>1, <1>4, <1>5, <1>6, <1>7 DEF IInv, ExactInv, IntoInv

\* The call throws, or the stream is dropped.
LEMMA EndInv ==
  ASSUME IInv, Throw \/ DropStream PROVE IInv'
<1>1. /\ UNCHANGED <<buf, consumed, want, dest, next, out, taken>>
      /\ UNCHANGED <<sent, peer, cancelled, delivered, asked>>
      /\ \/ mode' = "failed" /\ reader = "over" /\ UNCHANGED <<held, reader>>
         \/ mode' = mode /\ ~Reading /\ reader' = "gone" /\ held' = <<>>
  BY DEF Throw, DropStream, Stream!Destroy, streamVars, frameVars
<1>2. next = 0
  BY <1>1, Numbers DEF IInv, HeldInv
<1>3. Len(<<>>) = 0 /\ <<>> \in Seq(Chunk)
  OBVIOUS
<1>4. TypeOK'
  <2>1. held' \in Seq(Chunk) /\ Len(held') \in Nat
    BY <1>1, <1>3, Numbers DEF IInv
  <2>2. next' \in 0..Len(held')
    BY <1>1, <1>2, <2>1
  <2>3. mode' \in {"idle", "exact", "into", "failed"}
        /\ reader' \in {"running", "waiting", "over", "gone"}
    BY <1>1 DEF IInv, TypeOK
  <2> QED BY <1>1, <2>1, <2>2, <2>3 DEF IInv, TypeOK, Chunk
<1>5. HeldInv'
  BY <1>1, <1>2, <1>3 DEF IInv, HeldInv
<1>6. AskInv'
  BY <1>1 DEF AskInv
<1>7. IdleInv' /\ ExactInv' /\ IntoInv'
  <2>1. CASE mode' = "failed"
    BY <2>1 DEF IdleInv, ExactInv, IntoInv
  <2>2. CASE mode' = mode
    <3>1. Ahead' = Ahead
      BY <1>1, <1>2 DEF Ahead
    <3> QED BY <1>1, <2>2, <3>1, SameCall
  <2> QED BY <1>1, <2>1, <2>2
<1> QED BY <1>4, <1>5, <1>6, <1>7 DEF IInv

\* The peer goes on, the fd is cancelled without resuming anybody, or nothing happens.
LEMMA EnvironmentInv ==
  ASSUME IInv, Environment \/ UNCHANGED vars PROVE IInv'
<1>1. /\ UNCHANGED <<buf, consumed, mode, want, dest, next, out, taken>>
      /\ UNCHANGED <<delivered, held, asked, reader>>
      /\ peer' \in {peer, "closed", "reset"} /\ cancelled' \in {cancelled, TRUE}
      /\ sent' = sent \/ \E n \in 1..(MaxBytes - sent) : sent' = sent + n
  <2>1. CASE Stream!PeerSend /\ UNCHANGED frameVars
    BY <2>1 DEF Stream!PeerSend, frameVars
  <2>2. CASE Stream!PeerEnd /\ UNCHANGED frameVars
    BY <2>2 DEF Stream!PeerEnd, frameVars
  <2>3. CASE Stream!Cancel /\ reader' = reader /\ UNCHANGED frameVars
    <3>1. ~(reader = "waiting" /\ Stream!Return(asked, TRUE))
      BY <2>3 DEF Stream!Return, Stream!ReturnBatch, Stream!ReturnEof, Stream!ReturnError
    <3> QED BY <2>3, <3>1 DEF Stream!Cancel, frameVars
  <2>4. CASE UNCHANGED vars
    BY <2>4 DEF vars, streamVars, frameVars
  <2> QED BY <2>1, <2>2, <2>3, <2>4 DEF Environment
<1>2. sent' \in 0..MaxBytes /\ delivered \in 0..sent'
  BY <1>1, Numbers DEF IInv
<1>3. TypeOK'
  BY <1>1, <1>2 DEF IInv, TypeOK
<1>4. HeldInv' /\ AskInv'
  BY <1>1 DEF IInv, HeldInv, AskInv, Reading, Got
<1>5. Ahead' = Ahead
  BY <1>1 DEF Ahead
<1>6. IdleInv' /\ ExactInv' /\ IntoInv'
  BY <1>1, <1>5, SameCall
<1> QED BY <1>3, <1>4, <1>6 DEF IInv

-----------------------------------------------------------------------------
(* The theorems. *)

\* IInv is an invariant.
LEMMA IInvHolds == Spec => []IInv
<1>1. ASSUME Init PROVE IInv
  <2>1. /\ sent = 0 /\ peer = "open" /\ cancelled = FALSE /\ delivered = 0 /\ held = <<>>
        /\ reader = "running" /\ buf = <<>> /\ consumed = 0 /\ mode = "idle" /\ want = 0
        /\ dest = <<>> /\ next = 0 /\ out = <<>> /\ taken = 0
    BY <1>1 DEF Init, Stream!Init
  <2>2. Len(<<>>) = 0 /\ <<>> \in Seq(Byte) /\ <<>> \in Seq(Chunk) /\ 0 \in 0..MaxBytes
        /\ 0 \in 0..MaxWant /\ 0 \in 0..0 /\ 0 \in Nat
    BY FramedAssumption
  <2>3. TypeOK
    BY <2>1, <2>2 DEF TypeOK, Byte, Chunk
  <2>4. HeldInv /\ AskInv /\ ExactInv /\ IntoInv
    BY <2>1, <2>2 DEF HeldInv, AskInv, ExactInv, IntoInv
  <2>5. Unread = <<>>
    BY <2>1, <2>2, DropNone DEF Unread
  <2>6. IdleInv
    BY <2>1, <2>2, <2>5 DEF IdleInv, Run
  <2> QED BY <2>3, <2>4, <2>6 DEF IInv
<1>2. ASSUME IInv, [Next]_vars PROVE IInv'
  <2>1. CASE Environment \/ UNCHANGED vars
    BY <1>2, <2>1, EnvironmentInv
  <2>2. CASE StreamResumes
    BY <1>2, <2>2, StreamResumesInv
  <2>3. CASE Read
    BY <1>2, <2>3, ReadExactInv, ReadExactIntoInv DEF Read
  <2>4. CASE Step
    BY <1>2, <2>4, AskStreamInv, AppendChunkInv, CopyChunkInv, FinishInv, EndInv DEF Step
  <2>5. CASE DropStream
    BY <1>2, <2>5, EndInv
  <2> QED BY <1>2, <2>1, <2>2, <2>3, <2>4, <2>5 DEF Next
<1> QED BY <1>1, <1>2, PTL DEF Spec

\* The reader's variables keep their types; _consumed never passes the end of _buf.
THEOREM TypeCorrect == Spec => []TypeOK
<1>1. IInv => TypeOK
  BY DEF IInv
<1> QED BY <1>1, IInvHolds, PTL

(***************************************************************************)
(* A call of read_exact() or read_exact_into() that returns gives exactly  *)
(* the n bytes that follow what the calls before it returned, and _buf     *)
(* keeps every byte delivered beyond them, in order, wherever the stream   *)
(* cuts its chunks.                                                        *)
(***************************************************************************)
THEOREM ReadsExactHolds == Spec => []ReadsExact
<1>1. ASSUME IInv PROVE ReadsExact
  <2>1. SUFFICES ASSUME mode = "idle" PROVE ReadsExact
    BY DEF ReadsExact
  <2>2. /\ Len(out) = want /\ Run(out, taken - want)
        /\ Run(Unread, taken) /\ taken + Len(Unread) = delivered
    BY <1>1, <2>1 DEF IInv, IdleInv
  <2>3. /\ out \in Seq(Byte) /\ Unread \in Seq(Byte) /\ taken - want \in Int
        /\ (taken - want) + Len(out) = taken
    BY <1>1, <2>2, Numbers, UnreadFacts, SMTT(30) DEF IInv
  <2>4. Run(out \o Unread, taken - want)
    BY <2>2, <2>3, JoinRun
  <2>5. Run(out \o Unread, taken - Len(out))
    BY <2>2, <2>4
  <2> QED BY <2>2, <2>5 DEF ReadsExact
<1> QED BY <1>1, IInvHolds, PTL
=============================================================================
