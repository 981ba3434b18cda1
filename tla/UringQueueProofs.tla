-------------------------- MODULE UringQueueProofs --------------------------
(***************************************************************************)
(* UringQueue's invariants, for every size of the two rings, every number  *)
(* of addresses, files and buffer groups.                                  *)
(*                                                                         *)
(* OneCompletion counts what is on its way for an address.  What the proof *)
(* needs instead is where it is: a token is an operation's SQE, the        *)
(* operation in the kernel or its last CQE; each belongs to the object at  *)
(* its address, which expects it, and no address has two.  Sound says so   *)
(* of explicit rings, so that it can also be said of the ones in the       *)
(* middle of io_uring_submit(), when the kernel has taken i of the SQEs.   *)
(***************************************************************************)
EXTENDS UringQueue, TLAPS, FiniteSetTheorems, SequenceTheorems, WellFoundedInduction

\* A set of natural numbers that is not empty has a least element: induction by least
\* counterexample needs no operator, which the library's induction theorems take.
LEMMA LeastOf ==
  ASSUME NEW T \in SUBSET Nat, T # {}
  PROVE  \E x \in T : \A y \in T : x <= y
<1> DEFINE R == OpToRel(<, Nat)
<1>1. IsWellFoundedOn(R, Nat)
  BY NatLessThanWellFounded
<1>2. \A x, y \in T : y < x => <<y, x>> \in R
  BY DEF OpToRel
<1> HIDE DEF R
<1>3. PICK x \in T : \A y \in T : ~(<<y, x>> \in R)
  BY <1>1, WFMin
<1>4. x \in Nat /\ \A y \in T : y \in Nat
  OBVIOUS
<1>5. \A y \in T : ~(y < x)
  BY <1>2, <1>3
<1> QED BY <1>4, <1>5

\* Adding an element at the end.
LEMMA AppendFacts ==
  ASSUME NEW S, NEW q \in Seq(S), NEW x \in S
  PROVE  /\ Len(q) \in Nat
         /\ Append(q, x) \in Seq(S)
         /\ Len(Append(q, x)) = Len(q) + 1
         /\ \A i \in 1..Len(q) : Append(q, x)[i] = q[i]
         /\ Append(q, x)[Len(q) + 1] = x
OBVIOUS

-----------------------------------------------------------------------------
(* The invariant. *)

Cqes == [addr : Addrs, gen : Gens, last : BOOLEAN] \cup {Cqe(NULL, 0, TRUE)}
Sqes == Ops \cup Cancels

\* The object of m at a waits for a last completion.
Expects(m, a) ==
  m[a].kind = "awaiter" \/ (m[a].kind = "sink" /\ m[a].recv = "live")

\* An entry of a ring is for the object of m at its address.
Meant(m, e) == Expects(m, e.addr) /\ m[e.addr].gen = e.gen

\* The tokens of q after its first i entries, and of c after its first n.
OpIx(q, i) == {j \in (i + 1)..Len(q) : q[j].what = "op"}
CqIx(c, n) == {j \in (n + 1)..Len(c) : c[j].addr # NULL}
LastIx(c, n) == {j \in CqIx(c, n) : c[j].last}

RingTypes(q, i, o, c, n) ==
  /\ q \in Seq(Sqes) /\ i \in 0..Len(q)
  /\ o \subseteq Ops
  /\ c \in Seq(Cqes) /\ n \in 0..Len(c)

\* Every operation is for an object that expects it, a multishot one for a sink,
\* and index 0 of the registered files is the file it means.
OpMeant(m, r, e) ==
  /\ Meant(m, e)
  /\ e.multi => m[e.addr].kind = "sink"
  /\ e.fixed # "none" => r = e.fixed

AllMeant(q, i, o, c, n, m, r) ==
  /\ \A j \in OpIx(q, i) : OpMeant(m, r, q[j])
  /\ \A e \in o : OpMeant(m, r, e)
  /\ \A j \in CqIx(c, n) : Meant(m, c[j]) /\ (~c[j].last => m[c[j].addr].kind = "sink")

\* After a CQE that is not the last there is one that is, or the operation.
MoreFollows(o, c, n) ==
  \A j \in CqIx(c, n) : ~c[j].last =>
    \/ \E e \in o : e.addr = c[j].addr
    \/ \E k \in LastIx(c, n) : k > j /\ c[k].addr = c[j].addr

\* No address has two tokens.
AtMostOne(q, i, o, c, n) ==
  /\ \A j, k \in OpIx(q, i) : q[j].addr = q[k].addr => j = k
  /\ \A e, f \in o : e.addr = f.addr => e = f
  /\ \A j, k \in LastIx(c, n) : c[j].addr = c[k].addr => j = k
  /\ \A j \in OpIx(q, i), e \in o : q[j].addr # e.addr
  /\ \A j \in OpIx(q, i), k \in LastIx(c, n) : q[j].addr # c[k].addr
  /\ \A e \in o, k \in LastIx(c, n) : e.addr # c[k].addr

\* What an object expects is on its way.
AtLeastOne(q, i, o, c, n, m) ==
  \A a \in Addrs : Expects(m, a) =>
    \/ \E j \in OpIx(q, i) : q[j].addr = a
    \/ \E e \in o : e.addr = a
    \/ \E k \in LastIx(c, n) : c[k].addr = a

\* The rings q (of which i entries are taken), o and c (of which n are
\* dispatched) agree with the objects m and the registered file r.
Sound(q, i, o, c, n, m, r) ==
  /\ RingTypes(q, i, o, c, n)
  /\ AllMeant(q, i, o, c, n, m, r)
  /\ MoreFollows(o, c, n)
  /\ AtMostOne(q, i, o, c, n)
  /\ AtLeastOne(q, i, o, c, n, m)

\* No two sinks of m have one group.
OwnGroups(m) ==
  \A a, b \in Addrs :
    m[a].kind = "sink" /\ m[b].kind = "sink" /\ a # b => m[a].group # m[b].group

\* The types, with the rings as sequences.
Types ==
  /\ TypeOK
  /\ sq \in Seq(Sqes)
  /\ cq \in Seq(Cqes)

(***************************************************************************)
(* The inductive invariant.  A process that has ended keeps only its types.*)
(***************************************************************************)
IInv ==
  /\ Types
  /\ ~Over => Sound(sq, 0, ops, cq, nr, obj, registered) /\ OwnGroups(obj)

-----------------------------------------------------------------------------
(* What the invariant implies. *)

\* What is on its way refers to what it was made for.
LEMMA IInvRefersToSame == IInv => RefersToSame
<1> SUFFICES ASSUME IInv, ~Over PROVE RefersToSame
  BY DEF RefersToSame
<1>1. /\ AllMeant(sq, 0, ops, cq, nr, obj, registered)
      /\ RingTypes(sq, 0, ops, cq, nr)
      /\ OwnGroups(obj)
  BY DEF IInv, Sound
<1>2. \A e \in Queued \cup ops : OpMeant(obj, registered, e)
  <2>1. \A e \in Queued : \E j \in OpIx(sq, 0) : e = sq[j]
    <3>1. DOMAIN sq = 1..Len(sq)
      BY <1>1 DEF RingTypes
    <3> QED BY <3>1 DEF Queued, OpIx
  <2> QED BY <1>1, <2>1 DEF AllMeant
<1>3. \A e \in Undispatched : e.addr # NULL => Meant(obj, e)
  BY <1>1 DEF Undispatched, AllMeant, CqIx
<1>4. \A e : Meant(obj, e) => obj[e.addr] # Free /\ obj[e.addr].gen = e.gen
  BY DEF Meant, Expects, Free
<1>5. \A e \in Queued \cup ops \cup Undispatched :
        e.addr # NULL => obj[e.addr] # Free /\ obj[e.addr].gen = e.gen
  BY <1>2, <1>3, <1>4 DEF OpMeant
<1>6. \A e \in Queued \cup ops : e.fixed # "none" => registered = e.fixed
  BY <1>2 DEF OpMeant
<1>7. \A a, b \in Sinks : a # b => obj[a].group # obj[b].group
  BY <1>1 DEF OwnGroups, Sinks
<1> QED BY <1>5, <1>6, <1>7 DEF RefersToSame

\* A set whose elements are all equal has one element or none.
LEMMA CardinalityOfSame ==
  ASSUME NEW S, \A x, y \in S : x = y
  PROVE  Cardinality(S) = IF S = {} THEN 0 ELSE 1
<1>1. CASE S = {}
  BY <1>1, FS_EmptySet
<1>2. CASE S # {}
  <2>1. PICK x : x \in S
    BY <1>2
  <2>2. S = {x}
    BY <2>1
  <2>3. Cardinality({x}) = 1
    BY FS_Singleton
  <2> QED BY <1>2, <2>2, <2>3
<1> QED BY <1>1, <1>2

\* One token for what expects one, none for anything else: the sum is right.
LEMMA IInvOneCompletion == IInv => OneCompletion
<1> SUFFICES ASSUME IInv, ~Over, NEW a \in Addrs
             PROVE  LastToCome(a) =
                      IF a \in Awaiters \/ (a \in Sinks /\ obj[a].recv = "live")
                      THEN 1 ELSE 0
  BY DEF OneCompletion
<1> DEFINE A == {i \in DOMAIN sq : sq[i].what = "op" /\ sq[i].addr = a}
           B == {o \in ops : o.addr = a}
           C == {i \in (nr + 1)..Len(cq) : cq[i].addr = a /\ cq[i].last}
<1>1. Sound(sq, 0, ops, cq, nr, obj, registered)
  BY DEF IInv
<1>2. a # NULL
  BY UringQueueAssumption DEF NULL
<1>3. A = {j \in OpIx(sq, 0) : sq[j].addr = a}
  <2>1. DOMAIN sq = 1..Len(sq) /\ 0 + 1 = 1
    BY <1>1 DEF Sound, RingTypes
  <2> QED BY <2>1 DEF OpIx
<1>4. C = {j \in LastIx(cq, nr) : cq[j].addr = a}
  BY <1>2 DEF LastIx, CqIx
<1>5. /\ Cardinality(A) = IF A = {} THEN 0 ELSE 1
      /\ Cardinality(B) = IF B = {} THEN 0 ELSE 1
      /\ Cardinality(C) = IF C = {} THEN 0 ELSE 1
  <2>1. /\ \A x, y \in A : x = y
        /\ \A x, y \in B : x = y
        /\ \A x, y \in C : x = y
    BY <1>1, <1>3, <1>4 DEF Sound, AtMostOne
  <2> HIDE DEF A, B, C
  <2> QED BY <2>1, CardinalityOfSame
<1>6. (A = {} \/ B = {}) /\ (A = {} \/ C = {}) /\ (B = {} \/ C = {})
  BY <1>1, <1>3, <1>4 DEF Sound, AtMostOne
<1>7. (A # {} \/ B # {} \/ C # {}) <=> Expects(obj, a)
  <2>1. Expects(obj, a) => A # {} \/ B # {} \/ C # {}
    BY <1>1, <1>3, <1>4 DEF Sound, AtLeastOne
  <2>2. A # {} \/ B # {} \/ C # {} => Expects(obj, a)
    BY <1>1, <1>3, <1>4 DEF Sound, AllMeant, OpMeant, Meant, LastIx
  <2> QED BY <2>1, <2>2
<1>8. LastToCome(a) = Cardinality(A) + Cardinality(B) + Cardinality(C)
  BY DEF LastToCome
<1>9. Expects(obj, a) <=> a \in Awaiters \/ (a \in Sinks /\ obj[a].recv = "live")
  BY DEF Expects, Awaiters, Sinks
<1> HIDE DEF A, B, C
<1> QED BY <1>5, <1>6, <1>7, <1>8, <1>9

-----------------------------------------------------------------------------
(* io_uring_submit(). *)

\* The CQEs a cancel brings about are put in some order.
LEMMA SeqOfNone == SetToSeq({}) = <<>>
<1>1. Cardinality({}) = 0
  BY FS_EmptySet
<1>2. \A f \in [1..0 -> {}] : f = <<>>
  OBVIOUS
<1>3. <<>> \in [1..0 -> {}] /\ IsInjective(<<>>)
  BY DEF IsInjective
<1> QED BY <1>1, <1>2, <1>3 DEF SetToSeq

LEMMA SeqOfOne ==
  ASSUME NEW x
  PROVE  SetToSeq({x}) = <<x>>
<1>1. Cardinality({x}) = 1
  BY FS_Singleton
<1>2. \A f \in [1..1 -> {x}] : f = <<x>>
  OBVIOUS
<1>3. <<x>> \in [1..1 -> {x}] /\ IsInjective(<<x>>)
  BY DEF IsInjective
<1> QED BY <1>1, <1>2, <1>3 DEF SetToSeq

\* A CQE more at the end of the completion ring.
LEMMA AddedCqe ==
  ASSUME NEW c \in Seq(Cqes), NEW n \in 0..Len(c), NEW x \in Cqes
  PROVE  /\ Append(c, x) \in Seq(Cqes)
         /\ Len(c) \in Nat /\ Len(Append(c, x)) = Len(c) + 1
         /\ n \in 0..Len(Append(c, x))
         /\ \A j \in 1..Len(c) : Append(c, x)[j] = c[j]
         /\ Append(c, x)[Len(c) + 1] = x
         /\ CqIx(c, n) \subseteq 1..Len(c)
         /\ CqIx(Append(c, x), n) =
              IF x.addr = NULL THEN CqIx(c, n) ELSE CqIx(c, n) \cup {Len(c) + 1}
         /\ LastIx(Append(c, x), n) =
              IF x.addr # NULL /\ x.last
              THEN LastIx(c, n) \cup {Len(c) + 1} ELSE LastIx(c, n)
<1> DEFINE d == Append(c, x)
<1>1. /\ d \in Seq(Cqes) /\ Len(c) \in Nat /\ Len(d) = Len(c) + 1
      /\ \A j \in 1..Len(c) : d[j] = c[j]
      /\ d[Len(c) + 1] = x
  BY AppendFacts
<1> HIDE DEF d
<1>2. CqIx(c, n) \subseteq 1..Len(c)
  BY <1>1 DEF CqIx
<1>3. (n + 1)..Len(d) = ((n + 1)..Len(c)) \cup {Len(c) + 1}
  BY <1>1
<1>4. CqIx(d, n) =
        IF x.addr = NULL THEN CqIx(c, n) ELSE CqIx(c, n) \cup {Len(c) + 1}
  <2>1. ASSUME NEW j \in (n + 1)..Len(c) PROVE d[j] = c[j]
    BY <1>1, <2>1
  <2> QED BY <1>1, <1>3, <2>1 DEF CqIx
<1>5. LastIx(d, n) =
        IF x.addr # NULL /\ x.last
        THEN LastIx(c, n) \cup {Len(c) + 1} ELSE LastIx(c, n)
  <2>1. \A j \in CqIx(c, n) : d[j] = c[j]
    BY <1>1, <1>2
  <2> QED BY <1>1, <1>4, <2>1 DEF LastIx
<1>6. n \in 0..Len(d)
  BY <1>1
<1> QED BY <1>1, <1>2, <1>4, <1>5, <1>6 DEF d

\* A cancel's own CQE is nobody's.
LEMMA AddNull ==
  ASSUME NEW q, NEW i, NEW o, NEW c, NEW n, NEW m, NEW r,
         Sound(q, i, o, c, n, m, r)
  PROVE  Sound(q, i, o, Append(c, Cqe(NULL, 0, TRUE)), n, m, r)
<1> DEFINE x == Cqe(NULL, 0, TRUE)
           d == Append(c, x)
<1>1. x \in Cqes /\ x.addr = NULL
  BY DEF Cqes, Cqe
<1>2. RingTypes(q, i, o, c, n)
  BY DEF Sound
<1>3. c \in Seq(Cqes) /\ n \in 0..Len(c)
  BY <1>2 DEF RingTypes
<1> HIDE DEF x
<1>4. /\ d \in Seq(Cqes) /\ n \in 0..Len(d)
      /\ \A j \in 1..Len(c) : d[j] = c[j]
      /\ CqIx(c, n) \subseteq 1..Len(c)
      /\ CqIx(d, n) = CqIx(c, n)
      /\ LastIx(d, n) = LastIx(c, n)
  BY <1>1, <1>3, AddedCqe
<1>5. \A j \in CqIx(c, n) : d[j] = c[j]
  BY <1>4
<1>6. LastIx(c, n) \subseteq CqIx(c, n)
  BY DEF LastIx
<1> HIDE DEF d
<1>7. RingTypes(q, i, o, d, n)
  BY <1>2, <1>4 DEF RingTypes
<1>8. AllMeant(q, i, o, d, n, m, r)
  BY <1>4, <1>5 DEF Sound, AllMeant
<1>9. MoreFollows(o, d, n)
  BY <1>4, <1>5, <1>6 DEF Sound, MoreFollows
<1>10. AtMostOne(q, i, o, d, n) /\ AtLeastOne(q, i, o, d, n, m)
  BY <1>4, <1>5, <1>6 DEF Sound, AtMostOne, AtLeastOne
<1> QED BY <1>7, <1>8, <1>9, <1>10 DEF Sound, d, x

\* A multishot operation completes, not for the last time.
LEMMA CompleteSome ==
  ASSUME NEW q, NEW i, NEW o, NEW c, NEW n, NEW m, NEW r,
         Sound(q, i, o, c, n, m, r), NEW e \in o, e.multi
  PROVE  Sound(q, i, o, Append(c, Cqe(e.addr, e.gen, FALSE)), n, m, r)
<1> DEFINE x == Cqe(e.addr, e.gen, FALSE)
           d == Append(c, x)
<1>1. RingTypes(q, i, o, c, n)
  BY DEF Sound
<1>2. c \in Seq(Cqes) /\ n \in 0..Len(c) /\ e \in Ops
  BY <1>1 DEF RingTypes
<1>3. e.addr \in Addrs /\ e.gen \in Gens /\ e.addr # NULL
  BY <1>2, UringQueueAssumption DEF Ops, NULL
<1>4. x \in Cqes /\ x.addr = e.addr /\ x.gen = e.gen /\ x.last = FALSE
  BY <1>3 DEF Cqes, Cqe
<1>5. OpMeant(m, r, e)
  BY DEF Sound, AllMeant
<1> HIDE DEF x
<1>6. /\ d \in Seq(Cqes) /\ n \in 0..Len(d) /\ Len(c) \in Nat
      /\ \A j \in 1..Len(c) : d[j] = c[j]
      /\ d[Len(c) + 1] = x
      /\ CqIx(c, n) \subseteq 1..Len(c)
      /\ CqIx(d, n) = CqIx(c, n) \cup {Len(c) + 1}
      /\ LastIx(d, n) = LastIx(c, n)
  BY <1>2, <1>3, <1>4, AddedCqe
<1>7. \A j \in CqIx(c, n) : d[j] = c[j]
  BY <1>6
<1>8. LastIx(c, n) \subseteq CqIx(c, n)
  BY DEF LastIx
<1> HIDE DEF d
<1>9. RingTypes(q, i, o, d, n)
  BY <1>1, <1>6 DEF RingTypes
<1>10. AllMeant(q, i, o, d, n, m, r)
  <2>1. Meant(m, x) /\ m[x.addr].kind = "sink"
    BY <1>4, <1>5 DEF OpMeant, Meant
  <2> QED BY <1>6, <1>7, <2>1 DEF Sound, AllMeant
<1>11. MoreFollows(o, d, n)
  BY <1>4, <1>6, <1>7, <1>8 DEF Sound, MoreFollows
<1>12. AtMostOne(q, i, o, d, n) /\ AtLeastOne(q, i, o, d, n, m)
  BY <1>6, <1>7, <1>8 DEF Sound, AtMostOne, AtLeastOne
<1> QED BY <1>9, <1>10, <1>11, <1>12 DEF Sound, d, x

\* An operation ends: its token moves to the completion ring.
LEMMA CompleteLast ==
  ASSUME NEW q, NEW i, NEW o, NEW c, NEW n, NEW m, NEW r,
         Sound(q, i, o, c, n, m, r), NEW e \in o
  PROVE  Sound(q, i, o \ {e}, Append(c, Cqe(e.addr, e.gen, TRUE)), n, m, r)
<1> DEFINE x == Cqe(e.addr, e.gen, TRUE)
           d == Append(c, x)
           p == o \ {e}
<1>1. RingTypes(q, i, o, c, n)
  BY DEF Sound
<1>2. c \in Seq(Cqes) /\ n \in 0..Len(c) /\ e \in Ops
  BY <1>1 DEF RingTypes
<1>3. e.addr \in Addrs /\ e.gen \in Gens /\ e.addr # NULL
  BY <1>2, UringQueueAssumption DEF Ops, NULL
<1>4. x \in Cqes /\ x.addr = e.addr /\ x.gen = e.gen /\ x.last = TRUE
  BY <1>3 DEF Cqes, Cqe
<1>5. OpMeant(m, r, e)
  BY DEF Sound, AllMeant
<1> HIDE DEF x
<1>6. /\ d \in Seq(Cqes) /\ n \in 0..Len(d) /\ Len(c) \in Nat
      /\ \A j \in 1..Len(c) : d[j] = c[j]
      /\ d[Len(c) + 1] = x
      /\ CqIx(c, n) \subseteq 1..Len(c)
      /\ CqIx(d, n) = CqIx(c, n) \cup {Len(c) + 1}
      /\ LastIx(d, n) = LastIx(c, n) \cup {Len(c) + 1}
  BY <1>2, <1>3, <1>4, AddedCqe
<1>7. \A j \in CqIx(c, n) : d[j] = c[j] /\ j < Len(c) + 1
  BY <1>6
<1>8. LastIx(c, n) \subseteq CqIx(c, n)
  BY DEF LastIx
<1> HIDE DEF d
<1>9. RingTypes(q, i, p, d, n)
  BY <1>1, <1>6 DEF RingTypes
<1>10. AllMeant(q, i, p, d, n, m, r)
  <2>1. Meant(m, x) /\ x.last
    BY <1>4, <1>5 DEF OpMeant, Meant
  <2> QED BY <1>6, <1>7, <2>1 DEF Sound, AllMeant
<1>11. MoreFollows(p, d, n)
  <2> SUFFICES ASSUME NEW j \in CqIx(d, n), ~d[j].last
               PROVE  \/ \E f \in p : f.addr = d[j].addr
                      \/ \E k \in LastIx(d, n) : k > j /\ d[k].addr = d[j].addr
    BY DEF MoreFollows
  <2>1. j \in CqIx(c, n) /\ d[j] = c[j] /\ ~c[j].last /\ j < Len(c) + 1
    BY <1>4, <1>6, <1>7
  <2>2. CASE \E k \in LastIx(c, n) : k > j /\ c[k].addr = c[j].addr
    BY <1>6, <1>7, <1>8, <2>1, <2>2
  <2>3. CASE \E f \in o : f.addr = c[j].addr
    <3>1. PICK f \in o : f.addr = c[j].addr
      BY <2>3
    <3>2. CASE f = e
      <4>1. Len(c) + 1 \in LastIx(d, n) /\ Len(c) + 1 > j
        BY <1>6, <2>1, <1>2
      <4> QED BY <1>4, <1>6, <2>1, <3>1, <3>2, <4>1
    <3> QED BY <2>1, <3>1, <3>2
  <2> QED BY <2>1, <2>2, <2>3 DEF Sound, MoreFollows
<1>12. AtMostOne(q, i, p, d, n)
  <2>1. AtMostOne(q, i, o, c, n)
    BY DEF Sound
  <2>2. \A k \in LastIx(c, n) : c[k].addr # e.addr /\ d[k] = c[k]
    BY <1>7, <1>8, <2>1 DEF AtMostOne
  <2>3. \A j \in OpIx(q, i) : q[j].addr # e.addr
    BY <2>1 DEF AtMostOne
  <2>4. \A f \in p : f \in o /\ f.addr # e.addr
    BY <2>1 DEF AtMostOne
  <2>5. \A k \in LastIx(d, n) :
          (k \in LastIx(c, n) /\ d[k] = c[k]) \/ (k = Len(c) + 1 /\ d[k].addr = e.addr)
    BY <1>4, <1>6, <2>2
  <2> HIDE DEF p
  <2>6. \A j, k \in LastIx(d, n) : d[j].addr = d[k].addr => j = k
    BY <2>1, <2>2, <2>5 DEF AtMostOne
  <2>7. \A j \in OpIx(q, i), k \in LastIx(d, n) : q[j].addr # d[k].addr
    BY <2>1, <2>3, <2>5 DEF AtMostOne
  <2>8. \A f \in p, k \in LastIx(d, n) : f.addr # d[k].addr
    BY <2>1, <2>4, <2>5 DEF AtMostOne
  <2> QED BY <2>1, <2>4, <2>6, <2>7, <2>8 DEF AtMostOne
<1>13. AtLeastOne(q, i, p, d, n, m)
  <2> SUFFICES ASSUME NEW a \in Addrs, Expects(m, a)
               PROVE  \/ \E j \in OpIx(q, i) : q[j].addr = a
                      \/ \E f \in p : f.addr = a
                      \/ \E k \in LastIx(d, n) : d[k].addr = a
    BY DEF AtLeastOne
  <2>1. CASE a = e.addr
    BY <1>4, <1>6, <2>1
  <2>2. CASE a # e.addr
    BY <1>6, <1>7, <1>8, <2>2 DEF Sound, AtLeastOne
  <2> QED BY <2>1, <2>2
<1> QED BY <1>9, <1>10, <1>11, <1>12, <1>13 DEF Sound, d, x, p

\* The kernel takes an operation's SQE.
LEMMA TakeOp ==
  ASSUME NEW q, NEW i, NEW o, NEW c, NEW n, NEW m, NEW r,
         Sound(q, i, o, c, n, m, r), i < Len(q), q[i + 1].what = "op"
  PROVE  Sound(q, i + 1, o \cup {q[i + 1]}, c, n, m, r)
<1> DEFINE e == q[i + 1]
           p == o \cup {e}
<1>1. RingTypes(q, i, o, c, n)
  BY DEF Sound
<1>2. i \in Nat /\ Len(q) \in Nat /\ i + 1 \in 1..Len(q) /\ e \in Sqes
  BY <1>1 DEF RingTypes
<1>3. e \in Ops
  BY <1>2 DEF Sqes, Cancels
<1>4. OpIx(q, i) = OpIx(q, i + 1) \cup {i + 1} /\ i + 1 \notin OpIx(q, i + 1)
  BY <1>2 DEF OpIx
<1>5. RingTypes(q, i + 1, p, c, n)
  BY <1>1, <1>2, <1>3 DEF RingTypes
<1>6. AllMeant(q, i + 1, p, c, n, m, r)
  BY <1>4 DEF Sound, AllMeant
<1>7. MoreFollows(p, c, n)
  BY DEF Sound, MoreFollows
<1>8. AtMostOne(q, i + 1, p, c, n)
  <2>1. AtMostOne(q, i, o, c, n)
    BY DEF Sound
  <2>2. \A f \in o : f.addr # e.addr
    BY <1>4, <2>1 DEF AtMostOne
  <2>3. \A j \in OpIx(q, i + 1) : j \in OpIx(q, i) /\ q[j].addr # e.addr
    BY <1>4, <2>1 DEF AtMostOne
  <2>4. \A k \in LastIx(c, n) : c[k].addr # e.addr
    BY <1>4, <2>1 DEF AtMostOne
  <2>5. \A f \in p : f \in o \/ f = e
    OBVIOUS
  <2> HIDE DEF p, e
  <2> QED BY <2>1, <2>2, <2>3, <2>4, <2>5 DEF AtMostOne
<1>9. AtLeastOne(q, i + 1, p, c, n, m)
  BY <1>4 DEF Sound, AtLeastOne
<1> QED BY <1>5, <1>6, <1>7, <1>8, <1>9 DEF Sound

\* The kernel takes another SQE, which is nobody's token.
LEMMA TakeOther ==
  ASSUME NEW q, NEW i, NEW o, NEW c, NEW n, NEW m, NEW r,
         Sound(q, i, o, c, n, m, r), i < Len(q), q[i + 1].what # "op"
  PROVE  Sound(q, i + 1, o, c, n, m, r)
<1>1. RingTypes(q, i, o, c, n)
  BY DEF Sound
<1>2. i \in Nat /\ Len(q) \in Nat /\ i + 1 \in 1..Len(q)
  BY <1>1 DEF RingTypes
<1>3. OpIx(q, i + 1) = OpIx(q, i)
  BY <1>2 DEF OpIx
<1>4. RingTypes(q, i + 1, o, c, n)
  BY <1>1, <1>2 DEF RingTypes
<1>5. AllMeant(q, i + 1, o, c, n, m, r)
  BY <1>3 DEF Sound, AllMeant
<1>6. AtMostOne(q, i + 1, o, c, n) /\ AtLeastOne(q, i + 1, o, c, n, m)
  BY <1>3 DEF Sound, AtMostOne, AtLeastOne
<1> QED BY <1>4, <1>5, <1>6 DEF Sound

\* The completion ring d is c with more at its end.
Extends(d, c) == Len(c) <= Len(d) /\ \A j \in 1..Len(c) : d[j] = c[j]

\* Adding at the end is Append.
LEMMA AddOne ==
  ASSUME NEW S, NEW c \in Seq(S), NEW x \in S
  PROVE  c \o <<>> = c /\ c \o <<x>> = Append(c, x)
OBVIOUS

\* One step of io_uring_submit(), whichever SQE it is.
LEMMA ConsumeSound ==
  ASSUME NEW q, NEW i, NEW o, NEW c, NEW n, NEW m, NEW r,
         Sound(q, i, o, c, n, m, r), i < Len(q)
  PROVE  LET k == Consume([ops |-> o, cq |-> c], q[i + 1])
         IN  /\ k = [ops |-> k.ops, cq |-> k.cq]
             /\ Sound(q, i + 1, k.ops, k.cq, n, m, r)
             /\ Extends(k.cq, c)
<1> DEFINE e == q[i + 1]
           k == Consume([ops |-> o, cq |-> c], e)
           null == Cqe(NULL, 0, TRUE)
<1>1. RingTypes(q, i, o, c, n)
  BY DEF Sound
<1>2. c \in Seq(Cqes) /\ Len(c) \in Nat /\ null \in Cqes
  BY <1>1 DEF RingTypes, Cqes
<1>e. ASSUME NEW p, NEW d, k = [ops |-> p, cq |-> d],
             Sound(q, i + 1, p, d, n, m, r), Extends(d, c)
      PROVE  /\ k = [ops |-> k.ops, cq |-> k.cq]
             /\ Sound(q, i + 1, k.ops, k.cq, n, m, r)
             /\ Extends(k.cq, c)
  <2> HIDE DEF k
  <2>1. k.ops = p /\ k.cq = d
    BY <1>e
  <2> QED BY <1>e, <2>1
<1> SUFFICES \E p, d : /\ k = [ops |-> p, cq |-> d]
                       /\ Sound(q, i + 1, p, d, n, m, r)
                       /\ Extends(d, c)
  <2> HIDE DEF k
  <2>1. /\ k = [ops |-> k.ops, cq |-> k.cq]
        /\ Sound(q, i + 1, k.ops, k.cq, n, m, r)
        /\ Extends(k.cq, c)
    BY <1>e
  <2> QED BY <2>1 DEF k
<1> HIDE DEF k
<1>3. CASE e.what = "op"
  <2>1. k = [ops |-> o \cup {e}, cq |-> c]
    BY <1>3 DEF Consume, k
  <2>2. Sound(q, i + 1, o \cup {e}, c, n, m, r)
    BY <1>3, TakeOp
  <2>3. Extends(c, c)
    BY <1>2 DEF Extends
  <2> QED BY <2>1, <2>2, <2>3
<1>4. CASE e.what # "op"
  <2> DEFINE hit == {f \in o : f.addr = e.addr}
             ended == {Cqe(f.addr, f.gen, TRUE) : f \in hit}
  <2>1. k = [ops |-> o \ hit, cq |-> c \o SetToSeq(ended) \o <<null>>]
    BY <1>4 DEF Consume, k
  <2>2. Sound(q, i + 1, o, c, n, m, r)
    BY <1>4, TakeOther
  <2>3. CASE hit = {}
    <3>1. o \ hit = o
      BY <2>3
    <3>2. c \o SetToSeq(ended) \o <<null>> = Append(c, null)
      <4>1. ended = {}
        BY <2>3
      <4>2. SetToSeq(ended) = <<>>
        BY <4>1, SeqOfNone
      <4> HIDE DEF null
      <4> QED BY <1>2, <4>2, AddOne
    <3>3. k = [ops |-> o, cq |-> Append(c, null)]
      BY <2>1, <3>1, <3>2
    <3>4. Sound(q, i + 1, o, Append(c, null), n, m, r)
      BY <2>2, AddNull
    <3> HIDE DEF null
    <3>5. Extends(Append(c, null), c)
      BY <1>2, AppendFacts DEF Extends
    <3> QED BY <3>3, <3>4, <3>5
  <2>4. CASE hit # {}
    <3>1. PICK f : f \in hit
      BY <2>4
    <3>2. hit = {f} /\ f \in o
      BY <3>1 DEF Sound, AtMostOne
    <3> DEFINE x == Cqe(f.addr, f.gen, TRUE)
               d == Append(c, x)
    <3>3. f \in Ops
      BY <1>1, <3>2 DEF RingTypes
    <3>4. x \in Cqes
      BY <3>3 DEF Ops, Cqes, Cqe
    <3>5. c \o SetToSeq(ended) \o <<null>> = Append(d, null)
      <4>1. ended = {x}
        BY <3>2
      <4>2. SetToSeq(ended) = <<x>>
        BY <4>1, SeqOfOne
      <4> HIDE DEF null, x
      <4>3. c \o <<x>> = d /\ d \in Seq(Cqes)
        BY <1>2, <3>4, AddOne, AppendFacts
      <4> QED BY <1>2, <4>2, <4>3, AddOne
    <3>6. k = [ops |-> o \ {f}, cq |-> Append(d, null)]
      BY <2>1, <3>2, <3>5
    <3>7. Sound(q, i + 1, o \ {f}, d, n, m, r)
      BY <2>2, <3>2, CompleteLast
    <3>8. Sound(q, i + 1, o \ {f}, Append(d, null), n, m, r)
      BY <3>7, AddNull
    <3>9. Extends(Append(d, null), c)
      <4> HIDE DEF null, x, d
      <4>1. d \in Seq(Cqes) /\ Len(d) = Len(c) + 1 /\ \A j \in 1..Len(c) : d[j] = c[j]
        BY <1>2, <3>4, AppendFacts DEF d
      <4>2. Len(Append(d, null)) = Len(d) + 1 /\ \A j \in 1..Len(d) : Append(d, null)[j] = d[j]
        BY <1>2, <4>1, AppendFacts
      <4> QED BY <1>2, <4>1, <4>2 DEF Extends
    <3> QED BY <3>6, <3>8, <3>9
  <2> QED BY <2>3, <2>4
<1> QED BY <1>3, <1>4

\* The kernel's state after each of the SQEs of q, up to the first l.
Kernel(f, q, l, o, c) ==
  f = [i \in 0..l |-> IF i = 0 THEN [ops |-> o, cq |-> c] ELSE Consume(f[i - 1], q[i])]

LEMMA KernelExists ==
  ASSUME NEW q, NEW o, NEW c, NEW l \in Nat
  PROVE  \E f : Kernel(f, q, l, o, c)
<1> DEFINE T == {n \in Nat : ~ \E f : Kernel(f, q, n, o, c)}
<1> SUFFICES ASSUME T # {} PROVE FALSE
  OBVIOUS
<1>1. PICK n \in T : \A y \in T : n <= y
  BY LeastOf
<1>2. CASE n = 0
  <2> DEFINE g == [i \in 0..0 |-> [ops |-> o, cq |-> c]]
  <2>1. Kernel(g, q, 0, o, c)
    BY DEF Kernel
  <2> QED BY <1>2, <2>1
<1>3. CASE n # 0
  <2>1. n - 1 \in Nat /\ n - 1 \notin T
    BY <1>1, <1>3
  <2>2. PICK f : Kernel(f, q, n - 1, o, c)
    BY <2>1
  <2> DEFINE g == [i \in 0..n |->
                     IF i = 0 THEN [ops |-> o, cq |-> c] ELSE Consume(f[i - 1], q[i])]
  <2>3. \A i \in 0..(n - 1) : g[i] = f[i]
    BY <2>1, <2>2 DEF Kernel
  <2>4. g = [i \in 0..n |->
               IF i = 0 THEN [ops |-> o, cq |-> c] ELSE Consume(g[i - 1], q[i])]
    <3>1. \A i \in 0..n : i # 0 => i - 1 \in 0..(n - 1)
      BY <2>1
    <3>2. \A i \in 0..n : i # 0 => g[i - 1] = f[i - 1]
      BY <2>3, <3>1
    <3> QED BY <3>2
  <2>5. Kernel(g, q, n, o, c)
    BY <2>4 DEF Kernel
  <2> HIDE DEF g
  <2> QED BY <1>1, <2>5
<1> QED BY <1>2, <1>3

\* io_uring_submit() empties the submission ring and only adds CQEs.
LEMMA SubmittedSound ==
  ASSUME Sound(sq, 0, ops, cq, nr, obj, registered)
  PROVE  /\ Sound(<<>>, 0, Submitted.ops, Submitted.cq, nr, obj, registered)
         /\ Extends(Submitted.cq, cq)
<1> DEFINE l == Len(sq)
<1>1. RingTypes(sq, 0, ops, cq, nr)
  BY DEF Sound
<1>2. l \in Nat /\ Len(cq) \in Nat
  BY <1>1 DEF RingTypes
<1> HIDE DEF l
<1>3. PICK f : Kernel(f, sq, l, ops, cq)
  BY <1>2, KernelExists
<1> DEFINE g == CHOOSE h : Kernel(h, sq, l, ops, cq)
<1>4. Kernel(g, sq, l, ops, cq)
  BY <1>3
<1>5. Submitted = g[l]
  BY DEF Submitted, Kernel, l
<1> HIDE DEF g
<1>6. /\ g[0] = [ops |-> ops, cq |-> cq]
      /\ \A i \in 1..l : g[i] = Consume(g[i - 1], sq[i])
  BY <1>2, <1>4 DEF Kernel
<1> DEFINE Good(i) ==
             /\ g[i] = [ops |-> g[i].ops, cq |-> g[i].cq]
             /\ Sound(sq, i, g[i].ops, g[i].cq, nr, obj, registered)
             /\ Extends(g[i].cq, cq)
           T == {i \in 0..l : ~Good(i)}
<1>7. Good(0)
  <2>1. Extends(cq, cq)
    BY <1>2 DEF Extends
  <2> QED BY <1>6, <2>1
<1>8. ASSUME NEW i \in 1..l, Good(i - 1) PROVE Good(i)
  <2> DEFINE o == g[i - 1].ops
             c == g[i - 1].cq
             k == Consume([ops |-> o, cq |-> c], sq[i])
  <2>1. g[i] = k
    BY <1>6, <1>8
  <2>2. i - 1 < Len(sq) /\ (i - 1) + 1 = i
    BY <1>2 DEF l
  <2> HIDE DEF o, c
  <2>3. Sound(sq, i - 1, o, c, nr, obj, registered) /\ Extends(c, cq)
    BY <1>8 DEF o, c
  <2>4. /\ k = [ops |-> k.ops, cq |-> k.cq]
        /\ Sound(sq, i, k.ops, k.cq, nr, obj, registered)
        /\ Extends(k.cq, c)
    BY <2>2, <2>3, ConsumeSound
  <2> HIDE DEF k
  <2>5. Extends(k.cq, cq)
    <3>1. k.cq \in Seq(Cqes) /\ c \in Seq(Cqes)
      BY <2>3, <2>4 DEF Sound, RingTypes
    <3>2. Len(k.cq) \in Nat /\ Len(c) \in Nat
      BY <3>1
    <3> QED BY <1>2, <2>3, <2>4, <3>2 DEF Extends
  <2> QED BY <2>1, <2>4, <2>5
<1> HIDE DEF Good
<1>9. T = {}
  <2> SUFFICES ASSUME T # {} PROVE FALSE
    OBVIOUS
  <2>1. T \in SUBSET Nat
    BY <1>2
  <2>2. PICK i \in T : \A y \in T : i <= y
    BY <2>1, LeastOf
  <2>3. i # 0
    BY <1>7, <2>2
  <2>4. i \in 1..l /\ i - 1 \in 0..l /\ i - 1 \notin T
    BY <1>2, <2>2, <2>3
  <2> QED BY <1>8, <2>2, <2>4
<1>10. Good(l)
  BY <1>2, <1>9
<1>11. Sound(sq, l, Submitted.ops, Submitted.cq, nr, obj, registered)
  BY <1>5, <1>10 DEF Good
<1>12. OpIx(sq, l) = {} /\ OpIx(<<>>, 0) = {}
  BY <1>2 DEF OpIx, l
<1>13. <<>> \in Seq(Sqes) /\ 0 \in 0..Len(<<>>)
  OBVIOUS
<1>14. Sound(<<>>, 0, Submitted.ops, Submitted.cq, nr, obj, registered)
  <2> DEFINE o == Submitted.ops
             c == Submitted.cq
  <2> HIDE DEF o, c
  <2>1. Sound(sq, l, o, c, nr, obj, registered)
    BY <1>11 DEF o, c
  <2>2. RingTypes(<<>>, 0, o, c, nr)
    BY <1>13, <2>1 DEF Sound, RingTypes
  <2>3. AllMeant(<<>>, 0, o, c, nr, obj, registered)
    BY <1>12, <2>1 DEF Sound, AllMeant
  <2>4. AtMostOne(<<>>, 0, o, c, nr) /\ AtLeastOne(<<>>, 0, o, c, nr, obj)
    BY <1>12, <2>1 DEF Sound, AtMostOne, AtLeastOne
  <2> QED BY <2>1, <2>2, <2>3, <2>4 DEF Sound, o, c
<1> QED BY <1>5, <1>10, <1>14 DEF Good

-----------------------------------------------------------------------------
(* What the thread does to the rings and the objects. *)

\* What is queued for is at an address.
LEMMA TokenAddrs ==
  ASSUME NEW q, NEW i, NEW o, NEW c, NEW n, RingTypes(q, i, o, c, n)
  PROVE  /\ \A j \in OpIx(q, i) : q[j] \in Ops /\ q[j].addr \in Addrs
         /\ \A e \in o : e.addr \in Addrs
         /\ \A j \in CqIx(c, n) : c[j].addr \in Addrs /\ c[j].last \in BOOLEAN
<1>1. ASSUME NEW j \in OpIx(q, i) PROVE q[j] \in Ops /\ q[j].addr \in Addrs
  <2>1. q[j] \in Sqes /\ q[j].what = "op"
    BY <1>1 DEF RingTypes, OpIx
  <2> QED BY <2>1 DEF Sqes, Ops, Cancels
<1>2. ASSUME NEW j \in CqIx(c, n) PROVE c[j].addr \in Addrs /\ c[j].last \in BOOLEAN
  <2>1. c[j] \in Cqes /\ c[j].addr # NULL
    BY <1>2 DEF RingTypes, CqIx
  <2>2. c[j] \in [addr : Addrs, gen : Gens, last : BOOLEAN]
    BY <2>1 DEF Cqes, Cqe
  <2> QED BY <2>2, Zenon
<1>3. \A e \in o : e.addr \in Addrs
  BY DEF RingTypes, Ops
<1> QED BY <1>1, <1>2, <1>3

\* Objects that change in nothing the rings rely on.
LEMMA SameObjects ==
  ASSUME NEW q, NEW i, NEW o, NEW c, NEW n, NEW m, NEW w, NEW r,
         Sound(q, i, o, c, n, m, r),
         \A a \in Addrs : Expects(w, a) <=> Expects(m, a),
         \A a \in Addrs : Expects(m, a) => w[a].gen = m[a].gen /\ w[a].kind = m[a].kind
  PROVE  Sound(q, i, o, c, n, w, r)
<1>1. /\ \A j \in OpIx(q, i) : q[j].addr \in Addrs
      /\ \A e \in o : e.addr \in Addrs
      /\ \A j \in CqIx(c, n) : c[j].addr \in Addrs
  BY TokenAddrs DEF Sound
<1>2. \A e : e.addr \in Addrs /\ Meant(m, e) => Meant(w, e) /\ w[e.addr].kind = m[e.addr].kind
  BY DEF Meant
<1>3. AllMeant(q, i, o, c, n, w, r)
  <2>1. AllMeant(q, i, o, c, n, m, r)
    BY DEF Sound
  <2> QED BY <1>1, <1>2, <2>1 DEF AllMeant, OpMeant
<1>4. AtLeastOne(q, i, o, c, n, w)
  BY DEF Sound, AtLeastOne
<1> QED BY <1>3, <1>4 DEF Sound

\* An SQE more at the end of the submission ring.
LEMMA AddedSqe ==
  ASSUME NEW q \in Seq(Sqes), NEW e \in Sqes
  PROVE  /\ Append(q, e) \in Seq(Sqes)
         /\ Len(q) \in Nat /\ Len(Append(q, e)) = Len(q) + 1
         /\ 0 \in 0..Len(Append(q, e))
         /\ OpIx(q, 0) \subseteq 1..Len(q)
         /\ \A j \in OpIx(q, 0) : Append(q, e)[j] = q[j]
         /\ Append(q, e)[Len(q) + 1] = e
         /\ OpIx(Append(q, e), 0) =
              IF e.what = "op" THEN OpIx(q, 0) \cup {Len(q) + 1} ELSE OpIx(q, 0)
<1> DEFINE d == Append(q, e)
<1>1. /\ d \in Seq(Sqes) /\ Len(q) \in Nat /\ Len(d) = Len(q) + 1
      /\ \A j \in 1..Len(q) : d[j] = q[j]
      /\ d[Len(q) + 1] = e
  BY AppendFacts
<1> HIDE DEF d
<1>2. OpIx(q, 0) \subseteq 1..Len(q)
  BY <1>1 DEF OpIx
<1>3. (0 + 1)..Len(d) = ((0 + 1)..Len(q)) \cup {Len(q) + 1}
  BY <1>1
<1>4. OpIx(d, 0) = IF e.what = "op" THEN OpIx(q, 0) \cup {Len(q) + 1} ELSE OpIx(q, 0)
  <2>1. ASSUME NEW j \in (0 + 1)..Len(q) PROVE d[j] = q[j]
    BY <1>1, <2>1
  <2> QED BY <1>1, <1>3, <2>1 DEF OpIx
<1> QED BY <1>1, <1>2, <1>4 DEF d

\* A cancel in the submission ring is nobody's token.
LEMMA AddCancel ==
  ASSUME NEW q, NEW o, NEW c, NEW n, NEW m, NEW r,
         Sound(q, 0, o, c, n, m, r), NEW e \in Cancels
  PROVE  Sound(Append(q, e), 0, o, c, n, m, r)
<1> DEFINE d == Append(q, e)
<1>1. RingTypes(q, 0, o, c, n)
  BY DEF Sound
<1>2. q \in Seq(Sqes) /\ e \in Sqes /\ e.what # "op"
  BY <1>1 DEF RingTypes, Sqes, Cancels
<1>3. /\ d \in Seq(Sqes) /\ 0 \in 0..Len(d)
      /\ \A j \in OpIx(q, 0) : d[j] = q[j]
      /\ OpIx(d, 0) = OpIx(q, 0)
  BY <1>2, AddedSqe
<1> HIDE DEF d
<1>4. RingTypes(d, 0, o, c, n)
  BY <1>1, <1>3 DEF RingTypes
<1>5. AllMeant(d, 0, o, c, n, m, r)
  BY <1>3 DEF Sound, AllMeant
<1>6. AtMostOne(d, 0, o, c, n) /\ AtLeastOne(d, 0, o, c, n, m)
  BY <1>3 DEF Sound, AtMostOne, AtLeastOne
<1> QED BY <1>4, <1>5, <1>6 DEF Sound, d

\* An operation is started for an object that expected nothing before, or was not
\* there; a file may be registered for it.
LEMMA AddOp ==
  ASSUME NEW q, NEW o, NEW c, NEW n, NEW m, NEW r, NEW w, NEW v, NEW a \in Addrs,
         Sound(q, 0, o, c, n, m, r), ~Expects(m, a),
         \A b \in Addrs : b # a => w[b] = m[b],
         NEW e \in Ops, e.addr = a, OpMeant(w, v, e), r # "none" => v = r
  PROVE  Sound(Append(q, e), 0, o, c, n, w, v)
<1> DEFINE d == Append(q, e)
<1>1. RingTypes(q, 0, o, c, n)
  BY DEF Sound
<1>2. q \in Seq(Sqes) /\ e \in Sqes /\ e.what = "op"
  BY <1>1 DEF RingTypes, Sqes, Ops
<1>3. /\ d \in Seq(Sqes) /\ 0 \in 0..Len(d) /\ Len(q) \in Nat
      /\ OpIx(q, 0) \subseteq 1..Len(q)
      /\ \A j \in OpIx(q, 0) : d[j] = q[j]
      /\ d[Len(q) + 1] = e
      /\ OpIx(d, 0) = OpIx(q, 0) \cup {Len(q) + 1}
  BY <1>2, AddedSqe
<1>4. LastIx(c, n) \subseteq CqIx(c, n)
  BY DEF LastIx
<1>5. AllMeant(q, 0, o, c, n, m, r)
  BY DEF Sound
<1>6. /\ \A j \in OpIx(q, 0) : q[j].addr # a /\ q[j].addr \in Addrs
      /\ \A f \in o : f.addr # a /\ f.addr \in Addrs
      /\ \A j \in CqIx(c, n) : c[j].addr # a /\ c[j].addr \in Addrs
  <2>1. \A f : Meant(m, f) => f.addr # a
    BY DEF Meant
  <2> QED BY <1>1, <1>5, <2>1, TokenAddrs DEF AllMeant, OpMeant
<1> HIDE DEF d
<1>7. \A f : f.addr # a /\ f.addr \in Addrs =>
        /\ w[f.addr] = m[f.addr]
        /\ Meant(m, f) => Meant(w, f)
        /\ OpMeant(m, r, f) => OpMeant(w, v, f)
  BY DEF Meant, OpMeant, Expects
<1>8. RingTypes(d, 0, o, c, n)
  BY <1>1, <1>3 DEF RingTypes
<1>9. AllMeant(d, 0, o, c, n, w, v)
  <2>1. \A j \in OpIx(d, 0) : OpMeant(w, v, d[j])
    BY <1>3, <1>5, <1>6, <1>7 DEF AllMeant
  <2>2. \A f \in o : OpMeant(w, v, f)
    BY <1>5, <1>6, <1>7 DEF AllMeant
  <2>3. \A j \in CqIx(c, n) : Meant(w, c[j]) /\ (~c[j].last => w[c[j].addr].kind = "sink")
    BY <1>5, <1>6, <1>7 DEF AllMeant
  <2> QED BY <2>1, <2>2, <2>3 DEF AllMeant
<1>10. AtMostOne(d, 0, o, c, n)
  <2>1. AtMostOne(q, 0, o, c, n)
    BY DEF Sound
  <2>2. \A j \in OpIx(d, 0) :
          \/ j \in OpIx(q, 0) /\ d[j] = q[j] /\ d[j].addr # a
          \/ j = Len(q) + 1 /\ d[j].addr = a
    BY <1>3, <1>6
  <2>3. \A j, k \in OpIx(d, 0) : d[j].addr = d[k].addr => j = k
    BY <2>1, <2>2 DEF AtMostOne
  <2>4. \A j \in OpIx(d, 0), f \in o : d[j].addr # f.addr
    BY <1>6, <2>1, <2>2 DEF AtMostOne
  <2>5. \A j \in OpIx(d, 0), k \in LastIx(c, n) : d[j].addr # c[k].addr
    BY <1>4, <1>6, <2>1, <2>2 DEF AtMostOne
  <2> QED BY <2>1, <2>3, <2>4, <2>5 DEF AtMostOne
<1>11. AtLeastOne(d, 0, o, c, n, w)
  <2> SUFFICES ASSUME NEW b \in Addrs, Expects(w, b)
               PROVE  \/ \E j \in OpIx(d, 0) : d[j].addr = b
                      \/ \E f \in o : f.addr = b
                      \/ \E k \in LastIx(c, n) : c[k].addr = b
    BY DEF AtLeastOne
  <2>1. CASE b = a
    BY <1>3, <2>1
  <2>2. CASE b # a
    <3>1. Expects(m, b)
      BY <2>2 DEF Expects
    <3> QED BY <1>3, <3>1 DEF Sound, AtLeastOne
  <2> QED BY <2>1, <2>2
<1> QED BY <1>8, <1>9, <1>10, <1>11 DEF Sound, d

\* What is left to dispatch once the next CQE has been.
LEMMA NextIx ==
  ASSUME NEW c \in Seq(Cqes), NEW n \in Nat, n < Len(c)
  PROVE  /\ n + 1 \in 0..Len(c)
         /\ CqIx(c, n + 1) = CqIx(c, n) \ {n + 1}
         /\ LastIx(c, n + 1) = LastIx(c, n) \ {n + 1}
         /\ c[n + 1].addr # NULL => n + 1 \in CqIx(c, n)
<1>1. Len(c) \in Nat
  OBVIOUS
<1>2. (n + 1 + 1)..Len(c) = ((n + 1)..Len(c)) \ {n + 1}
  BY <1>1
<1>3. CqIx(c, n + 1) = CqIx(c, n) \ {n + 1}
  BY <1>1, <1>2 DEF CqIx
<1>4. LastIx(c, n + 1) = LastIx(c, n) \ {n + 1}
  BY <1>3 DEF LastIx
<1> QED BY <1>1, <1>3, <1>4 DEF CqIx

\* _dispatch() passes a CQE that is not a token: a cancel's, or one of a multishot
\* receive that goes on.
LEMMA PassOther ==
  ASSUME NEW q, NEW i, NEW o, NEW c, NEW n, NEW m, NEW r,
         Sound(q, i, o, c, n, m, r), n < Len(c),
         c[n + 1].addr = NULL \/ ~c[n + 1].last
  PROVE  Sound(q, i, o, c, n + 1, m, r)
<1>1. RingTypes(q, i, o, c, n)
  BY DEF Sound
<1>2. c \in Seq(Cqes) /\ n \in Nat
  BY <1>1 DEF RingTypes
<1>3. /\ n + 1 \in 0..Len(c)
      /\ CqIx(c, n + 1) = CqIx(c, n) \ {n + 1}
      /\ LastIx(c, n + 1) = LastIx(c, n) \ {n + 1}
  BY <1>2, NextIx
<1>4. LastIx(c, n + 1) = LastIx(c, n)
  <2>1. n + 1 \notin LastIx(c, n)
    BY DEF LastIx, CqIx
  <2> QED BY <1>3, <2>1
<1>5. RingTypes(q, i, o, c, n + 1)
  BY <1>1, <1>3 DEF RingTypes
<1>6. AllMeant(q, i, o, c, n + 1, m, r)
  BY <1>3 DEF Sound, AllMeant
<1>7. MoreFollows(o, c, n + 1)
  BY <1>3, <1>4 DEF Sound, MoreFollows
<1>8. AtMostOne(q, i, o, c, n + 1) /\ AtLeastOne(q, i, o, c, n + 1, m)
  BY <1>4 DEF Sound, AtMostOne, AtLeastOne
<1> QED BY <1>5, <1>6, <1>7, <1>8 DEF Sound

\* _dispatch() passes a last CQE: its object expects no other.
LEMMA PassLast ==
  ASSUME NEW q, NEW i, NEW o, NEW c, NEW n, NEW m, NEW r, NEW w, NEW a \in Addrs,
         Sound(q, i, o, c, n, m, r), n < Len(c),
         c[n + 1].addr = a, c[n + 1].last,
         \A b \in Addrs : b # a => w[b] = m[b], ~Expects(w, a)
  PROVE  Sound(q, i, o, c, n + 1, w, r)
<1>1. RingTypes(q, i, o, c, n)
  BY DEF Sound
<1>2. c \in Seq(Cqes) /\ n \in Nat /\ a # NULL
  BY <1>1, UringQueueAssumption DEF RingTypes, NULL
<1>3. /\ n + 1 \in 0..Len(c)
      /\ CqIx(c, n + 1) = CqIx(c, n) \ {n + 1}
      /\ LastIx(c, n + 1) = LastIx(c, n) \ {n + 1}
      /\ n + 1 \in CqIx(c, n)
  BY <1>2, NextIx
<1>4. n + 1 \in LastIx(c, n) /\ LastIx(c, n) \subseteq CqIx(c, n)
  BY <1>3 DEF LastIx
<1>5. AtMostOne(q, i, o, c, n) /\ MoreFollows(o, c, n) /\ AllMeant(q, i, o, c, n, m, r)
  BY DEF Sound
<1>6. /\ \A j \in OpIx(q, i) : q[j].addr # a /\ q[j].addr \in Addrs
      /\ \A f \in o : f.addr # a /\ f.addr \in Addrs
      /\ \A j \in LastIx(c, n + 1) : c[j].addr # a /\ j \in CqIx(c, n + 1)
  <2>1. /\ \A j \in OpIx(q, i) : q[j].addr # a
        /\ \A f \in o : f.addr # a
        /\ \A j \in LastIx(c, n + 1) : c[j].addr # a
    BY <1>3, <1>4, <1>5 DEF AtMostOne
  <2> QED BY <1>1, <2>1, TokenAddrs DEF LastIx
<1>7. \A j \in CqIx(c, n + 1) : c[j].addr # a /\ c[j].addr \in Addrs
  <2> SUFFICES ASSUME NEW j \in CqIx(c, n + 1), c[j].addr = a PROVE FALSE
    BY <1>1, <1>3, TokenAddrs
  <2>1. j \in CqIx(c, n) /\ j # n + 1 /\ j > n + 1
    BY <1>2, <1>3 DEF CqIx
  <2>2. ~c[j].last
    BY <1>6 DEF LastIx
  <2>3. PICK k \in LastIx(c, n) : k > j /\ c[k].addr = a
    BY <1>5, <1>6, <2>1, <2>2 DEF MoreFollows
  <2>4. k # n + 1
    BY <1>2, <2>1, <2>3 DEF LastIx, CqIx
  <2> QED BY <1>3, <1>6, <2>3, <2>4
<1>8. \A f : f.addr # a /\ f.addr \in Addrs =>
        /\ w[f.addr] = m[f.addr]
        /\ Meant(m, f) => Meant(w, f)
        /\ OpMeant(m, r, f) => OpMeant(w, r, f)
  BY DEF Meant, OpMeant, Expects
<1>9. RingTypes(q, i, o, c, n + 1)
  BY <1>1, <1>3 DEF RingTypes
<1>10. AllMeant(q, i, o, c, n + 1, w, r)
  <2>1. \A j \in OpIx(q, i) : OpMeant(w, r, q[j])
    BY <1>5, <1>6, <1>8 DEF AllMeant
  <2>2. \A f \in o : OpMeant(w, r, f)
    BY <1>5, <1>6, <1>8 DEF AllMeant
  <2>3. \A j \in CqIx(c, n + 1) : Meant(w, c[j]) /\ (~c[j].last => w[c[j].addr].kind = "sink")
    BY <1>3, <1>5, <1>7, <1>8 DEF AllMeant
  <2> QED BY <2>1, <2>2, <2>3 DEF AllMeant
<1>11. MoreFollows(o, c, n + 1)
  <2> SUFFICES ASSUME NEW j \in CqIx(c, n + 1), ~c[j].last
               PROVE  \/ \E f \in o : f.addr = c[j].addr
                      \/ \E k \in LastIx(c, n + 1) : k > j /\ c[k].addr = c[j].addr
    BY DEF MoreFollows
  <2>1. j \in CqIx(c, n) /\ c[j].addr # a
    BY <1>3, <1>7
  <2>2. \A k \in LastIx(c, n) : c[k].addr = c[j].addr => k \in LastIx(c, n + 1)
    BY <1>3, <2>1
  <2> QED BY <1>5, <2>1, <2>2 DEF MoreFollows
<1>12. AtMostOne(q, i, o, c, n + 1)
  BY <1>3, <1>5 DEF AtMostOne
<1>13. AtLeastOne(q, i, o, c, n + 1, w)
  <2> SUFFICES ASSUME NEW b \in Addrs, Expects(w, b)
               PROVE  \/ \E j \in OpIx(q, i) : q[j].addr = b
                      \/ \E f \in o : f.addr = b
                      \/ \E k \in LastIx(c, n + 1) : c[k].addr = b
    BY DEF AtLeastOne
  <2>1. b # a /\ Expects(m, b)
    BY DEF Expects
  <2>2. \A k \in LastIx(c, n) : c[k].addr = b => k \in LastIx(c, n + 1)
    BY <1>3, <2>1
  <2> QED BY <2>1, <2>2 DEF Sound, AtLeastOne
<1> QED BY <1>9, <1>10, <1>11, <1>12, <1>13 DEF Sound

\* io_uring_cq_advance() drops what has been dispatched and nothing else.
LEMMA Advanced ==
  ASSUME NEW q, NEW i, NEW o, NEW c, NEW n, NEW m, NEW r,
         Sound(q, i, o, c, n, m, r)
  PROVE  Sound(q, i, o, SubSeq(c, n + 1, Len(c)), 0, m, r)
<1> DEFINE d == SubSeq(c, n + 1, Len(c))
<1>1. RingTypes(q, i, o, c, n)
  BY DEF Sound
<1>2. c \in Seq(Cqes) /\ n \in Nat /\ Len(c) \in Nat /\ n <= Len(c)
  BY <1>1 DEF RingTypes
<1>3. /\ d \in Seq(Cqes) /\ Len(d) = Len(c) - n
      /\ \A j \in 1..(Len(c) - n) : d[j] = c[j + n]
  BY <1>2
<1> HIDE DEF d
<1>4. \A j : j \in CqIx(d, 0) => j \in Nat /\ j + n \in CqIx(c, n) /\ d[j] = c[j + n]
  BY <1>2, <1>3 DEF CqIx
<1>5. \A j : j \in LastIx(d, 0) => j \in Nat /\ j + n \in LastIx(c, n) /\ d[j] = c[j + n]
  BY <1>4 DEF LastIx
<1>6. \A k : k \in LastIx(c, n) => k \in Nat /\ k - n \in LastIx(d, 0) /\ d[k - n] = c[k]
  <2> SUFFICES ASSUME NEW k \in LastIx(c, n)
               PROVE  k \in Nat /\ k - n \in LastIx(d, 0) /\ d[k - n] = c[k]
    OBVIOUS
  <2>1. k \in (n + 1)..Len(c) /\ c[k].addr # NULL /\ c[k].last
    BY DEF LastIx, CqIx
  <2>2. k \in Nat /\ k - n \in 1..(Len(c) - n) /\ (k - n) + n = k
    BY <1>2, <2>1
  <2>3. d[k - n] = c[k]
    BY <1>3, <2>2
  <2>4. k - n \in (0 + 1)..Len(d)
    BY <1>2, <1>3, <2>2
  <2> QED BY <2>1, <2>2, <2>3, <2>4 DEF LastIx, CqIx
<1>7. RingTypes(q, i, o, d, 0)
  BY <1>1, <1>2, <1>3 DEF RingTypes
<1>8. AllMeant(q, i, o, d, 0, m, r)
  BY <1>4 DEF Sound, AllMeant
<1>9. MoreFollows(o, d, 0)
  <2> SUFFICES ASSUME NEW j \in CqIx(d, 0), ~d[j].last
               PROVE  \/ \E f \in o : f.addr = d[j].addr
                      \/ \E k \in LastIx(d, 0) : k > j /\ d[k].addr = d[j].addr
    BY DEF MoreFollows
  <2>1. j \in Nat /\ j + n \in CqIx(c, n) /\ d[j] = c[j + n]
    BY <1>4
  <2>2. ASSUME NEW k \in LastIx(c, n), k > j + n PROVE k - n > j
    BY <1>2, <1>6, <2>1, <2>2
  <2> QED BY <1>6, <2>1, <2>2 DEF Sound, MoreFollows
<1>10. AtMostOne(q, i, o, d, 0)
  <2>1. AtMostOne(q, i, o, c, n)
    BY DEF Sound
  <2>2. \A j, k \in LastIx(d, 0) : d[j].addr = d[k].addr => j = k
    <3> SUFFICES ASSUME NEW j \in LastIx(d, 0), NEW k \in LastIx(d, 0),
                        d[j].addr = d[k].addr
                 PROVE  j = k
      OBVIOUS
    <3>1. j + n = k + n
      BY <1>5, <2>1 DEF AtMostOne
    <3> QED BY <1>2, <1>5, <3>1
  <2> QED BY <1>5, <2>1, <2>2 DEF AtMostOne
<1>11. AtLeastOne(q, i, o, d, 0, m)
  BY <1>6 DEF Sound, AtLeastOne
<1> QED BY <1>7, <1>8, <1>9, <1>10, <1>11 DEF Sound, d

-----------------------------------------------------------------------------
(* The actions. *)

\* The types of what Sound does not speak of.
OtherTypes ==
  /\ phase \in {"app", "dispatch", "resumed", "gone", "terminated"}
  /\ Len(sq) <= Depth
  /\ nr \in 0..CqSize
  /\ obj \in [Addrs -> Objects]
  /\ gen \in 0..MaxGen
  /\ registered \in Files \cup {"none"}
  /\ counter \in 0..(Groups - 1)
  /\ leaked \subseteq 0..(Groups - 1)

LEMMA TypesAre ==
  Types <=> OtherTypes /\ sq \in Seq(Sqes) /\ ops \subseteq Ops /\ cq \in Seq(Cqes)
<1>1. ASSUME sq \in Seq(Sqes) PROVE \A i \in DOMAIN sq : sq[i] \in Ops \cup Cancels
  BY <1>1 DEF Sqes
<1>2. ASSUME cq \in Seq(Cqes)
      PROVE  \A i \in DOMAIN cq :
               cq[i] \in [addr : Addrs, gen : Gens, last : BOOLEAN]
                           \cup {Cqe(NULL, 0, TRUE)}
  <2>1. \A i \in DOMAIN cq : cq[i] \in Cqes
    BY <1>2
  <2> QED BY <2>1, Zenon DEF Cqes
<1> QED BY <1>1, <1>2 DEF Types, TypeOK, OtherTypes

\* A sink has all its fields.
SinkObjects ==
  [kind : {"sink"}, gen : Gens, recv : {"live", "dry", "over"}, owned : BOOLEAN,
   group : 0..(Groups - 1)]

LEMMA SinkFields ==
  ASSUME NEW x \in Objects, x.kind = "sink"
  PROVE  x \in SinkObjects
BY DEF Objects, SinkObjects, Free, Awaiter

LEMMA SinkIsObject ==
  ASSUME NEW x \in SinkObjects
  PROVE  x \in Objects
BY DEF Objects, SinkObjects

\* What holds before any step of a queue that is there.
LEMMA Before ==
  ASSUME IInv, ~Over
  PROVE  /\ OtherTypes /\ sq \in Seq(Sqes) /\ ops \subseteq Ops /\ cq \in Seq(Cqes)
         /\ Sound(sq, 0, ops, cq, nr, obj, registered)
         /\ OwnGroups(obj)
BY TypesAre DEF IInv

\* What has to hold after it.
LEMMA After ==
  ASSUME OtherTypes', OwnGroups(obj'), Sound(sq', 0, ops', cq', nr', obj', registered')
  PROVE  IInv'
<1>1. sq' \in Seq(Sqes) /\ ops' \subseteq Ops /\ cq' \in Seq(Cqes)
  BY DEF Sound, RingTypes
<1>2. (OtherTypes /\ sq \in Seq(Sqes) /\ ops \subseteq Ops /\ cq \in Seq(Cqes))' => Types'
  BY TypesAre, PTL
<1>3. Types'
  BY <1>1, <1>2
<1> QED BY <1>3 DEF IInv

\* _get_sqe() finds room, or makes it.
LEMMA GetSqeSound ==
  ASSUME Sound(sq, 0, ops, cq, nr, obj, registered), OtherTypes, NEW e, GetSqe(e)
  PROVE  \E q \in Seq(Sqes) :
           /\ Sound(q, 0, ops', cq', nr, obj, registered)
           /\ sq' = Append(q, e) /\ Len(q) < Depth
           /\ Extends(cq', cq)
<1>1. sq \in Seq(Sqes) /\ cq \in Seq(Cqes)
  BY DEF Sound, RingTypes
<1>2. Len(sq) \in Nat /\ Len(cq) \in Nat /\ Depth \in Nat /\ Depth > 0
  BY <1>1, UringQueueAssumption
<1>3. CASE Len(sq) < Depth
  <2>1. sq' = Append(sq, e) /\ ops' = ops /\ cq' = cq
    BY <1>3 DEF GetSqe
  <2>2. Extends(cq, cq)
    BY <1>2 DEF Extends
  <2> QED BY <1>1, <1>3, <2>1, <2>2
<1>4. CASE ~(Len(sq) < Depth)
  <2>1. sq' = <<e>> /\ ops' = Submitted.ops /\ cq' = Submitted.cq
    BY <1>4 DEF GetSqe
  <2>2. Sound(<<>>, 0, ops', cq', nr, obj, registered) /\ Extends(cq', cq)
    BY <2>1, SubmittedSound
  <2>3. <<>> \in Seq(Sqes) /\ Len(<<>>) < Depth /\ <<e>> = Append(<<>>, e)
    BY <1>2
  <2> QED BY <2>1, <2>2, <2>3
<1> QED BY <1>3, <1>4

\* After Append() the ring holds at most Depth entries.
LEMMA RoomKept ==
  ASSUME NEW q \in Seq(Sqes), NEW e, Len(q) < Depth
  PROVE  Len(Append(q, e)) <= Depth
<1>1. Len(q) \in Nat /\ Len(Append(q, e)) = Len(q) + 1
  OBVIOUS
<1> QED BY <1>1, UringQueueAssumption

\* A new object and its first operation.
LEMMA Started ==
  ASSUME IInv, ~Over, phase' = phase, nr' = nr,
         NEW a \in Addrs, NEW x \in Objects, Allocate(a, x), x.gen = gen + 1,
         Expects(obj', a), OwnGroups(obj'),
         NEW multi \in BOOLEAN, NEW f \in Files \cup {"none"},
         GetSqe(OpSqe(a, gen + 1, multi, f)),
         multi => x.kind = "sink",
         f # "none" => registered' = f,
         registered # "none" => registered' = registered,
         registered' \in Files \cup {"none"},
         counter' \in 0..(Groups - 1), leaked' \subseteq 0..(Groups - 1)
  PROVE  IInv'
<1> DEFINE e == OpSqe(a, gen + 1, multi, f)
<1>1. OtherTypes /\ Sound(sq, 0, ops, cq, nr, obj, registered)
  BY Before
<1>2. /\ obj[a] = Free /\ gen < MaxGen /\ gen' = gen + 1
      /\ obj' = [obj EXCEPT ![a] = x]
  BY DEF Allocate
<1>3. gen + 1 \in Gens /\ gen' \in 0..MaxGen
  BY <1>1, <1>2, UringQueueAssumption DEF OtherTypes, Gens
<1>4. obj' \in [Addrs -> Objects] /\ obj'[a] = x /\ \A b \in Addrs : b # a => obj'[b] = obj[b]
  BY <1>1, <1>2 DEF OtherTypes
<1>5. e \in Ops
  BY <1>3 DEF Ops, OpSqe
<1>6. /\ e.addr = a /\ e.gen = gen + 1 /\ (e.multi <=> multi) /\ e.fixed = f
  BY DEF OpSqe
<1>7. ~Expects(obj, a)
  BY <1>2 DEF Expects, Free
<1> HIDE DEF e
<1>8. OpMeant(obj', registered', e)
  BY <1>4, <1>6 DEF OpMeant, Meant
<1>9. PICK q \in Seq(Sqes) :
         /\ Sound(q, 0, ops', cq', nr, obj, registered)
         /\ sq' = Append(q, e) /\ Len(q) < Depth
  BY <1>1, GetSqeSound DEF e
<1>10. Sound(sq', 0, ops', cq', nr', obj', registered')
  BY <1>4, <1>5, <1>6, <1>7, <1>8, <1>9, AddOp
<1>11. OtherTypes'
  BY <1>1, <1>3, <1>4, <1>9, RoomKept DEF OtherTypes
<1> QED BY <1>10, <1>11, After

\* An awaiter is an object that expects a completion and has no group.
LEMMA AwaiterObject ==
  ASSUME IInv, ~Over, NEW a \in Addrs, Allocate(a, Awaiter(gen + 1))
  PROVE  /\ Awaiter(gen + 1) \in Objects /\ Awaiter(gen + 1).gen = gen + 1
         /\ Expects(obj', a) /\ OwnGroups(obj')
<1>1. OtherTypes /\ OwnGroups(obj)
  BY Before
<1>2. /\ gen < MaxGen
      /\ obj' = [obj EXCEPT ![a] = Awaiter(gen + 1)]
  BY DEF Allocate
<1>3. gen + 1 \in Gens
  BY <1>1, <1>2, UringQueueAssumption DEF OtherTypes, Gens
<1>4. obj'[a] = Awaiter(gen + 1) /\ \A b \in Addrs : b # a => obj'[b] = obj[b]
  BY <1>1, <1>2 DEF OtherTypes
<1>5. Awaiter(gen + 1) \in Objects
  BY <1>3 DEF Objects
<1>6. Awaiter(gen + 1).kind = "awaiter" /\ Awaiter(gen + 1).gen = gen + 1
  BY DEF Awaiter
<1> QED BY <1>1, <1>4, <1>5, <1>6 DEF Expects, OwnGroups

\* accept(), connect(), send(), sendmsg(), open(), close().
LEMMA StartOpIInv ==
  ASSUME IInv, NEW a \in Addrs, StartOp(a)
  PROVE  IInv'
<1> USE DEF StartOp, idVars
<1>1. ~Over
  BY DEF Running, Over
<1>2. /\ Awaiter(gen + 1) \in Objects /\ Awaiter(gen + 1).gen = gen + 1
      /\ Expects(obj', a) /\ OwnGroups(obj')
  BY <1>1, AwaiterObject
<1>3. /\ registered' \in Files \cup {"none"} /\ registered' = registered
      /\ counter' \in 0..(Groups - 1) /\ leaked' \subseteq 0..(Groups - 1)
  BY <1>1, Before DEF OtherTypes
<1>4. FALSE \in BOOLEAN /\ "none" \in Files \cup {"none"}
  OBVIOUS
<1> QED BY <1>1, <1>2, <1>3, <1>4, Started

\* pread(), pwrite(), pwrite_dsync().
LEMMA StartFileOpIInv ==
  ASSUME IInv, NEW a \in Addrs, NEW f \in Files, StartFileOp(a, f)
  PROVE  IInv'
<1> USE DEF StartFileOp, IsRegistered
<1>1. ~Over
  BY DEF Running, Over
<1>2. /\ Awaiter(gen + 1) \in Objects /\ Awaiter(gen + 1).gen = gen + 1
      /\ Expects(obj', a) /\ OwnGroups(obj')
  BY <1>1, AwaiterObject
<1>3. /\ registered \in Files \cup {"none"}
      /\ counter' \in 0..(Groups - 1) /\ leaked' \subseteq 0..(Groups - 1)
  BY <1>1, Before DEF OtherTypes
<1>4. PICK g \in {f, "none"} :
        /\ GetSqe(OpSqe(a, gen + 1, FALSE, g))
        /\ registered' \in Files \cup {"none"}
        /\ g # "none" => registered' = g
        /\ registered # "none" => registered' = registered
  BY <1>3
<1>5. FALSE \in BOOLEAN /\ g \in Files \cup {"none"}
  OBVIOUS
<1> QED BY <1>1, <1>2, <1>3, <1>4, <1>5, Started

\* RecvSink's constructor: the group it is given is nobody's.
LEMMA OpenStreamIInv ==
  ASSUME IInv, NEW a \in Addrs, OpenStream(a)
  PROVE  IInv'
<1> USE DEF OpenStream
<1>1. ~Over
  BY DEF Running, Over
<1>2. /\ OtherTypes /\ OwnGroups(obj) /\ Sound(sq, 0, ops, cq, nr, obj, registered)
      /\ sq \in Seq(Sqes) /\ ops \subseteq Ops /\ cq \in Seq(Cqes)
  BY <1>1, Before
<1>3. counter \in 0..(Groups - 1) /\ counter' \in 0..(Groups - 1)
  BY <1>2, UringQueueAssumption DEF OtherTypes
<1>4. CASE ~Taken(counter) /\ Allocate(a, Sink(gen + 1, counter))
             /\ GetSqe(OpSqe(a, gen + 1, TRUE, "none")) /\ UNCHANGED leaked
  <2> DEFINE x == Sink(gen + 1, counter)
  <2>1. gen < MaxGen /\ obj' = [obj EXCEPT ![a] = x]
    BY <1>4 DEF Allocate
  <2>2. gen + 1 \in Gens
    BY <1>2, <2>1, UringQueueAssumption DEF OtherTypes, Gens
  <2>3. x \in Objects
    BY <1>3, <2>2 DEF Sink, Objects
  <2>4. x.kind = "sink" /\ x.gen = gen + 1 /\ x.recv = "live" /\ x.group = counter
    BY DEF Sink
  <2>5. obj'[a] = x /\ \A b \in Addrs : b # a => obj'[b] = obj[b]
    BY <1>2, <2>1 DEF OtherTypes
  <2> HIDE DEF x
  <2>6. \A b \in Addrs : obj[b].kind = "sink" => obj[b].group # counter
    BY <1>4 DEF Taken, GroupsInUse, Sinks
  <2>7. OwnGroups(obj')
    BY <1>2, <2>4, <2>5, <2>6 DEF OwnGroups
  <2>8. Expects(obj', a)
    BY <2>4, <2>5 DEF Expects
  <2>9. /\ registered' \in Files \cup {"none"} /\ registered' = registered
        /\ leaked' \subseteq 0..(Groups - 1)
    BY <1>2, <1>4 DEF OtherTypes
  <2>10. TRUE \in BOOLEAN /\ "none" \in Files \cup {"none"}
    OBVIOUS
  <2>11. Allocate(a, x)
    BY <1>4 DEF x
  <2> QED BY <1>1, <1>3, <1>4, <2>3, <2>4, <2>7, <2>8, <2>9, <2>10, <2>11, Started
<1>5. CASE /\ UNCHANGED <<ringVars, obj, gen, registered, phase, nr>>
           /\ leaked' \subseteq 0..(Groups - 1)
  <2>1. Sound(sq', 0, ops', cq', nr', obj', registered') /\ OwnGroups(obj')
    BY <1>2, <1>5 DEF ringVars
  <2>2. OtherTypes'
    BY <1>2, <1>3, <1>5 DEF OtherTypes, ringVars
  <2> QED BY <2>1, <2>2, After
<1>6. leaked \subseteq 0..(Groups - 1)
  BY <1>2 DEF OtherTypes
<1> QED BY <1>3, <1>4, <1>5, <1>6 DEF GetSqeThrows

\* ~RecvStreamImpl(): an orphan still expects its last completion.
LEMMA CloseStreamIInv ==
  ASSUME IInv, NEW a \in Addrs, CloseStream(a)
  PROVE  IInv'
<1> USE DEF CloseStream, idVars
<1>1. ~Over
  BY DEF Running, Over
<1>2. /\ OtherTypes /\ OwnGroups(obj) /\ Sound(sq, 0, ops, cq, nr, obj, registered)
      /\ sq \in Seq(Sqes) /\ ops \subseteq Ops /\ cq \in Seq(Cqes)
  BY <1>1, Before
<1>3. obj[a].kind = "sink" /\ obj[a] \in Objects /\ obj \in [Addrs -> Objects]
  BY <1>2 DEF Sinks, OtherTypes
<1>4. obj[a] \in SinkObjects
  BY <1>3, SinkFields
<1>5. /\ gen' \in 0..MaxGen /\ registered' = registered /\ counter' = counter
      /\ leaked' = leaked /\ phase' = phase /\ nr' = nr
  BY <1>2 DEF OtherTypes
<1>6. CASE obj[a].recv = "live"
  <2> DEFINE x == Detached(a)
  <2>1. obj' = [obj EXCEPT ![a] = x]
    BY <1>6
  <2>2. /\ x \in Objects /\ x.kind = "sink" /\ x.gen = obj[a].gen
        /\ x.recv = "live" /\ x.group = obj[a].group
    <3>1. x = [obj[a] EXCEPT !.owned = FALSE]
      BY DEF Detached
    <3> HIDE DEF x
    <3>2. x.kind = "sink" /\ x.gen = obj[a].gen /\ x.recv = "live" /\ x.group = obj[a].group
      BY <1>4, <1>6, <3>1 DEF SinkObjects
    <3>3. x \in SinkObjects
      BY <1>4, <3>1 DEF SinkObjects
    <3> QED BY <3>2, <3>3, SinkIsObject
  <2> HIDE DEF x
  <2>3. /\ obj' \in [Addrs -> Objects] /\ obj'[a] = x
        /\ \A b \in Addrs : b # a => obj'[b] = obj[b]
    BY <1>3, <2>1, <2>2
  <2>4. /\ \A b \in Addrs : Expects(obj', b) <=> Expects(obj, b)
        /\ \A b \in Addrs : Expects(obj, b) => obj'[b].gen = obj[b].gen /\ obj'[b].kind = obj[b].kind
    BY <1>3, <1>6, <2>2, <2>3 DEF Expects
  <2>5. OwnGroups(obj')
    BY <1>2, <1>3, <2>2, <2>3 DEF OwnGroups
  <2>6. CASE GetSqe(CancelSqe(a))
    <3> DEFINE e == CancelSqe(a)
    <3>1. e \in Cancels
      BY <1>4 DEF CancelSqe, Cancels, SinkObjects
    <3> HIDE DEF e
    <3>2. PICK q \in Seq(Sqes) :
            /\ Sound(q, 0, ops', cq', nr, obj, registered)
            /\ sq' = Append(q, e) /\ Len(q) < Depth
      BY <1>2, <2>6, GetSqeSound DEF e
    <3>3. Sound(sq', 0, ops', cq', nr, obj, registered)
      BY <3>1, <3>2, AddCancel
    <3>4. Sound(sq', 0, ops', cq', nr', obj', registered')
      BY <1>5, <2>4, <3>3, SameObjects
    <3>5. OtherTypes'
      BY <1>2, <1>5, <2>3, <3>2, RoomKept DEF OtherTypes
    <3> QED BY <2>5, <3>4, <3>5, After
  <2>7. CASE GetSqeThrows
    <3>1. sq' = sq /\ ops' = ops /\ cq' = cq
      BY <2>7 DEF GetSqeThrows, ringVars
    <3>2. Sound(sq', 0, ops', cq', nr', obj', registered')
      BY <1>2, <1>5, <2>4, <3>1, SameObjects
    <3>3. OtherTypes'
      BY <1>2, <1>5, <2>3, <3>1 DEF OtherTypes
    <3> QED BY <2>5, <3>2, <3>3, After
  <2> QED BY <1>6, <2>6, <2>7
<1>7. CASE obj[a].recv # "live"
  <2>1. obj' = [obj EXCEPT ![a] = Free] /\ sq' = sq /\ ops' = ops /\ cq' = cq
    BY <1>7 DEF ringVars
  <2>2. Free \in Objects /\ Free.kind = "free"
    BY DEF Free, Objects
  <2>3. /\ obj' \in [Addrs -> Objects] /\ obj'[a] = Free
        /\ \A b \in Addrs : b # a => obj'[b] = obj[b]
    BY <1>3, <2>1, <2>2
  <2>4. /\ \A b \in Addrs : Expects(obj', b) <=> Expects(obj, b)
        /\ \A b \in Addrs : Expects(obj, b) => obj'[b].gen = obj[b].gen /\ obj'[b].kind = obj[b].kind
    BY <1>3, <1>7, <2>2, <2>3 DEF Expects
  <2>5. OwnGroups(obj')
    BY <1>2, <2>2, <2>3 DEF OwnGroups
  <2>6. Sound(sq', 0, ops', cq', nr', obj', registered')
    BY <1>2, <1>5, <2>1, <2>4, SameObjects
  <2>7. OtherTypes'
    BY <1>2, <1>5, <2>1, <2>3 DEF OtherTypes
  <2> QED BY <2>5, <2>6, <2>7, After
<1> QED BY <1>6, <1>7

\* m with another recv for the sink at a.
WithRecv(m, a, v) == [m EXCEPT ![a].recv = v]

\* Changing only recv of a sink keeps it one, with its group.
LEMMA SinkKept ==
  ASSUME obj \in [Addrs -> Objects], OwnGroups(obj), NEW a \in Addrs,
         obj[a].kind = "sink", NEW v \in {"live", "dry", "over"},
         NEW w, w = WithRecv(obj, a, v)
  PROVE  /\ w \in [Addrs -> Objects] /\ OwnGroups(w)
         /\ w[a].kind = "sink" /\ w[a].recv = v /\ w[a].gen = obj[a].gen
         /\ obj[a].gen \in Gens
         /\ \A b \in Addrs : b # a => w[b] = obj[b]
<1> DEFINE x == [obj[a] EXCEPT !.recv = v]
<1>1. obj[a] \in SinkObjects
  <2>1. obj[a] \in Objects
    OBVIOUS
  <2> QED BY <2>1, SinkFields
<1>2. w = [obj EXCEPT ![a] = x]
  BY DEF WithRecv
<1>3. /\ x.kind = "sink" /\ x.recv = v /\ x.gen = obj[a].gen /\ x.group = obj[a].group
      /\ obj[a].gen \in Gens
  BY <1>1 DEF SinkObjects
<1>4. x \in Objects
  <2>1. x \in SinkObjects
    BY <1>1 DEF SinkObjects
  <2> QED BY <2>1, SinkIsObject
<1> HIDE DEF x
<1>5. /\ w \in [Addrs -> Objects] /\ w[a] = x
      /\ \A b \in Addrs : b # a => w[b] = obj[b]
  BY <1>2, <1>4
<1>6. OwnGroups(w)
  BY <1>3, <1>5 DEF OwnGroups
<1> QED BY <1>3, <1>5, <1>6

\* submit_recv() of a sink that expects nothing, as soon as what came before it in
\* the same step, w and n, is taken into account.
LEMMA SubmitRecvIInv ==
  ASSUME IInv, ~Over, NEW a \in Addrs, obj[a].kind = "sink",
         NEW n, nr' = n, n \in 0..CqSize,
         NEW w, ~Expects(w, a), \A b \in Addrs : b # a => w[b] = obj[b],
         \A q, o, c : Sound(q, 0, o, c, nr, obj, registered) /\ Extends(c, cq)
                        => Sound(q, 0, o, c, n, w, registered),
         NEW to, to \subseteq {"app", "dispatch", "resumed"},
         SubmitRecv(a, to), UNCHANGED <<gen, idVars>>
  PROVE  IInv'
<1>1. /\ OtherTypes /\ OwnGroups(obj) /\ Sound(sq, 0, ops, cq, nr, obj, registered)
      /\ sq \in Seq(Sqes) /\ ops \subseteq Ops /\ cq \in Seq(Cqes)
  BY Before
<1>2. gen' = gen /\ registered' = registered /\ counter' = counter /\ leaked' = leaked
  BY DEF idVars
<1>3. CASE /\ GetSqe(OpSqe(a, obj[a].gen, TRUE, "none"))
           /\ obj' = [obj EXCEPT ![a].recv = "live"]
           /\ phase' \in to
  <2> DEFINE e == OpSqe(a, obj[a].gen, TRUE, "none")
  <2>1. /\ obj' \in [Addrs -> Objects] /\ OwnGroups(obj')
        /\ obj'[a].kind = "sink" /\ obj'[a].recv = "live" /\ obj'[a].gen = obj[a].gen
        /\ obj[a].gen \in Gens
        /\ \A b \in Addrs : b # a => obj'[b] = obj[b]
    <3>1. obj' = WithRecv(obj, a, "live") /\ "live" \in {"live", "dry", "over"}
      BY <1>3 DEF WithRecv
    <3>2. obj \in [Addrs -> Objects]
      BY <1>1 DEF OtherTypes
    <3> QED BY <1>1, <3>1, <3>2, SinkKept
  <2>2. e \in Ops
    BY <2>1 DEF OpSqe, Ops
  <2>3. e.addr = a /\ e.gen = obj[a].gen /\ e.fixed = "none"
    BY DEF OpSqe
  <2> HIDE DEF e
  <2>4. PICK q \in Seq(Sqes) :
          /\ Sound(q, 0, ops', cq', nr, obj, registered)
          /\ sq' = Append(q, e) /\ Len(q) < Depth
          /\ Extends(cq', cq)
    BY <1>1, <1>3, GetSqeSound DEF e
  <2>5. Sound(q, 0, ops', cq', n, w, registered)
    BY <2>4
  <2>6. OpMeant(obj', registered, e)
    BY <2>1, <2>3 DEF OpMeant, Meant, Expects
  <2>7. \A b \in Addrs : b # a => obj'[b] = w[b]
    BY <2>1
  <2>8. Sound(sq', 0, ops', cq', nr', obj', registered')
    BY <1>2, <2>2, <2>3, <2>4, <2>5, <2>6, <2>7, AddOp
  <2>9. OtherTypes'
    BY <1>1, <1>2, <1>3, <2>1, <2>4, RoomKept DEF OtherTypes
  <2> QED BY <2>1, <2>8, <2>9, After
<1>4. CASE GetSqeThrows /\ phase' = "terminated" /\ UNCHANGED obj
  <2>1. sq' = sq /\ ops' = ops /\ cq' = cq /\ obj' = obj
    BY <1>4 DEF GetSqeThrows, ringVars
  <2>2. OtherTypes'
    BY <1>1, <1>2, <1>4, <2>1 DEF OtherTypes
  <2>3. (OtherTypes /\ sq \in Seq(Sqes) /\ ops \subseteq Ops /\ cq \in Seq(Cqes))' => Types'
    BY TypesAre, PTL
  <2>4. Types'
    BY <1>1, <2>1, <2>2, <2>3
  <2> QED BY <1>4, <2>4 DEF IInv, Over
<1> QED BY <1>3, <1>4 DEF SubmitRecv

\* A reader's next call.
LEMMA ResubmitIInv ==
  ASSUME IInv, NEW a \in Addrs, Resubmit(a)
  PROVE  IInv'
<1> USE DEF Resubmit
<1>1. ~Over /\ {phase} \subseteq {"app", "dispatch", "resumed"}
  BY DEF Running, Over
<1>2. obj[a].kind = "sink" /\ ~Expects(obj, a)
  BY DEF Sinks, Expects
<1>3. nr' = nr /\ nr \in 0..CqSize
  BY <1>1, Before DEF OtherTypes
<1> QED BY <1>1, <1>2, <1>3, SubmitRecvIInv

\* step()'s io_uring_submit_and_wait().
LEMMA StepSubmitIInv == IInv /\ StepSubmit => IInv'
<1> SUFFICES ASSUME IInv, StepSubmit PROVE IInv'
  OBVIOUS
<1> USE DEF StepSubmit, idVars
<1>1. ~Over
  BY DEF Over
<1>2. OtherTypes /\ OwnGroups(obj) /\ Sound(sq, 0, ops, cq, nr, obj, registered)
  BY <1>1, Before
<1>3. Sound(sq', 0, ops', cq', nr', obj', registered')
  BY <1>2, SubmittedSound
<1>4. OtherTypes'
  <2>1. Len(<<>>) <= Depth
    BY UringQueueAssumption
  <2> QED BY <1>2, <2>1 DEF OtherTypes
<1> QED BY <1>2, <1>3, <1>4, After

\* _dispatch(), one CQE.
LEMMA DispatchNextIInv == IInv /\ DispatchNext => IInv'
<1> SUFFICES ASSUME IInv, DispatchNext PROVE IInv'
  OBVIOUS
<1> USE DEF DispatchNext
<1> DEFINE e == cq[nr + 1]
<1>1. ~Over
  BY DEF Over
<1>2. /\ OtherTypes /\ OwnGroups(obj) /\ Sound(sq, 0, ops, cq, nr, obj, registered)
      /\ sq \in Seq(Sqes) /\ ops \subseteq Ops /\ cq \in Seq(Cqes)
  BY <1>1, Before
<1>3. /\ nr \in Nat /\ nr' = nr + 1 /\ nr < Len(cq) /\ nr' \in 0..CqSize
      /\ Len(cq) \in Nat /\ nr + 1 \in 1..Len(cq)
  BY <1>2, UringQueueAssumption DEF OtherTypes, Visible
<1>4. gen' = gen /\ registered' = registered /\ counter' = counter /\ leaked' = leaked
  BY DEF idVars
<1>5. obj \in [Addrs -> Objects]
  BY <1>2 DEF OtherTypes
<1>6. e.addr \in Addrs => e.addr # NULL /\ e.last \in BOOLEAN /\ Meant(obj, e)
        /\ (~e.last => obj[e.addr].kind = "sink")
  <2> SUFFICES ASSUME e.addr \in Addrs
               PROVE  e.addr # NULL /\ e.last \in BOOLEAN /\ Meant(obj, e)
                        /\ (~e.last => obj[e.addr].kind = "sink")
    OBVIOUS
  <2>1. e.addr # NULL
    BY UringQueueAssumption DEF NULL
  <2>2. nr + 1 \in CqIx(cq, nr)
    BY <1>3, <2>1 DEF CqIx
  <2>3. e.last \in BOOLEAN
    BY <1>2, <2>2, TokenAddrs DEF Sound
  <2> QED BY <1>2, <2>1, <2>2, <2>3 DEF Sound, AllMeant
\* The object stays what it is, and the CQE was not a token.
<1>7. CASE /\ UNCHANGED <<obj, ringVars>> /\ phase' \in {"dispatch", "resumed"}
           /\ e.addr = NULL \/ ~e.last
  <2>1. Sound(sq', 0, ops', cq', nr', obj', registered')
    BY <1>2, <1>3, <1>4, <1>7, PassOther DEF ringVars
  <2>2. OtherTypes' /\ OwnGroups(obj')
    BY <1>2, <1>3, <1>4, <1>7 DEF OtherTypes, ringVars
  <2> QED BY <2>1, <2>2, After
\* The token is taken and the object expects nothing any more.
<1>8. ASSUME e.addr \in Addrs, e.last, UNCHANGED ringVars,
             phase' \in {"dispatch", "resumed"}, obj' \in [Addrs -> Objects],
             OwnGroups(obj'), ~Expects(obj', e.addr),
             \A b \in Addrs : b # e.addr => obj'[b] = obj[b]
      PROVE  IInv'
  <2>1. Sound(sq', 0, ops', cq', nr', obj', registered')
    BY <1>2, <1>3, <1>4, <1>8, PassLast DEF ringVars
  <2>2. OtherTypes'
    BY <1>2, <1>3, <1>4, <1>8 DEF OtherTypes, ringVars
  <2> QED BY <1>8, <2>1, <2>2, After
<1>9. ASSUME e.addr \in Addrs, e.last, UNCHANGED ringVars,
             phase' \in {"dispatch", "resumed"}, obj' = [obj EXCEPT ![e.addr] = Free]
      PROVE  IInv'
  <2>1. Free \in Objects /\ Free.kind = "free"
    BY DEF Free, Objects
  <2>2. /\ obj' \in [Addrs -> Objects] /\ obj'[e.addr] = Free
        /\ \A b \in Addrs : b # e.addr => obj'[b] = obj[b]
    BY <1>5, <1>9, <2>1
  <2>3. OwnGroups(obj') /\ ~Expects(obj', e.addr)
    BY <1>2, <2>1, <2>2 DEF OwnGroups, Expects
  <2> QED BY <1>8, <1>9, <2>2, <2>3
<1>10. CASE e.addr = NULL /\ UNCHANGED <<phase, obj, ringVars>>
  BY <1>7, <1>10
<1>11. CASE e.addr \in Awaiters /\ AwaiterCqe(e.addr)
  <2>1. e.addr \in Addrs /\ obj[e.addr].kind = "awaiter"
    BY <1>11 DEF Awaiters
  <2>2. e.last
    BY <1>6, <2>1
  <2> QED BY <1>9, <1>11, <2>1, <2>2 DEF AwaiterCqe
<1>12. CASE e.addr \in Sinks /\ OrphanCqe(e.addr, e.last)
  <2>1. e.addr \in Addrs
    BY <1>12 DEF Sinks
  <2>2. /\ obj' = [obj EXCEPT ![e.addr] = IF e.last THEN Free ELSE obj[e.addr]]
        /\ phase' = "dispatch" /\ UNCHANGED ringVars
    BY <1>12 DEF OrphanCqe
  <2>3. CASE e.last
    BY <1>9, <2>1, <2>2, <2>3
  <2>4. CASE ~e.last
    <3>1. obj' = obj
      BY <1>5, <2>1, <2>2, <2>4
    <3> QED BY <1>7, <2>2, <2>4, <3>1
  <2> QED BY <2>3, <2>4
<1>13. CASE e.addr \in Sinks /\ OwnedCqe(e.addr, e.last)
  <2> HIDE DEF e
  <2>1. e.addr \in Addrs /\ obj[e.addr].kind = "sink"
    BY <1>13 DEF Sinks
  <2>2. obj[e.addr].recv = "live"
    BY <1>6, <2>1 DEF Meant, Expects
  <2>3. ASSUME e.last, NEW v \in {"dry", "over"}, UNCHANGED ringVars,
               obj' = [obj EXCEPT ![e.addr].recv = v],
               phase' \in {"dispatch", "resumed"}
        PROVE  IInv'
    <3>1. /\ obj' \in [Addrs -> Objects] /\ OwnGroups(obj')
          /\ obj'[e.addr].kind = "sink" /\ obj'[e.addr].recv = v
          /\ \A b \in Addrs : b # e.addr => obj'[b] = obj[b]
      <4>1. obj' = WithRecv(obj, e.addr, v) /\ v \in {"live", "dry", "over"}
        BY <2>3 DEF WithRecv
      <4> QED BY <1>2, <1>5, <2>1, <4>1, SinkKept
    <3>2. ~Expects(obj', e.addr)
      BY <3>1 DEF Expects
    <3> QED BY <1>8, <2>1, <2>3, <3>1, <3>2
  <2>4. ASSUME ~e.last, UNCHANGED ringVars,
               obj' = [obj EXCEPT ![e.addr].recv = "live"],
               phase' \in {"dispatch", "resumed"}
        PROVE  IInv'
    <3>1. obj[e.addr] \in Objects
      BY <1>5, <2>1
    <3>2. obj[e.addr] \in SinkObjects
      BY <2>1, <3>1, SinkFields
    <3>3. [obj[e.addr] EXCEPT !.recv = "live"] = obj[e.addr]
      BY <2>2, <3>2 DEF SinkObjects
    <3>4. obj' = obj
      BY <1>5, <2>1, <2>4, <3>3
    <3> QED BY <1>7, <2>4, <3>4
  <2>5. CASE e.last /\ SubmitRecv(e.addr, {"dispatch", "resumed"})
    <3> DEFINE w == WithRecv(obj, e.addr, "dry")
    <3>1. /\ w[e.addr].recv = "dry" /\ w[e.addr].kind = "sink"
          /\ \A b \in Addrs : b # e.addr => w[b] = obj[b]
      BY <1>2, <1>5, <2>1, SinkKept
    <3> HIDE DEF w
    <3>2. ~Expects(w, e.addr)
      BY <3>1 DEF Expects
    <3>3. ASSUME NEW q, NEW o, NEW c, Sound(q, 0, o, c, nr, obj, registered),
                 Extends(c, cq)
          PROVE  Sound(q, 0, o, c, nr + 1, w, registered)
      <4>1. nr < Len(c) /\ c[nr + 1] = e
        <5>1. Len(c) \in Nat
          BY <3>3 DEF Sound, RingTypes
        <5> QED BY <1>3, <3>3, <5>1 DEF Extends, e
      <4> QED BY <2>1, <2>5, <3>1, <3>2, <3>3, <4>1, PassLast
    <3>4. UNCHANGED <<gen, idVars>> /\ {"dispatch", "resumed"} \subseteq {"app", "dispatch", "resumed"}
      OBVIOUS
    <3> QED BY <1>1, <1>3, <2>1, <2>5, <3>1, <3>2, <3>3, <3>4, SubmitRecvIInv
  <2> QED BY <1>13, <2>3, <2>4, <2>5 DEF OwnedCqe
<1> QED BY <1>10, <1>11, <1>12, <1>13

\* _dispatch()'s end.
LEMMA DispatchEndIInv == IInv /\ DispatchEnd => IInv'
<1> SUFFICES ASSUME IInv, DispatchEnd PROVE IInv'
  OBVIOUS
<1> USE DEF DispatchEnd, AdvanceBy, idVars
<1>1. ~Over
  BY DEF Over
<1>2. OtherTypes /\ OwnGroups(obj) /\ Sound(sq, 0, ops, cq, nr, obj, registered)
  BY <1>1, Before
<1>3. Sound(sq', 0, ops', cq', nr', obj', registered')
  BY <1>2, Advanced
<1>4. OtherTypes'
  BY <1>2, UringQueueAssumption DEF OtherTypes
<1> QED BY <1>2, <1>3, <1>4, After

\* A coroutine suspends.
LEMMA SuspendIInv == IInv /\ Suspend => IInv'
<1> SUFFICES ASSUME IInv, Suspend PROVE IInv'
  OBVIOUS
<1> USE DEF Suspend, ringVars, idVars
<1>1. ~Over
  BY DEF Over
<1>2. OtherTypes /\ OwnGroups(obj) /\ Sound(sq, 0, ops, cq, nr, obj, registered)
  BY <1>1, Before
<1>3. OtherTypes'
  BY <1>2 DEF OtherTypes
<1> QED BY <1>2, <1>3, After

\* ~Queue().
LEMMA DestroyQueueIInv == IInv /\ DestroyQueue => IInv'
<1> SUFFICES ASSUME IInv, DestroyQueue PROVE IInv'
  OBVIOUS
<1> USE DEF DestroyQueue, idVars
<1>1. ~Over
  BY DEF Over
<1>2. OtherTypes
  BY <1>1, Before
<1>3. OtherTypes'
  <2>1. Len(<<>>) <= Depth
    BY UringQueueAssumption
  <2> QED BY <1>2, <2>1 DEF OtherTypes
<1>4. sq' \in Seq(Sqes) /\ ops' \subseteq Ops /\ cq' \in Seq(Cqes)
  OBVIOUS
<1>5. (OtherTypes /\ sq \in Seq(Sqes) /\ ops \subseteq Ops /\ cq \in Seq(Cqes))' => Types'
  BY TypesAre, PTL
<1>6. Types'
  BY <1>3, <1>4, <1>5
<1> QED BY <1>6 DEF IInv, Over

\* The kernel completes an operation, also when the process is ending.
LEMMA KernelIInv ==
  ASSUME IInv, NEW g \in 1..MaxGen, KernelComplete(g)
  PROVE  IInv'
<1> USE DEF idVars
<1>1. PICK o \in ops, last \in BOOLEAN :
        /\ o.gen = g
        /\ last \/ o.multi
        /\ cq' = Append(cq, Cqe(o.addr, g, last))
        /\ ops' = IF last THEN ops \ {o} ELSE ops
  BY DEF KernelComplete
<1>2. UNCHANGED <<phase, sq, nr, obj, gen, registered, counter, leaked>>
  BY DEF KernelComplete
<1>3. OtherTypes /\ sq \in Seq(Sqes) /\ ops \subseteq Ops /\ cq \in Seq(Cqes)
  BY TypesAre DEF IInv
<1>4. OtherTypes'
  BY <1>2, <1>3 DEF OtherTypes
<1>5. CASE Over
  <2>1. o.addr \in Addrs /\ o.gen \in Gens
    BY <1>3 DEF Ops
  <2>2. Cqe(o.addr, g, last) \in Cqes
    BY <1>1, <2>1 DEF Cqe, Cqes
  <2>3. sq' \in Seq(Sqes) /\ ops' \subseteq Ops /\ cq' \in Seq(Cqes)
    BY <1>1, <1>2, <1>3, <2>2, AppendFacts
  <2>4. (OtherTypes /\ sq \in Seq(Sqes) /\ ops \subseteq Ops /\ cq \in Seq(Cqes))' => Types'
    BY TypesAre, PTL
  <2>5. Types'
    BY <1>4, <2>3, <2>4
  <2> QED BY <1>2, <1>5, <2>5 DEF IInv, Over
<1>6. CASE ~Over
  <2>1. Sound(sq, 0, ops, cq, nr, obj, registered) /\ OwnGroups(obj)
    BY <1>6, Before
  <2>2. CASE last
    <3>1. Sound(sq, 0, ops \ {o}, Append(cq, Cqe(o.addr, o.gen, TRUE)), nr, obj, registered)
      BY <2>1, CompleteLast
    <3>2. last = TRUE
      BY <2>2, Zenon
    <3>3. cq' = Append(cq, Cqe(o.addr, o.gen, TRUE)) /\ ops' = ops \ {o}
      BY <1>1, <3>2
    <3> QED BY <1>2, <1>4, <2>1, <3>1, <3>3, After
  <2>3. CASE ~last
    <3>1. last = FALSE
      BY <2>3, Zenon
    <3>2. cq' = Append(cq, Cqe(o.addr, o.gen, FALSE)) /\ ops' = ops /\ o.multi
      BY <1>1, <3>1
    <3>3. Sound(sq, 0, ops, Append(cq, Cqe(o.addr, o.gen, FALSE)), nr, obj, registered)
      BY <2>1, <3>2, CompleteSome
    <3> QED BY <1>2, <1>4, <2>1, <3>2, <3>3, After
  <2> QED BY <2>2, <2>3
<1> QED BY <1>5, <1>6

-----------------------------------------------------------------------------
(* The theorems. *)

\* Nothing is queued and nothing expected at first.
LEMMA InitIInv == Init => IInv
<1> SUFFICES ASSUME Init PROVE IInv
  OBVIOUS
<1> USE DEF Init
<1>1. OtherTypes
  <2>1. Free \in Objects
    BY DEF Objects
  <2>2. Len(<<>>) <= Depth /\ 1 % Groups \in 0..(Groups - 1) /\ 0 \in 0..CqSize /\ 0 \in 0..MaxGen
    BY UringQueueAssumption
  <2> QED BY <2>1, <2>2 DEF OtherTypes
<1>2. sq \in Seq(Sqes) /\ ops \subseteq Ops /\ cq \in Seq(Cqes)
  OBVIOUS
<1>3. \A a \in Addrs : obj[a].kind = "free"
  BY DEF Free
<1>4. OpIx(sq, 0) = {} /\ CqIx(cq, nr) = {} /\ LastIx(cq, nr) = {}
  BY DEF OpIx, CqIx, LastIx
<1>5. Sound(sq, 0, ops, cq, nr, obj, registered)
  <2>1. RingTypes(sq, 0, ops, cq, nr)
    BY <1>2 DEF RingTypes
  <2>2. AllMeant(sq, 0, ops, cq, nr, obj, registered) /\ MoreFollows(ops, cq, nr)
    BY <1>4 DEF AllMeant, MoreFollows
  <2>3. AtMostOne(sq, 0, ops, cq, nr)
    BY <1>4 DEF AtMostOne
  <2>4. AtLeastOne(sq, 0, ops, cq, nr, obj)
    BY <1>3 DEF AtLeastOne, Expects
  <2> QED BY <2>1, <2>2, <2>3, <2>4 DEF Sound
<1>6. OwnGroups(obj)
  BY <1>3 DEF OwnGroups
<1> QED BY <1>1, <1>2, <1>5, <1>6, TypesAre DEF IInv

LEMMA NextIInv == IInv /\ [Next]_vars => IInv'
<1> SUFFICES ASSUME IInv, [Next]_vars PROVE IInv'
  OBVIOUS
<1>1. CASE Coroutine
  BY <1>1, StartOpIInv, StartFileOpIInv, OpenStreamIInv, CloseStreamIInv, ResubmitIInv
     DEF Coroutine
<1>2. CASE StepSubmit
  BY <1>2, StepSubmitIInv
<1>3. CASE Thread
  BY <1>3, DispatchNextIInv, SuspendIInv, DispatchEndIInv DEF Thread
<1>4. CASE DestroyQueue
  BY <1>4, DestroyQueueIInv
<1>5. CASE \E g \in 1..MaxGen : KernelComplete(g)
  BY <1>5, KernelIInv
<1>6. CASE UNCHANGED vars
  BY <1>6 DEF vars, IInv, Types, TypeOK, Over
<1> QED BY <1>1, <1>2, <1>3, <1>4, <1>5, <1>6 DEF Next

LEMMA IInvHolds == Spec => []IInv
BY InitIInv, NextIInv, PTL DEF Spec

\* The submission ring never holds more SQEs than it has entries, whatever _get_sqe()
\* does when it is full, _dispatch() never passes more CQEs than the completion ring
\* has, and every user_data is an address.
THEOREM TypeCorrect == Spec => []TypeOK
<1>1. IInv => TypeOK
  BY DEF IInv, Types
<1> QED BY <1>1, IInvHolds, PTL

\* Every user_data in the rings is the address of the object its SQE was made for,
\* whatever was destroyed and reallocated since; index 0 is the registered file that
\* was meant; no two sinks share a buffer group, for every number of group ids the
\* counter of next_buffer_group_id() wraps at.
THEOREM RefersToSameHolds == Spec => []RefersToSame
BY IInvRefersToSame, IInvHolds, PTL

\* Exactly one last completion is to come for every suspended awaiter and every live
\* sink, and none for anything else, for rings of every size.
THEOREM OneCompletionHolds == Spec => []OneCompletion
BY IInvOneCompletion, IInvHolds, PTL
=============================================================================
