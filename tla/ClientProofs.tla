---------------------------- MODULE ClientProofs ----------------------------
(***************************************************************************)
(* Proofs about Client, for every backend, number and kind of requests and *)
(* length of a request: every accepted request has its callback invoked at *)
(* most once and is never lost track of, a payload always has a request to *)
(* go to, and requests are never mixed on the wire.                        *)
(***************************************************************************)
EXTENDS Client, TLAPS, FiniteSetTheorems, SequenceTheorems

\* Taking the first element off a queue.
LEMMA TailFacts ==
  ASSUME NEW S, NEW q \in Seq(S), q # <<>>
  PROVE  /\ Len(q) \in Nat \ {0} /\ Head(q) = q[1] /\ Head(q) \in S
         /\ Tail(q) \in Seq(S)
         /\ Len(Tail(q)) = Len(q) - 1
         /\ \A i \in 1..(Len(q) - 1) : Tail(q)[i] = q[i + 1]
OBVIOUS

\* Adding an element at the end.
LEMMA AppendFacts ==
  ASSUME NEW S, NEW q \in Seq(S), NEW x \in S
  PROVE  /\ Len(q) \in Nat
         /\ Append(q, x) \in Seq(S)
         /\ Len(Append(q, x)) = Len(q) + 1
         /\ \A i \in 1..Len(q) : Append(q, x)[i] = q[i]
         /\ Append(q, x)[Len(q) + 1] = x
OBVIOUS

-----------------------------------------------------------------------------
(* The invariant. *)

Pcs == {"none", "lock", "lockWait", "send", "sendWait", "cqe", "cqeError", "failed",
        "callback", "unlock", "end", "finished"}
Readers == {"none", "header", "headerWait", "body", "bodyWait", "callback", "fail",
            "failCallback", "over"}
Apps == {"connect", "connected", "refused", "idle", "error", "wait", "cancel", "gone",
         "undefined"}
Coros == Cids \cup {READER}
RespPart == [part : {"header", "body"}, cid : Cids \cup {Unknown}]
Unit == [cid : Cids, at : 1..ReqLen]

\* TypeOK without fired and cut, which need the rest of the invariant.
Shape ==
  /\ backend \in Backends
  /\ app \in Apps
  /\ kind \in [Cids -> Kinds \cup {"none"}]
  /\ pending \subseteq Cids
  /\ stack \in Seq(Coros)
  /\ pc \in [Cids -> Pcs]
  /\ left \in [Cids -> 0..ReqLen]
  /\ locked \in BOOLEAN
  /\ waiters \in Seq(Cids)
  /\ reader \in Readers
  /\ cur \in Cids \cup {0}
  /\ failing \in Seq(Cids)
  /\ cancelq \in Seq(Coros)
  /\ conn \in {"open", "eof", "reset"}
  /\ inbox \in Seq(RespPart)
  /\ owes \in Cids \cup {0}
  /\ data \in [Cids -> BOOLEAN]
  /\ wire \in Seq(Unit)

\* Where each coroutine is, reader_loop() and the send_request()s.
Where(p, r) == [x \in Coros |-> IF x = READER THEN r ELSE p[x]]

\* Where a coroutine is while it is on the stack, and where it may resume another one:
\* in a callback that issues a request, or handing the mutex on.
RunAt == {"lock", "send", "failed", "callback", "unlock", "end", "header", "body", "fail",
          "failCallback"}
MidAt == {"callback", "failCallback", "end"}

(***************************************************************************)
(* The stack stk holds the coroutines that run, each once, and all but the *)
(* innermost are in the middle of resuming another; m is where each is.    *)
(***************************************************************************)
StackOK(stk, m) ==
  /\ \A i, j \in DOMAIN stk : stk[i] = stk[j] => i = j
  /\ \A i \in DOMAIN stk : m[stk[i]] \in RunAt /\ (i # Len(stk) => m[stk[i]] \in MidAt)
  /\ \A x \in Coros : m[x] \in RunAt => \E i \in DOMAIN stk : stk[i] = x

StackInv == StackOK(stack, Where(pc, reader))

\* Where a send_request() holds _send_mtx, and where it has none of it.
HoldPc == {"send", "sendWait", "cqe", "cqeError", "failed", "callback", "unlock"}
FreePc == Pcs \ (HoldPc \cup {"lockWait"})

(***************************************************************************)
(* _send_mtx excludes, is locked exactly while somebody holds it, and its  *)
(* queue is those who wait for it, each once: a relation of where the      *)
(* senders are (p), _locked (lk) and the queue (ws).                       *)
(***************************************************************************)
MutexOK(p, lk, ws) ==
  /\ \A c, d \in Cids : p[c] \in HoldPc /\ p[d] \in HoldPc => c = d
  /\ lk <=> \E c \in Cids : p[c] \in HoldPc
  /\ \A c \in Cids : p[c] = "lockWait" <=> \E i \in DOMAIN ws : ws[i] = c
  /\ \A i, j \in DOMAIN ws : ws[i] = ws[j] => i = j

MutexInv == MutexOK(pc, locked, waiters)

(***************************************************************************)
(* cancel_fd()'s copy, k, made by ~Client(), holds coroutines that are     *)
(* still suspended on the descriptor when their turn comes, each once.     *)
(***************************************************************************)
CancelOK(k, m) ==
  /\ \A i, j \in DOMAIN k : k[i] = k[j] => i = j
  /\ \A i \in DOMAIN k : m[k[i]] \in {"headerWait", "bodyWait", "sendWait"}

CancelInv ==
  /\ CancelOK(cancelq, Where(pc, reader))
  /\ cancelq # <<>> => app = "cancel" /\ backend = "libc"

\* The constructor has not spawned reader_loop().
StartInv == app \in {"connect", "connected", "refused"} => stack = <<>> /\ reader = "none"

(***************************************************************************)
(* Each request is in one place: k is kind, fd fired, pd pending and fl    *)
(* failing, in which each is once.                                         *)
(***************************************************************************)
OnceOK(k, fd, pd, fl) ==
  /\ \A i, j \in DOMAIN fl : fl[i] = fl[j] => i = j
  /\ \A c \in Cids :
       IF k[c] = "none"
       THEN fd[c] = 0 /\ c \notin pd /\ \A i \in DOMAIN fl : fl[i] # c
       ELSE \/ fd[c] = 1 /\ c \notin pd /\ \A i \in DOMAIN fl : fl[i] # c
            \/ fd[c] = 0 /\ c \in pd /\ \A i \in DOMAIN fl : fl[i] # c
            \/ fd[c] = 0 /\ c \notin pd /\ \E i \in DOMAIN fl : fl[i] = c

OnceInv ==
  /\ fired \in [Cids -> Nat]
  /\ OnceOK(kind, fired, pending, failing)
  /\ reader \notin {"fail", "failCallback"} => failing = <<>>

\* Where a sender has not sent everything, and nothing at all.
MorePc == {"none", "lock", "lockWait", "send", "sendWait", "cqeError", "failed"}
FreshPc == {"none", "lock", "lockWait"}

\* A send that has not sent everything has something left; who waits, all.
LeftInv ==
  \A c \in Cids :
    /\ kind[c] = "none" <=> pc[c] = "none"
    /\ pc[c] \in MorePc => left[c] > 0
    /\ pc[c] \in FreshPc => left[c] = ReqLen

(***************************************************************************)
(* A response is for a request that was sent whole, so that its sender     *)
(* cannot fail any more and take it out of _pending; and only a read's     *)
(* carries a payload.                                                      *)
(***************************************************************************)
ResponseInv ==
  /\ \A i \in DOMAIN inbox : inbox[i].cid # Unknown => left[inbox[i].cid] = 0
  /\ owes # 0 => left[owes] = 0
  /\ \A c \in Cids : data[c] => kind[c] = "read"
  /\ reader \in {"body", "bodyWait"} =>
       cur # 0 /\ cur \in pending /\ left[cur] = 0 /\ data[cur]

CtlInv ==
  /\ Shape /\ StackInv /\ MutexInv /\ CancelInv /\ StartInv /\ OnceInv /\ LeftInv
  /\ ResponseInv

\* RequestsWhole of the units w, when the sends of T threw.
Whole(w, T) ==
  \A i \in DOMAIN w :
    IF w[i].at = 1 THEN i = 1 \/ w[i - 1].at = ReqLen \/ w[i - 1].cid \in T
    ELSE i > 1 /\ w[i - 1].cid = w[i].cid /\ w[i - 1].at = w[i].at - 1

\* Where a sender whose send threw goes on to its end.
CutPc == {"cqeError", "failed", "callback", "unlock", "end", "finished"}

(***************************************************************************)
(* The wire w, what is left (lf), where the senders are (p) and whose send *)
(* threw (T): the wire ends where the request of its last unit has got to; *)
(* a request that was sent in part and not cut is that one, and its sender *)
(* holds the mutex; who is past sending has sent everything or was cut;    *)
(* and who was cut sends no more.                                          *)
(***************************************************************************)
FrameOK(w, lf, p, T) ==
  /\ w # <<>> => w[Len(w)].at = ReqLen - lf[w[Len(w)].cid]
  /\ \A c \in Cids \ T : 0 < lf[c] /\ lf[c] < ReqLen =>
       /\ w # <<>> /\ w[Len(w)].cid = c
       /\ p[c] \in {"send", "sendWait", "cqe"}
  /\ \A c \in Cids \ T : p[c] \in CutPc => p[c] \in {"unlock", "end", "finished"} /\ lf[c] = 0
  /\ \A c \in T : c \in Cids /\ p[c] \in CutPc

FrameInv == Whole(wire, cut) /\ FrameOK(wire, left, pc, cut)

-----------------------------------------------------------------------------
(* The stack. *)

\* reader_loop() is not a request, and neither is a response to nothing.
LEMMA ReaderNotCid == READER \notin Cids /\ Unknown \notin Cids /\ 0 \notin Cids
BY ClientAssumption DEF READER, Unknown, Cids

\* One coroutine moves.
LEMMA WhereMoves ==
  ASSUME NEW p \in [Cids -> Pcs], NEW r \in Readers
  PROVE  /\ Where(p, r) \in [Coros -> Pcs \cup Readers]
         /\ Where(p, r)[READER] = r
         /\ \A c \in Cids : Where(p, r)[c] = p[c]
         /\ \A v \in Readers : Where(p, v) = [Where(p, r) EXCEPT ![READER] = v]
<1>1. READER \notin Cids
  BY ReaderNotCid
<1>2. /\ Where(p, r) \in [Coros -> Pcs \cup Readers]
      /\ Where(p, r)[READER] = r
      /\ \A c \in Cids : Where(p, r)[c] = p[c]
  BY <1>1 DEF Where, Coros
<1>3. ASSUME NEW v \in Readers
      PROVE  Where(p, v) = [Where(p, r) EXCEPT ![READER] = v]
  <2> DEFINE a == Where(p, v)
             b == [Where(p, r) EXCEPT ![READER] = v]
  <2>1. /\ a = [x \in Coros |-> a[x]] /\ b = [x \in Coros |-> b[x]]
        /\ \A x \in Coros : a[x] = b[x]
    BY <1>1 DEF Where, Coros
  <2> HIDE DEF a, b
  <2>2. a = b
    BY <2>1
  <2> QED BY <2>2 DEF a, b
<1> QED BY <1>2, <1>3

\* One sender moves.
LEMMA WhereSender ==
  ASSUME Shape, NEW c \in Cids, NEW v \in Pcs, pc' = [pc EXCEPT ![c] = v], reader' = reader
  PROVE  Where(pc, reader)' = [Where(pc, reader) EXCEPT ![c] = v]
<1> DEFINE a == Where(pc, reader)'
           b == [Where(pc, reader) EXCEPT ![c] = v]
<1>1. READER \notin Cids
  BY ReaderNotCid
<1>2. pc \in [Cids -> Pcs]
  BY DEF Shape
<1>3. /\ a = [x \in Coros |-> a[x]] /\ b = [x \in Coros |-> b[x]]
      /\ \A x \in Coros : a[x] = b[x]
  BY <1>1, <1>2 DEF Where, Coros
<1> HIDE DEF a, b
<1>4. a = b
  BY <1>3
<1> QED BY <1>4 DEF a, b

\* Who runs is the innermost coroutine.
LEMMA TopOf ==
  ASSUME NEW stk \in Seq(Coros), stk # <<>>, NEW m, StackOK(stk, m)
  PROVE  /\ Len(stk) \in Nat \ {0} /\ Len(stk) \in DOMAIN stk /\ Last(stk) = stk[Len(stk)]
         /\ Last(stk) \in Coros /\ m[Last(stk)] \in RunAt
         /\ DOMAIN stk = 1..Len(stk)
<1>1. Len(stk) \in Nat \ {0} /\ Len(stk) \in DOMAIN stk /\ DOMAIN stk = 1..Len(stk)
  OBVIOUS
<1>2. Last(stk) = stk[Len(stk)] /\ stk[Len(stk)] \in Coros
  BY <1>1 DEF Last
<1>3. m[stk[Len(stk)]] \in RunAt
  BY <1>1 DEF StackOK
<1> QED BY <1>1, <1>2, <1>3

\* The innermost coroutine goes on.
LEMMA StackGoOn ==
  ASSUME NEW V, NEW stk \in Seq(Coros), NEW m \in [Coros -> V], StackOK(stk, m), stk # <<>>,
         NEW x \in Coros, Last(stk) = x, NEW v \in RunAt
  PROVE  StackOK(stk, [m EXCEPT ![x] = v])
<1> DEFINE m2 == [m EXCEPT ![x] = v]
<1>1. m2[x] = v /\ \A y \in Coros : y # x => m2[y] = m[y]
  OBVIOUS
<1>2. /\ Len(stk) \in DOMAIN stk /\ stk[Len(stk)] = x
      /\ \A i \in DOMAIN stk : stk[i] \in Coros
  BY TopOf
<1> HIDE DEF m2
<1>3. \A i \in DOMAIN stk : m2[stk[i]] \in RunAt /\ (i # Len(stk) => m2[stk[i]] \in MidAt)
  BY <1>1, <1>2 DEF StackOK
<1>4. \A y \in Coros : m2[y] \in RunAt => \E i \in DOMAIN stk : stk[i] = y
  BY <1>1, <1>2 DEF StackOK
<1>5. StackOK(stk, m2)
  BY <1>3, <1>4 DEF StackOK
<1> QED BY <1>5 DEF m2

\* The innermost coroutine suspends or ends.
LEMMA StackPop ==
  ASSUME NEW V, NEW stk \in Seq(Coros), NEW m \in [Coros -> V], StackOK(stk, m), stk # <<>>,
         NEW x \in Coros, Last(stk) = x, NEW v, v \notin RunAt
  PROVE  /\ StackOK(Front(stk), [m EXCEPT ![x] = v])
         /\ Front(stk) \in Seq(Coros)
<1> DEFINE m2 == [m EXCEPT ![x] = v]
           s2 == Front(stk)
<1>1. m2[x] = v /\ \A y \in Coros : y # x => m2[y] = m[y]
  OBVIOUS
<1>2. /\ Len(stk) \in DOMAIN stk /\ stk[Len(stk)] = x
      /\ \A i \in DOMAIN stk : stk[i] \in Coros
      /\ Len(stk) \in Nat \ {0} /\ DOMAIN stk = 1..Len(stk)
  BY TopOf
<1>3. /\ s2 \in Seq(Coros) /\ Len(s2) = Len(stk) - 1
      /\ \A i \in 1..(Len(stk) - 1) : s2[i] = stk[i]
  BY <1>2 DEF Front
<1> HIDE DEF m2, s2
<1>4. DOMAIN s2 = 1..(Len(stk) - 1)
  BY <1>3
<1>5. \A i \in DOMAIN s2 : /\ i \in DOMAIN stk /\ i # Len(stk) /\ s2[i] = stk[i]
                           /\ stk[i] # x
  BY <1>2, <1>3, <1>4 DEF StackOK
<1>6. \A i \in DOMAIN stk : stk[i] # x => i \in DOMAIN s2 /\ s2[i] = stk[i]
  BY <1>2, <1>3, <1>4
<1>7. \A i, j \in DOMAIN s2 : s2[i] = s2[j] => i = j
  BY <1>5 DEF StackOK
<1>8. \A i \in DOMAIN s2 : m2[s2[i]] \in RunAt /\ (i # Len(s2) => m2[s2[i]] \in MidAt)
  BY <1>1, <1>2, <1>5 DEF StackOK
<1>9. \A y \in Coros : m2[y] \in RunAt => \E i \in DOMAIN s2 : s2[i] = y
  BY <1>1, <1>6 DEF StackOK
<1>10. StackOK(s2, m2)
  BY <1>7, <1>8, <1>9 DEF StackOK
<1> QED BY <1>3, <1>10 DEF m2, s2

\* A coroutine that was not running is resumed by the innermost one, or by step().
LEMMA StackPush ==
  ASSUME NEW V, NEW stk \in Seq(Coros), NEW m \in [Coros -> V], StackOK(stk, m),
         NEW x \in Coros, m[x] \notin RunAt, NEW v \in RunAt,
         stk # <<>> => m[Last(stk)] \in MidAt
  PROVE  /\ StackOK(Append(stk, x), [m EXCEPT ![x] = v])
         /\ Append(stk, x) \in Seq(Coros)
<1> DEFINE m2 == [m EXCEPT ![x] = v]
           s2 == Append(stk, x)
<1>1. m2[x] = v /\ \A y \in Coros : y # x => m2[y] = m[y]
  OBVIOUS
<1>2. /\ \A i \in DOMAIN stk : stk[i] \in Coros
      /\ Len(stk) \in Nat /\ DOMAIN stk = 1..Len(stk)
  OBVIOUS
<1>3. /\ s2 \in Seq(Coros) /\ Len(s2) = Len(stk) + 1
      /\ \A i \in 1..Len(stk) : s2[i] = stk[i]
      /\ s2[Len(stk) + 1] = x
  BY AppendFacts
<1> HIDE DEF m2, s2
<1>4. /\ DOMAIN s2 = DOMAIN stk \cup {Len(stk) + 1}
      /\ \A i \in DOMAIN stk : i # Len(stk) + 1 /\ s2[i] = stk[i]
  <2>1. DOMAIN s2 = 1..(Len(stk) + 1)
    BY <1>3
  <2> QED BY <1>2, <1>3, <2>1
<1>5. \A i \in DOMAIN stk : stk[i] # x
  BY DEF StackOK
<1>6. \A i \in DOMAIN stk : m[stk[i]] \in MidAt
  <2>1. ASSUME NEW i \in DOMAIN stk PROVE m[stk[i]] \in MidAt
    <3>1. stk # <<>>
      BY <1>2, <2>1
    <3>2. m[stk[Len(stk)]] \in MidAt
      BY <3>1, TopOf
    <3> QED BY <2>1, <3>2 DEF StackOK
  <2> QED BY <2>1
<1>7. \A i, j \in DOMAIN s2 : s2[i] = s2[j] => i = j
  BY <1>3, <1>4, <1>5 DEF StackOK
<1>8. \A i \in DOMAIN s2 : m2[s2[i]] \in RunAt /\ (i # Len(s2) => m2[s2[i]] \in MidAt)
  BY <1>1, <1>2, <1>3, <1>4, <1>5, <1>6 DEF StackOK
<1>9. \A y \in Coros : m2[y] \in RunAt => \E i \in DOMAIN s2 : s2[i] = y
  BY <1>1, <1>3, <1>4 DEF StackOK
<1>10. StackOK(s2, m2)
  BY <1>7, <1>8, <1>9 DEF StackOK
<1> QED BY <1>3, <1>10 DEF m2, s2

\* A suspended coroutine stays suspended, elsewhere.
LEMMA StackAway ==
  ASSUME NEW V, NEW stk \in Seq(Coros), NEW m \in [Coros -> V], StackOK(stk, m),
         NEW x \in Coros, m[x] \notin RunAt, NEW v, v \notin RunAt
  PROVE  StackOK(stk, [m EXCEPT ![x] = v])
<1> DEFINE m2 == [m EXCEPT ![x] = v]
<1>1. m2[x] = v /\ \A y \in Coros : y # x => m2[y] = m[y]
  OBVIOUS
<1>2. \A i \in DOMAIN stk : stk[i] \in Coros /\ stk[i] # x
  BY DEF StackOK
<1> HIDE DEF m2
<1>3. StackOK(stk, m2)
  BY <1>1, <1>2 DEF StackOK
<1> QED BY <1>3 DEF m2

\* A coroutine that is not in cancel_fd()'s copy moves.
LEMMA CancelElse ==
  ASSUME NEW V, NEW k \in Seq(Coros), NEW m \in [Coros -> V], CancelOK(k, m),
         NEW x \in Coros, NEW v,
         k = <<>> \/ m[x] \notin {"headerWait", "bodyWait", "sendWait"}
  PROVE  CancelOK(k, [m EXCEPT ![x] = v])
<1> DEFINE m2 == [m EXCEPT ![x] = v]
<1>1. m2[x] = v /\ \A y \in Coros : y # x => m2[y] = m[y]
  OBVIOUS
<1>2. \A i \in DOMAIN k : k[i] \in Coros /\ k[i] # x
  <2>1. CASE k = <<>>
    BY <2>1
  <2>2. CASE m[x] \notin {"headerWait", "bodyWait", "sendWait"}
    BY <2>2 DEF CancelOK
  <2> QED BY <2>1, <2>2
<1> HIDE DEF m2
<1>3. CancelOK(k, m2)
  BY <1>1, <1>2 DEF CancelOK
<1> QED BY <1>3 DEF m2

\* The first of cancel_fd()'s copy is cancelled.
LEMMA CancelPop ==
  ASSUME NEW V, NEW k \in Seq(Coros), NEW m \in [Coros -> V], CancelOK(k, m), k # <<>>,
         NEW v
  PROVE  CancelOK(Tail(k), [m EXCEPT ![Head(k)] = v])
<1>1. Len(k) \in Nat \ {0} /\ DOMAIN k = 1..Len(k) /\ Head(k) = k[1] /\ Head(k) \in Coros
  OBVIOUS
<1>2. PICK h \in Coros : h = Head(k)
  BY <1>1
<1> DEFINE m2 == [m EXCEPT ![h] = v]
           k2 == Tail(k)
<1>3. m2[h] = v /\ \A y \in Coros : y # h => m2[y] = m[y]
  OBVIOUS
<1>4. /\ k2 \in Seq(Coros) /\ Len(k2) = Len(k) - 1
      /\ \A i \in 1..(Len(k) - 1) : k2[i] = k[i + 1]
  BY TailFacts
<1> HIDE DEF m2, k2
<1>5. DOMAIN k2 = 1..(Len(k) - 1)
  BY <1>4
<1>6. \A i \in DOMAIN k2 : /\ i + 1 \in DOMAIN k /\ k2[i] = k[i + 1] /\ i + 1 # 1
                           /\ k[i + 1] \in Coros
  BY <1>1, <1>4, <1>5
<1>7. \A i \in DOMAIN k2 : k2[i] # h
  BY <1>1, <1>2, <1>6 DEF CancelOK
<1>8. \A i, j \in DOMAIN k2 : k2[i] = k2[j] => i = j
  <2>1. ASSUME NEW i \in DOMAIN k2, NEW j \in DOMAIN k2, k2[i] = k2[j] PROVE i = j
    <3>1. i + 1 = j + 1
      BY <1>6, <2>1 DEF CancelOK
    <3> QED BY <1>5, <3>1
  <2> QED BY <2>1
<1>9. CancelOK(k2, m2)
  BY <1>3, <1>6, <1>7, <1>8 DEF CancelOK
<1> QED BY <1>2, <1>9 DEF m2, k2

-----------------------------------------------------------------------------
(* _send_mtx. *)

\* A sender that neither takes nor leaves the mutex nor its queue goes on.
LEMMA MutexSame ==
  ASSUME NEW p \in [Cids -> Pcs], NEW lk, NEW ws, MutexOK(p, lk, ws),
         NEW c \in Cids, NEW x \in Pcs,
         \/ p[c] \in FreePc /\ x \in FreePc
         \/ p[c] \in HoldPc /\ x \in HoldPc
  PROVE  MutexOK([p EXCEPT ![c] = x], lk, ws)
<1> DEFINE p2 == [p EXCEPT ![c] = x]
<1>1. p2[c] = x /\ \A d \in Cids : d # c => p2[d] = p[d]
  OBVIOUS
<1> HIDE DEF p2
<1>2. \A d \in Cids : /\ p2[d] \in HoldPc <=> p[d] \in HoldPc
                      /\ p2[d] = "lockWait" <=> p[d] = "lockWait"
  BY <1>1 DEF FreePc, HoldPc
<1>3. MutexOK(p2, lk, ws)
  BY <1>2 DEF MutexOK
<1> QED BY <1>3 DEF p2

\* LockAwaiter finds the mutex locked.
LEMMA MutexWait ==
  ASSUME NEW p \in [Cids -> Pcs], NEW lk, NEW ws \in Seq(Cids), MutexOK(p, lk, ws),
         NEW c \in Cids, p[c] \in FreePc
  PROVE  MutexOK([p EXCEPT ![c] = "lockWait"], lk, Append(ws, c))
<1> DEFINE p2 == [p EXCEPT ![c] = "lockWait"]
           w2 == Append(ws, c)
<1>1. p2[c] = "lockWait" /\ \A d \in Cids : d # c => p2[d] = p[d]
  OBVIOUS
<1>2. Len(ws) \in Nat /\ DOMAIN ws = 1..Len(ws)
  OBVIOUS
<1>3. /\ w2 \in Seq(Cids) /\ Len(w2) = Len(ws) + 1
      /\ \A i \in 1..Len(ws) : w2[i] = ws[i]
      /\ w2[Len(ws) + 1] = c
  BY AppendFacts
<1> HIDE DEF p2, w2
<1>4. DOMAIN w2 = 1..(Len(ws) + 1)
  BY <1>3
<1>5. /\ DOMAIN w2 = DOMAIN ws \cup {Len(ws) + 1}
      /\ \A i \in DOMAIN ws : i # Len(ws) + 1 /\ w2[i] = ws[i]
  BY <1>2, <1>3, <1>4
<1>6. p[c] # "lockWait" /\ p[c] \notin HoldPc /\ p2[c] \notin HoldPc
  BY <1>1 DEF FreePc, HoldPc
<1>7. \A i \in DOMAIN ws : ws[i] # c
  BY <1>6 DEF MutexOK
<1>8. \A d \in Cids : p2[d] \in HoldPc <=> p[d] \in HoldPc
  BY <1>1, <1>6
<1>9. \A d \in Cids : p2[d] = "lockWait" <=> \E i \in DOMAIN w2 : w2[i] = d
  <2>1. \A d \in Cids : (\E i \in DOMAIN w2 : w2[i] = d) <=>
                          (d = c \/ \E i \in DOMAIN ws : ws[i] = d)
    BY <1>3, <1>5
  <2> QED BY <1>1, <2>1 DEF MutexOK
<1>10. \A i, j \in DOMAIN w2 : w2[i] = w2[j] => i = j
  BY <1>3, <1>5, <1>7 DEF MutexOK
<1>11. MutexOK(p2, lk, w2)
  BY <1>8, <1>9, <1>10 DEF MutexOK
<1> QED BY <1>11 DEF p2, w2

\* LockAwaiter finds it free.
LEMMA MutexTake ==
  ASSUME NEW p \in [Cids -> Pcs], NEW ws, MutexOK(p, FALSE, ws),
         NEW c \in Cids, p[c] \in FreePc
  PROVE  MutexOK([p EXCEPT ![c] = "send"], TRUE, ws)
<1> DEFINE p2 == [p EXCEPT ![c] = "send"]
<1>1. p2[c] = "send" /\ \A d \in Cids : d # c => p2[d] = p[d]
  OBVIOUS
<1> HIDE DEF p2
<1>2. p[c] # "lockWait" /\ p2[c] # "lockWait" /\ p2[c] \in HoldPc
  BY <1>1 DEF FreePc, HoldPc
<1>3. \A d \in Cids : p[d] \notin HoldPc
  BY DEF MutexOK
<1>4. \A d \in Cids : p2[d] \in HoldPc <=> d = c
  BY <1>1, <1>2, <1>3
<1>5. \A d \in Cids : p2[d] = "lockWait" <=> p[d] = "lockWait"
  BY <1>1, <1>2
<1>6. MutexOK(p2, TRUE, ws)
  BY <1>4, <1>5 DEF MutexOK
<1> QED BY <1>6 DEF p2

\* The guard's destructor gives it up.
LEMMA MutexFree ==
  ASSUME NEW p \in [Cids -> Pcs], NEW lk, NEW ws, MutexOK(p, lk, ws),
         NEW c \in Cids, p[c] \in HoldPc, NEW x \in FreePc
  PROVE  MutexOK([p EXCEPT ![c] = x], FALSE, ws)
<1> DEFINE p2 == [p EXCEPT ![c] = x]
<1>1. p2[c] = x /\ \A d \in Cids : d # c => p2[d] = p[d]
  BY DEF FreePc
<1> HIDE DEF p2
<1>2. p[c] # "lockWait" /\ p2[c] # "lockWait" /\ p2[c] \notin HoldPc
  BY <1>1 DEF FreePc, HoldPc
<1>3. \A d \in Cids : p2[d] \notin HoldPc
  BY <1>1, <1>2 DEF MutexOK
<1>4. \A d \in Cids : p2[d] = "lockWait" <=> p[d] = "lockWait"
  BY <1>1, <1>2
<1>5. MutexOK(p2, FALSE, ws)
  BY <1>3, <1>4 DEF MutexOK
<1> QED BY <1>5 DEF p2

\* The one who waited longest has it.
LEMMA MutexPass ==
  ASSUME NEW p \in [Cids -> Pcs], NEW ws \in Seq(Cids), MutexOK(p, FALSE, ws), ws # <<>>
  PROVE  /\ MutexOK([p EXCEPT ![Head(ws)] = "send"], TRUE, Tail(ws))
         /\ Head(ws) \in Cids /\ p[Head(ws)] = "lockWait" /\ Tail(ws) \in Seq(Cids)
<1>1. /\ Len(ws) \in Nat /\ DOMAIN ws = 1..Len(ws) /\ 1 \in DOMAIN ws
      /\ Head(ws) = ws[1] /\ Head(ws) \in Cids
  OBVIOUS
<1>2. PICK h \in Cids : h = Head(ws)
  BY <1>1
<1> DEFINE p2 == [p EXCEPT ![h] = "send"]
           w2 == Tail(ws)
<1>3. p2[h] = "send" /\ \A d \in Cids : d # h => p2[d] = p[d]
  OBVIOUS
<1>4. /\ w2 \in Seq(Cids) /\ Len(w2) = Len(ws) - 1
      /\ \A i \in 1..(Len(ws) - 1) : w2[i] = ws[i + 1]
  BY TailFacts
<1> HIDE DEF p2, w2
<1>5. DOMAIN w2 = 1..(Len(ws) - 1)
  BY <1>4
<1>6. p[h] = "lockWait" /\ p2[h] \in HoldPc /\ p2[h] # "lockWait"
  BY <1>1, <1>2, <1>3 DEF MutexOK, HoldPc
<1>7. \A d \in Cids : p2[d] \in HoldPc <=> d = h
  BY <1>3, <1>6 DEF MutexOK
<1>8. \A i \in DOMAIN w2 : i + 1 \in DOMAIN ws /\ w2[i] = ws[i + 1] /\ i + 1 # 1
  BY <1>1, <1>4, <1>5
<1>9. \A i \in DOMAIN ws : i # 1 => i - 1 \in DOMAIN w2 /\ w2[i - 1] = ws[i]
  BY <1>1, <1>4, <1>5
<1>10. \A i \in DOMAIN w2 : w2[i] # h
  BY <1>1, <1>2, <1>8 DEF MutexOK
<1>11. \A d \in Cids : p2[d] = "lockWait" <=> \E i \in DOMAIN w2 : w2[i] = d
  <2>1. ASSUME NEW d \in Cids, d # h
        PROVE  (\E i \in DOMAIN w2 : w2[i] = d) <=> (\E i \in DOMAIN ws : ws[i] = d)
    BY <1>1, <1>2, <1>8, <1>9, <2>1
  <2> QED BY <1>3, <1>6, <1>10, <2>1 DEF MutexOK
<1>12. \A i, j \in DOMAIN w2 : w2[i] = w2[j] => i = j
  <2>1. ASSUME NEW i \in DOMAIN w2, NEW j \in DOMAIN w2, w2[i] = w2[j] PROVE i = j
    <3>1. i + 1 = j + 1
      BY <1>8, <2>1 DEF MutexOK
    <3> QED BY <1>5, <3>1
  <2> QED BY <2>1
<1>13. MutexOK(p2, TRUE, w2)
  BY <1>7, <1>11, <1>12 DEF MutexOK
<1> QED BY <1>1, <1>2, <1>4, <1>6, <1>13 DEF p2, w2

-----------------------------------------------------------------------------
(* One coroutine moves: the stack and cancel_fd()'s copy. *)

\* How the coroutine x that goes from m[x] to v changes the stack stk to s2.
MovesOn(stk, m, x, v, s2) ==
  \/ stk # <<>> /\ Last(stk) = x /\ v \in RunAt /\ s2 = stk
  \/ stk # <<>> /\ Last(stk) = x /\ v \notin RunAt /\ s2 = Front(stk)
  \/ /\ m[x] \notin RunAt /\ v \in RunAt /\ s2 = Append(stk, x)
     /\ stk # <<>> => m[Last(stk)] \in MidAt
  \/ m[x] \notin RunAt /\ v \notin RunAt /\ s2 = stk

\* The stack stays in order.
LEMMA StackMoves ==
  ASSUME NEW V, NEW stk \in Seq(Coros), NEW m \in [Coros -> V], StackOK(stk, m),
         NEW x \in Coros, NEW v, NEW s2, MovesOn(stk, m, x, v, s2)
  PROVE  StackOK(s2, [m EXCEPT ![x] = v]) /\ s2 \in Seq(Coros)
<1>1. CASE stk # <<>> /\ Last(stk) = x /\ v \in RunAt /\ s2 = stk
  BY <1>1, StackGoOn
<1>2. CASE stk # <<>> /\ Last(stk) = x /\ v \notin RunAt /\ s2 = Front(stk)
  BY <1>2, StackPop
<1>3. CASE /\ m[x] \notin RunAt /\ v \in RunAt /\ s2 = Append(stk, x)
           /\ stk # <<>> => m[Last(stk)] \in MidAt
  BY <1>3, StackPush
<1>4. CASE m[x] \notin RunAt /\ v \notin RunAt /\ s2 = stk
  BY <1>4, StackAway
<1> QED BY <1>1, <1>2, <1>3, <1>4 DEF MovesOn

\* A move that leaves cancel_fd()'s copy alone.
LEMMA CoroMoves ==
  ASSUME Shape, StackInv, CancelInv, NEW x \in Coros, NEW v,
         Where(pc, reader)' = [Where(pc, reader) EXCEPT ![x] = v],
         MovesOn(stack, Where(pc, reader), x, v, stack'),
         UNCHANGED <<app, backend, cancelq>>,
         \/ cancelq = <<>>
         \/ Where(pc, reader)[x] \notin {"headerWait", "bodyWait", "sendWait"}
  PROVE  stack' \in Seq(Coros) /\ StackInv' /\ CancelInv'
<1>1. /\ stack \in Seq(Coros) /\ cancelq \in Seq(Coros)
      /\ pc \in [Cids -> Pcs] /\ reader \in Readers
  BY DEF Shape
<1>2. PICK m \in [Coros -> Pcs \cup Readers] : m = Where(pc, reader)
  BY <1>1, WhereMoves
<1>3. PICK s2 : s2 = stack'
  OBVIOUS
<1>4. StackOK(stack, m) /\ MovesOn(stack, m, x, v, s2) /\ CancelOK(cancelq, m)
  BY <1>2, <1>3 DEF StackInv, CancelInv
<1>5. StackOK(s2, [m EXCEPT ![x] = v]) /\ s2 \in Seq(Coros)
  BY <1>1, <1>4, StackMoves
<1>6. CancelOK(cancelq, [m EXCEPT ![x] = v])
  BY <1>1, <1>2, <1>4, CancelElse
<1>7. Where(pc, reader)' = Where(pc', reader')
  BY DEF Where
<1>8. StackInv'
  BY <1>2, <1>3, <1>5, <1>7 DEF StackInv
<1>9. CancelInv'
  BY <1>2, <1>6, <1>7 DEF CancelInv
<1> QED BY <1>3, <1>5, <1>8, <1>9

\* A coroutine of the stack is not suspended on the descriptor.
LEMMA RunsNotWaits ==
  \A v \in RunAt : v \notin {"headerWait", "bodyWait", "sendWait"}
BY DEF RunAt

\* The sender that runs goes on to x, suspends or ends there.
LEMMA SenderMoves ==
  ASSUME CtlInv, NEW c \in Cids, NEW x \in Pcs, Running(c), pc' = [pc EXCEPT ![c] = x],
         stack' = IF x \in RunAt THEN stack ELSE Return,
         UNCHANGED <<app, backend, cancelq, reader>>
  PROVE  stack' \in Seq(Coros) /\ StackInv' /\ CancelInv' /\ StartInv' /\ pc[c] \in RunAt
<1>1. pc \in [Cids -> Pcs] /\ reader \in Readers /\ c \in Coros /\ stack \in Seq(Coros)
  BY DEF CtlInv, Shape, Coros
<1>2. reader' = reader
  OBVIOUS
<1>3. Where(pc, reader)' = [Where(pc, reader) EXCEPT ![c] = x]
  BY <1>2, WhereSender DEF CtlInv
<1>4. MovesOn(stack, Where(pc, reader), c, x, stack')
  BY DEF MovesOn, Running, Return
<1>5. Where(pc, reader)[c] \in RunAt /\ Where(pc, reader)[c] = pc[c]
  <2>1. PICK m : m = Where(pc, reader)
    OBVIOUS
  <2>2. StackOK(stack, m) /\ stack # <<>> /\ Last(stack) = c
    BY <2>1 DEF CtlInv, StackInv, Running
  <2>3. m[Last(stack)] \in RunAt
    BY <1>1, <2>2, TopOf
  <2> QED BY <1>1, <2>1, <2>2, <2>3, WhereMoves
<1>6. stack' \in Seq(Coros) /\ StackInv' /\ CancelInv'
  BY <1>1, <1>3, <1>4, <1>5, CoroMoves, RunsNotWaits DEF CtlInv
<1>7. StartInv'
  BY DEF CtlInv, StartInv, Running
<1> QED BY <1>5, <1>6, <1>7

\* reader_loop() runs and goes on to x, suspends or ends there.
LEMMA ReaderMoves ==
  ASSUME CtlInv, NEW x \in Readers, Running(READER), reader' = x, pc' = pc,
         stack' = IF x \in RunAt THEN stack ELSE Return,
         UNCHANGED <<app, backend, cancelq>>
  PROVE  stack' \in Seq(Coros) /\ StackInv' /\ CancelInv' /\ StartInv' /\ reader \in RunAt
<1>1. /\ pc \in [Cids -> Pcs] /\ reader \in Readers /\ READER \in Coros
      /\ stack \in Seq(Coros)
  BY DEF CtlInv, Shape, Coros
<1>2. Where(pc, reader)' = Where(pc, x)
  BY DEF Where
<1>3. Where(pc, reader)' = [Where(pc, reader) EXCEPT ![READER] = x]
  BY <1>1, <1>2, WhereMoves
<1>4. MovesOn(stack, Where(pc, reader), READER, x, stack')
  BY DEF MovesOn, Running, Return
<1>5. Where(pc, reader)[READER] \in RunAt /\ Where(pc, reader)[READER] = reader
  <2>1. PICK m : m = Where(pc, reader)
    OBVIOUS
  <2>2. StackOK(stack, m) /\ stack # <<>> /\ Last(stack) = READER
    BY <2>1 DEF CtlInv, StackInv, Running
  <2>3. m[Last(stack)] \in RunAt
    BY <1>1, <2>2, TopOf
  <2> QED BY <1>1, <2>1, <2>2, <2>3, WhereMoves
<1>6. stack' \in Seq(Coros) /\ StackInv' /\ CancelInv'
  BY <1>1, <1>3, <1>4, <1>5, CoroMoves, RunsNotWaits DEF CtlInv
<1>7. StartInv'
  BY DEF CtlInv, StartInv, Running
<1> QED BY <1>5, <1>6, <1>7

-----------------------------------------------------------------------------
(* Each request in one place. *)

\* A request is accepted.
LEMMA OnceIssue ==
  ASSUME NEW k \in [Cids -> Kinds \cup {"none"}], NEW fd \in [Cids -> Nat], NEW pd, NEW fl,
         OnceOK(k, fd, pd, fl), NEW c \in Cids, k[c] = "none", NEW y \in Kinds
  PROVE  OnceOK([k EXCEPT ![c] = y], fd, pd \cup {c}, fl)
<1> DEFINE k2 == [k EXCEPT ![c] = y]
<1>1. k2[c] = y /\ \A d \in Cids : d # c => k2[d] = k[d]
  OBVIOUS
<1>2. y # "none"
  BY ClientAssumption
<1> HIDE DEF k2
<1>3. OnceOK(k2, fd, pd \cup {c}, fl)
  BY <1>1, <1>2 DEF OnceOK
<1> QED BY <1>3 DEF k2

\* The callback of a pending request is invoked.
LEMMA OnceDone ==
  ASSUME NEW k, NEW fd \in [Cids -> Nat], NEW pd, NEW fl,
         OnceOK(k, fd, pd, fl), NEW c \in Cids, c \in pd
  PROVE  /\ OnceOK(k, [fd EXCEPT ![c] = @ + 1], pd \ {c}, fl)
         /\ [fd EXCEPT ![c] = @ + 1] \in [Cids -> Nat]
<1> DEFINE f2 == [fd EXCEPT ![c] = @ + 1]
<1>1. /\ f2 \in [Cids -> Nat] /\ f2[c] = fd[c] + 1
      /\ \A d \in Cids : d # c => f2[d] = fd[d]
  OBVIOUS
<1>2. k[c] # "none" /\ fd[c] = 0 /\ \A i \in DOMAIN fl : fl[i] # c
  BY DEF OnceOK
<1> HIDE DEF f2
<1>3. f2[c] = 1
  BY <1>1, <1>2
<1>4. OnceOK(k, f2, pd \ {c}, fl)
  BY <1>1, <1>2, <1>3 DEF OnceOK
<1> QED BY <1>1, <1>4 DEF f2

\* The callback of the first request of fail_all_pending()'s copy is invoked.
LEMMA OnceFail ==
  ASSUME NEW k, NEW fd \in [Cids -> Nat], NEW pd, NEW fl \in Seq(Cids),
         OnceOK(k, fd, pd, fl), fl # <<>>
  PROVE  /\ OnceOK(k, [fd EXCEPT ![Head(fl)] = @ + 1], pd, Tail(fl))
         /\ [fd EXCEPT ![Head(fl)] = @ + 1] \in [Cids -> Nat]
         /\ Tail(fl) \in Seq(Cids)
<1>1. Len(fl) \in Nat \ {0} /\ DOMAIN fl = 1..Len(fl) /\ Head(fl) = fl[1] /\ Head(fl) \in Cids
  OBVIOUS
<1>2. PICK h \in Cids : h = Head(fl)
  BY <1>1
<1> DEFINE f2 == [fd EXCEPT ![h] = @ + 1]
           l2 == Tail(fl)
<1>3. /\ f2 \in [Cids -> Nat] /\ f2[h] = fd[h] + 1
      /\ \A d \in Cids : d # h => f2[d] = fd[d]
  OBVIOUS
<1>4. /\ l2 \in Seq(Cids) /\ Len(l2) = Len(fl) - 1
      /\ \A i \in 1..(Len(fl) - 1) : l2[i] = fl[i + 1]
  BY TailFacts
<1> HIDE DEF f2, l2
<1>5. DOMAIN l2 = 1..(Len(fl) - 1)
  BY <1>4
<1>6. \A i \in DOMAIN l2 : i + 1 \in DOMAIN fl /\ l2[i] = fl[i + 1] /\ i + 1 # 1
  <2>1. \A i \in DOMAIN l2 : i + 1 \in DOMAIN fl /\ i + 1 # 1
    BY <1>1, <1>5
  <2> QED BY <1>4, <1>5, <2>1
<1>7. \A i \in DOMAIN fl : i # 1 => i - 1 \in DOMAIN l2 /\ l2[i - 1] = fl[i]
  <2>1. \A i \in DOMAIN fl : i # 1 => i - 1 \in 1..(Len(fl) - 1) /\ (i - 1) + 1 = i
    BY <1>1
  <2> QED BY <1>4, <1>5, <2>1
<1>8. k[h] # "none" /\ fd[h] = 0 /\ h \notin pd
  BY <1>1, <1>2 DEF OnceOK
<1>9. f2[h] = 1 /\ \A i \in DOMAIN l2 : l2[i] # h
  <2>1. \A i \in DOMAIN l2 : l2[i] # h
    BY <1>1, <1>2, <1>6 DEF OnceOK
  <2> QED BY <1>3, <1>8, <2>1
<1>10. \A i, j \in DOMAIN l2 : l2[i] = l2[j] => i = j
  <2>1. ASSUME NEW i \in DOMAIN l2, NEW j \in DOMAIN l2, l2[i] = l2[j] PROVE i = j
    <3>1. i + 1 = j + 1
      BY <1>6, <2>1 DEF OnceOK
    <3> QED BY <1>5, <3>1
  <2> QED BY <2>1
<1>11. \A d \in Cids : d # h => ((\E i \in DOMAIN l2 : l2[i] = d)
                                   <=> (\E i \in DOMAIN fl : fl[i] = d))
  BY <1>1, <1>2, <1>6, <1>7
<1>12. ASSUME NEW d \in Cids
       PROVE  IF k[d] = "none"
              THEN f2[d] = 0 /\ d \notin pd /\ \A i \in DOMAIN l2 : l2[i] # d
              ELSE \/ f2[d] = 1 /\ d \notin pd /\ \A i \in DOMAIN l2 : l2[i] # d
                   \/ f2[d] = 0 /\ d \in pd /\ \A i \in DOMAIN l2 : l2[i] # d
                   \/ f2[d] = 0 /\ d \notin pd /\ \E i \in DOMAIN l2 : l2[i] = d
  <2>1. CASE d = h
    BY <1>8, <1>9, <2>1
  <2>2. CASE d # h
    BY <1>3, <1>11, <2>2 DEF OnceOK
  <2> QED BY <2>1, <2>2
<1>13. OnceOK(k, f2, pd, l2)
  BY <1>10, <1>12 DEF OnceOK
<1> QED BY <1>2, <1>3, <1>4, <1>13 DEF f2, l2

\* A copy of a finite set has each of its members, once.
LEMMA CopyOf ==
  ASSUME NEW S, IsFiniteSet(S), NEW s \in SetToSeqs(S)
  PROVE  /\ s \in Seq(S)
         /\ \A i, j \in DOMAIN s : s[i] = s[j] => i = j
         /\ \A x \in S : \E i \in DOMAIN s : s[i] = x
         /\ \A i \in DOMAIN s : s[i] \in S
<1> DEFINE n == Cardinality(S)
<1>1. n \in Nat
  BY FS_CardinalityType
<1>2. s \in [1..n -> S] /\ \A i, j \in 1..n : i # j => s[i] # s[j]
  BY DEF SetToSeqs
<1>3. IsFiniteSet(1..n) /\ Cardinality(1..n) = n
  <2>1. 1 \in Int /\ n \in Int
    BY <1>1
  <2> QED BY <1>1, <2>1, FS_Interval
<1> HIDE DEF n
<1>4. s \in Injection(1..n, S)
  BY <1>2 DEF Injection, IsInjective
<1>5. s \in Surjection(1..n, S)
  BY <1>3, <1>4, FS_Injection DEF n
<1>6. \A x \in S : \E i \in 1..n : s[i] = x
  BY <1>5 DEF Surjection
<1>7. s \in Seq(S)
  BY <1>1, <1>2
<1> QED BY <1>2, <1>6, <1>7

\* Requests are finitely many.
LEMMA CidsFinite ==
  ASSUME NEW S \in SUBSET Cids PROVE IsFiniteSet(S)
<1>1. MaxReqs \in Nat /\ 1 \in Int /\ MaxReqs \in Int
  BY ClientAssumption
<1>2. IsFiniteSet(Cids)
  BY <1>1, FS_Interval DEF Cids
<1> QED BY <1>2, FS_Subset

\* fail_all_pending() moves everything that is pending to its copy.
LEMMA OnceClear ==
  ASSUME NEW k, NEW fd, NEW pd \in SUBSET Cids, NEW fl,
         OnceOK(k, fd, pd, fl), fl = <<>>, NEW f2 \in SetToSeqs(pd)
  PROVE  OnceOK(k, fd, {}, f2) /\ f2 \in Seq(Cids)
<1>1. /\ f2 \in Seq(pd)
      /\ \A i, j \in DOMAIN f2 : f2[i] = f2[j] => i = j
      /\ \A x \in pd : \E i \in DOMAIN f2 : f2[i] = x
      /\ \A i \in DOMAIN f2 : f2[i] \in pd
  BY CidsFinite, CopyOf
<1>2. f2 \in Seq(Cids)
  BY <1>1
<1>3. \A i \in DOMAIN fl : FALSE
  OBVIOUS
<1>4. OnceOK(k, fd, {}, f2)
  BY <1>1, <1>3 DEF OnceOK
<1> QED BY <1>2, <1>4

-----------------------------------------------------------------------------
(* What most steps leave alone. *)

\* No callback is invoked and no request accepted.
LEMMA OnceSame ==
  ASSUME OnceInv, UNCHANGED <<kind, fired, pending, failing>>,
         reader' \notin {"fail", "failCallback"} => failing = <<>>
  PROVE  OnceInv'
BY DEF OnceInv

\* A sender moves without sending.
LEMMA LeftMoves ==
  ASSUME Shape, LeftInv, NEW c \in Cids, NEW x \in Pcs \ {"none"}, pc[c] # "none",
         pc' = [pc EXCEPT ![c] = x], UNCHANGED <<kind, left>>,
         x \in MorePc => left[c] > 0, x \in FreshPc => pc[c] \in FreshPc
  PROVE  LeftInv'
<1>1. pc'[c] = x /\ \A d \in Cids : d # c => pc'[d] = pc[d]
  BY DEF Shape
<1> QED BY <1>1 DEF LeftInv

\* No response arrives, is read or loses its request.
LEMMA ResponseSame ==
  ASSUME Shape, ResponseInv, UNCHANGED <<inbox, owes, data, cur>>,
         \A d \in Cids : left[d] = 0 => left'[d] = 0,
         \A d \in Cids : kind[d] = "read" => kind'[d] = "read",
         reader' \in {"body", "bodyWait"} =>
           reader \in {"body", "bodyWait"} /\ (cur \in pending => cur \in pending')
  PROVE  ResponseInv'
<1>1. /\ \A i \in DOMAIN inbox : inbox[i].cid # Unknown => inbox[i].cid \in Cids
      /\ owes # 0 => owes \in Cids
      /\ cur # 0 => cur \in Cids
  <2>1. \A i \in DOMAIN inbox : inbox[i] \in RespPart
    BY DEF Shape
  <2> QED BY <2>1 DEF Shape, RespPart
<1>2. \A i \in DOMAIN inbox' : inbox'[i].cid # Unknown => left'[inbox'[i].cid] = 0
  BY <1>1 DEF ResponseInv
<1>3. owes' # 0 => left'[owes'] = 0
  BY <1>1 DEF ResponseInv
<1>4. \A c \in Cids : data'[c] => kind'[c] = "read"
  BY DEF ResponseInv
<1>5. reader' \in {"body", "bodyWait"} =>
        cur' # 0 /\ cur' \in pending' /\ left'[cur'] = 0 /\ data'[cur']
  BY <1>1 DEF ResponseInv
<1> QED BY <1>2, <1>3, <1>4, <1>5 DEF ResponseInv

\* A sender moves and the requests stay where they are.
LEMMA SenderStep ==
  ASSUME CtlInv, pc' \in [Cids -> Pcs], stack' \in Seq(Coros), StackInv', CancelInv',
         StartInv', MutexInv', locked' \in BOOLEAN, waiters' \in Seq(Cids),
         LeftInv', left' \in [Cids -> 0..ReqLen], wire' \in Seq(Unit),
         \A d \in Cids : left[d] = 0 => left'[d] = 0,
         UNCHANGED <<backend, app, kind, pending, reader, cur, failing, cancelq, conn,
                     inbox, owes, data, fired>>
  PROVE  CtlInv'
<1>1. Shape'
  BY DEF CtlInv, Shape
<1>2. OnceInv'
  BY DEF CtlInv, OnceInv
<1>3. ResponseInv'
  BY ResponseSame DEF CtlInv
<1> QED BY <1>1, <1>2, <1>3 DEF CtlInv

\* Some units of a request are sent.
LEMMA TakeLeft ==
  ASSUME CtlInv, NEW c \in Cids, pc[c] \in {"send", "sendWait"}, NEW more, NEW done,
         \/ more = "send" /\ done = "unlock"
         \/ more = "cqe" /\ done = "cqe",
         TakeUnits(c, more, done), kind' = kind
  PROVE  /\ \E x \in {more, done} : pc' = [pc EXCEPT ![c] = x]
         /\ LeftInv' /\ left' \in [Cids -> 0..ReqLen] /\ wire' \in Seq(Unit)
         /\ \A d \in Cids : left[d] = 0 => left'[d] = 0
<1>1. ReqLen \in Nat \ {0}
  BY ClientAssumption
<1>2. pc \in [Cids -> Pcs] /\ left \in [Cids -> 0..ReqLen] /\ wire \in Seq(Unit)
  BY DEF CtlInv, Shape
<1>3. PICK n \in 1..left[c] :
        /\ wire' = wire \o [j \in 1..n |-> [cid |-> c, at |-> ReqLen - left[c] + j]]
        /\ left' = [left EXCEPT ![c] = @ - n]
        /\ pc' = [pc EXCEPT ![c] = IF n < left[c] THEN more ELSE done]
  BY DEF TakeUnits
<1>4. left[c] \in 0..ReqLen /\ n \in Nat \ {0} /\ n <= left[c] /\ left[c] > 0
  BY <1>1, <1>2
<1>5. PICK e \in 0..ReqLen : e = left[c] - n
  BY <1>1, <1>4
<1>6. /\ left' \in [Cids -> 0..ReqLen] /\ left'[c] = e
      /\ \A d \in Cids : d # c => left'[d] = left[d]
  BY <1>2, <1>3, <1>5
<1>7. wire' \in Seq(Unit)
  <2> DEFINE u == [j \in 1..n |-> [cid |-> c, at |-> ReqLen - left[c] + j]]
  <2>1. \A j \in 1..n : ReqLen - left[c] + j \in 1..ReqLen
    BY <1>1, <1>4
  <2>2. \A j \in 1..n : [cid |-> c, at |-> ReqLen - left[c] + j] \in Unit
    BY <2>1 DEF Unit
  <2>3. u \in [1..n -> Unit]
    BY <2>2
  <2>4. u \in Seq(Unit)
    BY <1>4, <2>3
  <2> HIDE DEF u
  <2>5. wire \o u \in Seq(Unit)
    BY <1>2, <2>4, ConcatProperties
  <2> QED BY <1>3, <2>5 DEF u
<1>8. PICK x \in {more, done} :
        pc' = [pc EXCEPT ![c] = x] /\ x = (IF n < left[c] THEN more ELSE done)
  BY <1>3
<1>9. pc'[c] = x /\ \A d \in Cids : d # c => pc'[d] = pc[d]
  BY <1>2, <1>8
<1>10. x \notin FreshPc /\ x # "none" /\ (x \in MorePc => e > 0)
  BY <1>4, <1>5, <1>8 DEF FreshPc, MorePc
<1>11. LeftInv'
  BY <1>6, <1>9, <1>10 DEF CtlInv, LeftInv
<1>12. \A d \in Cids : left[d] = 0 => left'[d] = 0
  BY <1>4, <1>6
<1> QED BY <1>6, <1>7, <1>8, <1>11, <1>12

\* A suspended sender stays suspended, elsewhere; there is nothing to cancel.
LEMMA SenderAway ==
  ASSUME CtlInv, NEW c \in Cids, NEW x \in Pcs, pc' = [pc EXCEPT ![c] = x],
         pc[c] \notin RunAt, x \notin RunAt, cancelq = <<>>,
         UNCHANGED <<app, backend, cancelq, reader, stack>>
  PROVE  stack' \in Seq(Coros) /\ StackInv' /\ CancelInv' /\ StartInv'
<1>1. pc \in [Cids -> Pcs] /\ reader \in Readers /\ c \in Coros
  BY DEF CtlInv, Shape, Coros
<1>2. Where(pc, reader)' = [Where(pc, reader) EXCEPT ![c] = x]
  BY WhereSender DEF CtlInv
<1>3. Where(pc, reader)[c] = pc[c]
  BY <1>1, WhereMoves
<1>4. MovesOn(stack, Where(pc, reader), c, x, stack')
  BY <1>3 DEF MovesOn
<1>5. stack' \in Seq(Coros) /\ StackInv' /\ CancelInv'
  BY <1>1, <1>2, <1>4, CoroMoves DEF CtlInv
<1>6. StartInv'
  BY DEF CtlInv, StartInv
<1> QED BY <1>5, <1>6

\* A sender is resumed by step(), or started by a callback or the application.
LEMMA SenderResumes ==
  ASSUME CtlInv, NEW c \in Cids, NEW x \in Pcs, pc' = [pc EXCEPT ![c] = x],
         pc[c] \notin RunAt, x \in RunAt, stack' = Enter(c),
         (stack = <<>> /\ app \in {"idle", "error", "wait"}) \/ InCallback,
         cancelq = <<>> \/ pc[c] # "sendWait",
         UNCHANGED <<app, backend, cancelq, reader>>
  PROVE  stack' \in Seq(Coros) /\ StackInv' /\ CancelInv' /\ StartInv'
<1>1. pc \in [Cids -> Pcs] /\ reader \in Readers /\ c \in Coros
  BY DEF CtlInv, Shape, Coros
<1>2. Where(pc, reader)' = [Where(pc, reader) EXCEPT ![c] = x]
  BY WhereSender DEF CtlInv
<1>3. /\ Where(pc, reader)[c] = pc[c] /\ Where(pc, reader)[READER] = reader
      /\ \A d \in Cids : Where(pc, reader)[d] = pc[d]
  BY <1>1, WhereMoves
<1>4. stack # <<>> => Where(pc, reader)[Last(stack)] \in MidAt
  BY <1>3 DEF InCallback, MidAt
<1>5. MovesOn(stack, Where(pc, reader), c, x, stack')
  BY <1>3, <1>4 DEF MovesOn, Enter
<1>6. cancelq = <<>> \/ Where(pc, reader)[c] \notin {"headerWait", "bodyWait", "sendWait"}
  BY <1>1, <1>3 DEF Pcs
<1>7. stack' \in Seq(Coros) /\ StackInv' /\ CancelInv'
  BY <1>1, <1>2, <1>5, <1>6, CoroMoves DEF CtlInv
<1>8. StartInv'
  BY DEF CtlInv, StartInv, InCallback
<1> QED BY <1>7, <1>8

\* Holding the mutex, a sender goes on.
LEMMA MutexHeld ==
  ASSUME CtlInv, NEW c \in Cids, NEW x \in Pcs, pc' = [pc EXCEPT ![c] = x],
         \/ pc[c] \in HoldPc /\ x \in HoldPc
         \/ pc[c] \in FreePc /\ x \in FreePc,
         UNCHANGED <<locked, waiters>>
  PROVE  /\ MutexInv' /\ locked' \in BOOLEAN /\ waiters' \in Seq(Cids)
         /\ pc' \in [Cids -> Pcs]
<1>1. pc \in [Cids -> Pcs] /\ MutexOK(pc, locked, waiters)
  BY DEF CtlInv, Shape, MutexInv
<1>2. MutexOK([pc EXCEPT ![c] = x], locked, waiters)
  BY <1>1, MutexSame
<1>3. MutexInv'
  BY <1>2 DEF MutexInv
<1>4. pc' \in [Cids -> Pcs]
  BY <1>1
<1> QED BY <1>3, <1>4 DEF CtlInv, Shape

-----------------------------------------------------------------------------
(* CtlInv: send_request(). *)

\* The parts of the state the sender's steps are about.
LEMMA CtlParts ==
  ASSUME CtlInv
  PROVE  /\ pc \in [Cids -> Pcs] /\ stack \in Seq(Coros) /\ waiters \in Seq(Cids)
         /\ locked \in BOOLEAN /\ left \in [Cids -> 0..ReqLen] /\ wire \in Seq(Unit)
         /\ reader \in Readers /\ MutexOK(pc, locked, waiters)
         /\ \A c \in Cids : /\ pc[c] \in MorePc => left[c] > 0
                            /\ kind[c] = "none" <=> pc[c] = "none"
BY DEF CtlInv, Shape, MutexInv, LeftInv

\* The sets of places, spelled out.
LEMMA Places ==
  /\ {"lock", "send", "failed", "callback", "unlock", "end"} \subseteq RunAt
  /\ {"lockWait", "sendWait", "cqe", "cqeError", "finished", "none"} \cap RunAt = {}
  /\ {"send", "sendWait", "cqe", "cqeError", "failed", "callback", "unlock"} = HoldPc
  /\ {"none", "lock", "end", "finished"} \subseteq FreePc
  /\ HoldPc \subseteq Pcs \ {"none"} /\ FreePc \subseteq Pcs /\ HoldPc \cap FreshPc = {}
BY DEF RunAt, HoldPc, FreePc, Pcs, FreshPc

\* LockAwaiter.
LEMMA LockCtl ==
  ASSUME CtlInv, NEW c \in Cids, Lock(c) PROVE CtlInv'
<1>1. Running(c) /\ pc[c] = "lock" /\ left[c] > 0
  BY CtlParts DEF Lock, MorePc
<1>2. /\ UNCHANGED <<backend, app, kind, pending, reader, cur, failing, cancelq, conn,
                     inbox, owes, data, fired>>
      /\ UNCHANGED <<left, wire>>
  BY DEF Lock, reqVars, wireVars, readVars, netVars
<1>3. CASE locked
  <2>1. /\ pc' = [pc EXCEPT ![c] = "lockWait"] /\ waiters' = Append(waiters, c)
        /\ stack' = Return /\ locked' = locked
    BY <1>3 DEF Lock, Busy
  <2>2. MutexOK([pc EXCEPT ![c] = "lockWait"], locked, Append(waiters, c))
    BY <1>1, CtlParts, MutexWait, Places
  <2>3. waiters' \in Seq(Cids)
    BY <2>1, CtlParts, AppendFacts
  <2>4. MutexInv'
    BY <2>1, <2>2 DEF MutexInv
  <2>5. "lockWait" \in Pcs \ {"none"} /\ "lockWait" \notin RunAt /\ "lock" \in FreshPc
    BY Places DEF Pcs, FreshPc
  <2>6. stack' \in Seq(Coros) /\ StackInv' /\ CancelInv' /\ StartInv'
    BY <1>1, <1>2, <2>1, <2>5, SenderMoves
  <2>7. LeftInv'
    BY <1>1, <1>2, <2>1, <2>5, LeftMoves DEF CtlInv
  <2>8. pc' \in [Cids -> Pcs]
    BY <2>1, <2>5, CtlParts
  <2> QED BY <1>2, <2>1, <2>3, <2>4, <2>6, <2>7, <2>8, CtlParts, SenderStep
<1>4. CASE ~locked
  <2>1. pc' = [pc EXCEPT ![c] = "send"] /\ waiters' = waiters /\ stack' = stack /\ locked'
    BY <1>4 DEF Lock, Busy
  <2>2. MutexOK(pc, FALSE, waiters) /\ locked' = TRUE
    BY <1>4, CtlParts DEF MutexOK, Lock, Busy
  <2>3. MutexOK([pc EXCEPT ![c] = "send"], TRUE, waiters)
    BY <1>1, <2>2, CtlParts, MutexTake, Places
  <2>4. MutexInv'
    BY <2>1, <2>2, <2>3 DEF MutexInv
  <2>5. "send" \in Pcs \ {"none"} /\ "send" \in RunAt /\ "send" \notin FreshPc
    BY Places DEF Pcs, FreshPc
  <2>6. stack' \in Seq(Coros) /\ StackInv' /\ CancelInv' /\ StartInv'
    BY <1>1, <1>2, <2>1, <2>5, SenderMoves
  <2>7. LeftInv'
    BY <1>1, <1>2, <2>1, <2>5, LeftMoves DEF CtlInv
  <2>8. pc' \in [Cids -> Pcs]
    BY <2>1, <2>5, CtlParts
  <2> QED BY <1>2, <2>1, <2>2, <2>4, <2>6, <2>7, <2>8, CtlParts, SenderStep
<1> QED BY <1>3, <1>4

\* The place a sender comes to without sending: it goes on to x, where it holds the mutex
\* as before, and has something left if the place says so.
LEMMA HolderStep ==
  ASSUME CtlInv, NEW c \in Cids, NEW x \in HoldPc, pc[c] \in HoldPc,
         pc' = [pc EXCEPT ![c] = x], x \in MorePc => left[c] > 0,
         stack' \in Seq(Coros), StackInv', CancelInv', StartInv',
         UNCHANGED <<backend, app, kind, pending, reader, cur, failing, cancelq, conn,
                     inbox, owes, data, fired>>,
         UNCHANGED <<locked, waiters, left, wire>>
  PROVE  CtlInv'
<1>1. x \in Pcs \ {"none"} /\ x \notin FreshPc /\ pc[c] # "none"
  BY Places
<1>2. /\ MutexInv' /\ locked' \in BOOLEAN /\ waiters' \in Seq(Cids)
      /\ pc' \in [Cids -> Pcs]
  BY <1>1, MutexHeld
<1>3. LeftInv'
  BY <1>1, LeftMoves DEF CtlInv
<1> QED BY <1>2, <1>3, CtlParts, SenderStep

\* The same when it has sent some units.
LEMMA TakerStep ==
  ASSUME CtlInv, NEW c \in Cids, pc[c] \in {"send", "sendWait"}, NEW x \in HoldPc,
         pc' = [pc EXCEPT ![c] = x], LeftInv', left' \in [Cids -> 0..ReqLen],
         wire' \in Seq(Unit), \A d \in Cids : left[d] = 0 => left'[d] = 0,
         stack' \in Seq(Coros), StackInv', CancelInv', StartInv',
         UNCHANGED <<backend, app, kind, pending, reader, cur, failing, cancelq, conn,
                     inbox, owes, data, fired>>,
         UNCHANGED <<locked, waiters>>
  PROVE  CtlInv'
<1>1. x \in Pcs /\ pc[c] \in HoldPc
  BY Places
<1>2. /\ MutexInv' /\ locked' \in BOOLEAN /\ waiters' \in Seq(Cids)
      /\ pc' \in [Cids -> Pcs]
  BY <1>1, MutexHeld
<1> QED BY <1>2, SenderStep

\* send_all() sends at once, waits or fails.
LEMMA SendCtl ==
  ASSUME CtlInv, NEW c \in Cids, Send(c) PROVE CtlInv'
<1>1. Running(c) /\ pc[c] = "send" /\ left[c] > 0 /\ pc[c] \in HoldPc
  BY CtlParts, Places DEF Send, MorePc
<1>2. /\ UNCHANGED <<backend, app, kind, pending, reader, cur, failing, cancelq, conn,
                     inbox, owes, data, fired>>
      /\ UNCHANGED <<locked, waiters>>
  BY DEF Send, reqVars, wireVars, readVars, netVars, mtxVars
<1>3. {"send", "unlock", "failed", "sendWait"} \subseteq HoldPc /\ HoldPc \subseteq Pcs
  BY Places
<1>4. CASE TakeUnits(c, "send", "unlock") /\ stack' = stack
  <2>1. /\ \E x \in {"send", "unlock"} : pc' = [pc EXCEPT ![c] = x]
        /\ LeftInv' /\ left' \in [Cids -> 0..ReqLen] /\ wire' \in Seq(Unit)
        /\ \A d \in Cids : left[d] = 0 => left'[d] = 0
    BY <1>1, <1>2, <1>4, TakeLeft
  <2>2. PICK x \in {"send", "unlock"} : pc' = [pc EXCEPT ![c] = x]
    BY <2>1
  <2>3. x \in HoldPc /\ x \in Pcs /\ x \in RunAt
    BY <1>3, Places
  <2>4. stack' \in Seq(Coros) /\ StackInv' /\ CancelInv' /\ StartInv'
    BY <1>1, <1>2, <1>4, <2>2, <2>3, SenderMoves
  <2> QED BY <1>1, <1>2, <2>1, <2>2, <2>3, <2>4, TakerStep
<1>5. CASE SendFails(c, "failed") /\ stack' = stack
  <2>1. pc' = [pc EXCEPT ![c] = "failed"] /\ UNCHANGED <<left, wire>> /\ "failed" \in RunAt
    BY <1>5, Places DEF SendFails
  <2>2. stack' \in Seq(Coros) /\ StackInv' /\ CancelInv' /\ StartInv'
    BY <1>1, <1>2, <1>3, <1>5, <2>1, SenderMoves
  <2> QED BY <1>1, <1>2, <1>3, <2>1, <2>2, HolderStep
<1>6. CASE /\ pc' = [pc EXCEPT ![c] = "sendWait"] /\ stack' = Return
           /\ UNCHANGED <<left, wire>>
  <2>1. "sendWait" \notin RunAt
    BY Places
  <2>2. stack' \in Seq(Coros) /\ StackInv' /\ CancelInv' /\ StartInv'
    BY <1>1, <1>2, <1>3, <1>6, <2>1, SenderMoves
  <2> QED BY <1>1, <1>2, <1>3, <1>6, <2>2, HolderStep
<1> QED BY <1>4, <1>5, <1>6 DEF Send, wireVars

\* The kernel sends; there is nothing to cancel with io_uring.
LEMMA KernelSendCtl ==
  ASSUME CtlInv, NEW c \in Cids, KernelSend(c) PROVE CtlInv'
<1>1. pc[c] = "sendWait" /\ left[c] > 0 /\ pc[c] \in HoldPc /\ pc[c] \notin RunAt
  BY CtlParts, Places DEF KernelSend, MorePc
<1>2. /\ UNCHANGED <<backend, app, kind, pending, reader, cur, failing, cancelq, conn,
                     inbox, owes, data, fired>>
      /\ UNCHANGED <<locked, waiters, stack>>
  BY DEF KernelSend, reqVars, wireVars, readVars, netVars, mtxVars
<1>3. cancelq = <<>>
  BY DEF CtlInv, CancelInv, KernelSend
<1>4. {"cqe", "cqeError"} \subseteq HoldPc /\ HoldPc \subseteq Pcs
  BY Places
<1>5. CASE TakeUnits(c, "cqe", "cqe")
  <2>1. /\ \E x \in {"cqe", "cqe"} : pc' = [pc EXCEPT ![c] = x]
        /\ LeftInv' /\ left' \in [Cids -> 0..ReqLen] /\ wire' \in Seq(Unit)
        /\ \A d \in Cids : left[d] = 0 => left'[d] = 0
    BY <1>1, <1>2, <1>5, TakeLeft
  <2>2. pc' = [pc EXCEPT ![c] = "cqe"] /\ "cqe" \notin RunAt /\ "cqe" \in Pcs
    BY <1>4, <2>1, Places
  <2>3. stack' \in Seq(Coros) /\ StackInv' /\ CancelInv' /\ StartInv'
    BY <1>1, <1>2, <1>3, <2>2, SenderAway
  <2> QED BY <1>1, <1>2, <1>4, <2>1, <2>2, <2>3, TakerStep
<1>6. CASE SendFails(c, "cqeError")
  <2>1. /\ pc' = [pc EXCEPT ![c] = "cqeError"] /\ UNCHANGED <<left, wire>>
        /\ "cqeError" \notin RunAt /\ "cqeError" \in Pcs
    BY <1>4, <1>6, Places DEF SendFails
  <2>2. stack' \in Seq(Coros) /\ StackInv' /\ CancelInv' /\ StartInv'
    BY <1>1, <1>2, <1>3, <2>1, SenderAway
  <2> QED BY <1>1, <1>2, <1>4, <2>1, <2>2, HolderStep
<1> QED BY <1>5, <1>6 DEF KernelSend

\* step() resumes a sender.
LEMMA SendEventCtl ==
  ASSUME CtlInv, NEW c \in Cids, SendEvent(c) PROVE CtlInv'
<1>1. /\ pc[c] \in {"sendWait", "cqe", "cqeError"} /\ pc[c] \in HoldPc /\ pc[c] \notin RunAt
      /\ app = "wait" /\ stack = <<>> /\ stack' = Enter(c)
  BY Places DEF SendEvent, InStep
<1>2. /\ UNCHANGED <<backend, app, kind, pending, reader, cur, failing, cancelq, conn,
                     inbox, owes, data, fired>>
      /\ UNCHANGED <<locked, waiters>>
  BY DEF SendEvent, reqVars, wireVars, readVars, netVars, mtxVars
<1>3. cancelq = <<>>
  BY <1>1 DEF CtlInv, CancelInv
<1>4. {"send", "unlock", "failed"} \subseteq HoldPc \cap RunAt /\ HoldPc \subseteq Pcs
  BY Places
<1>5. ASSUME NEW x \in {"send", "unlock", "failed"}, pc' = [pc EXCEPT ![c] = x]
      PROVE  /\ stack' \in Seq(Coros) /\ StackInv' /\ CancelInv' /\ StartInv'
             /\ x \in HoldPc
  <2>1. x \in Pcs /\ x \in RunAt /\ x \in HoldPc
    BY <1>4, <1>5
  <2> QED BY <1>1, <1>2, <1>3, <1>5, <2>1, SenderResumes
<1>6. CASE pc[c] = "sendWait" /\ TakeUnits(c, "send", "unlock")
  <2>1. /\ \E x \in {"send", "unlock"} : pc' = [pc EXCEPT ![c] = x]
        /\ LeftInv' /\ left' \in [Cids -> 0..ReqLen] /\ wire' \in Seq(Unit)
        /\ \A d \in Cids : left[d] = 0 => left'[d] = 0
    BY <1>2, <1>6, TakeLeft
  <2>2. PICK x \in {"send", "unlock"} : pc' = [pc EXCEPT ![c] = x]
    BY <2>1
  <2> QED BY <1>2, <1>5, <1>6, <2>1, <2>2, TakerStep
<1>7. CASE pc[c] = "sendWait" /\ SendFails(c, "failed")
  <2>1. /\ pc' = [pc EXCEPT ![c] = "failed"] /\ UNCHANGED <<left, wire>>
        /\ left[c] > 0
    BY <1>7, CtlParts DEF SendFails, MorePc
  <2> QED BY <1>1, <1>2, <1>5, <2>1, HolderStep
<1>8. CASE /\ pc[c] \in {"cqe", "cqeError"}
           /\ pc' = [pc EXCEPT ![c] = IF pc[c] = "cqeError" THEN "failed"
                                      ELSE IF left[c] = 0 THEN "unlock" ELSE "send"]
           /\ UNCHANGED <<left, wire>>
  <2>1. PICK x \in {"send", "unlock", "failed"} :
          x = (IF pc[c] = "cqeError" THEN "failed"
               ELSE IF left[c] = 0 THEN "unlock" ELSE "send")
    OBVIOUS
  <2>2. pc' = [pc EXCEPT ![c] = x]
    BY <1>8, <2>1
  <2>3. x \in MorePc => left[c] > 0
    <3>1. left[c] \in Nat /\ (pc[c] = "cqeError" => left[c] > 0)
      BY CtlParts, ClientAssumption DEF MorePc
    <3> QED BY <2>1, <3>1 DEF MorePc
  <2> QED BY <1>1, <1>2, <1>5, <1>8, <2>2, <2>3, HolderStep
<1> QED BY <1>6, <1>7, <1>8 DEF SendEvent, wireVars

\* The catch block: a request that failed is not one whose response is being read.
LEMMA SendCatchCtl ==
  ASSUME CtlInv, NEW c \in Cids, SendCatch(c) PROVE CtlInv'
<1>1. Running(c) /\ pc[c] = "failed" /\ left[c] > 0 /\ pc[c] \in HoldPc /\ pc[c] # "none"
  BY CtlParts, Places DEF SendCatch, MorePc
<1>2. /\ UNCHANGED <<backend, app, kind, reader, cur, failing, cancelq, conn, inbox, owes,
                     data>>
      /\ UNCHANGED <<locked, waiters, left, wire, stack>>
  BY DEF SendCatch, readVars, wireVars, netVars, mtxVars
<1>3. PICK x \in {"callback", "unlock"} : pc' = [pc EXCEPT ![c] = x]
  BY DEF SendCatch
<1>4. x \in HoldPc /\ x \in Pcs \ {"none"} /\ x \in RunAt /\ x \notin FreshPc
  BY Places
<1>5. stack' \in Seq(Coros) /\ StackInv' /\ CancelInv' /\ StartInv'
  BY <1>1, <1>2, <1>3, <1>4, SenderMoves
<1>6. /\ MutexInv' /\ locked' \in BOOLEAN /\ waiters' \in Seq(Cids)
      /\ pc' \in [Cids -> Pcs]
  BY <1>1, <1>2, <1>3, <1>4, MutexHeld
<1>7. LeftInv'
  BY <1>1, <1>2, <1>3, <1>4, LeftMoves DEF CtlInv
<1>8. pending' \subseteq Cids /\ (pending' = pending \/ pending' = pending \ {c})
  BY DEF SendCatch, CtlInv, Shape
<1>9. Shape'
  BY <1>2, <1>5, <1>6, <1>8 DEF CtlInv, Shape
<1>10. OnceInv'
  <2>1. fired \in [Cids -> Nat] /\ OnceOK(kind, fired, pending, failing)
    BY DEF CtlInv, OnceInv
  <2>2. CASE c \in pending
    <3>1. pending' = pending \ {c} /\ fired' = [fired EXCEPT ![c] = @ + 1]
      BY <2>2 DEF SendCatch, StillPending, Fire
    <3>2. /\ OnceOK(kind, [fired EXCEPT ![c] = @ + 1], pending \ {c}, failing)
          /\ [fired EXCEPT ![c] = @ + 1] \in [Cids -> Nat]
      BY <2>1, <2>2, OnceDone
    <3>3. fired' \in [Cids -> Nat] /\ OnceOK(kind', fired', pending', failing')
      BY <1>2, <3>1, <3>2
    <3> QED BY <1>2, <3>3 DEF CtlInv, OnceInv
  <2>3. CASE c \notin pending
    BY <1>2, <2>3, OnceSame DEF SendCatch, StillPending, CtlInv, OnceInv
  <2> QED BY <2>2, <2>3
<1>11. ResponseInv'
  <2>1. reader \in {"body", "bodyWait"} => cur # c
    BY <1>1 DEF CtlInv, ResponseInv
  <2> QED BY <1>2, <1>8, <2>1, ResponseSame DEF CtlInv
<1> QED BY <1>5, <1>6, <1>7, <1>9, <1>10, <1>11 DEF CtlInv

\* ~MutexGuard().
LEMMA UnlockCtl ==
  ASSUME CtlInv, NEW c \in Cids, Unlock(c) PROVE CtlInv'
<1>1. /\ Running(c) /\ pc[c] = "unlock" /\ pc[c] \in HoldPc /\ pc[c] # "none"
      /\ stack # <<>> /\ Last(stack) = c
  BY Places DEF Unlock, Running
<1>2. /\ UNCHANGED <<backend, app, kind, pending, reader, cur, failing, cancelq, conn,
                     inbox, owes, data, fired>>
      /\ UNCHANGED <<left, wire>>
  BY DEF Unlock, reqVars, wireVars, readVars, netVars
<1>3. /\ "end" \in FreePc /\ "end" \in Pcs \ {"none"} /\ "end" \in RunAt
      /\ "end" \notin MorePc \cup FreshPc /\ "send" \in RunAt /\ "send" \in Pcs \ {"none"}
      /\ "lockWait" \notin RunAt /\ "lockWait" \in MorePc /\ "send" \notin FreshPc
      /\ "end" \in MidAt
  BY Places DEF Pcs, MorePc, FreshPc, MidAt
<1>4. MutexOK([pc EXCEPT ![c] = "end"], FALSE, waiters)
  BY <1>1, <1>3, CtlParts, MutexFree
<1>5. CASE waiters = <<>>
  <2>1. /\ pc' = [pc EXCEPT ![c] = "end"] /\ locked' = FALSE /\ stack' = stack
        /\ waiters' = waiters
    BY <1>5 DEF Unlock
  <2>2. stack' \in Seq(Coros) /\ StackInv' /\ CancelInv' /\ StartInv'
    BY <1>1, <1>2, <1>3, <2>1, SenderMoves
  <2>3. MutexInv'
    BY <1>4, <2>1 DEF MutexInv
  <2>4. LeftInv'
    BY <1>1, <1>2, <1>3, <2>1, LeftMoves DEF CtlInv
  <2>5. pc' \in [Cids -> Pcs]
    BY <1>3, <2>1, CtlParts
  <2> QED BY <1>2, <2>1, <2>2, <2>3, <2>4, <2>5, CtlParts, SenderStep
<1>6. CASE waiters # <<>>
  <2>1. PICK h : h = Head(waiters)
    OBVIOUS
  <2> DEFINE p2 == [pc EXCEPT ![c] = "end"]
  <2>2. /\ pc' = [p2 EXCEPT ![h] = "send"] /\ waiters' = Tail(waiters)
        /\ stack' = Append(stack, h) /\ locked' = locked
    BY <1>6, <2>1 DEF Unlock, Enter
  <2>3. p2 \in [Cids -> Pcs] /\ p2[c] = "end" /\ \A d \in Cids : d # c => p2[d] = pc[d]
    BY <1>3, CtlParts
  <2>4. MutexOK(p2, FALSE, waiters)
    BY <1>4
  <2> HIDE DEF p2
  <2>5. /\ MutexOK([p2 EXCEPT ![h] = "send"], TRUE, Tail(waiters))
        /\ h \in Cids /\ p2[h] = "lockWait" /\ Tail(waiters) \in Seq(Cids)
    BY <1>6, <2>1, <2>3, <2>4, CtlParts, MutexPass
  <2>6. locked' = TRUE
    <3>1. locked
      BY <1>1, CtlParts DEF MutexOK
    <3>2. locked = TRUE
      BY <3>1, CtlParts
    <3> QED BY <2>2, <3>2
  <2>7. MutexInv' /\ waiters' \in Seq(Cids)
    BY <2>2, <2>5, <2>6 DEF MutexInv
  <2>8. c # h /\ pc[h] = "lockWait"
    BY <1>3, <2>3, <2>5
  <2>9. /\ pc' \in [Cids -> Pcs] /\ pc'[c] = "end" /\ pc'[h] = "send"
        /\ \A d \in Cids : d # c /\ d # h => pc'[d] = pc[d]
    BY <1>3, <2>2, <2>3, <2>5, <2>8
  <2>10. LeftInv'
    BY <1>1, <1>2, <1>3, <2>8, <2>9 DEF CtlInv, LeftInv
  <2>11. StackInv' /\ stack' \in Seq(Coros) /\ CancelInv'
    <3> DEFINE m == Where(pc, reader)
               m1 == [m EXCEPT ![c] = "end"]
               m2 == [m1 EXCEPT ![h] = "send"]
    <3>1. /\ m \in [Coros -> Pcs \cup Readers] /\ m[c] = pc[c] /\ m[h] = pc[h]
          /\ c \in Coros /\ h \in Coros
      <4>1. c \in Coros /\ h \in Coros /\ h \in Cids /\ pc \in [Cids -> Pcs] /\ reader \in Readers
        BY <2>5, CtlParts DEF Coros
      <4>2. /\ Where(pc, reader) \in [Coros -> Pcs \cup Readers]
            /\ \A d \in Cids : Where(pc, reader)[d] = pc[d]
        BY <4>1, WhereMoves
      <4> QED BY <4>1, <4>2
    <3>2. /\ stack \in Seq(Coros) /\ cancelq \in Seq(Coros)
          /\ StackOK(stack, m) /\ CancelOK(cancelq, m)
      BY DEF CtlInv, Shape, StackInv, CancelInv
    <3> HIDE DEF m
    <3>3. m1 \in [Coros -> Pcs \cup Readers] /\ m1[c] = "end" /\ m1[h] = "lockWait"
      BY <1>3, <2>8, <3>1
    <3>4. StackOK(stack, m1)
      BY <1>1, <1>3, <3>1, <3>2, StackGoOn
    <3>5. m[c] \notin {"headerWait", "bodyWait", "sendWait"}
      BY <1>1, <3>1
    <3>6. CancelOK(cancelq, m1)
      BY <3>1, <3>2, <3>5, CancelElse
    <3> HIDE DEF m1
    <3>7. stack # <<>> => m1[Last(stack)] \in MidAt
      BY <1>1, <1>3, <3>3
    <3>8. m1[h] \notin RunAt
      BY <1>3, <3>3
    <3>9. StackOK(Append(stack, h), m2) /\ Append(stack, h) \in Seq(Coros)
      BY <1>3, <3>1, <3>2, <3>3, <3>4, <3>7, <3>8, StackPush
    <3>10. CancelOK(cancelq, m2)
      <4>1. m1[h] \notin {"headerWait", "bodyWait", "sendWait"}
        BY <3>3
      <4> QED BY <3>1, <3>2, <3>3, <3>6, <4>1, CancelElse
    <3>11. Where(pc', reader') = m2
      <4>1. reader' = reader
        BY <1>2
      <4>2. m = [x \in Coros |-> IF x = READER THEN reader ELSE pc[x]]
        BY DEF m, Where
      <4>3. m2 = [x \in Coros |-> IF x = h THEN "send" ELSE IF x = c THEN "end" ELSE m[x]]
        BY <2>8, <3>1 DEF m1
      <4> HIDE DEF m2
      <4>4. \A x \in Coros : (IF x = READER THEN reader ELSE pc'[x])
                               = (IF x = h THEN "send" ELSE IF x = c THEN "end" ELSE m[x])
        BY <2>5, <2>9, <4>2, ReaderNotCid DEF Coros
      <4>5. Where(pc', reader') = [x \in Coros |-> IF x = READER THEN reader ELSE pc'[x]]
        BY <4>1 DEF Where
      <4> QED BY <4>3, <4>4, <4>5
    <3> HIDE DEF m2
    <3>12. StackInv' /\ stack' \in Seq(Coros)
      BY <2>2, <3>9, <3>11 DEF StackInv
    <3>13. CancelInv'
      BY <1>2, <3>10, <3>11 DEF CtlInv, CancelInv
    <3> QED BY <3>12, <3>13
  <2>12. StartInv'
    BY <1>1, <1>2 DEF CtlInv, StartInv
  <2> QED BY <1>2, <2>6, <2>7, <2>9, <2>10, <2>11, <2>12, CtlParts, SenderStep
<1> QED BY <1>5, <1>6

\* A sender ends.
LEMMA SenderEndCtl ==
  ASSUME CtlInv, NEW c \in Cids, SenderEnd(c) PROVE CtlInv'
<1>1. Running(c) /\ pc[c] = "end" /\ pc[c] \in FreePc /\ pc[c] # "none"
  BY Places DEF SenderEnd
<1>2. /\ UNCHANGED <<backend, app, kind, pending, reader, cur, failing, cancelq, conn,
                     inbox, owes, data, fired>>
      /\ UNCHANGED <<left, wire, locked, waiters>>
      /\ pc' = [pc EXCEPT ![c] = "finished"] /\ stack' = Return
  BY DEF SenderEnd, reqVars, wireVars, readVars, netVars, mtxVars
<1>3. /\ "finished" \in FreePc /\ "finished" \in Pcs \ {"none"} /\ "finished" \notin RunAt
      /\ "finished" \notin MorePc \cup FreshPc
  BY Places DEF Pcs, MorePc, FreshPc
<1>4. stack' \in Seq(Coros) /\ StackInv' /\ CancelInv' /\ StartInv'
  BY <1>1, <1>2, <1>3, SenderMoves
<1>5. /\ MutexInv' /\ locked' \in BOOLEAN /\ waiters' \in Seq(Cids)
      /\ pc' \in [Cids -> Pcs]
  BY <1>1, <1>2, <1>3, MutexHeld
<1>6. LeftInv'
  BY <1>1, <1>2, <1>3, LeftMoves DEF CtlInv
<1> QED BY <1>2, <1>4, <1>5, <1>6, CtlParts, SenderStep

\* pread() or pwrite().
LEMMA IssueCtl ==
  ASSUME CtlInv, NEW c \in Cids, Issue(c) PROVE CtlInv'
<1>1. /\ kind[c] = "none" /\ pc[c] = "none" /\ left[c] = ReqLen
      /\ (stack = <<>> /\ app \in {"idle", "error", "wait"}) \/ InCallback
  BY DEF Issue, Idle, CtlInv, LeftInv, FreshPc
<1>2. /\ UNCHANGED <<backend, app, reader, cur, failing, cancelq, conn, inbox, owes, data,
                     fired>>
      /\ UNCHANGED <<left, wire, locked, waiters>>
      /\ pc' = [pc EXCEPT ![c] = "lock"] /\ stack' = Enter(c) /\ pending' = pending \cup {c}
  BY DEF Issue, readVars, wireVars, netVars, mtxVars
<1>3. PICK k \in Kinds : kind' = [kind EXCEPT ![c] = k]
  BY DEF Issue
<1>4. k # "none" /\ ReqLen > 0 /\ ReqLen \in Nat
  BY ClientAssumption
<1>5. /\ kind' \in [Cids -> Kinds \cup {"none"}] /\ kind'[c] = k
      /\ \A d \in Cids : d # c => kind'[d] = kind[d]
  BY <1>3 DEF CtlInv, Shape
<1>6. /\ "lock" \in Pcs /\ "lock" \in RunAt /\ "none" \notin RunAt
      /\ "lock" \in FreePc /\ "none" \in FreePc /\ "lock" \in FreshPc
  BY Places DEF Pcs, FreshPc
<1>7. stack' \in Seq(Coros) /\ StackInv' /\ CancelInv' /\ StartInv'
  BY <1>1, <1>2, <1>6, SenderResumes
<1>8. /\ MutexInv' /\ locked' \in BOOLEAN /\ waiters' \in Seq(Cids)
      /\ pc' \in [Cids -> Pcs]
  BY <1>1, <1>2, <1>6, MutexHeld
<1>9. pc'[c] = "lock" /\ \A d \in Cids : d # c => pc'[d] = pc[d]
  BY <1>2, CtlParts
<1>10. LeftInv'
  BY <1>1, <1>2, <1>4, <1>5, <1>9 DEF CtlInv, LeftInv
<1>11. Shape'
  BY <1>2, <1>5, <1>7, <1>8 DEF CtlInv, Shape
<1>12. OnceInv'
  <2>1. /\ fired \in [Cids -> Nat] /\ OnceOK(kind, fired, pending, failing)
        /\ kind \in [Cids -> Kinds \cup {"none"}]
    BY DEF CtlInv, OnceInv, Shape
  <2>2. OnceOK([kind EXCEPT ![c] = k], fired, pending \cup {c}, failing)
    BY <1>1, <2>1, OnceIssue
  <2> QED BY <1>2, <1>3, <2>2 DEF CtlInv, OnceInv
<1>13. ResponseInv'
  <2>1. \A d \in Cids : kind[d] = "read" => kind'[d] = "read"
    BY <1>1, <1>5
  <2> QED BY <1>2, <2>1, ResponseSame DEF CtlInv
<1> QED BY <1>7, <1>8, <1>10, <1>11, <1>12, <1>13 DEF CtlInv

-----------------------------------------------------------------------------
(* CtlInv: the server and the connection. *)

\* Only the network moves.
LEMMA NetStep ==
  ASSUME CtlInv, UNCHANGED <<app, kind, pending, stack, pc, left, wire, locked, waiters,
                             reader, cur, failing, cancelq, backend, fired>>,
         conn' \in {"open", "eof", "reset"}, inbox' \in Seq(RespPart),
         owes' \in Cids \cup {0}, data' \in [Cids -> BOOLEAN], ResponseInv'
  PROVE  CtlInv'
<1>1. Shape'
  BY DEF CtlInv, Shape
<1>2. StackInv' /\ MutexInv' /\ CancelInv' /\ StartInv'
  BY DEF CtlInv, StackInv, MutexInv, CancelInv, StartInv, Where
<1>3. OnceInv' /\ LeftInv'
  BY DEF CtlInv, OnceInv, LeftInv
<1> QED BY <1>1, <1>2, <1>3 DEF CtlInv

\* A part of a response arrives, for a request that was sent whole or for none.
LEMMA PartArrives ==
  ASSUME Shape, NEW p \in RespPart, inbox' = Append(inbox, p), UNCHANGED left,
         \A i \in DOMAIN inbox : inbox[i].cid # Unknown => left[inbox[i].cid] = 0,
         p.cid # Unknown => left[p.cid] = 0
  PROVE  /\ inbox' \in Seq(RespPart)
         /\ \A i \in DOMAIN inbox' : inbox'[i].cid # Unknown => left'[inbox'[i].cid] = 0
<1>1. inbox \in Seq(RespPart) /\ Len(inbox) \in Nat /\ DOMAIN inbox = 1..Len(inbox)
  BY DEF Shape
<1>2. /\ inbox' \in Seq(RespPart) /\ Len(inbox') = Len(inbox) + 1
      /\ \A i \in 1..Len(inbox) : inbox'[i] = inbox[i]
      /\ inbox'[Len(inbox) + 1] = p
  BY <1>1, AppendFacts
<1>3. DOMAIN inbox' = DOMAIN inbox \cup {Len(inbox) + 1}
  BY <1>1, <1>2
<1> QED BY <1>1, <1>2, <1>3

\* The server answers.
LEMMA ServerAnswerCtl ==
  ASSUME CtlInv, ServerAnswer PROVE CtlInv'
<1>1. /\ UNCHANGED <<app, kind, pending, stack, pc, left, wire, locked, waiters,
                     reader, cur, failing, cancelq, backend, fired>>
      /\ conn' = conn
  BY DEF ServerAnswer, reqVars, sendVars, wireVars, mtxVars, readVars
<1>2. PICK c \in Unanswered, d \in BOOLEAN :
        /\ d => kind[c] = "read"
        /\ inbox' = Append(inbox, [part |-> "header", cid |-> c])
        /\ data' = [data EXCEPT ![c] = d]
        /\ owes' = IF d THEN c ELSE 0
  BY DEF ServerAnswer
<1>3. c \in Cids /\ left[c] = 0 /\ c # cur
  BY DEF Unanswered
<1>4. [part |-> "header", cid |-> c] \in RespPart
  BY <1>3 DEF RespPart
<1>5. /\ inbox' \in Seq(RespPart)
      /\ \A i \in DOMAIN inbox' : inbox'[i].cid # Unknown => left'[inbox'[i].cid] = 0
  BY <1>1, <1>2, <1>3, <1>4, PartArrives DEF CtlInv, ResponseInv
<1>6. /\ data' \in [Cids -> BOOLEAN] /\ data'[c] = d
      /\ \A e \in Cids : e # c => data'[e] = data[e]
  BY <1>2, <1>3 DEF CtlInv, Shape
<1>7. owes' \in Cids \cup {0} /\ (owes' # 0 => owes' = c)
  BY <1>2, <1>3
<1>8. ResponseInv'
  <2>1. owes' # 0 => left'[owes'] = 0
    BY <1>1, <1>3, <1>7
  <2>2. \A e \in Cids : data'[e] => kind'[e] = "read"
    BY <1>1, <1>2, <1>6 DEF CtlInv, ResponseInv
  <2>3. reader' \in {"body", "bodyWait"} =>
          cur' # 0 /\ cur' \in pending' /\ left'[cur'] = 0 /\ data'[cur']
    <3>1. cur # 0 => cur \in Cids
      BY DEF CtlInv, Shape
    <3> QED BY <1>1, <1>3, <1>6, <3>1 DEF CtlInv, ResponseInv
  <2> QED BY <1>5, <2>1, <2>2, <2>3 DEF ResponseInv
<1>9. conn' \in {"open", "eof", "reset"}
  BY <1>1 DEF CtlInv, Shape
<1> QED BY <1>1, <1>5, <1>6, <1>7, <1>8, <1>9, NetStep

\* The payload follows.
LEMMA ServerPayloadCtl ==
  ASSUME CtlInv, ServerPayload PROVE CtlInv'
<1>1. /\ UNCHANGED <<app, kind, pending, stack, pc, left, wire, locked, waiters,
                     reader, cur, failing, cancelq, backend, fired>>
      /\ UNCHANGED <<conn, data>>
      /\ owes # 0 /\ owes' = 0 /\ inbox' = Append(inbox, [part |-> "body", cid |-> owes])
  BY DEF ServerPayload, reqVars, sendVars, wireVars, mtxVars, readVars
<1>2. [part |-> "body", cid |-> owes] \in RespPart
  BY <1>1 DEF RespPart, CtlInv, Shape
<1>3. /\ inbox' \in Seq(RespPart)
      /\ \A i \in DOMAIN inbox' : inbox'[i].cid # Unknown => left'[inbox'[i].cid] = 0
  BY <1>1, <1>2, PartArrives DEF CtlInv, ResponseInv
<1>4. ResponseInv'
  BY <1>1, <1>3 DEF CtlInv, ResponseInv
<1>5. /\ conn' \in {"open", "eof", "reset"} /\ data' \in [Cids -> BOOLEAN]
      /\ owes' \in Cids \cup {0}
  BY <1>1 DEF CtlInv, Shape
<1> QED BY <1>1, <1>3, <1>4, <1>5, NetStep

\* A response to nothing.
LEMMA ServerGarbageCtl ==
  ASSUME CtlInv, ServerGarbage PROVE CtlInv'
<1>1. /\ UNCHANGED <<app, kind, pending, stack, pc, left, wire, locked, waiters,
                     reader, cur, failing, cancelq, backend, fired>>
      /\ UNCHANGED <<conn, data, owes>>
      /\ inbox' = Append(inbox, [part |-> "header", cid |-> Unknown])
  BY DEF ServerGarbage, reqVars, sendVars, wireVars, mtxVars, readVars
<1>2. [part |-> "header", cid |-> Unknown] \in RespPart
  BY DEF RespPart
<1>3. /\ inbox' \in Seq(RespPart)
      /\ \A i \in DOMAIN inbox' : inbox'[i].cid # Unknown => left'[inbox'[i].cid] = 0
  BY <1>1, <1>2, PartArrives DEF CtlInv, ResponseInv
<1>4. ResponseInv'
  BY <1>1, <1>3 DEF CtlInv, ResponseInv
<1>5. /\ conn' \in {"open", "eof", "reset"} /\ data' \in [Cids -> BOOLEAN]
      /\ owes' \in Cids \cup {0}
  BY <1>1 DEF CtlInv, Shape
<1> QED BY <1>1, <1>3, <1>4, <1>5, NetStep

\* The connection ends.
LEMMA ConnBreakCtl ==
  ASSUME CtlInv, ConnBreak PROVE CtlInv'
<1>1. /\ UNCHANGED <<app, kind, pending, stack, pc, left, wire, locked, waiters,
                     reader, cur, failing, cancelq, backend, fired>>
      /\ UNCHANGED <<inbox, data, owes>> /\ conn' \in {"open", "eof", "reset"}
  BY DEF ConnBreak, reqVars, sendVars, wireVars, mtxVars, readVars
<1>2. ResponseInv'
  BY <1>1 DEF CtlInv, ResponseInv
<1>3. inbox' \in Seq(RespPart) /\ data' \in [Cids -> BOOLEAN] /\ owes' \in Cids \cup {0}
  BY <1>1 DEF CtlInv, Shape
<1> QED BY <1>1, <1>2, <1>3, NetStep

-----------------------------------------------------------------------------
(* CtlInv: reader_loop(). *)

\* reader_loop() moves and no sender does.
LEMMA ReaderStep ==
  ASSUME CtlInv, UNCHANGED <<app, kind, pc, left, wire, locked, waiters, backend, conn,
                             owes, data>>,
         reader' \in Readers, stack' \in Seq(Coros), cancelq' \in Seq(Coros),
         StackInv', CancelInv', StartInv', pending' \subseteq Cids, cur' \in Cids \cup {0},
         failing' \in Seq(Cids), inbox' \in Seq(RespPart), OnceInv', ResponseInv'
  PROVE  CtlInv'
<1>1. Shape'
  BY DEF CtlInv, Shape
<1>2. MutexInv' /\ LeftInv'
  BY DEF CtlInv, MutexInv, LeftInv
<1> QED BY <1>1, <1>2 DEF CtlInv

\* It reads a part of a response or nothing.
LEMMA ResponseRead ==
  ASSUME Shape, ResponseInv, UNCHANGED <<kind, left, owes, data>>,
         \/ inbox' = inbox
         \/ inbox # <<>> /\ inbox' = Tail(inbox),
         reader' \in {"body", "bodyWait"} =>
           cur' # 0 /\ cur' \in pending' /\ left'[cur'] = 0 /\ data'[cur']
  PROVE  ResponseInv' /\ inbox' \in Seq(RespPart)
<1>1. inbox \in Seq(RespPart) /\ Len(inbox) \in Nat /\ DOMAIN inbox = 1..Len(inbox)
  BY DEF Shape
<1>2. /\ inbox' \in Seq(RespPart)
      /\ \A i \in DOMAIN inbox' : \E j \in DOMAIN inbox : inbox'[i] = inbox[j]
  <2>1. CASE inbox' = inbox
    BY <1>1, <2>1
  <2>2. CASE inbox # <<>> /\ inbox' = Tail(inbox)
    <3>1. /\ inbox' \in Seq(RespPart) /\ Len(inbox') = Len(inbox) - 1
          /\ \A i \in 1..(Len(inbox) - 1) : inbox'[i] = inbox[i + 1]
      BY <1>1, <2>2, TailFacts
    <3>2. \A i \in DOMAIN inbox' : i + 1 \in DOMAIN inbox /\ inbox'[i] = inbox[i + 1]
      BY <1>1, <3>1
    <3>3. ASSUME NEW i \in DOMAIN inbox' PROVE \E j \in DOMAIN inbox : inbox'[i] = inbox[j]
      <4>1. i + 1 \in DOMAIN inbox /\ inbox'[i] = inbox[i + 1]
        BY <3>2
      <4> QED BY <4>1
    <3> QED BY <3>1, <3>3, Zenon
  <2> QED BY <2>1, <2>2
<1>3. \A i \in DOMAIN inbox' : inbox'[i].cid # Unknown => left'[inbox'[i].cid] = 0
  BY <1>2 DEF ResponseInv
<1> QED BY <1>2, <1>3 DEF ResponseInv

\* An exception: every pending request is moved to the copy.
LEMMA CatchOnce ==
  ASSUME CtlInv, ReaderCatch, reader \notin {"fail", "failCallback"},
         UNCHANGED <<kind, fired>>
  PROVE  /\ OnceInv' /\ failing' \in Seq(Cids) /\ pending' \subseteq Cids
         /\ cur' \in Cids \cup {0} /\ reader' = "fail"
<1>1. /\ pending \in SUBSET Cids /\ OnceOK(kind, fired, pending, failing) /\ failing = <<>>
      /\ fired \in [Cids -> Nat]
  BY DEF CtlInv, Shape, OnceInv
<1>2. failing' \in SetToSeqs(pending) /\ pending' = {} /\ cur' = 0 /\ reader' = "fail"
  BY DEF ReaderCatch, ClearPending
<1>3. PICK f2 \in SetToSeqs(pending) : f2 = failing'
  BY <1>2
<1>4. OnceOK(kind, fired, {}, f2) /\ f2 \in Seq(Cids)
  BY <1>1, OnceClear
<1>5. OnceInv'
  BY <1>1, <1>2, <1>3, <1>4 DEF OnceInv
<1> QED BY <1>2, <1>3, <1>4, <1>5

\* A response is complete: the callback of its request is invoked.
LEMMA CompleteOnce ==
  ASSUME CtlInv, NEW c \in Cids, c \in pending, Complete(c),
         reader \notin {"fail", "failCallback"}, UNCHANGED <<kind, failing>>
  PROVE  /\ OnceInv' /\ pending' \subseteq Cids /\ failing' \in Seq(Cids)
         /\ cur' \in Cids \cup {0} /\ reader' = "callback"
<1>1. /\ pending \subseteq Cids /\ OnceOK(kind, fired, pending, failing) /\ failing = <<>>
      /\ fired \in [Cids -> Nat] /\ failing \in Seq(Cids)
  BY DEF CtlInv, Shape, OnceInv
<1>2. /\ pending' = pending \ {c} /\ fired' = [fired EXCEPT ![c] = @ + 1]
      /\ cur' = 0 /\ reader' = "callback"
  BY DEF Complete, Fire
<1>3. /\ OnceOK(kind, [fired EXCEPT ![c] = @ + 1], pending \ {c}, failing)
      /\ [fired EXCEPT ![c] = @ + 1] \in [Cids -> Nat]
  BY <1>1, OnceDone
<1>4. OnceInv'
  BY <1>1, <1>2, <1>3 DEF OnceInv
<1> QED BY <1>1, <1>2, <1>4

\* Where reader_loop() is on the stack and where it is not.
LEMMA ReaderPlaces ==
  /\ {"header", "body", "callback", "fail", "failCallback"} \subseteq RunAt
  /\ {"headerWait", "bodyWait", "over", "none"} \cap RunAt = {}
  /\ {"header", "body", "callback", "fail", "failCallback", "headerWait", "bodyWait",
      "over", "none"} = Readers
BY DEF RunAt, Readers

\* It waits for something to read.
LEMMA ReaderSuspendCtl ==
  ASSUME CtlInv, ReaderSuspend PROVE CtlInv'
<1>1. /\ UNCHANGED <<app, kind, pc, left, wire, locked, waiters, backend, conn, owes, data>>
      /\ UNCHANGED <<pending, cur, failing, cancelq, inbox, fired>>
      /\ Running(READER) /\ stack' = Return
  BY DEF ReaderSuspend, reqVars, sendVars, wireVars, mtxVars, netVars
<1>2. PICK x \in {"headerWait", "bodyWait"} : reader' = x
  BY DEF ReaderSuspend
<1>3. x \in Readers /\ x \notin RunAt /\ x \notin {"fail", "failCallback"}
  BY ReaderPlaces
<1>4. stack' \in Seq(Coros) /\ StackInv' /\ CancelInv' /\ StartInv'
  BY <1>1, <1>2, <1>3, ReaderMoves
<1>5. reader \in {"header", "body"} /\ (x = "bodyWait" => reader = "body")
  BY <1>2 DEF ReaderSuspend
<1>6. OnceInv'
  <2>1. failing = <<>>
    BY <1>5 DEF CtlInv, OnceInv
  <2> QED BY <1>1, <2>1, OnceSame DEF CtlInv
<1>7. ResponseInv'
  <2>1. reader' \in {"body", "bodyWait"} =>
          reader \in {"body", "bodyWait"} /\ (cur \in pending => cur \in pending')
    BY <1>1, <1>2, <1>5
  <2> QED BY <1>1, <2>1, ResponseSame DEF CtlInv
<1>8. /\ reader' \in Readers /\ pending' \subseteq Cids /\ cur' \in Cids \cup {0}
      /\ failing' \in Seq(Cids) /\ inbox' \in Seq(RespPart) /\ cancelq' \in Seq(Coros)
  BY <1>1, <1>2, <1>3 DEF CtlInv, Shape
<1> QED BY <1>1, <1>4, <1>6, <1>7, <1>8, ReaderStep

\* reader_loop() is resumed where it was suspended, or started.
LEMMA ReaderResumes ==
  ASSUME CtlInv, NEW x \in Readers, reader \notin RunAt, x \in RunAt, reader' = x,
         stack = <<>>, stack' = Enter(READER), pc' = pc, app' = "idle" \/ app' = app,
         app' \notin {"connect", "connected", "refused"}, cancelq = <<>>,
         UNCHANGED <<backend, cancelq>>
  PROVE  stack' \in Seq(Coros) /\ StackInv' /\ CancelInv' /\ StartInv'
<1>1. pc \in [Cids -> Pcs] /\ reader \in Readers /\ READER \in Coros
  BY DEF CtlInv, Shape, Coros
<1> DEFINE m == Where(pc, reader)
           m2 == [m EXCEPT ![READER] = x]
<1>2. m \in [Coros -> Pcs \cup Readers] /\ m[READER] = reader
  BY <1>1, WhereMoves
<1>3. Where(pc', reader') = m2
  BY <1>1, WhereMoves
<1>4. stack \in Seq(Coros) /\ StackOK(stack, m)
  BY DEF CtlInv, Shape, StackInv
<1> HIDE DEF m
<1>5. m[READER] \notin RunAt
  BY <1>2
<1>6. StackOK(Append(stack, READER), m2) /\ Append(stack, READER) \in Seq(Coros)
  BY <1>1, <1>2, <1>4, <1>5, StackPush
<1> HIDE DEF m2
<1>7. StackInv' /\ stack' \in Seq(Coros)
  BY <1>3, <1>6 DEF StackInv, Enter
<1>8. CancelInv'
  BY DEF CancelInv, CancelOK
<1>9. StartInv'
  BY DEF StartInv
<1> QED BY <1>7, <1>8, <1>9

\* There is something to read.
LEMMA ReaderResumeCtl ==
  ASSUME CtlInv, ReaderResume PROVE CtlInv'
<1>1. /\ UNCHANGED <<app, kind, pc, left, wire, locked, waiters, backend, conn, owes, data>>
      /\ UNCHANGED <<pending, cur, failing, cancelq, inbox, fired>>
      /\ stack = <<>> /\ stack' = Enter(READER) /\ app = "wait"
  BY DEF ReaderResume, InStep, reqVars, sendVars, wireVars, mtxVars, netVars
<1>2. PICK x \in {"header", "body"} : reader' = x
  BY DEF ReaderResume
<1>3. reader \in {"headerWait", "bodyWait"} /\ (x = "body" => reader = "bodyWait")
  BY <1>2 DEF ReaderResume
<1>4. x \in Readers /\ x \in RunAt /\ reader \notin RunAt
  BY <1>3, ReaderPlaces
<1>5. cancelq = <<>>
  BY <1>1 DEF CtlInv, CancelInv
<1>6. stack' \in Seq(Coros) /\ StackInv' /\ CancelInv' /\ StartInv'
  BY <1>1, <1>2, <1>4, <1>5, ReaderResumes
<1>7. OnceInv'
  <2>1. failing = <<>>
    BY <1>3 DEF CtlInv, OnceInv
  <2> QED BY <1>1, <2>1, OnceSame DEF CtlInv
<1>8. ResponseInv'
  <2>1. reader' \in {"body", "bodyWait"} =>
          reader \in {"body", "bodyWait"} /\ (cur \in pending => cur \in pending')
    BY <1>1, <1>2, <1>3
  <2> QED BY <1>1, <2>1, ResponseSame DEF CtlInv
<1>9. /\ reader' \in Readers /\ pending' \subseteq Cids /\ cur' \in Cids \cup {0}
      /\ failing' \in Seq(Cids) /\ inbox' \in Seq(RespPart) /\ cancelq' \in Seq(Coros)
  BY <1>1, <1>2, <1>4 DEF CtlInv, Shape
<1> QED BY <1>1, <1>6, <1>7, <1>8, <1>9, ReaderStep

\* read_exact() throws.
LEMMA ReaderThrowCtl ==
  ASSUME CtlInv, ReaderThrow PROVE CtlInv'
<1>1. /\ UNCHANGED <<app, kind, pc, left, wire, locked, waiters, backend, conn, owes, data>>
      /\ UNCHANGED <<cancelq, inbox, fired, stack>>
      /\ Running(READER) /\ reader \notin {"fail", "failCallback"} /\ ReaderCatch
  BY DEF ReaderThrow, sendVars, wireVars, mtxVars, netVars
<1>2. /\ OnceInv' /\ failing' \in Seq(Cids) /\ pending' \subseteq Cids
      /\ cur' \in Cids \cup {0} /\ reader' = "fail"
  BY <1>1, CatchOnce
<1>3. "fail" \in Readers /\ "fail" \in RunAt
  BY ReaderPlaces
<1>4. stack' \in Seq(Coros) /\ StackInv' /\ CancelInv' /\ StartInv'
  BY <1>1, <1>2, <1>3, ReaderMoves
<1>5. ResponseInv' /\ inbox' \in Seq(RespPart)
  BY <1>1, <1>2, ResponseRead DEF CtlInv
<1>6. reader' \in Readers /\ cancelq' \in Seq(Coros)
  BY <1>1, <1>2, <1>3 DEF CtlInv, Shape
<1> QED BY <1>1, <1>2, <1>4, <1>5, <1>6, ReaderStep

\* A response header.
LEMMA ReaderHeaderCtl ==
  ASSUME CtlInv, ReaderHeader PROVE CtlInv'
<1>1. /\ UNCHANGED <<app, kind, pc, left, wire, locked, waiters, backend, conn, owes, data>>
      /\ UNCHANGED <<cancelq, stack>>
      /\ Running(READER) /\ reader = "header" /\ inbox # <<>> /\ inbox' = Tail(inbox)
  BY DEF ReaderHeader, sendVars, wireVars, mtxVars
<1>2. PICK c : c = Head(inbox).cid
  OBVIOUS
<1>3. c \in pending => c \in Cids /\ left[c] = 0
  <2>1. 1 \in DOMAIN inbox /\ Head(inbox) = inbox[1]
    BY <1>1 DEF CtlInv, Shape
  <2>2. c \in pending => c \in Cids
    BY DEF CtlInv, Shape
  <2> QED BY <1>2, <2>1, <2>2, ReaderNotCid DEF CtlInv, ResponseInv
<1>4. {"fail", "body", "callback"} \subseteq Readers \cap RunAt
  BY ReaderPlaces
<1>5. ASSUME reader' \in {"fail", "body", "callback"}
      PROVE  /\ stack' \in Seq(Coros) /\ StackInv' /\ CancelInv' /\ StartInv'
             /\ reader' \in Readers /\ cancelq' \in Seq(Coros)
  <2>1. PICK x \in {"fail", "body", "callback"} : reader' = x
    BY <1>5
  <2>2. x \in Readers /\ x \in RunAt
    BY <1>4
  <2>3. stack' \in Seq(Coros) /\ StackInv' /\ CancelInv' /\ StartInv'
    BY <1>1, <2>1, <2>2, ReaderMoves
  <2> QED BY <1>1, <2>1, <2>2, <2>3 DEF CtlInv, Shape
<1>6. CASE c \notin pending /\ ReaderCatch /\ UNCHANGED fired
  <2>1. /\ OnceInv' /\ failing' \in Seq(Cids) /\ pending' \subseteq Cids
        /\ cur' \in Cids \cup {0} /\ reader' = "fail"
    BY <1>1, <1>6, CatchOnce
  <2>2. ResponseInv' /\ inbox' \in Seq(RespPart)
    BY <1>1, <2>1, ResponseRead DEF CtlInv
  <2> QED BY <1>1, <1>5, <2>1, <2>2, ReaderStep
<1>7. CASE /\ c \in pending /\ data[c]
           /\ reader' = "body"
           /\ cur' = c
           /\ pending' = DuringBody(c)
           /\ UNCHANGED <<failing, fired>>
  <2>1. pending' = pending /\ c \in Cids /\ left[c] = 0 /\ c # 0
    BY <1>3, <1>7, ReaderNotCid DEF DuringBody
  <2>2. OnceInv'
    <3>1. failing = <<>>
      BY <1>1 DEF CtlInv, OnceInv
    <3> QED BY <1>1, <1>7, <2>1, <3>1, OnceSame DEF CtlInv
  <2>3. ResponseInv' /\ inbox' \in Seq(RespPart)
    BY <1>1, <1>7, <2>1, ResponseRead DEF CtlInv
  <2>4. pending' \subseteq Cids /\ cur' \in Cids \cup {0} /\ failing' \in Seq(Cids)
    BY <1>7, <2>1 DEF CtlInv, Shape
  <2> QED BY <1>1, <1>5, <1>7, <2>2, <2>3, <2>4, ReaderStep
<1>8. CASE c \in pending /\ ~data[c] /\ Complete(c) /\ UNCHANGED failing
  <2>1. /\ OnceInv' /\ pending' \subseteq Cids /\ failing' \in Seq(Cids)
        /\ cur' \in Cids \cup {0} /\ reader' = "callback"
    BY <1>1, <1>3, <1>8, CompleteOnce
  <2>2. ResponseInv' /\ inbox' \in Seq(RespPart)
    BY <1>1, <2>1, ResponseRead DEF CtlInv
  <2> QED BY <1>1, <1>5, <2>1, <2>2, ReaderStep
<1> QED BY <1>2, <1>6, <1>7, <1>8 DEF ReaderHeader

\* A payload.
LEMMA ReaderBodyCtl ==
  ASSUME CtlInv, ReaderBody PROVE CtlInv'
<1>1. /\ UNCHANGED <<app, kind, pc, left, wire, locked, waiters, backend, conn, owes, data>>
      /\ UNCHANGED <<cancelq, stack, failing>>
      /\ Running(READER) /\ reader = "body" /\ inbox # <<>> /\ inbox' = Tail(inbox)
      /\ Complete(cur)
  BY DEF ReaderBody, sendVars, wireVars, mtxVars
<1>2. cur \in pending /\ cur \in Cids
  BY <1>1 DEF CtlInv, ResponseInv, Shape
<1>3. PICK c \in Cids : c = cur
  BY <1>2
<1>4. /\ OnceInv' /\ pending' \subseteq Cids /\ failing' \in Seq(Cids)
      /\ cur' \in Cids \cup {0} /\ reader' = "callback"
  BY <1>1, <1>2, <1>3, CompleteOnce
<1>5. "callback" \in Readers /\ "callback" \in RunAt
  BY ReaderPlaces
<1>6. stack' \in Seq(Coros) /\ StackInv' /\ CancelInv' /\ StartInv'
  BY <1>1, <1>4, <1>5, ReaderMoves
<1>7. ResponseInv' /\ inbox' \in Seq(RespPart)
  BY <1>1, <1>4, ResponseRead DEF CtlInv
<1>8. reader' \in Readers /\ cancelq' \in Seq(Coros)
  BY <1>1, <1>4, <1>5 DEF CtlInv, Shape
<1> QED BY <1>1, <1>4, <1>6, <1>7, <1>8, ReaderStep

\* fail_all_pending() goes on, or reader_loop() ends.
LEMMA FailNextCtl ==
  ASSUME CtlInv, FailNext PROVE CtlInv'
<1>1. /\ UNCHANGED <<app, kind, pc, left, wire, locked, waiters, backend, conn, owes, data>>
      /\ UNCHANGED <<cancelq, pending, cur, inbox>>
      /\ Running(READER) /\ reader = "fail"
  BY DEF FailNext, reqVars, sendVars, wireVars, mtxVars, netVars
<1>2. PICK x \in {"failCallback", "over"} :
        reader' = x /\ x = (IF failing # <<>> THEN "failCallback" ELSE "over")
  BY DEF FailNext
<1>3. x \in Readers /\ (x \in RunAt <=> x = "failCallback")
  BY ReaderPlaces
<1>4. stack' = IF x \in RunAt THEN stack ELSE Return
  BY <1>2, <1>3 DEF FailNext
<1>5. stack' \in Seq(Coros) /\ StackInv' /\ CancelInv' /\ StartInv'
  BY <1>1, <1>2, <1>3, <1>4, ReaderMoves
<1>6. OnceInv' /\ failing' \in Seq(Cids)
  <2>1. /\ fired \in [Cids -> Nat] /\ OnceOK(kind, fired, pending, failing)
        /\ failing \in Seq(Cids)
    BY DEF CtlInv, OnceInv, Shape
  <2>2. CASE failing # <<>>
    <3>1. /\ fired' = [fired EXCEPT ![Head(failing)] = @ + 1] /\ failing' = Tail(failing)
          /\ reader' = "failCallback"
      BY <2>2 DEF FailNext, Fire
    <3>2. /\ OnceOK(kind, [fired EXCEPT ![Head(failing)] = @ + 1], pending, Tail(failing))
          /\ [fired EXCEPT ![Head(failing)] = @ + 1] \in [Cids -> Nat]
          /\ Tail(failing) \in Seq(Cids)
      BY <2>1, <2>2, OnceFail
    <3>3. /\ fired' \in [Cids -> Nat] /\ OnceOK(kind', fired', pending', failing')
          /\ failing' \in Seq(Cids)
      BY <1>1, <3>1, <3>2
    <3> QED BY <3>1, <3>3 DEF OnceInv
  <2>3. CASE failing = <<>>
    <3>1. failing' = failing /\ fired' = fired
      BY <2>3 DEF FailNext
    <3> QED BY <1>1, <2>1, <2>3, <3>1, OnceSame DEF CtlInv
  <2> QED BY <2>2, <2>3
<1>7. ResponseInv' /\ inbox' \in Seq(RespPart)
  BY <1>1, <1>2, ResponseRead DEF CtlInv
<1>8. /\ reader' \in Readers /\ cancelq' \in Seq(Coros) /\ pending' \subseteq Cids
      /\ cur' \in Cids \cup {0}
  BY <1>1, <1>2, <1>3 DEF CtlInv, Shape
<1> QED BY <1>1, <1>5, <1>6, <1>7, <1>8, ReaderStep

\* A callback returns.
LEMMA CallbackReturnCtl ==
  ASSUME CtlInv, CallbackReturn PROVE CtlInv'
<1>1. /\ UNCHANGED <<app, kind, left, wire, locked, waiters, backend, conn, owes, data>>
      /\ UNCHANGED <<cancelq, pending, cur, inbox, failing, fired, stack>>
      /\ stack # <<>>
  BY DEF CallbackReturn, InCallback, reqVars, wireVars, mtxVars, netVars
<1>2. CASE Last(stack) = READER
  <2>1. Running(READER) /\ reader \in {"callback", "failCallback"} /\ pc' = pc
    BY <1>1, <1>2, ReaderNotCid DEF CallbackReturn, InCallback, Running
  <2>2. PICK x \in {"header", "fail"} :
          reader' = x /\ x = (IF reader = "callback" THEN "header" ELSE "fail")
    BY <1>2 DEF CallbackReturn
  <2>3. x \in Readers /\ x \in RunAt
    BY ReaderPlaces
  <2>4. stack' \in Seq(Coros) /\ StackInv' /\ CancelInv' /\ StartInv'
    BY <1>1, <2>1, <2>2, <2>3, ReaderMoves
  <2>5. OnceInv'
    <3>1. reader' \notin {"fail", "failCallback"} => failing = <<>>
      BY <2>1, <2>2 DEF CtlInv, OnceInv
    <3> QED BY <1>1, <3>1, OnceSame DEF CtlInv
  <2>6. ResponseInv' /\ inbox' \in Seq(RespPart)
    BY <1>1, <2>2, ResponseRead DEF CtlInv
  <2>7. /\ reader' \in Readers /\ cancelq' \in Seq(Coros) /\ pending' \subseteq Cids
        /\ cur' \in Cids \cup {0} /\ failing' \in Seq(Cids)
    BY <1>1, <2>2, <2>3 DEF CtlInv, Shape
  <2> QED BY <1>1, <2>1, <2>4, <2>5, <2>6, <2>7, ReaderStep
<1>3. CASE Last(stack) # READER
  <2>1. PICK c \in Cids : c = Last(stack) /\ pc[c] = "callback"
    BY <1>3 DEF CallbackReturn, InCallback
  <2>2. Running(c) /\ pc' = [pc EXCEPT ![c] = "unlock"] /\ reader' = reader
    BY <1>1, <1>3, <2>1 DEF CallbackReturn, Running
  <2>3. /\ "unlock" \in HoldPc /\ "callback" \in HoldPc /\ "unlock" \in RunAt
        /\ "unlock" \in Pcs /\ "unlock" \notin MorePc
    BY Places DEF MorePc
  <2>4. stack' \in Seq(Coros) /\ StackInv' /\ CancelInv' /\ StartInv'
    BY <1>1, <2>2, <2>3, SenderMoves
  <2> QED BY <1>1, <2>1, <2>2, <2>3, <2>4, HolderStep
<1> QED BY <1>2, <1>3

-----------------------------------------------------------------------------
(* CtlInv: the application. *)

\* It goes on to another call.
LEMMA AppStep ==
  ASSUME CtlInv, UNCHANGED <<backend, kind, pending, stack, pc, left, locked, waiters, reader,
                             cur, failing, conn, inbox, owes, data, wire, fired>>,
         app' \in Apps,
         app' \in {"connect", "connected", "refused"} =>
           app \in {"connect", "connected", "refused"},
         cancelq' \in Seq(Coros), CancelInv'
  PROVE  CtlInv'
<1>1. Shape'
  BY DEF CtlInv, Shape
<1>2. StackInv' /\ MutexInv' /\ StartInv'
  BY DEF CtlInv, StackInv, MutexInv, StartInv, Where
<1>3. OnceInv' /\ LeftInv' /\ ResponseInv'
  BY DEF CtlInv, OnceInv, LeftInv, ResponseInv
<1> QED BY <1>1, <1>2, <1>3 DEF CtlInv

\* The same when there is nothing to cancel.
LEMMA AppQuiet ==
  ASSUME CtlInv, UNCHANGED <<backend, kind, pending, stack, pc, left, locked, waiters, reader,
                             cur, failing, conn, inbox, owes, data, wire, fired, cancelq>>,
         app # "cancel" \/ cancelq = <<>>,
         app' \in Apps,
         app' \in {"connect", "connected", "refused"} =>
           app \in {"connect", "connected", "refused"}
  PROVE  CtlInv'
<1>1. cancelq = <<>> /\ cancelq' \in Seq(Coros)
  BY DEF CtlInv, CancelInv, Shape
<1>2. CancelInv'
  BY <1>1 DEF CancelInv, CancelOK
<1> QED BY <1>1, <1>2, AppStep

\* connect(), wait() and the end of the destructor.
LEMMA QuietAppCtl ==
  ASSUME CtlInv, ConnectTask \/ Wait \/ WaitReturn \/ DestroyMembers PROVE CtlInv'
<1>1. UNCHANGED <<backend, kind, pending, stack, pc, left, locked, waiters, reader,
                  cur, failing, conn, inbox, owes, data, wire, fired, cancelq>>
  BY DEF ConnectTask, Wait, WaitReturn, DestroyMembers, reqVars, sendVars, wireVars, mtxVars,
         readVars, netVars
<1>2. /\ app # "cancel" \/ cancelq = <<>>
      /\ app' \in Apps
      /\ app' \in {"connect", "connected", "refused"} =>
           app \in {"connect", "connected", "refused"}
  BY DEF ConnectTask, ConnectAwaiter, Wait, WaitReturn, DestroyMembers, InStep, Idle, Apps
<1> QED BY <1>1, <1>2, AppQuiet

\* The constructor ends.
LEMMA ConstructCtl ==
  ASSUME CtlInv, Construct PROVE CtlInv'
<1>1. UNCHANGED <<backend, kind, pending, pc, left, locked, waiters, cur, failing, conn,
                  inbox, owes, data, wire, fired, cancelq>>
  BY DEF Construct, reqVars, sendVars, wireVars, mtxVars, netVars
<1>2. CASE /\ app \in {"connect", "connected", "refused"}
           /\ app' = "gone"
           /\ UNCHANGED <<stack, reader>>
  BY <1>1, <1>2, AppQuiet DEF Apps
<1>3. CASE /\ app = "connected" /\ app' = "idle" /\ stack' = Enter(READER)
           /\ reader' = "header"
  <2>1. stack = <<>> /\ reader = "none" /\ cancelq = <<>> /\ failing = <<>>
    BY <1>3 DEF CtlInv, StartInv, CancelInv, OnceInv
  <2>2. "header" \in Readers /\ "header" \in RunAt /\ "none" \notin RunAt
    BY ReaderPlaces
  <2>3. stack' \in Seq(Coros) /\ StackInv' /\ CancelInv' /\ StartInv'
    BY <1>1, <1>3, <2>1, <2>2, ReaderResumes
  <2>4. OnceInv'
    BY <1>1, <2>1, OnceSame DEF CtlInv
  <2>5. ResponseInv'
    BY <1>1, <1>3, <2>1, ResponseSame DEF CtlInv
  <2>6. MutexInv' /\ LeftInv'
    BY <1>1 DEF CtlInv, MutexInv, LeftInv
  <2>7. Shape'
    BY <1>1, <1>3, <2>2, <2>3 DEF CtlInv, Shape, Apps
  <2> QED BY <2>3, <2>4, <2>5, <2>6, <2>7 DEF CtlInv
<1> QED BY <1>2, <1>3 DEF Construct

\* An enumeration of a finite set, each member once.
LEMMA SetToSeqOf ==
  ASSUME NEW S, IsFiniteSet(S)
  PROVE  /\ SetToSeq(S) \in Seq(S)
         /\ \A i, j \in DOMAIN SetToSeq(S) : SetToSeq(S)[i] = SetToSeq(S)[j] => i = j
<1> DEFINE n == Cardinality(S)
           q == SetToSeq(S)
<1>1. n \in Nat /\ ExistsBijection(1..n, S)
  BY FS_CardinalityType
<1>2. \E f \in [1..n -> S] : IsInjective(f)
  BY <1>1 DEF ExistsBijection, Bijection, Injection
<1>3. q \in [1..n -> S] /\ IsInjective(q)
  BY <1>2 DEF SetToSeq
<1> HIDE DEF n, q
<1>4. q \in Seq(S) /\ \A i, j \in DOMAIN q : q[i] = q[j] => i = j
  BY <1>1, <1>3 DEF IsInjective
<1> QED BY <1>4 DEF q

\* What cancel_fd() finds registered is suspended on the descriptor.
LEMMA RegisteredOK ==
  ASSUME CtlInv
  PROVE  /\ Registered \in Seq(Coros) /\ CancelOK(Registered, Where(pc, reader))
         /\ Registered # <<>> => backend = "libc"
<1> DEFINE S == {c \in Cids : pc[c] = "sendWait"}
           q == SetToSeq(S)
           m == Where(pc, reader)
<1>1. m[READER] = reader /\ \A c \in Cids : m[c] = pc[c]
  <2>1. pc \in [Cids -> Pcs] /\ reader \in Readers
    BY CtlParts
  <2> QED BY <2>1, WhereMoves
<1>2. S \subseteq Cids /\ IsFiniteSet(S)
  BY CidsFinite
<1>3. q \in Seq(S) /\ \A i, j \in DOMAIN q : q[i] = q[j] => i = j
  BY <1>2, SetToSeqOf
<1>4. /\ \A i \in DOMAIN q : q[i] \in Cids /\ m[q[i]] = "sendWait"
      /\ q \in Seq(Coros) /\ Len(q) \in Nat /\ DOMAIN q = 1..Len(q)
  <2> HIDE DEF q, S, m
  <2>1. Len(q) \in Nat /\ DOMAIN q = 1..Len(q) /\ \A i \in DOMAIN q : q[i] \in S
    BY <1>3
  <2>2. \A x \in S : x \in Cids /\ x \in Coros /\ m[x] = "sendWait"
    BY <1>1 DEF S, Coros
  <2>3. q \in Seq(Coros)
    BY <1>3, <2>2
  <2> QED BY <2>1, <2>2, <2>3
<1>5. backend = "libc" \/ backend = "uring"
  BY ClientAssumption DEF CtlInv, Shape
<1>6. Registered = IF backend = "uring" THEN <<>>
                   ELSE (IF reader \in {"headerWait", "bodyWait"} THEN <<READER>> ELSE <<>>) \o q
  BY DEF Registered
<1> HIDE DEF S, q, m
<1>7. CASE backend = "uring"
  <2>1. Registered = <<>>
    BY <1>6, <1>7
  <2>2. <<>> \in Seq(Coros) /\ CancelOK(<<>>, m)
    BY DEF CancelOK
  <2> QED BY <2>1, <2>2 DEF m
<1>8. CASE backend = "libc" /\ reader \notin {"headerWait", "bodyWait"}
  <2>1. <<>> \in Seq(Coros)
    OBVIOUS
  <2>2. <<>> \o q = q
    BY <1>4
  <2>3. Registered = q
    BY <1>6, <1>8, <2>2
  <2>4. CancelOK(q, m)
    BY <1>3, <1>4 DEF CancelOK
  <2> QED BY <1>4, <1>8, <2>3, <2>4 DEF m
<1>9. CASE backend = "libc" /\ reader \in {"headerWait", "bodyWait"}
  <2> DEFINE k == <<READER>> \o q
  <2>1. <<READER>> \in Seq(Coros) /\ Len(<<READER>>) = 1 /\ <<READER>>[1] = READER
    BY DEF Coros
  <2>2. /\ k \in Seq(Coros) /\ Len(k) = 1 + Len(q)
        /\ \A i \in 1..(1 + Len(q)) : k[i] = IF i <= 1 THEN <<READER>>[i] ELSE q[i - 1]
    BY <1>4, <2>1, ConcatProperties
  <2> HIDE DEF k
  <2>3. DOMAIN k = 1..(1 + Len(q)) /\ k[1] = READER
    BY <1>4, <2>1, <2>2
  <2>4. \A i \in DOMAIN k : i # 1 => i - 1 \in DOMAIN q /\ k[i] = q[i - 1]
    BY <1>4, <2>2, <2>3
  <2>5. \A i \in DOMAIN k : m[k[i]] \in {"headerWait", "bodyWait", "sendWait"}
    BY <1>1, <1>4, <1>9, <2>3, <2>4
  <2>6. \A i, j \in DOMAIN k : k[i] = k[j] => i = j
    <3>1. ASSUME NEW i \in DOMAIN k, NEW j \in DOMAIN k, k[i] = k[j] PROVE i = j
      <4>1. i \in Int /\ j \in Int
        BY <1>4, <2>3
      <4>2. CASE i = 1 \/ j = 1
        BY <1>4, <2>3, <2>4, <3>1, <4>2, ReaderNotCid
      <4>3. CASE i # 1 /\ j # 1
        <5>1. i - 1 = j - 1
          BY <1>3, <2>4, <3>1, <4>3
        <5> QED BY <4>1, <5>1
      <4> QED BY <4>2, <4>3
    <3> QED BY <3>1
  <2>7. CancelOK(k, m)
    BY <2>5, <2>6 DEF CancelOK
  <2>8. Registered = k
    BY <1>6, <1>9 DEF k
  <2> QED BY <1>9, <2>2, <2>7, <2>8 DEF m
<1> QED BY <1>5, <1>7, <1>8, <1>9

\* ~Client() begins.
LEMMA DestroyCtl ==
  ASSUME CtlInv, Destroy PROVE CtlInv'
<1>1. /\ UNCHANGED <<backend, kind, pending, stack, pc, left, locked, waiters, reader,
                     cur, failing, conn, inbox, owes, data, wire, fired>>
      /\ cancelq' = Registered /\ app' = "cancel"
  BY DEF Destroy, reqVars, sendVars, wireVars, mtxVars, readVars, netVars
<1>2. Where(pc, reader)' = Where(pc, reader)
  BY <1>1 DEF Where
<1>3. cancelq' \in Seq(Coros) /\ CancelInv'
  BY <1>1, <1>2, RegisteredOK DEF CancelInv
<1> QED BY <1>1, <1>3, AppStep DEF Apps

\* cancel() of the next coroutine.
LEMMA CancelNextCtl ==
  ASSUME CtlInv, CancelNext PROVE CtlInv'
<1>1. /\ UNCHANGED <<app, backend, kind, left, wire, locked, waiters, conn, inbox, owes,
                     data, fired>>
      /\ app = "cancel" /\ stack = <<>> /\ cancelq # <<>> /\ cancelq' = Tail(cancelq)
      /\ stack' = Append(stack, Head(cancelq))
  BY DEF CancelNext, Enter, mtxVars, netVars, SendFails, sendVars, wireVars
<1>2. PICK h : h = Head(cancelq)
  OBVIOUS
<1> DEFINE m == Where(pc, reader)
<1>3. /\ cancelq \in Seq(Coros) /\ stack \in Seq(Coros) /\ m \in [Coros -> Pcs \cup Readers]
      /\ StackOK(stack, m) /\ CancelOK(cancelq, m)
      /\ m[READER] = reader /\ \A c \in Cids : m[c] = pc[c]
  <2>1. /\ m \in [Coros -> Pcs \cup Readers]
        /\ m[READER] = reader /\ \A c \in Cids : m[c] = pc[c]
    <3>1. pc \in [Cids -> Pcs] /\ reader \in Readers
      BY CtlParts
    <3> QED BY <3>1, WhereMoves
  <2> QED BY <2>1 DEF CtlInv, Shape, StackInv, CancelInv
<1> HIDE DEF m
<1>4. h \in Coros /\ m[h] \in {"headerWait", "bodyWait", "sendWait"} /\ m[h] \notin RunAt
  <2>1. 1 \in DOMAIN cancelq /\ Head(cancelq) = cancelq[1] /\ cancelq[1] \in Coros
    BY <1>1, <1>3
  <2> QED BY <1>2, <1>3, <2>1 DEF CancelOK, RunAt
<1>5. ASSUME NEW v \in RunAt, Where(pc', reader') = [m EXCEPT ![h] = v]
      PROVE  /\ stack' \in Seq(Coros) /\ StackInv' /\ CancelInv' /\ StartInv'
             /\ cancelq' \in Seq(Coros)
  <2>1. StackOK(Append(stack, h), [m EXCEPT ![h] = v]) /\ Append(stack, h) \in Seq(Coros)
    BY <1>1, <1>3, <1>4, StackPush
  <2>2. CancelOK(Tail(cancelq), [m EXCEPT ![h] = v])
    BY <1>1, <1>2, <1>3, CancelPop
  <2>3. StackInv' /\ stack' \in Seq(Coros)
    BY <1>1, <1>2, <1>5, <2>1 DEF StackInv
  <2>4. CancelInv'
    BY <1>1, <1>5, <2>2 DEF CtlInv, CancelInv
  <2>5. StartInv' /\ cancelq' \in Seq(Coros)
    BY <1>1, <1>3 DEF StartInv
  <2> QED BY <2>3, <2>4, <2>5
<1>6. CASE h = READER
  <2>1. ReaderCatch /\ pc' = pc
    BY <1>2, <1>6 DEF CancelNext, sendVars
  <2>2. reader \in {"headerWait", "bodyWait"}
    BY <1>3, <1>4, <1>6, CtlParts DEF Readers
  <2>3. /\ OnceInv' /\ failing' \in Seq(Cids) /\ pending' \subseteq Cids
        /\ cur' \in Cids \cup {0} /\ reader' = "fail"
    BY <1>1, <2>1, <2>2, CatchOnce
  <2>4. "fail" \in Readers /\ "fail" \in RunAt
    BY ReaderPlaces
  <2>5. Where(pc', reader') = [m EXCEPT ![h] = "fail"]
    <3>1. Where(pc, "fail") = [Where(pc, reader) EXCEPT ![READER] = "fail"]
      <4>1. pc \in [Cids -> Pcs] /\ reader \in Readers
        BY CtlParts
      <4> QED BY <2>4, <4>1, WhereMoves
    <3> QED BY <1>6, <2>1, <2>3, <3>1 DEF m
  <2>6. /\ stack' \in Seq(Coros) /\ StackInv' /\ CancelInv' /\ StartInv'
        /\ cancelq' \in Seq(Coros)
    BY <1>5, <2>4, <2>5
  <2>7. ResponseInv' /\ inbox' \in Seq(RespPart)
    BY <1>1, <2>3, ResponseRead DEF CtlInv
  <2> QED BY <1>1, <2>1, <2>3, <2>4, <2>6, <2>7, ReaderStep
<1>7. CASE h # READER
  <2>1. PICK c \in Cids : c = h
    BY <1>4, <1>7 DEF Coros
  <2>2. pc' = [pc EXCEPT ![c] = "failed"] /\ UNCHANGED <<pending, reader, cur, failing>>
    BY <1>2, <1>7, <2>1 DEF CancelNext, SendFails, readVars
  <2>3. pc[c] = "sendWait" /\ left[c] > 0
    <3>1. pc[c] = "sendWait"
      BY <1>3, <1>4, <2>1, CtlParts DEF Pcs
    <3> QED BY <3>1, CtlParts DEF MorePc
  <2>4. /\ "failed" \in RunAt /\ "failed" \in Pcs \ {"none"} /\ "failed" \in HoldPc
        /\ "failed" \notin FreshPc /\ "sendWait" \in HoldPc
    BY Places
  <2>5. Where(pc', reader') = [m EXCEPT ![h] = "failed"]
    <3>1. Where(pc, reader)' = [Where(pc, reader) EXCEPT ![c] = "failed"]
      BY <2>2, <2>4, WhereSender DEF CtlInv
    <3>2. Where(pc, reader)' = Where(pc', reader')
      BY DEF Where
    <3> QED BY <2>1, <3>1, <3>2 DEF m
  <2>6. /\ stack' \in Seq(Coros) /\ StackInv' /\ CancelInv' /\ StartInv'
        /\ cancelq' \in Seq(Coros)
    BY <1>5, <2>4, <2>5
  <2>7. /\ MutexInv' /\ locked' \in BOOLEAN /\ waiters' \in Seq(Cids)
        /\ pc' \in [Cids -> Pcs]
    BY <1>1, <2>2, <2>3, <2>4, MutexHeld
  <2>8. LeftInv'
    BY <1>1, <2>2, <2>3, <2>4, LeftMoves DEF CtlInv
  <2>9. Shape'
    BY <1>1, <2>2, <2>6, <2>7 DEF CtlInv, Shape
  <2>10. OnceInv' /\ ResponseInv'
    <3>1. OnceInv'
      BY <1>1, <2>2 DEF CtlInv, OnceInv
    <3>2. ResponseInv'
      BY <1>1, <2>2, ResponseSame DEF CtlInv
    <3> QED BY <3>1, <3>2
  <2> QED BY <2>6, <2>7, <2>8, <2>9, <2>10 DEF CtlInv
<1> QED BY <1>6, <1>7

-----------------------------------------------------------------------------
(* CtlInv is inductive. *)

\* It holds when the constructor starts.
LEMMA InitCtl == Init => CtlInv
<1> SUFFICES ASSUME Init PROVE CtlInv
  OBVIOUS
<1> USE DEF Init
<1>1. ReqLen \in Nat \ {0}
  BY ClientAssumption
<1>2. Shape
  <2>1. /\ stack \in Seq(Coros) /\ waiters \in Seq(Cids) /\ failing \in Seq(Cids)
        /\ cancelq \in Seq(Coros) /\ inbox \in Seq(RespPart) /\ wire \in Seq(Unit)
    OBVIOUS
  <2>2. kind \in [Cids -> Kinds \cup {"none"}] /\ pc \in [Cids -> Pcs] /\ reader \in Readers
    BY DEF Pcs, Readers
  <2>3. left \in [Cids -> 0..ReqLen] /\ data \in [Cids -> BOOLEAN]
    BY <1>1
  <2>4. /\ backend \in Backends /\ pending \subseteq Cids /\ locked \in BOOLEAN
        /\ app \in Apps
        /\ cur \in Cids \cup {0} /\ owes \in Cids \cup {0}
        /\ conn \in {"open", "eof", "reset"}
    BY DEF Apps
  <2> QED BY <2>1, <2>2, <2>3, <2>4 DEF Shape
<1>3. StackInv
  <2>1. Where(pc, reader)[READER] = "none" /\ \A c \in Cids : Where(pc, reader)[c] = "none"
    <3>1. pc \in [Cids -> Pcs] /\ reader \in Readers
      BY <1>2 DEF Shape
    <3> QED BY <3>1, WhereMoves
  <2>2. "none" \notin RunAt
    BY Places
  <2> QED BY <2>1, <2>2 DEF StackInv, StackOK, Coros
<1>4. MutexInv
  <2>1. \A c \in Cids : pc[c] = "none"
    OBVIOUS
  <2> QED BY <2>1 DEF MutexInv, MutexOK, HoldPc
<1>5. CancelInv /\ StartInv
  BY DEF CancelInv, CancelOK, StartInv
<1>6. OnceInv
  <2>1. \A c \in Cids : kind[c] = "none" /\ fired[c] = 0
    OBVIOUS
  <2> QED BY <2>1 DEF OnceInv, OnceOK
<1>7. LeftInv
  BY <1>1 DEF LeftInv
<1>8. ResponseInv
  BY DEF ResponseInv
<1> QED BY <1>2, <1>3, <1>4, <1>5, <1>6, <1>7, <1>8 DEF CtlInv

\* Every step preserves it.
LEMMA NextCtl ==
  ASSUME CtlInv, [Next]_vars PROVE CtlInv'
<1>1. CASE ServerAnswer
  BY <1>1, ServerAnswerCtl
<1>2. CASE ServerPayload
  BY <1>2, ServerPayloadCtl
<1>3. CASE ServerGarbage
  BY <1>3, ServerGarbageCtl
<1>4. CASE ConnBreak
  BY <1>4, ConnBreakCtl
<1>5. CASE ConnectTask \/ Wait \/ WaitReturn \/ DestroyMembers
  BY <1>5, QuietAppCtl
<1>6. CASE Construct
  BY <1>6, ConstructCtl
<1>7. CASE Destroy
  BY <1>7, DestroyCtl
<1>8. CASE \E c \in Cids : Issue(c)
  BY <1>8, IssueCtl
<1>9. CASE CancelNext
  BY <1>9, CancelNextCtl
<1>10. CASE CallbackReturn
  BY <1>10, CallbackReturnCtl
<1>11. CASE Reader
  BY <1>11, ReaderSuspendCtl, ReaderThrowCtl, ReaderHeaderCtl, ReaderBodyCtl, FailNextCtl
     DEF Reader
<1>12. CASE \E c \in Cids : Sender(c)
  BY <1>12, LockCtl, SendCtl, SendCatchCtl, UnlockCtl, SenderEndCtl DEF Sender
<1>13. CASE ReaderResume
  BY <1>13, ReaderResumeCtl
<1>14. CASE \E c \in Cids : KernelSend(c) \/ SendEvent(c)
  BY <1>14, KernelSendCtl, SendEventCtl
<1>15. CASE UNCHANGED vars
  <2>1. /\ UNCHANGED <<app, kind, pending, stack, pc, left, wire, locked, waiters,
                       reader, cur, failing, cancelq, backend, fired>>
        /\ UNCHANGED <<conn, inbox, owes, data>>
    BY <1>15 DEF vars
  <2>2. ResponseInv'
    BY <2>1 DEF CtlInv, ResponseInv
  <2>3. /\ conn' \in {"open", "eof", "reset"} /\ inbox' \in Seq(RespPart)
        /\ owes' \in Cids \cup {0} /\ data' \in [Cids -> BOOLEAN]
    BY <2>1 DEF CtlInv, Shape
  <2> QED BY <2>1, <2>2, <2>3, NetStep
<1> QED BY <1>1, <1>2, <1>3, <1>4, <1>5, <1>6, <1>7, <1>8, <1>9, <1>10, <1>11, <1>12,
           <1>13, <1>14, <1>15 DEF Next, Server, Application, Coroutine

-----------------------------------------------------------------------------
(* What is on the wire. *)

\* Where a sender may go on to (x) without sending: one that was cut to its end, another
\* one not past sending with something left.
MayMove(lf, p, T, c, x) ==
  IF c \in T THEN x \in CutPc
  ELSE /\ x \in CutPc => x \in {"unlock", "end", "finished"} /\ lf[c] = 0
       /\ \/ x \in {"send", "sendWait", "cqe"}
          \/ p[c] \notin {"send", "sendWait", "cqe"}
          \/ lf[c] = 0

\* A sender moves without sending.
LEMMA FrameMove ==
  ASSUME NEW w, NEW lf, NEW p \in [Cids -> Pcs], NEW T, FrameOK(w, lf, p, T),
         NEW c \in Cids, NEW x \in Pcs, MayMove(lf, p, T, c, x)
  PROVE  FrameOK(w, lf, [p EXCEPT ![c] = x], T)
<1> DEFINE p2 == [p EXCEPT ![c] = x]
<1>1. p2[c] = x /\ \A d \in Cids : d # c => p2[d] = p[d]
  OBVIOUS
<1> HIDE DEF p2
<1>2. ASSUME NEW d \in Cids \ T, 0 < lf[d] /\ lf[d] < ReqLen
      PROVE  w # <<>> /\ w[Len(w)].cid = d /\ p2[d] \in {"send", "sendWait", "cqe"}
  <2>1. w # <<>> /\ w[Len(w)].cid = d /\ p[d] \in {"send", "sendWait", "cqe"}
    BY <1>2 DEF FrameOK
  <2>2. lf[d] # 0
    BY <1>2
  <2> QED BY <1>1, <2>1, <2>2 DEF MayMove
<1>3. \A d \in Cids \ T : p2[d] \in CutPc => p2[d] \in {"unlock", "end", "finished"} /\ lf[d] = 0
  BY <1>1 DEF FrameOK, MayMove
<1>4. \A d \in T : d \in Cids /\ p2[d] \in CutPc
  BY <1>1 DEF FrameOK, MayMove
<1>5. FrameOK(w, lf, p2, T)
  BY <1>2, <1>3, <1>4 DEF FrameOK
<1> QED BY <1>5 DEF p2

\* A send throws: c is cut where it has got to.
LEMMA FrameCut ==
  ASSUME NEW w, NEW lf, NEW p \in [Cids -> Pcs], NEW T, FrameOK(w, lf, p, T), Whole(w, T),
         NEW c \in Cids, NEW x \in {"cqeError", "failed"}
  PROVE  FrameOK(w, lf, [p EXCEPT ![c] = x], T \cup {c}) /\ Whole(w, T \cup {c})
<1> DEFINE p2 == [p EXCEPT ![c] = x]
           T2 == T \cup {c}
<1>1. p2[c] = x /\ \A d \in Cids : d # c => p2[d] = p[d]
  OBVIOUS
<1>2. \A d \in Cids \ T2 : d \in Cids \ T /\ d # c /\ p2[d] = p[d]
  BY <1>1
<1>3. \A d \in T2 : d \in Cids /\ p2[d] \in CutPc
  BY <1>1 DEF FrameOK, CutPc
<1> HIDE DEF p2
<1>4. FrameOK(w, lf, p2, T2)
  <2> HIDE DEF T2
  <2> QED BY <1>2, <1>3 DEF FrameOK
<1>5. Whole(w, T2)
  BY DEF Whole
<1> QED BY <1>4, <1>5 DEF p2

\* The elements of two sequences put together.
LEMMA TwoParts ==
  ASSUME NEW S, NEW w \in Seq(S), NEW u \in Seq(S), NEW n, Len(u) = n
  PROVE  /\ w \o u \in Seq(S) /\ Len(w \o u) = Len(w) + n
         /\ \A i \in 1..(Len(w) + n) : (w \o u)[i] = IF i <= Len(w) THEN w[i] ELSE u[i - Len(w)]
<1>1. w \o u \in Seq(S) /\ Len(w \o u) = Len(w) + n
  BY ConcatProperties
<1>2. \A i \in 1..(Len(w) + n) : (w \o u)[i] = IF i <= Len(w) THEN w[i] ELSE u[i - Len(w)]
  BY ConcatProperties
<1> QED BY <1>1, <1>2

\* The units the socket takes go on where the wire ends.
LEMMA FrameTake ==
  ASSUME NEW w \in Seq(Unit), NEW lf \in [Cids -> 0..ReqLen], NEW p \in [Cids -> Pcs],
         NEW T, FrameOK(w, lf, p, T), Whole(w, T), NEW c \in Cids,
         p[c] \in {"send", "sendWait"},
         \A d \in Cids : p[d] \in HoldPc => d = c,
         NEW n \in 1..lf[c], NEW x \in {"send", "cqe", "unlock"},
         x = "unlock" => n = lf[c]
  PROVE  /\ Whole(w \o [j \in 1..n |-> [cid |-> c, at |-> ReqLen - lf[c] + j]], T)
         /\ FrameOK(w \o [j \in 1..n |-> [cid |-> c, at |-> ReqLen - lf[c] + j]],
                    [lf EXCEPT ![c] = @ - n], [p EXCEPT ![c] = x], T)
<1>1. ReqLen \in Nat \ {0} /\ lf[c] \in 0..ReqLen /\ n \in Nat \ {0} /\ n <= lf[c]
  BY ClientAssumption
<1>2. PICK a \in Nat : a = ReqLen - lf[c] /\ a + n <= ReqLen /\ lf[c] = ReqLen - a
  BY <1>1
<1> DEFINE u == [j \in 1..n |-> [cid |-> c, at |-> ReqLen - lf[c] + j]]
           w2 == w \o u
           l2 == [lf EXCEPT ![c] = @ - n]
           p2 == [p EXCEPT ![c] = x]
<1>3. /\ u \in Seq(Unit) /\ Len(u) = n
      /\ \A j \in 1..n : u[j].cid = c /\ u[j].at = a + j
  <2>1. \A j \in 1..n : ReqLen - lf[c] + j \in 1..ReqLen /\ ReqLen - lf[c] + j = a + j
    BY <1>1, <1>2, SMTT(30)
  <2>2. \A j \in 1..n : [cid |-> c, at |-> ReqLen - lf[c] + j] \in Unit
    BY <2>1 DEF Unit
  <2>3. u \in [1..n -> Unit]
    BY <2>2
  <2>4. u \in Seq(Unit) /\ Len(u) = n
    BY <1>1, <2>3
  <2> QED BY <2>1, <2>4
<1> HIDE DEF u
<1>4. /\ w2 \in Seq(Unit) /\ Len(w2) = Len(w) + n
      /\ \A i \in 1..(Len(w) + n) : w2[i] = IF i <= Len(w) THEN w[i] ELSE u[i - Len(w)]
  <2>1. u \in Seq(Unit) /\ Len(u) = n
    BY <1>3
  <2>2. w2 \in Seq(Unit)
    BY <2>1, TwoParts
  <2>3. Len(w2) = Len(w) + n
    BY <2>1, TwoParts
  <2>4. \A i \in 1..(Len(w) + n) : w2[i] = IF i <= Len(w) THEN w[i] ELSE u[i - Len(w)]
    BY <2>1, TwoParts
  <2> HIDE DEF w2
  <2> QED BY <2>2, <2>3, <2>4
<1>5. /\ p2[c] = x /\ \A d \in Cids : d # c => p2[d] = p[d]
      /\ l2[c] = ReqLen - (a + n) /\ \A d \in Cids : d # c => l2[d] = lf[d]
  BY <1>1, <1>2 DEF HoldPc, Pcs
<1> HIDE DEF w2, l2, p2
<1>6. /\ Len(w) \in Nat /\ DOMAIN w = 1..Len(w) /\ DOMAIN w2 = 1..(Len(w) + n)
      /\ \A i \in DOMAIN w : w[i] \in Unit /\ w[i].cid \in Cids /\ w[i].at \in 1..ReqLen
      /\ w # <<>> => Len(w) \in DOMAIN w
  <2>1. Len(w) \in Nat /\ DOMAIN w = 1..Len(w) /\ (w # <<>> => Len(w) \in DOMAIN w)
    OBVIOUS
  <2>2. DOMAIN w2 = 1..(Len(w) + n)
    BY <1>4
  <2>3. \A i \in DOMAIN w : w[i] \in Unit
    OBVIOUS
  <2>4. \A y \in Unit : y.cid \in Cids /\ y.at \in 1..ReqLen
    BY DEF Unit
  <2> QED BY <2>1, <2>2, <2>3, <2>4
<1>7. a > 0 => w # <<>> /\ w[Len(w)].cid = c /\ w[Len(w)].at = a
  <2>1. c \notin T
    BY DEF FrameOK, CutPc
  <2>2. a > 0 => 0 < lf[c] /\ lf[c] < ReqLen
    BY <1>1, <1>2
  <2>3. a > 0 => w # <<>> /\ w[Len(w)].cid = c
    BY <2>1, <2>2 DEF FrameOK
  <2>4. a > 0 => w[Len(w)].at = ReqLen - lf[c]
    BY <2>3 DEF FrameOK
  <2> QED BY <1>1, <1>2, <2>3, <2>4
<1>8. a = 0 => w = <<>> \/ w[Len(w)].at = ReqLen \/ w[Len(w)].cid \in T
  <2>1. ASSUME a = 0, w # <<>>, w[Len(w)].at # ReqLen, w[Len(w)].cid \notin T PROVE FALSE
    <3>1. PICK d \in Cids : d = w[Len(w)].cid
      BY <1>6, <2>1
    <3>2. w[Len(w)].at = ReqLen - lf[d] /\ w[Len(w)].at \in 1..ReqLen /\ lf[d] \in 0..ReqLen
      BY <1>6, <2>1, <3>1 DEF FrameOK
    <3>3. 0 < lf[d] /\ lf[d] < ReqLen
      BY <1>1, <2>1, <3>2
    <3>4. p[d] \in HoldPc
      BY <2>1, <3>1, <3>3 DEF FrameOK, HoldPc
    <3>5. d = c
      BY <3>4
    <3> QED BY <1>1, <1>2, <2>1, <3>3, <3>5, SMTT(30)
  <2> QED BY <2>1
<1>9. Whole(w2, T)
  <2>1. ASSUME NEW i \in DOMAIN w2
        PROVE  IF w2[i].at = 1 THEN i = 1 \/ w2[i - 1].at = ReqLen \/ w2[i - 1].cid \in T
               ELSE i > 1 /\ w2[i - 1].cid = w2[i].cid /\ w2[i - 1].at = w2[i].at - 1
    <3>1. CASE i \in DOMAIN w
      <4>1. w2[i] = w[i] /\ (i # 1 => i - 1 \in DOMAIN w /\ w2[i - 1] = w[i - 1])
        BY <1>1, <1>4, <1>6, <3>1
      <4> QED BY <1>6, <3>1, <4>1, SMTT(30) DEF Whole
    <3>2. CASE i = Len(w) + 1
      <4>1. w2[i].cid = c /\ w2[i].at = a + 1
        <5>1. i - Len(w) = 1 /\ 1 \in 1..n /\ ~(i <= Len(w)) /\ i \in 1..(Len(w) + n)
          BY <1>1, <1>6, <3>2
        <5>2. w2[i] = u[1]
          BY <1>4, <5>1
        <5> QED BY <1>3, <5>1, <5>2
      <4>2. w # <<>> => i > 1 /\ w2[i - 1] = w[Len(w)]
        BY <1>1, <1>4, <1>6, <3>2
      <4>3. CASE a = 0
        <5>1. w = <<>> => i = 1
          BY <3>2
        <5> QED BY <1>8, <4>1, <4>2, <4>3, <5>1
      <4>4. CASE a > 0
        <5>1. a + 1 # 1 /\ a + 1 - 1 = a
          BY <4>4
        <5> QED BY <1>7, <4>1, <4>2, <4>4, <5>1
      <4> QED BY <4>3, <4>4
    <3>3. CASE i > Len(w) + 1
      <4>1. PICK j \in 2..n : j = i - Len(w)
        BY <1>1, <1>6, <3>3
      <4>2. /\ w2[i] = u[j] /\ w2[i - 1] = u[j - 1] /\ j \in 1..n /\ j - 1 \in 1..n /\ i > 1
        BY <1>1, <1>4, <1>6, <3>3, <4>1, SMTT(30)
      <4>3. w2[i].cid = c /\ w2[i].at = a + j /\ w2[i - 1].cid = c /\ w2[i - 1].at = a + (j - 1)
        BY <1>3, <4>2
      <4>4. a + j # 1 /\ a + (j - 1) = a + j - 1
        BY <4>1
      <4> QED BY <4>2, <4>3, <4>4
    <3> QED BY <1>6, <3>1, <3>2, <3>3
  <2> QED BY <2>1 DEF Whole
<1>10. FrameOK(w2, l2, p2, T)
  <2>1. w2[Len(w2)].cid = c /\ w2[Len(w2)].at = a + n /\ w2 # <<>>
    <3>1. w2[Len(w2)] = u[n] /\ n \in 1..n /\ Len(w2) # 0
      BY <1>1, <1>4, <1>6
    <3> QED BY <1>3, <1>4, <3>1
  <2>2. w2[Len(w2)].at = ReqLen - l2[c]
    BY <1>1, <1>2, <1>5, <2>1, SMTT(30)
  <2>3. ASSUME NEW d \in Cids \ T, 0 < l2[d], l2[d] < ReqLen
        PROVE  w2[Len(w2)].cid = d /\ p2[d] \in {"send", "sendWait", "cqe"}
    <3>1. CASE d = c
      <4>1. n # lf[c]
        <5>1. 0 < ReqLen - (a + n)
          BY <1>5, <2>3, <3>1
        <5> QED BY <1>1, <1>2, <5>1
      <4> QED BY <1>5, <2>1, <3>1, <4>1
    <3>2. CASE d # c
      <4>1. 0 < lf[d] /\ lf[d] < ReqLen
        BY <1>5, <2>3, <3>2
      <4>2. p[d] \in HoldPc
        BY <4>1 DEF FrameOK, HoldPc
      <4> QED BY <3>2, <4>2
    <3> QED BY <3>1, <3>2
  <2>4. \A d \in Cids \ T : p2[d] \in CutPc =>
                              p2[d] \in {"unlock", "end", "finished"} /\ l2[d] = 0
    <3>1. x \in CutPc => x \in {"unlock", "end", "finished"} /\ l2[c] = 0
      BY <1>1, <1>2, <1>5, SMTT(30) DEF CutPc
    <3> QED BY <1>5, <3>1 DEF FrameOK
  <2>5. \A d \in T : d \in Cids /\ p2[d] \in CutPc
    <3>1. c \notin T
      BY DEF FrameOK, CutPc
    <3> QED BY <1>5, <3>1 DEF FrameOK
  <2> QED BY <2>1, <2>2, <2>3, <2>4, <2>5 DEF FrameOK
<1> QED BY <1>9, <1>10 DEF w2, l2, p2, u

\* A step that sends nothing and moves no sender.
LEMMA FrameSame ==
  ASSUME FrameInv, UNCHANGED <<wire, left, cut, pc>>
  PROVE  FrameInv'
BY DEF FrameInv, Whole, FrameOK

\* A sender moves without sending.
LEMMA FrameMoves ==
  ASSUME CtlInv, FrameInv, NEW c \in Cids, NEW x \in Pcs, pc' = [pc EXCEPT ![c] = x],
         UNCHANGED <<wire, left, cut>>, MayMove(left, pc, cut, c, x)
  PROVE  FrameInv'
<1>1. pc \in [Cids -> Pcs] /\ FrameOK(wire, left, pc, cut)
  BY DEF CtlInv, Shape, FrameInv
<1>2. FrameOK(wire, left, [pc EXCEPT ![c] = x], cut)
  BY <1>1, FrameMove
<1>3. FrameOK(wire, left, pc, cut)' /\ Whole(wire, cut)'
  BY <1>2 DEF FrameInv, FrameOK, Whole
<1> QED BY <1>3 DEF FrameInv

\* The socket takes units of the sender that holds the mutex.
LEMMA FrameTakes ==
  ASSUME CtlInv, FrameInv, NEW c \in Cids, pc[c] \in {"send", "sendWait"},
         NEW more \in {"send", "cqe"}, NEW done \in {"cqe", "unlock"},
         TakeUnits(c, more, done)
  PROVE  FrameInv'
<1>1. PICK n \in 1..left[c] :
        /\ wire' = wire \o [j \in 1..n |-> [cid |-> c, at |-> ReqLen - left[c] + j]]
        /\ left' = [left EXCEPT ![c] = @ - n]
        /\ pc' = [pc EXCEPT ![c] = IF n < left[c] THEN more ELSE done]
        /\ cut' = cut
  BY DEF TakeUnits
<1>2. /\ wire \in Seq(Unit) /\ left \in [Cids -> 0..ReqLen] /\ pc \in [Cids -> Pcs]
      /\ pc[c] \in HoldPc
      /\ \A d \in Cids : pc[d] \in HoldPc => d = c
  BY DEF CtlInv, Shape, MutexInv, MutexOK, HoldPc
<1>3. Whole(wire, cut) /\ FrameOK(wire, left, pc, cut)
  BY DEF FrameInv
<1>4. PICK x \in {"send", "cqe", "unlock"} :
        /\ x = IF n < left[c] THEN more ELSE done
        /\ x = "unlock" => n = left[c]
  <2>1. left[c] \in Nat /\ n \in Nat /\ n <= left[c]
    BY <1>2, ClientAssumption
  <2>2. CASE n < left[c]
    BY <2>2
  <2>3. CASE ~(n < left[c])
    BY <2>1, <2>3
  <2> QED BY <2>2, <2>3
<1>5. /\ Whole(wire \o [j \in 1..n |-> [cid |-> c, at |-> ReqLen - left[c] + j]], cut)
      /\ FrameOK(wire \o [j \in 1..n |-> [cid |-> c, at |-> ReqLen - left[c] + j]],
                 [left EXCEPT ![c] = @ - n], [pc EXCEPT ![c] = x], cut)
  BY <1>2, <1>3, <1>4, FrameTake
<1>6. Whole(wire', cut') /\ FrameOK(wire', left', pc', cut')
  BY <1>1, <1>4, <1>5
<1> QED BY <1>6 DEF FrameInv, Whole, FrameOK

\* A send throws.
LEMMA FrameFails ==
  ASSUME CtlInv, FrameInv, NEW c \in Cids, NEW x \in {"cqeError", "failed"}, SendFails(c, x)
  PROVE  FrameInv'
<1>1. /\ wire' = wire /\ left' = left /\ pc' = [pc EXCEPT ![c] = x] /\ cut' = cut \cup {c}
      /\ pc \in [Cids -> Pcs] /\ FrameOK(wire, left, pc, cut) /\ Whole(wire, cut)
  BY DEF SendFails, CtlInv, Shape, FrameInv
<1>2. FrameOK(wire, left, [pc EXCEPT ![c] = x], cut \cup {c}) /\ Whole(wire, cut \cup {c})
  BY <1>1, FrameCut
<1>3. Whole(wire', cut') /\ FrameOK(wire', left', pc', cut')
  BY <1>1, <1>2
<1> QED BY <1>3 DEF FrameInv, Whole, FrameOK

-----------------------------------------------------------------------------
(* FrameInv, one lemma per action that moves a sender. *)

\* send_request() starts.
LEMMA IssueFrame ==
  ASSUME CtlInv, FrameInv, NEW c \in Cids, Issue(c)
  PROVE  FrameInv'
<1>1. /\ UNCHANGED <<wire, left, cut>>
      /\ pc' = [pc EXCEPT ![c] = "lock"] /\ "lock" \in Pcs
  BY DEF Issue, wireVars, Pcs
<1>2. pc[c] = "none"
  BY DEF Issue, CtlInv, LeftInv
<1>3. MayMove(left, pc, cut, c, "lock")
  BY <1>2 DEF MayMove, FrameInv, FrameOK, CutPc
<1> QED BY <1>1, <1>3, FrameMoves

\* It waits for the mutex or takes it.
LEMMA LockFrame ==
  ASSUME CtlInv, FrameInv, NEW c \in Cids, Lock(c)
  PROVE  FrameInv'
<1>1. UNCHANGED <<wire, left, cut>> /\ pc[c] = "lock"
  BY DEF Lock, wireVars
<1>2. PICK x \in {"lockWait", "send"} : pc' = [pc EXCEPT ![c] = x]
  BY DEF Lock
<1>3. x \in Pcs /\ MayMove(left, pc, cut, c, x)
  BY <1>1 DEF Pcs, MayMove, FrameInv, FrameOK, CutPc
<1> QED BY <1>1, <1>2, <1>3, FrameMoves

\* co_await send().
LEMMA SendFrame ==
  ASSUME CtlInv, FrameInv, NEW c \in Cids, Send(c)
  PROVE  FrameInv'
<1>1. pc[c] = "send"
  BY DEF Send
<1>2. CASE TakeUnits(c, "send", "unlock")
  BY <1>1, <1>2, FrameTakes
<1>3. CASE SendFails(c, "failed")
  BY <1>3, FrameFails
<1>4. CASE pc' = [pc EXCEPT ![c] = "sendWait"] /\ UNCHANGED <<wire, left, cut>>
  <2>1. "sendWait" \in Pcs /\ MayMove(left, pc, cut, c, "sendWait")
    BY <1>1 DEF Pcs, MayMove, FrameInv, FrameOK, CutPc
  <2> QED BY <1>4, <2>1, FrameMoves
<1> QED BY <1>2, <1>3, <1>4 DEF Send, wireVars

\* The kernel sends.
LEMMA KernelSendFrame ==
  ASSUME CtlInv, FrameInv, NEW c \in Cids, KernelSend(c)
  PROVE  FrameInv'
<1>1. pc[c] = "sendWait"
  BY DEF KernelSend
<1>2. CASE TakeUnits(c, "cqe", "cqe")
  BY <1>1, <1>2, FrameTakes
<1>3. CASE SendFails(c, "cqeError")
  BY <1>3, FrameFails
<1> QED BY <1>2, <1>3 DEF KernelSend

\* step() resumes a sender.
LEMMA SendEventFrame ==
  ASSUME CtlInv, FrameInv, NEW c \in Cids, SendEvent(c)
  PROVE  FrameInv'
<1>1. CASE pc[c] = "sendWait" /\ TakeUnits(c, "send", "unlock")
  BY <1>1, FrameTakes
<1>2. CASE SendFails(c, "failed")
  BY <1>2, FrameFails
<1>3. CASE /\ pc[c] \in {"cqe", "cqeError"}
           /\ pc' = [pc EXCEPT ![c] = IF pc[c] = "cqeError" THEN "failed"
                                      ELSE IF left[c] = 0 THEN "unlock" ELSE "send"]
           /\ UNCHANGED <<wire, left, cut>>
  <2>1. PICK x \in Pcs : x = IF pc[c] = "cqeError" THEN "failed"
                             ELSE IF left[c] = 0 THEN "unlock" ELSE "send"
    BY DEF Pcs
  <2>2. MayMove(left, pc, cut, c, x)
    BY <1>3, <2>1 DEF MayMove, FrameInv, FrameOK, CutPc
  <2> QED BY <1>3, <2>1, <2>2, FrameMoves
<1> QED BY <1>1, <1>2, <1>3 DEF SendEvent, wireVars

\* The catch block: its send threw.
LEMMA SendCatchFrame ==
  ASSUME CtlInv, FrameInv, NEW c \in Cids, SendCatch(c)
  PROVE  FrameInv'
<1>1. UNCHANGED <<wire, left, cut>> /\ pc[c] = "failed"
  BY DEF SendCatch, wireVars
<1>2. PICK x \in {"callback", "unlock"} : pc' = [pc EXCEPT ![c] = x]
  BY DEF SendCatch
<1>3. x \in Pcs /\ MayMove(left, pc, cut, c, x)
  BY <1>1 DEF Pcs, MayMove, FrameInv, FrameOK, CutPc
<1> QED BY <1>1, <1>2, <1>3, FrameMoves

\* A callback returns.
LEMMA CallbackReturnFrame ==
  ASSUME CtlInv, FrameInv, CallbackReturn
  PROVE  FrameInv'
<1>1. UNCHANGED <<wire, left, cut>>
  BY DEF CallbackReturn, wireVars
<1>2. CASE Last(stack) = READER
  <2>1. pc' = pc
    BY <1>2 DEF CallbackReturn
  <2> QED BY <1>1, <2>1, FrameSame
<1>3. CASE Last(stack) # READER
  <2>1. PICK c \in Cids : c = Last(stack) /\ pc[c] = "callback" /\ pc' = [pc EXCEPT ![c] = "unlock"]
    BY <1>3 DEF CallbackReturn, InCallback
  <2>2. "unlock" \in Pcs /\ MayMove(left, pc, cut, c, "unlock")
    BY <2>1 DEF Pcs, MayMove, FrameInv, FrameOK, CutPc
  <2> QED BY <1>1, <2>1, <2>2, FrameMoves
<1> QED BY <1>2, <1>3

\* The mutex is freed, or handed to a sender that has sent nothing.
LEMMA UnlockFrame ==
  ASSUME CtlInv, FrameInv, NEW c \in Cids, Unlock(c)
  PROVE  FrameInv'
<1>1. UNCHANGED <<wire, left, cut>> /\ pc[c] = "unlock"
  BY DEF Unlock, wireVars
<1>2. /\ FrameOK(wire, left, pc, cut) /\ Whole(wire, cut)
      /\ pc \in [Cids -> Pcs] /\ waiters \in Seq(Cids) /\ "end" \in Pcs /\ "send" \in Pcs
  BY DEF FrameInv, CtlInv, Shape, Pcs
<1>3. MayMove(left, pc, cut, c, "end")
  BY <1>1, <1>2 DEF MayMove, FrameOK, CutPc
<1>4. CASE waiters = <<>>
  <2>1. pc' = [pc EXCEPT ![c] = "end"]
    BY <1>4 DEF Unlock
  <2> QED BY <1>1, <1>2, <1>3, <2>1, FrameMoves
<1>5. CASE waiters # <<>>
  <2>1. PICK d \in Cids : d = Head(waiters) /\ pc[d] = "lockWait"
    <3>1. 1 \in DOMAIN waiters /\ Head(waiters) = waiters[1] /\ waiters[1] \in Cids
      BY <1>2, <1>5
    <3> QED BY <3>1 DEF CtlInv, MutexInv, MutexOK
  <2>2. pc' = [[pc EXCEPT ![c] = "end"] EXCEPT ![d] = "send"]
    BY <1>2, <1>5, <2>1 DEF Unlock
  <2>3. PICK p2 \in [Cids -> Pcs] : p2 = [pc EXCEPT ![c] = "end"]
    BY <1>2
  <2>4. FrameOK(wire, left, [pc EXCEPT ![c] = "end"], cut)
    BY <1>2, <1>3, FrameMove
  <2>5. FrameOK(wire, left, p2, cut) /\ p2[d] = "lockWait"
    BY <1>1, <1>2, <2>1, <2>3, <2>4
  <2>6. MayMove(left, p2, cut, d, "send")
    BY <2>5 DEF MayMove, FrameOK, CutPc
  <2>7. FrameOK(wire, left, [p2 EXCEPT ![d] = "send"], cut)
    BY <1>2, <2>5, <2>6, FrameMove
  <2>8. FrameOK(wire', left', pc', cut') /\ Whole(wire', cut')
    BY <1>1, <1>2, <2>2, <2>3, <2>7
  <2> QED BY <2>8 DEF FrameInv, FrameOK, Whole
<1> QED BY <1>4, <1>5

\* send_request() ends.
LEMMA SenderEndFrame ==
  ASSUME CtlInv, FrameInv, NEW c \in Cids, SenderEnd(c)
  PROVE  FrameInv'
<1>1. /\ UNCHANGED <<wire, left, cut>> /\ pc[c] = "end"
      /\ pc' = [pc EXCEPT ![c] = "finished"] /\ "finished" \in Pcs
  BY DEF SenderEnd, wireVars, Pcs
<1>2. MayMove(left, pc, cut, c, "finished")
  BY <1>1 DEF MayMove, FrameInv, FrameOK, CutPc
<1> QED BY <1>1, <1>2, FrameMoves

\* cancel_fd() resumes reader_loop(), or a sender with an error.
LEMMA CancelNextFrame ==
  ASSUME CtlInv, FrameInv, CancelNext
  PROVE  FrameInv'
<1>1. CASE Head(cancelq) = READER
  <2>1. UNCHANGED <<wire, left, cut, pc>>
    BY <1>1 DEF CancelNext, sendVars, wireVars
  <2> QED BY <2>1, FrameSame
<1>2. CASE Head(cancelq) # READER
  <2>1. Head(cancelq) \in Cids
    BY <1>2 DEF CancelNext, CtlInv, Shape, Coros
  <2>2. SendFails(Head(cancelq), "failed")
    BY <1>2 DEF CancelNext
  <2> QED BY <2>1, <2>2, FrameFails
<1> QED BY <1>1, <1>2

\* The other steps send nothing and move no sender.
LEMMA OtherFrame ==
  ASSUME FrameInv,
         \/ Server \/ ServerGarbage \/ ConnBreak
         \/ ConnectTask \/ Construct \/ Wait \/ WaitReturn \/ Destroy \/ DestroyMembers
         \/ Reader \/ ReaderResume \/ UNCHANGED vars
  PROVE  FrameInv'
<1>1. UNCHANGED <<wire, left, cut, pc>>
  BY DEF Server, ServerAnswer, ServerPayload, ServerGarbage, ConnBreak, ConnectTask,
         Construct, Wait, WaitReturn, Destroy, DestroyMembers, Reader, ReaderSuspend,
         ReaderThrow, ReaderHeader, ReaderBody, FailNext, ReaderResume, sendVars, wireVars,
         vars
<1> QED BY <1>1, FrameSame

\* Nothing was sent.
LEMMA InitFrame == Init => FrameInv
<1> SUFFICES ASSUME Init PROVE FrameInv
  OBVIOUS
<1>1. /\ wire = <<>> /\ ReqLen \in Nat \ {0} /\ cut = {}
      /\ \A c \in Cids : left[c] = ReqLen /\ pc[c] = "none"
  BY ClientAssumption DEF Init
<1>2. Whole(wire, cut)
  BY <1>1 DEF Whole
<1>3. FrameOK(wire, left, pc, cut)
  BY <1>1 DEF FrameOK, CutPc
<1> QED BY <1>2, <1>3 DEF FrameInv

\* Every step keeps the wire in order.
LEMMA NextFrame ==
  ASSUME CtlInv, FrameInv, [Next]_vars
  PROVE  FrameInv'
<1>1. CASE \E c \in Cids : Issue(c)
  BY <1>1, IssueFrame
<1>2. CASE \E c \in Cids : Sender(c)
  BY <1>2, LockFrame, SendFrame, SendCatchFrame, UnlockFrame, SenderEndFrame DEF Sender
<1>3. CASE CallbackReturn
  BY <1>3, CallbackReturnFrame
<1>4. CASE \E c \in Cids : KernelSend(c) \/ SendEvent(c)
  BY <1>4, KernelSendFrame, SendEventFrame
<1>5. CASE CancelNext
  BY <1>5, CancelNextFrame
<1>6. CASE \/ Server \/ ServerGarbage \/ ConnBreak
           \/ ConnectTask \/ Construct \/ Wait \/ WaitReturn \/ Destroy \/ DestroyMembers
           \/ Reader \/ ReaderResume \/ UNCHANGED vars
  BY <1>6, OtherFrame
<1> QED BY <1>1, <1>2, <1>3, <1>4, <1>5, <1>6 DEF Next, Application, Coroutine

-----------------------------------------------------------------------------
(* The theorems. *)

\* CtlInv holds in every reachable state.
LEMMA CtlHolds == Spec => []CtlInv
<1>1. Init => CtlInv
  BY InitCtl
<1>2. CtlInv /\ [Next]_vars => CtlInv'
  BY NextCtl
<1> QED BY <1>1, <1>2, PTL DEF Spec

\* FrameInv holds in every reachable state.
LEMMA FrameHolds == Spec => []FrameInv
<1>1. Init => FrameInv
  BY InitFrame
<1>2. CtlInv /\ FrameInv /\ [Next]_vars => FrameInv'
  BY NextFrame
<1> QED BY <1>1, <1>2, CtlHolds, PTL DEF Spec

\* The variables keep their types; in particular no callback is invoked twice.
THEOREM TypeCorrect == Spec => []TypeOK
<1>1. CtlInv /\ FrameInv => TypeOK
  <2> SUFFICES ASSUME CtlInv, FrameInv PROVE TypeOK
    OBVIOUS
  <2>1. fired \in [Cids -> Nat] /\ \A c \in Cids : fired[c] \in 0..1
    BY DEF CtlInv, OnceInv, OnceOK
  <2>2. fired \in [Cids -> 0..1]
    BY <2>1
  <2>3. cut \subseteq Cids
    BY DEF FrameInv, FrameOK
  <2> QED BY <2>2, <2>3 DEF CtlInv, Shape, TypeOK, Apps, Pcs, Readers, Coros, RespPart, Unit
<1> QED BY <1>1, CtlHolds, FrameHolds, PTL

\* How often a cid is in a copy that holds each once.
LEMMA TimesListed ==
  ASSUME NEW fl \in Seq(Cids), \A i, j \in DOMAIN fl : fl[i] = fl[j] => i = j, NEW c \in Cids
  PROVE  Cardinality({i \in DOMAIN fl : fl[i] = c})
           = IF \E i \in DOMAIN fl : fl[i] = c THEN 1 ELSE 0
<1>1. CASE \E i \in DOMAIN fl : fl[i] = c
  <2>1. PICK i \in DOMAIN fl : fl[i] = c
    BY <1>1
  <2>2. {j \in DOMAIN fl : fl[j] = c} = {i}
    BY <2>1
  <2> QED BY <1>1, <2>2, FS_Singleton
<1>2. CASE ~ \E i \in DOMAIN fl : fl[i] = c
  <2>1. {j \in DOMAIN fl : fl[j] = c} = {}
    BY <1>2
  <2> QED BY <1>2, <2>1, FS_EmptySet
<1> QED BY <1>1, <1>2

(***************************************************************************)
(* No callback is lost and none is invoked twice: a request that was       *)
(* accepted is in _pending, in fail_all_pending()'s copy, or its callback  *)
(* was invoked, and exactly one of these.                                  *)
(***************************************************************************)
THEOREM CallbackOnceHolds == Spec => []CallbackOnce
<1>1. CtlInv => CallbackOnce
  <2> SUFFICES ASSUME CtlInv, NEW c \in Cids
               PROVE  fired[c] + (IF c \in pending THEN 1 ELSE 0)
                        + Cardinality({i \in DOMAIN failing : failing[i] = c})
                      = (IF kind[c] = "none" THEN 0 ELSE 1)
    BY DEF CallbackOnce
  <2>1. /\ failing \in Seq(Cids)
        /\ \A i, j \in DOMAIN failing : failing[i] = failing[j] => i = j
    BY DEF CtlInv, Shape, OnceInv, OnceOK
  <2>2. PICK n : n = Cardinality({i \in DOMAIN failing : failing[i] = c})
    OBVIOUS
  <2>3. n = IF \E i \in DOMAIN failing : failing[i] = c THEN 1 ELSE 0
    BY <2>1, <2>2, TimesListed
  <2>4. IF kind[c] = "none"
        THEN fired[c] = 0 /\ c \notin pending /\ n = 0
        ELSE \/ fired[c] = 1 /\ c \notin pending /\ n = 0
             \/ fired[c] = 0 /\ c \in pending /\ n = 0
             \/ fired[c] = 0 /\ c \notin pending /\ n = 1
    BY <2>3 DEF CtlInv, OnceInv, OnceOK
  <2>5. fired[c] + (IF c \in pending THEN 1 ELSE 0) + n = (IF kind[c] = "none" THEN 0 ELSE 1)
    BY <2>4
  <2> QED BY <2>2, <2>5
<1> QED BY <1>1, CtlHolds, PTL

(***************************************************************************)
(* While reader_loop() waits for a payload its request is pending and is a *)
(* read: neither a send that fails nor the destructor takes it away.       *)
(***************************************************************************)
THEOREM BodyHasTargetHolds == Spec => []BodyHasTarget
<1>1. CtlInv => BodyHasTarget
  <2> SUFFICES ASSUME CtlInv, reader \in {"body", "bodyWait"}
               PROVE  cur \in pending /\ kind[cur] = "read"
    BY DEF BodyHasTarget
  <2>1. cur \in pending /\ data[cur] /\ cur \in Cids
    BY DEF CtlInv, ResponseInv, Shape
  <2> QED BY <2>1 DEF CtlInv, ResponseInv
<1> QED BY <1>1, CtlHolds, PTL

(***************************************************************************)
(* No request starts inside another: on the wire every request is whole or *)
(* broken off, and only where its send threw; also while ~Client() cancels *)
(* a sender and hands _send_mtx on.                                        *)
(***************************************************************************)
THEOREM RequestsWholeHolds == Spec => []RequestsWhole
<1>1. CtlInv /\ FrameInv => RequestsWhole
  <2> SUFFICES ASSUME CtlInv, FrameInv, NEW i \in DOMAIN wire
               PROVE  IF wire[i].at = 1
                      THEN i = 1 \/ wire[i - 1].at = ReqLen \/ wire[i - 1].cid \in cut
                      ELSE i > 1 /\ wire[i - 1] = [wire[i] EXCEPT !.at = @ - 1]
    BY DEF RequestsWhole
  <2>1. Whole(wire, cut) /\ wire \in Seq(Unit)
    BY DEF FrameInv, CtlInv, Shape
  <2>2. IF wire[i].at = 1
        THEN i = 1 \/ wire[i - 1].at = ReqLen \/ wire[i - 1].cid \in cut
        ELSE i > 1 /\ wire[i - 1].cid = wire[i].cid /\ wire[i - 1].at = wire[i].at - 1
    BY <2>1 DEF Whole
  <2>3. DOMAIN wire = 1..Len(wire) /\ Len(wire) \in Nat
    BY <2>1
  <2>4. wire[i] \in Unit /\ (i > 1 => wire[i - 1] \in Unit)
    <3>1. i > 1 => i - 1 \in DOMAIN wire
      BY <2>3
    <3> QED BY <2>1, <3>1
  <2>5. \A y, z \in Unit : y.cid = z.cid /\ y.at = z.at - 1 => y = [z EXCEPT !.at = @ - 1]
    BY DEF Unit
  <2> QED BY <2>2, <2>4, <2>5
<1> QED BY <1>1, CtlHolds, FrameHolds, PTL
=============================================================================
