--------------------------- MODULE SessionProofs ---------------------------
(***************************************************************************)
(* Proofs about Session, for every backend, number and kind of requests    *)
(* and length of a response: send_mtx excludes, what a connection owns     *)
(* outlives its handlers, a response's units stay together on the wire,    *)
(* and an acknowledged write was made.                                     *)
(***************************************************************************)
EXTENDS Session, TLAPS, FiniteSetTheorems, SequenceTheorems

\* Taking the first element off a queue.
LEMMA TailFacts ==
  ASSUME NEW S, NEW q \in Seq(S), q # <<>>
  PROVE  /\ Len(q) \in Nat \ {0} /\ Head(q) = q[1] /\ Head(q) \in S
         /\ Tail(q) \in Seq(S)
         /\ Len(Tail(q)) = Len(q) - 1
         /\ \A i \in 1..(Len(q) - 1) : Tail(q)[i] = q[i + 1]
OBVIOUS

\* Adding an element at the end.
LEMMA AppendFacts ==
  ASSUME NEW S, NEW q \in Seq(S), NEW x \in S
  PROVE  /\ Len(q) \in Nat
         /\ Append(q, x) \in Seq(S)
         /\ Len(Append(q, x)) = Len(q) + 1
         /\ \A i \in 1..Len(q) : Append(q, x)[i] = q[i]
         /\ Append(q, x)[Len(q) + 1] = x
OBVIOUS

-----------------------------------------------------------------------------
(* The invariant. *)

Pcs == {"none", "start", "ioWait", "lock", "lockWait", "send", "sendWait", "unlock",
        "done", "finished"}

\* TypeOK without what is sent and the count, which need the rest of the invariant.
Shape ==
  /\ backend \in Backends
  /\ client \in {"open", "shut", "gone"}
  /\ kind \in [Cids -> AllKinds \cup {"none"}]
  /\ owesBody \in BOOLEAN
  /\ inbox \in Seq(Cids \cup {Body})
  /\ connPc \in {"header", "headerWait", "body", "bodyWait", "drain", "drainWait",
                 "closing", "closed"}
  /\ cur \in Cids \cup {0}
  /\ stack \in Seq(Cids \cup {CONN})
  /\ pc \in [Cids -> Pcs]
  /\ io \in [Cids -> {"none"} \cup Operations \cup Results]
  /\ res \in [Cids -> {"none"} \cup Results]
  /\ locked \in BOOLEAN
  /\ waiters \in Seq(Cids)
  /\ stored \in [Cids -> {"none", "volatile", "durable"}]

\* handle_connection() is still reading, and is reading a payload.
Reading == connPc \in {"header", "headerWait", "body", "bodyWait"}
InBody == connPc \in {"body", "bodyWait"}

IsWrite(x) == x # Body /\ kind[x] \in WriteKinds

(***************************************************************************)
(* What is on its way: each header once, of a request that has no handler  *)
(* yet; after a write's header its payload, and only there.                *)
(***************************************************************************)
InboxInv ==
  /\ \A i, j \in DOMAIN inbox : inbox[i] = inbox[j] /\ inbox[i] # Body => i = j
  /\ \A i \in DOMAIN inbox :
       inbox[i] # Body => pc[inbox[i]] = "none" /\ kind[inbox[i]] # "none"
  /\ Reading =>
       /\ \A i \in DOMAIN inbox :
            inbox[i] = Body <=> IF i = 1 THEN InBody ELSE IsWrite(inbox[i - 1])
       /\ owesBody <=> IF inbox = <<>> THEN InBody ELSE IsWrite(inbox[Len(inbox)])
       /\ InBody => /\ cur # 0 /\ pc[cur] = "none" /\ kind[cur] \in WriteKinds
                    /\ \A i \in DOMAIN inbox : inbox[i] # cur
  /\ \A c \in Cids : pc[c] # "none" => kind[c] \in WriteKinds \cup {"read", "readOver"}

\* Where a coroutine is while it is on the stack.
RunPc == {"start", "lock", "send", "unlock", "done"}
RunConn == {"header", "body", "drain", "closing"}

(***************************************************************************)
(* The stack: handle_connection() at the bottom if at all, in the middle   *)
(* of a spawn(); above it handlers at their last call, which handed the    *)
(* mutex on; and only the innermost coroutine anywhere else.  stk is the   *)
(* stack, p where the handlers are and cp where the connection is.         *)
(***************************************************************************)
StackOK(stk, p, cp) ==
  /\ \A i, j \in DOMAIN stk : stk[i] = stk[j] => i = j
  /\ \A i \in DOMAIN stk :
       stk[i] = CONN => i = 1 /\ cp \in RunConn /\ (Len(stk) > 1 => cp = "header")
  /\ \A i \in DOMAIN stk :
       stk[i] # CONN => p[stk[i]] \in RunPc /\ (i # Len(stk) => p[stk[i]] = "done")
  /\ \A c \in Cids : p[c] \in RunPc => \E i \in DOMAIN stk : stk[i] = c
  /\ cp \in RunConn => \E i \in DOMAIN stk : stk[i] = CONN

StackInv == StackOK(stack, pc, connPc)

\* The handlers that have started and not ended.
AliveOf(p) == {c \in Cids : p[c] \notin {"none", "finished"}}

(***************************************************************************)
(* wg counts the handlers, and the connection goes on past wg.wait() only  *)
(* when there are none.                                                    *)
(***************************************************************************)
CountInv ==
  /\ remaining = Cardinality(AliveOf(pc))
  /\ connPc \in {"closing", "closed"} => AliveOf(pc) = {}

\* Where a handler holds send_mtx, and where it has none of it.
HoldPc == {"send", "sendWait", "unlock"}
FreePc == Pcs \ (HoldPc \cup {"lockWait"})

(***************************************************************************)
(* MutexCorrect, as a relation of where the handlers are (p), _locked (lk) *)
(* and the queue of waiters (ws).                                          *)
(***************************************************************************)
MutexOK(p, lk, ws) ==
  /\ \A c, d \in Cids : p[c] \in HoldPc /\ p[d] \in HoldPc => c = d
  /\ lk <=> \E c \in Cids : p[c] \in HoldPc
  /\ \A c \in Cids : p[c] = "lockWait" <=> \E i \in DOMAIN ws : ws[i] = c
  /\ \A i, j \in DOMAIN ws : ws[i] = ws[j] => i = j

MutexInv == MutexOK(pc, locked, waiters)

\* Where a handler is with its file operation.
Stage(c) == IF pc[c] \in {"none", "start"} THEN "before"
            ELSE IF pc[c] = "ioWait" THEN "during" ELSE "after"

\* The handler has its result.
HasRes(c) == pc[c] \notin {"none", "start", "ioWait"}

(***************************************************************************)
(* Of each request: its operation is in the kernel only while its handler  *)
(* waits for it, and is the one the request asks for; an operation that    *)
(* completed with "ok" did what it should, and only such a one makes a     *)
(* positive answer.                                                        *)
(***************************************************************************)
StoredFor(c) ==
  /\ Stage(c) = "before" => io[c] = "none"
  /\ io[c] \in Operations => Stage(c) = "during" /\ io[c] = Operation(c)
  /\ io[c] = "ok" /\ kind[c] \in WriteKinds =>
       stored[c] = (IF kind[c] = "writeSync" THEN "durable" ELSE "volatile")
  /\ res[c] = "ok" => io[c] = "ok"
  /\ Stage(c) # "after" => res[c] = "none"

StoredInv == \A c \in Cids : StoredFor(c)

CtlInv == Shape /\ InboxInv /\ StackInv /\ MutexInv /\ CountInv /\ StoredInv

-----------------------------------------------------------------------------
(* What is sent. *)

Unit == [cid : Cids, at : 1..(HeaderLen + PayloadLen)]

\* The units a to b of the response to c.
CidUnits(c, a, b) == {[cid |-> c, at |-> x] : x \in a..b}

\* The length of each response.
Lens == [c \in Cids |-> ResponseLen(c)]

\* The iovec stands for the units a to b of a response, in one part or in two.
Covers(iov, a, b) ==
  \/ iov = <<[at |-> a, len |-> b - a + 1]>>
  \/ \E m \in a..(b - 1) :
       iov = <<[at |-> a, len |-> m - a + 1], [at |-> m + 1, len |-> b - m]>>

(***************************************************************************)
(* FramesWhole of the units w when L[c] is the length of the response to c *)
(* and T the handlers that threw, and no unit is past the end of its       *)
(* response.                                                               *)
(***************************************************************************)
Whole(w, L, T) ==
  /\ \A i \in DOMAIN w :
       IF w[i].at = 1
       THEN i = 1 \/ w[i - 1].at = L[w[i - 1].cid] \/ w[i - 1].cid \in T
       ELSE i > 1 /\ w[i - 1].cid = w[i].cid /\ w[i - 1].at = w[i].at - 1
  /\ \A i, j \in DOMAIN w : w[i] = w[j] => i = j
  /\ \A i \in DOMAIN w : w[i].at <= L[w[i].cid]

\* The last response is complete, or its handler threw.
EndWhole(w, L, T) ==
  w = <<>> \/ w[Len(w)].at = L[w[Len(w)].cid] \/ w[Len(w)].cid \in T

\* The units of c on the wire are its first a - 1, and if there are any they come last.
SentUpTo(w, c, a) ==
  /\ \A i \in DOMAIN w : w[i].cid = c => w[i].at < a
  /\ a > 1 => w # <<>> /\ w[Len(w)] = [cid |-> c, at |-> a - 1]

WaitPc == {"lock", "lockWait"}
SendPc == {"send", "sendWait"}
OverPc == {"unlock", "done", "finished"}

(***************************************************************************)
(* What is on the wire and what is left to send: a handler that waits for  *)
(* the mutex has sent nothing, the one that has it is somewhere in its     *)
(* response and what it has sent is the end of the wire; when nobody is    *)
(* sending, the wire ends with a whole response or one whose handler threw.*)
(***************************************************************************)
FrameInv ==
  /\ wire \in Seq(Unit) /\ rest \in [Cids -> Seq(Part)] /\ threw \subseteq Cids
  /\ Whole(wire, Lens, threw)
  /\ \A i \in DOMAIN wire : HasRes(wire[i].cid)
  /\ \A c \in Cids : pc[c] \in WaitPc =>
       Covers(rest[c], 1, Lens[c]) /\ \A i \in DOMAIN wire : wire[i].cid # c
  /\ \A c \in Cids : pc[c] \in SendPc =>
       \E a \in 1..Lens[c] : /\ Covers(rest[c], a, Lens[c]) /\ SentUpTo(wire, c, a)
                             /\ a = 1 => EndWhole(wire, Lens, threw)
  /\ (\A c \in Cids : pc[c] \notin SendPc) => EndWhole(wire, Lens, threw)
  /\ \A c \in Cids : pc[c] \in OverPc /\ c \notin threw =>
       \E i \in DOMAIN wire : wire[i].cid = c /\ wire[i].at = Lens[c]

-----------------------------------------------------------------------------
(* The stack. *)

\* The connection is not a request.
LEMMA ConnNotCid == CONN \notin Cids /\ Body \notin Cids /\ 0 \notin Cids
BY SessionAssumption DEF CONN, Body, Cids

\* Who runs is the innermost coroutine, and it is there once.
LEMMA TopOf ==
  ASSUME NEW stk \in Seq(Cids \cup {CONN}), stk # <<>>, NEW p, NEW cp, StackOK(stk, p, cp)
  PROVE  /\ Len(stk) \in Nat \ {0} /\ Len(stk) \in DOMAIN stk /\ Last(stk) = stk[Len(stk)]
         /\ Last(stk) # CONN => p[Last(stk)] \in RunPc
         /\ Last(stk) = CONN => stk = <<CONN>> /\ cp \in RunConn
<1>1. Len(stk) \in Nat \ {0} /\ Len(stk) \in DOMAIN stk /\ Last(stk) = stk[Len(stk)]
  BY DEF Last
<1>2. Last(stk) # CONN => p[Last(stk)] \in RunPc
  BY <1>1 DEF StackOK
<1>3. ASSUME Last(stk) = CONN PROVE stk = <<CONN>> /\ cp \in RunConn
  <2>1. Len(stk) = 1 /\ cp \in RunConn
    BY <1>1, <1>3 DEF StackOK
  <2>2. stk[1] = CONN
    BY <1>1, <1>3, <2>1
  <2>3. stk = <<stk[1]>>
    BY <2>1
  <2> QED BY <2>1, <2>2, <2>3
<1> QED BY <1>1, <1>2, <1>3

\* The innermost handler goes on.
LEMMA StackGoOn ==
  ASSUME NEW stk \in Seq(Cids \cup {CONN}), NEW p \in [Cids -> Pcs], NEW cp,
         StackOK(stk, p, cp), stk # <<>>, NEW c \in Cids, Last(stk) = c, NEW x \in RunPc
  PROVE  StackOK(stk, [p EXCEPT ![c] = x], cp)
<1> DEFINE p2 == [p EXCEPT ![c] = x]
<1>1. p2[c] = x /\ \A d \in Cids : d # c => p2[d] = p[d]
  OBVIOUS
<1>2. /\ Len(stk) \in DOMAIN stk /\ stk[Len(stk)] = c /\ p[c] \in RunPc
      /\ \A i \in DOMAIN stk : stk[i] \in Cids \cup {CONN}
  BY TopOf, ConnNotCid
<1> HIDE DEF p2
<1>3. \A i \in DOMAIN stk :
        stk[i] # CONN => p2[stk[i]] \in RunPc /\ (i # Len(stk) => p2[stk[i]] = "done")
  BY <1>1, <1>2 DEF StackOK
<1>4. \A d \in Cids : p2[d] \in RunPc => \E i \in DOMAIN stk : stk[i] = d
  BY <1>1, <1>2 DEF StackOK
<1>5. StackOK(stk, p2, cp)
  BY <1>3, <1>4 DEF StackOK
<1> QED BY <1>5 DEF p2

\* The innermost handler suspends or ends.
LEMMA StackPop ==
  ASSUME NEW stk \in Seq(Cids \cup {CONN}), NEW p \in [Cids -> Pcs], NEW cp,
         StackOK(stk, p, cp), stk # <<>>, NEW c \in Cids, Last(stk) = c,
         NEW x \in Pcs \ RunPc
  PROVE  /\ StackOK(Front(stk), [p EXCEPT ![c] = x], cp)
         /\ Front(stk) \in Seq(Cids \cup {CONN})
<1> DEFINE p2 == [p EXCEPT ![c] = x]
           s2 == Front(stk)
<1>1. p2[c] = x /\ \A d \in Cids : d # c => p2[d] = p[d]
  OBVIOUS
<1>2. /\ Len(stk) \in DOMAIN stk /\ stk[Len(stk)] = c /\ p[c] \in RunPc
      /\ \A i \in DOMAIN stk : stk[i] \in Cids \cup {CONN}
      /\ Len(stk) \in Nat \ {0} /\ DOMAIN stk = 1..Len(stk)
  BY TopOf, ConnNotCid
<1>3. /\ s2 \in Seq(Cids \cup {CONN}) /\ Len(s2) = Len(stk) - 1
      /\ \A i \in 1..(Len(stk) - 1) : s2[i] = stk[i]
  BY <1>2 DEF Front
<1> HIDE DEF p2, s2
<1>4. DOMAIN s2 = 1..(Len(stk) - 1)
  BY <1>3
<1>5. \A i \in DOMAIN s2 : /\ i \in DOMAIN stk /\ i # Len(stk) /\ s2[i] = stk[i]
                           /\ stk[i] # c
  BY <1>2, <1>3, <1>4 DEF StackOK
<1>6. \A i \in DOMAIN stk : stk[i] # c => i \in DOMAIN s2 /\ s2[i] = stk[i]
  BY <1>2, <1>3, <1>4
<1>7. \A i, j \in DOMAIN s2 : s2[i] = s2[j] => i = j
  BY <1>5 DEF StackOK
<1>8. \A i \in DOMAIN s2 :
        s2[i] = CONN => i = 1 /\ cp \in RunConn /\ (Len(s2) > 1 => cp = "header")
  BY <1>2, <1>3, <1>5 DEF StackOK
<1>9. \A i \in DOMAIN s2 :
        s2[i] # CONN => p2[s2[i]] \in RunPc /\ (i # Len(s2) => p2[s2[i]] = "done")
  BY <1>1, <1>2, <1>5 DEF StackOK, RunPc
<1>10. \A d \in Cids : p2[d] \in RunPc => \E i \in DOMAIN s2 : s2[i] = d
  BY <1>1, <1>6 DEF StackOK
<1>11. cp \in RunConn => \E i \in DOMAIN s2 : s2[i] = CONN
  BY <1>6, ConnNotCid DEF StackOK
<1>12. StackOK(s2, p2, cp)
  BY <1>7, <1>8, <1>9, <1>10, <1>11 DEF StackOK
<1> QED BY <1>3, <1>12 DEF p2, s2

\* A handler that was not running is resumed, by a coroutine that will do nothing more
\* than end, by a spawn(), or by step().
LEMMA StackPush ==
  ASSUME NEW stk \in Seq(Cids \cup {CONN}), NEW p \in [Cids -> Pcs], NEW cp,
         StackOK(stk, p, cp), NEW c \in Cids, p[c] \notin RunPc, NEW x \in RunPc,
         stk # <<>> => IF Last(stk) = CONN THEN cp = "header" ELSE p[Last(stk)] = "done"
  PROVE  /\ StackOK(Append(stk, c), [p EXCEPT ![c] = x], cp)
         /\ Append(stk, c) \in Seq(Cids \cup {CONN})
<1> DEFINE p2 == [p EXCEPT ![c] = x]
           s2 == Append(stk, c)
<1>1. p2[c] = x /\ \A d \in Cids : d # c => p2[d] = p[d]
  OBVIOUS
<1>2. /\ \A i \in DOMAIN stk : stk[i] \in Cids \cup {CONN}
      /\ Len(stk) \in Nat /\ DOMAIN stk = 1..Len(stk)
  OBVIOUS
<1>3. /\ s2 \in Seq(Cids \cup {CONN}) /\ Len(s2) = Len(stk) + 1
      /\ \A i \in 1..Len(stk) : s2[i] = stk[i]
      /\ s2[Len(stk) + 1] = c
  BY AppendFacts
<1> HIDE DEF p2, s2
<1>4. DOMAIN s2 = 1..(Len(stk) + 1)
  BY <1>3
<1>5. /\ DOMAIN s2 = DOMAIN stk \cup {Len(stk) + 1}
      /\ \A i \in DOMAIN stk : i # Len(stk) + 1 /\ s2[i] = stk[i]
  BY <1>2, <1>3, <1>4
<1>6. \A i \in DOMAIN stk : stk[i] # c
  BY ConnNotCid DEF StackOK
<1>7. \A i \in DOMAIN stk : stk[i] # CONN => p[stk[i]] = "done"
  <2>1. stk # <<>> => Last(stk) = stk[Len(stk)]
    BY DEF Last
  <2>2. ASSUME NEW i \in DOMAIN stk, stk[i] # CONN PROVE p[stk[i]] = "done"
    <3>1. stk # <<>>
      BY <1>2, <2>2
    <3> QED BY <2>1, <2>2, <3>1 DEF StackOK
  <2> QED BY <2>2
<1>8. \A i \in DOMAIN stk : stk[i] = CONN => cp = "header"
  <2>1. ASSUME NEW i \in DOMAIN stk, stk[i] = CONN PROVE cp = "header"
    <3>1. i = 1 /\ (Len(stk) > 1 => cp = "header")
      BY <2>1 DEF StackOK
    <3>2. CASE Len(stk) = 1
      <4>1. stk # <<>>
        BY <1>2, <2>1
      <4>2. Last(stk) = stk[1]
        BY <3>2 DEF Last
      <4> QED BY <2>1, <3>1, <4>1, <4>2
    <3> QED BY <1>2, <2>1, <3>1, <3>2
  <2> QED BY <2>1
<1>9. \A i, j \in DOMAIN s2 : s2[i] = s2[j] => i = j
  BY <1>3, <1>5, <1>6 DEF StackOK
<1>10. \A i \in DOMAIN s2 :
         s2[i] = CONN => i = 1 /\ cp \in RunConn /\ (Len(s2) > 1 => cp = "header")
  BY <1>3, <1>5, <1>8, ConnNotCid DEF StackOK
<1>11. \A i \in DOMAIN s2 :
         s2[i] # CONN => p2[s2[i]] \in RunPc /\ (i # Len(s2) => p2[s2[i]] = "done")
  BY <1>1, <1>2, <1>3, <1>5, <1>6, <1>7 DEF StackOK
<1>12. \A d \in Cids : p2[d] \in RunPc => \E i \in DOMAIN s2 : s2[i] = d
  BY <1>1, <1>3, <1>5 DEF StackOK
<1>13. cp \in RunConn => \E i \in DOMAIN s2 : s2[i] = CONN
  BY <1>5 DEF StackOK
<1>14. StackOK(s2, p2, cp)
  BY <1>9, <1>10, <1>11, <1>12, <1>13 DEF StackOK
<1> QED BY <1>3, <1>14 DEF p2, s2

\* handle_connection() goes on, suspends, ends, or is resumed by step().
LEMMA StackConn ==
  ASSUME NEW stk \in Seq(Cids \cup {CONN}), NEW p \in [Cids -> Pcs], NEW cp,
         StackOK(stk, p, cp), NEW cp2
  PROVE  /\ stk = <<CONN>> /\ cp2 \in RunConn => StackOK(<<CONN>>, p, cp2)
         /\ stk = <<CONN>> /\ cp2 \notin RunConn => StackOK(<<>>, p, cp2)
         /\ stk = <<>> /\ cp2 \in RunConn => StackOK(<<CONN>>, p, cp2)
<1>1. stk = <<CONN>> \/ stk = <<>> => \A c \in Cids : p[c] \notin RunPc
  <2>1. ASSUME stk = <<CONN>> \/ stk = <<>>, NEW c \in Cids PROVE p[c] \notin RunPc
    <3>1. \A i \in DOMAIN stk : stk[i] = CONN
      BY <2>1
    <3> QED BY <2>1, <3>1, ConnNotCid DEF StackOK
  <2> QED BY <2>1
<1>2. ASSUME \A c \in Cids : p[c] \notin RunPc, cp2 \in RunConn
      PROVE  StackOK(<<CONN>>, p, cp2)
  <2> DEFINE s2 == <<CONN>>
  <2>1. DOMAIN s2 = {1} /\ Len(s2) = 1 /\ s2[1] = CONN
    OBVIOUS
  <2> HIDE DEF s2
  <2>2. StackOK(s2, p, cp2)
    BY <1>2, <2>1 DEF StackOK
  <2> QED BY <2>2 DEF s2
<1>3. ASSUME \A c \in Cids : p[c] \notin RunPc, cp2 \notin RunConn
      PROVE  StackOK(<<>>, p, cp2)
  BY <1>3 DEF StackOK
<1> QED BY <1>1, <1>2, <1>3

-----------------------------------------------------------------------------
(* send_mtx. *)

\* A handler that neither takes nor leaves the mutex nor its queue goes on.
LEMMA MutexSame ==
  ASSUME NEW p \in [Cids -> Pcs], NEW lk, NEW ws, MutexOK(p, lk, ws),
         NEW c \in Cids, NEW x \in Pcs,
         \/ p[c] \in FreePc /\ x \in FreePc
         \/ p[c] \in HoldPc /\ x \in HoldPc
  PROVE  MutexOK([p EXCEPT ![c] = x], lk, ws)
<1> DEFINE p2 == [p EXCEPT ![c] = x]
<1>1. p2[c] = x /\ \A d \in Cids : d # c => p2[d] = p[d]
  OBVIOUS
<1> HIDE DEF p2
<1>2. \A d \in Cids : /\ p2[d] \in HoldPc <=> p[d] \in HoldPc
                      /\ p2[d] = "lockWait" <=> p[d] = "lockWait"
  BY <1>1 DEF FreePc, HoldPc
<1>3. MutexOK(p2, lk, ws)
  BY <1>2 DEF MutexOK
<1> QED BY <1>3 DEF p2

\* lock_guard() finds the mutex locked.
LEMMA MutexWait ==
  ASSUME NEW p \in [Cids -> Pcs], NEW lk, NEW ws \in Seq(Cids), MutexOK(p, lk, ws),
         NEW c \in Cids, p[c] \in FreePc
  PROVE  MutexOK([p EXCEPT ![c] = "lockWait"], lk, Append(ws, c))
<1> DEFINE p2 == [p EXCEPT ![c] = "lockWait"]
           w2 == Append(ws, c)
<1>1. p2[c] = "lockWait" /\ \A d \in Cids : d # c => p2[d] = p[d]
  OBVIOUS
<1>2. Len(ws) \in Nat /\ DOMAIN ws = 1..Len(ws)
  OBVIOUS
<1>3. /\ w2 \in Seq(Cids) /\ Len(w2) = Len(ws) + 1
      /\ \A i \in 1..Len(ws) : w2[i] = ws[i]
      /\ w2[Len(ws) + 1] = c
  BY AppendFacts
<1> HIDE DEF p2, w2
<1>4. DOMAIN w2 = 1..(Len(ws) + 1)
  BY <1>3
<1>5. /\ DOMAIN w2 = DOMAIN ws \cup {Len(ws) + 1}
      /\ \A i \in DOMAIN ws : i # Len(ws) + 1 /\ w2[i] = ws[i]
  BY <1>2, <1>3, <1>4
<1>6. p[c] # "lockWait" /\ p[c] \notin HoldPc /\ p2[c] \notin HoldPc
  BY <1>1 DEF FreePc, HoldPc
<1>7. \A i \in DOMAIN ws : ws[i] # c
  BY <1>6 DEF MutexOK
<1>8. \A d \in Cids : p2[d] \in HoldPc <=> p[d] \in HoldPc
  BY <1>1, <1>6
<1>9. \A d \in Cids : p2[d] = "lockWait" <=> \E i \in DOMAIN w2 : w2[i] = d
  <2>1. \A d \in Cids : (\E i \in DOMAIN w2 : w2[i] = d) <=>
                          (d = c \/ \E i \in DOMAIN ws : ws[i] = d)
    BY <1>3, <1>5
  <2> QED BY <1>1, <2>1 DEF MutexOK
<1>10. \A i, j \in DOMAIN w2 : w2[i] = w2[j] => i = j
  BY <1>3, <1>5, <1>7 DEF MutexOK
<1>11. MutexOK(p2, lk, w2)
  BY <1>8, <1>9, <1>10 DEF MutexOK
<1> QED BY <1>11 DEF p2, w2

\* lock_guard() finds it free.
LEMMA MutexTake ==
  ASSUME NEW p \in [Cids -> Pcs], NEW ws, MutexOK(p, FALSE, ws),
         NEW c \in Cids, p[c] \in FreePc
  PROVE  MutexOK([p EXCEPT ![c] = "send"], TRUE, ws)
<1> DEFINE p2 == [p EXCEPT ![c] = "send"]
<1>1. p2[c] = "send" /\ \A d \in Cids : d # c => p2[d] = p[d]
  OBVIOUS
<1> HIDE DEF p2
<1>2. p[c] # "lockWait" /\ p2[c] # "lockWait" /\ p2[c] \in HoldPc
  BY <1>1 DEF FreePc, HoldPc
<1>3. \A d \in Cids : p[d] \notin HoldPc
  BY DEF MutexOK
<1>4. \A d \in Cids : p2[d] \in HoldPc <=> d = c
  BY <1>1, <1>2, <1>3
<1>5. \A d \in Cids : p2[d] = "lockWait" <=> p[d] = "lockWait"
  BY <1>1, <1>2
<1>6. MutexOK(p2, TRUE, ws)
  BY <1>4, <1>5 DEF MutexOK
<1> QED BY <1>6 DEF p2

\* The guard's destructor gives it up.
LEMMA MutexFree ==
  ASSUME NEW p \in [Cids -> Pcs], NEW lk, NEW ws, MutexOK(p, lk, ws),
         NEW c \in Cids, p[c] \in HoldPc, NEW x \in FreePc
  PROVE  MutexOK([p EXCEPT ![c] = x], FALSE, ws)
<1> DEFINE p2 == [p EXCEPT ![c] = x]
<1>1. p2[c] = x /\ \A d \in Cids : d # c => p2[d] = p[d]
  BY DEF FreePc
<1> HIDE DEF p2
<1>2. p[c] # "lockWait" /\ p2[c] # "lockWait" /\ p2[c] \notin HoldPc
  BY <1>1 DEF FreePc, HoldPc
<1>3. \A d \in Cids : p2[d] \notin HoldPc
  BY <1>1, <1>2 DEF MutexOK
<1>4. \A d \in Cids : p2[d] = "lockWait" <=> p[d] = "lockWait"
  BY <1>1, <1>2
<1>5. MutexOK(p2, FALSE, ws)
  BY <1>3, <1>4 DEF MutexOK
<1> QED BY <1>5 DEF p2

\* The one who waited longest has it.
LEMMA MutexPass ==
  ASSUME NEW p \in [Cids -> Pcs], NEW ws \in Seq(Cids), MutexOK(p, FALSE, ws), ws # <<>>
  PROVE  /\ MutexOK([p EXCEPT ![Head(ws)] = "send"], TRUE, Tail(ws))
         /\ Head(ws) \in Cids /\ p[Head(ws)] = "lockWait" /\ Tail(ws) \in Seq(Cids)
<1>1. /\ Len(ws) \in Nat /\ DOMAIN ws = 1..Len(ws) /\ 1 \in DOMAIN ws
      /\ Head(ws) = ws[1] /\ Head(ws) \in Cids
  OBVIOUS
<1>2. PICK h \in Cids : h = Head(ws)
  BY <1>1
<1> DEFINE p2 == [p EXCEPT ![h] = "send"]
           w2 == Tail(ws)
<1>3. p2[h] = "send" /\ \A d \in Cids : d # h => p2[d] = p[d]
  OBVIOUS
<1>4. /\ w2 \in Seq(Cids) /\ Len(w2) = Len(ws) - 1
      /\ \A i \in 1..(Len(ws) - 1) : w2[i] = ws[i + 1]
  BY TailFacts
<1> HIDE DEF p2, w2
<1>5. DOMAIN w2 = 1..(Len(ws) - 1)
  BY <1>4
<1>6. p[h] = "lockWait" /\ p2[h] \in HoldPc /\ p2[h] # "lockWait"
  BY <1>1, <1>2, <1>3 DEF MutexOK, HoldPc
<1>7. \A d \in Cids : p2[d] \in HoldPc <=> d = h
  BY <1>3, <1>6 DEF MutexOK
<1>8. \A i \in DOMAIN w2 : i + 1 \in DOMAIN ws /\ w2[i] = ws[i + 1] /\ i + 1 # 1
  BY <1>1, <1>4, <1>5
<1>9. \A i \in DOMAIN ws : i # 1 => i - 1 \in DOMAIN w2 /\ w2[i - 1] = ws[i]
  BY <1>1, <1>4, <1>5
<1>10. \A i \in DOMAIN w2 : w2[i] # h
  BY <1>1, <1>2, <1>8 DEF MutexOK
<1>11. \A d \in Cids : p2[d] = "lockWait" <=> \E i \in DOMAIN w2 : w2[i] = d
  <2>1. ASSUME NEW d \in Cids, d # h
        PROVE  (\E i \in DOMAIN w2 : w2[i] = d) <=> (\E i \in DOMAIN ws : ws[i] = d)
    BY <1>1, <1>2, <1>8, <1>9, <2>1
  <2> QED BY <1>3, <1>6, <1>10, <2>1 DEF MutexOK
<1>12. \A i, j \in DOMAIN w2 : w2[i] = w2[j] => i = j
  <2>1. ASSUME NEW i \in DOMAIN w2, NEW j \in DOMAIN w2, w2[i] = w2[j] PROVE i = j
    <3>1. i + 1 = j + 1
      BY <1>8, <2>1 DEF MutexOK
    <3> QED BY <1>5, <3>1
  <2> QED BY <2>1
<1>13. MutexOK(p2, TRUE, w2)
  BY <1>7, <1>11, <1>12 DEF MutexOK
<1> QED BY <1>1, <1>2, <1>4, <1>6, <1>13 DEF p2, w2

-----------------------------------------------------------------------------
(* wg. *)

\* There are finitely many of them, and none exactly when their number is 0.
LEMMA AliveFinite ==
  ASSUME NEW p
  PROVE  /\ IsFiniteSet(AliveOf(p)) /\ Cardinality(AliveOf(p)) \in 0..MaxReqs
         /\ Cardinality(AliveOf(p)) = 0 <=> AliveOf(p) = {}
<1>1. MaxReqs \in Nat
  BY SessionAssumption
<1>2. IsFiniteSet(Cids) /\ Cardinality(Cids) = MaxReqs
  <2>1. 1 \in Int /\ MaxReqs \in Int
    BY <1>1
  <2> QED BY <1>1, <2>1, FS_Interval DEF Cids
<1>3. AliveOf(p) \subseteq Cids
  BY DEF AliveOf
<1>4. IsFiniteSet(AliveOf(p)) /\ Cardinality(AliveOf(p)) <= Cardinality(Cids)
  BY <1>2, <1>3, FS_Subset
<1>5. Cardinality(AliveOf(p)) \in Nat
  BY <1>4, FS_CardinalityType
<1>6. Cardinality(AliveOf(p)) = 0 <=> AliveOf(p) = {}
  BY <1>4, FS_EmptySet
<1> QED BY <1>1, <1>2, <1>4, <1>5, <1>6

\* A handler that goes on is counted as before; one that starts counts one more, one
\* that ends one less.
LEMMA AliveStep ==
  ASSUME NEW p \in [Cids -> Pcs], NEW c \in Cids, NEW x \in Pcs
  PROVE  /\ p[c] \notin {"none", "finished"} /\ x \notin {"none", "finished"} =>
              AliveOf([p EXCEPT ![c] = x]) = AliveOf(p)
         /\ p[c] = "none" /\ x \notin {"none", "finished"} =>
              Cardinality(AliveOf([p EXCEPT ![c] = x])) = Cardinality(AliveOf(p)) + 1
         /\ p[c] \notin {"none", "finished"} /\ x = "finished" =>
              Cardinality(AliveOf([p EXCEPT ![c] = x])) = Cardinality(AliveOf(p)) - 1
<1> DEFINE p2 == [p EXCEPT ![c] = x]
<1>1. p2[c] = x /\ \A d \in Cids : d # c => p2[d] = p[d]
  OBVIOUS
<1> HIDE DEF p2
<1>2. p[c] \notin {"none", "finished"} /\ x \notin {"none", "finished"} =>
        AliveOf(p2) = AliveOf(p)
  BY <1>1 DEF AliveOf
<1>3. ASSUME p[c] = "none", x \notin {"none", "finished"}
      PROVE  Cardinality(AliveOf(p2)) = Cardinality(AliveOf(p)) + 1
  <2>1. AliveOf(p2) = AliveOf(p) \cup {c} /\ c \notin AliveOf(p)
    BY <1>1, <1>3 DEF AliveOf
  <2> QED BY <2>1, AliveFinite, FS_AddElement
<1>4. ASSUME p[c] \notin {"none", "finished"}, x = "finished"
      PROVE  Cardinality(AliveOf(p2)) = Cardinality(AliveOf(p)) - 1
  <2>1. AliveOf(p2) = AliveOf(p) \ {c} /\ c \in AliveOf(p)
    BY <1>1, <1>4 DEF AliveOf
  <2> QED BY <2>1, AliveFinite, FS_RemoveElement
<1> QED BY <1>2, <1>3, <1>4 DEF p2

-----------------------------------------------------------------------------
(* What most steps leave alone. *)

\* No header or payload is read or sent, and no handler started.
LEMMA InboxSame ==
  ASSUME Shape, InboxInv, UNCHANGED <<kind, owesBody, inbox, cur>>,
         Reading' => Reading /\ (InBody' <=> InBody),
         \A d \in Cids : pc'[d] = "none" <=> pc[d] = "none"
  PROVE  InboxInv'
<1>1. /\ \A i \in DOMAIN inbox : inbox[i] # Body => inbox[i] \in Cids
      /\ cur # 0 => cur \in Cids
  BY DEF Shape
<1>2. \A x : IsWrite(x)' <=> IsWrite(x)
  BY DEF IsWrite
<1>3. \A i, j \in DOMAIN inbox' : inbox'[i] = inbox'[j] /\ inbox'[i] # Body => i = j
  BY DEF InboxInv
<1>4. \A i \in DOMAIN inbox' :
        inbox'[i] # Body => pc'[inbox'[i]] = "none" /\ kind'[inbox'[i]] # "none"
  BY <1>1 DEF InboxInv
<1>5. ASSUME Reading'
      PROVE  /\ \A i \in DOMAIN inbox' :
                  inbox'[i] = Body <=> IF i = 1 THEN InBody' ELSE IsWrite(inbox[i - 1])'
             /\ owesBody' <=> IF inbox' = <<>> THEN InBody' ELSE IsWrite(inbox[Len(inbox)])'
             /\ InBody' => /\ cur' # 0 /\ pc'[cur'] = "none" /\ kind'[cur'] \in WriteKinds
                           /\ \A i \in DOMAIN inbox' : inbox'[i] # cur'
  BY <1>1, <1>5 DEF InboxInv, IsWrite
<1>6. \A c \in Cids : pc'[c] # "none" => kind'[c] \in WriteKinds \cup {"read", "readOver"}
  BY DEF InboxInv
<1> QED BY <1>3, <1>4, <1>5, <1>6 DEF InboxInv

\* The operations of requests other than c stay as they are.
LEMMA StoredOne ==
  ASSUME StoredInv, UNCHANGED kind, NEW c \in Cids, StoredFor(c)',
         \A d \in Cids : d # c => /\ io'[d] = io[d] /\ res'[d] = res[d]
                                 /\ stored'[d] = stored[d] /\ Stage(d)' = Stage(d)
  PROVE  StoredInv'
<1>1. \A d \in Cids : d # c => StoredFor(d)'
  BY DEF StoredInv, StoredFor, Operation
<1> QED BY <1>1 DEF StoredInv

\* ... and those of all when no handler gets its result or submits.
LEMMA StoredSame ==
  ASSUME StoredInv, UNCHANGED <<kind, io, res, stored>>,
         \A d \in Cids : Stage(d)' = Stage(d)
  PROVE  StoredInv'
BY DEF StoredInv, StoredFor, Operation

\* One handler goes on, and the connection does not.
LEMMA HandlerStep ==
  ASSUME CtlInv, NEW c \in Cids, NEW x \in Pcs \ {"none", "finished"},
         pc[c] \notin {"none", "finished"}, pc' = [pc EXCEPT ![c] = x],
         UNCHANGED <<kind, owesBody, inbox, connPc, cur, remaining>>
  PROVE  pc' \in [Cids -> Pcs] /\ InboxInv' /\ CountInv'
<1>1. pc \in [Cids -> Pcs] /\ pc'[c] = x /\ \A d \in Cids : d # c => pc'[d] = pc[d]
  BY DEF CtlInv, Shape
<1>2. pc' \in [Cids -> Pcs]
  BY <1>1
<1>3. InboxInv'
  <2>1. \A d \in Cids : pc'[d] = "none" <=> pc[d] = "none"
    BY <1>1
  <2>2. Reading' => Reading /\ (InBody' <=> InBody)
    BY DEF Reading, InBody
  <2> QED BY <2>1, <2>2, InboxSame DEF CtlInv
<1>4. CountInv'
  <2>1. AliveOf(pc') = AliveOf(pc)
    BY <1>1, AliveStep
  <2>2. AliveOf(pc)' = AliveOf(pc')
    BY DEF AliveOf
  <2> QED BY <2>1, <2>2 DEF CtlInv, CountInv
<1> QED BY <1>2, <1>3, <1>4

\* The kernel does c's operation.
LEMMA Performed ==
  ASSUME CtlInv, NEW c \in Cids, NEW op, NEW r \in Results, Perform(c, op, r)
  PROVE  /\ io' \in [Cids -> {"none"} \cup Operations \cup Results]
         /\ stored' \in [Cids -> {"none", "volatile", "durable"}]
         /\ io'[c] = r /\ \A d \in Cids : d # c => io'[d] = io[d] /\ stored'[d] = stored[d]
         /\ op = Operation(c) /\ kind[c] \in WriteKinds /\ r = "ok" =>
              stored'[c] = (IF kind[c] = "writeSync" THEN "durable" ELSE "volatile")
<1>1. /\ io \in [Cids -> {"none"} \cup Operations \cup Results]
      /\ stored \in [Cids -> {"none", "volatile", "durable"}]
      /\ io' = [io EXCEPT ![c] = r]
  BY DEF CtlInv, Shape, Perform
<1>2. /\ io' \in [Cids -> {"none"} \cup Operations \cup Results]
      /\ io'[c] = r /\ \A d \in Cids : d # c => io'[d] = io[d]
  BY <1>1
<1>3. PICK e \in {"volatile", "durable"} :
        /\ e = IF op = "pwrite" THEN "volatile" ELSE "durable"
        /\ stored' = IF r = "ok" /\ op # "pread" THEN [stored EXCEPT ![c] = e] ELSE stored
  BY DEF Perform
<1>4. /\ stored' \in [Cids -> {"none", "volatile", "durable"}]
      /\ \A d \in Cids : d # c => stored'[d] = stored[d]
      /\ r = "ok" /\ op # "pread" => stored'[c] = e
  BY <1>1, <1>3
<1>5. ASSUME op = Operation(c), kind[c] \in WriteKinds, r = "ok"
      PROVE  stored'[c] = (IF kind[c] = "writeSync" THEN "durable" ELSE "volatile")
  BY <1>3, <1>4, <1>5 DEF Operation, WriteKinds
<1> QED BY <1>2, <1>4, <1>5

\* A handler has its result.
LEMMA Answering ==
  ASSUME CtlInv, NEW c \in Cids, NEW r \in Results, Answer(c, r)
  PROVE  /\ res' \in [Cids -> {"none"} \cup Results]
         /\ res'[c] = r /\ \A d \in Cids : d # c => res'[d] = res[d]
         /\ Stage(c)' = "after" /\ \A d \in Cids : d # c => Stage(d)' = Stage(d)
<1>1. /\ res \in [Cids -> {"none"} \cup Results] /\ pc \in [Cids -> Pcs]
      /\ res' = [res EXCEPT ![c] = r] /\ pc' = [pc EXCEPT ![c] = "lock"]
  BY DEF CtlInv, Shape, Answer
<1>2. pc'[c] = "lock" /\ \A d \in Cids : d # c => pc'[d] = pc[d]
  BY <1>1
<1>3. Stage(c)' = "after" /\ \A d \in Cids : d # c => Stage(d)' = Stage(d)
  BY <1>2 DEF Stage
<1> QED BY <1>1, <1>3

\* The three kinds of values of io are different.
LEMMA IoKinds ==
  /\ "none" \notin Operations /\ "none" \notin Results
  /\ \A r \in Results : r \notin Operations
  /\ \A c \in Cids : Operation(c) \in Operations
BY DEF Operations, Results, Operation

\* The coroutine that runs, by TopOf.
LEMMA RunningConn ==
  ASSUME CtlInv, Running(CONN)
  PROVE  stack = <<CONN>> /\ connPc \in RunConn /\ Return = <<>>
<1>1. stack = <<CONN>> /\ connPc \in RunConn
  BY TopOf DEF CtlInv, Shape, StackInv, Running
<1>2. Front(<<CONN>>) = <<>>
  BY DEF Front
<1> QED BY <1>1, <1>2 DEF Return

\* A handler runs only where it may be on the stack.
LEMMA RunningHandler ==
  ASSUME CtlInv, NEW c \in Cids, Running(c)
  PROVE  stack # <<>> /\ Last(stack) = c /\ pc[c] \in RunPc
BY TopOf, ConnNotCid DEF CtlInv, Shape, StackInv, Running

-----------------------------------------------------------------------------
(* CtlInv: the client's steps. *)

\* A header is sent.
LEMMA ClientSendCtl ==
  ASSUME CtlInv, ClientSend PROVE CtlInv'
<1>1. PICK w \in Workloads : \E c \in 1..Len(w) :
        /\ kind[c] = "none"
        /\ kind' = [kind EXCEPT ![c] = w[c]]
        /\ inbox' = Append(inbox, c)
        /\ owesBody' = (w[c] \in WriteKinds)
  BY DEF ClientSend
<1>2. PICK c \in 1..Len(w) :
        /\ kind[c] = "none"
        /\ kind' = [kind EXCEPT ![c] = w[c]]
        /\ inbox' = Append(inbox, c)
        /\ owesBody' = (w[c] \in WriteKinds)
  BY <1>1
<1>3. c \in Cids /\ w[c] \in AllKinds
  BY SessionAssumption DEF Cids
<1>4. PICK k \in AllKinds : k = w[c]
  BY <1>3
<1>5. /\ kind \in [Cids -> AllKinds \cup {"none"}]
      /\ kind' \in [Cids -> AllKinds \cup {"none"}]
      /\ kind'[c] = k /\ \A d \in Cids : d # c => kind'[d] = kind[d]
  BY <1>2, <1>3, <1>4 DEF CtlInv, Shape
<1>6. pc' = pc /\ connPc' = connPc /\ cur' = cur /\ pc[c] = "none"
  BY <1>2, <1>3 DEF CtlInv, InboxInv, ClientSend, WriteKinds
<1>7. inbox \in Seq(Cids \cup {Body}) /\ Len(inbox) \in Nat /\ DOMAIN inbox = 1..Len(inbox)
  BY DEF CtlInv, Shape
<1>8. c \in Cids \cup {Body}
  BY <1>3
<1>9. /\ inbox' \in Seq(Cids \cup {Body}) /\ Len(inbox') = Len(inbox) + 1
      /\ \A i \in 1..Len(inbox) : inbox'[i] = inbox[i]
      /\ inbox'[Len(inbox) + 1] = c
  BY <1>2, <1>7, <1>8, AppendFacts
<1>10. /\ DOMAIN inbox' = DOMAIN inbox \cup {Len(inbox) + 1}
       /\ \A i \in DOMAIN inbox : i # Len(inbox) + 1 /\ inbox'[i] = inbox[i]
       /\ \A i \in DOMAIN inbox : inbox[i] # Body => inbox[i] \in Cids
       /\ inbox' # <<>>
  BY <1>7, <1>9
<1>11. c # Body /\ \A i \in DOMAIN inbox : inbox[i] # c
  BY <1>2, <1>3, ConnNotCid DEF CtlInv, InboxInv
<1>12. Shape'
  <2>1. owesBody' = (w[c] \in WriteKinds)
    BY <1>2
  <2>2. owesBody' = TRUE \/ owesBody' = FALSE
    BY <2>1
  <2> QED BY <1>5, <1>9, <2>2 DEF CtlInv, Shape, ClientSend, ioVars, sendVars, mtxVars
<1>13. InboxInv'
  <2>1. \A i, j \in DOMAIN inbox' : inbox'[i] = inbox'[j] /\ inbox'[i] # Body => i = j
    BY <1>9, <1>10, <1>11 DEF CtlInv, InboxInv
  <2>2. \A i \in DOMAIN inbox' :
          inbox'[i] # Body => pc'[inbox'[i]] = "none" /\ kind'[inbox'[i]] # "none"
    <3>1. k # "none"
      BY DEF AllKinds, WriteKinds
    <3> QED BY <1>5, <1>6, <1>9, <1>10, <1>11, <3>1 DEF CtlInv, InboxInv
  <2>3. \A i \in DOMAIN inbox : IsWrite(inbox[i]) <=> inbox[i] # Body /\ kind'[inbox[i]] \in WriteKinds
    BY <1>5, <1>10, <1>11 DEF IsWrite
  <2>4. ASSUME Reading'
        PROVE  /\ \A i \in DOMAIN inbox' :
                    inbox'[i] = Body <=> IF i = 1 THEN InBody' ELSE IsWrite(inbox[i - 1])'
               /\ owesBody' <=> IF inbox' = <<>> THEN InBody' ELSE IsWrite(inbox[Len(inbox)])'
               /\ InBody' => /\ cur' # 0 /\ pc'[cur'] = "none" /\ kind'[cur'] \in WriteKinds
                             /\ \A i \in DOMAIN inbox' : inbox'[i] # cur'
    <3>1. Reading /\ (InBody' <=> InBody) /\ ~owesBody
      BY <1>6, <2>4 DEF Reading, InBody, ClientSend
    <3>2. ASSUME NEW i \in DOMAIN inbox'
          PROVE  inbox'[i] = Body <=> IF i = 1 THEN InBody' ELSE IsWrite(inbox[i - 1])'
      <4>1. i # 1 => i - 1 \in DOMAIN inbox
        BY <1>7, <1>10
      <4>2. i # 1 => (IsWrite(inbox[i - 1])' <=> IsWrite(inbox[i - 1]))
        BY <1>10, <2>3, <4>1 DEF IsWrite
      <4>3. CASE i \in DOMAIN inbox
        BY <1>10, <3>1, <4>2, <4>3 DEF CtlInv, InboxInv
      <4>4. CASE i = Len(inbox) + 1
        <5>1. inbox = <<>> <=> i = 1
          BY <1>7, <4>4
        <5>2. i # 1 => i - 1 = Len(inbox)
          BY <1>7, <4>4
        <5> QED BY <1>9, <1>11, <3>1, <4>2, <4>4, <5>1, <5>2 DEF CtlInv, InboxInv
      <4> QED BY <1>10, <4>3, <4>4
    <3>3. owesBody' <=> IsWrite(inbox[Len(inbox)])'
      BY <1>2, <1>4, <1>5, <1>9, <1>11 DEF IsWrite
    <3>4. InBody' => /\ cur' # 0 /\ pc'[cur'] = "none" /\ kind'[cur'] \in WriteKinds
                     /\ \A i \in DOMAIN inbox' : inbox'[i] # cur'
      <4>1. InBody => cur \in Cids /\ cur # c
        BY <1>2, <3>1 DEF CtlInv, Shape, InboxInv, WriteKinds
      <4> QED BY <1>5, <1>6, <1>9, <1>10, <3>1, <4>1 DEF CtlInv, InboxInv
    <3> QED BY <1>10, <3>2, <3>3, <3>4
  <2>5. \A d \in Cids : pc'[d] # "none" => kind'[d] \in WriteKinds \cup {"read", "readOver"}
    BY <1>5, <1>6 DEF CtlInv, InboxInv
  <2> QED BY <2>1, <2>2, <2>4, <2>5 DEF InboxInv
<1>14. StackInv' /\ MutexInv'
  BY <1>6 DEF CtlInv, StackInv, MutexInv, ClientSend, mtxVars
<1>15. CountInv'
  BY <1>6 DEF CtlInv, CountInv, AliveOf, ClientSend
<1>16. StoredInv'
  <2>1. io' = io /\ res' = res /\ stored' = stored /\ \A d \in Cids : Stage(d)' = Stage(d)
    BY <1>6 DEF Stage, ClientSend, ioVars
  <2>2. Stage(c) = "before" /\ io[c] = "none" /\ res[c] = "none"
    BY <1>3, <1>6 DEF CtlInv, StoredInv, StoredFor, Stage
  <2>3. StoredFor(c)'
    BY <1>3, <2>1, <2>2, IoKinds DEF StoredFor
  <2>4. \A d \in Cids : d # c => StoredFor(d)'
    BY <1>5, <2>1 DEF CtlInv, StoredInv, StoredFor, Operation
  <2> QED BY <2>3, <2>4 DEF StoredInv
<1> QED BY <1>12, <1>13, <1>14, <1>15, <1>16 DEF CtlInv

\* A payload is sent.
LEMMA ClientSendBodyCtl ==
  ASSUME CtlInv, ClientSendBody PROVE CtlInv'
<1>1. /\ UNCHANGED <<backend, client, kind, connPc, cur, stack, pc, ioVars, sendVars,
                     mtxVars, remaining>>
      /\ owesBody /\ owesBody' = FALSE /\ inbox' = Append(inbox, Body)
  BY DEF ClientSendBody
<1>2. inbox \in Seq(Cids \cup {Body}) /\ Len(inbox) \in Nat /\ DOMAIN inbox = 1..Len(inbox)
  BY DEF CtlInv, Shape
<1>3. /\ inbox' \in Seq(Cids \cup {Body}) /\ Len(inbox') = Len(inbox) + 1
      /\ \A i \in 1..Len(inbox) : inbox'[i] = inbox[i]
      /\ inbox'[Len(inbox) + 1] = Body
  BY <1>1, <1>2, AppendFacts
<1>4. /\ DOMAIN inbox' = DOMAIN inbox \cup {Len(inbox) + 1}
      /\ \A i \in DOMAIN inbox : i # Len(inbox) + 1 /\ inbox'[i] = inbox[i]
      /\ inbox' # <<>>
  BY <1>2, <1>3
<1>5. Shape'
  BY <1>1, <1>3 DEF CtlInv, Shape, ioVars, sendVars, mtxVars
<1>6. InboxInv'
  <2>1. \A i, j \in DOMAIN inbox' : inbox'[i] = inbox'[j] /\ inbox'[i] # Body => i = j
    BY <1>3, <1>4 DEF CtlInv, InboxInv
  <2>2. \A i \in DOMAIN inbox' :
          inbox'[i] # Body => pc'[inbox'[i]] = "none" /\ kind'[inbox'[i]] # "none"
    BY <1>1, <1>3, <1>4 DEF CtlInv, InboxInv
  <2>3. \A x : (x # Body /\ kind'[x] \in WriteKinds) <=> IsWrite(x)
    BY <1>1 DEF IsWrite
  <2>4. ASSUME Reading'
        PROVE  /\ \A i \in DOMAIN inbox' :
                    inbox'[i] = Body <=> IF i = 1 THEN InBody' ELSE IsWrite(inbox[i - 1])'
               /\ owesBody' <=> IF inbox' = <<>> THEN InBody' ELSE IsWrite(inbox[Len(inbox)])'
               /\ InBody' => /\ cur' # 0 /\ pc'[cur'] = "none" /\ kind'[cur'] \in WriteKinds
                             /\ \A i \in DOMAIN inbox' : inbox'[i] # cur'
    <3>1. Reading /\ (InBody' <=> InBody)
      BY <1>1, <2>4 DEF Reading, InBody
    <3>2. ASSUME NEW i \in DOMAIN inbox'
          PROVE  inbox'[i] = Body <=> IF i = 1 THEN InBody' ELSE IsWrite(inbox[i - 1])'
      <4>1. i # 1 => i - 1 \in DOMAIN inbox
        BY <1>2, <1>4
      <4>2. i # 1 => (IsWrite(inbox[i - 1])' <=> IsWrite(inbox[i - 1]))
        BY <1>4, <2>3, <4>1 DEF IsWrite
      <4>3. CASE i \in DOMAIN inbox
        BY <1>4, <3>1, <4>2, <4>3 DEF CtlInv, InboxInv
      <4>4. CASE i = Len(inbox) + 1
        <5>1. inbox = <<>> <=> i = 1
          BY <1>2, <4>4
        <5>2. i # 1 => i - 1 = Len(inbox)
          BY <1>2, <4>4
        <5> QED BY <1>1, <1>3, <3>1, <4>2, <4>4, <5>1, <5>2 DEF CtlInv, InboxInv
      <4> QED BY <1>4, <4>3, <4>4
    <3>3. ~IsWrite(inbox[Len(inbox)])'
      BY <1>3 DEF IsWrite
    <3>4. InBody' => /\ cur' # 0 /\ pc'[cur'] = "none" /\ kind'[cur'] \in WriteKinds
                     /\ \A i \in DOMAIN inbox' : inbox'[i] # cur'
      <4>1. InBody => cur # Body
        BY <3>1 DEF CtlInv, InboxInv, Body
      <4> QED BY <1>1, <1>3, <1>4, <3>1, <4>1 DEF CtlInv, InboxInv
    <3> QED BY <1>1, <1>4, <3>2, <3>3, <3>4
  <2>5. \A d \in Cids : pc'[d] # "none" => kind'[d] \in WriteKinds \cup {"read", "readOver"}
    BY <1>1 DEF CtlInv, InboxInv
  <2> QED BY <2>1, <2>2, <2>4, <2>5 DEF InboxInv
<1>7. StackInv' /\ MutexInv' /\ CountInv'
  BY <1>1 DEF CtlInv, StackInv, MutexInv, CountInv, AliveOf, mtxVars
<1>8. StoredInv'
  BY <1>1 DEF CtlInv, StoredInv, StoredFor, Stage, Operation, ioVars
<1> QED BY <1>5, <1>6, <1>7, <1>8 DEF CtlInv

\* The client shuts down or goes away; and the stuttering step.
LEMMA QuietCtl ==
  ASSUME CtlInv, client' \in {"open", "shut", "gone"},
         UNCHANGED <<backend, kind, owesBody, connVars, stack, pc, ioVars, mtxVars, remaining>>
  PROVE  CtlInv'
<1>1. Shape'
  BY DEF CtlInv, Shape, connVars, ioVars, mtxVars
<1>2. InboxInv'
  BY DEF CtlInv, InboxInv, IsWrite, Reading, InBody, connVars
<1>3. StackInv' /\ MutexInv' /\ CountInv'
  BY DEF CtlInv, StackInv, MutexInv, CountInv, AliveOf, connVars, mtxVars
<1>4. StoredInv'
  BY DEF CtlInv, StoredInv, StoredFor, Stage, Operation, ioVars
<1> QED BY <1>1, <1>2, <1>3, <1>4 DEF CtlInv

-----------------------------------------------------------------------------
(* CtlInv: handle_connection(). *)

\* The connection goes on, suspends or is resumed without reading anything.
LEMMA ConnStep ==
  ASSUME CtlInv,
         UNCHANGED <<clientVars, inbox, cur, pc, ioVars, mtxVars, remaining>>,
         connPc' \in {"header", "headerWait", "body", "bodyWait", "drain", "drainWait",
                      "closing", "closed"},
         Reading' => Reading /\ (InBody' <=> InBody),
         \/ stack = <<CONN>> /\ connPc' \in RunConn /\ stack' = <<CONN>>
         \/ stack = <<CONN>> /\ connPc' \notin RunConn /\ stack' = <<>>
         \/ stack = <<>> /\ connPc' \in RunConn /\ stack' = <<CONN>>,
         connPc' \in {"closing", "closed"} => AliveOf(pc) = {}
  PROVE  CtlInv'
<1>1. /\ kind' = kind /\ owesBody' = owesBody /\ inbox' = inbox /\ cur' = cur /\ pc' = pc
      /\ io' = io /\ res' = res /\ stored' = stored
      /\ locked' = locked /\ waiters' = waiters /\ backend' = backend /\ client' = client
      /\ remaining' = remaining
  BY DEF clientVars, ioVars, mtxVars
<1>2. stack' \in Seq(Cids \cup {CONN})
  <2>1. <<CONN>> \in Seq(Cids \cup {CONN}) /\ <<>> \in Seq(Cids \cup {CONN})
    OBVIOUS
  <2> QED BY <2>1
<1>3. Shape'
  BY <1>1, <1>2 DEF CtlInv, Shape
<1>4. InboxInv'
  BY <1>1, InboxSame DEF CtlInv
<1>5. StackInv'
  <2>1. stack \in Seq(Cids \cup {CONN}) /\ pc \in [Cids -> Pcs] /\ StackOK(stack, pc, connPc)
    BY DEF CtlInv, Shape, StackInv
  <2>2. PICK cp2 : cp2 = connPc'
    OBVIOUS
  <2>3. StackOK(stack', pc, cp2)
    BY <2>1, <2>2, StackConn
  <2> QED BY <1>1, <2>2, <2>3 DEF StackInv
<1>6. MutexInv' /\ CountInv'
  BY <1>1 DEF CtlInv, MutexInv, CountInv, AliveOf
<1>7. StoredInv'
  BY <1>1 DEF CtlInv, StoredInv, StoredFor, Stage, Operation
<1> QED BY <1>3, <1>4, <1>5, <1>6, <1>7 DEF CtlInv

\* It waits for something to read.
LEMMA ConnSuspendCtl ==
  ASSUME CtlInv, ConnSuspend PROVE CtlInv'
<1>1. stack = <<CONN>> /\ stack' = <<>>
  BY RunningConn DEF ConnSuspend
<1>2. \/ connPc = "header" /\ connPc' = "headerWait"
      \/ connPc = "body" /\ connPc' = "bodyWait"
  BY DEF ConnSuspend
<1>3. connPc' \notin RunConn /\ (Reading' => Reading /\ (InBody' <=> InBody))
  BY <1>2 DEF RunConn, Reading, InBody
<1> QED BY <1>1, <1>2, <1>3, ConnStep DEF ConnSuspend

\* There is something to read.
LEMMA ConnResumeCtl ==
  ASSUME CtlInv, ConnResume PROVE CtlInv'
<1>1. stack = <<>> /\ stack' = <<CONN>>
  BY DEF ConnResume, InStep, Enter
<1>2. \/ connPc = "headerWait" /\ connPc' = "header"
      \/ connPc = "bodyWait" /\ connPc' = "body"
  BY DEF ConnResume
<1>3. connPc' \in RunConn /\ (Reading' => Reading /\ (InBody' <=> InBody))
  BY <1>2 DEF RunConn, Reading, InBody
<1> QED BY <1>1, <1>2, <1>3, ConnStep DEF ConnResume

\* The stream is over.
LEMMA ConnCatchCtl ==
  ASSUME CtlInv, ConnCatch PROVE CtlInv'
<1>1. stack = <<CONN>> /\ stack' = <<CONN>> /\ connPc' = "drain"
  BY RunningConn DEF ConnCatch
<1>2. connPc' \in RunConn /\ ~Reading'
  BY <1>1 DEF RunConn, Reading
<1> QED BY <1>1, <1>2, ConnStep DEF ConnCatch

\* wg.wait().
LEMMA ConnDrainCtl ==
  ASSUME CtlInv, ConnDrain PROVE CtlInv'
<1>1. stack = <<CONN>> /\ Return = <<>>
  BY RunningConn DEF ConnDrain
<1>2. remaining <= 0 => AliveOf(pc) = {}
  <2>1. remaining = Cardinality(AliveOf(pc))
    BY DEF CtlInv, CountInv
  <2>2. /\ Cardinality(AliveOf(pc)) \in 0..MaxReqs
        /\ Cardinality(AliveOf(pc)) = 0 <=> AliveOf(pc) = {}
    BY AliveFinite
  <2> QED BY <2>1, <2>2, SessionAssumption
<1>3. CASE remaining <= 0
  <2>1. connPc' = "closing" /\ stack' = <<CONN>>
    BY <1>1, <1>3 DEF ConnDrain
  <2>2. connPc' \in RunConn /\ ~Reading'
    BY <2>1 DEF RunConn, Reading
  <2> QED BY <1>1, <1>2, <1>3, <2>1, <2>2, ConnStep DEF ConnDrain
<1>4. CASE ~(remaining <= 0)
  <2>1. connPc' = "drainWait" /\ stack' = <<>>
    BY <1>1, <1>4 DEF ConnDrain
  <2>2. connPc' \notin RunConn /\ ~Reading'
    BY <2>1 DEF RunConn, Reading
  <2> QED BY <1>1, <2>1, <2>2, ConnStep DEF ConnDrain
<1> QED BY <1>3, <1>4

\* handle_connection() returns.
LEMMA ConnCloseCtl ==
  ASSUME CtlInv, ConnClose PROVE CtlInv'
<1>1. stack = <<CONN>> /\ stack' = <<>> /\ connPc' = "closed"
  BY RunningConn DEF ConnClose
<1>2. connPc' \notin RunConn /\ ~Reading' /\ AliveOf(pc) = {}
  BY <1>1 DEF RunConn, Reading, ConnClose, CtlInv, CountInv
<1> QED BY <1>1, <1>2, ConnStep DEF ConnClose

\* The next header or payload is taken from the stream, and c's handler may be started.
LEMMA InboxTail ==
  ASSUME CtlInv, inbox # <<>>, inbox' = Tail(inbox), UNCHANGED <<kind, owesBody>>,
         Reading,
         NEW c \in Cids,
         \/ c = inbox[1]
         \/ \A i \in DOMAIN inbox : inbox[i] # c,
         \/ pc' = pc
         \/ /\ pc' = [pc EXCEPT ![c] = "start"]
            /\ kind[c] \in WriteKinds \cup {"read", "readOver"},
         Reading' => (InBody' <=> IsWrite(inbox[1])),
         Reading' /\ InBody' => cur' = inbox[1] /\ pc' = pc
  PROVE  InboxInv' /\ inbox' \in Seq(Cids \cup {Body})
<1>1. /\ inbox \in Seq(Cids \cup {Body}) /\ Len(inbox) \in Nat /\ DOMAIN inbox = 1..Len(inbox)
      /\ 1 \in DOMAIN inbox /\ pc \in [Cids -> Pcs]
  BY DEF CtlInv, Shape
<1>2. /\ inbox' \in Seq(Cids \cup {Body}) /\ Len(inbox') = Len(inbox) - 1
      /\ \A i \in 1..(Len(inbox) - 1) : inbox'[i] = inbox[i + 1]
  BY <1>1, TailFacts
<1>3. DOMAIN inbox' = 1..(Len(inbox) - 1)
  BY <1>2
<1>4. \A i \in DOMAIN inbox' : /\ i + 1 \in DOMAIN inbox /\ inbox'[i] = inbox[i + 1]
                               /\ i \in Nat /\ i + 1 # 1
  BY <1>1, <1>2, <1>3
<1>5. \A i \in DOMAIN inbox : inbox[i] # Body => inbox[i] \in Cids
  BY <1>1
<1>6. \A d \in Cids : d # c => pc'[d] = pc[d]
  BY <1>1
<1>7. \A i \in DOMAIN inbox' : inbox'[i] # Body => inbox'[i] # inbox[1] /\ inbox'[i] # c
  BY <1>1, <1>4 DEF CtlInv, InboxInv
<1>8. \A i, j \in DOMAIN inbox' : inbox'[i] = inbox'[j] /\ inbox'[i] # Body => i = j
  <2>1. ASSUME NEW i \in DOMAIN inbox', NEW j \in DOMAIN inbox',
               inbox'[i] = inbox'[j], inbox'[i] # Body
        PROVE  i = j
    <3>1. i + 1 = j + 1
      BY <1>4, <2>1 DEF CtlInv, InboxInv
    <3> QED BY <1>4, <3>1
  <2> QED BY <2>1
<1>9. \A i \in DOMAIN inbox' :
        inbox'[i] # Body => pc'[inbox'[i]] = "none" /\ kind'[inbox'[i]] # "none"
  BY <1>4, <1>5, <1>6, <1>7 DEF CtlInv, InboxInv
<1>10. ASSUME Reading'
       PROVE  /\ \A i \in DOMAIN inbox' :
                   inbox'[i] = Body <=> IF i = 1 THEN InBody' ELSE IsWrite(inbox[i - 1])'
              /\ owesBody' <=> IF inbox' = <<>> THEN InBody' ELSE IsWrite(inbox[Len(inbox)])'
              /\ InBody' => /\ cur' # 0 /\ pc'[cur'] = "none" /\ kind'[cur'] \in WriteKinds
                            /\ \A i \in DOMAIN inbox' : inbox'[i] # cur'
  <2>1. \A x : (x # Body /\ kind'[x] \in WriteKinds) <=> IsWrite(x)
    BY DEF IsWrite
  <2>2. ASSUME NEW i \in DOMAIN inbox'
        PROVE  inbox'[i] = Body <=> IF i = 1 THEN InBody' ELSE IsWrite(inbox[i - 1])'
    <3>1. i \in Nat /\ i + 1 \in DOMAIN inbox /\ inbox'[i] = inbox[i + 1] /\ i + 1 # 1
      BY <1>4
    <3>2. (i + 1) - 1 = i /\ 1 + 1 - 1 = 1
      BY <3>1
    <3>3. inbox[i + 1] = Body <=> IsWrite(inbox[i])
      BY <3>1, <3>2 DEF CtlInv, InboxInv
    <3>4. CASE i = 1
      BY <1>10, <3>1, <3>3, <3>4
    <3>5. CASE i # 1
      <4>1. i - 1 \in DOMAIN inbox' /\ (i - 1) + 1 = i
        BY <1>1, <1>3, <3>1, <3>5
      <4>2. inbox'[i - 1] = inbox[i]
        BY <1>4, <4>1
      <4> QED BY <2>1, <3>1, <3>3, <3>5, <4>2 DEF IsWrite
    <3> QED BY <3>4, <3>5
  <2>3. owesBody' <=> IF inbox' = <<>> THEN InBody' ELSE IsWrite(inbox[Len(inbox)])'
    <3>1. owesBody <=> IsWrite(inbox[Len(inbox)])
      BY DEF CtlInv, InboxInv
    <3>2. CASE inbox' = <<>>
      <4>1. Len(inbox) = 1
        BY <1>1, <1>2, <3>2, SMTT(30)
      <4> QED BY <1>10, <3>1, <3>2, <4>1
    <3>3. CASE inbox' # <<>>
      <4>1. Len(inbox') \in DOMAIN inbox' /\ Len(inbox') + 1 = Len(inbox)
        BY <1>1, <1>2, <3>3
      <4>2. inbox'[Len(inbox')] = inbox[Len(inbox)]
        BY <1>4, <4>1
      <4> QED BY <2>1, <3>1, <3>3, <4>2 DEF IsWrite
    <3> QED BY <3>2, <3>3
  <2>4. InBody' => /\ cur' # 0 /\ pc'[cur'] = "none" /\ kind'[cur'] \in WriteKinds
                   /\ \A i \in DOMAIN inbox' : inbox'[i] # cur'
    <3>1. ASSUME InBody'
          PROVE  cur' = inbox[1] /\ IsWrite(inbox[1]) /\ pc' = pc /\ cur' # Body
      BY <1>10, <3>1 DEF IsWrite
    <3> QED BY <1>1, <1>7, <3>1 DEF IsWrite, Body, CtlInv, InboxInv
  <2> QED BY <2>2, <2>3, <2>4
<1>11. \A d \in Cids : pc'[d] # "none" => kind'[d] \in WriteKinds \cup {"read", "readOver"}
  BY <1>6 DEF CtlInv, InboxInv
<1> QED BY <1>2, <1>8, <1>9, <1>10, <1>11 DEF InboxInv

\* wg.add() and spawn().
LEMMA SpawnCtl ==
  ASSUME CtlInv, stack = <<CONN>>, connPc' = "header", NEW c \in Cids, pc[c] = "none",
         Spawn(c), UNCHANGED <<mtxVars, kind, io, res, stored>>
  PROVE  /\ pc' \in [Cids -> Pcs] /\ stack' \in Seq(Cids \cup {CONN})
         /\ StackInv' /\ MutexInv' /\ CountInv' /\ StoredInv'
<1>1. /\ pc \in [Cids -> Pcs] /\ stack \in Seq(Cids \cup {CONN})
      /\ pc' = [pc EXCEPT ![c] = "start"] /\ stack' = Append(stack, c)
      /\ remaining' = remaining + 1 /\ locked' = locked /\ waiters' = waiters
      /\ StackOK(stack, pc, connPc) /\ MutexOK(pc, locked, waiters)
  BY DEF CtlInv, Shape, StackInv, MutexInv, Spawn, Enter, mtxVars
<1>2. "start" \in RunPc /\ "start" \in Pcs /\ "start" \in FreePc /\ "none" \in FreePc
      /\ "none" \notin RunPc /\ "header" \in RunConn
  BY DEF RunPc, Pcs, FreePc, HoldPc, RunConn
<1>3. pc' \in [Cids -> Pcs] /\ pc'[c] = "start" /\ \A d \in Cids : d # c => pc'[d] = pc[d]
  BY <1>1, <1>2
<1>4. StackInv' /\ stack' \in Seq(Cids \cup {CONN})
  <2>1. StackOK(stack, pc, "header")
    BY <1>1, <1>2, StackConn
  <2>2. stack # <<>> /\ Last(stack) = CONN
    BY DEF Last
  <2>3. /\ StackOK(Append(stack, c), [pc EXCEPT ![c] = "start"], "header")
        /\ Append(stack, c) \in Seq(Cids \cup {CONN})
    BY <1>1, <1>2, <2>1, <2>2, StackPush
  <2> QED BY <1>1, <2>3 DEF StackInv
<1>5. MutexInv'
  <2>1. MutexOK([pc EXCEPT ![c] = "start"], locked, waiters)
    BY <1>1, <1>2, MutexSame
  <2> QED BY <1>1, <2>1 DEF MutexInv
<1>6. CountInv'
  <2>1. Cardinality(AliveOf([pc EXCEPT ![c] = "start"])) = Cardinality(AliveOf(pc)) + 1
    BY <1>1, <1>2, AliveStep
  <2>2. AliveOf(pc)' = AliveOf([pc EXCEPT ![c] = "start"])
    BY <1>1 DEF AliveOf
  <2> QED BY <1>1, <2>1, <2>2 DEF CtlInv, CountInv
<1>7. StoredInv'
  <2>1. \A d \in Cids : Stage(d)' = Stage(d)
    BY <1>3 DEF Stage
  <2> QED BY <2>1, StoredSame DEF CtlInv
<1> QED BY <1>3, <1>4, <1>5, <1>6, <1>7

\* A header is read.
LEMMA ConnHeaderCtl ==
  ASSUME CtlInv, ConnHeader PROVE CtlInv'
<1>1. /\ stack = <<CONN>> /\ connPc = "header" /\ inbox # <<>> /\ inbox' = Tail(inbox)
      /\ kind' = kind /\ owesBody' = owesBody /\ backend' = backend /\ client' = client
      /\ io' = io /\ res' = res /\ stored' = stored
      /\ locked' = locked /\ waiters' = waiters
  BY RunningConn DEF ConnHeader, clientVars, ioVars, mtxVars
<1>2. Reading /\ ~InBody
  BY <1>1 DEF Reading, InBody
<1>3. inbox \in Seq(Cids \cup {Body}) /\ 1 \in DOMAIN inbox /\ Head(inbox) = inbox[1]
  BY <1>1 DEF CtlInv, Shape
<1>4. inbox[1] # Body /\ inbox[1] \in Cids
  BY <1>2, <1>3 DEF CtlInv, InboxInv
<1>5. PICK c \in Cids : c = inbox[1]
  BY <1>4
<1>6. pc[c] = "none" /\ kind[c] # "none" /\ kind[c] \in AllKinds /\ c # Body
  BY <1>3, <1>4, <1>5 DEF CtlInv, Shape, InboxInv
<1>7. \/ /\ Rejected(kind[c])
         /\ connPc' = "drain"
         /\ UNCHANGED <<cur, stack, pc, remaining>>
      \/ /\ kind[c] \in WriteKinds
         /\ connPc' \in {"body", "drain"}
         /\ cur' = c
         /\ UNCHANGED <<stack, pc, remaining>>
      \/ /\ ~Rejected(kind[c]) /\ kind[c] \notin WriteKinds
         /\ Spawn(c)
         /\ UNCHANGED <<connPc, cur>>
  BY <1>3, <1>5 DEF ConnHeader
<1>8. CASE pc' = pc /\ stack' = stack /\ remaining' = remaining /\ cur' \in Cids \cup {0}
           /\ (connPc' = "drain" \/ (connPc' = "body" /\ kind[c] \in WriteKinds /\ cur' = c))
  <2>1. Reading' => InBody' /\ IsWrite(c) /\ cur' = c
    BY <1>6, <1>8 DEF Reading, InBody, IsWrite
  <2>2. InboxInv' /\ inbox' \in Seq(Cids \cup {Body})
    BY <1>1, <1>2, <1>5, <1>8, <2>1, InboxTail
  <2>3. Shape'
    BY <1>1, <1>8, <2>2 DEF CtlInv, Shape
  <2>4. StackInv'
    <3>1. connPc' \in RunConn
      BY <1>8 DEF RunConn
    <3>2. /\ stack \in Seq(Cids \cup {CONN}) /\ pc \in [Cids -> Pcs]
          /\ StackOK(stack, pc, connPc)
      BY DEF CtlInv, Shape, StackInv
    <3>3. PICK cp2 : cp2 = connPc'
      OBVIOUS
    <3>4. StackOK(stack, pc, cp2)
      BY <1>1, <3>1, <3>2, <3>3, StackConn
    <3> QED BY <1>8, <3>3, <3>4 DEF StackInv
  <2>5. MutexInv' /\ CountInv'
    BY <1>1, <1>8 DEF CtlInv, MutexInv, CountInv, AliveOf
  <2>6. StoredInv'
    BY <1>1, <1>8 DEF CtlInv, StoredInv, StoredFor, Stage, Operation
  <2> QED BY <2>2, <2>3, <2>4, <2>5, <2>6 DEF CtlInv
<1>9. CASE /\ ~Rejected(kind[c]) /\ kind[c] \notin WriteKinds
           /\ Spawn(c)
           /\ UNCHANGED <<connPc, cur>>
  <2>1. /\ pc' \in [Cids -> Pcs] /\ stack' \in Seq(Cids \cup {CONN})
        /\ StackInv' /\ MutexInv' /\ CountInv' /\ StoredInv'
    BY <1>1, <1>6, <1>9, SpawnCtl DEF mtxVars
  <2>2. kind[c] \in {"read", "readOver"}
    BY <1>6, <1>9 DEF Rejected, AllKinds
  <2>3. ~IsWrite(c) /\ ~InBody'
    BY <1>2, <1>9 DEF IsWrite, InBody
  <2>4. pc' = [pc EXCEPT ![c] = "start"]
    BY <1>9 DEF Spawn
  <2>5. InboxInv' /\ inbox' \in Seq(Cids \cup {Body})
    BY <1>1, <1>2, <1>5, <2>2, <2>3, <2>4, InboxTail
  <2>6. Shape'
    BY <1>1, <1>9, <2>1, <2>5 DEF CtlInv, Shape
  <2> QED BY <2>1, <2>5, <2>6 DEF CtlInv
<1>10. cur \in Cids \cup {0}
  BY DEF CtlInv, Shape
<1> QED BY <1>7, <1>8, <1>9, <1>10

\* A payload is read.
LEMMA ConnBodyCtl ==
  ASSUME CtlInv, ConnBody PROVE CtlInv'
<1>1. /\ stack = <<CONN>> /\ connPc = "body" /\ inbox # <<>> /\ inbox' = Tail(inbox)
      /\ kind' = kind /\ owesBody' = owesBody /\ backend' = backend /\ client' = client
      /\ io' = io /\ res' = res /\ stored' = stored
      /\ locked' = locked /\ waiters' = waiters /\ connPc' = "header" /\ cur' = cur
      /\ Spawn(cur)
  BY RunningConn DEF ConnBody, clientVars, ioVars, mtxVars
<1>2. Reading /\ InBody /\ ~InBody'
  BY <1>1 DEF Reading, InBody
<1>3. inbox \in Seq(Cids \cup {Body}) /\ 1 \in DOMAIN inbox
  BY <1>1 DEF CtlInv, Shape
<1>4. inbox[1] = Body /\ ~IsWrite(inbox[1])
  BY <1>2, <1>3 DEF CtlInv, InboxInv, IsWrite
<1>5. /\ cur \in Cids /\ pc[cur] = "none" /\ kind[cur] \in WriteKinds
      /\ \A i \in DOMAIN inbox : inbox[i] # cur
  BY <1>2 DEF CtlInv, Shape, InboxInv
<1>6. PICK c \in Cids : c = cur
  BY <1>5
<1>7. /\ pc' \in [Cids -> Pcs] /\ stack' \in Seq(Cids \cup {CONN})
      /\ StackInv' /\ MutexInv' /\ CountInv' /\ StoredInv'
  BY <1>1, <1>5, <1>6, SpawnCtl DEF mtxVars, Spawn
<1>8. pc' = [pc EXCEPT ![c] = "start"]
  BY <1>1, <1>6 DEF Spawn
<1>9. InboxInv' /\ inbox' \in Seq(Cids \cup {Body})
  BY <1>1, <1>2, <1>4, <1>5, <1>6, <1>8, InboxTail
<1>10. Shape'
  BY <1>1, <1>7, <1>9 DEF CtlInv, Shape
<1> QED BY <1>7, <1>9, <1>10 DEF CtlInv

-----------------------------------------------------------------------------
(* CtlInv: the handlers. *)

\* What a handler's step starts from.
LEMMA CtlParts ==
  ASSUME CtlInv
  PROVE  /\ pc \in [Cids -> Pcs] /\ stack \in Seq(Cids \cup {CONN}) /\ waiters \in Seq(Cids)
         /\ StackOK(stack, pc, connPc) /\ MutexOK(pc, locked, waiters)
BY DEF CtlInv, Shape, StackInv, MutexInv

\* The first step of a handler.
LEMMA HandlerStartCtl ==
  ASSUME CtlInv, NEW c \in Cids, HandlerStart(c) PROVE CtlInv'
<1>1. /\ pc \in [Cids -> Pcs] /\ stack \in Seq(Cids \cup {CONN}) /\ waiters \in Seq(Cids)
      /\ StackOK(stack, pc, connPc) /\ MutexOK(pc, locked, waiters)
      /\ stack # <<>> /\ Last(stack) = c /\ pc[c] = "start"
  BY CtlParts, RunningHandler DEF HandlerStart
<1>2. /\ backend' = backend /\ client' = client /\ kind' = kind /\ owesBody' = owesBody
      /\ inbox' = inbox /\ connPc' = connPc /\ cur' = cur
      /\ locked' = locked /\ waiters' = waiters /\ remaining' = remaining
  BY DEF HandlerStart, clientVars, connVars, mtxVars
<1>3. /\ {"lock", "done"} \subseteq RunPc /\ "ioWait" \in Pcs \ RunPc
      /\ {"start", "lock", "done", "ioWait"} \subseteq FreePc
      /\ {"start", "lock", "done", "ioWait"} \subseteq Pcs \ {"none", "finished"}
  BY DEF RunPc, Pcs, FreePc, HoldPc
<1>4. \/ \E r \in Results : /\ Answer(c, r) /\ stack' = stack
                            /\ \/ io' = io /\ stored' = stored /\ r # "ok"
                               \/ Perform(c, Operation(c), r)
      \/ /\ pc' = [pc EXCEPT ![c] = "ioWait"] /\ stack' = Front(stack)
         /\ io' = [io EXCEPT ![c] = Operation(c)] /\ res' = res /\ stored' = stored
      \/ /\ pc' = [pc EXCEPT ![c] = "done"] /\ stack' = stack
         /\ io' = io /\ res' = res /\ stored' = stored
  <2>1. "error" \in Results /\ "error" # "ok"
    BY DEF Results
  <2> QED BY <2>1 DEF HandlerStart, Submit, Return
<1>5. PICK x \in {"lock", "ioWait", "done"} : pc' = [pc EXCEPT ![c] = x]
  BY <1>4 DEF Answer
<1>6. pc' \in [Cids -> Pcs] /\ InboxInv' /\ CountInv'
  BY <1>1, <1>2, <1>3, <1>5, HandlerStep
<1>7. MutexInv'
  <2>1. MutexOK([pc EXCEPT ![c] = x], locked, waiters)
    BY <1>1, <1>3, MutexSame
  <2> QED BY <1>2, <1>5, <2>1 DEF MutexInv
<1>8. StackInv' /\ stack' \in Seq(Cids \cup {CONN})
  <2>1. CASE pc' = [pc EXCEPT ![c] = "ioWait"] /\ stack' = Front(stack)
    <3>1. /\ StackOK(Front(stack), [pc EXCEPT ![c] = "ioWait"], connPc)
          /\ Front(stack) \in Seq(Cids \cup {CONN})
      BY <1>1, <1>3, StackPop
    <3> QED BY <1>2, <2>1, <3>1 DEF StackInv
  <2>2. CASE stack' = stack /\ \E y \in {"lock", "done"} : pc' = [pc EXCEPT ![c] = y]
    <3>1. PICK y \in {"lock", "done"} : pc' = [pc EXCEPT ![c] = y]
      BY <2>2
    <3>2. StackOK(stack, [pc EXCEPT ![c] = y], connPc)
      BY <1>1, <1>3, StackGoOn
    <3> QED BY <1>1, <1>2, <2>2, <3>1, <3>2 DEF StackInv
  <2> QED BY <1>4, <2>1, <2>2 DEF Answer
<1>9. /\ Stage(c) = "before" /\ io[c] = "none" /\ res[c] = "none"
      /\ io \in [Cids -> {"none"} \cup Operations \cup Results]
      /\ res \in [Cids -> {"none"} \cup Results]
      /\ stored \in [Cids -> {"none", "volatile", "durable"}]
  BY <1>1 DEF CtlInv, Shape, StoredInv, StoredFor, Stage
<1>10. /\ StoredInv'
       /\ io' \in [Cids -> {"none"} \cup Operations \cup Results]
       /\ res' \in [Cids -> {"none"} \cup Results]
       /\ stored' \in [Cids -> {"none", "volatile", "durable"}]
  <2>1. CASE \E r \in Results : /\ Answer(c, r)
                               /\ \/ io' = io /\ stored' = stored /\ r # "ok"
                                  \/ Perform(c, Operation(c), r)
    <3>1. PICK r \in Results : /\ Answer(c, r)
                               /\ \/ io' = io /\ stored' = stored /\ r # "ok"
                                  \/ Perform(c, Operation(c), r)
      BY <2>1
    <3>2. /\ res' \in [Cids -> {"none"} \cup Results]
          /\ res'[c] = r /\ \A d \in Cids : d # c => res'[d] = res[d]
          /\ Stage(c)' = "after" /\ \A d \in Cids : d # c => Stage(d)' = Stage(d)
      BY <3>1, Answering
    <3>3. CASE io' = io /\ stored' = stored /\ r # "ok"
      <4>1. StoredFor(c)'
        BY <1>9, <3>2, <3>3, IoKinds DEF StoredFor, Results
      <4> QED BY <1>2, <1>9, <3>2, <3>3, <4>1, StoredOne DEF CtlInv
    <3>4. CASE Perform(c, Operation(c), r)
      <4>1. /\ io' \in [Cids -> {"none"} \cup Operations \cup Results]
            /\ stored' \in [Cids -> {"none", "volatile", "durable"}]
            /\ io'[c] = r
            /\ \A d \in Cids : d # c => io'[d] = io[d] /\ stored'[d] = stored[d]
            /\ kind[c] \in WriteKinds /\ r = "ok" =>
                 stored'[c] = (IF kind[c] = "writeSync" THEN "durable" ELSE "volatile")
        BY <3>4, Performed
      <4>2. StoredFor(c)'
        BY <1>2, <3>2, <4>1, IoKinds DEF StoredFor
      <4> QED BY <1>2, <3>2, <4>1, <4>2, StoredOne DEF CtlInv
    <3> QED BY <3>1, <3>3, <3>4
  <2>2. CASE /\ pc' = [pc EXCEPT ![c] = "ioWait"]
             /\ io' = [io EXCEPT ![c] = Operation(c)] /\ res' = res /\ stored' = stored
    <3>1. /\ io' \in [Cids -> {"none"} \cup Operations \cup Results]
          /\ io'[c] = Operation(c) /\ \A d \in Cids : d # c => io'[d] = io[d]
      BY <1>9, <2>2, IoKinds
    <3>2. pc'[c] = "ioWait" /\ \A d \in Cids : d # c => pc'[d] = pc[d]
      BY <1>1, <2>2
    <3>3. Stage(c)' = "during" /\ \A d \in Cids : d # c => Stage(d)' = Stage(d)
      BY <3>2 DEF Stage
    <3>4. Operation(c)' = Operation(c) /\ Operation(c) \notin {"none", "ok"}
      BY <1>2 DEF Operation
    <3>5. StoredFor(c)'
      BY <1>9, <2>2, <3>1, <3>3, <3>4 DEF StoredFor
    <3> QED BY <1>2, <1>9, <2>2, <3>1, <3>3, <3>5, StoredOne DEF CtlInv
  <2>3. CASE /\ pc' = [pc EXCEPT ![c] = "done"]
             /\ io' = io /\ res' = res /\ stored' = stored
    <3>1. pc'[c] = "done" /\ \A d \in Cids : d # c => pc'[d] = pc[d]
      BY <1>1, <2>3
    <3>2. Stage(c)' = "after" /\ \A d \in Cids : d # c => Stage(d)' = Stage(d)
      BY <3>1 DEF Stage
    <3>3. StoredFor(c)'
      BY <1>9, <2>3, <3>2, IoKinds DEF StoredFor
    <3> QED BY <1>2, <1>9, <2>3, <3>2, <3>3, StoredOne DEF CtlInv
  <2> QED BY <1>4, <2>1, <2>2, <2>3
<1>11. Shape'
  BY <1>2, <1>6, <1>8, <1>10 DEF CtlInv, Shape
<1> QED BY <1>6, <1>7, <1>8, <1>10, <1>11 DEF CtlInv

\* The kernel does a handler's operation.
LEMMA KernelIoCtl ==
  ASSUME CtlInv, NEW c \in Cids, KernelIo(c) PROVE CtlInv'
<1>1. /\ backend' = backend /\ client' = client /\ kind' = kind /\ owesBody' = owesBody
      /\ inbox' = inbox /\ connPc' = connPc /\ cur' = cur /\ stack' = stack /\ pc' = pc
      /\ res' = res /\ locked' = locked /\ waiters' = waiters /\ remaining' = remaining
  BY DEF KernelIo, clientVars, connVars, mtxVars
<1>2. PICK r \in Results : Perform(c, io[c], r)
  BY DEF KernelIo
<1>3. io[c] = Operation(c) /\ Stage(c) = "during" /\ res[c] = "none"
  BY DEF KernelIo, CtlInv, StoredInv, StoredFor
<1>4. /\ io' \in [Cids -> {"none"} \cup Operations \cup Results]
      /\ stored' \in [Cids -> {"none", "volatile", "durable"}]
      /\ io'[c] = r
      /\ \A d \in Cids : d # c => io'[d] = io[d] /\ stored'[d] = stored[d]
      /\ kind[c] \in WriteKinds /\ r = "ok" =>
           stored'[c] = (IF kind[c] = "writeSync" THEN "durable" ELSE "volatile")
  BY <1>2, <1>3, Performed
<1>5. \A d \in Cids : Stage(d)' = Stage(d)
  BY <1>1 DEF Stage
<1>6. StoredInv'
  <2>1. StoredFor(c)'
    BY <1>1, <1>3, <1>4, <1>5, IoKinds DEF StoredFor
  <2> QED BY <1>1, <1>4, <1>5, <2>1, StoredOne DEF CtlInv
<1>7. Shape'
  BY <1>1, <1>4 DEF CtlInv, Shape
<1>8. InboxInv'
  BY <1>1 DEF CtlInv, InboxInv, IsWrite, Reading, InBody
<1>9. StackInv' /\ MutexInv' /\ CountInv'
  BY <1>1 DEF CtlInv, StackInv, MutexInv, CountInv, AliveOf
<1> QED BY <1>6, <1>7, <1>8, <1>9 DEF CtlInv

\* The file operation completes.
LEMMA IoCompleteCtl ==
  ASSUME CtlInv, NEW c \in Cids, IoComplete(c) PROVE CtlInv'
<1>1. /\ pc \in [Cids -> Pcs] /\ stack \in Seq(Cids \cup {CONN}) /\ waiters \in Seq(Cids)
      /\ StackOK(stack, pc, connPc) /\ MutexOK(pc, locked, waiters)
      /\ stack = <<>> /\ pc[c] = "ioWait" /\ stack' = Append(stack, c)
  BY CtlParts DEF IoComplete, InStep, Enter
<1>2. /\ backend' = backend /\ client' = client /\ kind' = kind /\ owesBody' = owesBody
      /\ inbox' = inbox /\ connPc' = connPc /\ cur' = cur
      /\ locked' = locked /\ waiters' = waiters /\ remaining' = remaining
  BY DEF IoComplete, clientVars, connVars, mtxVars
<1>3. /\ "lock" \in RunPc /\ "ioWait" \notin RunPc /\ {"lock", "ioWait"} \subseteq FreePc
      /\ {"lock", "ioWait"} \subseteq Pcs \ {"none", "finished"}
  BY DEF RunPc, Pcs, FreePc, HoldPc
<1>4. io[c] \in Results /\ Answer(c, io[c]) /\ io' = io /\ stored' = stored
  BY DEF IoComplete
<1>5. pc' = [pc EXCEPT ![c] = "lock"]
  BY <1>4 DEF Answer
<1>6. pc' \in [Cids -> Pcs] /\ InboxInv' /\ CountInv'
  BY <1>1, <1>2, <1>3, <1>5, HandlerStep
<1>7. MutexInv'
  <2>1. MutexOK([pc EXCEPT ![c] = "lock"], locked, waiters)
    BY <1>1, <1>3, MutexSame
  <2> QED BY <1>2, <1>5, <2>1 DEF MutexInv
<1>8. StackInv' /\ stack' \in Seq(Cids \cup {CONN})
  <2>1. /\ StackOK(Append(stack, c), [pc EXCEPT ![c] = "lock"], connPc)
        /\ Append(stack, c) \in Seq(Cids \cup {CONN})
    BY <1>1, <1>3, StackPush
  <2> QED BY <1>1, <1>2, <1>5, <2>1 DEF StackInv
<1>9. StoredInv' /\ res' \in [Cids -> {"none"} \cup Results]
  <2>1. /\ res' \in [Cids -> {"none"} \cup Results]
        /\ res'[c] = io[c] /\ \A d \in Cids : d # c => res'[d] = res[d]
        /\ Stage(c)' = "after" /\ \A d \in Cids : d # c => Stage(d)' = Stage(d)
    BY <1>4, Answering
  <2>2. /\ io[c] = "ok" /\ kind[c] \in WriteKinds =>
             stored[c] = (IF kind[c] = "writeSync" THEN "durable" ELSE "volatile")
        /\ io[c] \notin Operations
    BY <1>4, IoKinds DEF CtlInv, StoredInv, StoredFor
  <2>3. StoredFor(c)'
    BY <1>2, <1>4, <2>1, <2>2 DEF StoredFor
  <2> QED BY <1>2, <1>4, <2>1, <2>3, StoredOne DEF CtlInv
<1>10. Shape'
  BY <1>2, <1>4, <1>6, <1>8, <1>9 DEF CtlInv, Shape
<1> QED BY <1>6, <1>7, <1>8, <1>9, <1>10 DEF CtlInv

\* A handler asks for send_mtx.
LEMMA LockCtl ==
  ASSUME CtlInv, NEW c \in Cids, Lock(c) PROVE CtlInv'
<1>1. /\ pc \in [Cids -> Pcs] /\ stack \in Seq(Cids \cup {CONN}) /\ waiters \in Seq(Cids)
      /\ StackOK(stack, pc, connPc) /\ MutexOK(pc, locked, waiters)
      /\ stack # <<>> /\ Last(stack) = c /\ pc[c] = "lock"
  BY CtlParts, RunningHandler DEF Lock
<1>2. /\ backend' = backend /\ client' = client /\ kind' = kind /\ owesBody' = owesBody
      /\ inbox' = inbox /\ connPc' = connPc /\ cur' = cur
      /\ io' = io /\ res' = res /\ stored' = stored /\ remaining' = remaining
  BY DEF Lock, clientVars, connVars, ioVars
<1>3. /\ "send" \in RunPc /\ "lockWait" \in Pcs \ RunPc /\ "lock" \in FreePc
      /\ {"lockWait", "send"} \subseteq Pcs \ {"none", "finished"}
  BY DEF RunPc, Pcs, FreePc, HoldPc
<1>4. PICK x \in {"lockWait", "send"} : pc' = [pc EXCEPT ![c] = x]
  BY DEF Lock
<1>5. pc' \in [Cids -> Pcs] /\ InboxInv' /\ CountInv'
  BY <1>1, <1>2, <1>3, <1>4, HandlerStep
<1>6. StoredInv'
  <2>1. \A d \in Cids : Stage(d)' = Stage(d)
    BY <1>1, <1>4 DEF Stage
  <2> QED BY <1>2, <2>1, StoredSame DEF CtlInv
<1>7. CASE locked
  <2>1. /\ pc' = [pc EXCEPT ![c] = "lockWait"] /\ waiters' = Append(waiters, c)
        /\ stack' = Front(stack) /\ locked' = locked
    BY <1>7 DEF Lock, Return
  <2>2. MutexOK([pc EXCEPT ![c] = "lockWait"], locked, Append(waiters, c))
    BY <1>1, <1>3, MutexWait
  <2>3. /\ StackOK(Front(stack), [pc EXCEPT ![c] = "lockWait"], connPc)
        /\ Front(stack) \in Seq(Cids \cup {CONN})
    BY <1>1, <1>3, StackPop
  <2>4. waiters' \in Seq(Cids)
    BY <1>1, <2>1, AppendFacts
  <2>5. Shape'
    BY <1>2, <1>5, <2>1, <2>3, <2>4 DEF CtlInv, Shape
  <2>6. StackInv' /\ MutexInv'
    BY <1>2, <2>1, <2>2, <2>3 DEF StackInv, MutexInv
  <2> QED BY <1>5, <1>6, <2>5, <2>6 DEF CtlInv
<1>8. CASE ~locked
  <2>1. /\ pc' = [pc EXCEPT ![c] = "send"] /\ waiters' = waiters
        /\ stack' = stack /\ locked' = TRUE
    BY <1>8 DEF Lock
  <2>2. MutexOK(pc, FALSE, waiters)
    BY <1>1, <1>8 DEF MutexOK
  <2>3. MutexOK([pc EXCEPT ![c] = "send"], TRUE, waiters)
    BY <1>1, <1>3, <2>2, MutexTake
  <2>4. StackOK(stack, [pc EXCEPT ![c] = "send"], connPc)
    BY <1>1, <1>3, StackGoOn
  <2>5. Shape'
    BY <1>1, <1>2, <1>5, <2>1 DEF CtlInv, Shape
  <2>6. StackInv' /\ MutexInv'
    BY <1>2, <2>1, <2>3, <2>4 DEF StackInv, MutexInv
  <2> QED BY <1>5, <1>6, <2>5, <2>6 DEF CtlInv
<1> QED BY <1>7, <1>8

\* A handler sends.
LEMMA SendCtl ==
  ASSUME CtlInv, NEW c \in Cids, Send(c) PROVE CtlInv'
<1>1. /\ pc \in [Cids -> Pcs] /\ stack \in Seq(Cids \cup {CONN}) /\ waiters \in Seq(Cids)
      /\ StackOK(stack, pc, connPc) /\ MutexOK(pc, locked, waiters)
      /\ stack # <<>> /\ Last(stack) = c /\ pc[c] = "send"
  BY CtlParts, RunningHandler DEF Send
<1>2. /\ backend' = backend /\ client' = client /\ kind' = kind /\ owesBody' = owesBody
      /\ inbox' = inbox /\ connPc' = connPc /\ cur' = cur
      /\ io' = io /\ res' = res /\ stored' = stored /\ remaining' = remaining
      /\ locked' = locked /\ waiters' = waiters
  BY DEF Send, clientVars, connVars, ioVars, mtxVars
<1>3. /\ {"send", "unlock"} \subseteq RunPc /\ "sendWait" \in Pcs \ RunPc
      /\ {"send", "sendWait", "unlock"} \subseteq HoldPc
      /\ {"send", "sendWait", "unlock"} \subseteq Pcs \ {"none", "finished"}
  BY DEF RunPc, Pcs, HoldPc
<1>4. \/ stack' = stack /\ \E y \in {"send", "unlock"} : pc' = [pc EXCEPT ![c] = y]
      \/ stack' = Front(stack) /\ pc' = [pc EXCEPT ![c] = "sendWait"]
  BY DEF Send, SendSome, SendError, Return
<1>5. PICK x \in {"send", "sendWait", "unlock"} : pc' = [pc EXCEPT ![c] = x]
  BY <1>4
<1>6. pc' \in [Cids -> Pcs] /\ InboxInv' /\ CountInv'
  BY <1>1, <1>2, <1>3, <1>5, HandlerStep
<1>7. StoredInv'
  <2>1. \A d \in Cids : Stage(d)' = Stage(d)
    BY <1>1, <1>5 DEF Stage
  <2> QED BY <1>2, <2>1, StoredSame DEF CtlInv
<1>8. MutexInv'
  <2>1. MutexOK([pc EXCEPT ![c] = x], locked, waiters)
    BY <1>1, <1>3, MutexSame
  <2> QED BY <1>2, <1>5, <2>1 DEF MutexInv
<1>9. StackInv' /\ stack' \in Seq(Cids \cup {CONN})
  <2>1. CASE stack' = Front(stack) /\ pc' = [pc EXCEPT ![c] = "sendWait"]
    <3>1. /\ StackOK(Front(stack), [pc EXCEPT ![c] = "sendWait"], connPc)
          /\ Front(stack) \in Seq(Cids \cup {CONN})
      BY <1>1, <1>3, StackPop
    <3> QED BY <1>2, <2>1, <3>1 DEF StackInv
  <2>2. CASE stack' = stack /\ \E y \in {"send", "unlock"} : pc' = [pc EXCEPT ![c] = y]
    <3>1. PICK y \in {"send", "unlock"} : pc' = [pc EXCEPT ![c] = y]
      BY <2>2
    <3>2. StackOK(stack, [pc EXCEPT ![c] = y], connPc)
      BY <1>1, <1>3, StackGoOn
    <3> QED BY <1>1, <1>2, <2>2, <3>1, <3>2 DEF StackInv
  <2> QED BY <1>4, <2>1, <2>2
<1>10. Shape'
  BY <1>2, <1>6, <1>9 DEF CtlInv, Shape
<1> QED BY <1>6, <1>7, <1>8, <1>9, <1>10 DEF CtlInv

\* A send that waited completes.
LEMMA SendCompleteCtl ==
  ASSUME CtlInv, NEW c \in Cids, SendComplete(c) PROVE CtlInv'
<1>1. /\ pc \in [Cids -> Pcs] /\ stack \in Seq(Cids \cup {CONN}) /\ waiters \in Seq(Cids)
      /\ StackOK(stack, pc, connPc) /\ MutexOK(pc, locked, waiters)
      /\ stack = <<>> /\ stack' = Append(stack, c) /\ pc[c] = "sendWait"
  BY CtlParts DEF SendComplete, InStep, Enter
<1>2. /\ backend' = backend /\ client' = client /\ kind' = kind /\ owesBody' = owesBody
      /\ inbox' = inbox /\ connPc' = connPc /\ cur' = cur
      /\ io' = io /\ res' = res /\ stored' = stored /\ remaining' = remaining
      /\ locked' = locked /\ waiters' = waiters
  BY DEF SendComplete, clientVars, connVars, ioVars, mtxVars
<1>3. /\ {"send", "unlock"} \subseteq RunPc /\ "sendWait" \notin RunPc
      /\ {"send", "sendWait", "unlock"} \subseteq HoldPc
      /\ {"send", "sendWait", "unlock"} \subseteq Pcs \ {"none", "finished"}
  BY DEF RunPc, Pcs, HoldPc
<1>4. PICK x \in {"send", "unlock"} : pc' = [pc EXCEPT ![c] = x]
  BY DEF SendComplete, SendSome, SendError
<1>5. pc' \in [Cids -> Pcs] /\ InboxInv' /\ CountInv'
  BY <1>1, <1>2, <1>3, <1>4, HandlerStep
<1>6. StoredInv'
  <2>1. \A d \in Cids : Stage(d)' = Stage(d)
    BY <1>1, <1>4 DEF Stage
  <2> QED BY <1>2, <2>1, StoredSame DEF CtlInv
<1>7. MutexInv'
  <2>1. MutexOK([pc EXCEPT ![c] = x], locked, waiters)
    BY <1>1, <1>3, MutexSame
  <2> QED BY <1>2, <1>4, <2>1 DEF MutexInv
<1>8. StackInv' /\ stack' \in Seq(Cids \cup {CONN})
  <2>1. /\ StackOK(Append(stack, c), [pc EXCEPT ![c] = x], connPc)
        /\ Append(stack, c) \in Seq(Cids \cup {CONN})
    BY <1>1, <1>3, StackPush
  <2> QED BY <1>1, <1>2, <1>4, <2>1 DEF StackInv
<1>9. Shape'
  BY <1>2, <1>5, <1>8 DEF CtlInv, Shape
<1> QED BY <1>5, <1>6, <1>7, <1>8, <1>9 DEF CtlInv

\* The guard's destructor.
LEMMA UnlockCtl ==
  ASSUME CtlInv, NEW c \in Cids, Unlock(c) PROVE CtlInv'
<1>1. /\ pc \in [Cids -> Pcs] /\ stack \in Seq(Cids \cup {CONN}) /\ waiters \in Seq(Cids)
      /\ StackOK(stack, pc, connPc) /\ MutexOK(pc, locked, waiters)
      /\ stack # <<>> /\ Last(stack) = c /\ pc[c] = "unlock"
  BY CtlParts, RunningHandler DEF Unlock
<1>2. /\ backend' = backend /\ client' = client /\ kind' = kind /\ owesBody' = owesBody
      /\ inbox' = inbox /\ connPc' = connPc /\ cur' = cur
      /\ io' = io /\ res' = res /\ stored' = stored /\ remaining' = remaining
  BY DEF Unlock, clientVars, connVars, ioVars
<1>3. /\ {"done", "send"} \subseteq RunPc /\ "unlock" \in HoldPc /\ "done" \in FreePc
      /\ {"done", "send", "unlock"} \subseteq Pcs \ {"none", "finished"}
      /\ "lockWait" \notin RunPc
  BY DEF RunPc, Pcs, FreePc, HoldPc
<1> DEFINE p2 == [pc EXCEPT ![c] = "done"]
<1>4. p2 \in [Cids -> Pcs] /\ p2[c] = "done" /\ \A d \in Cids : d # c => p2[d] = pc[d]
  BY <1>1, <1>3
<1>5. StackOK(stack, p2, connPc)
  BY <1>1, <1>3, StackGoOn
<1>6. MutexOK(p2, FALSE, waiters)
  BY <1>1, <1>3, MutexFree
<1>7. AliveOf(p2) = AliveOf(pc)
  BY <1>1, <1>3, AliveStep
<1>8. CASE waiters # <<>>
  <2>1. PICK h : h = Head(waiters)
    OBVIOUS
  <2>2. /\ pc' = [pc EXCEPT ![c] = "done", ![h] = "send"] /\ waiters' = Tail(waiters)
        /\ stack' = Append(stack, h) /\ locked' = TRUE
    BY <1>8, <2>1 DEF Unlock, HandsOff, Enter, LockedOnHandOff
  <2>3. pc' = [p2 EXCEPT ![h] = "send"]
    BY <2>2
  <2> HIDE DEF p2
  <2>4. /\ MutexOK([p2 EXCEPT ![h] = "send"], TRUE, Tail(waiters))
        /\ h \in Cids /\ p2[h] = "lockWait" /\ Tail(waiters) \in Seq(Cids)
    BY <1>1, <1>4, <1>6, <1>8, <2>1, MutexPass
  <2>5. /\ StackOK(Append(stack, h), [p2 EXCEPT ![h] = "send"], connPc)
        /\ Append(stack, h) \in Seq(Cids \cup {CONN})
    BY <1>1, <1>3, <1>4, <1>5, <2>4, ConnNotCid, StackPush
  <2>6. AliveOf([p2 EXCEPT ![h] = "send"]) = AliveOf(p2)
    BY <1>3, <1>4, <2>4, AliveStep
  <2>7. /\ pc' \in [Cids -> Pcs] /\ pc'[c] # "none" /\ pc'[h] = "send" /\ pc[h] = "lockWait"
        /\ \A d \in Cids : d # c /\ d # h => pc'[d] = pc[d]
        /\ c # h /\ pc'[c] = "done"
    BY <1>3, <1>4, <2>3, <2>4
  <2>8. InboxInv'
    <3>1. \A d \in Cids : pc'[d] = "none" <=> pc[d] = "none"
      BY <1>1, <2>7
    <3>2. Reading' => Reading /\ (InBody' <=> InBody)
      BY <1>2 DEF Reading, InBody
    <3> QED BY <1>2, <3>1, <3>2, InboxSame DEF CtlInv
  <2>9. CountInv'
    <3>1. AliveOf(pc)' = AliveOf(pc)
      BY <1>7, <2>3, <2>6 DEF AliveOf
    <3> QED BY <1>2, <3>1 DEF CtlInv, CountInv
  <2>10. StoredInv'
    <3>1. \A d \in Cids : Stage(d)' = Stage(d)
      BY <1>1, <2>1, <2>7 DEF Stage
    <3> QED BY <1>2, <3>1, StoredSame DEF CtlInv
  <2>11. StackInv' /\ MutexInv'
    BY <1>2, <2>2, <2>3, <2>4, <2>5 DEF StackInv, MutexInv
  <2>12. Shape'
    BY <1>2, <2>2, <2>4, <2>5, <2>7 DEF CtlInv, Shape
  <2> QED BY <2>8, <2>9, <2>10, <2>11, <2>12 DEF CtlInv
<1>9. CASE waiters = <<>>
  <2>1. pc' = p2 /\ waiters' = waiters /\ stack' = stack /\ locked' = FALSE
    BY <1>9 DEF Unlock, HandsOff
  <2>2. pc' \in [Cids -> Pcs] /\ InboxInv' /\ CountInv'
    BY <1>1, <1>2, <1>3, <2>1, HandlerStep
  <2>3. StoredInv'
    <3>1. \A d \in Cids : Stage(d)' = Stage(d)
      BY <1>1, <1>4, <2>1 DEF Stage
    <3> QED BY <1>2, <3>1, StoredSame DEF CtlInv
  <2>4. StackInv' /\ MutexInv'
    BY <1>2, <1>5, <1>6, <2>1 DEF StackInv, MutexInv
  <2>5. Shape'
    BY <1>1, <1>2, <2>1, <2>2 DEF CtlInv, Shape
  <2> QED BY <2>2, <2>3, <2>4, <2>5 DEF CtlInv
<1> QED BY <1>8, <1>9

\* wg.done() and the end of the handler.
LEMMA DoneCtl ==
  ASSUME CtlInv, NEW c \in Cids, Done(c) PROVE CtlInv'
<1>1. /\ pc \in [Cids -> Pcs] /\ stack \in Seq(Cids \cup {CONN}) /\ waiters \in Seq(Cids)
      /\ StackOK(stack, pc, connPc) /\ MutexOK(pc, locked, waiters)
      /\ stack # <<>> /\ Last(stack) = c /\ pc[c] = "done"
  BY CtlParts, RunningHandler DEF Done
<1>2. /\ backend' = backend /\ client' = client /\ kind' = kind /\ owesBody' = owesBody
      /\ inbox' = inbox /\ cur' = cur
      /\ io' = io /\ res' = res /\ stored' = stored /\ remaining' = remaining - 1
      /\ locked' = locked /\ waiters' = waiters /\ pc' = [pc EXCEPT ![c] = "finished"]
  BY DEF Done, clientVars, connVars, ioVars, mtxVars
<1>3. /\ "finished" \in Pcs \ RunPc /\ "finished" \in FreePc /\ "done" \in FreePc
  BY DEF RunPc, Pcs, FreePc, HoldPc
<1>4. /\ pc' \in [Cids -> Pcs] /\ pc'[c] = "finished"
      /\ \A d \in Cids : d # c => pc'[d] = pc[d]
  BY <1>1, <1>2, <1>3
<1>5. /\ StackOK(Front(stack), [pc EXCEPT ![c] = "finished"], connPc)
      /\ Front(stack) \in Seq(Cids \cup {CONN})
  BY <1>1, <1>3, StackPop
<1>6. MutexInv'
  <2>1. MutexOK([pc EXCEPT ![c] = "finished"], locked, waiters)
    BY <1>1, <1>3, MutexSame
  <2> QED BY <1>2, <2>1 DEF MutexInv
<1>7. /\ remaining' = Cardinality(AliveOf(pc')) /\ remaining' \in 0..MaxReqs
      /\ remaining' = 0 <=> AliveOf(pc') = {}
  <2>1. Cardinality(AliveOf([pc EXCEPT ![c] = "finished"])) = Cardinality(AliveOf(pc)) - 1
    BY <1>1, <1>3, AliveStep
  <2>2. remaining = Cardinality(AliveOf(pc))
    BY DEF CtlInv, CountInv
  <2>3. PICK q : q = pc'
    OBVIOUS
  <2>4. /\ Cardinality(AliveOf(q)) \in 0..MaxReqs
        /\ Cardinality(AliveOf(q)) = 0 <=> AliveOf(q) = {}
    BY AliveFinite
  <2> QED BY <1>2, <2>1, <2>2, <2>3, <2>4
<1>8. AliveOf(pc)' = AliveOf(pc')
  BY DEF AliveOf
<1>9. InboxInv'
  <2>1. \A d \in Cids : pc'[d] = "none" <=> pc[d] = "none"
    BY <1>1, <1>4
  <2>2. Reading' => Reading /\ (InBody' <=> InBody)
    BY DEF Reading, InBody, Done
  <2> QED BY <1>2, <2>1, <2>2, InboxSame DEF CtlInv
<1>10. StoredInv'
  <2>1. \A d \in Cids : Stage(d)' = Stage(d)
    BY <1>1, <1>4 DEF Stage
  <2> QED BY <1>2, <2>1, StoredSame DEF CtlInv
<1>11. CASE LastDone(remaining - 1) /\ connPc = "drainWait"
  <2>1. connPc' = "closing" /\ stack' = Append(Front(stack), CONN)
    BY <1>11 DEF Done, Return
  <2>2. AliveOf(pc') = {}
    <3>1. remaining' <= 0
      BY <1>2, <1>11 DEF LastDone
    <3>2. remaining' = 0
      BY <1>7, <3>1, SessionAssumption
    <3> QED BY <1>7, <3>2
  <2>3. PICK s2 \in Seq(Cids \cup {CONN}) : s2 = Front(stack)
    BY <1>5
  <2>4. PICK q \in [Cids -> Pcs] : q = pc'
    BY <1>4
  <2>5. StackOK(s2, q, "drainWait") /\ AliveOf(q) = {}
    BY <1>2, <1>5, <1>11, <2>2, <2>3, <2>4
  <2>6. s2 = <<>>
    <3>1. ASSUME NEW i \in DOMAIN s2 PROVE FALSE
      <4>1. s2[i] \in Cids \cup {CONN}
        OBVIOUS
      <4>2. s2[i] # CONN
        BY <2>5 DEF StackOK, RunConn
      <4>3. s2[i] \in Cids /\ q[s2[i]] \in RunPc
        BY <2>5, <4>1, <4>2 DEF StackOK
      <4> QED BY <2>5, <4>3 DEF AliveOf, RunPc
    <3>2. 1 \notin DOMAIN s2
      BY <3>1
    <3> QED BY <3>2
  <2>7. stack' = <<CONN>> /\ stack' \in Seq(Cids \cup {CONN})
    BY <2>1, <2>3, <2>6
  <2>8. StackOK(<<CONN>>, q, "closing")
    BY <2>5, <2>6, StackConn DEF RunConn
  <2>9. StackInv' /\ CountInv'
    BY <1>7, <1>8, <2>1, <2>2, <2>4, <2>7, <2>8 DEF StackInv, CountInv
  <2>10. Shape'
    BY <1>2, <1>4, <2>1, <2>7 DEF CtlInv, Shape
  <2> QED BY <1>6, <1>9, <1>10, <2>9, <2>10 DEF CtlInv
<1>12. CASE ~(LastDone(remaining - 1) /\ connPc = "drainWait")
  <2>1. connPc' = connPc /\ stack' = Front(stack)
    BY <1>12 DEF Done, Return
  <2>2. StackInv'
    BY <1>2, <1>5, <2>1 DEF StackInv
  <2>3. CountInv'
    <3>1. c \in AliveOf(pc)
      BY <1>1 DEF AliveOf
    <3> QED BY <1>7, <1>8, <2>1, <3>1 DEF CtlInv, CountInv
  <2>4. Shape'
    BY <1>2, <1>4, <1>5, <2>1 DEF CtlInv, Shape
  <2> QED BY <1>6, <1>9, <1>10, <2>2, <2>3, <2>4 DEF CtlInv
<1> QED BY <1>11, <1>12

\* The initial state.
LEMMA InitCtl == Init => CtlInv
<1> SUFFICES ASSUME Init PROVE CtlInv
  OBVIOUS
<1>1. Shape
  <2>1. stack \in Seq(Cids \cup {CONN}) /\ inbox \in Seq(Cids \cup {Body})
        /\ waiters \in Seq(Cids)
    BY DEF Init
  <2>2. /\ pc \in [Cids -> Pcs] /\ kind \in [Cids -> AllKinds \cup {"none"}]
        /\ io \in [Cids -> {"none"} \cup Operations \cup Results]
        /\ res \in [Cids -> {"none"} \cup Results]
        /\ stored \in [Cids -> {"none", "volatile", "durable"}]
    BY DEF Init, Pcs
  <2> QED BY <2>1, <2>2 DEF Init, Shape
<1>2. inbox = <<>> /\ DOMAIN inbox = {} /\ connPc = "header" /\ ~owesBody
  BY DEF Init
<1>3. InboxInv
  BY <1>2 DEF Init, InboxInv, InBody
<1>4. StackInv
  <2>1. DOMAIN stack = {1} /\ Len(stack) = 1 /\ stack[1] = CONN
    BY DEF Init
  <2>2. \A c \in Cids : pc[c] \notin RunPc
    BY DEF Init, RunPc
  <2> QED BY <1>2, <2>1, <2>2 DEF StackInv, StackOK, RunConn
<1>5. MutexInv
  <2>1. DOMAIN waiters = {} /\ ~locked /\ \A c \in Cids : pc[c] = "none"
    BY DEF Init
  <2> QED BY <2>1 DEF MutexInv, MutexOK, HoldPc
<1>6. CountInv
  <2>1. AliveOf(pc) = {}
    BY DEF Init, AliveOf
  <2> QED BY <2>1, FS_EmptySet DEF Init, CountInv
<1>7. StoredInv
  BY IoKinds DEF Init, StoredInv, StoredFor, Stage
<1> QED BY <1>1, <1>3, <1>4, <1>5, <1>6, <1>7 DEF CtlInv

\* Every step keeps CtlInv.
LEMMA NextCtl == CtlInv /\ [Next]_vars => CtlInv'
<1> SUFFICES ASSUME CtlInv, [Next]_vars PROVE CtlInv'
  OBVIOUS
<1>1. CASE Client
  <2>1. CASE ClientEnd
    <3>1. client' \in {"open", "shut", "gone"}
      BY <2>1 DEF ClientEnd
    <3> QED BY <2>1, <3>1, QuietCtl DEF ClientEnd
  <2> QED BY <1>1, <2>1, ClientSendCtl, ClientSendBodyCtl DEF Client
<1>2. CASE Connection
  BY <1>2, ConnSuspendCtl, ConnCatchCtl, ConnHeaderCtl, ConnBodyCtl, ConnDrainCtl,
     ConnCloseCtl DEF Connection
<1>3. CASE ConnResume
  BY <1>3, ConnResumeCtl
<1>4. ASSUME NEW c \in Cids, Handler(c) \/ Event(c) PROVE CtlInv'
  BY <1>4, HandlerStartCtl, LockCtl, SendCtl, UnlockCtl, DoneCtl, KernelIoCtl,
     IoCompleteCtl, SendCompleteCtl DEF Handler, Event
<1>5. CASE UNCHANGED vars
  <2>1. client' \in {"open", "shut", "gone"}
    BY <1>5 DEF vars, CtlInv, Shape
  <2> QED BY <1>5, <2>1, QuietCtl DEF vars, connVars, ioVars, mtxVars
<1> QED BY <1>1, <1>2, <1>3, <1>4, <1>5 DEF Next

-----------------------------------------------------------------------------
(* The theorems about send_mtx and wg. *)

\* The control invariant holds of every behaviour of Session.
LEMMA CtlHolds == Spec => []CtlInv
BY InitCtl, NextCtl, PTL DEF Spec

\* send_mtx excludes, is locked exactly while a handler is sending, and its queue is
\* exactly the handlers that wait for it (mutex.hpp, used by session.cpp's handlers).
THEOREM MutexCorrectHolds == Spec => []MutexCorrect
<1>1. CtlInv => MutexCorrect
  <2> SUFFICES ASSUME CtlInv PROVE MutexCorrect
    OBVIOUS
  <2>1. \A c \in Cids : Holds(c) <=> pc[c] \in HoldPc
    BY DEF Holds, HoldPc
  <2>2. locked = \E c \in Cids : Holds(c)
    <3>1. locked \in BOOLEAN
      BY DEF CtlInv, Shape
    <3>2. locked <=> \E c \in Cids : Holds(c)
      BY <2>1 DEF CtlInv, MutexInv, MutexOK
    <3> QED BY <3>1, <3>2
  <2>3. \A c \in Cids : pc[c] = "lockWait" <=> c \in ToSet(waiters)
    <3>1. \A c : c \in ToSet(waiters) <=> \E i \in DOMAIN waiters : waiters[i] = c
      BY DEF ToSet
    <3> QED BY <3>1 DEF CtlInv, MutexInv, MutexOK
  <2> QED BY <2>1, <2>2, <2>3 DEF CtlInv, MutexInv, MutexOK, MutexCorrect
<1> QED BY <1>1, CtlHolds, PTL

\* handle_connection() destroys send_mtx, wg and the stream only when no handler is left
\* that could use them, not even further down the stack; and wg counts the handlers
\* (session.cpp's drain through wg.wait(), wait_group.hpp).
THEOREM TeardownSafeHolds == Spec => []TeardownSafe
<1>1. CtlInv => TeardownSafe
  <2> SUFFICES ASSUME CtlInv PROVE TeardownSafe
    OBVIOUS
  <2>1. Alive = AliveOf(pc)
    BY DEF Alive, AliveOf
  <2>2. ASSUME connPc \in {"closing", "closed"}
        PROVE  Alive = {} /\ waiters = <<>> /\ ~locked /\ ToSet(stack) \subseteq {CONN}
    <3>1. Alive = {} /\ \A c \in Cids : pc[c] \in {"none", "finished"}
      BY <2>1, <2>2 DEF CtlInv, CountInv, AliveOf
    <3>2. ~locked
      BY <3>1 DEF CtlInv, MutexInv, MutexOK, HoldPc
    <3>3. waiters = <<>>
      <4>1. waiters \in Seq(Cids)
        BY DEF CtlInv, Shape
      <4>2. ASSUME NEW i \in DOMAIN waiters PROVE FALSE
        <5>1. waiters[i] \in Cids
          BY <4>1
        <5> QED BY <3>1, <5>1 DEF CtlInv, MutexInv, MutexOK
      <4>3. 1 \notin DOMAIN waiters
        BY <4>2
      <4> QED BY <4>1, <4>3
    <3>4. \A i \in DOMAIN stack : stack[i] = CONN
      <4>1. ASSUME NEW i \in DOMAIN stack, stack[i] # CONN PROVE FALSE
        <5>1. stack[i] \in Cids
          BY <4>1 DEF CtlInv, Shape
        <5> QED BY <3>1, <4>1, <5>1 DEF CtlInv, StackInv, StackOK, RunPc
      <4> QED BY <4>1
    <3> QED BY <3>1, <3>2, <3>3, <3>4 DEF ToSet
  <2> QED BY <2>1, <2>2 DEF CtlInv, CountInv, TeardownSafe
<1> QED BY <1>1, CtlHolds, PTL

-----------------------------------------------------------------------------
(* send_all(): iovecs and the wire. *)

\* A sequence of one part, and of two.
LEMMA PartSeqs ==
  ASSUME NEW x, NEW y
  PROVE  /\ Len(<<x>>) = 1 /\ <<x>>[1] = x /\ Tail(<<x>>) = <<>>
         /\ Len(<<x, y>>) = 2 /\ <<x, y>>[1] = x /\ <<x, y>>[2] = y /\ Tail(<<x, y>>) = <<y>>
         /\ <<x>> \o <<y>> = <<x, y>>
<1> DEFINE s == <<x>> \o <<y>>
<1>1. <<x>> \in Seq({x, y}) /\ <<y>> \in Seq({x, y}) /\ Len(<<x>>) = 1 /\ Len(<<y>>) = 1
  OBVIOUS
<1>2. s \in Seq({x, y}) /\ Len(s) = 2 /\ s[1] = <<x>>[1] /\ s[2] = <<y>>[2 - 1]
  BY <1>1, ConcatProperties
<1>3. s = <<s[1], s[2]>>
  <2> HIDE DEF s
  <2> QED BY <1>2
<1> QED BY <1>2, <1>3

\* u is the units a to b of the response to c, in order.
Spells(u, c, a, b) ==
  /\ Len(u) = b - a + 1
  /\ DOMAIN u = 1..(b - a + 1)
  /\ \A j \in 1..(b - a + 1) : u[j] = [cid |-> c, at |-> a + j - 1]
  /\ u \in Seq(CidUnits(c, a, b))

\* The units of an iovec are the units it covers.
LEMMA UnitsOf ==
  ASSUME NEW iov, NEW a \in Nat \ {0}, NEW b \in Nat, a <= b, Covers(iov, a, b), NEW c
  PROVE  Spells(Units(c, iov), c, a, b)
<1> DEFINE V == {[cid |-> c, at |-> x] : x \in a..b}
<1>0. V = CidUnits(c, a, b)
  BY DEF CidUnits
<1>1. CASE iov = <<[at |-> a, len |-> b - a + 1]>>
  <2> DEFINE u == [j \in 1..(b - a + 1) |-> [cid |-> c, at |-> a + j - 1]]
  <2>1. Units(c, iov) = u
    BY <1>1 DEF Units, PartUnits
  <2>2. b - a + 1 \in Nat
    OBVIOUS
  <2>3. \A j \in 1..(b - a + 1) : u[j] = [cid |-> c, at |-> a + j - 1] /\ u[j] \in V
    <3>1. \A j \in 1..(b - a + 1) : a + j - 1 \in a..b
      BY <2>2
    <3> QED BY <3>1
  <2>4. u \in Seq(V) /\ Len(u) = b - a + 1 /\ DOMAIN u = 1..(b - a + 1)
    <3>1. u \in [1..(b - a + 1) -> V]
      BY <2>3
    <3> HIDE DEF u, V
    <3> QED BY <2>2, <3>1
  <2> HIDE DEF u, V
  <2> QED BY <1>0, <2>1, <2>3, <2>4 DEF Spells
<1>2. ASSUME NEW m \in a..(b - 1),
             iov = <<[at |-> a, len |-> m - a + 1], [at |-> m + 1, len |-> b - m]>>
      PROVE  /\ Len(Units(c, iov)) = b - a + 1
             /\ DOMAIN Units(c, iov) = 1..(b - a + 1)
             /\ \A j \in 1..(b - a + 1) : Units(c, iov)[j] = [cid |-> c, at |-> a + j - 1]
             /\ Units(c, iov) \in Seq(V)
  <2> DEFINE u == [j \in 1..(m - a + 1) |-> [cid |-> c, at |-> a + j - 1]]
             v == [j \in 1..(b - m) |-> [cid |-> c, at |-> m + 1 + j - 1]]
  <2>1. Units(c, iov) = u \o v
    <3>1. Len(iov) = 2 /\ iov[1] = [at |-> a, len |-> m - a + 1]
          /\ iov[2] = [at |-> m + 1, len |-> b - m]
      BY <1>2, PartSeqs
    <3> QED BY <3>1 DEF Units, PartUnits
  <2>2. m \in Nat /\ m - a + 1 \in Nat /\ b - m \in Nat /\ b - a + 1 \in Nat
    OBVIOUS
  <2>3. \A j \in 1..(m - a + 1) : u[j] = [cid |-> c, at |-> a + j - 1] /\ u[j] \in V
    <3>1. \A j \in 1..(m - a + 1) : a + j - 1 \in a..b
      BY <2>2
    <3> QED BY <3>1
  <2>4. \A j \in 1..(b - m) : v[j] = [cid |-> c, at |-> m + j] /\ v[j] \in V
    <3>1. \A j \in 1..(b - m) : m + 1 + j - 1 \in a..b /\ m + 1 + j - 1 = m + j
      BY <2>2
    <3> QED BY <3>1
  <2>5. u \in Seq(V) /\ Len(u) = m - a + 1 /\ DOMAIN u = 1..(m - a + 1)
    <3>1. u \in [1..(m - a + 1) -> V]
      BY <2>3
    <3> HIDE DEF u, V
    <3> QED BY <2>2, <3>1
  <2>6. v \in Seq(V) /\ Len(v) = b - m /\ DOMAIN v = 1..(b - m)
    <3>1. v \in [1..(b - m) -> V]
      BY <2>4
    <3> HIDE DEF v, V
    <3> QED BY <2>2, <3>1
  <2> HIDE DEF u, v, V
  <2>7. u \o v \in Seq(V) /\ Len(u \o v) = b - a + 1 /\ DOMAIN (u \o v) = 1..(b - a + 1)
    <3>1. u \o v \in Seq(V) /\ Len(u \o v) = (m - a + 1) + (b - m)
      BY <2>5, <2>6
    <3> QED BY <2>2, <3>1
  <2>8. ASSUME NEW j \in 1..(b - a + 1)
        PROVE  (u \o v)[j] = [cid |-> c, at |-> a + j - 1]
    <3>1. CASE j <= m - a + 1
      <4>1. (u \o v)[j] = u[j] /\ j \in 1..(m - a + 1)
        BY <2>2, <2>5, <2>6, <3>1
      <4> QED BY <2>3, <4>1
    <3>2. CASE ~(j <= m - a + 1)
      <4>1. PICK k \in 1..(b - m) : k = j - (m - a + 1) /\ m + k = a + j - 1
        BY <2>2, <3>2
      <4>2. (u \o v)[j] = v[k]
        BY <2>2, <2>5, <2>6, <3>2, <4>1, ConcatProperties
      <4>3. v[k] = [cid |-> c, at |-> m + k]
        BY <2>4
      <4>4. [cid |-> c, at |-> m + k] = [cid |-> c, at |-> a + j - 1]
        BY <4>1
      <4> QED BY <4>2, <4>3, <4>4
    <3> QED BY <3>1, <3>2
  <2> QED BY <2>1, <2>7, <2>8
<1> HIDE DEF V
<1> QED BY <1>0, <1>1, <1>2 DEF Covers, Spells

\* An iovec that covers units is a sequence of parts.
LEMMA CoversParts ==
  ASSUME NEW iov, NEW a \in Nat \ {0}, NEW b \in 1..(HeaderLen + PayloadLen), a <= b,
         Covers(iov, a, b)
  PROVE  iov \in Seq(Part) /\ iov # <<>>
<1>0. HeaderLen + PayloadLen \in Nat
  BY SessionAssumption
<1>1. CASE iov = <<[at |-> a, len |-> b - a + 1]>>
  <2>1. a \in 1..(HeaderLen + PayloadLen) /\ b - a + 1 \in 1..(HeaderLen + PayloadLen)
    BY <1>0
  <2>2. [at |-> a, len |-> b - a + 1] \in Part
    BY <2>1 DEF Part
  <2> QED BY <1>1, <2>2
<1>2. ASSUME NEW m \in a..(b - 1),
             iov = <<[at |-> a, len |-> m - a + 1], [at |-> m + 1, len |-> b - m]>>
      PROVE  iov \in Seq(Part) /\ iov # <<>>
  <2>1. /\ a \in 1..(HeaderLen + PayloadLen) /\ m - a + 1 \in 1..(HeaderLen + PayloadLen)
        /\ m + 1 \in 1..(HeaderLen + PayloadLen) /\ b - m \in 1..(HeaderLen + PayloadLen)
    BY <1>0
  <2>2. [at |-> a, len |-> m - a + 1] \in Part /\ [at |-> m + 1, len |-> b - m] \in Part
    BY <2>1 DEF Part
  <2> QED BY <1>2, <2>2
<1> QED BY <1>1, <1>2 DEF Covers

\* After n units are sent, the iovec covers the rest.
LEMMA AdvanceOf ==
  ASSUME NEW iov, NEW a \in Nat \ {0}, NEW b \in Nat, a <= b, Covers(iov, a, b),
         NEW n \in 1..(b - a + 1)
  PROVE  /\ n = b - a + 1 => Advance(iov, n) = <<>>
         /\ n # b - a + 1 => Covers(Advance(iov, n), a + n, b)
<1>1. CASE iov = <<[at |-> a, len |-> b - a + 1]>>
  <2>1. iov[1] = [at |-> a, len |-> b - a + 1] /\ Tail(iov) = <<>>
    BY <1>1, PartSeqs
  <2>2. iov[1].len = b - a + 1 /\ iov[1].at = a
    BY <2>1
  <2>3. CASE n = b - a + 1
    BY <2>1, <2>2, <2>3 DEF Advance
  <2>4. CASE n # b - a + 1
    <3>1. n < iov[1].len /\ b - a + 1 - n = b - (a + n) + 1
      BY <2>2, <2>4
    <3>2. Skip(iov[1], n) = [at |-> a + n, len |-> b - (a + n) + 1]
      BY <2>2, <3>1 DEF Skip
    <3>3. Advance(iov, n) = <<Skip(iov[1], n)>> \o <<>>
      BY <2>1, <3>1 DEF Advance
    <3>4. Advance(iov, n) = <<[at |-> a + n, len |-> b - (a + n) + 1]>>
      BY <3>2, <3>3
    <3> QED BY <2>4, <3>4 DEF Covers
  <2> QED BY <2>3, <2>4
<1>2. ASSUME NEW m \in a..(b - 1),
             iov = <<[at |-> a, len |-> m - a + 1], [at |-> m + 1, len |-> b - m]>>
      PROVE  /\ n = b - a + 1 => Advance(iov, n) = <<>>
             /\ n # b - a + 1 => Covers(Advance(iov, n), a + n, b)
  <2>1. /\ iov[1] = [at |-> a, len |-> m - a + 1] /\ iov[2] = [at |-> m + 1, len |-> b - m]
        /\ Tail(iov) = <<[at |-> m + 1, len |-> b - m]>>
    BY <1>2, PartSeqs
  <2>2. iov[1].len = m - a + 1 /\ iov[1].at = a /\ iov[2].len = b - m /\ iov[2].at = m + 1
    BY <2>1
  <2>3. CASE n < m - a + 1
    <3>1. /\ m - a + 1 - n = m - (a + n) + 1 /\ m \in (a + n)..(b - 1) /\ n # b - a + 1
      BY <2>3
    <3>2. Skip(iov[1], n) = [at |-> a + n, len |-> m - (a + n) + 1]
      BY <2>2, <3>1 DEF Skip
    <3>3. Advance(iov, n) = <<Skip(iov[1], n)>> \o <<[at |-> m + 1, len |-> b - m]>>
      BY <2>1, <2>2, <2>3 DEF Advance
    <3>4. Advance(iov, n) =
            <<[at |-> a + n, len |-> m - (a + n) + 1], [at |-> m + 1, len |-> b - m]>>
      BY <3>2, <3>3, PartSeqs
    <3> QED BY <3>1, <3>4 DEF Covers
  <2>4. CASE n = m - a + 1
    <3>1. a + n = m + 1 /\ b - m = b - (m + 1) + 1 /\ n # b - a + 1 /\ ~(n < m - a + 1)
          /\ n - (m - a + 1) = 0
      BY <2>4
    <3>2. Advance(iov, n) = <<[at |-> a + n, len |-> b - (a + n) + 1]>>
      BY <2>1, <2>2, <3>1 DEF Advance
    <3> QED BY <3>1, <3>2 DEF Covers
  <2>5. CASE n > m - a + 1
    <3>1. /\ ~(n < m - a + 1) /\ n - (m - a + 1) # 0
          /\ n - (m - a + 1) < b - m <=> n # b - a + 1
          /\ m + 1 + (n - (m - a + 1)) = a + n
          /\ b - m - (n - (m - a + 1)) = b - (a + n) + 1
      BY <2>5
    <3>2. Advance(iov, n) = IF n # b - a + 1 THEN <<Skip(iov[2], n - (m - a + 1))>> ELSE <<>>
      BY <2>2, <3>1 DEF Advance
    <3>3. Skip(iov[2], n - (m - a + 1)) = [at |-> a + n, len |-> b - (a + n) + 1]
      BY <2>2, <3>1 DEF Skip
    <3> QED BY <3>2, <3>3 DEF Covers
  <2> QED BY <2>3, <2>4, <2>5
<1> QED BY <1>1, <1>2 DEF Covers

\* What becomes of the wire w when n more units of the response to c, of which a - 1 are
\* sent, are put on it.
Appended(w, w2, L, T, c, a, n) ==
  /\ w2 \in Seq(Unit) /\ Whole(w2, L, T) /\ SentUpTo(w2, c, a + n)
  /\ n = L[c] - a + 1 => /\ EndWhole(w2, L, T)
                         /\ \E i \in DOMAIN w2 : w2[i].cid = c /\ w2[i].at = L[c]
  /\ \A i \in DOMAIN w2 : (i \in DOMAIN w /\ w2[i] = w[i]) \/ w2[i].cid = c
  /\ \A i \in DOMAIN w : i \in DOMAIN w2 /\ w2[i] = w[i]

\* The next n units of the response that is being sent are put on the wire.
LEMMA WireAppend ==
  ASSUME NEW w \in Seq(Unit), NEW L \in [Cids -> 1..(HeaderLen + PayloadLen)], NEW T,
         Whole(w, L, T),
         NEW c \in Cids, NEW a \in 1..L[c], NEW n \in 1..(L[c] - a + 1),
         SentUpTo(w, c, a), a = 1 => EndWhole(w, L, T),
         NEW t \in Seq(Unit), Len(t) = n,
         \A j \in 1..n : t[j] = [cid |-> c, at |-> a + j - 1]
  PROVE  Appended(w, w \o t, L, T, c, a, n)
<1> DEFINE w2 == w \o t
           K == Len(w)
<1>1. /\ K \in Nat /\ DOMAIN w = 1..K /\ n \in Nat \ {0} /\ a \in Nat \ {0} /\ L[c] \in Nat
      /\ n <= L[c] - a + 1
  BY SessionAssumption
<1>2. w2 \in Seq(Unit) /\ Len(w2) = K + n
  BY ConcatProperties
<1>3. \A i \in 1..(K + n) : w2[i] = IF i <= K THEN w[i] ELSE t[i - K]
  BY ConcatProperties
<1> HIDE DEF w2, K
<1>4. DOMAIN w2 = 1..(K + n)
  BY <1>1, <1>2
<1>5. \A i \in DOMAIN w : i \in DOMAIN w2 /\ w2[i] = w[i]
  BY <1>1, <1>3, <1>4
<1>6. ASSUME NEW i \in DOMAIN w2, i \notin DOMAIN w
      PROVE  i > K /\ i - K \in 1..n /\ w2[i].cid = c /\ w2[i].at = a + (i - K) - 1
  <2>1. i > K /\ i - K \in 1..n
    BY <1>1, <1>4, <1>6
  <2>2. w2[i] = t[i - K]
    BY <1>1, <1>3, <1>4, <2>1
  <2>3. t[i - K] = [cid |-> c, at |-> a + (i - K) - 1]
    BY <2>1
  <2> QED BY <2>1, <2>2, <2>3
<1>7. \A i \in DOMAIN w : w[i] \in Unit /\ w[i].at \in Nat
  <2>1. \A i \in DOMAIN w : w[i] \in Unit
    OBVIOUS
  <2> QED BY <2>1, SessionAssumption DEF Unit
<1>8. \A i \in DOMAIN w2 : w2[i] \in Unit
  BY <1>2
<1>9. ASSUME NEW i \in DOMAIN w2
      PROVE  IF w2[i].at = 1
             THEN i = 1 \/ w2[i - 1].at = L[w2[i - 1].cid] \/ w2[i - 1].cid \in T
             ELSE i > 1 /\ w2[i - 1].cid = w2[i].cid /\ w2[i - 1].at = w2[i].at - 1
  <2>1. CASE i \in DOMAIN w
    <3>1. i # 1 => i - 1 \in DOMAIN w
      BY <1>1, <2>1
    <3> QED BY <1>5, <2>1, <3>1 DEF Whole
  <2>2. CASE i = K + 1
    <3>1. w2[i].cid = c /\ w2[i].at = a
      <4>1. i \notin DOMAIN w /\ i - K = 1 /\ a + (i - K) - 1 = a
        BY <1>1, <2>2
      <4> QED BY <1>6, <4>1
    <3>2. K # 0 => K \in DOMAIN w /\ w2[K] = w[K]
      <4>1. K # 0 => K \in DOMAIN w
        BY <1>1
      <4> QED BY <1>5, <4>1
    <3>3. i - 1 = K
      BY <1>1, <2>2
    <3>4. CASE a = 1
      <4>1. K = 0 \/ w[K].at = L[w[K].cid] \/ w[K].cid \in T
        BY <1>1, <3>4 DEF EndWhole, K
      <4> QED BY <2>2, <3>1, <3>2, <3>3, <3>4, <4>1
    <3>5. CASE a # 1
      <4>1. w # <<>> /\ w[K] = [cid |-> c, at |-> a - 1]
        BY <1>1, <3>5 DEF SentUpTo, K
      <4>2. K # 0
        BY <4>1 DEF K
      <4>3. w[K].cid = c /\ w[K].at = a - 1
        BY <4>1
      <4>4. i > 1
        BY <1>1, <2>2, <4>2
      <4> QED BY <3>1, <3>2, <3>3, <3>5, <4>2, <4>3, <4>4
    <3> QED BY <3>4, <3>5
  <2>3. CASE i \notin DOMAIN w /\ i # K + 1
    <3>1. i - 1 \in DOMAIN w2 /\ i - 1 \notin DOMAIN w /\ i > 1
      <4>1. i \in Nat /\ i > K + 1 /\ i <= K + n
        BY <1>1, <1>4, <1>6, <2>3, SMTT(30)
      <4>2. i - 1 \in 1..(K + n) /\ i - 1 \notin 1..K /\ i > 1
        BY <1>1, <4>1
      <4> QED BY <1>1, <1>4, <4>2
    <3>2. w2[i].cid = c /\ w2[i].at = a + (i - K) - 1 /\ i - K \in 1..n
      BY <1>6, <2>3
    <3>3. w2[i - 1].cid = c /\ w2[i - 1].at = a + ((i - 1) - K) - 1 /\ (i - 1) - K \in 1..n
      BY <1>6, <3>1
    <3>4. w2[i].at # 1 /\ w2[i - 1].at = w2[i].at - 1
      <4>1. i \in Nat /\ i > 1 + K
        BY <1>1, <1>4, <3>3, SMTT(30)
      <4>2. a + ((i - 1) - K) - 1 = (a + (i - K) - 1) - 1 /\ a + (i - K) - 1 # 1
        BY <1>1, <4>1
      <4> QED BY <3>2, <3>3, <4>2
    <3> QED BY <3>1, <3>2, <3>3, <3>4
  <2> QED BY <2>1, <2>2, <2>3
<1>10. \A i \in DOMAIN w : w[i].cid = c => w[i].at < a
  BY DEF SentUpTo
<1>11. ASSUME NEW i \in DOMAIN w2, NEW j \in DOMAIN w2, w2[i] = w2[j] PROVE i = j
  <2>1. CASE i \in DOMAIN w /\ j \in DOMAIN w
    BY <1>5, <1>11, <2>1 DEF Whole
  <2>2. CASE i \in DOMAIN w /\ j \notin DOMAIN w
    <3>1. w2[j].cid = c /\ w2[j].at = a + (j - K) - 1 /\ j - K \in 1..n
      BY <1>6, <2>2
    <3>2. w2[i] = w[i] /\ w[i].at \in Nat /\ (w[i].cid = c => w[i].at < a)
      BY <1>5, <1>7, <1>10, <2>2
    <3> QED BY <1>1, <1>11, <3>1, <3>2
  <2>3. CASE i \notin DOMAIN w /\ j \in DOMAIN w
    <3>1. w2[i].cid = c /\ w2[i].at = a + (i - K) - 1 /\ i - K \in 1..n
      BY <1>6, <2>3
    <3>2. w2[j] = w[j] /\ w[j].at \in Nat /\ (w[j].cid = c => w[j].at < a)
      BY <1>5, <1>7, <1>10, <2>3
    <3> QED BY <1>1, <1>11, <3>1, <3>2
  <2>4. CASE i \notin DOMAIN w /\ j \notin DOMAIN w
    <3>1. w2[i].at = a + (i - K) - 1 /\ w2[j].at = a + (j - K) - 1
      BY <1>6, <2>4
    <3>2. i \in Nat /\ j \in Nat
      BY <1>4
    <3> QED BY <1>1, <1>11, <3>1, <3>2
  <2> QED BY <2>1, <2>2, <2>3, <2>4
<1>12. ASSUME NEW i \in DOMAIN w2 PROVE w2[i].at <= L[w2[i].cid]
  <2>1. CASE i \in DOMAIN w
    BY <1>5, <2>1 DEF Whole
  <2>2. CASE i \notin DOMAIN w
    <3>1. w2[i].cid = c /\ w2[i].at = a + (i - K) - 1 /\ i - K \in 1..n
      BY <1>6, <2>2
    <3> QED BY <1>1, <3>1
  <2> QED BY <2>1, <2>2
<1>13. Whole(w2, L, T)
  BY <1>9, <1>11, <1>12 DEF Whole
<1>14. /\ K + n \in DOMAIN w2 /\ w2 # <<>> /\ w2[K + n].cid = c /\ w2[K + n].at = a + n - 1
       /\ w2[K + n] = [cid |-> c, at |-> a + n - 1]
  <2>1. K + n \in DOMAIN w2 /\ K + n \notin DOMAIN w /\ (K + n) - K = n
    BY <1>1, <1>4
  <2>2. w2[K + n].cid = c /\ w2[K + n].at = a + n - 1
    BY <1>6, <2>1
  <2>3. w2[K + n] \in Unit
    BY <1>8, <2>1
  <2>4. w2 # <<>>
    BY <1>1, <1>2
  <2> QED BY <2>1, <2>2, <2>3, <2>4 DEF Unit
<1>15. SentUpTo(w2, c, a + n)
  <2>1. ASSUME NEW i \in DOMAIN w2, w2[i].cid = c PROVE w2[i].at < a + n
    <3>1. CASE i \in DOMAIN w
      BY <1>1, <1>5, <1>7, <1>10, <2>1, <3>1
    <3>2. CASE i \notin DOMAIN w
      <4>1. w2[i].at = a + (i - K) - 1 /\ i - K \in 1..n
        BY <1>6, <3>2
      <4> QED BY <1>1, <4>1
    <3> QED BY <3>1, <3>2
  <2>2. w2 # <<>> /\ w2[Len(w2)] = [cid |-> c, at |-> a + n - 1]
    BY <1>2, <1>14
  <2> QED BY <2>1, <2>2 DEF SentUpTo
<1>16. ASSUME n = L[c] - a + 1
       PROVE  /\ EndWhole(w2, L, T)
              /\ \E i \in DOMAIN w2 : w2[i].cid = c /\ w2[i].at = L[c]
  <2>1. w2[K + n].at = L[c]
    BY <1>1, <1>14, <1>16
  <2> QED BY <1>2, <1>14, <2>1 DEF EndWhole
<1>17. \A i \in DOMAIN w2 : (i \in DOMAIN w /\ w2[i] = w[i]) \/ w2[i].cid = c
  BY <1>5, <1>6
<1>18. Appended(w, w2, L, T, c, a, n)
  BY <1>2, <1>5, <1>13, <1>15, <1>16, <1>17 DEF Appended
<1> QED BY <1>18 DEF w2

-----------------------------------------------------------------------------
(* FrameInv. *)

\* A response has at least a header and at most a header and a payload.
LEMMA LensType ==
  /\ Lens \in [Cids -> 1..(HeaderLen + PayloadLen)]
  /\ \A c \in Cids : Lens[c] = ResponseLen(c)
BY SessionAssumption DEF Lens, ResponseLen

\* ... which does not change while no request is sent and no result comes.
LEMMA LensSame ==
  ASSUME UNCHANGED <<kind, res>> PROVE Lens' = Lens
BY DEF Lens, ResponseLen

\* What is whole stays so when more handlers throw.
LEMMA WholeMore ==
  ASSUME NEW w, NEW L, NEW T, NEW T2, T \subseteq T2
  PROVE  /\ Whole(w, L, T) => Whole(w, L, T2)
         /\ EndWhole(w, L, T) => EndWhole(w, L, T2)
BY DEF Whole, EndWhole

\* Nothing is sent, nothing is ready to be sent, and nobody takes the mutex; a handler
\* that stops sending before the end threw.
LEMMA FrameSame ==
  ASSUME FrameInv, UNCHANGED <<wire, rest>>, Lens' = Lens,
         threw \subseteq threw', threw' \subseteq Cids,
         \A d \in Cids :
           /\ HasRes(d) => HasRes(d)'
           /\ pc'[d] \in WaitPc => pc[d] \in WaitPc
           /\ pc'[d] \in SendPc => pc[d] \in SendPc
           /\ pc[d] \in SendPc => pc'[d] \in SendPc \/ d \in threw'
           /\ pc'[d] \in OverPc /\ d \notin threw' => pc[d] \in OverPc
  PROVE  FrameInv'
<1>0. PICK T2 : T2 = threw' /\ threw \subseteq T2
  OBVIOUS
<1>1. /\ wire' \in Seq(Unit) /\ rest' \in [Cids -> Seq(Part)] /\ threw' \subseteq Cids
      /\ Whole(wire', Lens', threw')
  <2>1. Whole(wire, Lens, T2)
    BY <1>0, WholeMore DEF FrameInv
  <2> QED BY <1>0, <2>1 DEF FrameInv
<1>2. \A i \in DOMAIN wire' : HasRes(wire[i].cid)'
  <2>1. ASSUME NEW i \in DOMAIN wire PROVE HasRes(wire[i].cid)'
    <3>1. wire[i] \in Unit
      BY DEF FrameInv
    <3>2. wire[i].cid \in Cids /\ wire'[i] = wire[i]
      BY <3>1 DEF Unit
    <3>3. PICK d \in Cids : d = wire[i].cid
      BY <3>2
    <3>4. HasRes(d)'
      BY <3>3 DEF FrameInv
    <3> QED BY <3>2, <3>3, <3>4 DEF HasRes
  <2> QED BY <2>1
<1>3. \A c \in Cids : pc'[c] \in WaitPc =>
        Covers(rest'[c], 1, Lens'[c]) /\ \A i \in DOMAIN wire' : wire'[i].cid # c
  BY DEF FrameInv
<1>4. EndWhole(wire, Lens, threw) => EndWhole(wire', Lens', threw')
  <2>1. EndWhole(wire, Lens, threw) => EndWhole(wire, Lens, T2)
    BY <1>0, WholeMore
  <2> QED BY <1>0, <2>1
<1>5. \A c \in Cids : pc'[c] \in SendPc =>
        \E a \in 1..Lens'[c] :
          /\ Covers(rest'[c], a, Lens'[c]) /\ SentUpTo(wire', c, a)
          /\ a = 1 => EndWhole(wire', Lens', threw')
  BY <1>4 DEF FrameInv
<1>6. (\A c \in Cids : pc'[c] \notin SendPc) => EndWhole(wire', Lens', threw')
  <2>1. CASE \A c \in Cids : pc[c] \notin SendPc
    BY <1>4, <2>1 DEF FrameInv
  <2>2. ASSUME NEW c \in Cids, pc[c] \in SendPc, c \in threw'
        PROVE  EndWhole(wire', Lens', threw')
    <3>1. PICK a \in 1..Lens[c] : /\ SentUpTo(wire, c, a)
                                  /\ a = 1 => EndWhole(wire, Lens, threw)
      BY <2>2 DEF FrameInv
    <3>2. CASE a = 1
      BY <1>4, <3>1, <3>2
    <3>3. CASE a # 1
      <4>1. Lens[c] \in Nat /\ a > 1
        BY <3>3, LensType, SessionAssumption
      <4>2. wire[Len(wire)] = [cid |-> c, at |-> a - 1]
        BY <3>1, <4>1 DEF SentUpTo
      <4>3. wire[Len(wire)].cid = c
        BY <4>2
      <4> QED BY <2>2, <4>3 DEF EndWhole
    <3> QED BY <3>2, <3>3
  <2> QED BY <2>1, <2>2
<1>7. \A c \in Cids : pc'[c] \in OverPc /\ c \notin threw' =>
        \E i \in DOMAIN wire' : wire'[i].cid = c /\ wire'[i].at = Lens'[c]
  BY DEF FrameInv
<1> QED BY <1>1, <1>2, <1>3, <1>5, <1>6, <1>7 DEF FrameInv

\* A handler that waited for the mutex takes it.
LEMMA FrameTake ==
  ASSUME FrameInv, UNCHANGED <<wire, rest, threw>>, Lens' = Lens,
         \A d \in Cids : pc[d] \notin SendPc,
         NEW h \in Cids, pc[h] \in WaitPc, pc'[h] = "send",
         \A d \in Cids \ {h} :
           /\ HasRes(d) => HasRes(d)'
           /\ pc'[d] \in WaitPc => pc[d] \in WaitPc
           /\ pc'[d] \notin SendPc
           /\ pc'[d] \in OverPc => pc[d] \in OverPc
  PROVE  FrameInv'
<1>0. /\ pc'[h] \notin WaitPc /\ pc'[h] \in SendPc /\ pc'[h] \notin OverPc /\ HasRes(h)'
  BY DEF WaitPc, SendPc, OverPc, HasRes
<1>1. /\ wire' \in Seq(Unit) /\ rest' \in [Cids -> Seq(Part)] /\ threw' \subseteq Cids
      /\ Whole(wire', Lens', threw')
  BY DEF FrameInv
<1>2. \A i \in DOMAIN wire' : HasRes(wire[i].cid)'
  <2>1. ASSUME NEW i \in DOMAIN wire PROVE HasRes(wire[i].cid)'
    <3>1. wire[i] \in Unit
      BY DEF FrameInv
    <3>2. wire[i].cid \in Cids /\ wire'[i] = wire[i]
      BY <3>1 DEF Unit
    <3>3. PICK d \in Cids : d = wire[i].cid
      BY <3>2
    <3>4. HasRes(d)'
      BY <1>0, <3>3 DEF FrameInv
    <3> QED BY <3>2, <3>3, <3>4 DEF HasRes
  <2> QED BY <2>1
<1>3. \A c \in Cids : pc'[c] \in WaitPc =>
        Covers(rest'[c], 1, Lens'[c]) /\ \A i \in DOMAIN wire' : wire'[i].cid # c
  BY <1>0 DEF FrameInv
<1>4. \A c \in Cids : pc'[c] \in SendPc =>
        \E a \in 1..Lens'[c] :
          /\ Covers(rest'[c], a, Lens'[c]) /\ SentUpTo(wire', c, a)
          /\ a = 1 => EndWhole(wire', Lens', threw')
  <2>1. 1 \in 1..Lens[h]
    BY LensType, SessionAssumption
  <2>2. Covers(rest[h], 1, Lens[h]) /\ SentUpTo(wire, h, 1)
    BY DEF FrameInv, SentUpTo
  <2>3. EndWhole(wire, Lens, threw)
    BY DEF FrameInv
  <2> QED BY <2>1, <2>2, <2>3
<1>5. ~(\A c \in Cids : pc'[c] \notin SendPc)
  BY <1>0
<1>6. \A c \in Cids :
        pc'[c] \in OverPc /\ c \notin threw' =>
          \E i \in DOMAIN wire' : wire'[i].cid = c /\ wire'[i].at = Lens'[c]
  BY <1>0 DEF FrameInv
<1> QED BY <1>1, <1>2, <1>3, <1>4, <1>5, <1>6 DEF FrameInv

\* A handler has its result, and its response to send.
LEMMA FrameResult ==
  ASSUME CtlInv, FrameInv, UNCHANGED <<kind, wire, threw>>,
         NEW c \in Cids, NEW r \in Results, Answer(c, r),
         pc[c] \in {"start", "ioWait"}
  PROVE  FrameInv'
<1>1. /\ pc'[c] = "lock" /\ \A d \in Cids : d # c => pc'[d] = pc[d]
      /\ res'[c] = r /\ \A d \in Cids : d # c => res'[d] = res[d]
      /\ rest'[c] = Response(c, r) /\ \A d \in Cids : d # c => rest'[d] = rest[d]
  BY DEF CtlInv, Shape, FrameInv, Answer
<1>2. /\ Lens'[c] = (IF kind[c] = "read" /\ r = "ok" THEN HeaderLen + PayloadLen ELSE HeaderLen)
      /\ \A d \in Cids : d # c => Lens'[d] = Lens[d]
      /\ Lens'[c] \in 1..(HeaderLen + PayloadLen)
  BY <1>1, SessionAssumption DEF Lens, ResponseLen
<1>3. \A i \in DOMAIN wire : wire[i] \in Unit /\ wire[i].cid \in Cids /\ wire[i].cid # c
  <2>1. \A i \in DOMAIN wire : wire[i] \in Unit
    BY DEF FrameInv
  <2>2. ~HasRes(c)
    BY DEF HasRes
  <2> QED BY <2>1, <2>2 DEF FrameInv, Unit
<1>4. Covers(rest'[c], 1, Lens'[c])
  <2>1. CASE kind[c] = "read" /\ r = "ok"
    <3>1. /\ HeaderLen \in 1..(Lens'[c] - 1) /\ HeaderLen - 1 + 1 = HeaderLen
          /\ Lens'[c] - HeaderLen = PayloadLen
      BY <1>2, <2>1, SessionAssumption
    <3>2. rest'[c] = <<[at |-> 1, len |-> HeaderLen - 1 + 1],
                       [at |-> HeaderLen + 1, len |-> Lens'[c] - HeaderLen]>>
      BY <1>1, <2>1, <3>1 DEF Response
    <3> QED BY <3>1, <3>2 DEF Covers
  <2>2. CASE ~(kind[c] = "read" /\ r = "ok")
    <3>1. Lens'[c] - 1 + 1 = HeaderLen
      BY <1>2, <2>2, SessionAssumption
    <3>2. rest'[c] = <<[at |-> 1, len |-> Lens'[c] - 1 + 1]>>
      BY <1>1, <2>2, <3>1 DEF Response
    <3> QED BY <3>2 DEF Covers
  <2> QED BY <2>1, <2>2
<1>5. rest' \in [Cids -> Seq(Part)]
  <2>1. PICK b \in 1..(HeaderLen + PayloadLen) : b = Lens'[c]
    BY <1>2
  <2>2. PICK iov : iov = rest'[c]
    OBVIOUS
  <2>3. Covers(iov, 1, b) /\ 1 <= b
    BY <1>4, <2>1, <2>2, SessionAssumption
  <2>4. iov \in Seq(Part)
    BY <2>3, CoversParts
  <2> QED BY <1>1, <2>2, <2>4 DEF FrameInv, Answer
<1>6. Whole(wire', Lens', threw')
  <2>1. \A i \in DOMAIN wire : Lens'[wire[i].cid] = Lens[wire[i].cid]
    BY <1>2, <1>3
  <2>2. ASSUME NEW i \in DOMAIN wire
        PROVE  IF wire[i].at = 1
               THEN \/ i = 1 \/ wire[i - 1].at = Lens'[wire[i - 1].cid]
                    \/ wire[i - 1].cid \in threw
               ELSE /\ i > 1 /\ wire[i - 1].cid = wire[i].cid
                    /\ wire[i - 1].at = wire[i].at - 1
    <3>1. i # 1 => i - 1 \in DOMAIN wire
      BY DEF FrameInv
    <3> QED BY <2>1, <3>1 DEF FrameInv, Whole
  <2> QED BY <2>1, <2>2 DEF FrameInv, Whole
<1>7. EndWhole(wire, Lens, threw) => EndWhole(wire', Lens', threw')
  <2>1. wire # <<>> => Len(wire) \in DOMAIN wire
    BY DEF FrameInv
  <2> QED BY <1>2, <1>3, <2>1 DEF EndWhole
<1>8. \A i \in DOMAIN wire' : HasRes(wire[i].cid)'
  BY <1>1, <1>3 DEF FrameInv, HasRes
<1>9. /\ pc'[c] \notin SendPc /\ pc'[c] \notin OverPc /\ pc[c] \notin SendPc
      /\ pc[c] \notin OverPc
  BY <1>1 DEF SendPc, OverPc
<1>10. \A d \in Cids : pc'[d] \in WaitPc =>
         Covers(rest'[d], 1, Lens'[d]) /\ \A i \in DOMAIN wire' : wire'[i].cid # d
  BY <1>1, <1>2, <1>3, <1>4 DEF FrameInv
<1>11. \A d \in Cids : pc'[d] \in SendPc =>
         \E a \in 1..Lens'[d] :
           /\ Covers(rest'[d], a, Lens'[d]) /\ SentUpTo(wire', d, a)
           /\ a = 1 => EndWhole(wire', Lens', threw')
  BY <1>1, <1>2, <1>7, <1>9 DEF FrameInv
<1>12. (\A d \in Cids : pc'[d] \notin SendPc) => EndWhole(wire', Lens', threw')
  BY <1>1, <1>7, <1>9 DEF FrameInv
<1>13. \A d \in Cids :
         pc'[d] \in OverPc /\ d \notin threw' =>
           \E i \in DOMAIN wire' : wire'[i].cid = d /\ wire'[i].at = Lens'[d]
  BY <1>1, <1>2, <1>9 DEF FrameInv
<1>14. wire' \in Seq(Unit) /\ threw' \subseteq Cids
  BY DEF FrameInv
<1> QED BY <1>5, <1>6, <1>8, <1>10, <1>11, <1>12, <1>13, <1>14 DEF FrameInv

\* The socket takes some units of the response of the handler that has the mutex.
LEMMA FrameSend ==
  ASSUME CtlInv, FrameInv, UNCHANGED <<kind, res>>,
         NEW c \in Cids, SendSome(c), pc[c] \in SendPc
  PROVE  FrameInv'
<1>1. Lens' = Lens
  BY LensSame
<1>2. PICK a \in 1..Lens[c] : /\ Covers(rest[c], a, Lens[c]) /\ SentUpTo(wire, c, a)
                              /\ a = 1 => EndWhole(wire, Lens, threw)
  BY DEF FrameInv
<1>3. PICK b \in 1..(HeaderLen + PayloadLen) : b = Lens[c]
  BY LensType
<1>4. /\ a \in Nat \ {0} /\ b \in Nat /\ a <= b /\ a \in 1..b
      /\ Covers(rest[c], a, b)
  BY <1>2, <1>3, SessionAssumption
<1> DEFINE u == Units(c, rest[c])
<1>5. /\ Len(u) = b - a + 1
      /\ \A j \in 1..(b - a + 1) : u[j] = [cid |-> c, at |-> a + j - 1]
      /\ u \in Seq(CidUnits(c, a, b))
  <2>1. Spells(Units(c, rest[c]), c, a, b)
    BY <1>4, UnitsOf
  <2> QED BY <2>1 DEF Spells
<1>6. PICK n \in 1..Len(u) :
        /\ threw' = threw
        /\ wire' = wire \o SubSeq(u, 1, n)
        /\ rest' = [rest EXCEPT ![c] = Advance(rest[c], n)]
        /\ pc' = [pc EXCEPT ![c] = IF Advance(rest[c], n) = <<>> THEN "unlock" ELSE "send"]
  BY DEF SendSome
<1> HIDE DEF u
<1>7. n \in 1..(b - a + 1) /\ n \in Nat \ {0}
  BY <1>4, <1>5
<1>8. u \in Seq(Unit)
  <2>1. \A x \in a..b : [cid |-> c, at |-> x] \in Unit
    <3>1. \A x \in a..b : x \in 1..(HeaderLen + PayloadLen)
      BY <1>4, SessionAssumption
    <3> QED BY <3>1 DEF Unit
  <2>2. CidUnits(c, a, b) \subseteq Unit
    BY <2>1 DEF CidUnits
  <2> QED BY <1>5, <2>2
<1>9. PICK t \in Seq(Unit) : /\ t = SubSeq(u, 1, n) /\ Len(t) = n
                             /\ \A j \in 1..n : t[j] = [cid |-> c, at |-> a + j - 1]
  <2>1. SubSeq(u, 1, n) \in Seq(Unit) /\ Len(SubSeq(u, 1, n)) = n
        /\ \A j \in 1..n : SubSeq(u, 1, n)[j] = u[j]
    BY <1>5, <1>7, <1>8
  <2>2. \A j \in 1..n : j \in 1..(b - a + 1)
    BY <1>4, <1>7
  <2>3. \A j \in 1..n : SubSeq(u, 1, n)[j] = [cid |-> c, at |-> a + j - 1]
    BY <1>5, <2>1, <2>2
  <2> QED BY <2>1, <2>3
<1>10. PICK w2 : w2 = wire \o t
  OBVIOUS
<1>11. /\ w2 \in Seq(Unit) /\ Whole(w2, Lens, threw) /\ SentUpTo(w2, c, a + n)
       /\ n = b - a + 1 => /\ EndWhole(w2, Lens, threw)
                           /\ \E i \in DOMAIN w2 : w2[i].cid = c /\ w2[i].at = Lens[c]
       /\ \A i \in DOMAIN w2 : (i \in DOMAIN wire /\ w2[i] = wire[i]) \/ w2[i].cid = c
       /\ \A i \in DOMAIN wire : i \in DOMAIN w2 /\ w2[i] = wire[i]
  <2>1. a = 1 => EndWhole(wire, Lens, threw)
    BY <1>2
  <2>2. wire \in Seq(Unit) /\ Whole(wire, Lens, threw)
    BY DEF FrameInv
  <2>3. n \in 1..(Lens[c] - a + 1)
    BY <1>3, <1>7
  <2>4. PICK L \in [Cids -> 1..(HeaderLen + PayloadLen)] : L = Lens
    BY LensType
  <2>5. Appended(wire, wire \o t, L, threw, c, a, n)
    <3>1. a \in 1..L[c] /\ n \in 1..(L[c] - a + 1) /\ Whole(wire, L, threw)
          /\ (a = 1 => EndWhole(wire, L, threw))
      BY <2>1, <2>2, <2>3, <2>4
    <3> QED BY <1>2, <1>9, <2>2, <3>1, WireAppend
  <2>6. Appended(wire, w2, L, threw, c, a, n)
    BY <1>10, <2>5
  <2> QED BY <1>3, <2>4, <2>6 DEF Appended
<1>12. wire' = w2
  BY <1>6, <1>9, <1>10
<1>13. PICK iov : iov = Advance(rest[c], n)
  OBVIOUS
<1>14. /\ n = b - a + 1 => iov = <<>>
       /\ n # b - a + 1 => Covers(iov, a + n, b) /\ a + n <= b /\ iov \in Seq(Part) /\ iov # <<>>
  <2>1. /\ n = b - a + 1 => Advance(rest[c], n) = <<>>
        /\ n # b - a + 1 => Covers(Advance(rest[c], n), a + n, b)
    BY <1>4, <1>7, AdvanceOf
  <2>2. n # b - a + 1 => a + n <= b /\ a + n \in Nat \ {0}
    BY <1>4, <1>7
  <2>3. ASSUME n # b - a + 1 PROVE iov \in Seq(Part) /\ iov # <<>>
    <3>1. PICK e \in Nat \ {0} : e = a + n /\ e <= b
      BY <2>2, <2>3
    <3>2. Covers(iov, e, b)
      BY <1>13, <2>1, <2>3, <3>1
    <3> QED BY <3>1, <3>2, CoversParts
  <2> QED BY <1>13, <2>1, <2>2, <2>3
<1>15. /\ pc'[c] = (IF n = b - a + 1 THEN "unlock" ELSE "send")
       /\ \A d \in Cids : d # c => pc'[d] = pc[d]
       /\ rest' \in [Cids -> Seq(Part)] /\ rest'[c] = iov
       /\ \A d \in Cids : d # c => rest'[d] = rest[d]
  <2>1. pc \in [Cids -> Pcs] /\ rest \in [Cids -> Seq(Part)]
    BY DEF CtlInv, Shape, FrameInv
  <2>2. iov \in Seq(Part) /\ (iov = <<>> <=> n = b - a + 1)
    <3>1. <<>> \in Seq(Part)
      OBVIOUS
    <3> QED BY <1>14, <3>1
  <2>3. pc' = [pc EXCEPT ![c] = IF iov = <<>> THEN "unlock" ELSE "send"]
        /\ rest' = [rest EXCEPT ![c] = iov]
    BY <1>6, <1>13
  <2> QED BY <2>1, <2>2, <2>3
<1>16. \A d \in Cids : d # c => pc[d] \notin SendPc /\ pc'[d] \notin SendPc
  BY <1>15 DEF CtlInv, MutexInv, MutexOK, HoldPc, SendPc
<1>17. \A i \in DOMAIN wire' : HasRes(wire[i].cid)'
  <2>1. ASSUME NEW i \in DOMAIN w2 PROVE pc'[w2[i].cid] \notin {"none", "start", "ioWait"}
    <3>1. CASE w2[i].cid = c
      BY <1>15, <3>1
    <3>2. CASE w2[i].cid # c
      <4>1. i \in DOMAIN wire /\ w2[i] = wire[i]
        BY <1>11, <3>2
      <4>2. w2[i] \in Unit
        BY <1>11
      <4>3. w2[i].cid \in Cids
        BY <4>2 DEF Unit
      <4>4. pc[wire[i].cid] \notin {"none", "start", "ioWait"}
        BY <4>1 DEF FrameInv, HasRes
      <4> QED BY <1>15, <3>2, <4>1, <4>3, <4>4
    <3> QED BY <3>1, <3>2
  <2> QED BY <1>12, <2>1 DEF HasRes
<1>18. \A d \in Cids : pc'[d] \in WaitPc =>
         Covers(rest'[d], 1, Lens'[d]) /\ \A i \in DOMAIN wire' : wire'[i].cid # d
  <2>1. pc'[c] \notin WaitPc
    BY <1>15 DEF WaitPc
  <2>2. ASSUME NEW d \in Cids, pc'[d] \in WaitPc
        PROVE  Covers(rest'[d], 1, Lens'[d]) /\ \A i \in DOMAIN w2 : w2[i].cid # d
    <3>1. d # c /\ pc[d] \in WaitPc
      BY <1>15, <2>1, <2>2
    <3> QED BY <1>1, <1>11, <1>15, <3>1 DEF FrameInv
  <2> QED BY <1>12, <2>2
<1>19. \A d \in Cids : pc'[d] \in SendPc =>
         \E x \in 1..Lens'[d] :
           /\ Covers(rest'[d], x, Lens'[d]) /\ SentUpTo(wire', d, x)
           /\ x = 1 => EndWhole(wire', Lens', threw')
  <2>1. ASSUME NEW d \in Cids, pc'[d] \in SendPc
        PROVE  \E x \in 1..Lens[d] : /\ Covers(rest'[d], x, Lens[d]) /\ SentUpTo(w2, d, x)
                                     /\ x = 1 => EndWhole(w2, Lens, threw)
    <3>1. d = c /\ n # b - a + 1
      BY <1>15, <1>16, <2>1 DEF SendPc
    <3>2. PICK e \in 1..b : e = a + n /\ e # 1
      BY <1>4, <1>7, <1>14, <3>1
    <3>3. Covers(rest'[c], e, b) /\ SentUpTo(w2, c, e)
      BY <1>11, <1>14, <1>15, <3>1, <3>2
    <3> QED BY <1>3, <3>1, <3>2, <3>3
  <2> QED BY <1>1, <1>6, <1>12, <2>1
<1>20. (\A d \in Cids : pc'[d] \notin SendPc) => EndWhole(wire', Lens', threw')
  <2>1. n # b - a + 1 => pc'[c] \in SendPc
    BY <1>15 DEF SendPc
  <2> QED BY <1>1, <1>6, <1>11, <1>12, <2>1
<1>21. \A d \in Cids :
         pc'[d] \in OverPc /\ d \notin threw' =>
           \E i \in DOMAIN wire' : wire'[i].cid = d /\ wire'[i].at = Lens'[d]
  <2>1. ASSUME NEW d \in Cids, pc'[d] \in OverPc, d \notin threw
        PROVE  \E i \in DOMAIN w2 : w2[i].cid = d /\ w2[i].at = Lens[d]
    <3>1. CASE d = c
      BY <1>11, <1>15, <2>1, <3>1 DEF OverPc
    <3>2. CASE d # c
      <4>1. pc[d] \in OverPc
        BY <1>15, <2>1, <3>2
      <4>2. PICK i \in DOMAIN wire : wire[i].cid = d /\ wire[i].at = Lens[d]
        BY <1>6, <2>1, <4>1 DEF FrameInv
      <4> QED BY <1>11, <4>2
    <3> QED BY <3>1, <3>2
  <2> QED BY <1>1, <1>6, <1>12, <2>1
<1>22. threw' \subseteq Cids /\ Whole(wire', Lens', threw')
  BY <1>1, <1>6, <1>11, <1>12 DEF FrameInv
<1> QED BY <1>11, <1>12, <1>15, <1>17, <1>18, <1>19, <1>20, <1>21, <1>22 DEF FrameInv

\* No handler moves, and nothing is sent.
LEMMA FrameQuiet ==
  ASSUME FrameInv, UNCHANGED <<pc, wire, rest, kind, res, threw>>
  PROVE  FrameInv'
<1>1. threw' \subseteq Cids /\ \A d \in Cids : HasRes(d) => HasRes(d)'
  BY DEF FrameInv, HasRes
<1> QED BY <1>1, LensSame, FrameSame

\* One handler moves, and nothing is sent.
LEMMA FrameMove ==
  ASSUME CtlInv, FrameInv, UNCHANGED <<wire, rest, kind, res>>, threw \subseteq threw',
         threw' \subseteq Cids, NEW c \in Cids, NEW x, pc' = [pc EXCEPT ![c] = x],
         \/ pc[c] = "none" /\ x = "start"
         \/ pc[c] = "start" /\ x = "ioWait"
         \/ pc[c] = "start" /\ x = "done" /\ c \in threw'
         \/ pc[c] = "lock" /\ x = "lockWait"
         \/ pc[c] = "send" /\ x = "sendWait"
         \/ pc[c] \in SendPc /\ x = "unlock" /\ c \in threw'
         \/ pc[c] = "unlock" /\ x = "done"
         \/ pc[c] = "done" /\ x = "finished"
  PROVE  FrameInv'
<1>1. pc'[c] = x /\ \A d \in Cids : d # c => pc'[d] = pc[d]
  BY DEF CtlInv, Shape
<1>2. ASSUME NEW d \in Cids
      PROVE  /\ HasRes(d) => HasRes(d)'
             /\ pc'[d] \in WaitPc => pc[d] \in WaitPc
             /\ pc'[d] \in SendPc => pc[d] \in SendPc
             /\ pc[d] \in SendPc => pc'[d] \in SendPc \/ d \in threw'
             /\ pc'[d] \in OverPc /\ d \notin threw' => pc[d] \in OverPc
  <2>1. CASE d # c
    BY <1>1, <2>1 DEF HasRes
  <2>2. CASE d = c
    BY <1>1, <2>2 DEF HasRes, WaitPc, SendPc, OverPc
  <2> QED BY <2>1, <2>2
<1> QED BY <1>2, LensSame, FrameSame

\* A header is sent: a request without a result is answered by a header only.
LEMMA ClientSendFrame ==
  ASSUME CtlInv, FrameInv, ClientSend PROVE FrameInv'
<1>1. PICK w \in Workloads : \E c \in 1..Len(w) :
        kind[c] = "none" /\ kind' = [kind EXCEPT ![c] = w[c]]
  BY DEF ClientSend
<1>2. PICK c \in 1..Len(w) : kind[c] = "none" /\ kind' = [kind EXCEPT ![c] = w[c]]
  BY <1>1
<1>3. c \in Cids
  BY SessionAssumption DEF Cids
<1>4. /\ UNCHANGED <<pc, wire, rest, res, threw>> /\ threw' \subseteq Cids
      /\ \A d \in Cids : d # c => kind'[d] = kind[d]
  BY <1>2, <1>3 DEF ClientSend, ioVars, sendVars, CtlInv, Shape, FrameInv
<1>5. pc[c] = "none"
  BY <1>2, <1>3 DEF CtlInv, InboxInv, WriteKinds
<1>6. res[c] = "none"
  BY <1>3, <1>5 DEF CtlInv, StoredInv, StoredFor, Stage
<1>7. \A d \in Cids : ResponseLen(d)' = ResponseLen(d)
  <2>1. ASSUME NEW d \in Cids PROVE ResponseLen(d)' = ResponseLen(d)
    BY <1>4, <1>6 DEF ResponseLen
  <2> QED BY <2>1
<1>8. Lens' = Lens
  BY <1>7 DEF Lens
<1>9. \A d \in Cids : HasRes(d) => HasRes(d)'
  BY <1>4 DEF HasRes
<1> QED BY <1>4, <1>8, <1>9, FrameSame

\* The request whose header is read has no handler yet.
LEMMA HeaderRead ==
  ASSUME CtlInv, ConnHeader
  PROVE  Head(inbox) \in Cids /\ pc[Head(inbox)] = "none"
<1>1. connPc = "header" /\ inbox # <<>>
  BY DEF ConnHeader
<1>2. inbox \in Seq(Cids \cup {Body}) /\ 1 \in DOMAIN inbox /\ Head(inbox) = inbox[1]
  BY <1>1 DEF CtlInv, Shape
<1>3. Reading /\ ~InBody
  BY <1>1 DEF Reading, InBody
<1>4. inbox[1] # Body
  BY <1>2, <1>3 DEF CtlInv, InboxInv
<1> QED BY <1>2, <1>4 DEF CtlInv, InboxInv

\* handle_connection().
LEMMA ConnFrame ==
  ASSUME CtlInv, FrameInv, Connection \/ ConnResume PROVE FrameInv'
<1>1. UNCHANGED <<wire, rest, kind, res, threw>> /\ threw' \subseteq Cids
  BY DEF Connection, ConnSuspend, ConnCatch, ConnHeader, ConnBody, ConnDrain, ConnClose,
         ConnResume, clientVars, ioVars, sendVars, FrameInv
<1>2. CASE ConnHeader
  <2>1. PICK c \in Cids : c = Head(inbox) /\ pc[c] = "none"
    BY <1>2, HeaderRead
  <2>2. pc' = pc \/ pc' = [pc EXCEPT ![c] = "start"]
    BY <1>2, <2>1 DEF ConnHeader, Spawn
  <2> QED BY <1>1, <2>1, <2>2, FrameQuiet, FrameMove
<1>3. CASE ConnBody
  <2>1. PICK c \in Cids : c = cur /\ pc[c] = "none"
    BY <1>3 DEF ConnBody, CtlInv, Shape, InboxInv, Reading, InBody
  <2>2. pc' = [pc EXCEPT ![c] = "start"]
    BY <1>3, <2>1 DEF ConnBody, Spawn
  <2> QED BY <1>1, <2>1, <2>2, FrameMove
<1>4. CASE ConnSuspend \/ ConnCatch \/ ConnDrain \/ ConnClose \/ ConnResume
  <2>1. pc' = pc
    BY <1>4 DEF ConnSuspend, ConnCatch, ConnDrain, ConnClose, ConnResume
  <2> QED BY <1>1, <2>1, FrameQuiet
<1> QED BY <1>2, <1>3, <1>4 DEF Connection

\* The first step of a handler, its file operation and its completion.
LEMMA IoFrame ==
  ASSUME CtlInv, FrameInv, NEW c \in Cids, HandlerStart(c) \/ KernelIo(c) \/ IoComplete(c)
  PROVE  FrameInv'
<1>1. UNCHANGED <<wire, kind>> /\ threw \subseteq Cids
  BY DEF HandlerStart, KernelIo, IoComplete, clientVars, sendVars, FrameInv
<1>2. CASE HandlerStart(c)
  <2>1. pc[c] = "start"
    BY <1>2 DEF HandlerStart
  <2>2. \/ threw' = threw /\ \E r \in Results : Answer(c, r)
        \/ /\ pc' = [pc EXCEPT ![c] = "ioWait"] /\ res' = res /\ rest' = rest
           /\ threw' = threw
        \/ /\ pc' = [pc EXCEPT ![c] = "done"] /\ res' = res /\ rest' = rest
           /\ threw' = threw \cup {c}
    <3>1. "error" \in Results
      BY DEF Results
    <3> QED BY <1>2, <3>1 DEF HandlerStart, Submit
  <2>3. CASE threw' = threw /\ \E r \in Results : Answer(c, r)
    BY <1>1, <2>1, <2>3, FrameResult
  <2>4. CASE /\ pc' = [pc EXCEPT ![c] = "ioWait"] /\ res' = res /\ rest' = rest
             /\ threw' = threw
    BY <1>1, <2>1, <2>4, FrameMove
  <2>5. CASE /\ pc' = [pc EXCEPT ![c] = "done"] /\ res' = res /\ rest' = rest
             /\ threw' = threw \cup {c}
    BY <1>1, <2>1, <2>5, FrameMove
  <2> QED BY <2>2, <2>3, <2>4, <2>5
<1>3. CASE KernelIo(c)
  <2>1. UNCHANGED <<pc, wire, rest, kind, res, threw>>
    BY <1>3 DEF KernelIo, clientVars, sendVars
  <2> QED BY <2>1, FrameQuiet
<1>4. CASE IoComplete(c)
  <2>1. pc[c] = "ioWait" /\ threw' = threw /\ \E r \in Results : Answer(c, r)
    BY <1>4 DEF IoComplete
  <2> QED BY <1>1, <2>1, FrameResult
<1> QED BY <1>2, <1>3, <1>4

\* Taking the mutex, at once or by hand-off, and giving it up.
LEMMA MutexFrame ==
  ASSUME CtlInv, FrameInv, NEW c \in Cids, Lock(c) \/ Unlock(c) PROVE FrameInv'
<1>1. UNCHANGED <<wire, rest, kind, res, threw>> /\ threw' \subseteq Cids
  BY DEF Lock, Unlock, clientVars, ioVars, sendVars, FrameInv
<1>2. pc \in [Cids -> Pcs] /\ waiters \in Seq(Cids) /\ MutexOK(pc, locked, waiters)
  BY CtlParts
<1>3. CASE Lock(c) /\ locked
  <2>1. pc[c] = "lock" /\ pc' = [pc EXCEPT ![c] = "lockWait"]
    BY <1>3 DEF Lock
  <2> QED BY <1>1, <2>1, FrameMove
<1>4. CASE Lock(c) /\ ~locked
  <2>1. pc[c] = "lock" /\ pc' = [pc EXCEPT ![c] = "send"]
    BY <1>4 DEF Lock
  <2>2. \A d \in Cids : pc[d] \notin SendPc
    BY <1>2, <1>4 DEF MutexOK, HoldPc, SendPc
  <2>3. pc'[c] = "send" /\ \A d \in Cids \ {c} : pc'[d] = pc[d]
    BY <1>2, <2>1
  <2>4. \A d \in Cids \ {c} : HasRes(d) => HasRes(d)'
    BY <2>3 DEF HasRes
  <2>5. pc[c] \in WaitPc
    BY <2>1 DEF WaitPc
  <2> QED BY <1>1, <2>2, <2>3, <2>4, <2>5, LensSame, FrameTake
<1>5. CASE Unlock(c) /\ waiters = <<>>
  <2>1. pc[c] = "unlock" /\ pc' = [pc EXCEPT ![c] = "done"]
    BY <1>5 DEF Unlock, HandsOff
  <2> QED BY <1>1, <2>1, FrameMove
<1>6. CASE Unlock(c) /\ waiters # <<>>
  <2>1. /\ pc[c] = "unlock"
        /\ pc' = [pc EXCEPT ![c] = "done", ![Head(waiters)] = "send"]
    BY <1>6 DEF Unlock, HandsOff
  <2>2. PICK h \in Cids : h = Head(waiters) /\ pc[h] = "lockWait"
    <3>1. 1 \in DOMAIN waiters /\ Head(waiters) = waiters[1] /\ Head(waiters) \in Cids
      BY <1>2, <1>6
    <3>2. pc[Head(waiters)] = "lockWait"
      BY <1>2, <3>1 DEF MutexOK
    <3> QED BY <3>1, <3>2
  <2>3. \A d \in Cids : pc[d] \notin SendPc
    BY <1>2, <2>1 DEF MutexOK, HoldPc, SendPc
  <2>4. /\ pc'[h] = "send" /\ h # c /\ pc'[c] = "done"
        /\ \A d \in Cids : d # h /\ d # c => pc'[d] = pc[d]
    BY <1>2, <2>1, <2>2
  <2>5. ASSUME NEW d \in Cids \ {h}
        PROVE  /\ HasRes(d) => HasRes(d)'
               /\ pc'[d] \in WaitPc => pc[d] \in WaitPc
               /\ pc'[d] \notin SendPc
               /\ pc'[d] \in OverPc => pc[d] \in OverPc
    <3>1. CASE d = c
      BY <2>1, <2>4, <3>1 DEF HasRes, WaitPc, SendPc, OverPc
    <3>2. CASE d # c
      BY <2>3, <2>4, <3>2 DEF HasRes
    <3> QED BY <3>1, <3>2
  <2>6. pc[h] \in WaitPc
    BY <2>2 DEF WaitPc
  <2> QED BY <1>1, <2>3, <2>4, <2>5, <2>6, LensSame, FrameTake
<1> QED BY <1>3, <1>4, <1>5, <1>6

\* Sending.
LEMMA SendFrame ==
  ASSUME CtlInv, FrameInv, NEW c \in Cids, Send(c) \/ SendComplete(c) PROVE FrameInv'
<1>1. UNCHANGED <<kind, res>> /\ pc[c] \in SendPc /\ threw \subseteq Cids
  BY DEF Send, SendComplete, clientVars, ioVars, SendPc, FrameInv
<1>2. \/ SendSome(c)
      \/ SendError(c)
      \/ /\ pc[c] = "send" /\ pc' = [pc EXCEPT ![c] = "sendWait"]
         /\ wire' = wire /\ rest' = rest /\ threw' = threw
  BY DEF Send, SendComplete, sendVars
<1>3. CASE SendSome(c)
  BY <1>1, <1>3, FrameSend
<1>4. CASE SendError(c)
  <2>1. /\ threw' = threw \cup {c} /\ pc' = [pc EXCEPT ![c] = "unlock"]
        /\ wire' = wire /\ rest' = rest
    BY <1>4 DEF SendError
  <2> QED BY <1>1, <2>1, FrameMove
<1>5. CASE /\ pc[c] = "send" /\ pc' = [pc EXCEPT ![c] = "sendWait"]
           /\ wire' = wire /\ rest' = rest /\ threw' = threw
  BY <1>1, <1>5, FrameMove
<1> QED BY <1>2, <1>3, <1>4, <1>5

\* The end of a handler.
LEMMA DoneFrame ==
  ASSUME CtlInv, FrameInv, NEW c \in Cids, Done(c) PROVE FrameInv'
<1>1. /\ UNCHANGED <<wire, rest, kind, res, threw>> /\ threw' \subseteq Cids
      /\ pc[c] = "done" /\ pc' = [pc EXCEPT ![c] = "finished"]
  BY DEF Done, clientVars, ioVars, sendVars, FrameInv
<1> QED BY <1>1, FrameMove

\* The initial state.
LEMMA InitFrame == Init => FrameInv
<1> SUFFICES ASSUME Init PROVE FrameInv
  OBVIOUS
<1>1. wire = <<>> /\ DOMAIN wire = {} /\ \A c \in Cids : pc[c] = "none"
  BY DEF Init
<1>2. wire \in Seq(Unit) /\ rest \in [Cids -> Seq(Part)] /\ threw \subseteq Cids
  BY DEF Init
<1>3. "none" \notin WaitPc /\ "none" \notin SendPc /\ "none" \notin OverPc
  BY DEF WaitPc, SendPc, OverPc
<1> QED BY <1>1, <1>2, <1>3 DEF FrameInv, Whole, EndWhole

\* Every step keeps FrameInv.
LEMMA NextFrame == CtlInv /\ FrameInv /\ [Next]_vars => FrameInv'
<1> SUFFICES ASSUME CtlInv, FrameInv, [Next]_vars PROVE FrameInv'
  OBVIOUS
<1>1. CASE Client
  <2>1. CASE ClientSendBody \/ ClientEnd
    <3>1. UNCHANGED <<pc, wire, rest, kind, res, threw>>
      BY <2>1 DEF ClientSendBody, ClientEnd, ioVars, sendVars
    <3> QED BY <3>1, FrameQuiet
  <2> QED BY <1>1, <2>1, ClientSendFrame DEF Client
<1>2. CASE Connection \/ ConnResume
  BY <1>2, ConnFrame
<1>3. ASSUME NEW c \in Cids, Handler(c) \/ Event(c) PROVE FrameInv'
  BY <1>3, IoFrame, MutexFrame, SendFrame, DoneFrame DEF Handler, Event
<1>4. CASE UNCHANGED vars
  BY <1>4, FrameQuiet DEF vars
<1> QED BY <1>1, <1>2, <1>3, <1>4 DEF Next

-----------------------------------------------------------------------------
(* The theorems about what is sent. *)

\* The inductive invariant of Session.
LEMMA FrameHolds == Spec => [](CtlInv /\ FrameInv)
BY InitCtl, NextCtl, InitFrame, NextFrame, PTL DEF Spec

\* The units of a response follow each other with nothing in between and none is sent
\* twice, and a response starts after a whole one or after the one of a handler whose
\* send threw: send_all() under send_mtx (session.cpp, queue_common.hpp).
THEOREM FramesWholeHolds == Spec => []FramesWhole
<1>1. CtlInv /\ FrameInv => FramesWhole
  <2> SUFFICES ASSUME CtlInv, FrameInv PROVE FramesWhole
    OBVIOUS
  <2>1. wire \in Seq(Unit) /\ Whole(wire, Lens, threw)
    BY DEF FrameInv
  <2>2. ASSUME NEW i \in DOMAIN wire
        PROVE  IF wire[i].at = 1
               THEN \/ i = 1
                    \/ wire[i - 1].at = ResponseLen(wire[i - 1].cid)
                    \/ wire[i - 1].cid \in threw
               ELSE i > 1 /\ wire[i - 1] = [wire[i] EXCEPT !.at = @ - 1]
    <3>1. i # 1 => i - 1 \in DOMAIN wire
      BY <2>1
    <3>2. \A j \in DOMAIN wire : wire[j] \in Unit
      BY <2>1
    <3>3. i # 1 => Lens[wire[i - 1].cid] = ResponseLen(wire[i - 1].cid)
      BY <3>1, <3>2, LensType DEF Unit
    <3>4. CASE wire[i].at = 1
      BY <2>1, <3>3, <3>4 DEF Whole
    <3>5. CASE wire[i].at # 1
      <4>1. i > 1 /\ i # 1 /\ wire[i - 1].cid = wire[i].cid /\ wire[i - 1].at = wire[i].at - 1
        BY <2>1, <3>5 DEF Whole
      <4>2. wire[i] \in Unit /\ wire[i - 1] \in Unit
        BY <3>1, <3>2, <4>1
      <4>3. wire[i - 1] = [wire[i] EXCEPT !.at = @ - 1]
        BY <4>1, <4>2 DEF Unit
      <4> QED BY <3>5, <4>1, <4>3
    <3> QED BY <3>4, <3>5
  <2> QED BY <2>1, <2>2 DEF Whole, FramesWhole
<1> QED BY <1>1, FrameHolds, PTL

\* A handler that ended without an exception answered its request in full, whatever
\* the client did (session.cpp's handlers under tracked()).
THEOREM FinishedAnsweredHolds == Spec => []FinishedAnswered
<1>1. CtlInv /\ FrameInv => FinishedAnswered
  <2> SUFFICES ASSUME CtlInv, FrameInv, NEW c \in Cids, pc[c] = "finished",
                      c \notin threw
               PROVE  Answered(c)
    BY DEF FinishedAnswered
  <2>1. PICK i \in DOMAIN wire : wire[i].cid = c /\ wire[i].at = Lens[c]
    BY DEF FrameInv, OverPc
  <2>2. wire[i] \in Unit
    BY DEF FrameInv
  <2>3. wire[i] = [cid |-> c, at |-> ResponseLen(c)]
    BY <2>1, <2>2, LensType DEF Unit
  <2> QED BY <2>3 DEF Answered
<1> QED BY <1>1, FrameHolds, PTL

\* Nothing of the answer to a write reaches the client before the kernel has done the
\* write, and a positive answer is for data that was stored, durably when the request
\* asked for it (handle_write() in session.cpp).
THEOREM AcknowledgedStoredHolds == Spec => []AcknowledgedStored
<1>1. CtlInv /\ FrameInv => AcknowledgedStored
  <2> SUFFICES ASSUME CtlInv, FrameInv PROVE AcknowledgedStored
    OBVIOUS
  <2>1. \A i \in DOMAIN wire : wire[i] \in Unit
    BY DEF FrameInv
  <2>2. \A i \in DOMAIN wire : wire[i].cid \in Cids
    BY <2>1 DEF Unit
  <2>3. ASSUME NEW i \in DOMAIN wire, NEW c \in Cids, c = wire[i].cid, kind[c] \in WriteKinds
        PROVE  /\ io[c] \notin Operations
               /\ res[c] = "ok" => stored[c] \in IF kind[c] = "writeSync" THEN {"durable"}
                                                  ELSE {"volatile", "durable"}
    <3>1. HasRes(c)
      BY <2>3 DEF FrameInv
    <3>2. Stage(c) = "after"
      BY <3>1 DEF HasRes, Stage
    <3> QED BY <2>3, <3>2 DEF CtlInv, StoredInv, StoredFor
  <2> QED BY <2>2, <2>3 DEF AcknowledgedStored
<1> QED BY <1>1, FrameHolds, PTL

\* Session is type correct: in particular wg's count stays between 0 and the number of
\* requests, and every iovec that is left to send is a sequence of non-empty parts.
THEOREM TypeCorrect == Spec => []TypeOK
<1>1. CtlInv /\ FrameInv => TypeOK
  <2> SUFFICES ASSUME CtlInv, FrameInv PROVE TypeOK
    OBVIOUS
  <2>1. remaining \in 0..MaxReqs
    BY AliveFinite DEF CtlInv, CountInv
  <2>2. wire \in Seq([cid : Cids, at : 1..(HeaderLen + PayloadLen)])
        /\ rest \in [Cids -> Seq(Part)] /\ threw \subseteq Cids
    BY DEF FrameInv, Unit
  <2> QED BY <2>1, <2>2 DEF CtlInv, Shape, Pcs, TypeOK
<1> QED BY <1>1, FrameHolds, PTL
=============================================================================
