------------------------------ MODULE Session ------------------------------
(***************************************************************************)
(* One connection of the easybd server (server/session.cpp) with what it   *)
(* is built from: easyio's Mutex and WaitGroup, spawn(), send_all() and    *)
(* the two backends' send and file operations.                             *)
(*                                                                         *)
(* handle_connection() reads requests and spawns one handler coroutine per *)
(* request; handlers do their I/O concurrently and send their responses    *)
(* under send_mtx; at the end of the stream the connection waits for its   *)
(* handlers.  Everything runs on one thread, but coroutines resume one     *)
(* another inside spawn(), Mutex::unlock() and WaitGroup::done(): `stack`  *)
(* is the chain of coroutines in the middle of such a call, its last       *)
(* element the one that runs.  With an empty stack the event loop is in    *)
(* Queue::step() and may resume any coroutine whose operation completed.   *)
(*                                                                         *)
(* A request is its cid.  A response is a header of HeaderLen units and,   *)
(* for a read that got data, a payload of PayloadLen; the wire is the      *)
(* sequence of units the socket took.                                      *)
(***************************************************************************)
EXTENDS Integers, SequencesExt

CONSTANTS
  Backends,     \* backends a server may be started with: "libc", "uring"
  MaxReqs,      \* bound: requests the client sends
  Workloads,    \* bound: the sequences of kinds of request it may send
  HeaderLen,    \* units in a response header
  PayloadLen,   \* units in the payload of a read response
  AllocMayFail  \* AlignedBuffer's constructor may throw bad_alloc

WriteKinds == {"write", "writeSync"}
AllKinds == WriteKinds \cup {"writeOver", "read", "readOver", "bad"}

ASSUME SessionAssumption ==
  /\ Backends \subseteq {"libc", "uring"}
  /\ MaxReqs \in Nat
  /\ \A w \in Workloads : w \in Seq(AllKinds) /\ Len(w) <= MaxReqs
  /\ HeaderLen \in Nat \ {0}
  /\ PayloadLen \in Nat \ {0}
  /\ AllocMayFail \in BOOLEAN

VARIABLES
  backend,    \* the backend this server was started with
  client,     \* the client: "open", "shut" (sent FIN, still reads) or "gone"
  kind,       \* kind[c]: what request c is, "none" before it is sent
  owesBody,   \* the client has sent a write's header and not yet its payload
  inbox,      \* what it sent and handle_connection() has not read
  connPc,     \* where handle_connection() is
  cur,        \* the write whose payload it is reading
  stack,      \* the coroutines that are running, innermost last
  pc,         \* where the handler of each request is
  io,         \* its file operation: submitted, or the result it completed with
  res,        \* `res` of its response: "ok" (> 0), "zero" or "error"
  rest,       \* the iovec its send_all() has still to send
  locked, waiters,  \* send_mtx
  remaining,  \* wg._remaining
  wire,       \* history: units the socket accepted, in order
  stored,     \* history: what became of a write's data
  threw       \* history: handlers that ended by an exception

vars == <<backend, client, kind, owesBody, inbox, connPc, cur, stack, pc, io, res, rest,
          locked, waiters, remaining, wire, stored, threw>>

clientVars == <<backend, client, kind, owesBody>>
connVars == <<inbox, connPc, cur>>
ioVars == <<io, res, stored>>
sendVars == <<rest, wire, threw>>
mtxVars == <<locked, waiters>>

Cids == 1..MaxReqs
CONN == 0   \* handle_connection() on the stack
Body == 0   \* in inbox: the payload of the write before it; a cid is a header

Init ==
  /\ backend \in Backends
  /\ client = "open"
  /\ kind = [c \in Cids |-> "none"]
  /\ owesBody = FALSE
  /\ inbox = <<>>
  /\ connPc = "header"
  /\ cur = 0
  /\ stack = <<CONN>>
  /\ pc = [c \in Cids |-> "none"]
  /\ io = [c \in Cids |-> "none"]
  /\ res = [c \in Cids |-> "none"]
  /\ rest = [c \in Cids |-> <<>>]
  /\ locked = FALSE
  /\ waiters = <<>>
  /\ remaining = 0
  /\ wire = <<>>
  /\ stored = [c \in Cids |-> "none"]
  /\ threw = {}

-----------------------------------------------------------------------------
(* The client (external). *)

\* The client writes the header of its next request.
ClientSend ==
  /\ client = "open" /\ ~owesBody
  /\ \E w \in Workloads : \E c \in 1..Len(w) :
       /\ kind[c] = "none"
       /\ \A d \in 1..(c - 1) : kind[d] = w[d]
       /\ kind' = [kind EXCEPT ![c] = w[c]]
       /\ inbox' = Append(inbox, c)
       /\ owesBody' = (w[c] \in WriteKinds)
  /\ UNCHANGED <<backend, client, connPc, cur, stack, pc, ioVars, sendVars, mtxVars,
                 remaining>>

\* ... and then the payload of a write.
ClientSendBody ==
  /\ client = "open" /\ owesBody
  /\ owesBody' = FALSE
  /\ inbox' = Append(inbox, Body)
  /\ UNCHANGED <<backend, client, kind, connPc, cur, stack, pc, ioVars, sendVars, mtxVars,
                 remaining>>

\* It shuts its side down, or goes away: sends fail from then on.
ClientEnd ==
  /\ \/ client = "open" /\ client' \in {"shut", "gone"}
     \/ client = "shut" /\ client' = "gone"
  /\ UNCHANGED <<backend, kind, owesBody, connVars, stack, pc, ioVars, sendVars, mtxVars,
                 remaining>>

-----------------------------------------------------------------------------
(* Coroutines on the thread. *)

Running(x) == stack # <<>> /\ Last(stack) = x
InStep == stack = <<>>

Return == Front(stack)           \* the running coroutine suspends or ends
Enter(x) == Append(stack, x)     \* the running coroutine resumes x

-----------------------------------------------------------------------------
(* handle_connection(). *)

\* read_exact() throws: end of file once all is read, or a reset.
StreamOver == client = "gone" \/ (client = "shut" /\ inbox = <<>>)

\* read_exact*() finds nothing to return and suspends.
ConnSuspend ==
  /\ Running(CONN)
  /\ connPc \in {"header", "body"}
  /\ inbox = <<>> /\ client = "open"
  /\ connPc' = IF connPc = "header" THEN "headerWait" ELSE "bodyWait"
  /\ stack' = Return
  /\ UNCHANGED <<clientVars, inbox, cur, pc, ioVars, sendVars, mtxVars, remaining>>

\* The receive stream resumes it.
ConnResume ==
  /\ InStep
  /\ connPc \in {"headerWait", "bodyWait"}
  /\ inbox # <<>> \/ StreamOver
  /\ connPc' = IF connPc = "headerWait" THEN "header" ELSE "body"
  /\ stack' = Enter(CONN)
  /\ UNCHANGED <<clientVars, inbox, cur, pc, ioVars, sendVars, mtxVars, remaining>>

\* The stream ended or failed: catch, and on to wg.wait().
ConnCatch ==
  /\ Running(CONN)
  /\ connPc \in {"header", "body"}
  /\ StreamOver
  /\ connPc' = "drain"
  /\ UNCHANGED <<clientVars, inbox, cur, stack, pc, ioVars, sendVars, mtxVars, remaining>>

\* Mutation: wg.add() is forgotten.
SpawnUncounted(c) ==
  /\ remaining' = remaining
  /\ pc' = [pc EXCEPT ![c] = "start"]
  /\ stack' = Enter(c)

\* wg.add(), then spawn(tracked(handler)), which runs until it first suspends.
Spawn(c) ==
  /\ remaining' = remaining + 1
  /\ pc' = [pc EXCEPT ![c] = "start"]
  /\ stack' = Enter(c)

\* Requests that end the connection: an oversized write, an invalid op.
Rejected(k) == k \in {"writeOver", "bad"}

\* A header arrived: reject, spawn a read's handler or go for the payload (and
\* fail to allocate a buffer for it).
ConnHeader ==
  /\ Running(CONN)
  /\ connPc = "header"
  /\ inbox # <<>>
  /\ inbox' = Tail(inbox)
  /\ LET c == Head(inbox)
     IN  \/ /\ Rejected(kind[c])
            /\ connPc' = "drain"
            /\ UNCHANGED <<cur, stack, pc, remaining>>
         \/ /\ kind[c] \in WriteKinds
            /\ connPc' \in IF AllocMayFail THEN {"body", "drain"} ELSE {"body"}
            /\ cur' = c
            /\ UNCHANGED <<stack, pc, remaining>>
         \/ /\ ~Rejected(kind[c]) /\ kind[c] \notin WriteKinds
            /\ Spawn(c)
            /\ UNCHANGED <<connPc, cur>>
  /\ UNCHANGED <<clientVars, ioVars, sendVars, mtxVars>>

\* A write's payload arrived: spawn its handler.
ConnBody ==
  /\ Running(CONN)
  /\ connPc = "body"
  /\ inbox # <<>>
  /\ inbox' = Tail(inbox)
  /\ connPc' = "header"
  /\ Spawn(cur)
  /\ UNCHANGED <<clientVars, cur, ioVars, sendVars, mtxVars>>

\* co_await wg.wait().
ConnDrain ==
  /\ Running(CONN)
  /\ connPc = "drain"
  /\ IF remaining <= 0
     THEN connPc' = "closing" /\ UNCHANGED stack
     ELSE connPc' = "drainWait" /\ stack' = Return
  /\ UNCHANGED <<clientVars, inbox, cur, pc, ioVars, sendVars, mtxVars, remaining>>

\* handle_connection() returns: send_mtx, wg and the stream are destroyed and
\* accept_one() closes the socket.
ConnClose ==
  /\ Running(CONN)
  /\ connPc = "closing"
  /\ connPc' = "closed"
  /\ stack' = Return
  /\ UNCHANGED <<clientVars, inbox, cur, pc, ioVars, sendVars, mtxVars, remaining>>

-----------------------------------------------------------------------------
(* handle_read(), handle_write(), send_error(), under tracked(). *)

\* The iovec of c's response when its result is r.
Response(c, r) ==
  LET header == [at |-> 1, len |-> HeaderLen]
      payload == [at |-> HeaderLen + 1, len |-> PayloadLen]
  IN  IF kind[c] = "read" /\ r = "ok" THEN <<header, payload>> ELSE <<header>>

ResponseLen(c) == IF kind[c] = "read" /\ res[c] = "ok" THEN HeaderLen + PayloadLen
                  ELSE HeaderLen

\* The handler has the result r of its file operation and prepares its response.
Answer(c, r) ==
  /\ res' = [res EXCEPT ![c] = r]
  /\ rest' = [rest EXCEPT ![c] = Response(c, r)]
  /\ pc' = [pc EXCEPT ![c] = "lock"]

Operations == {"pread", "pwrite", "pwrite_dsync"}
Results == {"ok", "zero", "error"}

\* pwrite_dsync() for EASYBD_OP_WRITE_SYNC, pwrite() for EASYBD_OP_WRITE.
Operation(c) == IF kind[c] = "writeSync" THEN "pwrite_dsync"
                ELSE IF kind[c] = "write" THEN "pwrite" ELSE "pread"

\* The kernel (external) does c's operation op with result r: data a plain pwrite()
\* took may still be in the device's volatile cache.
Perform(c, op, r) ==
  /\ io' = [io EXCEPT ![c] = r]
  /\ stored' = IF r = "ok" /\ op # "pread"
               THEN [stored EXCEPT ![c] = IF op = "pwrite" THEN "volatile" ELSE "durable"]
               ELSE stored

\* Mutation: the handler does not wait for the operation it submitted.
SubmitNoWait(c) ==
  /\ io' = [io EXCEPT ![c] = Operation(c)]
  /\ Answer(c, "ok")
  /\ UNCHANGED stack

\* An SQE for the operation; the handler suspends until its CQE.
Submit(c) ==
  /\ io' = [io EXCEPT ![c] = Operation(c)]
  /\ pc' = [pc EXCEPT ![c] = "ioWait"]
  /\ stack' = Return
  /\ UNCHANGED <<res, rest>>

\* The handler's first step: I/O, which on libc is a blocking call and on io_uring
\* an SQE, or an error answer when _get_sqe() throws; no I/O for an oversized read;
\* or bad_alloc, which tracked() swallows.
HandlerStart(c) ==
  /\ Running(c)
  /\ pc[c] = "start"
  /\ \/ /\ kind[c] = "readOver"
        /\ Answer(c, "error")
        /\ UNCHANGED <<io, stored, stack, threw>>
     \/ /\ kind[c] # "readOver" /\ backend = "libc"
        /\ \E r \in Results : Perform(c, Operation(c), r) /\ Answer(c, r)
        /\ UNCHANGED <<stack, threw>>
     \/ /\ kind[c] # "readOver" /\ backend = "uring"
        /\ Submit(c) \/ (Answer(c, "error") /\ UNCHANGED <<io, stack>>)
        /\ UNCHANGED <<stored, threw>>
     \/ /\ kind[c] = "read" /\ AllocMayFail
        /\ pc' = [pc EXCEPT ![c] = "done"]
        /\ threw' = threw \cup {c}
        /\ UNCHANGED <<io, res, rest, stored, stack>>
  /\ UNCHANGED <<clientVars, connVars, wire, mtxVars, remaining>>

\* The kernel (external) does a submitted operation and posts its CQE.
KernelIo(c) ==
  /\ io[c] \in Operations
  /\ \E r \in Results : Perform(c, io[c], r)
  /\ UNCHANGED <<clientVars, connVars, stack, pc, res, sendVars, mtxVars, remaining>>

\* step() finds the CQE and resumes the handler with its result.
IoComplete(c) ==
  /\ InStep
  /\ pc[c] = "ioWait"
  /\ io[c] \in Results
  /\ Answer(c, io[c])
  /\ stack' = Enter(c)
  /\ UNCHANGED <<clientVars, connVars, io, stored, wire, threw, mtxVars, remaining>>

\* co_await lock_guard(send_mtx).
Lock(c) ==
  /\ Running(c)
  /\ pc[c] = "lock"
  /\ IF locked
     THEN /\ waiters' = Append(waiters, c)
          /\ pc' = [pc EXCEPT ![c] = "lockWait"]
          /\ stack' = Return
          /\ UNCHANGED locked
     ELSE /\ locked' = TRUE
          /\ pc' = [pc EXCEPT ![c] = "send"]
          /\ UNCHANGED <<waiters, stack>>
  /\ UNCHANGED <<clientVars, connVars, ioVars, sendVars, remaining>>

\* Mutation: a short write inside a part restarts the part.
RestartPart(iov, n) ==
  IF n < iov[1].len THEN iov ELSE Tail(iov)

\* Mutation: one send() is taken to have sent everything.
SendOnce(iov, n) == <<>>

\* A part of the iovec without its first n units.
Skip(part, n) == [at |-> part.at + n, len |-> part.len - n]

\* send_all()'s inner loop: drop the n units just sent from the iovec, which has at
\* most two parts.
Advance(iov, n) ==
  IF n < iov[1].len THEN <<Skip(iov[1], n)>> \o Tail(iov)
  ELSE LET m == n - iov[1].len
       IN  IF m = 0 THEN Tail(iov)
           ELSE IF m < iov[2].len THEN <<Skip(iov[2], m)>> ELSE <<>>

\* The units of a part, and of an iovec.
PartUnits(c, part) == [j \in 1..part.len |-> [cid |-> c, at |-> part.at + j - 1]]

Units(c, iov) ==
  IF Len(iov) = 1 THEN PartUnits(c, iov[1])
                  ELSE PartUnits(c, iov[1]) \o PartUnits(c, iov[2])

\* The socket takes n units of c's response; send_all() loops or is done.
SendSome(c) ==
  \E n \in 1..Len(Units(c, rest[c])) :
    /\ client # "gone"
    /\ wire' = wire \o SubSeq(Units(c, rest[c]), 1, n)
    /\ rest' = [rest EXCEPT ![c] = Advance(rest[c], n)]
    /\ pc' = [pc EXCEPT ![c] = IF Advance(rest[c], n) = <<>> THEN "unlock" ELSE "send"]
    /\ UNCHANGED threw

\* send() fails, whether the client is there or not (any errno but EAGAIN, or no SQE
\* to be had), and perhaps after a short write: the exception unwinds through the
\* guard, which hands send_mtx on, and tracked(), which swallows it.
SendError(c) ==
  /\ pc' = [pc EXCEPT ![c] = "unlock"]
  /\ threw' = threw \cup {c}
  /\ UNCHANGED <<rest, wire>>

\* co_await queue.send() / sendmsg(): the libc backend tries at once and waits when
\* the socket is full; io_uring waits for its CQE, unless _get_sqe() throws.
Send(c) ==
  /\ Running(c)
  /\ pc[c] = "send"
  /\ \/ backend = "libc" /\ SendSome(c) /\ UNCHANGED stack
     \/ SendError(c) /\ UNCHANGED stack
     \/ /\ pc' = [pc EXCEPT ![c] = "sendWait"]
        /\ stack' = Return
        /\ UNCHANGED sendVars
  /\ UNCHANGED <<clientVars, connVars, ioVars, mtxVars, remaining>>

\* The socket became writable, or the send's CQE came.
SendComplete(c) ==
  /\ InStep
  /\ pc[c] = "sendWait"
  /\ SendSome(c) \/ SendError(c)
  /\ stack' = Enter(c)
  /\ UNCHANGED <<clientVars, connVars, ioVars, mtxVars, remaining>>

\* Mutation: unlock() frees the mutex and resumes the waiter as well.
UnlockAndResume == FALSE

\* _locked while the mutex is handed to a waiter.
LockedOnHandOff == TRUE

\* Mutation: unlock() frees the mutex and forgets who waits for it.
NeverHandsOff == FALSE

\* unlock() finds somebody to hand the mutex to.
HandsOff == waiters # <<>>

\* ~MutexGuard(): hand send_mtx to the first waiter and run it, or free it.
Unlock(c) ==
  /\ Running(c)
  /\ pc[c] = "unlock"
  /\ IF HandsOff
     THEN /\ pc' = [pc EXCEPT ![c] = "done", ![Head(waiters)] = "send"]
          /\ waiters' = Tail(waiters)
          /\ stack' = Enter(Head(waiters))
          /\ locked' = LockedOnHandOff
     ELSE /\ pc' = [pc EXCEPT ![c] = "done"]
          /\ locked' = FALSE
          /\ UNCHANGED <<waiters, stack>>
  /\ UNCHANGED <<clientVars, connVars, ioVars, sendVars, remaining>>

\* Mutation: the last but one handler wakes the connection (off by one).
EarlyLast(n) == n <= 1

\* Mutation: the test is off by one the other way.
LateLast(n) == n < 0

\* done()'s test on the new _remaining.
LastDone(n) == n <= 0

\* tracked(): wg.done(), which may resume handle_connection(); then the end.
Done(c) ==
  /\ Running(c)
  /\ pc[c] = "done"
  /\ pc' = [pc EXCEPT ![c] = "finished"]
  /\ remaining' = remaining - 1
  /\ IF LastDone(remaining - 1) /\ connPc = "drainWait"
     THEN connPc' = "closing" /\ stack' = Append(Return, CONN)
     ELSE UNCHANGED connPc /\ stack' = Return
  /\ UNCHANGED <<clientVars, inbox, cur, ioVars, sendVars, mtxVars>>

-----------------------------------------------------------------------------
Connection == ConnSuspend \/ ConnCatch \/ ConnHeader \/ ConnBody \/ ConnDrain \/ ConnClose

Handler(c) == HandlerStart(c) \/ Lock(c) \/ Send(c) \/ Unlock(c) \/ Done(c)

Event(c) == KernelIo(c) \/ IoComplete(c) \/ SendComplete(c)

Client == ClientSend \/ ClientSendBody \/ ClientEnd

Next ==
  \/ Client
  \/ Connection
  \/ ConnResume
  \/ \E c \in Cids : Handler(c) \/ Event(c)

(***************************************************************************)
(* The running coroutine runs on; step() resumes every coroutine whose     *)
(* operation completed; the kernel completes file operations and sends (a  *)
(* client that is there reads).  Nothing is assumed of what it sends.      *)
(***************************************************************************)
Fairness ==
  /\ WF_vars(Connection \/ \E c \in Cids : Handler(c))
  /\ WF_vars(ConnResume)
  /\ \A c \in Cids : WF_vars(Event(c))

Spec == Init /\ [][Next]_vars

FairSpec == Spec /\ Fairness

-----------------------------------------------------------------------------
(* Properties. *)

Part == [at : 1..(HeaderLen + PayloadLen), len : 1..(HeaderLen + PayloadLen)]

TypeOK ==
  /\ backend \in Backends
  /\ client \in {"open", "shut", "gone"}
  /\ kind \in [Cids -> AllKinds \cup {"none"}]
  /\ owesBody \in BOOLEAN
  /\ inbox \in Seq(Cids \cup {Body})
  /\ connPc \in {"header", "headerWait", "body", "bodyWait", "drain", "drainWait",
                 "closing", "closed"}
  /\ cur \in Cids \cup {0}
  /\ stack \in Seq(Cids \cup {CONN})
  /\ pc \in [Cids -> {"none", "start", "ioWait", "lock", "lockWait", "send",
                      "sendWait", "unlock", "done", "finished"}]
  /\ io \in [Cids -> {"none"} \cup Operations \cup Results]
  /\ res \in [Cids -> {"none"} \cup Results]
  /\ rest \in [Cids -> Seq(Part)]
  /\ locked \in BOOLEAN
  /\ waiters \in Seq(Cids)
  /\ remaining \in 0..MaxReqs
  /\ wire \in Seq([cid : Cids, at : 1..(HeaderLen + PayloadLen)])
  /\ stored \in [Cids -> {"none", "volatile", "durable"}]
  /\ threw \subseteq Cids

\* The handlers between lock_guard() and the guard's destructor.
Holds(c) == pc[c] \in {"send", "sendWait", "unlock"}

(***************************************************************************)
(* send_mtx excludes: at most one handler is sending, the mutex is locked  *)
(* exactly while one is, and the queue of waiters is exactly the handlers  *)
(* suspended in lock_guard(), each once (mutex.hpp's direct hand-off).     *)
(***************************************************************************)
MutexCorrect ==
  /\ \A c, d \in Cids : Holds(c) /\ Holds(d) => c = d
  /\ locked = \E c \in Cids : Holds(c)
  /\ \A c \in Cids : pc[c] = "lockWait" <=> c \in ToSet(waiters)
  /\ \A i, j \in DOMAIN waiters : waiters[i] = waiters[j] => i = j

(***************************************************************************)
(* Units of a response follow each other in order with nothing in between, *)
(* whatever short writes and concurrent handlers do, and no request is     *)
(* answered twice.  A response starts after a whole one, or after the cut  *)
(* one of a handler whose send threw.                                      *)
(***************************************************************************)
FramesWhole ==
  /\ \A i \in DOMAIN wire :
       IF wire[i].at = 1
       THEN \/ i = 1
            \/ wire[i - 1].at = ResponseLen(wire[i - 1].cid)
            \/ wire[i - 1].cid \in threw
       ELSE i > 1 /\ wire[i - 1] = [wire[i] EXCEPT !.at = @ - 1]
  /\ \A i, j \in DOMAIN wire : wire[i] = wire[j] => i = j

Answered(c) ==
  \E i \in DOMAIN wire : wire[i] = [cid |-> c, at |-> ResponseLen(c)]

(***************************************************************************)
(* A handler that ended without an exception answered its request to the   *)
(* last unit; a request that was rejected has no handler.                  *)
(***************************************************************************)
FinishedAnswered ==
  \A c \in Cids : pc[c] = "finished" /\ c \notin threw => Answered(c)

(***************************************************************************)
(* Of a write nothing reaches the client while the kernel has still to do  *)
(* it, and a positive answer is for data the kernel took: durable data for *)
(* EASYBD_OP_WRITE_SYNC (protocol.h), a write at all for EASYBD_OP_WRITE.  *)
(***************************************************************************)
AcknowledgedStored ==
  \A i \in DOMAIN wire :
    LET c == wire[i].cid
    IN  kind[c] \in WriteKinds =>
          /\ io[c] \notin Operations
          /\ res[c] = "ok" =>
               stored[c] \in IF kind[c] = "writeSync" THEN {"durable"}
                             ELSE {"volatile", "durable"}

\* The handlers tracked by wg.
Alive == {c \in Cids : pc[c] \notin {"none", "finished"}}

(***************************************************************************)
(* handle_connection() ends, destroying send_mtx, wg and the stream, only  *)
(* when no handler is left that will use them, not even one that is in the *)
(* middle of a call further down the stack; and wg counts the handlers.    *)
(***************************************************************************)
TeardownSafe ==
  /\ remaining = Cardinality(Alive)
  /\ connPc \in {"closing", "closed"} =>
       Alive = {} /\ waiters = <<>> /\ ~locked /\ ToSet(stack) \subseteq {CONN}

(***************************************************************************)
(* A handler that tracked() started ends: no hand-off of send_mtx and no   *)
(* completion it waits for is lost.                                        *)
(***************************************************************************)
HandlersEnd == \A c \in Cids : pc[c] = "start" ~> pc[c] = "finished"

(***************************************************************************)
(* Once the client shut down its side or went away, handle_connection()    *)
(* drains its handlers through wg.wait() and closes the connection.        *)
(***************************************************************************)
ConnectionCloses == client # "open" ~> connPc = "closed"
=============================================================================
