------------------------------- MODULE Client -------------------------------
(***************************************************************************)
(* easybd's client library (client/client.cpp): one connection, a reader   *)
(* coroutine that matches responses to requests by cid, one send_request() *)
(* coroutine per request, and the application that calls the constructor,  *)
(* pread()/pwrite(), wait() and the destructor.                            *)
(*                                                                         *)
(* Everything runs on the application's thread.  `stack` is the chain of   *)
(* coroutines in the middle of a call, the running one last: a callback    *)
(* may issue requests, Mutex::unlock() resumes the next sender.  With an   *)
(* empty stack the application is between calls, in Queue::step() or in    *)
(* ~Client(), as app says.                                                 *)
(*                                                                         *)
(* A request is its cid and is ReqLen units long on the wire.              *)
(***************************************************************************)
EXTENDS Integers, SequencesExt

CONSTANTS
  Backends,  \* backends a client may be created with: "libc", "uring"
  MaxReqs,   \* bound: requests the application issues
  ReqLen,    \* units of a request: a header and, for a write, its payload
  Kinds      \* kinds of request it issues, out of "read" and "write"

ASSUME ClientAssumption ==
  /\ Backends \subseteq {"libc", "uring"}
  /\ MaxReqs \in Nat
  /\ ReqLen \in Nat \ {0}
  /\ Kinds \subseteq {"read", "write"}

VARIABLES
  backend,    \* the backend this client was created with
  app,        \* in the constructor: "connect", then "connected" or "refused";
              \* between calls: "idle", or "error" after a wait() that threw; in
              \* "wait"; in the destructor: "cancel"; then "gone" or "undefined"
  kind,       \* kind[c]: "read" or "write"; "none" before c is issued
  pending,    \* _pending
  stack,      \* the coroutines that are running, innermost last
  pc,         \* where the send_request() of each cid is
  left,       \* units its send_all() has still to send
  locked, waiters,  \* _send_mtx
  reader,     \* where reader_loop() is
  cur,        \* the response it is at: cid
  failing,    \* fail_all_pending()'s copy, what is left of it
  cancelq,    \* cancel_fd()'s copy of the operations, what is left of it
  conn,       \* "open", "eof" (server sent FIN) or "reset"
  inbox,      \* response parts that arrived and were not read
  owes,       \* the read whose response header was sent without its payload
  data,       \* data[c]: c's response carries a payload
  wire,       \* history: units the socket accepted, in order
  cut,        \* history: requests whose send threw
  fired       \* history: how often c's callback was invoked

vars == <<backend, app, kind, pending, stack, pc, left, locked, waiters, reader, cur,
          failing, cancelq, conn, inbox, owes, data, wire, cut, fired>>

reqVars == <<kind, pending>>
wireVars == <<left, wire, cut>>
sendVars == <<pc, wireVars>>
mtxVars == <<locked, waiters>>
readVars == <<reader, cur, failing>>
netVars == <<backend, conn, inbox, owes, data>>

Cids == 1..MaxReqs
READER == 0    \* reader_loop() on the stack and in cancelq
Unknown == 0   \* a cid the client never issued

\* The constructor has spawned connect_task() and is in step(-1).
Init ==
  /\ backend \in Backends
  /\ app = "connect"
  /\ kind = [c \in Cids |-> "none"]
  /\ pending = {}
  /\ stack = <<>>
  /\ pc = [c \in Cids |-> "none"]
  /\ left = [c \in Cids |-> ReqLen]
  /\ locked = FALSE
  /\ waiters = <<>>
  /\ reader = "none"
  /\ cur = 0
  /\ failing = <<>>
  /\ cancelq = <<>>
  /\ conn = "open"
  /\ inbox = <<>>
  /\ owes = 0
  /\ data = [c \in Cids |-> FALSE]
  /\ wire = <<>>
  /\ cut = {}
  /\ fired = [c \in Cids |-> 0]

Running(x) == stack # <<>> /\ Last(stack) = x
Idle == app \in {"idle", "error"} /\ stack = <<>>
InStep == app = "wait" /\ stack = <<>>
Ended == app \in {"cancel", "gone", "undefined"}

Return == Front(stack)           \* the running coroutine suspends or ends
Enter(x) == Append(stack, x)     \* the running coroutine resumes x

-----------------------------------------------------------------------------
(* The server (external). *)

\* A request whose send threw was cut on the wire before c's: the server takes what
\* follows for the rest of that one.
OutOfStep(c) ==
  \E i, j \in DOMAIN wire : i < j /\ wire[i].cid \in cut /\ wire[j].cid = c

\* Requests that have arrived whole and were not answered.
Unanswered ==
  {c \in Cids : /\ left[c] = 0 /\ ~OutOfStep(c)
                /\ \A i \in DOMAIN inbox : inbox[i].cid # c}
    \ {c \in Cids : fired[c] > 0 \/ c = cur \/ c = owes}

\* The server answers a request it got; a read's payload follows.
ServerAnswer ==
  /\ conn = "open" /\ owes = 0
  /\ \E c \in Unanswered, d \in BOOLEAN :
       /\ d => kind[c] = "read"
       /\ inbox' = Append(inbox, [part |-> "header", cid |-> c])
       /\ data' = [data EXCEPT ![c] = d]
       /\ owes' = IF d THEN c ELSE 0
  /\ UNCHANGED <<app, reqVars, stack, sendVars, mtxVars, readVars, cancelq, backend,
                 conn, fired>>

ServerPayload ==
  /\ conn = "open" /\ owes # 0
  /\ inbox' = Append(inbox, [part |-> "body", cid |-> owes])
  /\ owes' = 0
  /\ UNCHANGED <<app, reqVars, stack, sendVars, mtxVars, readVars, cancelq, backend,
                 conn, data, fired>>

\* A response to nothing: the stream is out of step.
ServerGarbage ==
  /\ conn = "open" /\ owes = 0 /\ reader # "none"
  /\ \A i \in DOMAIN inbox : inbox[i].cid # Unknown
  /\ inbox' = Append(inbox, [part |-> "header", cid |-> Unknown])
  /\ UNCHANGED <<app, reqVars, stack, sendVars, mtxVars, readVars, cancelq, backend,
                 conn, owes, data, fired>>

\* It closes its side; what the client sends is taken until a reset comes back.
ConnBreak ==
  /\ reader # "none"
  /\ \/ conn = "open" /\ conn' \in {"eof", "reset"}
     \/ conn = "eof" /\ conn' = "reset"
  /\ UNCHANGED <<app, reqVars, stack, sendVars, mtxVars, readVars, cancelq, backend,
                 inbox, owes, data, fired>>

-----------------------------------------------------------------------------
(* Callbacks and requests. *)

\* c's callback is invoked.
Fire(c) == fired' = [fired EXCEPT ![c] = @ + 1]

\* A callback is running.
InCallback ==
  /\ stack # <<>>
  /\ \/ Last(stack) = READER /\ reader \in {"callback", "failCallback"}
     \/ Last(stack) \in Cids /\ pc[Last(stack)] = "callback"

\* pread()/pwrite(), by the application or by a callback of it: spawn the sender.
Issue(c) ==
  /\ Idle \/ InCallback
  /\ kind[c] = "none"
  /\ \A d \in 1..(c - 1) : kind[d] # "none"
  /\ kind' \in {[kind EXCEPT ![c] = k] : k \in Kinds}
  /\ pending' = pending \cup {c}
  /\ pc' = [pc EXCEPT ![c] = "lock"]
  /\ stack' = Enter(c)
  /\ UNCHANGED <<app, wireVars, mtxVars, readVars, cancelq, netVars, fired>>

\* The callback returns.
CallbackReturn ==
  /\ InCallback
  /\ IF Last(stack) = READER
     THEN /\ reader' = IF reader = "callback" THEN "header" ELSE "fail"
          /\ UNCHANGED pc
     ELSE /\ pc' = [pc EXCEPT ![Last(stack)] = "unlock"]
          /\ UNCHANGED reader
  /\ UNCHANGED <<app, reqVars, stack, wireVars, mtxVars, cur, failing, cancelq,
                 netVars, fired>>

-----------------------------------------------------------------------------
(* send_request(). *)

\* Mutation: nobody waits for _send_mtx.
NeverBusy == FALSE

\* LockAwaiter::await_ready() finds _send_mtx taken.
Busy == locked

Lock(c) ==
  /\ Running(c)
  /\ pc[c] = "lock"
  /\ IF Busy
     THEN /\ waiters' = Append(waiters, c)
          /\ pc' = [pc EXCEPT ![c] = "lockWait"]
          /\ stack' = Return
          /\ UNCHANGED locked
     ELSE /\ locked' = TRUE
          /\ pc' = [pc EXCEPT ![c] = "send"]
          /\ UNCHANGED <<waiters, stack>>
  /\ UNCHANGED <<app, reqVars, wireVars, readVars, cancelq, netVars, fired>>

\* The socket takes some units of c; its coroutine goes to `more` or is done.
TakeUnits(c, more, done) ==
  \E n \in 1..left[c] :
    /\ conn # "reset"
    /\ wire' = wire \o [j \in 1..n |-> [cid |-> c, at |-> ReqLen - left[c] + j]]
    /\ left' = [left EXCEPT ![c] = @ - n]
    /\ pc' = [pc EXCEPT ![c] = IF n < left[c] THEN more ELSE done]
    /\ UNCHANGED cut

\* send() throws with part of c sent: a reset, but also any other errno and, on
\* io_uring, no SQE to be had, and then the connection goes on.
SendFails(c, at) ==
  /\ pc' = [pc EXCEPT ![c] = at]
  /\ cut' = cut \cup {c}
  /\ UNCHANGED <<left, wire>>

\* co_await queue.send()/sendmsg(): the libc backend tries at once and waits when
\* the socket is full; io_uring queues an SQE and waits, if it gets one.
Send(c) ==
  /\ Running(c)
  /\ pc[c] = "send"
  /\ \/ /\ \/ backend = "libc" /\ TakeUnits(c, "send", "unlock")
           \/ SendFails(c, "failed")
        /\ UNCHANGED stack
     \/ /\ pc' = [pc EXCEPT ![c] = "sendWait"]
        /\ stack' = Return
        /\ UNCHANGED wireVars
  /\ UNCHANGED <<app, reqVars, mtxVars, readVars, cancelq, netVars, fired>>

\* io_uring: the kernel performs the send; its CQE waits for step().
KernelSend(c) ==
  /\ backend = "uring"
  /\ app \notin {"gone", "undefined"}
  /\ pc[c] = "sendWait"
  /\ TakeUnits(c, "cqe", "cqe") \/ SendFails(c, "cqeError")
  /\ UNCHANGED <<app, reqVars, stack, mtxVars, readVars, cancelq, netVars, fired>>

\* step() resumes a sender: the socket is writable (libc), or its CQE.
SendEvent(c) ==
  /\ InStep
  /\ \/ /\ backend = "libc" /\ pc[c] = "sendWait"
        /\ TakeUnits(c, "send", "unlock") \/ SendFails(c, "failed")
     \/ /\ pc[c] \in {"cqe", "cqeError"}
        /\ pc' = [pc EXCEPT ![c] = IF pc[c] = "cqeError" THEN "failed"
                                   ELSE IF left[c] = 0 THEN "unlock" ELSE "send"]
        /\ UNCHANGED wireVars
  /\ stack' = Enter(c)
  /\ UNCHANGED <<app, reqVars, mtxVars, readVars, cancelq, netVars, fired>>

\* Mutation: the catch block invokes the callback without looking c up.
AlwaysFails(c) == TRUE

\* The request is still pending: reader_loop() did not fail it first.
StillPending(c) == c \in pending

\* The catch block.
SendCatch(c) ==
  /\ Running(c)
  /\ pc[c] = "failed"
  /\ IF StillPending(c)
     THEN /\ pending' = pending \ {c}
          /\ Fire(c)
          /\ pc' = [pc EXCEPT ![c] = "callback"]
     ELSE /\ pc' = [pc EXCEPT ![c] = "unlock"]
          /\ UNCHANGED <<pending, fired>>
  /\ UNCHANGED <<app, kind, stack, wireVars, mtxVars, readVars, cancelq, netVars>>

\* ~MutexGuard(): hand _send_mtx to the first waiter and run it, or free it.
Unlock(c) ==
  /\ Running(c)
  /\ pc[c] = "unlock"
  /\ IF waiters # <<>>
     THEN /\ pc' = [pc EXCEPT ![c] = "end", ![Head(waiters)] = "send"]
          /\ waiters' = Tail(waiters)
          /\ stack' = Enter(Head(waiters))
          /\ UNCHANGED locked
     ELSE /\ pc' = [pc EXCEPT ![c] = "end"]
          /\ locked' = FALSE
          /\ UNCHANGED <<waiters, stack>>
  /\ UNCHANGED <<app, reqVars, wireVars, readVars, cancelq, netVars, fired>>

SenderEnd(c) ==
  /\ Running(c)
  /\ pc[c] = "end"
  /\ pc' = [pc EXCEPT ![c] = "finished"]
  /\ stack' = Return
  /\ UNCHANGED <<app, reqVars, wireVars, mtxVars, readVars, cancelq, netVars, fired>>

Sender(c) == Lock(c) \/ Send(c) \/ SendCatch(c) \/ Unlock(c) \/ SenderEnd(c)

-----------------------------------------------------------------------------
(* reader_loop(). *)

\* read_exact() throws: end of file once all is read, or a reset.
StreamOver == conn = "reset" \/ (conn = "eof" /\ inbox = <<>>)

ReaderSuspend ==
  /\ Running(READER)
  /\ reader \in {"header", "body"}
  /\ inbox = <<>> /\ conn = "open"
  /\ reader' = IF reader = "header" THEN "headerWait" ELSE "bodyWait"
  /\ stack' = Return
  /\ UNCHANGED <<app, reqVars, sendVars, mtxVars, cur, failing, cancelq, netVars, fired>>

ReaderResume ==
  /\ InStep
  /\ reader \in {"headerWait", "bodyWait"}
  /\ inbox # <<>> \/ StreamOver
  /\ reader' = IF reader = "headerWait" THEN "header" ELSE "body"
  /\ stack' = Enter(READER)
  /\ UNCHANGED <<app, reqVars, sendVars, mtxVars, cur, failing, cancelq, netVars, fired>>

\* Mutation: the copied requests stay in _pending.
KeepPending == pending

\* fail_all_pending()'s _pending.clear().
ClearPending == {}

\* An exception: the catch block calls fail_all_pending(), in any order.
ReaderCatch ==
  /\ reader' = "fail"
  /\ failing' \in SetToSeqs(pending)
  /\ pending' = ClearPending
  /\ cur' = 0

ReaderThrow ==
  /\ Running(READER)
  /\ reader \in {"header", "body"}
  /\ StreamOver
  /\ ReaderCatch
  /\ UNCHANGED <<app, kind, stack, sendVars, mtxVars, cancelq, netVars, fired>>

\* Mutation: the entry is erased when the header arrives.
EraseEarly(c) == pending \ {c}

\* What _pending is while the payload is read.
DuringBody(c) == pending

\* The response is complete: erase the entry and invoke the callback.
Complete(c) ==
  /\ pending' = pending \ {c}
  /\ Fire(c)
  /\ reader' = "callback"
  /\ cur' = 0

\* A response header arrived: an unknown cid, a read's data to come, or the end.
ReaderHeader ==
  /\ Running(READER)
  /\ reader = "header"
  /\ inbox # <<>>
  /\ inbox' = Tail(inbox)
  /\ LET c == Head(inbox).cid
     IN  \/ c \notin pending /\ ReaderCatch /\ UNCHANGED fired
         \/ /\ c \in pending /\ data[c]
            /\ reader' = "body"
            /\ cur' = c
            /\ pending' = DuringBody(c)
            /\ UNCHANGED <<failing, fired>>
         \/ c \in pending /\ ~data[c] /\ Complete(c) /\ UNCHANGED failing
  /\ UNCHANGED <<app, kind, stack, sendVars, mtxVars, cancelq, backend, conn,
                 owes, data>>

\* The payload arrived and is copied to the request's buffer.
ReaderBody ==
  /\ Running(READER)
  /\ reader = "body"
  /\ inbox # <<>>
  /\ inbox' = Tail(inbox)
  /\ Complete(cur)
  /\ UNCHANGED <<app, kind, stack, sendVars, mtxVars, failing, cancelq, backend,
                 conn, owes, data>>

\* fail_all_pending()'s second loop, then the end of reader_loop().
FailNext ==
  /\ Running(READER)
  /\ reader = "fail"
  /\ IF failing # <<>>
     THEN /\ Fire(Head(failing))
          /\ failing' = Tail(failing)
          /\ reader' = "failCallback"
          /\ UNCHANGED stack
     ELSE /\ reader' = "over"
          /\ stack' = Return
          /\ UNCHANGED <<failing, fired>>
  /\ UNCHANGED <<app, reqVars, sendVars, mtxVars, cur, cancelq, netVars>>

Reader == ReaderSuspend \/ ReaderThrow \/ ReaderHeader \/ ReaderBody \/ FailNext

-----------------------------------------------------------------------------
(* The constructor, wait() and ~Client(). *)

\* ConnectAwaiter: connected or not, at once or when the socket becomes writable; on
\* io_uring when the CQE comes.
ConnectAwaiter == app = "connect" /\ app' \in {"connected", "refused"}

\* connect_task() stores what became of it.
ConnectTask ==
  /\ ConnectAwaiter
  /\ UNCHANGED <<reqVars, stack, sendVars, mtxVars, readVars, cancelq, netVars, fired>>

\* The constructor's loop ends: it spawns reader_loop(), or there is no client: the
\* connection was refused or step() failed, and it throws; or recv_stream() throws
\* outside reader_loop()'s try block, which ends the process.
Construct ==
  /\ \/ app = "connected" /\ app' = "idle" /\ stack' = Enter(READER) /\ reader' = "header"
     \/ /\ app \in {"connect", "connected", "refused"}
        /\ app' = "gone"
        /\ UNCHANGED <<stack, reader>>
  /\ UNCHANGED <<reqVars, sendVars, mtxVars, cur, failing, cancelq, netVars, fired>>

Wait ==
  /\ Idle
  /\ app' = "wait"
  /\ UNCHANGED <<reqVars, stack, sendVars, mtxVars, readVars, cancelq, netVars, fired>>

\* step() returns, or throws ("error") and leaves everything as it is.
WaitReturn ==
  /\ InStep
  /\ app' \in {"idle", "error"}
  /\ UNCHANGED <<reqVars, stack, sendVars, mtxVars, readVars, cancelq, netVars, fired>>

\* What cancel_fd() finds registered: libc only, the reader's stream and the send
\* that waits; io_uring queues a cancel SQE and resumes nobody.
Registered ==
  IF backend = "uring" THEN <<>>
  ELSE (IF reader \in {"headerWait", "bodyWait"} THEN <<READER>> ELSE <<>>)
       \o SetToSeq({c \in Cids : pc[c] = "sendWait"})

Destroy ==
  /\ Idle
  /\ app' = "cancel"
  /\ cancelq' = Registered
  /\ UNCHANGED <<reqVars, stack, sendVars, mtxVars, readVars, netVars, fired>>

\* cancel(): the next coroutine is resumed with an error.
CancelNext ==
  /\ app = "cancel" /\ stack = <<>>
  /\ cancelq # <<>>
  /\ cancelq' = Tail(cancelq)
  /\ stack' = Enter(Head(cancelq))
  /\ IF Head(cancelq) = READER
     THEN ReaderCatch /\ UNCHANGED sendVars
     ELSE SendFails(Head(cancelq), "failed") /\ UNCHANGED <<pending, readVars>>
  /\ UNCHANGED <<app, kind, mtxVars, netVars, fired>>

\* close(_fd), then _send_mtx and _pending are destroyed and at last _queue, which on
\* libc resumes what registered again since cancel_fd() made its copy: a sender, whose
\* catch block and guard then use _pending and _send_mtx.
DestroyMembers ==
  /\ app = "cancel" /\ stack = <<>>
  /\ cancelq = <<>>
  /\ app' = IF Registered = <<>> THEN "gone" ELSE "undefined"
  /\ UNCHANGED <<reqVars, stack, sendVars, mtxVars, readVars, cancelq, netVars, fired>>

Server == ServerAnswer \/ ServerPayload

Coroutine == Reader \/ CallbackReturn \/ \E c \in Cids : Sender(c)

Application == ConnectTask \/ Construct \/ Wait \/ WaitReturn \/ Destroy \/ \E c \in Cids : Issue(c)

Next ==
  \/ Server \/ ServerGarbage \/ ConnBreak
  \/ Application
  \/ CancelNext \/ DestroyMembers
  \/ Coroutine
  \/ ReaderResume
  \/ \E c \in Cids : KernelSend(c) \/ SendEvent(c)

(***************************************************************************)
(* The application keeps calling wait(); step() resumes what is ready, so  *)
(* that a coroutine that is ready at every call is resumed; the running    *)
(* coroutine runs on; the kernel sends; the server answers what it got     *)
(* while the connection lasts.                                             *)
(***************************************************************************)
Fairness ==
  /\ WF_vars(Wait)
  /\ WF_vars(Coroutine)
  /\ SF_vars(ReaderResume)
  /\ \A c \in Cids : WF_vars(KernelSend(c)) /\ SF_vars(SendEvent(c))
  /\ WF_vars(Server)

Spec == Init /\ [][Next]_vars

FairSpec == Spec /\ Fairness

-----------------------------------------------------------------------------
(* Properties. *)

TypeOK ==
  /\ backend \in Backends
  /\ app \in {"connect", "connected", "refused", "idle", "error", "wait", "cancel", "gone",
              "undefined"}
  /\ kind \in [Cids -> Kinds \cup {"none"}]
  /\ pending \subseteq Cids
  /\ stack \in Seq(Cids \cup {READER})
  /\ pc \in [Cids -> {"none", "lock", "lockWait", "send", "sendWait", "cqe",
                      "cqeError", "failed", "callback", "unlock", "end", "finished"}]
  /\ left \in [Cids -> 0..ReqLen]
  /\ locked \in BOOLEAN
  /\ waiters \in Seq(Cids)
  /\ reader \in {"none", "header", "headerWait", "body", "bodyWait", "callback", "fail",
                 "failCallback", "over"}
  /\ cur \in Cids \cup {0}
  /\ failing \in Seq(Cids)
  /\ cancelq \in Seq(Cids \cup {READER})
  /\ conn \in {"open", "eof", "reset"}
  /\ inbox \in Seq([part : {"header", "body"}, cid : Cids \cup {Unknown}])
  /\ owes \in Cids \cup {0}
  /\ data \in [Cids -> BOOLEAN]
  /\ wire \in Seq([cid : Cids, at : 1..ReqLen])
  /\ cut \subseteq Cids
  /\ fired \in [Cids -> 0..1]

(***************************************************************************)
(* No callback is lost and none is invoked twice: a request that was       *)
(* accepted is in _pending, or in fail_all_pending()'s copy, or its        *)
(* callback was invoked, exactly one of these, whichever of reader_loop(), *)
(* send_request() and the destructor notices a failure first.              *)
(***************************************************************************)
CallbackOnce ==
  \A c \in Cids :
    /\ fired[c] + (IF c \in pending THEN 1 ELSE 0)
         + Cardinality({i \in DOMAIN failing : failing[i] = c})
       = (IF kind[c] = "none" THEN 0 ELSE 1)

(***************************************************************************)
(* While reader_loop() waits for a payload its request is pending: the     *)
(* payload is never copied to a buffer whose callback was invoked.         *)
(***************************************************************************)
BodyHasTarget ==
  reader \in {"body", "bodyWait"} => cur \in pending /\ kind[cur] = "read"

(***************************************************************************)
(* No request starts inside another: on the wire every request is whole or *)
(* broken off, and only where its send threw, although sends are short,    *)
(* callbacks issue requests in the middle of one and ~Client() cancels the *)
(* sender while others wait for _send_mtx.                                 *)
(***************************************************************************)
RequestsWhole ==
  \A i \in DOMAIN wire :
    IF wire[i].at = 1
    THEN i = 1 \/ wire[i - 1].at = ReqLen \/ wire[i - 1].cid \in cut
    ELSE i > 1 /\ wire[i - 1] = [wire[i] EXCEPT !.at = @ - 1]

\* reader_loop() is inside its try block.
Reading == reader \in {"header", "headerWait", "body", "bodyWait", "callback"}

(***************************************************************************)
(* A request that is pending while reader_loop() is reading is answered or *)
(* failed, unless the client is destroyed or the request follows one that  *)
(* was cut on the wire.                                                    *)
(***************************************************************************)
PendingFires ==
  \A c \in Cids : c \in pending /\ Reading ~> fired[c] > 0 \/ Ended \/ OutOfStep(c)

(***************************************************************************)
(* client.h of easybd_client_pread(): "the callback WILL eventually fire". *)
(* A request that is issued when reader_loop() has ended and whose send    *)
(* succeeds stays in _pending for ever.                                    *)
(***************************************************************************)
EveryCallbackFires ==
  \A c \in Cids : kind[c] # "none" ~> fired[c] > 0 \/ Ended

(***************************************************************************)
(* client.h of easybd_client_pwrite(): "`buf` must stay valid until the    *)
(* callback fires", hence no longer.  No byte of a write is sent from its  *)
(* buffer once its callback was invoked.                                   *)
(***************************************************************************)
PayloadValid ==
  [][\A c \in Cids : kind[c] = "write" /\ left'[c] # left[c] => fired[c] = 0]_vars
=============================================================================
