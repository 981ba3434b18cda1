------------------------------- MODULE Server -------------------------------
(***************************************************************************)
(* The easybd server's threads (server/server.cpp): run_server() opens the *)
(* backing file and the listening socket, starts the workers, sleeps until *)
(* g_shutdown_requested, joins them, closes both descriptors and rethrows  *)
(* the first failure of a worker.  Each worker owns a queue, runs          *)
(* accept_loop() on it and calls step() until the flag is set.             *)
(*                                                                         *)
(* Threads interleave freely; a worker's own code is sequential.  What     *)
(* happens on an accepted connection is Session's; here it is served until *)
(* its client leaves.  Descriptors are scarce: Limit connections at most   *)
(* have one, accept() fails with EMFILE beyond (Linux reserves it before   *)
(* it looks at the backlog).                                               *)
(***************************************************************************)
EXTENDS Integers, FiniteSets

CONSTANTS
  Backends,  \* backends a server may be started with: "libc", "uring"
  Threads,   \* ServerConfig::threads
  Conns,     \* connections that clients open
  Limit      \* descriptors left for connections

ASSUME ServerAssumption ==
  /\ Backends \subseteq {"libc", "uring"}
  /\ Threads \in Nat \ {0}
  /\ Limit \in Nat

VARIABLES
  backend,     \* the backend of this server
  main,        \* where run_server() is
  listenOpen, fileOpen,  \* its two descriptors
  shutdown,    \* g_shutdown_requested
  exc,         \* g_worker_exception: whose it is
  pc,          \* where each worker is
  ret,         \* where it goes on when accept_loop() suspends or returns
  acceptor,    \* its accept(): "none", "armed" (in the queue), "cqe" or "over"
  cqe,         \* io_uring: the connection its accept's CQE carries, if any
  conn,        \* "none", "backlog", "accepted" (in a CQE), "served", "closing", "closed"
  owner,       \* the worker that serves it
  left,        \* its client has left
  failed       \* history: workers in which an exception was thrown

vars == <<backend, main, listenOpen, fileOpen, shutdown, exc, pc, ret,
          acceptor, cqe, conn, owner, left, failed>>

mainVars == <<backend, main, listenOpen, fileOpen>>
connVars == <<conn, owner, left>>
accVars == <<acceptor, cqe>>

Workers == 1..Threads
None == 0        \* no worker
NoConn == "none" \* a CQE that carries an error

Init ==
  /\ backend \in Backends
  /\ main = "openFile"
  /\ listenOpen = FALSE /\ fileOpen = FALSE
  /\ shutdown = FALSE
  /\ exc = None
  /\ pc = [w \in Workers |-> "none"]
  /\ ret = [w \in Workers |-> "none"]
  /\ acceptor = [w \in Workers |-> "none"]
  /\ cqe = [w \in Workers |-> NoConn]
  /\ conn = [c \in Conns |-> "none"]
  /\ owner = [c \in Conns |-> None]
  /\ left = [c \in Conns |-> FALSE]
  /\ failed = {}

\* The process is still there.
Up == main \notin {"returned", "thrown", "aborted"}

Exhausted == Cardinality({c \in Conns : conn[c] \in {"accepted", "served", "closing"}})
             >= Limit

Backlog == {c \in Conns : conn[c] = "backlog"}

-----------------------------------------------------------------------------
(* Clients and signals (external). *)

Connect(c) ==
  /\ listenOpen /\ Up
  /\ conn[c] = "none"
  /\ conn' = [conn EXCEPT ![c] = "backlog"]
  /\ UNCHANGED <<mainVars, shutdown, exc, pc, ret, accVars, owner, left, failed>>

Leave(c) ==
  /\ conn[c] \in {"backlog", "accepted", "served"} /\ ~left[c] /\ Up
  /\ left' = [left EXCEPT ![c] = TRUE]
  /\ UNCHANGED <<mainVars, shutdown, exc, pc, ret, accVars, conn, owner, failed>>

\* handle_shutdown_signal(), installed once the descriptors are open.
Signal ==
  /\ main \in {"spawn", "poll", "join", "close"}
  /\ ~shutdown
  /\ shutdown' = TRUE
  /\ UNCHANGED <<mainVars, exc, pc, ret, accVars, connVars, failed>>

-----------------------------------------------------------------------------
(* run_server(). *)

MainGoes(from, to) == main = from /\ main' = to

\* open_backing_file() and open_listen_socket(): either may throw.
OpenFile ==
  /\ \/ MainGoes("openFile", "openListen") /\ fileOpen' = TRUE
     \/ MainGoes("openFile", "thrown") /\ UNCHANGED fileOpen
  /\ UNCHANGED <<backend, listenOpen, shutdown, exc, pc, ret, accVars, connVars,
                 failed>>

OpenListen ==
  /\ \/ MainGoes("openListen", "spawn") /\ listenOpen' = TRUE
     \/ MainGoes("openListen", "thrown") /\ UNCHANGED listenOpen
  /\ UNCHANGED <<backend, fileOpen, shutdown, exc, pc, ret, accVars, connVars,
                 failed>>

Started == Cardinality({w \in Workers : pc[w] # "none"})

\* Mutation: i <= config.threads.
OneTooMany == Started <= Threads

\* run_server()'s loop condition.
MoreToStart == Started < Threads

\* workers.emplace_back(): a thread starts, or std::thread throws and the vector
\* is destroyed; with a joinable thread in it that is std::terminate().
SpawnWorker ==
  /\ main = "spawn" /\ MoreToStart
  /\ \/ /\ pc' = [w \in Workers \cup {Started + 1} |->
                   IF w = Started + 1 THEN "create" ELSE pc[w]]
        /\ UNCHANGED main
     \/ /\ main' = IF Started = 0 THEN "thrown" ELSE "aborted"
        /\ UNCHANGED pc
  /\ UNCHANGED <<backend, listenOpen, fileOpen, shutdown, exc, ret, accVars,
                 connVars, failed>>

\* The sleep loop, which ends once the flag is seen.
MainPoll ==
  /\ \/ MainGoes("spawn", "poll") /\ ~MoreToStart
     \/ MainGoes("poll", "join") /\ shutdown
  /\ UNCHANGED <<backend, listenOpen, fileOpen, shutdown, exc, pc, ret, accVars,
                 connVars, failed>>

\* Mutation: the descriptors are closed to wake the workers, not after them.
NobodyJoined == TRUE

\* Every t.join() has returned.
Joined == \A w \in Workers : pc[w] = "done"

Join ==
  /\ MainGoes("join", "close")
  /\ Joined
  /\ UNCHANGED <<backend, listenOpen, fileOpen, shutdown, exc, pc, ret, accVars,
                 connVars, failed>>

\* close(listen_fd), close(file_fd), and rethrow_exception() if there is one.
CloseAll ==
  /\ main = "close"
  /\ listenOpen' = FALSE /\ fileOpen' = FALSE
  /\ main' = IF exc # None THEN "thrown" ELSE "returned"
  /\ UNCHANGED <<backend, shutdown, exc, pc, ret, accVars, connVars, failed>>

Main == OpenFile \/ OpenListen \/ SpawnWorker \/ MainPoll \/ Join \/ CloseAll

-----------------------------------------------------------------------------
(* accept_loop(). *)

At(w, at) == Up /\ pc[w] = at

Goes(w, from, to) == At(w, from) /\ pc' = [pc EXCEPT ![w] = to]

\* accept_loop() suspends or returns to whoever resumed it.
Leaves(w, as) ==
  /\ acceptor' = [acceptor EXCEPT ![w] = as]
  /\ pc' = [pc EXCEPT ![w] = ret[w]]
  /\ ret' = [ret EXCEPT ![w] = "none"]

\* accept() succeeds: spawn(accept_one()), which runs until it first waits.
Accepts(w, c) ==
  /\ conn' = [conn EXCEPT ![c] = "served"]
  /\ owner' = [owner EXCEPT ![c] = w]

\* Mutation: any exception ends the loop.
AlwaysOver == TRUE

\* The catch block: has a real shutdown been requested?
LoopOver == shutdown

\* The catch block after an exception of accept(): return or try again.
CatchAccept(w) == IF LoopOver THEN Leaves(w, "over") ELSE UNCHANGED <<pc, ret, acceptor>>

\* accept4() takes a connection from the backlog; the loop goes round.
TryAccept(w) ==
  /\ At(w, "accepting") /\ backend = "libc"
  /\ ~Exhausted
  /\ \E c \in Backlog : Accepts(w, c)
  /\ UNCHANGED <<mainVars, shutdown, exc, pc, ret, accVars, left, failed>>

\* accept4() returns EAGAIN, as the listening socket is nonblocking.
Eagain == ~Exhausted /\ Backlog = {}

\* Mutation: step() drops the registration that was renewed while it dispatched.
DroppedInStep(w) == IF ret[w] = "step" THEN "none" ELSE "armed"

\* The awaiter is registered (libc), or its SQE is queued.
Registered(w) == "armed"

ArmAccept(w) ==
  /\ At(w, "accepting")
  /\ backend = "libc" => Eagain
  /\ Leaves(w, Registered(w))
  /\ UNCHANGED <<mainVars, shutdown, exc, cqe, connVars, failed>>

\* accept() throws at once.  accept4() finds no descriptor, or a peer that reset its
\* connection; io_uring has no SQE to give and cannot submit the ones it has.
AcceptFails(w) ==
  /\ At(w, "accepting")
  /\ \/ (backend = "libc" => Exhausted) /\ UNCHANGED conn
     \/ /\ backend = "libc"
        /\ \E c \in Backlog : left[c] /\ conn' = [conn EXCEPT ![c] = "closed"]
  /\ CatchAccept(w)
  /\ UNCHANGED <<mainVars, shutdown, exc, cqe, owner, left, failed>>

AcceptLoop(w) == TryAccept(w) \/ ArmAccept(w) \/ AcceptFails(w)

\* io_uring: the kernel completes the accept, with a connection or an error.
KernelAccept(w) ==
  /\ Up /\ backend = "uring"
  /\ acceptor[w] = "armed" /\ pc[w] # "done"
  /\ acceptor' = [acceptor EXCEPT ![w] = "cqe"]
  /\ \/ /\ ~Exhausted
        /\ \E c \in Backlog : /\ cqe' = [cqe EXCEPT ![w] = c]
                              /\ conn' = [conn EXCEPT ![c] = "accepted"]
     \/ /\ \/ Exhausted /\ UNCHANGED conn
           \/ \E c \in Backlog : left[c] /\ conn' = [conn EXCEPT ![c] = "closed"]
        /\ cqe' = [cqe EXCEPT ![w] = NoConn]
  /\ UNCHANGED <<mainVars, shutdown, exc, pc, ret, owner, left, failed>>

-----------------------------------------------------------------------------
(* worker_main(). *)

\* An exception leaves the body of the try block.
Throws(w, to) ==
  /\ failed' = failed \cup {w}
  /\ pc' = [pc EXCEPT ![w] = to]

\* Queue::create(), then spawn(accept_loop()); io_uring_queue_init() may fail.
CreateQueue(w) ==
  /\ At(w, "create")
  /\ \/ /\ Goes(w, "create", "accepting")
        /\ ret' = [ret EXCEPT ![w] = "check"]
        /\ UNCHANGED failed
     \/ backend = "uring" /\ Throws(w, "catch") /\ UNCHANGED ret
  /\ UNCHANGED <<mainVars, shutdown, exc, accVars, connVars>>

\* while (!g_shutdown_requested): into step(), or out and through ~Queue().
CheckFlag(w) ==
  /\ Goes(w, "check", IF shutdown THEN "dtor" ELSE "step")
  /\ UNCHANGED <<mainVars, shutdown, exc, ret, accVars, connVars, failed>>

\* step() returns after what was ready, its timeout or a signal; or it throws.
StepReturns(w) ==
  /\ Goes(w, "step", "check")
  /\ UNCHANGED <<mainVars, shutdown, exc, ret, accVars, connVars, failed>>

StepThrows(w) ==
  /\ At(w, "step")
  /\ Throws(w, "dtor")
  /\ UNCHANGED <<mainVars, shutdown, exc, ret, accVars, connVars>>

\* The queue resumes accept_loop(), which goes back to `back` in the end: for
\* another try (libc: on_ready() is the same _try()), or with an error.
Resume(w, back) ==
  /\ acceptor' = [acceptor EXCEPT ![w] = "none"]
  /\ pc' = [pc EXCEPT ![w] = "accepting"]
  /\ ret' = [ret EXCEPT ![w] = back]

ResumeFailed(w, back) ==
  IF LoopOver
  THEN /\ acceptor' = [acceptor EXCEPT ![w] = "over"]
       /\ pc' = [pc EXCEPT ![w] = back]
       /\ UNCHANGED ret
  ELSE Resume(w, back)

\* step() finds the listening socket readable (by then another worker may have
\* been faster), or the accept's CQE.
AcceptEvent(w) ==
  /\ At(w, "step")
  /\ \/ /\ backend = "libc" /\ acceptor[w] = "armed" /\ Backlog # {}
        /\ Resume(w, "step")
        /\ UNCHANGED <<conn, owner>>
     \/ /\ acceptor[w] = "cqe" /\ cqe[w] # NoConn
        /\ Accepts(w, cqe[w])
        /\ Resume(w, "step")
     \/ /\ acceptor[w] = "cqe" /\ cqe[w] = NoConn
        /\ ResumeFailed(w, "step")
        /\ UNCHANGED <<conn, owner>>
  /\ cqe' = [cqe EXCEPT ![w] = NoConn]
  /\ UNCHANGED <<mainVars, shutdown, exc, left, failed>>

\* accept_one(): handle_connection() is over, queue.close(): at once, or an SQE.
ConnOver(c) ==
  /\ conn[c] = "served" /\ left[c]
  /\ owner[c] # None /\ At(owner[c], "step")
  /\ conn' = [conn EXCEPT ![c] = IF backend = "libc" THEN "closed" ELSE "closing"]
  /\ owner' = [owner EXCEPT ![c] = None]
  /\ UNCHANGED <<mainVars, shutdown, exc, pc, ret, accVars, left, failed>>

KernelClose(c) ==
  /\ Up /\ conn[c] = "closing"
  /\ conn' = [conn EXCEPT ![c] = "closed"]
  /\ UNCHANGED <<mainVars, shutdown, exc, pc, ret, accVars, owner, left, failed>>

\* ~Queue() of the libc backend resumes accept_loop() with ECANCELED ...
DtorAccept(w) ==
  /\ At(w, "dtor") /\ backend = "libc"
  /\ acceptor[w] = "armed"
  /\ ResumeFailed(w, "dtorConns")
  /\ UNCHANGED <<mainVars, shutdown, exc, cqe, connVars, failed>>

\* ... and the connections, which close (which of them it reaches is undefined, see
\* LibcQueue); io_uring's resumes nobody.  Then the thread ends or catches.
DtorConns(w) ==
  /\ \/ At(w, "dtorConns")
     \/ At(w, "dtor") /\ (backend = "uring" \/ acceptor[w] # "armed")
  /\ \E gone \in SUBSET {c \in Conns : conn[c] = "served" /\ owner[c] = w} :
       /\ backend = "uring" => gone = {}
       /\ conn' = [c \in Conns |-> IF c \in gone THEN "closed" ELSE conn[c]]
       /\ owner' = [c \in Conns |-> IF owner[c] = w THEN None ELSE owner[c]]
  /\ acceptor' = [acceptor EXCEPT ![w] = "none"]
  /\ cqe' = [cqe EXCEPT ![w] = NoConn]
  /\ pc' = [pc EXCEPT ![w] = IF w \in failed THEN "catch" ELSE "done"]
  /\ UNCHANGED <<mainVars, shutdown, exc, ret, left, failed>>

\* The catch block: stash the first exception under the mutex, then set the flag.
Stash(w) ==
  /\ Goes(w, "catch", "flag")
  /\ exc' = IF exc = None THEN w ELSE exc
  /\ UNCHANGED <<mainVars, shutdown, ret, accVars, connVars, failed>>

\* Mutation: the exception is kept and nobody is told.
TellNobody == shutdown

\* g_shutdown_requested once a worker has failed.
FlagOnFailure == TRUE

SetFlag(w) ==
  /\ Goes(w, "flag", "done")
  /\ shutdown' = FlagOnFailure
  /\ UNCHANGED <<mainVars, exc, ret, accVars, connVars, failed>>

Thread(w) ==
  \/ AcceptLoop(w)
  \/ CreateQueue(w) \/ CheckFlag(w) \/ StepReturns(w)
  \/ DtorAccept(w) \/ DtorConns(w) \/ Stash(w) \/ SetFlag(w)

Next ==
  \/ Main \/ Signal
  \/ \E c \in Conns : Connect(c) \/ Leave(c) \/ ConnOver(c) \/ KernelClose(c)
  \/ \E w \in Workers : Thread(w) \/ StepThrows(w) \/ AcceptEvent(w) \/ KernelAccept(w)

(***************************************************************************)
(* Threads run on, and step() returns, within its timeout at the latest.   *)
(* What is ready whenever a worker calls step() is dispatched by one of    *)
(* the calls, hence strong fairness; the kernel completes what it can.     *)
(***************************************************************************)
Fairness ==
  /\ WF_vars(Main)
  /\ \A w \in Workers : WF_vars(Thread(w))
  /\ SF_vars(\E w \in Workers : AcceptEvent(w))
  /\ SF_vars(\E c \in Conns : ConnOver(c))
  /\ WF_vars(\E w \in Workers : KernelAccept(w))
  /\ WF_vars(\E c \in Conns : KernelClose(c))

Spec == Init /\ [][Next]_vars

FairSpec == Spec /\ Fairness

-----------------------------------------------------------------------------
(* Properties. *)

TypeOK ==
  /\ backend \in Backends
  /\ main \in {"openFile", "openListen", "spawn", "poll", "join", "close", "returned",
               "thrown", "aborted"}
  /\ listenOpen \in BOOLEAN /\ fileOpen \in BOOLEAN
  /\ shutdown \in BOOLEAN
  /\ exc \in Workers \cup {None}
  /\ pc \in [Workers -> {"none", "create", "accepting", "check", "step", "dtor",
                         "dtorConns", "catch", "flag", "done"}]
  /\ ret \in [Workers -> {"none", "check", "step", "dtorConns"}]
  /\ acceptor \in [Workers -> {"none", "armed", "cqe", "over"}]
  /\ cqe \in [Workers -> Conns \cup {NoConn}]
  /\ conn \in [Conns -> {"none", "backlog", "accepted", "served", "closing", "closed"}]
  /\ owner \in [Conns -> Workers \cup {None}]
  /\ left \in [Conns -> BOOLEAN]
  /\ failed \subseteq Workers

(***************************************************************************)
(* The comment in accept_loop(): a worker must never silently stop         *)
(* accepting.  A worker that goes round its step() loop has its accept()   *)
(* registered, in the kernel or completed, whatever errors accept() met,   *)
(* as long as no shutdown was requested.                                   *)
(***************************************************************************)
KeepsAccepting ==
  \A w \in Workers :
    pc[w] \in {"check", "step"} /\ ~shutdown => acceptor[w] \in {"armed", "cqe"}

(***************************************************************************)
(* run_server() ends after its workers: it closes the listening socket and *)
(* the backing file only when no worker, not even one that is destroying   *)
(* its queue, can use them; it returns normally only when no worker threw, *)
(* and once the workers are started what it throws is the exception of one *)
(* that did.                                                               *)
(***************************************************************************)
EndsAfterWorkers ==
  /\ (\E w \in Workers : pc[w] \notin {"none", "done"}) => listenOpen /\ fileOpen
  /\ main = "returned" => failed = {}
  /\ main = "thrown" /\ Started = Threads => exc \in failed

\* accept_loop() finds no descriptor and retries at once, without step() (libc).
Spinning == backend = "libc" /\ Exhausted

\* The server is on its way down, or gone.
Ending == shutdown \/ failed # {} \/ ~Up

(***************************************************************************)
(* A shutdown request ends the server, however long accept() has been      *)
(* failing, and so does the failure of any worker: the others see the flag *)
(* within a step().  The exception is a worker that spins in accept_loop() *)
(* while it destroys its queue, with no descriptor left.                   *)
(***************************************************************************)
ShutdownCompletes ==
  shutdown \/ failed # {} ~> ~Up \/ (Spinning /\ ~shutdown)

(***************************************************************************)
(* A client in the backlog is accepted by some worker, unless the server   *)
(* shuts down or never has a descriptor for it again: neither a transient  *)
(* error, a lost race with another worker nor a time without descriptors   *)
(* leaves the backlog without an acceptor.  A connection whose client left *)
(* is closed and gives its descriptor back, unless the server shuts down   *)
(* or the libc backend is out of descriptors for good.                     *)
(***************************************************************************)
ConnectionsServed ==
  \A c \in Conns :
    /\ conn[c] = "backlog" ~> conn[c] # "backlog" \/ Ending \/ []Exhausted
    /\ conn[c] = "served" /\ left[c] ~> conn[c] = "closed" \/ Ending \/ []Spinning

(***************************************************************************)
(* open_listen_socket(): the listening socket is nonblocking so that       *)
(* nothing "starves queue->step() of any chance to service                 *)
(* already-accepted connections".  A connection whose client left is       *)
(* closed unless the server ends.                                          *)
(***************************************************************************)
NeverStarved ==
  \A c \in Conns :
    conn[c] = "served" /\ left[c] ~> conn[c] = "closed" \/ Ending
=============================================================================
