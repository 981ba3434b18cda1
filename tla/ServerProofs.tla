---------------------------- MODULE ServerProofs ----------------------------
(***************************************************************************)
(* Proofs about Server, for every number of threads, connections and       *)
(* descriptors: type correctness, a worker never silently stops accepting, *)
(* and run_server() outlives its workers and reports their failure.        *)
(***************************************************************************)
EXTENDS Server, TLAPS, FiniteSetTheorems

(***************************************************************************)
(* run_server() starts the workers in order: the first n have started.     *)
(* Started counts them, which is what makes the loop of SpawnWorker start  *)
(* each worker once.                                                       *)
(***************************************************************************)
StartOrder ==
  \E n \in 0..Threads : \A w \in Workers : pc[w] = "none" <=> w > n

(***************************************************************************)
(* What run_server()'s position says about the descriptors, the workers    *)
(* and the exception.                                                      *)
(***************************************************************************)
MainInv ==
  /\ main \in {"openFile", "openListen"} => \A w \in Workers : pc[w] = "none"
  /\ main = "openListen" => fileOpen
  /\ main \in {"spawn", "poll", "join", "close", "aborted"} => listenOpen /\ fileOpen
  /\ main \in {"close", "returned"} => \A w \in Workers : pc[w] = "done"
  /\ main = "returned" => exc = None
  /\ main = "thrown" =>
       \/ \A w \in Workers : pc[w] = "none"
       \/ exc # None /\ \A w \in Workers : pc[w] = "done"

(***************************************************************************)
(* A worker in accept_loop() knows where to go on; one that failed is on   *)
(* its way through ~Queue() and the catch block, and is only past the      *)
(* latter once an exception is stashed.                                    *)
(***************************************************************************)
WorkerInv ==
  /\ \A w \in Workers : pc[w] = "accepting" => ret[w] # "none"
  /\ \A w \in Workers : pc[w] \in {"catch", "flag"} => w \in failed
  /\ \A w \in failed :
       /\ pc[w] \in {"dtor", "accepting", "dtorConns", "catch", "flag", "done"}
       /\ pc[w] = "accepting" => ret[w] = "dtorConns"
       /\ pc[w] \in {"flag", "done"} => exc # None
  /\ exc # None => exc \in failed

IInv == TypeOK /\ StartOrder /\ MainInv /\ WorkerInv /\ KeepsAccepting

-----------------------------------------------------------------------------
(* Starting the workers. *)

\* When the first n workers have started, Started is n.
LEMMA StartedIs ==
  ASSUME NEW n \in 0..Threads, \A w \in Workers : pc[w] = "none" <=> w > n
  PROVE  Started = n
<1> USE ServerAssumption
<1>1. {w \in Workers : pc[w] # "none"} = 1..n
  BY DEF Workers
<1>2. Cardinality(1..n) = n
  <2>1. 1 \in Int /\ n \in Int
    OBVIOUS
  <2>2. Cardinality(1..n) = IF 1 > n THEN 0 ELSE n - 1 + 1
    BY <2>1, FS_Interval
  <2> QED BY <2>2
<1> QED BY <1>1, <1>2 DEF Started

\* A worker that has started stays started, so the order is kept by every step
\* of a worker.
LEMMA StartOrderStep ==
  ASSUME StartOrder, NEW w \in Workers, NEW x,
         pc \in [Workers -> {"none", "create", "accepting", "check", "step", "dtor",
                             "dtorConns", "catch", "flag", "done"}],
         pc[w] # "none", x # "none", pc' = [pc EXCEPT ![w] = x]
  PROVE  StartOrder'
BY DEF StartOrder

-----------------------------------------------------------------------------
\* Nothing runs and nothing is open at first.
LEMMA InitIInv == Init => IInv
<1> SUFFICES ASSUME Init PROVE IInv
  OBVIOUS
<1> USE ServerAssumption DEF Init
<1>1. TypeOK
  <2>1. left \in [Conns -> BOOLEAN]
    BY Zenon
  <2>2. listenOpen \in BOOLEAN /\ fileOpen \in BOOLEAN /\ shutdown \in BOOLEAN
    BY Zenon
  <2> QED BY <2>1, <2>2 DEF TypeOK
<1>2. StartOrder
  <2>1. \A w \in Workers : pc[w] = "none" <=> w > 0
    BY DEF Workers
  <2> QED BY <2>1 DEF StartOrder
<1>3. MainInv /\ WorkerInv /\ KeepsAccepting
  BY DEF MainInv, WorkerInv, KeepsAccepting
<1> QED BY <1>1, <1>2, <1>3 DEF IInv

-----------------------------------------------------------------------------
(* run_server(). *)

\* The thread that is started is the next one, and exists.
LEMMA SpawnIInv == IInv /\ SpawnWorker => IInv'
<1> SUFFICES ASSUME IInv, SpawnWorker PROVE IInv'
  OBVIOUS
<1> USE ServerAssumption
<1>1. PICK n \in 0..Threads : \A w \in Workers : pc[w] = "none" <=> w > n
  BY DEF IInv, StartOrder
<1>2. Started = n
  BY <1>1, StartedIs
<1>3. /\ main = "spawn" /\ n < Threads
      /\ UNCHANGED <<backend, listenOpen, fileOpen, shutdown, exc, ret, acceptor,
                     cqe, conn, owner, left, failed>>
  BY <1>2 DEF SpawnWorker, MoreToStart, accVars, connVars
<1>4. CASE /\ pc' = [w \in Workers \cup {Started + 1} |->
                       IF w = Started + 1 THEN "create" ELSE pc[w]]
           /\ UNCHANGED main
  <2>1. n + 1 \in Workers
    BY <1>3 DEF Workers
  <2>2. pc' = [pc EXCEPT ![n + 1] = "create"]
    <3>1. Workers \cup {n + 1} = Workers
      BY <2>1
    <3>2. pc = [v \in Workers |-> pc[v]]
      BY DEF IInv, TypeOK
    <3> QED BY <1>2, <1>4, <2>1, <3>1, <3>2
  <2>3. pc[n + 1] = "none"
    BY <1>1, <2>1
  <2>4. TypeOK'
    BY <1>3, <1>4, <2>1, <2>2 DEF IInv, TypeOK
  <2>5. StartOrder'
    <3>1. n + 1 \in 0..Threads
      BY <1>3
    <3>2. \A w \in Workers : pc'[w] = "none" <=> w > n + 1
      BY <1>1, <2>1, <2>2 DEF Workers, IInv, TypeOK
    <3> QED BY <3>1, <3>2 DEF StartOrder
  <2>6. MainInv'
    BY <1>3, <1>4 DEF IInv, MainInv
  <2>7. WorkerInv'
    BY <1>3, <2>1, <2>2, <2>3 DEF IInv, TypeOK, WorkerInv
  <2>8. KeepsAccepting'
    BY <1>3, <2>1, <2>2 DEF IInv, TypeOK, KeepsAccepting
  <2> QED BY <2>4, <2>5, <2>6, <2>7, <2>8 DEF IInv
<1>5. CASE main' = (IF Started = 0 THEN "thrown" ELSE "aborted") /\ UNCHANGED pc
  <2>1. TypeOK'
    BY <1>3, <1>5 DEF IInv, TypeOK
  <2>2. StartOrder'
    BY <1>5 DEF IInv, StartOrder
  <2>3. MainInv'
    BY <1>1, <1>2, <1>3, <1>5 DEF IInv, MainInv, Workers
  <2>4. WorkerInv' /\ KeepsAccepting'
    BY <1>3, <1>5 DEF IInv, WorkerInv, KeepsAccepting
  <2> QED BY <2>1, <2>2, <2>3, <2>4 DEF IInv
<1> QED BY <1>4, <1>5 DEF SpawnWorker

\* The other steps of run_server() leave the workers alone: it opens before it
\* starts them and closes after it has joined them.
LEMMA MainIInv == IInv /\ (OpenFile \/ OpenListen \/ MainPoll \/ Join \/ CloseAll) => IInv'
<1> SUFFICES ASSUME IInv, OpenFile \/ OpenListen \/ MainPoll \/ Join \/ CloseAll
             PROVE  IInv'
  OBVIOUS
<1> USE DEF MainGoes, accVars, connVars
<1>1. UNCHANGED <<backend, shutdown, exc, pc, ret, acceptor, cqe, conn, owner, left,
                  failed>>
  BY DEF OpenFile, OpenListen, MainPoll, Join, CloseAll
<1>2. TypeOK'
  <2>1. listenOpen' \in BOOLEAN /\ fileOpen' \in BOOLEAN
    BY Zenon DEF OpenFile, OpenListen, MainPoll, Join, CloseAll, IInv, TypeOK
  <2>2. main' \in {"openFile", "openListen", "spawn", "poll", "join", "close",
                   "returned", "thrown", "aborted"}
    BY DEF OpenFile, OpenListen, MainPoll, Join, CloseAll
  <2> QED BY <1>1, <2>1, <2>2 DEF IInv, TypeOK
<1>3. StartOrder' /\ WorkerInv' /\ KeepsAccepting'
  BY <1>1 DEF IInv, StartOrder, WorkerInv, KeepsAccepting
<1>4. MainInv'
  <2>1. CASE OpenFile
    BY <1>1, <2>1 DEF OpenFile, IInv, MainInv
  <2>2. CASE OpenListen
    BY <1>1, <2>2 DEF OpenListen, IInv, MainInv
  <2>3. CASE MainPoll
    BY <1>1, <2>3 DEF MainPoll, IInv, MainInv
  <2>4. CASE Join
    BY <1>1, <2>4 DEF Join, Joined, IInv, MainInv
  <2>5. CASE CloseAll
    BY <1>1, <2>5 DEF CloseAll, IInv, MainInv
  <2> QED BY <2>1, <2>2, <2>3, <2>4, <2>5
<1> QED BY <1>2, <1>3, <1>4 DEF IInv

-----------------------------------------------------------------------------
(* The workers. *)

\* A thread that runs keeps run_server() between its first and its last join.
LEMMA MainActive ==
  ASSUME IInv, Up, NEW w \in Workers, pc[w] \notin {"none", "done"}
  PROVE  main \in {"spawn", "poll", "join"}
BY DEF IInv, TypeOK, MainInv, Up

\* There, no step of a worker can break what run_server() relies on.
LEMMA MainKept ==
  ASSUME MainInv, main \in {"spawn", "poll", "join"}, UNCHANGED mainVars
  PROVE  MainInv'
BY DEF MainInv, mainVars

\* The steps that do not involve a worker's position: clients, the signal, the
\* kernel and a connection that ends.
LEMMA OutsideIInv ==
  ASSUME IInv,
         \/ Signal
         \/ \E c \in Conns : Connect(c) \/ Leave(c) \/ ConnOver(c) \/ KernelClose(c)
  PROVE  IInv'
<1> USE ServerAssumption DEF mainVars, accVars, connVars
<1>1. UNCHANGED <<backend, main, listenOpen, fileOpen, exc, pc, ret, acceptor, cqe,
                  failed>>
  BY DEF Signal, Connect, Leave, ConnOver, KernelClose
<1>2. shutdown' \in BOOLEAN /\ (shutdown => shutdown')
  BY Zenon DEF Signal, Connect, Leave, ConnOver, KernelClose, IInv, TypeOK
<1>3. /\ conn' \in [Conns -> {"none", "backlog", "accepted", "served", "closing",
                              "closed"}]
      /\ owner' \in [Conns -> Workers \cup {None}]
  <2>1. CASE Signal
    BY <2>1 DEF Signal, IInv, TypeOK
  <2>2. ASSUME NEW c \in Conns, Connect(c) PROVE <1>3!:
    BY <2>2 DEF Connect, IInv, TypeOK
  <2>3. ASSUME NEW c \in Conns, Leave(c) PROVE <1>3!:
    BY <2>3 DEF Leave, IInv, TypeOK
  <2>4. ASSUME NEW c \in Conns, ConnOver(c) PROVE <1>3!:
    BY <2>4 DEF ConnOver, IInv, TypeOK
  <2>5. ASSUME NEW c \in Conns, KernelClose(c) PROVE <1>3!:
    BY <2>5 DEF KernelClose, IInv, TypeOK
  <2> QED BY <2>1, <2>2, <2>3, <2>4, <2>5
<1>4. left' \in [Conns -> BOOLEAN]
  <2>1. ASSUME NEW c \in Conns, Leave(c) PROVE left' \in [Conns -> BOOLEAN]
    BY <2>1 DEF Leave, IInv, TypeOK
  <2> QED BY <2>1 DEF Signal, Connect, ConnOver, KernelClose, IInv, TypeOK
<1>5. TypeOK'
  BY <1>1, <1>2, <1>3, <1>4 DEF IInv, TypeOK
<1>6. StartOrder' /\ MainInv' /\ WorkerInv'
  BY <1>1 DEF IInv, StartOrder, MainInv, WorkerInv
<1>7. KeepsAccepting'
  BY <1>1, <1>2 DEF IInv, KeepsAccepting
<1> QED BY <1>5, <1>6, <1>7 DEF IInv

\* The kernel completes an accept that is armed: it is not lost, it is in the
\* completion queue.
LEMMA KernelAcceptIInv ==
  ASSUME IInv, NEW w \in Workers, KernelAccept(w)
  PROVE  IInv'
<1> USE ServerAssumption DEF mainVars
<1>1. /\ UNCHANGED <<backend, main, listenOpen, fileOpen, shutdown, exc, pc, ret,
                     owner, left, failed>>
      /\ acceptor' = [acceptor EXCEPT ![w] = "cqe"]
  BY DEF KernelAccept
<1>2. /\ cqe' \in [Workers -> Conns \cup {NoConn}]
      /\ conn' \in [Conns -> {"none", "backlog", "accepted", "served", "closing",
                              "closed"}]
  BY DEF KernelAccept, Backlog, IInv, TypeOK
<1>3. TypeOK'
  BY <1>1, <1>2 DEF IInv, TypeOK
<1>4. StartOrder' /\ MainInv' /\ WorkerInv'
  BY <1>1 DEF IInv, StartOrder, MainInv, WorkerInv
<1>5. KeepsAccepting'
  BY <1>1 DEF IInv, TypeOK, KeepsAccepting
<1> QED BY <1>3, <1>4, <1>5 DEF IInv

\* accept_loop() stays in its loop, or leaves it with its accept() registered or,
\* once a shutdown was requested, for good.
LEMMA AcceptLoopIInv ==
  ASSUME IInv, NEW w \in Workers, AcceptLoop(w)
  PROVE  IInv'
<1> USE ServerAssumption DEF mainVars, accVars, connVars
<1>1. /\ UNCHANGED <<backend, main, listenOpen, fileOpen, shutdown, exc, cqe, left,
                     failed>>
      /\ Up /\ pc[w] = "accepting"
  BY DEF AcceptLoop, TryAccept, ArmAccept, AcceptFails, At
<1>2. \/ UNCHANGED <<pc, ret, acceptor>>
      \/ Leaves(w, "armed")
      \/ shutdown /\ Leaves(w, "over")
  BY DEF AcceptLoop, TryAccept, ArmAccept, AcceptFails, CatchAccept, LoopOver,
         Registered
<1>3. /\ conn' \in [Conns -> {"none", "backlog", "accepted", "served", "closing",
                              "closed"}]
      /\ owner' \in [Conns -> Workers \cup {None}]
  BY DEF AcceptLoop, TryAccept, ArmAccept, AcceptFails, Accepts, Backlog, IInv, TypeOK
<1>4. ret[w] \in {"check", "step", "dtorConns"}
  BY <1>1 DEF IInv, TypeOK, WorkerInv
<1>5. TypeOK'
  BY <1>1, <1>2, <1>3, <1>4 DEF Leaves, IInv, TypeOK
<1>6. StartOrder'
  <2>1. CASE UNCHANGED pc
    BY <2>1 DEF IInv, StartOrder
  <2>2. CASE pc' = [pc EXCEPT ![w] = ret[w]]
    BY <1>1, <1>4, <2>2, StartOrderStep DEF IInv, TypeOK
  <2> QED BY <1>2, <2>1, <2>2 DEF Leaves
<1>7. MainInv'
  BY <1>1, MainActive, MainKept DEF IInv
<1>8. WorkerInv'
  BY <1>1, <1>2, <1>4 DEF Leaves, IInv, TypeOK, WorkerInv
<1>9. KeepsAccepting'
  BY <1>1, <1>2 DEF Leaves, IInv, TypeOK, KeepsAccepting
<1> QED BY <1>5, <1>6, <1>7, <1>8, <1>9 DEF IInv

\* The steps of worker_main() and the queue's dispatch of the accept.
LEMMA WorkerIInv ==
  ASSUME IInv, NEW w \in Workers,
         \/ CreateQueue(w) \/ CheckFlag(w) \/ StepReturns(w) \/ StepThrows(w)
         \/ AcceptEvent(w) \/ DtorAccept(w) \/ DtorConns(w) \/ Stash(w) \/ SetFlag(w)
  PROVE  IInv'
<1> USE ServerAssumption DEF mainVars, accVars, connVars, At, Goes
<1>1. /\ UNCHANGED <<backend, main, listenOpen, fileOpen, left>>
      /\ Up
      /\ pc[w] \in {"create", "check", "step", "dtor", "dtorConns", "catch", "flag"}
  BY DEF CreateQueue, CheckFlag, StepReturns, StepThrows, AcceptEvent, DtorAccept,
         DtorConns, Stash, SetFlag
<1>2. MainInv'
  BY <1>1, MainActive, MainKept DEF IInv
<1>3. \E x \in {"accepting", "check", "step", "dtor", "dtorConns", "catch", "flag",
                "done"} : pc' = [pc EXCEPT ![w] = x]
  BY Zenon DEF CreateQueue, CheckFlag, StepReturns, StepThrows, AcceptEvent, DtorAccept,
         DtorConns, Stash, SetFlag, Throws, Resume, ResumeFailed
<1>4. StartOrder'
  BY <1>1, <1>3, StartOrderStep DEF IInv, TypeOK
<1>5. shutdown' \in BOOLEAN /\ (shutdown => shutdown')
  BY Zenon DEF CreateQueue, CheckFlag, StepReturns, StepThrows, AcceptEvent, DtorAccept,
         DtorConns, Stash, SetFlag, FlagOnFailure, IInv, TypeOK
<1>6. CASE CreateQueue(w)
  <2>1. TypeOK'
    BY <1>1, <1>5, <1>6 DEF CreateQueue, Throws, IInv, TypeOK
  <2>2. WorkerInv'
    BY <1>1, <1>6 DEF CreateQueue, Throws, IInv, TypeOK, WorkerInv
  <2>3. KeepsAccepting'
    BY <1>1, <1>6 DEF CreateQueue, Throws, IInv, TypeOK, KeepsAccepting
  <2> QED BY <1>2, <1>4, <2>1, <2>2, <2>3 DEF IInv
<1>7. CASE CheckFlag(w)
  <2>1. TypeOK'
    BY <1>1, <1>5, <1>7 DEF CheckFlag, IInv, TypeOK
  <2>2. WorkerInv'
    BY <1>1, <1>7 DEF CheckFlag, IInv, TypeOK, WorkerInv
  <2>3. KeepsAccepting'
    BY <1>1, <1>7 DEF CheckFlag, IInv, TypeOK, KeepsAccepting
  <2> QED BY <1>2, <1>4, <2>1, <2>2, <2>3 DEF IInv
<1>8. CASE StepReturns(w)
  <2>1. TypeOK'
    BY <1>1, <1>5, <1>8 DEF StepReturns, IInv, TypeOK
  <2>2. WorkerInv'
    BY <1>1, <1>8 DEF StepReturns, IInv, TypeOK, WorkerInv
  <2>3. KeepsAccepting'
    BY <1>1, <1>8 DEF StepReturns, IInv, TypeOK, KeepsAccepting
  <2> QED BY <1>2, <1>4, <2>1, <2>2, <2>3 DEF IInv
<1>9. CASE StepThrows(w)
  <2>1. TypeOK'
    BY <1>1, <1>5, <1>9 DEF StepThrows, Throws, IInv, TypeOK
  <2>2. WorkerInv'
    BY <1>1, <1>9 DEF StepThrows, Throws, IInv, TypeOK, WorkerInv
  <2>3. KeepsAccepting'
    BY <1>1, <1>9 DEF StepThrows, Throws, IInv, TypeOK, KeepsAccepting
  <2> QED BY <1>2, <1>4, <2>1, <2>2, <2>3 DEF IInv
<1>10. CASE AcceptEvent(w)
  <2>1. TypeOK'
    BY <1>1, <1>5, <1>10 DEF AcceptEvent, Accepts, Resume, ResumeFailed, LoopOver, IInv, TypeOK
  <2>2. WorkerInv'
    BY <1>1, <1>10 DEF AcceptEvent, Accepts, Resume, ResumeFailed, LoopOver, IInv, TypeOK, WorkerInv
  <2>3. KeepsAccepting'
    BY <1>1, <1>10 DEF AcceptEvent, Accepts, Resume, ResumeFailed, LoopOver, IInv, TypeOK, KeepsAccepting
  <2> QED BY <1>2, <1>4, <2>1, <2>2, <2>3 DEF IInv
<1>11. CASE DtorAccept(w)
  <2>1. TypeOK'
    BY <1>1, <1>5, <1>11 DEF DtorAccept, ResumeFailed, Resume, LoopOver, IInv, TypeOK
  <2>2. WorkerInv'
    BY <1>1, <1>11 DEF DtorAccept, ResumeFailed, Resume, LoopOver, IInv, TypeOK, WorkerInv
  <2>3. KeepsAccepting'
    BY <1>1, <1>11 DEF DtorAccept, ResumeFailed, Resume, LoopOver, IInv, TypeOK, KeepsAccepting
  <2> QED BY <1>2, <1>4, <2>1, <2>2, <2>3 DEF IInv
<1>12. CASE DtorConns(w)
  <2>1. TypeOK'
    BY <1>1, <1>5, <1>12 DEF DtorConns, IInv, TypeOK
  <2>2. WorkerInv'
    BY <1>1, <1>12 DEF DtorConns, IInv, TypeOK, WorkerInv
  <2>3. KeepsAccepting'
    BY <1>1, <1>12 DEF DtorConns, IInv, TypeOK, KeepsAccepting
  <2> QED BY <1>2, <1>4, <2>1, <2>2, <2>3 DEF IInv
<1>13. CASE Stash(w)
  <2>1. TypeOK'
    BY <1>1, <1>5, <1>13 DEF Stash, IInv, TypeOK
  <2>2. WorkerInv'
    BY <1>1, <1>13 DEF Stash, IInv, TypeOK, WorkerInv, Workers, None
  <2>3. KeepsAccepting'
    BY <1>1, <1>13 DEF Stash, IInv, TypeOK, KeepsAccepting
  <2> QED BY <1>2, <1>4, <2>1, <2>2, <2>3 DEF IInv
<1>14. CASE SetFlag(w)
  <2>1. TypeOK'
    BY <1>1, <1>5, <1>14 DEF SetFlag, FlagOnFailure, IInv, TypeOK
  <2>2. WorkerInv'
    BY <1>1, <1>14 DEF SetFlag, FlagOnFailure, IInv, TypeOK, WorkerInv
  <2>3. KeepsAccepting'
    BY <1>1, <1>14 DEF SetFlag, FlagOnFailure, IInv, TypeOK, KeepsAccepting
  <2> QED BY <1>2, <1>4, <2>1, <2>2, <2>3 DEF IInv
<1> QED
  BY <1>6, <1>7, <1>8, <1>9, <1>10, <1>11, <1>12, <1>13, <1>14

-----------------------------------------------------------------------------
(* The theorems. *)

\* Every step of the server keeps the invariant.
LEMMA NextIInv == IInv /\ [Next]_vars => IInv'
<1> SUFFICES ASSUME IInv, [Next]_vars PROVE IInv'
  OBVIOUS
<1>1. CASE Main
  BY <1>1, SpawnIInv, MainIInv DEF Main
<1>2. CASE \/ Signal
           \/ \E c \in Conns : Connect(c) \/ Leave(c) \/ ConnOver(c) \/ KernelClose(c)
  BY <1>2, OutsideIInv
<1>3. ASSUME NEW w \in Workers,
             Thread(w) \/ StepThrows(w) \/ AcceptEvent(w) \/ KernelAccept(w)
      PROVE  IInv'
  <2>1. CASE AcceptLoop(w)
    BY <2>1, AcceptLoopIInv
  <2>2. CASE KernelAccept(w)
    BY <2>2, KernelAcceptIInv
  <2>3. CASE \/ CreateQueue(w) \/ CheckFlag(w) \/ StepReturns(w) \/ StepThrows(w)
             \/ AcceptEvent(w) \/ DtorAccept(w) \/ DtorConns(w) \/ Stash(w)
             \/ SetFlag(w)
    BY <2>3, WorkerIInv
  <2> QED BY <1>3, <2>1, <2>2, <2>3 DEF Thread
<1>4. CASE UNCHANGED vars
  BY <1>4 DEF vars, IInv, TypeOK, StartOrder, MainInv, WorkerInv, KeepsAccepting
<1> QED BY <1>1, <1>2, <1>3, <1>4 DEF Next

\* The invariant holds in every state of the server.
LEMMA Invariance == Spec => []IInv
<1> QED BY InitIInv, NextIInv, PTL DEF Spec

\* Every state of the server has the types its declarations say.
THEOREM TypeCorrect == Spec => []TypeOK
<1>1. IInv => TypeOK
  BY DEF IInv
<1> QED BY <1>1, Invariance, PTL

\* A worker in its step() loop has its accept() registered or completed, for any
\* number of workers and clients and whatever accept() failed with, until a
\* shutdown is requested: accept_loop()'s catch block leaves no gap.
THEOREM NeverStopsAccepting == Spec => []KeepsAccepting
<1>1. IInv => KeepsAccepting
  BY DEF IInv
<1> QED BY <1>1, Invariance, PTL

\* run_server() closes its descriptors after every worker is gone, returns only
\* if none failed, and throws the exception of one that did.
THEOREM OutlivesWorkers == Spec => []EndsAfterWorkers
<1>1. IInv => EndsAfterWorkers
  <2> SUFFICES ASSUME IInv PROVE EndsAfterWorkers
    OBVIOUS
  <2> USE ServerAssumption
  <2>1. (\E w \in Workers : pc[w] \notin {"none", "done"}) => listenOpen /\ fileOpen
    BY DEF IInv, TypeOK, MainInv
  <2>2. main = "returned" => failed = {}
    BY DEF IInv, TypeOK, MainInv, WorkerInv
  <2>3. ASSUME main = "thrown", Started = Threads PROVE exc \in failed
    <3>1. PICK n \in 0..Threads : \A w \in Workers : pc[w] = "none" <=> w > n
      BY DEF IInv, StartOrder
    <3>2. n = Threads
      BY <2>3, <3>1, StartedIs
    <3>3. pc[1] # "none"
      BY <3>1, <3>2 DEF Workers
    <3>4. exc # None
      BY <2>3, <3>3 DEF IInv, MainInv, Workers
    <3> QED BY <3>4 DEF IInv, WorkerInv
  <2> QED BY <2>1, <2>2, <2>3 DEF EndsAfterWorkers
<1> QED BY <1>1, Invariance, PTL
=============================================================================
