----------------------------- MODULE LibcQueue -----------------------------
(***************************************************************************)
(* The poll()-based event loop of easyio's libc backend                    *)
(* (easyio/src/libc_queue.cpp): the map _fds from a descriptor to the read *)
(* operation and the queue of write operations that wait on it, step(),    *)
(* which dispatches what poll() reported, cancel_fd() and the destructor.  *)
(*                                                                         *)
(* An operation is an object in a coroutine frame; _fds holds its address. *)
(* on_ready() and cancel() resume the coroutine in the middle of step():   *)
(* the object ends, and the coroutine may register new operations, at any  *)
(* free address (the one just freed included), destroy its stream, or      *)
(* close its descriptor before step() goes on.                             *)
(*                                                                         *)
(* The coroutines are those of the server: a loop that accepts on Listen,  *)
(* and for each connection one recv stream and some sends.                 *)
(***************************************************************************)
EXTENDS Integers, SequencesExt

CONSTANTS
  Listen,    \* the listening descriptor
  Conns,     \* descriptors of connections
  MaxAddr,   \* bound: operation objects alive at once
  MaxGen,    \* bound: read operations registered on one entry of _fds
  MaxSends   \* bound: sends that wait on one descriptor

ASSUME QueueAssumption ==
  /\ Listen \notin Conns
  /\ MaxAddr \in Nat
  /\ MaxGen \in Nat \ {0}
  /\ MaxSends \in Nat \ {0}

VARIABLES
  fds,      \* _fds: descriptor -> [read, gen, writes]
  obj,      \* the operation object at each address: [op, fd]; op "none" if free
  open,     \* the connections whose descriptor is open
  pfds,     \* step(): the polled descriptors still to handle, with revents
  at,       \* the descriptor step(), cancel_fd() or ~Queue() is at
  stage,    \* "idle"; in step(): "next", "read", "write", "erase"; "cancel";
            \* in ~Queue(): "dtorNext", "dtorRead", "dtorReading", "dtorWrite"
  call,     \* the on_ready() or cancel() in progress: its operation, and what
            \* the caller compares when it returns
  scope,    \* the descriptors its coroutines work on
  cancelq,  \* the operations cancel_fd() has copied and not yet cancelled
  seen      \* ~Queue(): the entries its loop has gone past

vars == <<fds, obj, open, pfds, at, stage, call, scope, cancelq, seen>>

loopVars == <<pfds, at, stage, cancelq, seen>>

Fds == Conns \cup {Listen}
Addrs == 1..MaxAddr
Null == 0
NoCall == [addr |-> Null, mark |-> 0, op |-> "none"]
InCall == call # NoCall
Free == [op |-> "none", fd |-> Listen]

\* The accept loop has registered its first accept.
Init ==
  /\ MaxAddr >= 1
  /\ fds = [f \in {Listen} |-> [read |-> 1, gen |-> 1, writes |-> <<>>]]
  /\ obj = [a \in Addrs |-> IF a = 1 THEN [op |-> "accept", fd |-> Listen] ELSE Free]
  /\ open = {}
  /\ pfds = <<>>
  /\ at = Listen
  /\ stage = "idle"
  /\ call = NoCall
  /\ scope = {}
  /\ cancelq = <<>>
  /\ seen = {}

-----------------------------------------------------------------------------
(* The map. *)

Has(m, f) == f \in DOMAIN m
Entry(m, f) == IF Has(m, f) THEN m[f] ELSE [read |-> Null, gen |-> 0, writes |-> <<>>]
Put(m, f, e) == [g \in DOMAIN m \cup {f} |-> IF g = f THEN e ELSE m[g]]
Erase(m, f) == [g \in DOMAIN m \ {f} |-> m[g]]
EraseIfEmpty(m, f) ==
  IF Has(m, f) /\ m[f].read = Null /\ m[f].writes = <<>> THEN Erase(m, f) ELSE m

SetReadOp(m, f, a) ==
  Put(m, f, [Entry(m, f) EXCEPT !.read = a, !.gen = @ + 1])

ClearReadOp(m, f, a) ==
  IF Has(m, f) /\ m[f].read = a
  THEN EraseIfEmpty([m EXCEPT ![f].read = Null], f)
  ELSE m

PushWriteOp(m, f, a) ==
  Put(m, f, [Entry(m, f) EXCEPT !.writes = Append(@, a)])

Alive(op, f) == {a \in Addrs : obj[a] = [op |-> op, fd |-> f]}

-----------------------------------------------------------------------------
(* What a resumed coroutine does before it suspends or ends: inside a call *)
(* of on_ready() or cancel(), on the descriptors in scope.                 *)

\* The accept loop awaits the next connection: AcceptAwaiter's await_suspend().
ArmAccept ==
  /\ InCall /\ Listen \in scope
  /\ Alive("accept", Listen) = {}
  /\ Entry(fds, Listen).gen < MaxGen
  /\ \E a \in Addrs :
       /\ obj[a].op = "none"
       /\ obj' = [obj EXCEPT ![a] = [op |-> "accept", fd |-> Listen]]
       /\ fds' = SetReadOp(fds, Listen, a)
  /\ UNCHANGED <<open, call, scope, loopVars>>

\* It accepted f and spawned accept_one(), which opens a recv stream on it.
OpenConn(f) ==
  /\ InCall /\ Listen \in scope
  /\ Alive("accept", Listen) = {}
  /\ f \notin open
  /\ Entry(fds, f).gen < MaxGen
  /\ open' = open \cup {f}
  /\ scope' = scope \cup {f}
  /\ \E a \in Addrs :
       /\ obj[a].op = "none"
       /\ obj' = [obj EXCEPT ![a] = [op |-> "stream", fd |-> f]]
       /\ fds' = SetReadOp(fds, f, a)
  /\ UNCHANGED <<call, loopVars>>

\* A send finds the socket full: SendAwaiter's await_suspend().
StartSend(f) ==
  /\ InCall /\ f \in scope \cap open
  /\ Cardinality(Alive("send", f)) < MaxSends
  /\ \E a \in Addrs :
       /\ obj[a].op = "none"
       /\ obj' = [obj EXCEPT ![a] = [op |-> "send", fd |-> f]]
       /\ fds' = PushWriteOp(fds, f, a)
  /\ UNCHANGED <<open, call, scope, loopVars>>

\* handle_connection() is done reading: ~RecvStreamImpl().
CloseStream(f) ==
  /\ InCall /\ f \in scope
  /\ \E a \in Alive("stream", f) :
       /\ obj' = [obj EXCEPT ![a] = Free]
       /\ fds' = ClearReadOp(fds, f, a)
  /\ UNCHANGED <<open, call, scope, loopVars>>

\* The connection's coroutines have ended: accept_one() closes the descriptor.
CloseFd(f) ==
  /\ InCall /\ f \in scope \cap open
  /\ Alive("stream", f) = {} /\ Alive("send", f) = {}
  /\ open' = open \ {f}
  /\ UNCHANGED <<fds, obj, call, scope, loopVars>>

\* The coroutines a call resumed.
Reenter ==
  \/ ArmAccept
  \/ \E f \in Conns : OpenConn(f) \/ StartSend(f) \/ CloseStream(f) \/ CloseFd(f)

-----------------------------------------------------------------------------
(* step(). *)

\* What poll() may report of f: the events asked for; a hang-up or an error,
\* which count as both.
Revents(f) ==
  {{"in", "out"}} \cup (IF fds[f].read # Null THEN {{"in"}} ELSE {})
                  \cup (IF fds[f].writes # <<>> THEN {{"out"}} ELSE {})

\* poll() returns: some of the registered descriptors are ready.
Poll ==
  /\ stage = "idle"
  /\ \E ready \in SUBSET DOMAIN fds :
       /\ ready # {}
       /\ pfds' \in {r \in [ready -> SUBSET {"in", "out"}] :
                       \A f \in ready : r[f] \in Revents(f)}
  /\ stage' = "next"
  /\ UNCHANGED <<fds, obj, open, at, call, scope, cancelq, seen>>

\* The for loop goes to the next polled descriptor (in hash order), or ends.
NextFd ==
  /\ stage = "next"
  /\ IF pfds = <<>>
     THEN stage' = "idle" /\ UNCHANGED at
     ELSE /\ at' \in DOMAIN pfds
          /\ stage' = "read"
  /\ UNCHANGED <<fds, obj, open, pfds, call, scope, cancelq, seen>>

\* on_ready() of the object at a succeeds and resumes its coroutine.  A one-shot
\* operation's object ends there; a stream stays.
Resume(a, mark) ==
  /\ call' = [addr |-> a, mark |-> mark, op |-> obj[a].op]
  /\ scope' = {obj[a].fd}
  /\ obj' = IF obj[a].op = "stream" THEN obj ELSE [obj EXCEPT ![a] = Free]

\* The read half: call on_ready() of the read operation, if there is one.
ReadHalf ==
  /\ stage = "read" /\ ~InCall
  /\ "in" \in pfds[at]
  /\ Entry(fds, at).read # Null
  /\ \/ Resume(fds[at].read, fds[at].gen) /\ UNCHANGED stage
     \/ stage' = "write" /\ UNCHANGED <<obj, call, scope>>  \* EAGAIN, nobody resumed
  /\ UNCHANGED <<fds, open, pfds, at, cancelq, seen>>

ReadSkip ==
  /\ stage = "read" /\ ~InCall
  /\ "in" \notin pfds[at] \/ Entry(fds, at).read = Null
  /\ stage' = "write"
  /\ UNCHANGED <<fds, obj, open, pfds, at, call, scope, cancelq, seen>>

\* Mutation: compare the operation's address, not its generation.
SameAddress(e) == e.read = call.addr

\* The entry still holds the operation that on_ready() finished.
Unchanged(e) == e.gen = call.mark

\* on_ready() of a read operation returns: forget an operation that finished.
ReadReturn ==
  /\ stage = "read" /\ InCall
  /\ fds' = IF call.op = "accept" /\ Has(fds, at) /\ Unchanged(fds[at])
            THEN [fds EXCEPT ![at].read = Null] ELSE fds
  /\ call' = NoCall
  /\ scope' = {}
  /\ stage' = "write"
  /\ UNCHANGED <<obj, open, pfds, at, cancelq, seen>>

\* The write half: on_ready() of the front of the write queue.
WriteHalf ==
  /\ stage = "write" /\ ~InCall
  /\ "out" \in pfds[at]
  /\ Entry(fds, at).writes # <<>>
  /\ \/ Resume(Head(fds[at].writes), 0) /\ UNCHANGED stage
     \/ stage' = "erase" /\ UNCHANGED <<obj, call, scope>>  \* the socket is full
  /\ UNCHANGED <<fds, open, pfds, at, cancelq, seen>>

WriteSkip ==
  /\ stage = "write" /\ ~InCall
  /\ "out" \notin pfds[at] \/ Entry(fds, at).writes = <<>>
  /\ stage' = "erase"
  /\ UNCHANGED <<fds, obj, open, pfds, at, call, scope, cancelq, seen>>

\* Mutation: pop the back, where a re-armed send has put itself.
PopLast(writes) == SubSeq(writes, 1, Len(writes) - 1)

\* pop_front() of the operation that finished.
PopFirst(writes) == Tail(writes)

WriteReturn ==
  /\ stage = "write" /\ InCall
  /\ fds' = IF Has(fds, at) /\ fds[at].writes # <<>> /\ Head(fds[at].writes) = call.addr
            THEN [fds EXCEPT ![at].writes = PopFirst(@)] ELSE fds
  /\ call' = NoCall
  /\ scope' = {}
  /\ UNCHANGED <<obj, open, loopVars>>

\* The end of the loop body: an entry without operations goes.
EraseEntry ==
  /\ stage = "erase"
  /\ fds' = EraseIfEmpty(fds, at)
  /\ pfds' = Erase(pfds, at)
  /\ stage' = "next"
  /\ UNCHANGED <<obj, open, at, call, scope, cancelq, seen>>

Step == Poll \/ NextFd \/ ReadHalf \/ ReadSkip \/ ReadReturn \/ WriteHalf
        \/ WriteSkip \/ WriteReturn \/ EraseEntry

-----------------------------------------------------------------------------
(* cancel_fd(), called outside step(). *)

CancelFd(f) ==
  /\ stage = "idle"
  /\ Has(fds, f)
  /\ cancelq' = (IF fds[f].read # Null THEN <<fds[f].read>> ELSE <<>>) \o fds[f].writes
  /\ fds' = Erase(fds, f)
  /\ at' = f
  /\ stage' = "cancel"
  /\ UNCHANGED <<obj, open, pfds, call, scope, seen>>

\* cancel() of the next copied operation resumes its coroutine.
CancelNext ==
  /\ stage = "cancel" /\ ~InCall
  /\ cancelq # <<>>
  /\ cancelq' = Tail(cancelq)
  /\ Resume(Head(cancelq), 0)
  /\ UNCHANGED <<fds, open, pfds, at, stage, seen>>

CancelReturn ==
  /\ stage = "cancel" /\ InCall
  /\ call' = NoCall
  /\ scope' = {}
  /\ UNCHANGED <<fds, obj, open, loopVars>>

CancelEnd ==
  /\ stage = "cancel" /\ ~InCall
  /\ cancelq = <<>>
  /\ stage' = "idle"
  /\ UNCHANGED <<fds, obj, open, pfds, at, call, scope, cancelq, seen>>

Cancel == CancelNext \/ CancelReturn \/ CancelEnd \/ \E f \in Fds : CancelFd(f)

-----------------------------------------------------------------------------
(* ~Queue(): a loop over the live map.  It has no defined continuation once *)
(* the entry it is at, or the write queue it iterates, changed under it; it *)
(* then stops here.                                                         *)

DtorNext ==
  /\ stage \in {"idle", "dtorNext"}
  /\ \E f \in DOMAIN fds \ seen :
       /\ at' = f
       /\ seen' = seen \cup {f}
       /\ stage' = "dtorRead"
  /\ UNCHANGED <<fds, obj, open, pfds, call, scope, cancelq>>

\* state.read_op->cancel(), if there is one.
DtorRead ==
  /\ stage = "dtorRead"
  /\ IF fds[at].read # Null
     THEN /\ Resume(fds[at].read, 0)
          /\ stage' = "dtorReading"
          /\ UNCHANGED cancelq
     ELSE /\ stage' = "dtorWrite"
          /\ cancelq' = fds[at].writes
          /\ UNCHANGED <<obj, call, scope>>
  /\ UNCHANGED <<fds, open, pfds, at, seen>>

DtorReadReturn ==
  /\ stage = "dtorReading"
  /\ Has(fds, at)
  /\ call' = NoCall
  /\ scope' = {}
  /\ stage' = "dtorWrite"
  /\ cancelq' = fds[at].writes
  /\ UNCHANGED <<fds, obj, open, pfds, at, seen>>

\* cancel() of the operations in its write queue, one after the other.
DtorWrite ==
  /\ stage = "dtorWrite" /\ ~InCall
  /\ IF cancelq # <<>>
     THEN /\ Resume(Head(cancelq), Len(fds[at].writes))
          /\ cancelq' = Tail(cancelq)
          /\ UNCHANGED stage
     ELSE /\ stage' = "dtorNext"
          /\ UNCHANGED <<cancelq, obj, call, scope>>
  /\ UNCHANGED <<fds, open, pfds, at, seen>>

DtorWriteReturn ==
  /\ stage = "dtorWrite" /\ InCall
  /\ Has(fds, at) /\ Len(fds[at].writes) = call.mark
  /\ call' = NoCall
  /\ scope' = {}
  /\ UNCHANGED <<fds, obj, open, loopVars>>

Destructor == DtorNext \/ DtorRead \/ DtorReadReturn \/ DtorWrite \/ DtorWriteReturn

Next == Step \/ Reenter \/ Cancel \/ Destructor

Spec == Init /\ [][Next]_vars

-----------------------------------------------------------------------------
(* Properties. *)

TypeOK ==
  /\ DOMAIN fds \subseteq Fds
  /\ \A f \in DOMAIN fds :
       fds[f] \in [read : Addrs \cup {Null}, gen : 0..MaxGen, writes : Seq(Addrs)]
  /\ obj \in [Addrs -> [op : {"none", "accept", "stream", "send"}, fd : Fds]]
  /\ open \subseteq Conns
  /\ DOMAIN pfds \subseteq Fds
  /\ \A f \in DOMAIN pfds : pfds[f] \subseteq {"in", "out"}
  /\ at \in Fds
  /\ stage \in {"idle", "next", "read", "write", "erase", "cancel",
                "dtorNext", "dtorRead", "dtorReading", "dtorWrite"}
  /\ InCall => call \in [addr : Addrs, mark : Nat, op : {"accept", "stream", "send"}]
  /\ scope \subseteq Fds
  /\ cancelq \in Seq(Addrs)
  /\ seen \subseteq Fds

InDestructor == stage \in {"dtorNext", "dtorRead", "dtorReading", "dtorWrite"}

\* The object at a is an operation of f of one of the kinds in ops.
Waits(a, f, ops) == obj[a].op \in ops /\ obj[a].fd = f

\* The front of the write queue whose on_ready() is running is about to go.
Due(f) ==
  IF stage = "write" /\ InCall /\ f = at
     /\ fds[f].writes # <<>> /\ Head(fds[f].writes) = call.addr
  THEN Tail(fds[f].writes) ELSE fds[f].writes

(***************************************************************************)
(* _fds holds no dangling pointer that step() would call: what it holds is *)
(* an operation that waits on that descriptor, of the right kind, except   *)
(* the one whose on_ready() is running; and cancel_fd()'s copy likewise,   *)
(* whatever the coroutines it resumes do.                                  *)
(***************************************************************************)
NoDangling ==
  ~InDestructor =>
    /\ \A f \in DOMAIN fds :
         /\ fds[f].read # Null =>
              \/ Waits(fds[f].read, f, {"accept", "stream"})
              \/ stage = "read" /\ InCall /\ at = f /\ call.op = "accept"
                   /\ call.mark = fds[f].gen
         /\ \A i \in DOMAIN Due(f) : Waits(Due(f)[i], f, {"send"})
    /\ \A i \in DOMAIN cancelq : Waits(cancelq[i], at, {"accept", "stream", "send"})

(***************************************************************************)
(* No operation is orphaned: every operation a coroutine waits for is in   *)
(* _fds, once, and will be polled for, or in cancel_fd()'s copy.  This is  *)
(* the failure the comment on read_op_gen recalls (a listening socket that *)
(* no worker polled any more).  A stream that was cancelled is not polled. *)
(***************************************************************************)
NoOrphan ==
  ~InDestructor =>
    \A a \in Addrs :
      LET f == obj[a].fd
      IN  /\ obj[a].op = "accept" =>
               (Has(fds, f) /\ fds[f].read = a) \/ a \in ToSet(cancelq)
          /\ obj[a].op = "send" =>
               \/ Has(fds, f) /\ Cardinality({i \in DOMAIN Due(f) : Due(f)[i] = a}) = 1
               \/ a \in ToSet(cancelq)

(***************************************************************************)
(* What cancel_fd()'s comment asks for: cancel() resumes coroutines that   *)
(* may erase the very entry, "so don't iterate it live".  ~Queue() does:   *)
(* the entry it is at is still there after each cancel().                  *)
(***************************************************************************)
DtorEntryAlive == stage \in {"dtorReading", "dtorWrite"} => Has(fds, at)
=============================================================================
