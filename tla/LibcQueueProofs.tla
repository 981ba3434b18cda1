--------------------------- MODULE LibcQueueProofs ---------------------------
(***************************************************************************)
(* Proofs about LibcQueue, for every set of descriptors and every bound on *)
(* objects, registrations and sends: _fds never holds a dangling pointer   *)
(* that step() or cancel_fd() would call, and no operation a coroutine     *)
(* waits for is ever dropped from it, whatever the coroutines resumed in   *)
(* the middle of step() register, destroy or close.                        *)
(***************************************************************************)
EXTENDS LibcQueue, TLAPS, FiniteSetTheorems, SequenceTheorems

\* Taking the first element off a queue.
LEMMA TailFacts ==
  ASSUME NEW S, NEW q \in Seq(S), q # <<>>
  PROVE  /\ Len(q) \in Nat \ {0} /\ Head(q) = q[1] /\ Head(q) \in S
         /\ Tail(q) \in Seq(S)
         /\ Len(Tail(q)) = Len(q) - 1
         /\ \A i \in 1..(Len(q) - 1) : Tail(q)[i] = q[i + 1]
OBVIOUS

-----------------------------------------------------------------------------
(* The invariant. *)

Ops == {"accept", "stream", "send"}
Obj == [op : Ops \cup {"none"}, fd : Fds]
State == [read : Addrs \cup {Null}, gen : 0..MaxGen, writes : Seq(Addrs)]
Stages == {"idle", "next", "read", "write", "erase", "cancel", "dtorNext", "dtorRead",
           "dtorReading", "dtorWrite"}

\* An operation's kind says which descriptor it may wait on.
KindInv ==
  \A a \in Addrs : /\ obj[a].op = "accept" => obj[a].fd = Listen
                   /\ obj[a].op \in {"stream", "send"} => obj[a].fd \in Conns

(***************************************************************************)
(* Where calls are made, and what is certain of the entry while one is in  *)
(* progress: an accept that finished is either still registered, under the *)
(* generation step() noted, or replaced under a later one; a send that     *)
(* finished is still the front of the queue.                               *)
(***************************************************************************)
CallInv ==
  /\ InCall => stage \in {"read", "write", "cancel", "dtorReading", "dtorWrite"}
  /\ InCall /\ stage = "read" /\ call.op = "accept" =>
       /\ at = Listen /\ Listen \in DOMAIN fds
       /\ call.mark <= fds[Listen].gen
       /\ call.mark = fds[Listen].gen => \A a \in Addrs : obj[a].op # "accept"
  /\ InCall /\ stage = "write" =>
       at \in DOMAIN fds /\ fds[at].writes # <<>> /\ Head(fds[at].writes) = call.addr
  /\ stage = "dtorRead" \/ (stage = "dtorWrite" /\ ~InCall) => at \in DOMAIN fds
  /\ IF InDestructor THEN at \in seen ELSE seen = {}

\* The entries whose operations ~Queue() has not begun to cancel: all, outside it.
ReadTrusted(f) == f \notin seen \/ (stage = "dtorRead" /\ f = at)
WriteTrusted(f) == f \notin seen \/ (stage \in {"dtorRead", "dtorReading"} /\ f = at)

\* The accept that step() has resumed and will forget.
Finished(f) ==
  stage = "read" /\ InCall /\ at = f /\ call.op = "accept" /\ call.mark = fds[f].gen

\* What a read_op points at.
ReadInv ==
  \A f \in DOMAIN fds :
    ReadTrusted(f) /\ fds[f].read # Null =>
      Waits(fds[f].read, f, {"accept", "stream"}) \/ Finished(f)

\* q is a queue of sends that wait on f, each once; o is obj.
SendsOf(q, f, o) ==
  /\ \A i, j \in DOMAIN q : q[i] = q[j] => i = j
  /\ \A i \in DOMAIN q : o[q[i]].op = "send" /\ o[q[i]].fd = f

\* The send at the front of f's queue has been resumed and will be popped.
Popping(f) == stage = "write" /\ InCall /\ f = at
Rest(q, popping) == IF popping THEN Tail(q) ELSE q

WriteInv ==
  \A f \in DOMAIN fds : WriteTrusted(f) => SendsOf(Rest(fds[f].writes, Popping(f)), f, obj)

(***************************************************************************)
(* cancel_fd()'s copy (and the rest of the queue ~Queue() is at): what has *)
(* still to be cancelled waits on the descriptor, is not in _fds again,    *)
(* and is sends alone by the time a coroutine runs.                        *)
(***************************************************************************)
CancelInv ==
  /\ stage \notin {"cancel", "dtorWrite"} => cancelq = <<>>
  /\ \A i, j \in DOMAIN cancelq : cancelq[i] = cancelq[j] => i = j
  /\ \A i \in DOMAIN cancelq :
       /\ Waits(cancelq[i], at, Ops)
       /\ i > 1 \/ InCall \/ InDestructor => obj[cancelq[i]].op = "send"
  /\ stage = "cancel" =>
       \A i \in DOMAIN cancelq, f \in DOMAIN fds :
         /\ fds[f].read # cancelq[i]
         /\ \A j \in DOMAIN fds[f].writes : fds[f].writes[j] # cancelq[i]

\* Where an operation that is waited for is to be found.
OrphanInv ==
  ~InDestructor =>
    \A a \in Addrs :
      /\ obj[a].op = "accept" =>
           \/ Listen \in DOMAIN fds /\ fds[Listen].read = a
           \/ \E i \in DOMAIN cancelq : cancelq[i] = a
      /\ obj[a].op = "send" =>
           \/ /\ obj[a].fd \in DOMAIN fds
              /\ LET q == Rest(fds[obj[a].fd].writes, Popping(obj[a].fd))
                 IN  \E i \in DOMAIN q : q[i] = a
           \/ \E i \in DOMAIN cancelq : cancelq[i] = a

IInv == TypeOK /\ KindInv /\ CallInv /\ ReadInv /\ WriteInv /\ CancelInv /\ OrphanInv

-----------------------------------------------------------------------------
(* The map. *)

MapType(m) == DOMAIN m \subseteq Fds /\ \A f \in DOMAIN m : m[f] \in State

\* Null is not an address.
LEMMA NullNotAddr == Null \notin Addrs /\ \A a \in Addrs : a # Null
BY QueueAssumption DEF Null, Addrs

\* An entry, or the one operator[] would insert.
LEMMA EntryType ==
  ASSUME NEW m, MapType(m), NEW f
  PROVE  /\ Entry(m, f) \in State
         /\ f \in DOMAIN m => Entry(m, f) = m[f]
         /\ f \notin DOMAIN m => Entry(m, f).writes = <<>> /\ Entry(m, f).read = Null
<1>1. CASE f \in DOMAIN m
  BY <1>1 DEF Entry, Has, MapType
<1>2. CASE f \notin DOMAIN m
  <2>1. Entry(m, f) = [read |-> Null, gen |-> 0, writes |-> <<>>]
    BY <1>2 DEF Entry, Has
  <2>2. 0 \in 0..MaxGen /\ <<>> \in Seq(Addrs)
    BY QueueAssumption
  <2> QED BY <1>2, <2>1, <2>2 DEF State
<1> QED BY <1>1, <1>2

\* set_read_op().
LEMMA SetRead ==
  ASSUME NEW m, MapType(m), NEW f \in Fds, NEW a \in Addrs, Entry(m, f).gen < MaxGen
  PROVE  /\ DOMAIN SetReadOp(m, f, a) = DOMAIN m \cup {f}
         /\ \A g \in DOMAIN m : g # f => SetReadOp(m, f, a)[g] = m[g]
         /\ SetReadOp(m, f, a)[f] \in State /\ SetReadOp(m, f, a)[f].read = a
         /\ SetReadOp(m, f, a)[f].gen = Entry(m, f).gen + 1
         /\ SetReadOp(m, f, a)[f].writes = Entry(m, f).writes
<1> DEFINE m2 == SetReadOp(m, f, a)
<1>1. PICK e \in State : e = Entry(m, f)
  BY EntryType
<1>2. /\ DOMAIN m2 = DOMAIN m \cup {f}
      /\ m2[f] = [e EXCEPT !.read = a, !.gen = @ + 1]
      /\ \A g \in DOMAIN m : g # f => m2[g] = m[g]
  BY <1>1 DEF SetReadOp, Put
<1>3. e.gen + 1 \in 0..MaxGen
  BY <1>1, QueueAssumption DEF State
<1>4. /\ [e EXCEPT !.read = a, !.gen = @ + 1] \in State
      /\ [e EXCEPT !.read = a, !.gen = @ + 1].read = a
      /\ [e EXCEPT !.read = a, !.gen = @ + 1].gen = e.gen + 1
      /\ [e EXCEPT !.read = a, !.gen = @ + 1].writes = e.writes
  BY <1>1, <1>3 DEF State
<1> QED BY <1>1, <1>2, <1>4

\* push_write_op().
LEMMA PushWrite ==
  ASSUME NEW m, MapType(m), NEW f \in Fds, NEW a \in Addrs
  PROVE  /\ DOMAIN PushWriteOp(m, f, a) = DOMAIN m \cup {f}
         /\ \A g \in DOMAIN m : g # f => PushWriteOp(m, f, a)[g] = m[g]
         /\ PushWriteOp(m, f, a)[f] \in State /\ PushWriteOp(m, f, a)[f].read = Entry(m, f).read
         /\ PushWriteOp(m, f, a)[f].gen = Entry(m, f).gen
         /\ PushWriteOp(m, f, a)[f].writes = Append(Entry(m, f).writes, a)
<1> DEFINE m2 == PushWriteOp(m, f, a)
<1>1. PICK e \in State : e = Entry(m, f)
  BY EntryType
<1>2. /\ DOMAIN m2 = DOMAIN m \cup {f}
      /\ m2[f] = [e EXCEPT !.writes = Append(@, a)]
      /\ \A g \in DOMAIN m : g # f => m2[g] = m[g]
  BY <1>1 DEF PushWriteOp, Put
<1>3. Append(e.writes, a) \in Seq(Addrs)
  BY <1>1 DEF State
<1>4. /\ [e EXCEPT !.writes = Append(@, a)] \in State
      /\ [e EXCEPT !.writes = Append(@, a)].read = e.read
      /\ [e EXCEPT !.writes = Append(@, a)].gen = e.gen
      /\ [e EXCEPT !.writes = Append(@, a)].writes = Append(e.writes, a)
  BY <1>1, <1>3 DEF State
<1> QED BY <1>1, <1>2, <1>4

\* erase_if_empty().
LEMMA EraseEmpty ==
  ASSUME NEW m, NEW f, NEW m2, m2 = EraseIfEmpty(m, f)
  PROVE  /\ DOMAIN m2 \subseteq DOMAIN m
         /\ \A g \in DOMAIN m2 : m2[g] = m[g]
         /\ \A g \in DOMAIN m : g \notin DOMAIN m2 => g = f /\ m[g].read = Null /\ m[g].writes = <<>>
BY DEF EraseIfEmpty, Erase, Has

\* clear_read_op().
LEMMA ClearRead ==
  ASSUME NEW m, MapType(m), NEW f, NEW a \in Addrs, NEW m2, m2 = ClearReadOp(m, f, a)
  PROVE  /\ DOMAIN m2 \subseteq DOMAIN m
         /\ \A g \in DOMAIN m2 : g # f => m2[g] = m[g]
         /\ f \in DOMAIN m2 => /\ m2[f] \in State /\ m2[f].gen = m[f].gen
                               /\ m2[f].writes = m[f].writes
                               /\ m2[f].read # a /\ m2[f].read \in {m[f].read, Null}
         /\ \A g \in DOMAIN m : g \notin DOMAIN m2 => g = f /\ m[g].writes = <<>>
<1>1. CASE f \in DOMAIN m /\ m[f].read = a
  <2> DEFINE k == [m EXCEPT ![f].read = Null]
  <2>1. PICK e \in State : e = m[f]
    BY <1>1 DEF MapType
  <2>2. /\ DOMAIN k = DOMAIN m /\ k[f] = [e EXCEPT !.read = Null]
        /\ \A g \in DOMAIN m : g # f => k[g] = m[g]
    BY <1>1, <2>1
  <2>3. /\ [e EXCEPT !.read = Null] \in State /\ [e EXCEPT !.read = Null].read = Null
        /\ [e EXCEPT !.read = Null].gen = e.gen /\ [e EXCEPT !.read = Null].writes = e.writes
    BY <2>1 DEF State
  <2>4. m2 = EraseIfEmpty(k, f)
    BY <1>1 DEF ClearReadOp, Has
  <2> HIDE DEF k
  <2>5. /\ DOMAIN m2 \subseteq DOMAIN k
        /\ \A g \in DOMAIN m2 : m2[g] = k[g]
        /\ \A g \in DOMAIN k : g \notin DOMAIN m2 => g = f /\ k[g].writes = <<>>
    BY <2>4, EraseEmpty
  <2>6. Null # a
    BY NullNotAddr
  <2>7. f \in DOMAIN m2 => m2[f] = [e EXCEPT !.read = Null]
    BY <2>2, <2>5
  <2>8. f \in DOMAIN m2 => /\ m2[f] \in State /\ m2[f].gen = m[f].gen
                           /\ m2[f].writes = m[f].writes
                           /\ m2[f].read # a /\ m2[f].read \in {m[f].read, Null}
    BY <2>1, <2>3, <2>6, <2>7
  <2>9. k[f].writes = m[f].writes
    BY <2>1, <2>2, <2>3
  <2> QED BY <2>2, <2>5, <2>8, <2>9
<1>2. CASE ~(f \in DOMAIN m /\ m[f].read = a)
  <2>1. m2 = m
    BY <1>2 DEF ClearReadOp, Has
  <2> QED BY <1>2, <2>1 DEF MapType
<1> QED BY <1>1, <1>2

-----------------------------------------------------------------------------
(* Queues of sends. *)

\* Objects other than the sends change.
LEMMA SendsKeep ==
  ASSUME NEW q \in Seq(Addrs), NEW f, NEW o, NEW o2, SendsOf(q, f, o),
         \A a \in Addrs : o[a].op = "send" => o2[a] = o[a]
  PROVE  SendsOf(q, f, o2)
<1>1. \A i \in DOMAIN q : q[i] \in Addrs
  OBVIOUS
<1> QED BY <1>1 DEF SendsOf

\* A new send at the back.
LEMMA SendsPush ==
  ASSUME NEW q \in Seq(Addrs), NEW f, NEW o, NEW o2, SendsOf(q, f, o), NEW a \in Addrs,
         o[a].op # "send", o2[a].op = "send", o2[a].fd = f,
         \A b \in Addrs : b # a => o2[b] = o[b]
  PROVE  SendsOf(Append(q, a), f, o2)
<1> DEFINE q2 == Append(q, a)
<1>1. Len(q) \in Nat /\ DOMAIN q = 1..Len(q) /\ \A i \in DOMAIN q : q[i] \in Addrs
  OBVIOUS
<1>2. /\ DOMAIN q2 = 1..(Len(q) + 1) /\ q2[Len(q) + 1] = a
      /\ \A i \in DOMAIN q : q2[i] = q[i]
  BY <1>1
<1> HIDE DEF q2
<1>3. \A i \in DOMAIN q2 : i \in DOMAIN q \/ i = Len(q) + 1
  BY <1>1, <1>2
<1>4. \A i \in DOMAIN q : q[i] # a /\ o2[q[i]] = o[q[i]]
  BY <1>1 DEF SendsOf
<1>5. ASSUME NEW i \in DOMAIN q2, NEW j \in DOMAIN q2, q2[i] = q2[j]
      PROVE  i = j
  BY <1>2, <1>3, <1>4, <1>5 DEF SendsOf
<1>6. \A i \in DOMAIN q2 : o2[q2[i]].op = "send" /\ o2[q2[i]].fd = f
  BY <1>2, <1>3, <1>4 DEF SendsOf
<1>7. SendsOf(q2, f, o2)
  BY <1>5, <1>6 DEF SendsOf
<1> QED BY <1>7 DEF q2

\* The front is resumed.
LEMMA SendsPop ==
  ASSUME NEW q \in Seq(Addrs), NEW f, NEW o, NEW o2, SendsOf(q, f, o), q # <<>>,
         \A b \in Addrs : b # Head(q) => o2[b] = o[b]
  PROVE  SendsOf(Tail(q), f, o2) /\ Tail(q) \in Seq(Addrs)
<1> DEFINE q2 == Tail(q)
<1>1. /\ Len(q) \in Nat \ {0} /\ DOMAIN q = 1..Len(q) /\ \A i \in DOMAIN q : q[i] \in Addrs
      /\ Head(q) = q[1]
  OBVIOUS
<1>2. /\ q2 \in Seq(Addrs) /\ Len(q2) = Len(q) - 1
      /\ \A i \in 1..(Len(q) - 1) : q2[i] = q[i + 1]
  BY TailFacts
<1> HIDE DEF q2
<1>3. DOMAIN q2 = 1..(Len(q) - 1)
  BY <1>2
<1>4. \A i \in DOMAIN q2 : i + 1 \in DOMAIN q /\ i + 1 # 1 /\ 1 \in DOMAIN q
  BY <1>1, <1>3
<1>5. \A i \in DOMAIN q2 : q2[i] = q[i + 1] /\ q[i + 1] # Head(q)
  BY <1>1, <1>2, <1>3, <1>4 DEF SendsOf
<1>6. ASSUME NEW i \in DOMAIN q2, NEW j \in DOMAIN q2, q2[i] = q2[j]
      PROVE  i = j
  <2>1. i + 1 = j + 1
    BY <1>4, <1>5, <1>6 DEF SendsOf
  <2> QED BY <1>3, <2>1
<1>7. \A i \in DOMAIN q2 : o2[q2[i]].op = "send" /\ o2[q2[i]].fd = f
  BY <1>1, <1>4, <1>5 DEF SendsOf
<1>8. SendsOf(q2, f, o2)
  BY <1>6, <1>7 DEF SendsOf
<1> QED BY <1>2, <1>8 DEF q2

\* A send that waits on another descriptor ends.
LEMMA SendsElse ==
  ASSUME NEW q \in Seq(Addrs), NEW f, NEW o, NEW o2, SendsOf(q, f, o), NEW h, o[h].fd # f,
         \A b \in Addrs : b # h => o2[b] = o[b]
  PROVE  SendsOf(q, f, o2)
<1>1. \A i \in DOMAIN q : q[i] \in Addrs /\ q[i] # h
  BY DEF SendsOf
<1> QED BY <1>1 DEF SendsOf

\* The rest of a queue that grows.
LEMMA RestAppend ==
  ASSUME NEW q \in Seq(Addrs), NEW p \in BOOLEAN, p => q # <<>>, NEW a \in Addrs
  PROVE  /\ Rest(q, p) \in Seq(Addrs)
         /\ Rest(Append(q, a), p) = Append(Rest(q, p), a)
<1>1. CASE p
  <2>1. Tail(q) \in Seq(Addrs) /\ Tail(Append(q, a)) = Append(Tail(q), a)
    BY <1>1
  <2> QED BY <1>1, <2>1 DEF Rest
<1>2. CASE ~p
  BY <1>2 DEF Rest
<1> QED BY <1>1, <1>2

\* What is in a queue that grows.
LEMMA RestGrows ==
  ASSUME NEW q \in Seq(Addrs), NEW p \in BOOLEAN, p => q # <<>>, NEW a \in Addrs
  PROVE  /\ \E i \in DOMAIN Rest(Append(q, a), p) : Rest(Append(q, a), p)[i] = a
         /\ \A i \in DOMAIN Rest(q, p) : /\ i \in DOMAIN Rest(Append(q, a), p)
                                         /\ Rest(Append(q, a), p)[i] = Rest(q, p)[i]
<1>1. PICK r \in Seq(Addrs) : r = Rest(q, p)
  BY RestAppend
<1>2. Rest(Append(q, a), p) = Append(r, a)
  BY <1>1, RestAppend
<1>3. /\ Len(r) + 1 \in DOMAIN Append(r, a) /\ Append(r, a)[Len(r) + 1] = a
      /\ \A i \in DOMAIN r : i \in DOMAIN Append(r, a) /\ Append(r, a)[i] = r[i]
  BY <1>1
<1>4. \E i \in DOMAIN Append(r, a) : Append(r, a)[i] = a
  BY <1>3, Zenon
<1> QED BY <1>1, <1>2, <1>3, <1>4

-----------------------------------------------------------------------------
(* What coroutines do in the middle of a call. *)

\* TypeOK of the map and the objects.
LEMMA Types ==
  ASSUME TypeOK
  PROVE  /\ MapType(fds) /\ obj \in [Addrs -> Obj] /\ cancelq \in Seq(Addrs) /\ at \in Fds
         /\ stage \in Stages /\ open \subseteq Conns /\ scope \subseteq Fds /\ seen \subseteq Fds
BY DEF TypeOK, MapType, State, Obj, Ops, Stages

(***************************************************************************)
(* The object at a becomes n, and the map follows: a is registered where n *)
(* waits, or a was a stream and is no longer registered.                   *)
(***************************************************************************)
Changes(a, n) ==
  /\ InCall
  /\ UNCHANGED <<call, pfds, at, stage, cancelq, seen>>
  /\ a \in Addrs /\ n \in Obj /\ obj' = [obj EXCEPT ![a] = n]
  /\ obj[a].op \in {"none", "stream"}
  /\ n.op = "accept" => n.fd = Listen /\ \A b \in Addrs : obj[b].op # "accept"
  /\ n.op \in {"stream", "send"} => n.fd \in Conns
  /\ DOMAIN fds' \subseteq Fds
  /\ \A f \in DOMAIN fds' :
       /\ fds'[f] \in State
       /\ \/ fds'[f].read = Null
          \/ fds'[f].read = a /\ n.op \in {"accept", "stream"} /\ n.fd = f
          \/ /\ f \in DOMAIN fds /\ fds'[f].read = fds[f].read /\ fds'[f].gen = fds[f].gen
             /\ ~(obj[a].op = "stream" /\ obj[a].fd = f /\ fds[f].read = a)
       /\ \/ fds'[f].writes = Entry(fds, f).writes
          \/ fds'[f].writes = Append(Entry(fds, f).writes, a) /\ n.op = "send" /\ n.fd = f
  /\ n.op = "send" =>
       n.fd \in DOMAIN fds' /\ fds'[n.fd].writes = Append(Entry(fds, n.fd).writes, a)
  /\ \A f \in DOMAIN fds : f \notin DOMAIN fds' => f # Listen /\ fds[f].writes = <<>>
  /\ n.op = "accept" => Listen \in DOMAIN fds' /\ fds'[Listen].read = a
  /\ Listen \in DOMAIN fds =>
       IF n.op = "accept" THEN fds'[Listen].gen > fds[Listen].gen
       ELSE fds'[Listen].read = fds[Listen].read /\ fds'[Listen].gen = fds[Listen].gen

\* A change keeps the queues in order.
LEMMA ChangesQueues ==
  ASSUME IInv, NEW a, NEW n, Changes(a, n), NEW f \in Fds
  PROVE  /\ Entry(fds, f).writes \in Seq(Addrs) /\ Popping(f) \in BOOLEAN
         /\ Popping(f) => f \in DOMAIN fds /\ Entry(fds, f).writes # <<>>
         /\ WriteTrusted(f) => SendsOf(Rest(Entry(fds, f).writes, Popping(f)), f, obj)
<1>1. MapType(fds)
  BY Types DEF IInv
<1>2. Entry(fds, f) \in State /\ Entry(fds, f).writes \in Seq(Addrs)
  BY <1>1, EntryType DEF State
<1>3. Popping(f) \in BOOLEAN
  BY DEF Popping, InCall
<1>4. CASE f \in DOMAIN fds
  <2>1. Entry(fds, f) = fds[f]
    BY <1>1, <1>4, EntryType
  <2>2. Popping(f) => fds[f].writes # <<>>
    BY DEF Popping, IInv, CallInv
  <2>3. WriteTrusted(f) => SendsOf(Rest(fds[f].writes, Popping(f)), f, obj)
    BY <1>4 DEF IInv, WriteInv
  <2> QED BY <1>2, <1>3, <1>4, <2>1, <2>2, <2>3
<1>5. CASE f \notin DOMAIN fds
  <2>1. Entry(fds, f).writes = <<>>
    BY <1>1, <1>5, EntryType
  <2>2. ~Popping(f)
    BY <1>5 DEF Popping, IInv, CallInv
  <2>3. Rest(<<>>, Popping(f)) = <<>> /\ SendsOf(<<>>, f, obj)
    BY <2>2 DEF Rest, SendsOf
  <2> QED BY <1>2, <1>3, <2>1, <2>2, <2>3
<1> QED BY <1>4, <1>5

\* Types and kinds.
LEMMA ChangesTypes ==
  ASSUME IInv, NEW a, NEW n, Changes(a, n), open' \subseteq Conns, scope' \subseteq Fds
  PROVE  TypeOK' /\ KindInv'
<1>1. obj' \in [Addrs -> Obj]
  BY Types DEF IInv, Changes
<1>2. /\ UNCHANGED <<call, pfds, at, stage, cancelq, seen>>
      /\ DOMAIN fds' \subseteq Fds /\ \A f \in DOMAIN fds' : fds'[f] \in State
  BY DEF Changes
<1>3. TypeOK'
  BY <1>1, <1>2 DEF IInv, TypeOK, State, Obj, Ops, InCall
<1>4. KindInv'
  <2>1. \A b \in Addrs : obj'[b] = IF b = a THEN n ELSE obj[b]
    BY Types DEF IInv, Changes
  <2> QED BY <2>1 DEF IInv, KindInv, Changes
<1> QED BY <1>3, <1>4

\* The call in progress.
LEMMA ChangesCall ==
  ASSUME IInv, NEW a, NEW n, Changes(a, n)
  PROVE  CallInv'
<1>1. InCall /\ UNCHANGED <<call, at, stage, seen>> /\ InCall' /\ InDestructor' = InDestructor
  BY DEF Changes, InCall, InDestructor
<1>2. obj \in [Addrs -> Obj] /\ MapType(fds) /\ at \in Fds
  BY Types DEF IInv
<1>3. \A b \in Addrs : obj'[b] = IF b = a THEN n ELSE obj[b]
  BY <1>2 DEF Changes
<1>4. ASSUME stage = "read", call.op = "accept"
      PROVE  /\ at = Listen /\ Listen \in DOMAIN fds'
             /\ call.mark <= fds'[Listen].gen
             /\ call.mark = fds'[Listen].gen => \A b \in Addrs : obj'[b].op # "accept"
  <2>1. /\ at = Listen /\ Listen \in DOMAIN fds /\ call.mark <= fds[Listen].gen
        /\ call.mark = fds[Listen].gen => \A b \in Addrs : obj[b].op # "accept"
    BY <1>1, <1>4 DEF IInv, CallInv
  <2>2. Listen \in DOMAIN fds'
    BY <2>1 DEF Changes
  <2>3. fds[Listen].gen \in Nat /\ fds'[Listen].gen \in Nat /\ call.mark \in Nat
    <3>1. fds[Listen] \in State /\ fds'[Listen] \in State
      BY <1>2, <2>1, <2>2 DEF MapType, Changes
    <3>2. call.mark \in Nat
      BY <1>1 DEF IInv, TypeOK
    <3>3. \A e \in State : e.gen \in Nat
      BY QueueAssumption DEF State
    <3> QED BY <3>1, <3>2, <3>3
  <2>4. CASE n.op = "accept"
    <3>1. fds'[Listen].gen > fds[Listen].gen
      BY <2>1, <2>4 DEF Changes
    <3> QED BY <2>1, <2>2, <2>3, <3>1
  <2>5. CASE n.op # "accept"
    <3>1. fds'[Listen].gen = fds[Listen].gen
      BY <2>1, <2>5 DEF Changes
    <3> QED BY <1>3, <2>1, <2>2, <2>5, <3>1
  <2> QED BY <2>4, <2>5
<1>5. ASSUME stage = "write"
      PROVE  at \in DOMAIN fds' /\ fds'[at].writes # <<>> /\ Head(fds'[at].writes) = call.addr
  <2>1. at \in DOMAIN fds /\ fds[at].writes # <<>> /\ Head(fds[at].writes) = call.addr
    BY <1>1, <1>5 DEF IInv, CallInv
  <2>2. PICK q \in Seq(Addrs) : q = fds[at].writes /\ q = Entry(fds, at).writes
    BY <1>2, <2>1, EntryType DEF MapType, State
  <2>3. at \in DOMAIN fds' /\ a \in Addrs
    BY <2>1 DEF Changes
  <2>4. fds'[at].writes = q \/ fds'[at].writes = Append(q, a)
    BY <2>2, <2>3 DEF Changes
  <2>5. q # <<>> => Append(q, a) # <<>> /\ Head(Append(q, a)) = Head(q)
    BY <2>2, <2>3
  <2> QED BY <2>1, <2>2, <2>3, <2>4, <2>5
<1>6. stage # "dtorRead"
  BY <1>1 DEF IInv, CallInv
<1> QED BY <1>1, <1>4, <1>5, <1>6 DEF IInv, CallInv

\* The read operations.
LEMMA ChangesRead ==
  ASSUME IInv, NEW a, NEW n, Changes(a, n)
  PROVE  ReadInv'
<1>1. UNCHANGED <<call, at, stage, seen>>
  BY DEF Changes
<1>2. obj \in [Addrs -> Obj] /\ MapType(fds) /\ a \in Addrs
  BY Types DEF IInv, Changes
<1>3. obj'[a] = n /\ \A b : b # a => (b \in Addrs => obj'[b] = obj[b])
  BY <1>2 DEF Changes
<1>4. ASSUME NEW f \in DOMAIN fds', ReadTrusted(f), fds'[f].read # Null
      PROVE  \/ obj'[fds'[f].read].op \in {"accept", "stream"} /\ obj'[fds'[f].read].fd = f
             \/ stage = "read" /\ InCall /\ at = f /\ call.op = "accept"
                  /\ call.mark = fds'[f].gen
  <2>1. CASE fds'[f].read = a /\ n.op \in {"accept", "stream"} /\ n.fd = f
    BY <1>3, <2>1
  <2>2. CASE /\ f \in DOMAIN fds /\ fds'[f].read = fds[f].read /\ fds'[f].gen = fds[f].gen
             /\ ~(obj[a].op = "stream" /\ obj[a].fd = f /\ fds[f].read = a)
    <3>1. Waits(fds[f].read, f, {"accept", "stream"}) \/ Finished(f)
      BY <1>4, <2>2 DEF IInv, ReadInv
    <3>2. fds[f].read \in Addrs
      BY <1>2, <1>4, <2>2 DEF MapType, State
    <3>3. CASE Waits(fds[f].read, f, {"accept", "stream"})
      <4>1. obj[fds[f].read].op \in {"accept", "stream"} /\ obj[fds[f].read].fd = f
        BY <3>3 DEF Waits
      <4>2. fds[f].read # a
        BY <2>2, <4>1 DEF Changes
      <4> QED BY <1>3, <2>2, <3>2, <4>1, <4>2
    <3>4. CASE Finished(f)
      BY <2>2, <3>4 DEF Finished
    <3> QED BY <3>1, <3>3, <3>4
  <2> QED BY <1>4, <2>1, <2>2 DEF Changes
<1> QED BY <1>1, <1>4 DEF ReadInv, ReadTrusted, Waits, Finished, InCall

\* The queues of sends.
LEMMA ChangesWrite ==
  ASSUME IInv, NEW a, NEW n, Changes(a, n)
  PROVE  WriteInv'
<1>1. UNCHANGED <<call, at, stage, seen>> /\ a \in Addrs /\ obj[a].op # "send"
  BY DEF Changes
<1>2. obj \in [Addrs -> Obj]
  BY Types DEF IInv
<1>3. obj'[a] = n /\ \A b \in Addrs : b # a => obj'[b] = obj[b]
  BY <1>2 DEF Changes
<1>4. ASSUME NEW f \in DOMAIN fds', WriteTrusted(f)
      PROVE  SendsOf(Rest(fds'[f].writes, Popping(f)), f, obj')
  <2>1. f \in Fds
    BY DEF Changes
  <2>2. PICK q \in Seq(Addrs), p \in BOOLEAN :
          /\ q = Entry(fds, f).writes /\ p = Popping(f) /\ (p => q # <<>>)
          /\ SendsOf(Rest(q, p), f, obj)
    BY <1>4, <2>1, ChangesQueues
  <2>3. PICK o2 : o2 = obj'
    OBVIOUS
  <2>4. PICK r \in Seq(Addrs) : r = Rest(q, p) /\ Rest(Append(q, a), p) = Append(r, a)
    BY <1>1, <2>2, RestAppend
  <2>5. CASE fds'[f].writes = q
    <3>1. SendsOf(r, f, o2)
      BY <1>1, <1>3, <2>2, <2>3, <2>4, SendsKeep
    <3> QED BY <2>2, <2>3, <2>4, <2>5, <3>1
  <2>6. CASE fds'[f].writes = Append(q, a) /\ n.op = "send" /\ n.fd = f
    <3>1. SendsOf(Append(r, a), f, o2)
      BY <1>1, <1>3, <2>2, <2>3, <2>4, <2>6, SendsPush, SMTT(30)
    <3> QED BY <2>2, <2>3, <2>4, <2>6, <3>1
  <2> QED BY <2>2, <2>5, <2>6 DEF Changes
<1>5. ASSUME NEW f \in DOMAIN fds', WriteTrusted(f)'
      PROVE  SendsOf(Rest(fds[f].writes, Popping(f)), f, obj)'
  <2>1. WriteTrusted(f) /\ Popping(f)' = Popping(f)
    BY <1>1, <1>5 DEF WriteTrusted, Popping, InCall
  <2>2. SendsOf(Rest(fds'[f].writes, Popping(f)), f, obj')
    BY <1>4, <2>1
  <2> QED BY <2>1, <2>2 DEF SendsOf, Rest
<1> QED BY <1>5 DEF WriteInv

\* cancel_fd()'s copy.
LEMMA ChangesCancel ==
  ASSUME IInv, NEW a, NEW n, Changes(a, n)
  PROVE  CancelInv'
<1>1. InCall /\ UNCHANGED <<call, at, stage, cancelq, seen>> /\ a \in Addrs
  BY DEF Changes
<1>2. /\ obj \in [Addrs -> Obj] /\ cancelq \in Seq(Addrs) /\ MapType(fds)
      /\ \A i \in DOMAIN cancelq : cancelq[i] \in Addrs
  BY Types DEF IInv
<1>3. \A b \in Addrs : b # a => obj'[b] = obj[b]
  BY <1>2 DEF Changes
<1>4. \A i \in DOMAIN cancelq : obj[cancelq[i]].op = "send" /\ obj[cancelq[i]].fd = at
  BY <1>1 DEF IInv, CancelInv, Waits
<1>5. \A i \in DOMAIN cancelq : cancelq[i] # a /\ cancelq[i] # Null
  BY <1>2, <1>4, NullNotAddr DEF Changes
<1>6. ASSUME stage = "cancel", NEW i \in DOMAIN cancelq, NEW f \in DOMAIN fds'
      PROVE  /\ fds'[f].read # cancelq[i]
             /\ \A j \in DOMAIN fds'[f].writes : fds'[f].writes[j] # cancelq[i]
  <2>1. \A g \in DOMAIN fds : /\ fds[g].read # cancelq[i]
                              /\ \A j \in DOMAIN fds[g].writes : fds[g].writes[j] # cancelq[i]
    BY <1>6 DEF IInv, CancelInv
  <2>2. fds'[f].read # cancelq[i]
    <3>1. \/ fds'[f].read = Null \/ fds'[f].read = a
          \/ f \in DOMAIN fds /\ fds'[f].read = fds[f].read
      BY DEF Changes
    <3> QED BY <1>5, <2>1, <3>1
  <2>3. PICK q \in Seq(Addrs) : q = Entry(fds, f).writes
    BY <1>2, EntryType DEF State
  <2>4. \A j \in DOMAIN q : q[j] # cancelq[i]
    BY <1>2, <2>1, <2>3, EntryType
  <2>5. fds'[f].writes = q \/ fds'[f].writes = Append(q, a)
    BY <2>3 DEF Changes
  <2>6. \A j \in DOMAIN Append(q, a) : Append(q, a)[j] = a \/ (j \in DOMAIN q /\ Append(q, a)[j] = q[j])
    BY <1>1, <2>3
  <2> QED BY <1>5, <2>2, <2>4, <2>5, <2>6
<1>7. \A i \in DOMAIN cancelq : obj'[cancelq[i]] = obj[cancelq[i]]
  BY <1>2, <1>3, <1>5
<1>8. stage \notin {"cancel", "dtorWrite"} => cancelq = <<>>
  BY DEF IInv, CancelInv
<1>9. \A i, j \in DOMAIN cancelq : cancelq[i] = cancelq[j] => i = j
  BY DEF IInv, CancelInv
<1>10. \A i \in DOMAIN cancelq : obj'[cancelq[i]].op = "send" /\ obj'[cancelq[i]].fd = at
  BY <1>4, <1>7
<1> QED BY <1>1, <1>6, <1>8, <1>9, <1>10 DEF CancelInv, Waits, Ops, InCall, InDestructor

\* Nothing is orphaned.
LEMMA ChangesOrphan ==
  ASSUME IInv, NEW a, NEW n, Changes(a, n)
  PROVE  OrphanInv'
<1>1. UNCHANGED <<call, at, stage, cancelq>> /\ a \in Addrs
  BY DEF Changes
<1>2. obj \in [Addrs -> Obj] /\ MapType(fds)
  BY Types DEF IInv
<1>3. obj'[a] = n /\ \A b \in Addrs : b # a => obj'[b] = obj[b]
  BY <1>1, <1>2 DEF Changes
<1>4. ASSUME ~InDestructor, NEW b \in Addrs, obj'[b].op = "accept"
      PROVE  \/ Listen \in DOMAIN fds' /\ fds'[Listen].read = b
             \/ \E i \in DOMAIN cancelq : cancelq[i] = b
  <2>1. CASE n.op = "accept"
    <3>1. b = a
      BY <1>3, <1>4, <2>1 DEF Changes
    <3> QED BY <2>1, <3>1 DEF Changes
  <2>2. CASE n.op # "accept"
    <3>1. obj[b].op = "accept"
      BY <1>3, <1>4, <2>2
    <3>2. \/ Listen \in DOMAIN fds /\ fds[Listen].read = b
          \/ \E i \in DOMAIN cancelq : cancelq[i] = b
      BY <1>4, <3>1 DEF IInv, OrphanInv
    <3>3. Listen \in DOMAIN fds => Listen \in DOMAIN fds' /\ fds'[Listen].read = fds[Listen].read
      BY <2>2 DEF Changes
    <3> QED BY <3>2, <3>3
  <2> QED BY <2>1, <2>2
<1>5. ASSUME ~InDestructor, NEW b \in Addrs, obj'[b].op = "send", NEW f, f = obj'[b].fd
      PROVE  \/ /\ f \in DOMAIN fds'
                /\ \E i \in DOMAIN Rest(fds'[f].writes, Popping(f)) :
                     Rest(fds'[f].writes, Popping(f))[i] = b
             \/ \E i \in DOMAIN cancelq : cancelq[i] = b
  <2>1. f \in Fds
    <3>1. obj'[b] \in Obj
      BY <1>2, <1>3 DEF Changes
    <3> QED BY <1>5, <3>1 DEF Obj
  <2>2. PICK q \in Seq(Addrs), p \in BOOLEAN :
          /\ q = Entry(fds, f).writes /\ p = Popping(f) /\ (p => q # <<>>)
          /\ f \notin DOMAIN fds => q = <<>>
    BY <1>2, <2>1, ChangesQueues, EntryType
  <2>3. CASE b = a
    <3>1. f \in DOMAIN fds' /\ fds'[f].writes = Append(q, a)
      BY <1>3, <1>5, <2>2, <2>3 DEF Changes
    <3>2. \E i \in DOMAIN Rest(Append(q, a), p) : Rest(Append(q, a), p)[i] = b
      <4>1. \E i \in DOMAIN Rest(Append(q, a), p) : Rest(Append(q, a), p)[i] = a
        BY <1>1, <2>2, RestGrows
      <4> QED BY <2>3, <4>1
    <3> QED BY <2>2, <3>1, <3>2
  <2>4. CASE b # a /\ ~ \E i \in DOMAIN cancelq : cancelq[i] = b
    <3>1. obj[b].op = "send" /\ obj[b].fd = f
      BY <1>3, <1>5, <2>4
    <3>2. f \in DOMAIN fds /\ \E i \in DOMAIN Rest(fds[f].writes, Popping(f)) :
                                Rest(fds[f].writes, Popping(f))[i] = b
      BY <1>5, <2>4, <3>1 DEF IInv, OrphanInv
    <3>3. fds[f].writes = q
      BY <1>2, <2>2, <3>2, EntryType
    <3>4. \E i \in DOMAIN Rest(q, p) : Rest(q, p)[i] = b
      BY <2>2, <3>2, <3>3
    <3>5. q # <<>>
      <4>1. Rest(<<>>, FALSE) = <<>> /\ DOMAIN <<>> = {}
        BY DEF Rest
      <4> QED BY <2>2, <3>4, <4>1
    <3>6. f \in DOMAIN fds'
      BY <3>2, <3>3, <3>5 DEF Changes
    <3>7. fds'[f].writes = q \/ fds'[f].writes = Append(q, a)
      BY <2>2, <3>6 DEF Changes
    <3>8. \E i \in DOMAIN Rest(Append(q, a), p) : Rest(Append(q, a), p)[i] = b
      <4>1. \A i \in DOMAIN Rest(q, p) : /\ i \in DOMAIN Rest(Append(q, a), p)
                                          /\ Rest(Append(q, a), p)[i] = Rest(q, p)[i]
        BY <1>1, <2>2, RestGrows
      <4> QED BY <3>4, <4>1
    <3> QED BY <2>2, <3>4, <3>6, <3>7, <3>8
  <2> QED BY <2>3, <2>4
<1>6. Popping(Listen)' = Popping(Listen) /\ \A f : Popping(f)' = Popping(f)
  BY <1>1 DEF Popping, InCall
<1>7. InDestructor' = InDestructor
  BY <1>1 DEF InDestructor
<1> QED BY <1>1, <1>4, <1>5, <1>6, <1>7 DEF OrphanInv, Rest

\* A change keeps the invariant.
LEMMA ChangesKeep ==
  ASSUME IInv, NEW a, NEW n, Changes(a, n), open' \subseteq Conns, scope' \subseteq Fds
  PROVE  IInv'
BY ChangesTypes, ChangesCall, ChangesRead, ChangesWrite, ChangesCancel, ChangesOrphan DEF IInv

\* The accept loop registers its next accept.
LEMMA ArmAcceptInv ==
  ASSUME IInv, ArmAccept PROVE IInv'
<1>1. PICK a \in Addrs :
        /\ obj[a].op = "none"
        /\ obj' = [obj EXCEPT ![a] = [op |-> "accept", fd |-> Listen]]
        /\ fds' = SetReadOp(fds, Listen, a)
  BY DEF ArmAccept
<1>2. /\ InCall /\ UNCHANGED <<open, call, scope, pfds, at, stage, cancelq, seen>>
      /\ Entry(fds, Listen).gen < MaxGen /\ Alive("accept", Listen) = {}
  BY DEF ArmAccept, loopVars
<1>3. /\ MapType(fds) /\ obj \in [Addrs -> Obj] /\ Listen \in Fds
      /\ open \subseteq Conns /\ scope \subseteq Fds
  BY Types DEF IInv, Fds
<1>4. /\ DOMAIN fds' = DOMAIN fds \cup {Listen}
      /\ \A g \in DOMAIN fds : g # Listen => fds'[g] = fds[g]
      /\ fds'[Listen] \in State /\ fds'[Listen].read = a
      /\ fds'[Listen].gen = Entry(fds, Listen).gen + 1
      /\ fds'[Listen].writes = Entry(fds, Listen).writes
  <2>1. /\ DOMAIN SetReadOp(fds, Listen, a) = DOMAIN fds \cup {Listen}
        /\ \A g \in DOMAIN fds : g # Listen => SetReadOp(fds, Listen, a)[g] = fds[g]
        /\ SetReadOp(fds, Listen, a)[Listen] \in State /\ SetReadOp(fds, Listen, a)[Listen].read = a
        /\ SetReadOp(fds, Listen, a)[Listen].gen = Entry(fds, Listen).gen + 1
        /\ SetReadOp(fds, Listen, a)[Listen].writes = Entry(fds, Listen).writes
    <3>1. Entry(fds, Listen).gen < MaxGen /\ MapType(fds) /\ Listen \in Fds
      BY <1>2, <1>3
    <3> QED BY <3>1, SetRead
  <2> QED BY <1>1, <2>1
<1> DEFINE n == [op |-> "accept", fd |-> Listen]
<1>5. n \in Obj /\ n.op = "accept" /\ n.fd = Listen
  BY <1>3 DEF Obj, Ops
<1>6. \A b \in Addrs : obj[b].op # "accept"
  <2>1. ASSUME NEW b \in Addrs, obj[b].op = "accept" PROVE FALSE
    <3>1. obj[b] \in Obj /\ obj[b].fd = Listen
      BY <1>3, <2>1 DEF IInv, KindInv
    <3>2. obj[b] = [op |-> "accept", fd |-> Listen]
      BY <2>1, <3>1 DEF Obj
    <3> QED BY <1>2, <3>2 DEF Alive
  <2> QED BY <2>1
<1> HIDE DEF n
<1>7. \A f \in DOMAIN fds' :
        /\ fds'[f] \in State
        /\ \/ fds'[f].read = a /\ f = Listen
           \/ f \in DOMAIN fds /\ fds'[f].read = fds[f].read /\ fds'[f].gen = fds[f].gen
        /\ fds'[f].writes = Entry(fds, f).writes
  BY <1>3, <1>4, EntryType DEF MapType
<1>8. Listen \in DOMAIN fds => fds'[Listen].gen > fds[Listen].gen
  <2>1. Listen \in DOMAIN fds => Entry(fds, Listen) = fds[Listen]
    BY <1>3, EntryType
  <2>2. Entry(fds, Listen).gen \in Nat
    BY <1>3, EntryType, QueueAssumption DEF State
  <2> QED BY <1>4, <2>1, <2>2
<1>9. DOMAIN fds' \subseteq Fds /\ DOMAIN fds \subseteq DOMAIN fds' /\ Listen \in DOMAIN fds'
  BY <1>3, <1>4 DEF MapType
<1>10. obj' = [obj EXCEPT ![a] = n]
  BY <1>1 DEF n
<1>11. Changes(a, n)
  BY <1>1, <1>2, <1>4, <1>5, <1>6, <1>7, <1>8, <1>9, <1>10 DEF Changes
<1> QED BY <1>2, <1>3, <1>11, ChangesKeep

\* A connection is accepted and its stream opened.
LEMMA OpenConnInv ==
  ASSUME IInv, NEW f \in Conns, OpenConn(f) PROVE IInv'
<1>1. PICK a \in Addrs :
        /\ obj[a].op = "none"
        /\ obj' = [obj EXCEPT ![a] = [op |-> "stream", fd |-> f]]
        /\ fds' = SetReadOp(fds, f, a)
  BY DEF OpenConn
<1>2. /\ InCall /\ UNCHANGED <<call, pfds, at, stage, cancelq, seen>>
      /\ Entry(fds, f).gen < MaxGen
      /\ open' = open \cup {f} /\ scope' = scope \cup {f}
  BY DEF OpenConn, loopVars
<1>3. /\ MapType(fds) /\ obj \in [Addrs -> Obj] /\ f \in Fds
      /\ open' \subseteq Conns /\ scope' \subseteq Fds /\ f # Listen
  BY <1>2, Types, QueueAssumption DEF IInv, Fds
<1>4. /\ DOMAIN fds' = DOMAIN fds \cup {f}
      /\ \A g \in DOMAIN fds : g # f => fds'[g] = fds[g]
      /\ fds'[f] \in State /\ fds'[f].read = a /\ fds'[f].writes = Entry(fds, f).writes
  <2>1. /\ DOMAIN SetReadOp(fds, f, a) = DOMAIN fds \cup {f}
        /\ \A g \in DOMAIN fds : g # f => SetReadOp(fds, f, a)[g] = fds[g]
        /\ SetReadOp(fds, f, a)[f] \in State /\ SetReadOp(fds, f, a)[f].read = a /\ SetReadOp(fds, f, a)[f].writes = Entry(fds, f).writes
    BY <1>2, <1>3, SetRead
  <2> QED BY <1>1, <2>1
<1> DEFINE n == [op |-> "stream", fd |-> f]
<1>5. n \in Obj /\ n.op = "stream" /\ n.fd = f
  BY <1>3 DEF Obj, Ops
<1> HIDE DEF n
<1>6. \A g \in DOMAIN fds' :
        /\ fds'[g] \in State
        /\ \/ fds'[g].read = a /\ g = f
           \/ g \in DOMAIN fds /\ fds'[g].read = fds[g].read /\ fds'[g].gen = fds[g].gen
        /\ fds'[g].writes = Entry(fds, g).writes
  BY <1>3, <1>4, EntryType DEF MapType
<1>7. DOMAIN fds' \subseteq Fds /\ DOMAIN fds \subseteq DOMAIN fds'
  BY <1>3, <1>4 DEF MapType
<1>8. Listen \in DOMAIN fds => fds'[Listen] = fds[Listen]
  BY <1>3, <1>4
<1>9. obj' = [obj EXCEPT ![a] = n]
  BY <1>1 DEF n
<1>10. Changes(a, n)
  BY <1>1, <1>2, <1>5, <1>6, <1>7, <1>8, <1>9 DEF Changes
<1> QED BY <1>3, <1>10, ChangesKeep

\* A send waits.
LEMMA StartSendInv ==
  ASSUME IInv, NEW f \in Conns, StartSend(f) PROVE IInv'
<1>1. PICK a \in Addrs :
        /\ obj[a].op = "none"
        /\ obj' = [obj EXCEPT ![a] = [op |-> "send", fd |-> f]]
        /\ fds' = PushWriteOp(fds, f, a)
  BY DEF StartSend
<1>2. InCall /\ UNCHANGED <<open, call, scope, pfds, at, stage, cancelq, seen>>
  BY DEF StartSend, loopVars
<1>3. /\ MapType(fds) /\ obj \in [Addrs -> Obj] /\ f \in Fds
      /\ open' \subseteq Conns /\ scope' \subseteq Fds /\ f # Listen
  BY <1>2, Types, QueueAssumption DEF IInv, Fds
<1>4. /\ DOMAIN fds' = DOMAIN fds \cup {f}
      /\ \A g \in DOMAIN fds : g # f => fds'[g] = fds[g]
      /\ fds'[f] \in State /\ fds'[f].read = Entry(fds, f).read
      /\ fds'[f].gen = Entry(fds, f).gen
      /\ fds'[f].writes = Append(Entry(fds, f).writes, a)
  <2>1. /\ DOMAIN PushWriteOp(fds, f, a) = DOMAIN fds \cup {f}
        /\ \A g \in DOMAIN fds : g # f => PushWriteOp(fds, f, a)[g] = fds[g]
        /\ PushWriteOp(fds, f, a)[f] \in State /\ PushWriteOp(fds, f, a)[f].read = Entry(fds, f).read
        /\ PushWriteOp(fds, f, a)[f].gen = Entry(fds, f).gen
        /\ PushWriteOp(fds, f, a)[f].writes = Append(Entry(fds, f).writes, a)
    BY <1>3, PushWrite
  <2> QED BY <1>1, <2>1
<1> DEFINE n == [op |-> "send", fd |-> f]
<1>5. n \in Obj /\ n.op = "send" /\ n.fd = f
  BY <1>3 DEF Obj, Ops
<1> HIDE DEF n
<1>6. \A g \in DOMAIN fds' :
        /\ fds'[g] \in State
        /\ \/ fds'[g].read = Null
           \/ g \in DOMAIN fds /\ fds'[g].read = fds[g].read /\ fds'[g].gen = fds[g].gen
        /\ \/ fds'[g].writes = Entry(fds, g).writes
           \/ fds'[g].writes = Append(Entry(fds, g).writes, a) /\ g = f
  BY <1>3, <1>4, EntryType DEF MapType
<1>7. DOMAIN fds' \subseteq Fds /\ DOMAIN fds \subseteq DOMAIN fds' /\ f \in DOMAIN fds'
  BY <1>3, <1>4 DEF MapType
<1>8. Listen \in DOMAIN fds => fds'[Listen] = fds[Listen]
  BY <1>3, <1>4
<1>9. obj' = [obj EXCEPT ![a] = n]
  BY <1>1 DEF n
<1>10. Changes(a, n)
  BY <1>1, <1>2, <1>4, <1>5, <1>6, <1>7, <1>8, <1>9 DEF Changes
<1> QED BY <1>3, <1>10, ChangesKeep

\* A stream is destroyed.
LEMMA CloseStreamInv ==
  ASSUME IInv, NEW f \in Conns, CloseStream(f) PROVE IInv'
<1>1. PICK a \in Addrs :
        /\ obj[a] = [op |-> "stream", fd |-> f]
        /\ obj' = [obj EXCEPT ![a] = Free]
        /\ fds' = ClearReadOp(fds, f, a)
  BY DEF CloseStream, Alive
<1>2. InCall /\ UNCHANGED <<open, call, scope, pfds, at, stage, cancelq, seen>>
  BY DEF CloseStream, loopVars
<1>3. /\ MapType(fds) /\ obj \in [Addrs -> Obj] /\ f \in Fds
      /\ open' \subseteq Conns /\ scope' \subseteq Fds /\ f # Listen
  BY <1>2, Types, QueueAssumption DEF IInv, Fds
<1>4. /\ DOMAIN fds' \subseteq DOMAIN fds
      /\ \A g \in DOMAIN fds' : g # f => fds'[g] = fds[g]
      /\ f \in DOMAIN fds' => /\ fds'[f] \in State /\ fds'[f].gen = fds[f].gen
                              /\ fds'[f].writes = fds[f].writes
                              /\ fds'[f].read # a /\ fds'[f].read \in {fds[f].read, Null}
      /\ \A g \in DOMAIN fds : g \notin DOMAIN fds' => g = f /\ fds[g].writes = <<>>
  BY <1>1, <1>3, ClearRead
<1>5. Free \in Obj /\ Free.op = "none" /\ obj[a].op = "stream" /\ obj[a].fd = f
  BY <1>1 DEF Obj, Ops, Free, Fds
<1>6. \A g \in DOMAIN fds' :
        /\ fds'[g] \in State
        /\ \/ fds'[g].read = Null
           \/ /\ g \in DOMAIN fds /\ fds'[g].read = fds[g].read /\ fds'[g].gen = fds[g].gen
              /\ g # f \/ fds[g].read # a
        /\ fds'[g].writes = Entry(fds, g).writes
  BY <1>3, <1>4, EntryType DEF MapType
<1>7. DOMAIN fds' \subseteq Fds
  BY <1>3, <1>4 DEF MapType
<1>8. Listen \in DOMAIN fds => Listen \in DOMAIN fds' /\ fds'[Listen] = fds[Listen]
  BY <1>3, <1>4
<1>9. \A g \in DOMAIN fds : g \notin DOMAIN fds' => g # Listen /\ fds[g].writes = <<>>
  BY <1>3, <1>4
<1>10. Changes(a, Free)
  BY <1>1, <1>2, <1>5, <1>6, <1>7, <1>8, <1>9 DEF Changes
<1> QED BY <1>3, <1>10, ChangesKeep

\* The map and the objects stay as they are.
LEMMA SameWrite ==
  ASSUME WriteInv, fds' = fds, obj' = obj,
         \A f \in DOMAIN fds : (WriteTrusted(f)' => WriteTrusted(f)) /\ Popping(f)' = Popping(f)
  PROVE  WriteInv'
<1>1. ASSUME NEW f \in DOMAIN fds', WriteTrusted(f)'
      PROVE  SendsOf(Rest(fds[f].writes, Popping(f)), f, obj)'
  <2>1. f \in DOMAIN fds /\ Popping(f)' = Popping(f) /\ fds'[f] = fds[f]
    BY <1>1
  <2>2. SendsOf(Rest(fds[f].writes, Popping(f)), f, obj)
    BY <1>1, <2>1 DEF WriteInv
  <2>3. SendsOf(Rest(fds'[f].writes, Popping(f)), f, obj')
    BY <2>1, <2>2
  <2> QED BY <2>1, <2>3 DEF SendsOf, Rest
<1> QED BY <1>1 DEF WriteInv

\* A descriptor is closed: the queue does not notice.
LEMMA CloseFdInv ==
  ASSUME IInv, NEW f \in Conns, CloseFd(f) PROVE IInv'
<1>1. UNCHANGED <<fds, obj, call, scope, pfds, at, stage, cancelq, seen>> /\ open' = open \ {f}
  BY DEF CloseFd, loopVars
<1>2. TypeOK'
  BY <1>1 DEF IInv, TypeOK, InCall
<1>3. KindInv' /\ CallInv'
  BY <1>1 DEF IInv, KindInv, CallInv, InCall, InDestructor
<1>4. ReadInv'
  BY <1>1 DEF IInv, ReadInv, ReadTrusted, Waits, Finished, InCall
<1>5. WriteInv'
  <2>1. \A g \in DOMAIN fds : (WriteTrusted(g)' => WriteTrusted(g)) /\ Popping(g)' = Popping(g)
    BY <1>1 DEF WriteTrusted, Popping, InCall
  <2> QED BY <1>1, <2>1, SameWrite DEF IInv
<1>6. CancelInv'
  BY <1>1 DEF IInv, CancelInv, Waits, InCall, InDestructor
<1>7. OrphanInv'
  BY <1>1 DEF IInv, OrphanInv, Popping, InCall, InDestructor, Rest
<1> QED BY <1>2, <1>3, <1>4, <1>5, <1>6, <1>7 DEF IInv

-----------------------------------------------------------------------------
(* step(). *)

LoopStages == {"idle", "next", "read", "write", "erase", "cancel"}

\* step() or cancel_fd() goes on without a call and without touching the map.
LEMMA LoopStep ==
  ASSUME IInv, UNCHANGED <<fds, obj, open, call, scope, cancelq, seen>>, ~InCall,
         cancelq = <<>>, stage \in LoopStages, stage' \in LoopStages, at' \in Fds,
         DOMAIN pfds' \subseteq Fds, \A f \in DOMAIN pfds' : pfds'[f] \subseteq {"in", "out"}
  PROVE  IInv'
<1>1. ~InCall' /\ ~InDestructor /\ ~InDestructor'
  BY DEF InCall, InDestructor, LoopStages
<1>2. TypeOK' /\ KindInv'
  BY <1>1 DEF IInv, TypeOK, KindInv, LoopStages
<1>3. CallInv'
  BY <1>1 DEF IInv, CallInv, LoopStages
<1>4. seen = {}
  BY <1>1 DEF IInv, CallInv
<1>5. ReadInv'
  BY <1>1, <1>4 DEF IInv, ReadInv, ReadTrusted, Waits, Finished
<1>6. WriteInv'
  <2>1. \A g \in DOMAIN fds : (WriteTrusted(g)' => WriteTrusted(g)) /\ Popping(g)' = Popping(g)
    BY <1>1, <1>4 DEF WriteTrusted, Popping
  <2> QED BY <2>1, SameWrite DEF IInv
<1>7. CancelInv'
  BY DEF CancelInv
<1>8. OrphanInv'
  <2>1. \A g : Popping(g)' = FALSE /\ Popping(g) = FALSE
    BY <1>1 DEF Popping
  <2> QED BY <1>1, <2>1 DEF IInv, OrphanInv, Rest
<1> QED BY <1>2, <1>3, <1>5, <1>6, <1>7, <1>8 DEF IInv

\* poll() returns.
LEMMA PollInv ==
  ASSUME IInv, Poll PROVE IInv'
<1>1. /\ UNCHANGED <<fds, obj, open, at, call, scope, cancelq, seen>>
      /\ stage = "idle" /\ stage' = "next"
  BY DEF Poll
<1>2. ~InCall /\ cancelq = <<>> /\ at' \in Fds /\ DOMAIN fds \subseteq Fds
  BY <1>1 DEF IInv, CallInv, CancelInv, TypeOK
<1>3. PICK ready \in SUBSET DOMAIN fds : pfds' \in [ready -> SUBSET {"in", "out"}]
  BY DEF Poll
<1>4. DOMAIN pfds' \subseteq Fds /\ \A f \in DOMAIN pfds' : pfds'[f] \subseteq {"in", "out"}
  BY <1>2, <1>3
<1> QED BY <1>1, <1>2, <1>4, LoopStep DEF LoopStages

\* The steps that neither call nor touch the map.
LEMMA QuietStepInv ==
  ASSUME IInv, \/ NextFd \/ ReadSkip \/ WriteSkip
               \/ (ReadHalf /\ stage' = "write") \/ (WriteHalf /\ stage' = "erase")
  PROVE  IInv'
<1>1. /\ UNCHANGED <<fds, obj, open, call, scope, cancelq, seen, pfds>>
      /\ stage \in {"next", "read", "write"} /\ stage' \in LoopStages
      /\ at' = at \/ at' \in DOMAIN pfds
      /\ stage = "next" \/ ~InCall
  BY DEF NextFd, ReadSkip, WriteSkip, ReadHalf, WriteHalf, LoopStages
<1>2. ~InCall
  BY <1>1 DEF IInv, CallInv
<1>3. cancelq = <<>>
  BY <1>1 DEF IInv, CancelInv
<1>4. at' \in Fds /\ DOMAIN pfds' \subseteq Fds /\ \A f \in DOMAIN pfds' : pfds'[f] \subseteq {"in", "out"}
  BY <1>1 DEF IInv, TypeOK
<1> QED BY <1>1, <1>2, <1>3, <1>4, LoopStep DEF LoopStages

\* An operation is resumed: the object of a one-shot operation ends.
LEMMA Resumes ==
  ASSUME IInv, NEW a \in Addrs, obj[a].op \in Ops, NEW mark \in Nat, Resume(a, mark)
  PROVE  /\ call' = [addr |-> a, mark |-> mark, op |-> obj[a].op] /\ InCall'
         /\ call' \in [addr : Addrs, mark : Nat, op : {"accept", "stream", "send"}]
         /\ call'.addr = a /\ call'.mark = mark /\ call'.op = obj[a].op
         /\ scope' \subseteq Fds /\ obj' \in [Addrs -> Obj] /\ KindInv'
         /\ \A b \in Addrs : b # a => obj'[b] = obj[b]
         /\ IF obj[a].op = "stream" THEN obj' = obj ELSE obj'[a].op = "none"
<1>1. obj \in [Addrs -> Obj] /\ obj[a] \in Obj
  BY Types DEF IInv
<1>2. Free \in Obj /\ Free.op = "none"
  BY DEF Obj, Ops, Free, Fds
<1>3. call' = [addr |-> a, mark |-> mark, op |-> obj[a].op]
  BY DEF Resume
<1>4. /\ call' \in [addr : Addrs, mark : Nat, op : {"accept", "stream", "send"}]
      /\ call'.addr = a /\ call'.mark = mark /\ call'.op = obj[a].op
  BY <1>3 DEF Ops
<1>5. InCall'
  <2>1. NoCall.addr = Null /\ a # Null
    BY NullNotAddr DEF NoCall
  <2> QED BY <1>4, <2>1 DEF InCall
<1>6. scope' \subseteq Fds
  BY <1>1 DEF Resume, Obj
<1>7. /\ obj' \in [Addrs -> Obj]
      /\ \A b \in Addrs : b # a => obj'[b] = obj[b]
      /\ IF obj[a].op = "stream" THEN obj' = obj ELSE obj'[a].op = "none"
  BY <1>1, <1>2 DEF Resume
<1>8. KindInv'
  BY <1>7 DEF IInv, KindInv
<1> QED BY <1>3, <1>4, <1>5, <1>6, <1>7, <1>8

\* Operations end that are in no queue of the map, and calls return.
LEMMA OtherEnds ==
  ASSUME IInv,
         \A f \in DOMAIN fds' :
           /\ f \in DOMAIN fds /\ (WriteTrusted(f)' => WriteTrusted(f)) /\ Popping(f)' = FALSE
           /\ fds'[f].writes = Rest(fds[f].writes, Popping(f))
           /\ WriteTrusted(f)' =>
                \A j \in DOMAIN fds'[f].writes :
                  obj[fds'[f].writes[j]].op = "send" =>
                    obj'[fds'[f].writes[j]] = obj[fds'[f].writes[j]]
  PROVE  WriteInv'
<1>1. ASSUME NEW f \in DOMAIN fds', WriteTrusted(f)'
      PROVE  SendsOf(Rest(fds[f].writes, Popping(f)), f, obj)'
  <2>1. f \in DOMAIN fds /\ WriteTrusted(f) /\ Popping(f)' = FALSE
    BY <1>1
  <2>2. PICK q : q = fds'[f].writes
    OBVIOUS
  <2>3. SendsOf(q, f, obj)
    BY <2>1, <2>2 DEF IInv, WriteInv
  <2>4. \A j \in DOMAIN q : obj'[q[j]] = obj[q[j]]
    BY <1>1, <2>1, <2>2, <2>3 DEF SendsOf
  <2>5. SendsOf(q, f, obj')
    BY <2>3, <2>4 DEF SendsOf
  <2> QED BY <2>1, <2>2, <2>5 DEF SendsOf, Rest
<1> QED BY <1>1 DEF WriteInv

\* Operations end, calls return, and the map drops only what is empty.
LEMMA SameOrphan ==
  ASSUME OrphanInv, cancelq' = cancelq, ~InDestructor,
         \A f : Popping(f)' = FALSE,
         \A b \in Addrs : obj'[b].op \in {"accept", "send"} => obj'[b] = obj[b],
         \A b \in Addrs : obj'[b].op = "accept" /\ Listen \in DOMAIN fds /\ fds[Listen].read = b
                            => Listen \in DOMAIN fds' /\ fds'[Listen].read = b,
         \A f \in DOMAIN fds : Rest(fds[f].writes, Popping(f)) # <<>> =>
                                 /\ f \in DOMAIN fds'
                                 /\ fds'[f].writes = Rest(fds[f].writes, Popping(f))
  PROVE  OrphanInv'
<1>1. ASSUME NEW b \in Addrs, obj'[b].op = "accept"
      PROVE  \/ Listen \in DOMAIN fds' /\ fds'[Listen].read = b
             \/ \E i \in DOMAIN cancelq : cancelq[i] = b
  <2>1. obj[b].op = "accept"
    BY <1>1
  <2> QED BY <1>1, <2>1 DEF OrphanInv
<1>2. ASSUME NEW b \in Addrs, obj'[b].op = "send"
      PROVE  \/ /\ obj'[b].fd \in DOMAIN fds'
                /\ \E i \in DOMAIN fds'[obj'[b].fd].writes : fds'[obj'[b].fd].writes[i] = b
             \/ \E i \in DOMAIN cancelq : cancelq[i] = b
  <2>1. obj'[b] = obj[b] /\ obj[b].op = "send"
    BY <1>2
  <2>2. PICK f : f = obj[b].fd
    OBVIOUS
  <2>3. CASE f \in DOMAIN fds /\ \E i \in DOMAIN Rest(fds[f].writes, Popping(f)) :
                                   Rest(fds[f].writes, Popping(f))[i] = b
    <3>1. Rest(fds[f].writes, Popping(f)) # <<>>
      <4>1. DOMAIN <<>> = {}
        OBVIOUS
      <4> QED BY <2>3, <4>1
    <3>2. f \in DOMAIN fds' /\ fds'[f].writes = Rest(fds[f].writes, Popping(f))
      BY <2>3, <3>1
    <3> QED BY <2>1, <2>2, <2>3, <3>2
  <2>4. CASE \E i \in DOMAIN cancelq : cancelq[i] = b
    BY <2>4
  <2> QED BY <2>1, <2>2, <2>3, <2>4 DEF OrphanInv
<1> QED BY <1>1, <1>2 DEF OrphanInv, Rest, Popping

\* on_ready() of the read operation.
LEMMA ReadCallInv ==
  ASSUME IInv, ReadHalf, stage' = stage PROVE IInv'
<1>1. /\ UNCHANGED <<fds, open, pfds, at, cancelq, seen, stage>>
      /\ stage = "read" /\ ~InCall /\ Entry(fds, at).read # Null
      /\ Resume(fds[at].read, fds[at].gen)
  BY DEF ReadHalf
<1>2. /\ MapType(fds) /\ obj \in [Addrs -> Obj] /\ at \in Fds
      /\ ~InDestructor /\ ~InDestructor' /\ seen = {} /\ cancelq = <<>>
  <2>1. ~InDestructor /\ ~InDestructor'
    BY <1>1 DEF InDestructor
  <2> QED BY <1>1, <2>1, Types DEF IInv, CallInv, CancelInv
<1>3. at \in DOMAIN fds /\ fds[at].read # Null
  BY <1>1, <1>2, EntryType
<1>4. PICK a \in Addrs, g \in Nat : a = fds[at].read /\ g = fds[at].gen
  BY <1>2, <1>3, QueueAssumption DEF MapType, State
<1>5. obj[a].op \in {"accept", "stream"} /\ obj[a].fd = at
  BY <1>1, <1>2, <1>3, <1>4 DEF IInv, ReadInv, ReadTrusted, Finished, Waits
<1>6. /\ InCall' /\ call' \in [addr : Addrs, mark : Nat, op : {"accept", "stream", "send"}]
      /\ call'.mark = g /\ call'.op = obj[a].op
      /\ scope' \subseteq Fds /\ obj' \in [Addrs -> Obj] /\ KindInv'
      /\ \A b \in Addrs : b # a => obj'[b] = obj[b]
      /\ IF obj[a].op = "stream" THEN obj' = obj ELSE obj'[a].op = "none"
  BY <1>1, <1>4, <1>5, Resumes DEF Ops
<1>7. TypeOK'
  BY <1>1, <1>6 DEF IInv, TypeOK, Obj, Ops
<1>8. CallInv'
  <2>1. ASSUME call'.op = "accept"
        PROVE  /\ at = Listen
               /\ \A b \in Addrs : obj'[b].op # "accept"
    <3>1. obj[a].op = "accept" /\ at = Listen
      BY <1>5, <1>6, <2>1 DEF IInv, KindInv
    <3>2. ASSUME NEW b \in Addrs, obj[b].op = "accept" PROVE b = a
      BY <1>2, <1>4, <3>1, <3>2 DEF IInv, OrphanInv
    <3> QED BY <1>6, <3>1, <3>2
  <2>2. call'.mark <= fds[at].gen
    BY <1>4, <1>6
  <2> QED BY <1>1, <1>2, <1>3, <2>1, <2>2 DEF CallInv
<1>9. ReadInv'
  <2>1. ASSUME NEW f \in DOMAIN fds, fds[f].read # Null
        PROVE  \/ obj'[fds[f].read].op \in {"accept", "stream"} /\ obj'[fds[f].read].fd = f
               \/ at = f /\ call'.op = "accept" /\ call'.mark = fds[f].gen
    <3>1. CASE f = at
      BY <1>4, <1>5, <1>6, <3>1
    <3>2. CASE f # at
      <4>1. obj[fds[f].read].op \in {"accept", "stream"} /\ obj[fds[f].read].fd = f
        BY <1>1, <1>2, <2>1, <3>2 DEF IInv, ReadInv, ReadTrusted, Finished, Waits
      <4>2. fds[f].read \in Addrs /\ fds[f].read # a
        BY <1>2, <1>5, <2>1, <3>2, <4>1 DEF MapType, State
      <4> QED BY <1>6, <4>1, <4>2
    <3> QED BY <3>1, <3>2
  <2> QED BY <1>1, <1>6, <2>1 DEF ReadInv, Finished, Waits
<1>10. \A b \in Addrs : obj[b].op = "send" => obj'[b] = obj[b]
  BY <1>5, <1>6
<1>11. WriteInv'
  <2>1. ASSUME NEW f \in DOMAIN fds'
        PROVE  /\ f \in DOMAIN fds /\ WriteTrusted(f) /\ Popping(f)' = FALSE
               /\ fds'[f].writes = Rest(fds[f].writes, Popping(f))
               /\ \A j \in DOMAIN fds'[f].writes : fds'[f].writes[j] \in Addrs
    <3>1. WriteTrusted(f) /\ Popping(f)' = FALSE /\ Popping(f) = FALSE
      BY <1>1, <1>2 DEF WriteTrusted, Popping
    <3>2. f \in DOMAIN fds /\ fds'[f].writes = fds[f].writes /\ fds[f].writes \in Seq(Addrs)
      BY <1>1, <1>2 DEF MapType, State
    <3> QED BY <3>1, <3>2 DEF Rest
  <2> QED BY <1>10, <2>1, OtherEnds
<1>12. CancelInv'
  BY <1>1, <1>2 DEF CancelInv
<1>13. OrphanInv'
  <2>1. \A f : Popping(f)' = FALSE /\ Popping(f) = FALSE
    BY <1>1 DEF Popping
  <2>2. \A b \in Addrs : obj'[b].op \in {"accept", "send"} => obj'[b] = obj[b]
    BY <1>5, <1>6
  <2>3. \A f \in DOMAIN fds : f \in DOMAIN fds' /\ fds'[f] = fds[f]
                                /\ fds'[f].writes = Rest(fds[f].writes, Popping(f))
    BY <1>1, <2>1 DEF Rest
  <2> QED BY <1>1, <1>2, <2>1, <2>2, <2>3, SameOrphan DEF IInv
<1> QED BY <1>6, <1>7, <1>8, <1>9, <1>11, <1>12, <1>13 DEF IInv

\* on_ready() of a read operation returns.
LEMMA ReadReturnInv ==
  ASSUME IInv, ReadReturn PROVE IInv'
<1>1. /\ UNCHANGED <<obj, open, pfds, at, cancelq, seen>>
      /\ stage = "read" /\ InCall /\ call' = NoCall /\ scope' = {} /\ stage' = "write"
      /\ fds' = IF call.op = "accept" /\ Has(fds, at) /\ Unchanged(fds[at])
                THEN [fds EXCEPT ![at].read = Null] ELSE fds
  BY DEF ReadReturn
<1>2. /\ MapType(fds) /\ obj \in [Addrs -> Obj] /\ at \in Fds
      /\ ~InCall' /\ ~InDestructor /\ ~InDestructor' /\ seen = {} /\ cancelq = <<>>
  <2>1. ~InCall' /\ ~InDestructor /\ ~InDestructor'
    BY <1>1 DEF InDestructor, InCall
  <2> QED BY <1>1, <2>1, Types DEF IInv, CallInv, CancelInv
<1>3. /\ DOMAIN fds' = DOMAIN fds
      /\ \A f \in DOMAIN fds :
           /\ fds'[f] \in State /\ fds'[f].gen = fds[f].gen /\ fds'[f].writes = fds[f].writes
           /\ fds'[f].read = IF Finished(f) THEN Null ELSE fds[f].read
  <2>1. CASE at \in DOMAIN fds /\ Finished(at)
    <3>1. fds' = [fds EXCEPT ![at].read = Null]
      BY <1>1, <2>1 DEF Finished, Has, Unchanged
    <3>2. PICK e \in State : e = fds[at]
      BY <1>2, <2>1 DEF MapType
    <3>3. fds'[at] = [e EXCEPT !.read = Null] /\ DOMAIN fds' = DOMAIN fds
      BY <2>1, <3>1, <3>2
    <3>4. /\ [e EXCEPT !.read = Null] \in State /\ [e EXCEPT !.read = Null].read = Null
          /\ [e EXCEPT !.read = Null].gen = e.gen /\ [e EXCEPT !.read = Null].writes = e.writes
      BY <3>2 DEF State
    <3>5. \A f \in DOMAIN fds : f # at => fds'[f] = fds[f] /\ ~Finished(f)
      BY <3>1 DEF Finished
    <3> QED BY <1>2, <2>1, <3>2, <3>3, <3>4, <3>5 DEF MapType
  <2>2. CASE ~(at \in DOMAIN fds /\ Finished(at))
    <3>1. fds' = fds
      BY <1>1, <2>2 DEF Finished, Has, Unchanged
    <3>2. \A f \in DOMAIN fds : ~Finished(f)
      BY <2>2 DEF Finished
    <3> QED BY <1>2, <3>1, <3>2 DEF MapType
  <2> QED BY <2>1, <2>2
<1>4. \A f : Popping(f) = FALSE /\ Popping(f)' = FALSE
  BY <1>1, <1>2 DEF Popping
<1>5. TypeOK' /\ KindInv'
  BY <1>1, <1>2, <1>3 DEF IInv, TypeOK, KindInv, MapType, State
<1>6. CallInv'
  BY <1>1, <1>2 DEF CallInv
<1>7. ReadInv'
  <2>1. ASSUME NEW f \in DOMAIN fds', fds'[f].read # Null
        PROVE  obj[fds'[f].read].op \in {"accept", "stream"} /\ obj[fds'[f].read].fd = f
    BY <1>2, <1>3, <2>1 DEF IInv, ReadInv, ReadTrusted, Waits
  <2> QED BY <1>1, <2>1 DEF ReadInv, Waits
<1>8. WriteInv'
  <2>1. \A f \in DOMAIN fds' : /\ f \in DOMAIN fds /\ WriteTrusted(f) /\ Popping(f)' = FALSE
                               /\ fds'[f].writes = Rest(fds[f].writes, Popping(f))
    BY <1>2, <1>3, <1>4 DEF WriteTrusted, Rest
  <2> QED BY <1>1, <2>1, OtherEnds
<1>9. CancelInv'
  BY <1>1, <1>2 DEF CancelInv
<1>10. OrphanInv'
  <2>1. \A b \in Addrs : obj'[b].op = "accept" /\ Listen \in DOMAIN fds /\ fds[Listen].read = b
                           => Listen \in DOMAIN fds' /\ fds'[Listen].read = b
    <3>1. Finished(Listen) => \A b \in Addrs : obj[b].op # "accept"
      BY DEF Finished, IInv, CallInv
    <3> QED BY <1>1, <1>3, <3>1
  <2>2. \A f \in DOMAIN fds : f \in DOMAIN fds' /\ fds'[f].writes = Rest(fds[f].writes, Popping(f))
    BY <1>3, <1>4 DEF Rest
  <2> QED BY <1>1, <1>2, <1>4, <2>1, <2>2, SameOrphan DEF IInv
<1> QED BY <1>5, <1>6, <1>7, <1>8, <1>9, <1>10 DEF IInv

\* The end of the loop body.
LEMMA EraseEntryInv ==
  ASSUME IInv, EraseEntry PROVE IInv'
<1>1. /\ UNCHANGED <<obj, open, at, call, scope, cancelq, seen>>
      /\ stage = "erase" /\ stage' = "next"
      /\ fds' = EraseIfEmpty(fds, at) /\ pfds' = Erase(pfds, at)
  BY DEF EraseEntry
<1>2. /\ MapType(fds) /\ obj \in [Addrs -> Obj] /\ at \in Fds
      /\ ~InCall /\ ~InCall' /\ ~InDestructor /\ ~InDestructor' /\ seen = {} /\ cancelq = <<>>
  <2>1. ~InDestructor /\ ~InDestructor'
    BY <1>1 DEF InDestructor
  <2> QED BY <1>1, <2>1, Types DEF IInv, CallInv, CancelInv, InCall
<1>3. /\ DOMAIN fds' \subseteq DOMAIN fds
      /\ \A g \in DOMAIN fds' : fds'[g] = fds[g]
      /\ \A g \in DOMAIN fds : g \notin DOMAIN fds' =>
           g = at /\ fds[g].read = Null /\ fds[g].writes = <<>>
  <2>1. PICK m2 : m2 = fds'
    OBVIOUS
  <2>2. m2 = EraseIfEmpty(fds, at)
    BY <1>1, <2>1
  <2>3. /\ DOMAIN m2 \subseteq DOMAIN fds
        /\ \A g \in DOMAIN m2 : m2[g] = fds[g]
        /\ \A g \in DOMAIN fds : g \notin DOMAIN m2 =>
             g = at /\ fds[g].read = Null /\ fds[g].writes = <<>>
    BY <2>2, EraseEmpty
  <2> QED BY <2>1, <2>3
<1>4. \A f : Popping(f) = FALSE /\ Popping(f)' = FALSE
  BY <1>2 DEF Popping
<1>5. TypeOK' /\ KindInv'
  <2>1. DOMAIN pfds' \subseteq Fds /\ \A f \in DOMAIN pfds' : pfds'[f] \subseteq {"in", "out"}
    BY <1>1 DEF IInv, TypeOK, Erase
  <2> QED BY <1>1, <1>2, <1>3, <2>1 DEF IInv, TypeOK, KindInv
<1>6. CallInv'
  BY <1>1, <1>2 DEF CallInv
<1>7. ReadInv'
  <2>1. ASSUME NEW f \in DOMAIN fds', fds'[f].read # Null
        PROVE  obj[fds'[f].read].op \in {"accept", "stream"} /\ obj[fds'[f].read].fd = f
    BY <1>2, <1>3, <2>1 DEF IInv, ReadInv, ReadTrusted, Waits, Finished
  <2> QED BY <1>1, <2>1 DEF ReadInv, Waits
<1>8. WriteInv'
  <2>1. \A f \in DOMAIN fds' : /\ f \in DOMAIN fds /\ WriteTrusted(f) /\ Popping(f)' = FALSE
                               /\ fds'[f].writes = Rest(fds[f].writes, Popping(f))
    BY <1>2, <1>3, <1>4 DEF WriteTrusted, Rest
  <2> QED BY <1>1, <2>1, OtherEnds
<1>9. CancelInv'
  BY <1>1, <1>2 DEF CancelInv
<1>10. OrphanInv'
  <2>1. \A b \in Addrs : obj'[b].op = "accept" /\ Listen \in DOMAIN fds /\ fds[Listen].read = b
                           => Listen \in DOMAIN fds' /\ fds'[Listen].read = b
    BY <1>3, NullNotAddr
  <2>2. \A f \in DOMAIN fds : Rest(fds[f].writes, Popping(f)) # <<>> =>
          f \in DOMAIN fds' /\ fds'[f].writes = Rest(fds[f].writes, Popping(f))
    BY <1>3, <1>4 DEF Rest
  <2> QED BY <1>1, <1>2, <1>4, <2>1, <2>2, SameOrphan DEF IInv
<1> QED BY <1>5, <1>6, <1>7, <1>8, <1>9, <1>10 DEF IInv

\* What is in a queue and is not its front is in its tail.
LEMMA TailHas ==
  ASSUME NEW q \in Seq(Addrs), q # <<>>
  PROVE  \A i \in DOMAIN q : q[i] # Head(q) => \E j \in DOMAIN Tail(q) : Tail(q)[j] = q[i]
<1> DEFINE t == Tail(q)
<1>1. Len(q) \in Nat \ {0} /\ DOMAIN q = 1..Len(q) /\ Head(q) = q[1]
  OBVIOUS
<1>2. /\ t \in Seq(Addrs) /\ Len(t) = Len(q) - 1
      /\ \A i \in 1..(Len(q) - 1) : t[i] = q[i + 1]
  BY TailFacts
<1> HIDE DEF t
<1>3. DOMAIN t = 1..(Len(q) - 1)
  BY <1>2
<1>4. ASSUME NEW i \in DOMAIN q, q[i] # Head(q)
      PROVE  \E j \in DOMAIN t : t[j] = q[i]
  <2>1. i - 1 \in DOMAIN t /\ (i - 1) + 1 = i
    BY <1>1, <1>3, <1>4
  <2>2. t[i - 1] = q[i]
    BY <1>2, <1>3, <2>1
  <2> QED BY <2>1, <2>2, Zenon
<1> QED BY <1>4 DEF t

\* on_ready() of the front of the write queue.
LEMMA WriteCallInv ==
  ASSUME IInv, WriteHalf, stage' = stage PROVE IInv'
<1>1. /\ UNCHANGED <<fds, open, pfds, at, cancelq, seen, stage>>
      /\ stage = "write" /\ ~InCall /\ Entry(fds, at).writes # <<>>
      /\ Resume(Head(fds[at].writes), 0)
  BY DEF WriteHalf
<1>2. /\ MapType(fds) /\ obj \in [Addrs -> Obj] /\ at \in Fds
      /\ ~InDestructor /\ ~InDestructor' /\ seen = {} /\ cancelq = <<>>
  <2>1. ~InDestructor /\ ~InDestructor'
    BY <1>1 DEF InDestructor
  <2> QED BY <1>1, <2>1, Types DEF IInv, CallInv, CancelInv
<1>3. at \in DOMAIN fds /\ fds[at].writes # <<>>
  BY <1>1, <1>2, EntryType
<1>4. PICK q \in Seq(Addrs) : q = fds[at].writes
  BY <1>2, <1>3 DEF MapType, State
<1>5. PICK a \in Addrs : a = Head(q) /\ 1 \in DOMAIN q /\ a = q[1]
  BY <1>3, <1>4
<1>6. \A f : Popping(f) = FALSE
  BY <1>1 DEF Popping
<1>7. \A f \in DOMAIN fds : SendsOf(fds[f].writes, f, obj) /\ fds[f].writes \in Seq(Addrs)
  <2>1. ASSUME NEW f \in DOMAIN fds PROVE SendsOf(fds[f].writes, f, obj)
    <3>1. WriteTrusted(f) /\ Popping(f) = FALSE
      BY <1>2, <1>6 DEF WriteTrusted
    <3> QED BY <3>1 DEF IInv, WriteInv, Rest
  <2> QED BY <1>2, <2>1 DEF MapType, State
<1>8. obj[a].op = "send" /\ obj[a].fd = at
  BY <1>3, <1>4, <1>5, <1>7 DEF SendsOf
<1>9. /\ InCall' /\ call' \in [addr : Addrs, mark : Nat, op : {"accept", "stream", "send"}]
      /\ call'.addr = a /\ call'.op = "send"
      /\ scope' \subseteq Fds /\ obj' \in [Addrs -> Obj] /\ KindInv'
      /\ \A b \in Addrs : b # a => obj'[b] = obj[b]
      /\ obj'[a].op = "none"
  <2>1. Resume(a, 0) /\ 0 \in Nat
    BY <1>1, <1>4, <1>5
  <2> QED BY <1>8, <2>1, Resumes DEF Ops
<1>10. TypeOK'
  BY <1>1, <1>9 DEF IInv, TypeOK, Obj, Ops
<1>11. CallInv'
  BY <1>1, <1>2, <1>3, <1>4, <1>5, <1>9 DEF CallInv
<1>12. ReadInv'
  <2>1. ASSUME NEW f \in DOMAIN fds, fds[f].read # Null
        PROVE  obj'[fds[f].read].op \in {"accept", "stream"} /\ obj'[fds[f].read].fd = f
    <3>1. obj[fds[f].read].op \in {"accept", "stream"} /\ obj[fds[f].read].fd = f
      BY <1>1, <1>2, <2>1 DEF IInv, ReadInv, ReadTrusted, Finished, Waits
    <3>2. fds[f].read \in Addrs /\ fds[f].read # a
      BY <1>2, <1>8, <2>1, <3>1 DEF MapType, State
    <3> QED BY <1>9, <3>1, <3>2
  <2> QED BY <1>1, <2>1 DEF ReadInv, Waits
<1>13. \A f : Popping(f)' = (f = at)
  BY <1>1, <1>9 DEF Popping
<1>14. PICK o2 : o2 = obj'
  OBVIOUS
<1>15. WriteInv'
  <2>1. ASSUME NEW f \in DOMAIN fds PROVE SendsOf(Rest(fds[f].writes, f = at), f, o2)
    <3>1. CASE f = at
      <4>1. SendsOf(Tail(q), at, o2)
        BY <1>3, <1>4, <1>5, <1>7, <1>9, <1>14, SendsPop
      <4> QED BY <1>4, <3>1, <4>1 DEF Rest
    <3>2. CASE f # at
      <4>1. PICK r \in Seq(Addrs) : r = fds[f].writes
        BY <1>7
      <4>2. SendsOf(r, f, obj) /\ obj[a].fd # f /\ \A b \in Addrs : b # a => o2[b] = obj[b]
        BY <1>7, <1>8, <1>9, <1>14, <3>2, <4>1
      <4>3. SendsOf(r, f, o2)
        BY <4>2, SendsElse
      <4> QED BY <3>2, <4>1, <4>3 DEF Rest
    <3> QED BY <3>1, <3>2
  <2>2. ASSUME NEW f \in DOMAIN fds' PROVE SendsOf(Rest(fds[f].writes, Popping(f)), f, obj)'
    <3>1. f \in DOMAIN fds /\ fds' = fds /\ Popping(f)' = (f = at)
      BY <1>1, <1>13
    <3>2. SendsOf(Rest(fds'[f].writes, Popping(f)'), f, o2)
      BY <2>1, <3>1
    <3> QED BY <1>14, <3>2 DEF SendsOf, Rest
  <2> QED BY <2>2 DEF WriteInv
<1>16. CancelInv'
  BY <1>1, <1>2 DEF CancelInv
<1>17. OrphanInv'
  <2>1. ASSUME NEW b \in Addrs, obj'[b].op = "accept"
        PROVE  Listen \in DOMAIN fds /\ fds[Listen].read = b
    BY <1>2, <1>9, <2>1 DEF IInv, OrphanInv
  <2>2. ASSUME NEW b \in Addrs, obj'[b].op = "send"
        PROVE  /\ obj'[b].fd \in DOMAIN fds
               /\ \E i \in DOMAIN Rest(fds[obj'[b].fd].writes, obj'[b].fd = at) :
                    Rest(fds[obj'[b].fd].writes, obj'[b].fd = at)[i] = b
    <3>1. b # a /\ obj'[b] = obj[b] /\ obj[b].op = "send"
      BY <1>9, <2>2
    <3>2. PICK f : f = obj[b].fd
      OBVIOUS
    <3>3. f \in DOMAIN fds /\ \E i \in DOMAIN fds[f].writes : fds[f].writes[i] = b
      BY <1>2, <1>6, <3>1, <3>2 DEF IInv, OrphanInv, Rest
    <3>4. CASE f = at
      <4>1. \E i \in DOMAIN Tail(q) : Tail(q)[i] = b
        BY <1>3, <1>4, <1>5, <3>1, <3>3, <3>4, TailHas
      <4> QED BY <1>4, <3>1, <3>2, <3>3, <3>4, <4>1 DEF Rest
    <3>5. CASE f # at
      BY <3>1, <3>2, <3>3, <3>5 DEF Rest
    <3> QED BY <3>4, <3>5
  <2> QED BY <1>1, <1>13, <2>1, <2>2 DEF OrphanInv
<1> QED BY <1>9, <1>10, <1>11, <1>12, <1>15, <1>16, <1>17 DEF IInv

\* on_ready() of a write operation returns.
LEMMA WriteReturnInv ==
  ASSUME IInv, WriteReturn PROVE IInv'
<1>1. /\ UNCHANGED <<obj, open, pfds, at, stage, cancelq, seen>>
      /\ stage = "write" /\ InCall /\ call' = NoCall /\ scope' = {}
  BY DEF WriteReturn, loopVars
<1>2. /\ MapType(fds) /\ obj \in [Addrs -> Obj] /\ at \in Fds
      /\ ~InCall' /\ ~InDestructor /\ ~InDestructor' /\ seen = {} /\ cancelq = <<>>
  <2>1. ~InCall' /\ ~InDestructor /\ ~InDestructor'
    BY <1>1 DEF InDestructor, InCall
  <2> QED BY <1>1, <2>1, Types DEF IInv, CallInv, CancelInv
<1>3. at \in DOMAIN fds /\ fds[at].writes # <<>> /\ Head(fds[at].writes) = call.addr
  BY <1>1 DEF IInv, CallInv
<1>4. \A f : Popping(f) = (f = at) /\ Popping(f)' = FALSE
  BY <1>1, <1>2 DEF Popping
<1>5. /\ DOMAIN fds' = DOMAIN fds
      /\ \A f \in DOMAIN fds :
           /\ fds'[f] \in State /\ fds'[f].gen = fds[f].gen /\ fds'[f].read = fds[f].read
           /\ fds'[f].writes = Rest(fds[f].writes, Popping(f))
  <2>1. fds' = [fds EXCEPT ![at].writes = Tail(@)]
    BY <1>3 DEF WriteReturn, Has, PopFirst
  <2>2. PICK e \in State : e = fds[at]
    BY <1>2, <1>3 DEF MapType
  <2>3. fds'[at] = [e EXCEPT !.writes = Tail(@)] /\ DOMAIN fds' = DOMAIN fds
    BY <1>3, <2>1, <2>2
  <2>4. e.writes \in Seq(Addrs) /\ Tail(e.writes) \in Seq(Addrs)
    BY <1>3, <2>2 DEF State
  <2>5. /\ [e EXCEPT !.writes = Tail(@)] \in State
        /\ [e EXCEPT !.writes = Tail(@)].read = e.read
        /\ [e EXCEPT !.writes = Tail(@)].gen = e.gen
        /\ [e EXCEPT !.writes = Tail(@)].writes = Tail(e.writes)
    BY <2>2, <2>4 DEF State
  <2>6. \A f \in DOMAIN fds : f # at => fds'[f] = fds[f] /\ fds[f] \in State
    BY <1>2, <2>1 DEF MapType
  <2> QED BY <1>4, <2>2, <2>3, <2>5, <2>6 DEF Rest
<1>6. TypeOK' /\ KindInv'
  BY <1>1, <1>2, <1>5 DEF IInv, TypeOK, KindInv, MapType, State
<1>7. CallInv'
  BY <1>1, <1>2 DEF CallInv
<1>8. ReadInv'
  <2>1. ASSUME NEW f \in DOMAIN fds', fds'[f].read # Null
        PROVE  obj[fds'[f].read].op \in {"accept", "stream"} /\ obj[fds'[f].read].fd = f
    BY <1>1, <1>2, <1>5, <2>1 DEF IInv, ReadInv, ReadTrusted, Waits, Finished
  <2> QED BY <1>1, <2>1 DEF ReadInv, Waits
<1>9. WriteInv'
  <2>1. \A f \in DOMAIN fds' : /\ f \in DOMAIN fds /\ WriteTrusted(f) /\ Popping(f)' = FALSE
                               /\ fds'[f].writes = Rest(fds[f].writes, Popping(f))
    BY <1>2, <1>4, <1>5 DEF WriteTrusted
  <2> QED BY <1>1, <2>1, OtherEnds
<1>10. CancelInv'
  BY <1>1, <1>2 DEF CancelInv
<1>11. OrphanInv'
  <2>1. \A f \in DOMAIN fds : f \in DOMAIN fds' /\ fds'[f].read = fds[f].read
                              /\ fds'[f].writes = Rest(fds[f].writes, Popping(f))
    BY <1>5
  <2> QED BY <1>1, <1>2, <1>4, <2>1, SameOrphan DEF IInv
<1> QED BY <1>6, <1>7, <1>8, <1>9, <1>10, <1>11 DEF IInv

-----------------------------------------------------------------------------
(* cancel_fd(). *)

\* c is a copy of the read operation r, if any, and the sends w of an entry of f.
CopyOf(c, r, w, f, o) ==
  /\ c \in Seq(Addrs)
  /\ \A i, j \in DOMAIN c : c[i] = c[j] => i = j
  /\ \A i \in DOMAIN c : /\ o[c[i]].op \in Ops /\ o[c[i]].fd = f
                         /\ i > 1 => o[c[i]].op = "send"
  /\ r # Null => \E i \in DOMAIN c : c[i] = r
  /\ \A j \in DOMAIN w : \E i \in DOMAIN c : c[i] = w[j]

\* What cancel_fd() copies: each operation of the entry once, the read one first.
LEMMA Copies ==
  ASSUME NEW w \in Seq(Addrs), NEW f, NEW o, SendsOf(w, f, o), NEW r \in Addrs \cup {Null},
         r # Null => o[r].op \in {"accept", "stream"} /\ o[r].fd = f
  PROVE  CopyOf((IF r # Null THEN <<r>> ELSE <<>>) \o w, r, w, f, o)
<1>1. CASE r # Null
  <2> DEFINE c == <<r>> \o w
  <2>1. r \in Addrs /\ <<r>> \in Seq(Addrs) /\ Len(<<r>>) = 1 /\ <<r>>[1] = r
    BY <1>1
  <2>2. Len(w) \in Nat /\ DOMAIN w = 1..Len(w) /\ \A i \in DOMAIN w : w[i] \in Addrs
    OBVIOUS
  <2>3. /\ c \in Seq(Addrs) /\ Len(c) = 1 + Len(w)
        /\ \A i \in 1..(1 + Len(w)) : c[i] = IF i <= 1 THEN <<r>>[i] ELSE w[i - 1]
    BY <2>1, ConcatProperties
  <2> HIDE DEF c
  <2>4. DOMAIN c = 1..(1 + Len(w))
    BY <2>2, <2>3
  <2>5. 1 \in DOMAIN c /\ c[1] = r
    BY <2>1, <2>2, <2>3, <2>4
  <2>6. \A i \in DOMAIN c : i # 1 => i > 1 /\ i - 1 \in DOMAIN w /\ c[i] = w[i - 1]
    BY <2>2, <2>3, <2>4
  <2>7. \A i \in DOMAIN c : i # 1 => o[c[i]].op = "send" /\ o[c[i]].fd = f /\ c[i] # r
    BY <1>1, <2>6 DEF SendsOf
  <2>8. ASSUME NEW i \in DOMAIN c, NEW j \in DOMAIN c, c[i] = c[j] PROVE i = j
    <3>1. CASE i = 1 \/ j = 1
      BY <2>5, <2>7, <2>8, <3>1
    <3>2. CASE i # 1 /\ j # 1
      <4>1. i - 1 = j - 1
        BY <2>6, <2>8, <3>2 DEF SendsOf
      <4> QED BY <2>4, <4>1
    <3> QED BY <3>1, <3>2
  <2>9. ASSUME NEW i \in DOMAIN c
        PROVE  o[c[i]].op \in Ops /\ o[c[i]].fd = f /\ (i > 1 => o[c[i]].op = "send")
    BY <1>1, <2>4, <2>5, <2>7 DEF Ops
  <2>10. ASSUME NEW j \in DOMAIN w PROVE \E i \in DOMAIN c : c[i] = w[j]
    <3>1. j + 1 \in DOMAIN c /\ j + 1 # 1 /\ (j + 1) - 1 = j
      BY <2>2, <2>4
    <3>2. c[j + 1] = w[j]
      BY <2>6, <3>1
    <3> QED BY <3>1, <3>2, Zenon
  <2>11. CopyOf(c, r, w, f, o)
    BY <2>3, <2>5, <2>8, <2>9, <2>10 DEF CopyOf
  <2> QED BY <1>1, <2>11 DEF c
<1>2. CASE r = Null
  <2>1. <<>> \o w = w
    OBVIOUS
  <2>2. CopyOf(w, r, w, f, o)
    BY <1>2 DEF CopyOf, SendsOf, Ops
  <2> QED BY <1>2, <2>1, <2>2
<1> QED BY <1>1, <1>2

\* cancel_fd() copies the operations of an entry and erases it.
LEMMA CancelFdInv ==
  ASSUME IInv, NEW f \in Fds, CancelFd(f) PROVE IInv'
<1>1. /\ UNCHANGED <<obj, open, pfds, call, scope, seen>>
      /\ stage = "idle" /\ stage' = "cancel" /\ at' = f /\ f \in DOMAIN fds
      /\ fds' = Erase(fds, f)
      /\ cancelq' = (IF fds[f].read # Null THEN <<fds[f].read>> ELSE <<>>) \o fds[f].writes
  BY DEF CancelFd, Has
<1>2. /\ MapType(fds) /\ obj \in [Addrs -> Obj]
      /\ ~InCall /\ ~InCall' /\ ~InDestructor /\ ~InDestructor' /\ seen = {} /\ cancelq = <<>>
  <2>1. ~InDestructor /\ ~InDestructor'
    BY <1>1 DEF InDestructor
  <2> QED BY <1>1, <2>1, Types DEF IInv, CallInv, CancelInv, InCall
<1>3. \A g : Popping(g) = FALSE /\ Popping(g)' = FALSE
  BY <1>2 DEF Popping
<1>4. \A g \in DOMAIN fds : SendsOf(fds[g].writes, g, obj) /\ fds[g].writes \in Seq(Addrs)
  <2>1. ASSUME NEW g \in DOMAIN fds PROVE SendsOf(fds[g].writes, g, obj)
    <3>1. WriteTrusted(g) /\ Popping(g) = FALSE
      BY <1>2, <1>3 DEF WriteTrusted
    <3> QED BY <3>1 DEF IInv, WriteInv, Rest
  <2> QED BY <1>2, <2>1 DEF MapType, State
<1>5. \A g \in DOMAIN fds : /\ fds[g].read \in Addrs \cup {Null}
                            /\ fds[g].read # Null => /\ obj[fds[g].read].op \in {"accept", "stream"}
                                                     /\ obj[fds[g].read].fd = g
  BY <1>2 DEF IInv, ReadInv, ReadTrusted, Waits, Finished, MapType, State
<1>6. PICK r \in Addrs \cup {Null}, w \in Seq(Addrs) : r = fds[f].read /\ w = fds[f].writes
  BY <1>1, <1>4, <1>5
<1>7. PICK c : c = cancelq'
  OBVIOUS
<1>8. CopyOf(c, r, w, f, obj)
  <2>1. SendsOf(w, f, obj) /\ (r # Null => obj[r].op \in {"accept", "stream"} /\ obj[r].fd = f)
    BY <1>1, <1>4, <1>5, <1>6
  <2>2. CopyOf((IF r # Null THEN <<r>> ELSE <<>>) \o w, r, w, f, obj)
    BY <2>1, Copies
  <2>3. c = (IF r # Null THEN <<r>> ELSE <<>>) \o w
    BY <1>1, <1>6, <1>7
  <2> QED BY <2>2, <2>3
<1>9. /\ DOMAIN fds' = DOMAIN fds \ {f} /\ f \notin DOMAIN fds'
      /\ \A g \in DOMAIN fds' : g \in DOMAIN fds /\ g # f /\ fds'[g] = fds[g]
      /\ \A g \in DOMAIN fds : g # f => g \in DOMAIN fds'
  BY <1>1 DEF Erase
<1>10. TypeOK' /\ KindInv'
  <2>1. cancelq' \in Seq(Addrs)
    BY <1>7, <1>8 DEF CopyOf
  <2> QED BY <1>1, <1>2, <1>9, <2>1 DEF IInv, TypeOK, KindInv
<1>11. CallInv'
  BY <1>1, <1>2 DEF CallInv
<1>12. ReadInv'
  <2>1. ASSUME NEW g \in DOMAIN fds', fds'[g].read # Null
        PROVE  obj[fds'[g].read].op \in {"accept", "stream"} /\ obj[fds'[g].read].fd = g
    BY <1>5, <1>9, <2>1
  <2> QED BY <1>1, <2>1 DEF ReadInv, Waits
<1>13. WriteInv'
  <2>1. \A g \in DOMAIN fds' : /\ g \in DOMAIN fds /\ WriteTrusted(g) /\ Popping(g)' = FALSE
                               /\ fds'[g].writes = Rest(fds[g].writes, Popping(g))
    BY <1>2, <1>3, <1>9 DEF WriteTrusted, Rest
  <2> QED BY <1>1, <2>1, OtherEnds
<1>14. CancelInv'
  <2>1. ASSUME NEW i \in DOMAIN c
        PROVE  /\ obj[c[i]].op \in Ops /\ obj[c[i]].fd = f /\ c[i] # Null
               /\ i > 1 => obj[c[i]].op = "send"
    <3>1. c[i] \in Addrs
      BY <1>8, <2>1 DEF CopyOf
    <3> QED BY <1>8, <2>1, <3>1, NullNotAddr DEF CopyOf
  <2>2. ASSUME NEW i \in DOMAIN c, NEW g \in DOMAIN fds'
        PROVE  /\ fds'[g].read # c[i]
               /\ \A j \in DOMAIN fds'[g].writes : fds'[g].writes[j] # c[i]
    <3>1. fds'[g] = fds[g] /\ g \in DOMAIN fds /\ g # f
      BY <1>9
    <3>2. fds[g].read # c[i]
      BY <1>5, <2>1, <3>1
    <3>3. \A j \in DOMAIN fds[g].writes : fds[g].writes[j] # c[i]
      BY <1>4, <2>1, <3>1 DEF SendsOf
    <3> QED BY <3>1, <3>2, <3>3
  <2>3. \A i, j \in DOMAIN c : c[i] = c[j] => i = j
    BY <1>8 DEF CopyOf
  <2>4. obj' = obj /\ at' = f /\ stage' = "cancel"
    BY <1>1
  <2> QED BY <1>2, <1>7, <2>1, <2>2, <2>3, <2>4 DEF CancelInv, Waits
<1>15. OrphanInv'
  <2>1. ASSUME NEW b \in Addrs, obj[b].op = "accept"
        PROVE  \/ Listen \in DOMAIN fds' /\ fds'[Listen].read = b
               \/ \E i \in DOMAIN c : c[i] = b
    <3>1. Listen \in DOMAIN fds /\ fds[Listen].read = b
      BY <1>2, <2>1 DEF IInv, OrphanInv
    <3>2. CASE f = Listen
      BY <1>6, <1>8, <3>1, <3>2, NullNotAddr DEF CopyOf
    <3>3. CASE f # Listen
      BY <1>9, <3>1, <3>3
    <3> QED BY <3>2, <3>3
  <2>2. ASSUME NEW b \in Addrs, obj[b].op = "send"
        PROVE  \/ /\ obj[b].fd \in DOMAIN fds'
                  /\ \E i \in DOMAIN fds'[obj[b].fd].writes : fds'[obj[b].fd].writes[i] = b
               \/ \E i \in DOMAIN c : c[i] = b
    <3>1. PICK g : g = obj[b].fd
      OBVIOUS
    <3>2. g \in DOMAIN fds /\ \E i \in DOMAIN fds[g].writes : fds[g].writes[i] = b
      BY <1>2, <1>3, <2>2, <3>1 DEF IInv, OrphanInv, Rest
    <3>3. CASE f = g
      BY <1>6, <1>8, <3>2, <3>3 DEF CopyOf
    <3>4. CASE f # g
      BY <1>9, <3>1, <3>2, <3>4
    <3> QED BY <3>3, <3>4
  <2> QED BY <1>1, <1>3, <1>7, <2>1, <2>2 DEF OrphanInv, Rest
<1> QED BY <1>10, <1>11, <1>12, <1>13, <1>14, <1>15 DEF IInv

\* cancel() of the next copied operation.
LEMMA CancelNextInv ==
  ASSUME IInv, CancelNext PROVE IInv'
<1>1. /\ UNCHANGED <<fds, open, pfds, at, stage, seen>>
      /\ stage = "cancel" /\ ~InCall /\ cancelq # <<>> /\ cancelq' = Tail(cancelq)
      /\ Resume(Head(cancelq), 0)
  BY DEF CancelNext
<1>2. /\ MapType(fds) /\ obj \in [Addrs -> Obj] /\ cancelq \in Seq(Addrs) /\ at \in Fds
      /\ ~InDestructor /\ ~InDestructor' /\ seen = {}
  <2>1. ~InDestructor /\ ~InDestructor'
    BY <1>1 DEF InDestructor
  <2> QED BY <1>1, <2>1, Types DEF IInv, CallInv
<1>3. /\ Len(cancelq) \in Nat \ {0} /\ DOMAIN cancelq = 1..Len(cancelq)
      /\ 1 \in DOMAIN cancelq /\ Head(cancelq) = cancelq[1]
  BY <1>1, <1>2
<1>4. PICK a \in Addrs : a = Head(cancelq) /\ a = cancelq[1]
  BY <1>2, <1>3
<1>5. /\ obj[a].op \in Ops /\ obj[a].fd = at
      /\ \A f \in DOMAIN fds :
           fds[f].read # a /\ \A j \in DOMAIN fds[f].writes : fds[f].writes[j] # a
  BY <1>1, <1>3, <1>4 DEF IInv, CancelInv, Waits
<1>6. /\ InCall' /\ call' \in [addr : Addrs, mark : Nat, op : {"accept", "stream", "send"}]
      /\ scope' \subseteq Fds /\ obj' \in [Addrs -> Obj] /\ KindInv'
      /\ \A b \in Addrs : b # a => obj'[b] = obj[b]
      /\ IF obj[a].op = "stream" THEN obj' = obj ELSE obj'[a].op = "none"
  <2>1. Resume(a, 0) /\ 0 \in Nat
    BY <1>1, <1>4
  <2> QED BY <1>5, <2>1, Resumes
<1>7. PICK t \in Seq(Addrs) :
        /\ t = cancelq' /\ DOMAIN t = 1..(Len(cancelq) - 1)
        /\ \A i \in DOMAIN t : t[i] = cancelq[i + 1]
  <2>1. /\ Tail(cancelq) \in Seq(Addrs) /\ Len(Tail(cancelq)) = Len(cancelq) - 1
        /\ \A i \in 1..(Len(cancelq) - 1) : Tail(cancelq)[i] = cancelq[i + 1]
    BY <1>1, <1>2, TailFacts
  <2>2. DOMAIN Tail(cancelq) = 1..(Len(cancelq) - 1)
    BY <2>1
  <2> QED BY <1>1, <2>1, <2>2
<1>8. \A f : Popping(f) = FALSE /\ Popping(f)' = FALSE
  BY <1>1 DEF Popping
<1>9. \A i \in DOMAIN t : /\ i + 1 \in DOMAIN cancelq /\ i + 1 > 1 /\ i + 1 # 1
                          /\ t[i] = cancelq[i + 1]
  BY <1>3, <1>7
<1>10. \A i \in DOMAIN t : t[i] # a /\ t[i] \in Addrs /\ obj[t[i]].op = "send" /\ obj[t[i]].fd = at
  BY <1>2, <1>3, <1>4, <1>9, SMTT(30) DEF IInv, CancelInv, Waits
<1>11. TypeOK'
  BY <1>1, <1>6, <1>7 DEF IInv, TypeOK, Obj, Ops
<1>12. CallInv'
  BY <1>1, <1>2 DEF CallInv
<1>13. ReadInv'
  <2>1. ASSUME NEW f \in DOMAIN fds, fds[f].read # Null
        PROVE  obj'[fds[f].read].op \in {"accept", "stream"} /\ obj'[fds[f].read].fd = f
    <3>1. obj[fds[f].read].op \in {"accept", "stream"} /\ obj[fds[f].read].fd = f
      BY <1>1, <1>2, <2>1 DEF IInv, ReadInv, ReadTrusted, Finished, Waits
    <3>2. fds[f].read \in Addrs /\ fds[f].read # a
      BY <1>2, <1>5, <2>1 DEF MapType, State
    <3> QED BY <1>6, <3>1, <3>2
  <2> QED BY <1>1, <2>1 DEF ReadInv, Waits
<1>14. WriteInv'
  <2>1. ASSUME NEW f \in DOMAIN fds'
        PROVE  /\ f \in DOMAIN fds /\ WriteTrusted(f) /\ Popping(f)' = FALSE
               /\ fds'[f].writes = Rest(fds[f].writes, Popping(f))
               /\ \A j \in DOMAIN fds'[f].writes : obj'[fds'[f].writes[j]] = obj[fds'[f].writes[j]]
    <3>1. f \in DOMAIN fds /\ fds'[f].writes = fds[f].writes /\ fds[f].writes \in Seq(Addrs)
      BY <1>1, <1>2 DEF MapType, State
    <3>2. \A j \in DOMAIN fds[f].writes : fds[f].writes[j] \in Addrs /\ fds[f].writes[j] # a
      BY <1>5, <3>1
    <3> QED BY <1>2, <1>6, <1>8, <3>1, <3>2 DEF WriteTrusted, Rest
  <2> QED BY <2>1, OtherEnds
<1>15. CancelInv'
  <2>1. ASSUME NEW i \in DOMAIN t, NEW j \in DOMAIN t, t[i] = t[j] PROVE i = j
    <3>1. i + 1 = j + 1
      BY <1>9, <2>1 DEF IInv, CancelInv
    <3> QED BY <1>7, <3>1
  <2>2. \A i \in DOMAIN t : obj'[t[i]].op = "send" /\ obj'[t[i]].fd = at
    BY <1>6, <1>10
  <2>3. \A i \in DOMAIN t, f \in DOMAIN fds :
          /\ fds[f].read # t[i]
          /\ \A j \in DOMAIN fds[f].writes : fds[f].writes[j] # t[i]
    BY <1>1, <1>9 DEF IInv, CancelInv
  <2> QED BY <1>1, <1>7, <2>1, <2>2, <2>3 DEF CancelInv, Waits, Ops
<1>16. OrphanInv'
  <2>1. ASSUME NEW b \in Addrs, b # a, \E i \in DOMAIN cancelq : cancelq[i] = b
        PROVE  \E i \in DOMAIN t : t[i] = b
    BY <1>1, <1>2, <1>4, <1>7, <2>1, TailHas
  <2>2. ASSUME NEW b \in Addrs, obj'[b].op \in {"accept", "send"}
        PROVE  obj'[b] = obj[b] /\ b # a
    BY <1>6, <2>2
  <2>3. ASSUME NEW b \in Addrs, obj'[b].op = "accept"
        PROVE  \/ Listen \in DOMAIN fds /\ fds[Listen].read = b
               \/ \E i \in DOMAIN t : t[i] = b
    BY <1>2, <2>1, <2>2, <2>3 DEF IInv, OrphanInv
  <2>4. ASSUME NEW b \in Addrs, obj'[b].op = "send"
        PROVE  \/ /\ obj'[b].fd \in DOMAIN fds
                  /\ \E i \in DOMAIN fds[obj'[b].fd].writes : fds[obj'[b].fd].writes[i] = b
               \/ \E i \in DOMAIN t : t[i] = b
    BY <1>2, <1>8, <2>1, <2>2, <2>4 DEF IInv, OrphanInv, Rest
  <2> QED BY <1>1, <1>7, <1>8, <2>3, <2>4 DEF OrphanInv, Rest
<1> QED BY <1>6, <1>11, <1>12, <1>13, <1>14, <1>15, <1>16 DEF IInv

\* cancel() returns.
LEMMA CancelReturnInv ==
  ASSUME IInv, CancelReturn PROVE IInv'
<1>1. /\ UNCHANGED <<fds, obj, open, pfds, at, stage, cancelq, seen>>
      /\ stage = "cancel" /\ call' = NoCall /\ scope' = {}
  BY DEF CancelReturn, loopVars
<1>2. ~InCall' /\ ~InDestructor /\ ~InDestructor' /\ seen = {}
  <2>1. ~InCall' /\ ~InDestructor /\ ~InDestructor'
    BY <1>1 DEF InDestructor, InCall
  <2> QED BY <1>1, <2>1 DEF IInv, CallInv
<1>3. \A f : Popping(f) = FALSE /\ Popping(f)' = FALSE
  BY <1>1 DEF Popping
<1>4. TypeOK' /\ KindInv'
  BY <1>1, <1>2 DEF IInv, TypeOK, KindInv
<1>5. CallInv'
  BY <1>1, <1>2 DEF CallInv
<1>6. ReadInv'
  BY <1>1, <1>2 DEF IInv, ReadInv, ReadTrusted, Waits, Finished
<1>7. WriteInv'
  <2>1. \A g \in DOMAIN fds : (WriteTrusted(g)' => WriteTrusted(g)) /\ Popping(g)' = Popping(g)
    BY <1>2, <1>3 DEF WriteTrusted
  <2> QED BY <1>1, <2>1, SameWrite DEF IInv
<1>8. CancelInv'
  BY <1>1, <1>2 DEF IInv, CancelInv, Waits
<1>9. OrphanInv'
  BY <1>1, <1>2, <1>3 DEF IInv, OrphanInv, Rest
<1> QED BY <1>4, <1>5, <1>6, <1>7, <1>8, <1>9 DEF IInv

\* cancel_fd() returns.
LEMMA CancelEndInv ==
  ASSUME IInv, CancelEnd PROVE IInv'
<1>1. /\ UNCHANGED <<fds, obj, open, pfds, at, call, scope, cancelq, seen>>
      /\ stage = "cancel" /\ stage' = "idle" /\ ~InCall /\ cancelq = <<>>
  BY DEF CancelEnd
<1>2. at' \in Fds /\ DOMAIN pfds' \subseteq Fds /\ \A f \in DOMAIN pfds' : pfds'[f] \subseteq {"in", "out"}
  BY <1>1 DEF IInv, TypeOK
<1> QED BY <1>1, <1>2, LoopStep DEF LoopStages

-----------------------------------------------------------------------------
(* ~Queue(). *)

\* The loop goes to an entry it has not been at.
LEMMA DtorNextInv ==
  ASSUME IInv, DtorNext PROVE IInv'
<1>1. PICK f \in DOMAIN fds \ seen :
        /\ UNCHANGED <<fds, obj, open, pfds, call, scope, cancelq>>
        /\ stage \in {"idle", "dtorNext"} /\ stage' = "dtorRead"
        /\ at' = f /\ seen' = seen \cup {f}
  BY DEF DtorNext
<1>2. ~InCall /\ ~InCall' /\ InDestructor' /\ cancelq = <<>> /\ f \in Fds
  <2>1. ~InCall /\ cancelq = <<>> /\ f \in Fds
    BY <1>1 DEF IInv, CallInv, CancelInv, TypeOK
  <2> QED BY <1>1, <2>1 DEF InCall, InDestructor
<1>3. TypeOK' /\ KindInv'
  BY <1>1, <1>2 DEF IInv, TypeOK, KindInv
<1>4. CallInv'
  BY <1>1, <1>2 DEF CallInv
<1>5. ReadInv'
  <2>1. ASSUME NEW g \in DOMAIN fds, ReadTrusted(g)' PROVE ReadTrusted(g)
    BY <1>1, <2>1 DEF ReadTrusted
  <2> QED BY <1>1, <1>2, <2>1 DEF IInv, ReadInv, Waits, Finished
<1>6. WriteInv'
  <2>1. \A g \in DOMAIN fds : (WriteTrusted(g)' => WriteTrusted(g)) /\ Popping(g)' = Popping(g)
    BY <1>1, <1>2 DEF WriteTrusted, Popping
  <2> QED BY <1>1, <2>1, SameWrite DEF IInv
<1>7. CancelInv'
  BY <1>1, <1>2 DEF CancelInv
<1>8. OrphanInv'
  BY <1>2 DEF OrphanInv
<1> QED BY <1>3, <1>4, <1>5, <1>6, <1>7, <1>8 DEF IInv

\* cancel() of an operation of the entry the loop is at: only that entry suffers.
LEMMA DtorResume ==
  ASSUME IInv, UNCHANGED <<fds, open, pfds, at, seen>>, ~InCall, cancelq' \in Seq(Addrs),
         \/ stage = "dtorRead" /\ stage' = "dtorReading"
         \/ stage = "dtorWrite" /\ stage' = "dtorWrite",
         NEW a \in Addrs, obj[a].fd = at, obj[a].op \in Ops,
         stage = "dtorRead" => obj[a].op # "send",
         NEW mark \in Nat, Resume(a, mark)
  PROVE  /\ TypeOK' /\ KindInv' /\ CallInv' /\ ReadInv' /\ WriteInv' /\ OrphanInv'
         /\ InDestructor' /\ \A b \in Addrs : b # a => obj'[b] = obj[b]
<1>1. MapType(fds) /\ obj \in [Addrs -> Obj] /\ InDestructor /\ InDestructor' /\ at \in seen
  <2>1. InDestructor /\ InDestructor'
    BY DEF InDestructor
  <2> QED BY <2>1, Types DEF IInv, CallInv
<1>2. /\ InCall' /\ call' \in [addr : Addrs, mark : Nat, op : {"accept", "stream", "send"}]
      /\ scope' \subseteq Fds /\ obj' \in [Addrs -> Obj] /\ KindInv'
      /\ \A b \in Addrs : b # a => obj'[b] = obj[b]
      /\ IF obj[a].op = "stream" THEN obj' = obj ELSE obj'[a].op = "none"
  BY Resumes
<1>3. TypeOK'
  BY <1>2 DEF IInv, TypeOK, Obj, Ops
<1>4. CallInv'
  BY <1>1, <1>2 DEF CallInv
<1>5. ReadInv'
  <2>1. ASSUME NEW g \in DOMAIN fds, ReadTrusted(g)', fds[g].read # Null
        PROVE  obj'[fds[g].read].op \in {"accept", "stream"} /\ obj'[fds[g].read].fd = g
    <3>1. g \notin seen /\ g # at
      BY <1>1, <2>1 DEF ReadTrusted
    <3>2. obj[fds[g].read].op \in {"accept", "stream"} /\ obj[fds[g].read].fd = g
      BY <2>1, <3>1 DEF IInv, ReadInv, ReadTrusted, Finished, Waits
    <3>3. fds[g].read \in Addrs /\ fds[g].read # a
      BY <1>1, <2>1, <3>1, <3>2 DEF MapType, State
    <3> QED BY <1>2, <3>2, <3>3
  <2> QED BY <2>1 DEF ReadInv, Waits
<1>6. WriteInv'
  <2>1. \A g : Popping(g) = FALSE /\ Popping(g)' = FALSE
    BY DEF Popping
  <2>2. ASSUME NEW g \in DOMAIN fds, WriteTrusted(g)'
        PROVE  /\ WriteTrusted(g)
               /\ \A j \in DOMAIN fds[g].writes : obj'[fds[g].writes[j]] = obj[fds[g].writes[j]]
    <3>1. WriteTrusted(g) /\ (g = at => stage = "dtorRead")
      BY <1>1, <2>2 DEF WriteTrusted
    <3>2. SendsOf(fds[g].writes, g, obj) /\ fds[g].writes \in Seq(Addrs)
      BY <1>1, <2>1, <3>1 DEF IInv, WriteInv, Rest, MapType, State
    <3>3. ASSUME NEW j \in DOMAIN fds[g].writes
          PROVE  fds[g].writes[j] \in Addrs /\ fds[g].writes[j] # a
      BY <3>1, <3>2 DEF SendsOf
    <3> QED BY <1>2, <3>1, <3>3
  <2>3. ASSUME NEW g \in DOMAIN fds'
        PROVE  /\ g \in DOMAIN fds /\ (WriteTrusted(g)' => WriteTrusted(g)) /\ Popping(g)' = FALSE
               /\ fds'[g].writes = Rest(fds[g].writes, Popping(g))
               /\ WriteTrusted(g)' =>
                    \A j \in DOMAIN fds'[g].writes :
                      obj'[fds'[g].writes[j]] = obj[fds'[g].writes[j]]
    <3>1. g \in DOMAIN fds /\ fds'[g].writes = fds[g].writes
      OBVIOUS
    <3> QED BY <2>1, <2>2, <3>1 DEF Rest
  <2> QED BY <2>3, OtherEnds
<1>7. OrphanInv'
  BY <1>1 DEF OrphanInv
<1> QED BY <1>1, <1>2, <1>3, <1>4, <1>5, <1>6, <1>7

\* The loop begins to iterate the write queue of the entry it is at.
LEMMA DtorQueue ==
  ASSUME IInv, UNCHANGED <<fds, obj, open, pfds, at, seen>>, ~InCall', scope' \subseteq Fds,
         at \in DOMAIN fds, stage \in {"dtorRead", "dtorReading"}, stage' = "dtorWrite",
         cancelq' = fds[at].writes
  PROVE  IInv'
<1>1. MapType(fds) /\ obj \in [Addrs -> Obj] /\ InDestructor /\ InDestructor' /\ at \in seen
  <2>1. InDestructor /\ InDestructor'
    BY DEF InDestructor
  <2> QED BY <2>1, Types DEF IInv, CallInv
<1>2. \A g : Popping(g) = FALSE /\ Popping(g)' = FALSE
  BY DEF Popping
<1>3. SendsOf(fds[at].writes, at, obj) /\ fds[at].writes \in Seq(Addrs)
  <2>1. WriteTrusted(at)
    BY DEF WriteTrusted
  <2> QED BY <1>1, <1>2, <2>1 DEF IInv, WriteInv, Rest, MapType, State
<1>4. TypeOK' /\ KindInv'
  BY <1>3 DEF IInv, TypeOK, KindInv
<1>5. CallInv'
  BY <1>1 DEF CallInv
<1>6. ReadInv'
  <2>1. ASSUME NEW g \in DOMAIN fds, ReadTrusted(g)' PROVE ReadTrusted(g)
    BY <2>1 DEF ReadTrusted
  <2> QED BY <2>1 DEF IInv, ReadInv, Waits, Finished
<1>7. WriteInv'
  <2>1. \A g \in DOMAIN fds : (WriteTrusted(g)' => WriteTrusted(g)) /\ Popping(g)' = Popping(g)
    BY <1>2 DEF WriteTrusted
  <2> QED BY <2>1, SameWrite DEF IInv
<1>8. CancelInv'
  BY <1>3 DEF CancelInv, SendsOf, Waits, Ops
<1>9. OrphanInv'
  BY <1>1 DEF OrphanInv
<1> QED BY <1>4, <1>5, <1>6, <1>7, <1>8, <1>9 DEF IInv

\* cancel() of the read operation of the entry, if there is one.
LEMMA DtorReadInv ==
  ASSUME IInv, DtorRead PROVE IInv'
<1>1. UNCHANGED <<fds, open, pfds, at, seen>> /\ stage = "dtorRead"
  BY DEF DtorRead
<1>2. ~InCall /\ at \in DOMAIN fds /\ MapType(fds) /\ cancelq = <<>>
  BY <1>1, Types DEF IInv, CallInv, CancelInv
<1>3. CASE fds[at].read # Null
  <2>1. Resume(fds[at].read, 0) /\ stage' = "dtorReading" /\ cancelq' = cancelq
    BY <1>3 DEF DtorRead
  <2>2. PICK a \in Addrs : a = fds[at].read
    BY <1>2, <1>3 DEF MapType, State
  <2>3. obj[a].op \in {"accept", "stream"} /\ obj[a].fd = at
    BY <1>1, <1>2, <1>3, <2>2 DEF IInv, ReadInv, ReadTrusted, Finished, Waits
  <2>4. /\ Resume(a, 0) /\ 0 \in Nat /\ obj[a].op \in Ops /\ obj[a].op # "send"
        /\ cancelq' \in Seq(Addrs) /\ stage' = "dtorReading"
    BY <1>2, <2>1, <2>2, <2>3 DEF Ops
  <2>5. TypeOK' /\ KindInv' /\ CallInv' /\ ReadInv' /\ WriteInv' /\ OrphanInv'
    BY <1>1, <1>2, <2>3, <2>4, DtorResume
  <2>6. CancelInv'
    BY <1>2, <2>1 DEF CancelInv
  <2> QED BY <2>5, <2>6 DEF IInv
<1>4. CASE fds[at].read = Null
  <2>1. stage' = "dtorWrite" /\ cancelq' = fds[at].writes /\ UNCHANGED <<obj, call, scope>>
    BY <1>4 DEF DtorRead
  <2>2. ~InCall' /\ scope' \subseteq Fds
    BY <1>2, <2>1 DEF IInv, TypeOK, InCall
  <2> QED BY <1>1, <1>2, <2>1, <2>2, DtorQueue
<1> QED BY <1>3, <1>4

\* cancel() of the read operation returns and the entry is still there.
LEMMA DtorReadReturnInv ==
  ASSUME IInv, DtorReadReturn PROVE IInv'
<1>1. /\ UNCHANGED <<fds, obj, open, pfds, at, seen>> /\ stage = "dtorReading"
      /\ at \in DOMAIN fds /\ stage' = "dtorWrite" /\ cancelq' = fds[at].writes
      /\ call' = NoCall /\ scope' = {}
  BY DEF DtorReadReturn, Has
<1>2. ~InCall' /\ scope' \subseteq Fds
  BY <1>1 DEF InCall
<1> QED BY <1>1, <1>2, DtorQueue

\* cancel() of the next send of the entry, if there is one.
LEMMA DtorWriteInv ==
  ASSUME IInv, DtorWrite PROVE IInv'
<1>1. UNCHANGED <<fds, open, pfds, at, seen>> /\ stage = "dtorWrite" /\ ~InCall
  BY DEF DtorWrite
<1>2. at \in DOMAIN fds /\ MapType(fds) /\ cancelq \in Seq(Addrs) /\ InDestructor /\ at \in seen
  <2>1. InDestructor
    BY <1>1 DEF InDestructor
  <2> QED BY <1>1, <2>1, Types DEF IInv, CallInv
<1>3. CASE cancelq # <<>>
  <2>1. /\ Resume(Head(cancelq), Len(fds[at].writes)) /\ stage' = "dtorWrite"
        /\ cancelq' = Tail(cancelq)
    BY <1>1, <1>3 DEF DtorWrite
  <2>2. PICK n \in Nat : n = Len(fds[at].writes)
    BY <1>2 DEF MapType, State
  <2>3. /\ Len(cancelq) \in Nat \ {0} /\ DOMAIN cancelq = 1..Len(cancelq)
        /\ 1 \in DOMAIN cancelq /\ Head(cancelq) = cancelq[1]
    BY <1>2, <1>3
  <2>4. PICK a \in Addrs : a = Head(cancelq) /\ a = cancelq[1]
    BY <1>2, <2>3
  <2>5. obj[a].op = "send" /\ obj[a].fd = at
    BY <1>2, <2>3, <2>4 DEF IInv, CancelInv, Waits
  <2>6. PICK t \in Seq(Addrs) :
          /\ t = cancelq' /\ DOMAIN t = 1..(Len(cancelq) - 1)
          /\ \A i \in DOMAIN t : t[i] = cancelq[i + 1]
    <3>1. /\ Tail(cancelq) \in Seq(Addrs) /\ Len(Tail(cancelq)) = Len(cancelq) - 1
          /\ \A i \in 1..(Len(cancelq) - 1) : Tail(cancelq)[i] = cancelq[i + 1]
      BY <1>2, <1>3, TailFacts
    <3>2. DOMAIN Tail(cancelq) = 1..(Len(cancelq) - 1)
      BY <3>1
    <3> QED BY <2>1, <3>1, <3>2
  <2>7. \A i \in DOMAIN t : i + 1 \in DOMAIN cancelq /\ i + 1 # 1 /\ t[i] = cancelq[i + 1]
    BY <2>3, <2>6
  <2>8. \A i \in DOMAIN t : t[i] # a /\ t[i] \in Addrs /\ obj[t[i]].op = "send" /\ obj[t[i]].fd = at
    BY <1>2, <2>3, <2>4, <2>7 DEF IInv, CancelInv, Waits
  <2>9. Resume(a, n) /\ obj[a].op \in Ops /\ cancelq' \in Seq(Addrs) /\ stage' = "dtorWrite"
    BY <2>1, <2>2, <2>4, <2>5, <2>6 DEF Ops
  <2>10. /\ TypeOK' /\ KindInv' /\ CallInv' /\ ReadInv' /\ WriteInv' /\ OrphanInv'
         /\ InDestructor' /\ \A b \in Addrs : b # a => obj'[b] = obj[b]
    BY <1>1, <2>5, <2>9, DtorResume
  <2>11. CancelInv'
    <3>1. ASSUME NEW i \in DOMAIN t, NEW j \in DOMAIN t, t[i] = t[j] PROVE i = j
      <4>1. i + 1 = j + 1
        BY <2>7, <3>1 DEF IInv, CancelInv
      <4> QED BY <2>6, <4>1
    <3>2. \A i \in DOMAIN t : obj'[t[i]].op = "send" /\ obj'[t[i]].fd = at
      BY <2>8, <2>10
    <3>3. stage' = "dtorWrite" /\ at' = at /\ cancelq' = t
      BY <1>1, <2>6, <2>9
    <3> QED BY <3>1, <3>2, <3>3 DEF CancelInv, Waits, Ops
  <2> QED BY <2>10, <2>11 DEF IInv
<1>4. CASE cancelq = <<>>
  <2>1. stage' = "dtorNext" /\ UNCHANGED <<cancelq, obj, call, scope>>
    BY <1>4 DEF DtorWrite
  <2>2. ~InCall' /\ InDestructor'
    BY <1>1, <2>1 DEF InCall, InDestructor
  <2>3. TypeOK' /\ KindInv'
    BY <1>1, <2>1, <2>2 DEF IInv, TypeOK, KindInv
  <2>4. CallInv'
    BY <1>1, <1>2, <2>1, <2>2 DEF CallInv
  <2>5. ReadInv'
    BY <1>1, <2>1 DEF IInv, ReadInv, ReadTrusted, Waits, Finished
  <2>6. WriteInv'
    <3>1. \A g \in DOMAIN fds : (WriteTrusted(g)' => WriteTrusted(g)) /\ Popping(g)' = Popping(g)
      BY <1>1, <2>1 DEF WriteTrusted, Popping
    <3> QED BY <1>1, <2>1, <3>1, SameWrite DEF IInv
  <2>7. CancelInv'
    BY <1>4, <2>1 DEF CancelInv
  <2>8. OrphanInv'
    BY <2>2 DEF OrphanInv
  <2> QED BY <2>3, <2>4, <2>5, <2>6, <2>7, <2>8 DEF IInv
<1> QED BY <1>3, <1>4

\* cancel() of a send returns and the queue is as it was.
LEMMA DtorWriteReturnInv ==
  ASSUME IInv, DtorWriteReturn PROVE IInv'
<1>1. /\ UNCHANGED <<fds, obj, open, pfds, at, stage, cancelq, seen>>
      /\ stage = "dtorWrite" /\ at \in DOMAIN fds /\ call' = NoCall /\ scope' = {}
  BY DEF DtorWriteReturn, loopVars, Has
<1>2. ~InCall' /\ InDestructor /\ InDestructor' /\ at \in seen
  <2>1. ~InCall' /\ InDestructor /\ InDestructor'
    BY <1>1 DEF InCall, InDestructor
  <2> QED BY <2>1 DEF IInv, CallInv
<1>3. TypeOK' /\ KindInv'
  BY <1>1, <1>2 DEF IInv, TypeOK, KindInv
<1>4. CallInv'
  BY <1>1, <1>2 DEF CallInv
<1>5. ReadInv'
  BY <1>1 DEF IInv, ReadInv, ReadTrusted, Waits, Finished
<1>6. WriteInv'
  <2>1. \A g \in DOMAIN fds : (WriteTrusted(g)' => WriteTrusted(g)) /\ Popping(g)' = Popping(g)
    BY <1>1 DEF WriteTrusted, Popping
  <2> QED BY <1>1, <2>1, SameWrite DEF IInv
<1>7. CancelInv'
  BY <1>1, <1>2 DEF IInv, CancelInv, Waits
<1>8. OrphanInv'
  BY <1>2 DEF OrphanInv
<1> QED BY <1>3, <1>4, <1>5, <1>6, <1>7, <1>8 DEF IInv

-----------------------------------------------------------------------------
(* The theorems. *)

\* The accept loop's first accept is registered.
LEMMA InitInv ==
  ASSUME Init PROVE IInv
<1>1. /\ fds = [f \in {Listen} |-> [read |-> 1, gen |-> 1, writes |-> <<>>]]
      /\ obj = [a \in Addrs |-> IF a = 1 THEN [op |-> "accept", fd |-> Listen] ELSE Free]
      /\ open = {} /\ pfds = <<>> /\ at = Listen /\ stage = "idle" /\ call = NoCall
      /\ scope = {} /\ cancelq = <<>> /\ seen = {}
  BY DEF Init
<1>2. 1 \in Addrs /\ 1 # Null /\ 1 \in 0..MaxGen /\ Listen \in Fds
  BY QueueAssumption DEF Init, Addrs, Null, Fds
<1>3. <<>> \in Seq(Addrs) /\ DOMAIN <<>> = {}
  OBVIOUS
<1>4. ~InCall /\ ~InDestructor
  BY <1>1 DEF InCall, InDestructor
<1>5. /\ DOMAIN fds = {Listen} /\ fds[Listen].read = 1 /\ fds[Listen].gen = 1
      /\ fds[Listen].writes = <<>>
      /\ fds[Listen] \in [read : Addrs \cup {Null}, gen : 0..MaxGen, writes : Seq(Addrs)]
  BY <1>1, <1>2, <1>3
<1>6. /\ obj \in [Addrs -> [op : {"none", "accept", "stream", "send"}, fd : Fds]]
      /\ obj[1].op = "accept" /\ obj[1].fd = Listen
      /\ \A a \in Addrs : a # 1 => obj[a].op = "none"
  BY <1>1, <1>2 DEF Free
<1>7. TypeOK
  BY <1>1, <1>2, <1>3, <1>4, <1>5, <1>6 DEF TypeOK
<1>8. KindInv
  BY <1>6 DEF KindInv
<1>9. CallInv
  BY <1>1, <1>4 DEF CallInv
<1>10. ReadInv
  BY <1>5, <1>6 DEF ReadInv, Waits
<1>11. WriteInv
  <2>1. Popping(Listen) = FALSE
    BY <1>4 DEF Popping
  <2> QED BY <1>3, <1>5, <2>1 DEF WriteInv, Rest, SendsOf
<1>12. CancelInv
  BY <1>1, <1>3 DEF CancelInv
<1>13. OrphanInv
  <2>1. \A a \in Addrs : obj[a].op # "send" /\ (obj[a].op = "accept" => a = 1)
    BY <1>6
  <2> QED BY <1>5, <2>1 DEF OrphanInv
<1> QED BY <1>7, <1>8, <1>9, <1>10, <1>11, <1>12, <1>13 DEF IInv

\* step() preserves the invariant.
LEMMA StepInv ==
  ASSUME IInv, Step PROVE IInv'
<1>1. CASE Poll
  BY <1>1, PollInv
<1>2. CASE NextFd \/ ReadSkip \/ WriteSkip
  BY <1>2, QuietStepInv
<1>3. CASE ReadHalf
  <2>1. stage' = stage \/ stage' = "write"
    BY <1>3 DEF ReadHalf
  <2> QED BY <1>3, <2>1, ReadCallInv, QuietStepInv
<1>4. CASE ReadReturn
  BY <1>4, ReadReturnInv
<1>5. CASE WriteHalf
  <2>1. stage' = stage \/ stage' = "erase"
    BY <1>5 DEF WriteHalf
  <2> QED BY <1>5, <2>1, WriteCallInv, QuietStepInv
<1>6. CASE WriteReturn
  BY <1>6, WriteReturnInv
<1>7. CASE EraseEntry
  BY <1>7, EraseEntryInv
<1> QED BY <1>1, <1>2, <1>3, <1>4, <1>5, <1>6, <1>7 DEF Step

\* So does every step.
LEMMA NextInv ==
  ASSUME IInv, [Next]_vars PROVE IInv'
<1>1. CASE Step
  BY <1>1, StepInv
<1>2. CASE Reenter
  <2>1. CASE ArmAccept
    BY <2>1, ArmAcceptInv
  <2>2. ASSUME NEW f \in Conns, OpenConn(f) PROVE IInv'
    BY <2>2, OpenConnInv
  <2>3. ASSUME NEW f \in Conns, StartSend(f) PROVE IInv'
    BY <2>3, StartSendInv
  <2>4. ASSUME NEW f \in Conns, CloseStream(f) PROVE IInv'
    BY <2>4, CloseStreamInv
  <2>5. ASSUME NEW f \in Conns, CloseFd(f) PROVE IInv'
    BY <2>5, CloseFdInv
  <2> QED BY <1>2, <2>1, <2>2, <2>3, <2>4, <2>5 DEF Reenter
<1>3. CASE Cancel
  <2>1. ASSUME NEW f \in Fds, CancelFd(f) PROVE IInv'
    BY <2>1, CancelFdInv
  <2>2. CASE CancelNext
    BY <2>2, CancelNextInv
  <2>3. CASE CancelReturn
    BY <2>3, CancelReturnInv
  <2>4. CASE CancelEnd
    BY <2>4, CancelEndInv
  <2> QED BY <1>3, <2>1, <2>2, <2>3, <2>4 DEF Cancel
<1>4. CASE Destructor
  BY <1>4, DtorNextInv, DtorReadInv, DtorReadReturnInv, DtorWriteInv, DtorWriteReturnInv
  DEF Destructor
<1>5. CASE UNCHANGED vars
  <2>1. UNCHANGED <<fds, obj, open, pfds, at, stage, call, scope, cancelq, seen>>
    BY <1>5 DEF vars
  <2>2. /\ InCall' = InCall /\ InDestructor' = InDestructor
        /\ \A f : Popping(f)' = Popping(f) /\ (WriteTrusted(f)' => WriteTrusted(f))
    BY <2>1 DEF InCall, InDestructor, Popping, WriteTrusted
  <2>3. TypeOK' /\ KindInv' /\ CallInv'
    BY <2>1, <2>2 DEF IInv, TypeOK, KindInv, CallInv
  <2>4. ReadInv'
    BY <2>1, <2>2 DEF IInv, ReadInv, ReadTrusted, Waits, Finished
  <2>5. WriteInv'
    BY <2>1, <2>2, SameWrite DEF IInv
  <2>6. CancelInv'
    BY <2>1, <2>2 DEF IInv, CancelInv, Waits
  <2>7. OrphanInv'
    BY <2>1, <2>2 DEF IInv, OrphanInv, Rest
  <2> QED BY <2>3, <2>4, <2>5, <2>6, <2>7 DEF IInv
<1> QED BY <1>1, <1>2, <1>3, <1>4, <1>5 DEF Next

\* IInv is an invariant.
LEMMA IInvHolds == Spec => []IInv
<1>1. Init => IInv
  BY InitInv
<1>2. IInv /\ [Next]_vars => IInv'
  BY NextInv
<1> QED BY <1>1, <1>2, PTL DEF Spec

\* The variables keep their types, whatever coroutines do in the middle of step().
THEOREM TypeCorrect == Spec => []TypeOK
<1>1. IInv => TypeOK
  BY DEF IInv
<1> QED BY <1>1, IInvHolds, PTL

\* While the front's on_ready() runs, it is the front that will be popped.
LEMMA DueRest ==
  ASSUME IInv PROVE \A f \in DOMAIN fds : Due(f) = Rest(fds[f].writes, Popping(f))
BY DEF IInv, CallInv, Due, Rest, Popping

(***************************************************************************)
(* _fds and cancel_fd()'s copy never hold a dangling pointer that step()   *)
(* or cancel_fd() would call: libc_queue.cpp's step() compares generations *)
(* and the front's address after each on_ready(), which is enough whatever *)
(* addresses the resumed coroutines reuse.                                 *)
(***************************************************************************)
THEOREM NoDanglingHolds == Spec => []NoDangling
<1>1. ASSUME IInv PROVE NoDangling
  <2>1. SUFFICES ASSUME ~InDestructor PROVE NoDangling
    BY DEF NoDangling
  <2>2. seen = {}
    BY <1>1, <2>1 DEF IInv, CallInv
  <2>3. ASSUME NEW f \in DOMAIN fds, fds[f].read # Null
        PROVE  \/ Waits(fds[f].read, f, {"accept", "stream"})
               \/ stage = "read" /\ InCall /\ at = f /\ call.op = "accept"
                    /\ call.mark = fds[f].gen
    BY <1>1, <2>2, <2>3 DEF IInv, ReadInv, ReadTrusted, Finished
  <2>4. ASSUME NEW f \in DOMAIN fds
        PROVE  \A i \in DOMAIN Due(f) : Waits(Due(f)[i], f, {"send"})
    <3>1. WriteTrusted(f) /\ Due(f) = Rest(fds[f].writes, Popping(f))
      BY <1>1, <2>2, DueRest DEF WriteTrusted
    <3>2. SendsOf(Due(f), f, obj)
      BY <1>1, <3>1 DEF IInv, WriteInv
    <3> QED BY <3>2 DEF SendsOf, Waits
  <2>5. \A i \in DOMAIN cancelq : Waits(cancelq[i], at, {"accept", "stream", "send"})
    BY <1>1 DEF IInv, CancelInv, Ops
  <2> QED BY <2>3, <2>4, <2>5 DEF NoDangling
<1> QED BY <1>1, IInvHolds, PTL

(***************************************************************************)
(* Every accept and every send that a coroutine waits for is in _fds,      *)
(* once, or in cancel_fd()'s copy: the reuse of an address, an operation   *)
(* re-armed inside its own on_ready(), or an entry erased and made again,  *)
(* never makes step() forget one that has not finished.                    *)
(***************************************************************************)
THEOREM NoOrphanHolds == Spec => []NoOrphan
<1>1. ASSUME IInv PROVE NoOrphan
  <2>1. SUFFICES ASSUME ~InDestructor, NEW a \in Addrs
                 PROVE  /\ obj[a].op = "accept" =>
                             \/ Has(fds, obj[a].fd) /\ fds[obj[a].fd].read = a
                             \/ a \in ToSet(cancelq)
                        /\ obj[a].op = "send" =>
                             \/ /\ Has(fds, obj[a].fd)
                                /\ Cardinality({i \in DOMAIN Due(obj[a].fd) :
                                                  Due(obj[a].fd)[i] = a}) = 1
                             \/ a \in ToSet(cancelq)
    BY DEF NoOrphan
  <2>2. (\E i \in DOMAIN cancelq : cancelq[i] = a) => a \in ToSet(cancelq)
    BY DEF ToSet
  <2>3. ASSUME obj[a].op = "accept"
        PROVE  \/ Has(fds, obj[a].fd) /\ fds[obj[a].fd].read = a
               \/ a \in ToSet(cancelq)
    BY <1>1, <2>1, <2>2, <2>3 DEF IInv, KindInv, OrphanInv, Has
  <2>4. ASSUME obj[a].op = "send"
        PROVE  \/ /\ Has(fds, obj[a].fd)
                  /\ Cardinality({i \in DOMAIN Due(obj[a].fd) : Due(obj[a].fd)[i] = a}) = 1
               \/ a \in ToSet(cancelq)
    <3>1. PICK f : f = obj[a].fd
      OBVIOUS
    <3>2. CASE f \in DOMAIN fds /\ \E i \in DOMAIN Rest(fds[f].writes, Popping(f)) :
                                     Rest(fds[f].writes, Popping(f))[i] = a
      <4>1. WriteTrusted(f)
        BY <1>1, <2>1 DEF IInv, CallInv, WriteTrusted
      <4>2. PICK q : q = Due(f) /\ q = Rest(fds[f].writes, Popping(f))
        BY <1>1, <3>2, DueRest
      <4>3. SendsOf(q, f, obj)
        BY <1>1, <3>2, <4>1, <4>2 DEF IInv, WriteInv
      <4>4. PICK i \in DOMAIN q : q[i] = a
        BY <3>2, <4>2
      <4>5. {j \in DOMAIN q : q[j] = a} = {i}
        BY <4>3, <4>4 DEF SendsOf
      <4>6. Cardinality({i}) = 1
        BY FS_Singleton
      <4> QED BY <3>1, <3>2, <4>2, <4>5, <4>6 DEF Has
    <3>3. CASE \E i \in DOMAIN cancelq : cancelq[i] = a
      BY <2>2, <3>3
    <3> QED BY <1>1, <2>1, <2>4, <3>1, <3>2, <3>3 DEF IInv, OrphanInv
  <2> QED BY <2>3, <2>4
<1> QED BY <1>1, IInvHolds, PTL
=============================================================================
