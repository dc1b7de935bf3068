--------------------------- MODULE EpollEchoProofs ---------------------------
(***************************************************************************)
(* What TLAPS proves of EpollEcho for every number of clients, however     *)
(* much they send, every size of the read buffer, of the windows and of    *)
(* the array of events: the server's count of its descriptors is right and *)
(* fits the array, and no call on an event of a batch blocks.              *)
(***************************************************************************)
EXTENDS EpollEcho, FiniteSetTheorems, TLAPS

\* The assumptions on the constants, and what tells the listening socket from
\* a connection.
LEMMA Bounds ==
  /\ N \in Nat /\ MaxSend \in Nat
  /\ ReadSize \in Nat /\ ReadSize > 0
  /\ Window \in Nat /\ Window > 0 /\ MaxFds \in Nat /\ MaxFds > 0
  /\ Listening \notin Conns
  BY EpollEchoAssumption DEF Listening, Conns

-----------------------------------------------------------------------------
(***************************************************************************)
(* The inductive invariant.                                                *)
(***************************************************************************)
\* The server has registered what epoll knows of: a descriptor leaves the
\* ready list and the batch before it is closed.
Registered(S) ==
  /\ Listening \in S => listening
  /\ \A k \in Conns : k \in S => conn[k] = "open"

\* Where main() is says whether the batch has events left, and a reply is
\* written for an event of the batch.
Batches ==
  /\ batch # {} <=> pc = "event"
  /\ replying \subseteq batch
  /\ Registered(ready) /\ Registered(batch)
  /\ \A f \in batch \ replying : Readable(f)

\* A connection exists when its client has connected, and no more is waiting
\* to be read from it than was sent.
Streams == \A k \in Conns : /\ peer[k] = "new" => conn[k] = "new"
                            /\ input[k] <= sent[k]

EchoInv == TypeOK /\ Batches /\ Streams /\ CurFdsCounts /\ EventsFitArray

OpenConns == {k \in Conns : conn[k] = "open"}

\* There are at most N open connections.
LEMMA OpenConnsFinite ==
  /\ IsFiniteSet(OpenConns)
  /\ Cardinality(OpenConns) \in 0..N
<1>1. IsFiniteSet(Conns) /\ Cardinality(Conns) = N
  BY Bounds, FS_Interval DEF Conns
<1>2. OpenConns \in SUBSET Conns
  BY DEF OpenConns
<1>3. IsFiniteSet(OpenConns) /\ Cardinality(OpenConns) <= N
  BY <1>1, <1>2, FS_Subset
<1>4. Cardinality(OpenConns) \in Nat
  BY <1>3, FS_CardinalityType
<1> QED BY Bounds, <1>3, <1>4

\* What CurFdsCounts says, in these terms, and what follows for cur_fds: it is
\* not more than the descriptors there are.
LEMMA CountIsOpen ==
  CurFdsCounts <=>
    (pc # "exited" => cur_fds = Cardinality(OpenConns) + (IF listening THEN 1 ELSE 0))
BY DEF CurFdsCounts, OpenConns

\* The counter never passes the listening socket and the N connections.
LEMMA CountBounds ==
  ASSUME CurFdsCounts, listening \in BOOLEAN, pc # "exited"
  PROVE  cur_fds \in 0..N + 1
BY CountIsOpen, OpenConnsFinite, Bounds

\* Nothing is open but the listening socket.
LEMMA InitInv == Init => EchoInv
<1> SUFFICES ASSUME Init PROVE EchoInv
  OBVIOUS
<1> USE Bounds DEF Init
<1>1. TypeOK /\ Batches /\ Streams /\ EventsFitArray
  BY DEF TypeOK, Batches, Registered, Streams, EventsFitArray
<1>2. {k \in Conns : conn[k] = "open"} = {}
  OBVIOUS
<1>3. CurFdsCounts
  BY <1>2, FS_EmptySet DEF CurFdsCounts
<1> QED BY <1>1, <1>3 DEF EchoInv

-----------------------------------------------------------------------------
\* A client's step leaves the server's counters and its batch alone.  It may
\* put a registered descriptor on the ready list, and what was there to read
\* stays there.
LEMMA ClientSteps ==
  ASSUME EchoInv, NEW k \in Conns, Client(k)
  PROVE  EchoInv'
<1> USE Bounds
<1>a. TypeOK /\ Batches /\ Streams /\ CurFdsCounts /\ EventsFitArray
  BY DEF EchoInv
<1>1. TypeOK' /\ Streams'
  <2>1. CASE Connect(k)
    BY <1>a, <2>1 DEF Connect, TypeOK, Streams
  <2>2. CASE Receive(k)
    BY <1>a, <2>2 DEF Receive, TypeOK, Streams, SocketVars, EpollVars
  <2>3. CASE Close(k)
    BY <1>a, <2>3 DEF Close, Wake, TypeOK, Streams
  <2>4. ASSUME NEW n \in 1..MaxSend, Send(k, n) PROVE TypeOK' /\ Streams'
    BY <1>a, <2>4 DEF Send, Wake, TypeOK, Streams
  <2> QED BY <2>1, <2>2, <2>3, <2>4 DEF Client
<1> DEFINE KeepsServer ==
             /\ UNCHANGED <<listening, batch, replying, pc, cur_fds>>
             /\ \A j \in Conns : conn'[j] = "open" <=> conn[j] = "open"
             /\ \A j \in Conns : conn[j] = "queued" => conn'[j] = "queued"
             /\ \A j \in Conns : /\ input'[j] >= input[j]
                                 /\ down[j] # "no" => down'[j] # "no"
             /\ \A f \in ready' : \/ f \in ready
                                  \/ f = Listening /\ listening
                                  \/ f = k /\ conn[k] = "open"
<1>2. KeepsServer
  <2>1. CASE Connect(k)
    BY <1>a, <2>1 DEF Connect, TypeOK, Streams
  <2>2. CASE Receive(k)
    BY <1>a, <2>2 DEF Receive, TypeOK, SocketVars, EpollVars
  <2>3. CASE Close(k)
    BY <1>a, <2>3 DEF Close, Wake, TypeOK
  <2>4. ASSUME NEW n \in 1..MaxSend, Send(k, n) PROVE KeepsServer
    BY <1>a, <2>4 DEF Send, Wake, TypeOK
  <2> QED BY <2>1, <2>2, <2>3, <2>4 DEF Client
<1> HIDE DEF KeepsServer
<1>3. \A f \in {Listening} \cup Conns : Readable(f) => Readable(f)'
  BY <1>a, <1>1, <1>2 DEF KeepsServer, Readable, Queued, TypeOK
<1>4. Batches'
  BY <1>a, <1>2, <1>3 DEF KeepsServer, Batches, Registered, TypeOK
<1>5. CurFdsCounts' /\ EventsFitArray'
  <2>1. {j \in Conns : conn'[j] = "open"} = {j \in Conns : conn[j] = "open"}
    BY <1>2 DEF KeepsServer
  <2> QED BY <1>a, <1>2, <2>1 DEF KeepsServer, CurFdsCounts, EventsFitArray
<1> QED BY <1>1, <1>4, <1>5 DEF EchoInv

-----------------------------------------------------------------------------
(***************************************************************************)
(* The server.  The lemmas say what its steps have in common.              *)
(***************************************************************************)
\* When the process ends nothing is registered any more.
LEMMA ExitInv == EchoInv /\ Exit => EchoInv'
<1> SUFFICES ASSUME EchoInv, Exit PROVE EchoInv'
  OBVIOUS
<1>a. TypeOK /\ Streams /\ EventsFitArray
  BY DEF EchoInv
<1>1. /\ pc' = "exited" /\ listening' = FALSE
      /\ ready' = {} /\ batch' = {} /\ replying' = {}
      /\ conn' = [k \in Conns |-> IF conn[k] = "new" THEN "new" ELSE "closed"]
      /\ UNCHANGED <<peer, sent, replies, input, down, cur_fds>>
  BY DEF Exit, ClientVars
<1>2. TypeOK' /\ Streams'
  BY <1>a, <1>1 DEF TypeOK, Streams
<1> QED BY <1>a, <1>1, <1>2
        DEF EchoInv, Batches, Registered, CurFdsCounts, EventsFitArray

\* An event done with leaves the batch, and only then is its descriptor
\* closed or its input gone.
LEMMA NextEventBatches ==
  ASSUME EchoInv, NEW f \in {Listening} \cup Conns, f \in batch, replying \subseteq {f},
         NextEvent(f), Registered(ready)',
         \A g \in batch \ {f} : Readable(g) => Readable(g)',
         Listening \in batch \ {f} => listening',
         \A k \in Conns : k \in batch \ {f} => conn'[k] = "open"
  PROVE  /\ Batches'
         /\ batch' \subseteq {Listening} \cup Conns
         /\ replying' = {} /\ pc' \in {"wait", "event"}
         /\ pc # "exited"
<1>1. TypeOK /\ Batches
  BY DEF EchoInv
<1>2. batch' = batch \ {f} /\ replying' = {} /\ pc' = IF batch' = {} THEN "wait" ELSE "event"
  BY DEF NextEvent
<1> QED BY <1>1, <1>2 DEF TypeOK, Batches, Registered

\* epoll_wait hands over descriptors that are registered and readable.
LEMMA EpollWaitInv == EchoInv /\ EpollWait => EchoInv'
<1> SUFFICES ASSUME EchoInv, EpollWait PROVE EchoInv'
  OBVIOUS
<1>a. TypeOK /\ Batches /\ Streams /\ CurFdsCounts /\ EventsFitArray
  BY DEF EchoInv
<1>1. /\ pc = "wait" /\ pc' = IF batch' = {} THEN "wait" ELSE "event"
      /\ UNCHANGED <<peer, sent, replies, conn, input, down, listening, replying, cur_fds>>
      /\ batch' \subseteq ready /\ ready' \subseteq ready
      /\ \A f \in batch' : Readable(f)
  BY DEF EpollWait, kSubset, ClientVars, SocketVars
<1>2. replying = {}
  BY <1>a, <1>1 DEF Batches
<1>3. \A f : Readable(f) => Readable(f)'
  BY <1>1 DEF Readable, Queued
<1>4. TypeOK'
  BY <1>a, <1>1 DEF TypeOK
<1>5. Batches'
  BY <1>a, <1>1, <1>2, <1>3 DEF Batches, Registered
<1> QED BY <1>a, <1>1, <1>4, <1>5
        DEF EchoInv, Streams, CurFdsCounts, EventsFitArray

\* An accepted connection is one more, and the accept condition left room.
LEMMA AcceptInv == EchoInv /\ Accept => EchoInv'
<1> SUFFICES ASSUME EchoInv, Accept PROVE EchoInv'
  OBVIOUS
<1> USE Bounds
<1>a. TypeOK /\ Batches /\ Streams /\ CurFdsCounts /\ EventsFitArray
  BY DEF EchoInv
<1>1. PICK k \in Queued :
        /\ conn' = [conn EXCEPT ![k] = "open"]
        /\ ready' = IF Readable(k) THEN ready \cup {k} ELSE ready
  BY DEF Accept
<1>2. /\ pc = "event" /\ replying = {} /\ Listening \in batch /\ cur_fds < MaxFds
      /\ cur_fds' = cur_fds + 1 /\ NextEvent(Listening)
      /\ UNCHANGED <<peer, sent, replies, input, down, listening>>
  BY DEF Accept, Event, ClientVars
<1>3. k \in Conns /\ conn[k] = "queued"
  BY DEF Queued
<1>4. Registered(ready)'
  BY <1>a, <1>1, <1>2, <1>3 DEF Batches, Registered, TypeOK
<1>5. \A j \in Conns : Readable(j) => Readable(j)'
  BY <1>2 DEF Readable
<1>6. /\ Batches'
      /\ batch' \subseteq {Listening} \cup Conns
      /\ replying' = {} /\ pc' \in {"wait", "event"}
  <2>1. \A g \in batch \ {Listening} : Readable(g) => Readable(g)'
    BY <1>a, <1>5 DEF TypeOK
  <2>2. \A j \in Conns : j \in batch \ {Listening} => conn'[j] = "open"
    BY <1>a, <1>1, <1>3 DEF Batches, Registered, TypeOK
  <2> QED BY <1>2, <1>4, <2>1, <2>2, NextEventBatches
<1>7. CurFdsCounts'
  <2>1. OpenConns' = OpenConns \cup {k} /\ k \notin OpenConns
    BY <1>a, <1>1, <1>3 DEF TypeOK, OpenConns
  <2>2. Cardinality(OpenConns') = Cardinality(OpenConns) + 1
    BY <2>1, OpenConnsFinite, FS_AddElement
  <2>3. cur_fds = Cardinality(OpenConns) + (IF listening THEN 1 ELSE 0)
    BY <1>a, <1>2, CountIsOpen
  <2>4. cur_fds' = Cardinality(OpenConns') + (IF listening' THEN 1 ELSE 0)
    BY <1>2, <2>2, <2>3, OpenConnsFinite
  <2>5. (CountIsOpen)'
    BY CountIsOpen, PTL
  <2> QED BY <2>4, <2>5
<1>8. cur_fds' \in 0..N + 1
  <2>1. (CurFdsCounts /\ listening \in BOOLEAN /\ pc # "exited" => cur_fds \in 0..N + 1)'
    BY CountBounds, PTL
  <2> QED BY <1>a, <1>2, <1>6, <1>7, <2>1 DEF TypeOK
<1>9. TypeOK' /\ Streams' /\ EventsFitArray'
  BY <1>a, <1>1, <1>2, <1>3, <1>6, <1>8 DEF TypeOK, Streams, EventsFitArray
<1> QED BY <1>6, <1>7, <1>9 DEF EchoInv

\* At the limit the listening socket is closed, and counted out.
LEMMA CloseListeningInv == EchoInv /\ CloseListening => EchoInv'
<1> SUFFICES ASSUME EchoInv, CloseListening PROVE EchoInv'
  OBVIOUS
<1> USE Bounds
<1>a. TypeOK /\ Batches /\ Streams /\ CurFdsCounts /\ EventsFitArray
  BY DEF EchoInv
<1>1. /\ pc = "event" /\ replying = {} /\ Listening \in batch
      /\ listening' = FALSE
      /\ conn' = [k \in Conns |-> IF k \in Queued THEN "closed" ELSE conn[k]]
      /\ cur_fds' = cur_fds - 1 /\ NextEvent(Listening)
      /\ ready' = ready \ {Listening}
      /\ UNCHANGED <<peer, sent, replies, input, down>>
  BY DEF CloseListening, Event, ClientVars
<1>2. listening
  BY <1>a, <1>1 DEF Batches, Registered
<1>3. \A k \in Conns : conn'[k] = "open" <=> conn[k] = "open"
  BY <1>1 DEF Queued
<1>4. /\ Batches'
      /\ batch' \subseteq {Listening} \cup Conns
      /\ replying' = {} /\ pc' \in {"wait", "event"}
  <2>1. \A j \in Conns : Readable(j) => Readable(j)'
    BY <1>1 DEF Readable
  <2>2. \A g \in batch \ {Listening} : Readable(g) => Readable(g)'
    BY <1>a, <2>1 DEF TypeOK
  <2>3. Registered(ready)'
    BY <1>a, <1>1, <1>3 DEF Batches, Registered
  <2>4. \A k \in Conns : k \in batch \ {Listening} => conn'[k] = "open"
    BY <1>a, <1>3 DEF Batches, Registered
  <2> QED BY <1>1, <2>2, <2>3, <2>4, NextEventBatches
<1>5. OpenConns' = OpenConns
  BY <1>3 DEF OpenConns
<1>6. cur_fds = Cardinality(OpenConns) + 1
  BY <1>a, <1>1, <1>2, CountIsOpen
<1>7. cur_fds' = Cardinality(OpenConns')
  BY <1>1, <1>5, <1>6, OpenConnsFinite
<1>8. CurFdsCounts'
  <2>1. (CountIsOpen)'
    BY CountIsOpen, PTL
  <2>2. cur_fds' = Cardinality(OpenConns') + (IF listening' THEN 1 ELSE 0)
    BY <1>1, <1>5, <1>7, OpenConnsFinite
  <2> QED BY <2>1, <2>2
<1>9. TypeOK' /\ Streams' /\ EventsFitArray'
  <2>1. cur_fds \in 0..N + 1 /\ cur_fds > 0
    BY <1>a, <1>6, OpenConnsFinite DEF TypeOK
  <2>2. cur_fds' \in 0..N + 1 /\ cur_fds' <= MaxFds
    BY <1>a, <1>1, <2>1 DEF EventsFitArray
  <2>3. conn' \in [Conns -> {"new", "queued", "open", "closed"}]
    BY <1>a, <1>1 DEF TypeOK
  <2>4. Streams'
    BY <1>a, <1>1 DEF Streams, Queued
  <2>5. TypeOK'
    BY <1>a, <1>1, <1>4, <2>2, <2>3 DEF TypeOK
  <2> QED BY <2>2, <2>4, <2>5 DEF EventsFitArray
<1> QED BY <1>4, <1>8, <1>9 DEF EchoInv

\* What is read stays a registered event until the reply is written.
LEMMA ReadDataInv == ASSUME EchoInv, NEW k \in Conns, ReadData(k) PROVE EchoInv'
<1> USE Bounds
<1>a. TypeOK /\ Batches /\ Streams /\ CurFdsCounts /\ EventsFitArray
  BY DEF EchoInv
<1>1. /\ pc = "event" /\ replying = {} /\ k \in batch /\ replying' = {k}
      /\ input' = [input EXCEPT ![k] = IF @ > ReadSize THEN @ - ReadSize ELSE 0]
      /\ UNCHANGED <<peer, sent, replies, conn, down, listening, ready, batch, pc, cur_fds>>
  BY DEF ReadData, Event, ClientVars
<1>2. input' \in [Conns -> 0..MaxSend] /\ \A j \in Conns : input'[j] <= input[j]
  BY <1>a, <1>1 DEF TypeOK
<1>3. TypeOK'
  BY <1>a, <1>1, <1>2 DEF TypeOK
<1>4. Streams'
  BY <1>a, <1>1, <1>2 DEF Streams, TypeOK
<1>5. \A f \in batch \ {k} : Readable(f) => Readable(f)'
  BY <1>a, <1>1 DEF Readable, Queued, TypeOK
<1>6. Batches'
  BY <1>a, <1>1, <1>5 DEF Batches, Registered
<1> QED BY <1>a, <1>1, <1>3, <1>4, <1>6 DEF EchoInv, CurFdsCounts, EventsFitArray

\* A connection at its end is closed, and counted out.
LEMMA ReadEndInv == ASSUME EchoInv, NEW k \in Conns, ReadEnd(k) PROVE EchoInv'
<1> USE Bounds
<1>a. TypeOK /\ Batches /\ Streams /\ CurFdsCounts /\ EventsFitArray
  BY DEF EchoInv
<1>1. /\ pc = "event" /\ replying = {} /\ k \in batch
      /\ conn' = [conn EXCEPT ![k] = "closed"]
      /\ cur_fds' = cur_fds - 1 /\ NextEvent(k)
      /\ ready' = ready \ {k}
      /\ UNCHANGED <<peer, sent, replies, input, down, listening>>
  BY DEF ReadEnd, Event, ClientVars
<1>2. conn[k] = "open"
  BY <1>a, <1>1 DEF Batches, Registered
<1>3. \A j \in Conns \ {k} : conn'[j] = conn[j]
  BY <1>a, <1>1 DEF TypeOK
<1>4. /\ Batches'
      /\ batch' \subseteq {Listening} \cup Conns
      /\ replying' = {} /\ pc' \in {"wait", "event"}
  <2>1. Queued \subseteq Queued'
    BY <1>2, <1>3 DEF Queued
  <2>2. \A g \in batch \ {k} : Readable(g) => Readable(g)'
    BY <1>1, <2>1 DEF Readable
  <2>3. Registered(ready)'
    BY <1>a, <1>1, <1>3 DEF Batches, Registered
  <2>4. /\ Listening \in batch \ {k} => listening'
        /\ \A j \in Conns : j \in batch \ {k} => conn'[j] = "open"
    BY <1>a, <1>1, <1>3 DEF Batches, Registered
  <2> QED BY <1>1, <2>2, <2>3, <2>4, NextEventBatches
<1>5. OpenConns' = OpenConns \ {k} /\ k \in OpenConns
  BY <1>a, <1>1, <1>2, <1>3 DEF OpenConns, TypeOK
<1>6. /\ Cardinality(OpenConns') = Cardinality(OpenConns) - 1
      /\ Cardinality(OpenConns') \in Nat
  BY <1>5, OpenConnsFinite, FS_RemoveElement, FS_CardinalityType
<1>7. cur_fds = Cardinality(OpenConns) + (IF listening THEN 1 ELSE 0)
  BY <1>a, <1>1, CountIsOpen
<1>8. cur_fds' = Cardinality(OpenConns') + (IF listening' THEN 1 ELSE 0)
  BY <1>1, <1>6, <1>7, OpenConnsFinite
<1>9. CurFdsCounts'
  <2>1. (CountIsOpen)'
    BY CountIsOpen, PTL
  <2> QED BY <1>8, <2>1
<1>10. cur_fds' \in 0..N + 1
  BY <1>a, <1>1, <1>6, <1>8 DEF TypeOK
<1>11. TypeOK'
  BY <1>a, <1>1, <1>4, <1>10 DEF TypeOK
<1>12. Streams' /\ EventsFitArray'
  BY <1>a, <1>1, <1>2 DEF Streams, EventsFitArray, TypeOK
<1> QED BY <1>4, <1>9, <1>11, <1>12 DEF EchoInv

\* A reply changes nothing the server has registered, whatever comes of it.
LEMMA ReplyInv ==
  ASSUME EchoInv, NEW k \in Conns, Write(k) \/ WriteToGone(k) \/ WriteToReset(k)
  PROVE  EchoInv'
<1> USE Bounds
<1>a. TypeOK /\ Batches /\ Streams /\ CurFdsCounts /\ EventsFitArray
  BY DEF EchoInv
<1>1. CASE Exit
  BY <1>1, ExitInv
<1>2. CASE ~Exit
  <2>1. /\ k \in replying /\ NextEvent(k)
        /\ replies' \in [Conns -> 0..Window]
        /\ down' \in [Conns -> {"no", "fin", "rst"}]
        /\ \A j \in Conns : down[j] # "no" => down'[j] # "no"
        /\ ready' \subseteq IF conn[k] = "open" THEN ready \cup {k} ELSE ready
        /\ UNCHANGED <<peer, sent, conn, input, listening, cur_fds>>
    <3>1. CASE Write(k)
      BY <1>a, <3>1 DEF Write, Writing, TypeOK, SocketVars
    <3>2. CASE WriteToGone(k)
      BY <1>a, <3>2 DEF WriteToGone, Writing, Wake, TypeOK, ClientVars
    <3>3. CASE WriteToReset(k)
      BY <1>a, <1>2, <3>3 DEF WriteToReset, Writing, TypeOK, ClientVars, SocketVars
    <3> QED BY <3>1, <3>2, <3>3
  <2>2. replying = {k} /\ k \in batch
    BY <1>a, <2>1 DEF TypeOK, Batches
  <2>3. \A f : Readable(f) /\ f \in {Listening} \cup Conns => Readable(f)'
    BY <2>1 DEF Readable, Queued
  <2>4. Registered(ready)'
    BY <1>a, <2>1 DEF Batches, Registered
  <2>5. /\ Batches'
        /\ batch' \subseteq {Listening} \cup Conns
        /\ replying' = {} /\ pc' \in {"wait", "event"} /\ pc # "exited"
    <3>1. /\ Listening \in batch \ {k} => listening'
          /\ \A j \in Conns : j \in batch \ {k} => conn'[j] = "open"
      BY <1>a, <2>1 DEF Batches, Registered
    <3>2. \A g \in batch \ {k} : Readable(g) => Readable(g)'
      BY <1>a, <2>3 DEF TypeOK
    <3> QED BY <2>1, <2>2, <2>4, <3>1, <3>2, NextEventBatches
  <2>6. TypeOK'
    BY <1>a, <2>1, <2>5 DEF TypeOK
  <2> QED BY <1>a, <2>1, <2>5, <2>6
          DEF EchoInv, Streams, CurFdsCounts, EventsFitArray
<1> QED BY <1>1, <1>2

\* Every step keeps the invariant.
LEMMA NextInv == EchoInv /\ [Next]_vars => EchoInv'
<1> SUFFICES ASSUME EchoInv, [Next]_vars PROVE EchoInv'
  OBVIOUS
<1>1. CASE EpollWait
  BY <1>1, EpollWaitInv
<1>2. CASE EpollWaitError \/ AcceptError
  BY <1>2, ExitInv DEF EpollWaitError, AcceptError
<1>3. CASE Accept
  BY <1>3, AcceptInv
<1>4. CASE CloseListening
  BY <1>4, CloseListeningInv
<1>5. ASSUME NEW k \in Conns, ReadData(k) PROVE EchoInv'
  BY <1>5, ReadDataInv
<1>6. ASSUME NEW k \in Conns, ReadEnd(k) PROVE EchoInv'
  BY <1>6, ReadEndInv
<1>7. ASSUME NEW k \in Conns, Write(k) \/ WriteToGone(k) \/ WriteToReset(k)
      PROVE  EchoInv'
  BY <1>7, ReplyInv
<1>8. ASSUME NEW k \in Conns, Client(k) PROVE EchoInv'
  BY <1>8, ClientSteps
<1>9. CASE UNCHANGED vars
  BY <1>9 DEF vars, ClientVars, SocketVars, EpollVars, EchoInv, TypeOK, Batches,
              Registered, Readable, Queued, Streams, CurFdsCounts, EventsFitArray
<1> QED BY <1>1, <1>2, <1>3, <1>4, <1>5, <1>6, <1>7, <1>8, <1>9
        DEF Next, Main, Handle

\* Batches, streams and the counter agree in every state.
LEMMA EchoInvHolds == Spec => []EchoInv
  BY InitInv, NextInv, PTL DEF Spec

-----------------------------------------------------------------------------
\* Every variable keeps its type: above all, cur_fds never becomes negative
\* and never counts more descriptors than there are.
THEOREM TypeCorrect == Spec => []TypeOK
<1>1. EchoInv => TypeOK
  BY DEF EchoInv
<1> QED BY <1>1, EchoInvHolds, PTL

\* The server's counter is the number of descriptors it has open
\* (echo_server.cpp:66,69,75,97,107).
THEOREM CurFdsCountsHolds == Spec => []CurFdsCounts
<1>1. EchoInv => CurFdsCounts
  BY DEF EchoInv
<1> QED BY <1>1, EchoInvHolds, PTL

\* epoll_wait is never told of more room than evs[] has
\* (echo_server.cpp:58,69,75,97).
THEOREM EventsFitArrayHolds == Spec => []EventsFitArray
<1>1. EchoInv => EventsFitArray
  BY DEF EchoInv
<1> QED BY <1>1, EchoInvHolds, PTL

\* No accept() or read() of a batch blocks, and none is made on a descriptor
\* that is closed, whatever clients do after epoll_wait has returned
\* (echo_server.cpp:74-102).
THEOREM NeverBlocksOnInputHolds == Spec => []NeverBlocksOnInput
<1>1. EchoInv => NeverBlocksOnInput
  BY DEF EchoInv, Batches, Registered, NeverBlocksOnInput
<1> QED BY <1>1, EchoInvHolds, PTL
=============================================================================
