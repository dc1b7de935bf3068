------------------------- MODULE ProcessServerProofs -------------------------
(***************************************************************************)
(* What TLAPS proves of ProcessServer for every number of clients and      *)
(* every backlog: no descriptor is where it should not be, and the server  *)
(* implements ConnService.  The theorems are about Spec, so about every    *)
(* interleaving of the server, its children and grandsons and the clients, *)
(* failures included.                                                      *)
(***************************************************************************)
EXTENDS ProcessServer, TLAPS

\* The assumptions on the constants, together.
LEMMA ServerAssumptions == N \in Nat /\ Backlog \in Nat /\ MayFail \in BOOLEAN
  BY CharClientAssumption, ProcessServerAssumption

\* Processes are told apart by their kind and their connection.
LEMMA ProcsDistinct ==
  /\ Server \in Procs
  /\ \A k \in Conns : Child(k) \in Procs /\ Grandson(k) \in Procs
  /\ \A k \in Conns : Child(k) # Server /\ Grandson(k) # Server
  /\ \A j, k \in Conns : /\ Child(j) # Grandson(k)
                         /\ Child(j) = Child(k) => j = k
                         /\ Grandson(j) = Grandson(k) => j = k
  /\ \A p \in Procs : p = Server \/ \E k \in Conns : p = Child(k) \/ p = Grandson(k)
  BY DEF Procs, Server, Child, Grandson

-----------------------------------------------------------------------------
(***************************************************************************)
(* The inductive invariant.  Where a descriptor is follows from where the  *)
(* three processes are: process_accept goes on to the next connection only *)
(* when the child of the last one has been reaped, so at any time at most  *)
(* one connection has a child.                                             *)
(***************************************************************************)
\* process_accept has the connection of its current round.
Busy == \/ main \in {"fork", "wait", "close"}
        \/ main = "returned" /\ accepted > 0 /\ child[accepted] = "none"

\* Clients connect before they are accepted, and children exist for accepted
\* connections, all of them reaped but that of the current round.
Rounds ==
  /\ main \in {"fork", "wait", "close"} => accepted > 0
  /\ \A k \in Conns :
       /\ k <= accepted => client[k] # "new"
       /\ k > accepted => child[k] = "none"
       /\ k < accepted => child[k] = "reaped"
  /\ \A k \in Conns : k = accepted =>
       /\ main \in {"accept", "close"} => child[k] = "reaped"
       /\ main = "fork" => child[k] = "none"
       /\ main = "wait" => child[k] \in {"start", "fork", "close", "zombie"}
       /\ main \in {"returned", "exited"} => child[k] \in {"none", "reaped"}

\* A grandson runs once its child has forked, and has written to its
\* connection when it is past the write.
Grandsons ==
  \A k \in Conns :
    /\ grandson[k] # "none" => child[k] \in {"close", "zombie", "reaped"}
    /\ k \in written <=> grandson[k] \in {"read", "close", "exit", "gone"}

\* Who has which descriptor.
Descriptors ==
  /\ holds[Server] = IF Busy THEN {accepted} ELSE {}
  /\ \A k \in Conns :
       /\ holds[Child(k)] = IF child[k] \in {"start", "fork", "close"} THEN {k} ELSE {}
       /\ holds[Grandson(k)] = IF grandson[k] \in {"write", "read", "close"} THEN {k} ELSE {}
  /\ Server \in listens <=> main # "exited"
  /\ \A k \in Conns : /\ Child(k) \in listens <=> child[k] = "start"
                      /\ Grandson(k) \notin listens

ServerInv == TypeOK /\ Rounds /\ Grandsons /\ Descriptors

\* The first state has nothing but the listening socket.
LEMMA InitInv == Init => ServerInv
  BY ServerAssumptions, ProcsDistinct
  DEF Init, ServerInv, TypeOK, ClientInit, ClientTypeOK, Conns, Rounds,
      Grandsons, Descriptors, Busy

\* A process that closes descriptors leaves the others' tables as they are.
LEMMA Releases ==
  ASSUME TypeOK, NEW p \in Procs, NEW gone, NEW deaf \in BOOLEAN,
         Release(p, gone, deaf)
  PROVE  /\ holds' \in [Procs -> SUBSET Conns]
         /\ holds'[p] = holds[p] \ gone
         /\ \A q \in Procs : q # p => holds'[q] = holds[q]
         /\ listens' = IF deaf THEN listens \ {p} ELSE listens
         /\ listens' \subseteq Procs
         /\ resets' \subseteq Conns
  BY DEF TypeOK, ClientTypeOK, Release

\* A forked process has what its parent has.
LEMMA Copies ==
  ASSUME TypeOK, NEW p \in Procs, NEW q \in Procs, Copy(p, q)
  PROVE  /\ holds' \in [Procs -> SUBSET Conns]
         /\ holds'[q] = holds[p]
         /\ \A r \in Procs : r # q => holds'[r] = holds[r]
         /\ listens' = IF p \in listens THEN listens \cup {q} ELSE listens
         /\ listens' \subseteq Procs
  BY DEF TypeOK, Copy

\* Every step keeps the invariant.
LEMMA NextInv == ServerInv /\ [Next]_vars => ServerInv'
<1> SUFFICES ASSUME ServerInv, [Next]_vars PROVE ServerInv'
  OBVIOUS
<1> USE ServerAssumptions, ProcsDistinct
<1>a. TypeOK /\ Rounds /\ Grandsons /\ Descriptors
  BY DEF ServerInv
<1>1. ASSUME NEW k \in Conns, Client(k) PROVE ServerInv'
  <2>1. TypeOK'
    BY <1>a, <1>1 DEF Client, Connect, ClientWrite, ClientRead, ServerUnchanged,
                Dial, Say, Hear, TypeOK, ClientTypeOK
  <2>2. ServerUnchanged /\ \A j \in Conns : client[j] # "new" => client'[j] # "new"
    BY <1>a, <1>1 DEF Client, Connect, ClientWrite, ClientRead, Dial, Say, Hear,
                TypeOK, ClientTypeOK
  <2> QED BY <1>a, <2>1, <2>2
          DEF ServerInv, ServerUnchanged, Rounds, Grandsons, Descriptors, Busy
<1>2. CASE Accept
  <2>1. /\ main = "accept" /\ main' = "fork"
        /\ accepted' = accepted + 1 /\ accepted' \in Conns
        /\ client[accepted'] # "new"
        /\ holds' = [holds EXCEPT ![Server] = @ \cup {accepted'}]
        /\ UNCHANGED <<client, unread, resets, written, child, grandson, listens>>
    BY <1>a, <1>2 DEF Accept, ClientVars, TypeOK, Conns
  <2>2. TypeOK'
    BY <1>a, <2>1 DEF TypeOK, ClientTypeOK, Conns
  <2>3. Rounds'
    BY <1>a, <2>1 DEF Rounds, TypeOK, Conns
  <2>4. Grandsons'
    BY <1>a, <2>1 DEF Grandsons
  <2>5. holds'[Server] = {accepted'} /\ \A p \in Procs : p # Server => holds'[p] = holds[p]
    BY <1>a, <2>1 DEF Descriptors, Busy, TypeOK
  <2>6. Descriptors'
    BY <1>a, <2>1, <2>5 DEF Descriptors, Busy
  <2> QED BY <2>2, <2>3, <2>4, <2>6 DEF ServerInv
<1>3. CASE AcceptFail
  <2>1. /\ main = "accept" /\ main' = "returned"
        /\ UNCHANGED <<client, unread, resets, written, accepted, child,
                       grandson, holds, listens>>
    BY <1>3 DEF AcceptFail, ClientVars
  <2>2. accepted > 0 => accepted \in Conns
    BY <1>a DEF TypeOK, Conns
  <2> QED BY <1>a, <2>1, <2>2
          DEF ServerInv, TypeOK, ClientTypeOK, Rounds, Grandsons, Descriptors, Busy
<1>4. CASE ForkFail
  <2>1. /\ main = "fork" /\ main' = "returned"
        /\ UNCHANGED <<client, unread, resets, written, accepted, child,
                       grandson, holds, listens>>
    BY <1>4 DEF ForkFail, ClientVars
  <2>2. accepted > 0 => accepted \in Conns
    BY <1>a DEF TypeOK, Conns
  <2> QED BY <1>a, <2>1, <2>2
          DEF ServerInv, TypeOK, ClientTypeOK, Rounds, Grandsons, Descriptors, Busy
<1>5. CASE Fork
  <2>1. /\ main = "fork" /\ main' = "wait" /\ accepted \in Conns
        /\ child' = [child EXCEPT ![accepted] = "start"]
        /\ UNCHANGED <<client, unread, resets, written, accepted, grandson>>
    BY <1>a, <1>5 DEF Fork, ClientVars, TypeOK, Conns, Rounds
  <2>2. /\ holds' \in [Procs -> SUBSET Conns]
        /\ holds'[Child(accepted)] = holds[Server]
        /\ \A r \in Procs : r # Child(accepted) => holds'[r] = holds[r]
        /\ listens' = IF Server \in listens THEN listens \cup {Child(accepted)} ELSE listens
        /\ listens' \subseteq Procs
    BY <1>a, <1>5, <2>1, Copies DEF Fork
  <2>3. TypeOK'
    BY <1>a, <2>1, <2>2 DEF TypeOK, ClientTypeOK
  <2>4. Rounds' /\ Grandsons'
    BY <1>a, <2>1 DEF Rounds, Grandsons, TypeOK
  <2>5. Descriptors'
    BY <1>a, <2>1, <2>2 DEF Descriptors, Busy, TypeOK
  <2> QED BY <2>3, <2>4, <2>5 DEF ServerInv
<1>6. CASE Waitpid
  <2>1. /\ main = "wait" /\ main' = "close" /\ accepted \in Conns
        /\ child[accepted] = "zombie"
        /\ child' = [child EXCEPT ![accepted] = "reaped"]
        /\ UNCHANGED <<client, unread, resets, written, accepted, grandson,
                       holds, listens>>
    BY <1>a, <1>6 DEF Waitpid, ClientVars, TypeOK, Conns, Rounds
  <2>2. TypeOK'
    BY <1>a, <2>1 DEF TypeOK, ClientTypeOK
  <2>3. Rounds' /\ Grandsons'
    BY <1>a, <2>1 DEF Rounds, Grandsons, TypeOK
  <2>4. Descriptors'
    BY <1>a, <2>1 DEF Descriptors, Busy, TypeOK
  <2> QED BY <2>2, <2>3, <2>4 DEF ServerInv
<1>7. CASE CloseLinkage
  <2>a. accepted \in Conns
    BY <1>a, <1>7 DEF CloseLinkage, TypeOK, Conns, Rounds
  <2>1. /\ main = "close" /\ main' = "accept" /\ accepted \in Conns
        /\ UNCHANGED <<client, unread, written, accepted, child, grandson>>
        /\ Release(Server, {accepted}, FALSE)
    BY <1>7, <2>a DEF CloseLinkage
  <2>2. /\ holds' \in [Procs -> SUBSET Conns]
        /\ holds'[Server] = holds[Server] \ {accepted}
        /\ \A q \in Procs : q # Server => holds'[q] = holds[q]
        /\ listens' = listens /\ resets' \subseteq Conns
    BY <1>a, <2>1, Releases
  <2>3. TypeOK'
    BY <1>a, <2>1, <2>2 DEF TypeOK, ClientTypeOK
  <2>4. Rounds' /\ Grandsons'
    BY <1>a, <2>1 DEF Rounds, Grandsons
  <2>5. Descriptors'
    BY <1>a, <2>1, <2>2 DEF Descriptors, Busy
  <2> QED BY <2>3, <2>4, <2>5 DEF ServerInv
<1>8. CASE ProcessExit
  <2>1. /\ main = "returned" /\ main' = "exited"
        /\ UNCHANGED <<client, unread, written, accepted, child, grandson>>
        /\ Release(Server, Conns, TRUE)
    BY <1>8 DEF ProcessExit
  <2>2. /\ holds' \in [Procs -> SUBSET Conns]
        /\ holds'[Server] = holds[Server] \ Conns
        /\ \A q \in Procs : q # Server => holds'[q] = holds[q]
        /\ listens' = listens \ {Server} /\ resets' \subseteq Conns
    BY <1>a, <2>1, Releases
  <2>3. TypeOK'
    BY <1>a, <2>1, <2>2 DEF TypeOK, ClientTypeOK
  <2>4. Rounds' /\ Grandsons'
    BY <1>a, <2>1 DEF Rounds, Grandsons
  <2>5. holds'[Server] = {}
    BY <1>a, <2>2 DEF TypeOK
  <2>6. Descriptors'
    BY <1>a, <2>1, <2>2, <2>5 DEF Descriptors, Busy
  <2> QED BY <2>3, <2>4, <2>6 DEF ServerInv
<1>9. ASSUME NEW k \in Conns, ChildOf(k) PROVE ServerInv'
  <2>a. UNCHANGED <<client, unread, written, accepted, main>>
        /\ child[k] \in {"start", "fork", "close"}
    BY <1>9 DEF ChildOf, ChildCloseListening, ChildFork, ChildForkFail,
                ChildExit, ChildAt, ClientVars
  <2>b. k = accepted /\ main = "wait" /\ accepted \in 0..N /\ k \in 1..N
    BY <1>a, <2>a DEF Rounds, TypeOK, Conns
  <2>c. ASSUME child' \in [Conns -> {"none", "start", "fork", "close", "zombie", "reaped"}],
               child'[k] \in {"fork", "close", "zombie"},
               \A j \in Conns : j # k => child'[j] = child[j]
        PROVE  Rounds'
    BY <1>a, <2>a, <2>b, <2>c DEF Rounds
  <2>1. CASE ChildCloseListening(k)
    <3>1. /\ child[k] = "start" /\ child' = [child EXCEPT ![k] = "fork"]
          /\ UNCHANGED grandson
          /\ Release(Child(k), {}, TRUE)
      BY <2>1 DEF ChildCloseListening, ChildAt
    <3>2. /\ holds' \in [Procs -> SUBSET Conns]
          /\ holds'[Child(k)] = holds[Child(k)] \ {}
          /\ \A q \in Procs : q # Child(k) => holds'[q] = holds[q]
          /\ listens' = listens \ {Child(k)} /\ resets' \subseteq Conns
      BY <1>a, <3>1, Releases
    <3>3. TypeOK'
      BY <1>a, <2>a, <3>1, <3>2 DEF TypeOK, ClientTypeOK
    <3>4. Rounds' /\ Grandsons'
      BY <1>a, <2>a, <2>c, <3>1 DEF Grandsons, TypeOK
    <3>5. Descriptors'
      BY <1>a, <2>a, <2>b, <3>1, <3>2 DEF Descriptors, Busy, TypeOK
    <3> QED BY <3>3, <3>4, <3>5 DEF ServerInv
  <2>2. CASE ChildFork(k)
    <3>1. /\ child[k] = "fork" /\ child' = [child EXCEPT ![k] = "close"]
          /\ grandson' = [grandson EXCEPT ![k] = "write"]
          /\ Copy(Child(k), Grandson(k)) /\ UNCHANGED resets
      BY <2>2 DEF ChildFork, ChildAt, ClientVars
    <3>2. /\ holds' \in [Procs -> SUBSET Conns]
          /\ holds'[Grandson(k)] = holds[Child(k)]
          /\ \A q \in Procs : q # Grandson(k) => holds'[q] = holds[q]
          /\ listens' = IF Child(k) \in listens THEN listens \cup {Grandson(k)} ELSE listens
          /\ listens' \subseteq Procs
      BY <1>a, <3>1, Copies
    <3>3. TypeOK'
      BY <1>a, <2>a, <3>1, <3>2 DEF TypeOK, ClientTypeOK
    <3>4. Rounds' /\ Grandsons'
      BY <1>a, <2>a, <2>c, <3>1 DEF Grandsons, TypeOK
    <3>5. Child(k) \notin listens /\ listens' = listens
      BY <1>a, <3>1, <3>2 DEF Descriptors
    <3>6. Descriptors'
      BY <1>a, <2>a, <2>b, <3>1, <3>2, <3>5 DEF Descriptors, Busy, TypeOK
    <3> QED BY <3>3, <3>4, <3>6 DEF ServerInv
  <2>3. CASE ChildForkFail(k)
    <3>1. /\ child[k] = "fork" /\ child' = [child EXCEPT ![k] = "close"]
          /\ UNCHANGED <<resets, grandson, holds, listens>>
      BY <2>3 DEF ChildForkFail, ChildAt, ClientVars
    <3>3. TypeOK'
      BY <1>a, <2>a, <3>1 DEF TypeOK, ClientTypeOK
    <3>4. Rounds' /\ Grandsons'
      BY <1>a, <2>a, <2>c, <3>1 DEF Grandsons, TypeOK
    <3>5. Descriptors'
      BY <1>a, <2>a, <2>b, <3>1 DEF Descriptors, Busy, TypeOK
    <3> QED BY <3>3, <3>4, <3>5 DEF ServerInv
  <2>4. CASE ChildExit(k)
    <3>1. /\ child[k] = "close" /\ child' = [child EXCEPT ![k] = "zombie"]
          /\ UNCHANGED grandson
          /\ Release(Child(k), Conns, TRUE)
      BY <2>4 DEF ChildExit, ChildAt
    <3>2. /\ holds' \in [Procs -> SUBSET Conns]
          /\ holds'[Child(k)] = holds[Child(k)] \ Conns
          /\ \A q \in Procs : q # Child(k) => holds'[q] = holds[q]
          /\ listens' = listens \ {Child(k)} /\ resets' \subseteq Conns
      BY <1>a, <3>1, Releases
    <3>3. TypeOK'
      BY <1>a, <2>a, <3>1, <3>2 DEF TypeOK, ClientTypeOK
    <3>4. Rounds' /\ Grandsons'
      BY <1>a, <2>a, <2>c, <3>1 DEF Grandsons, TypeOK
    <3>5. holds'[Child(k)] = {}
      BY <1>a, <3>2 DEF TypeOK
    <3>6. Descriptors'
      BY <1>a, <2>a, <2>b, <3>1, <3>2, <3>5 DEF Descriptors, Busy, TypeOK
    <3> QED BY <3>3, <3>4, <3>6 DEF ServerInv
  <2> QED BY <1>9, <2>1, <2>2, <2>3, <2>4 DEF ChildOf
<1>10. ASSUME NEW k \in Conns, GrandsonOf(k) PROVE ServerInv'
  <2>a. UNCHANGED <<client, accepted, main, child>>
        /\ grandson[k] \in {"write", "read", "close", "exit"}
    BY <1>10 DEF GrandsonOf, WriteMessage, ReadMessage, CloseInPthreadFunc,
                 GrandsonExit, GrandsonAt, ClientVars
  <2>b. Rounds'
    BY <1>a, <2>a DEF Rounds
  <2>1. CASE WriteMessage(k)
    <3>1. /\ grandson[k] = "write" /\ grandson' = [grandson EXCEPT ![k] = "read"]
          /\ holds[Grandson(k)] = {k} /\ written' = written \cup {k}
          /\ UNCHANGED <<unread, resets, holds, listens>>
      BY <1>a, <2>1 DEF WriteMessage, GrandsonAt, ClientVars, Descriptors
    <3>2. TypeOK' /\ Grandsons'
      BY <1>a, <2>a, <3>1 DEF TypeOK, ClientTypeOK, Grandsons
    <3>3. Descriptors'
      BY <1>a, <2>a, <3>1 DEF Descriptors, Busy, TypeOK
    <3> QED BY <2>b, <3>2, <3>3 DEF ServerInv
  <2>2. CASE ReadMessage(k)
    <3>1. /\ grandson[k] = "read" /\ grandson' = [grandson EXCEPT ![k] = "close"]
          /\ unread' \subseteq unread
          /\ UNCHANGED <<written, resets, holds, listens>>
      BY <2>2 DEF ReadMessage, GrandsonAt
    <3>2. TypeOK' /\ Grandsons'
      BY <1>a, <2>a, <3>1 DEF TypeOK, ClientTypeOK, Grandsons
    <3>3. Descriptors'
      BY <1>a, <2>a, <3>1 DEF Descriptors, Busy, TypeOK
    <3> QED BY <2>b, <3>2, <3>3 DEF ServerInv
  <2>3. CASE CloseInPthreadFunc(k)
    <3>1. /\ grandson[k] = "close" /\ grandson' = [grandson EXCEPT ![k] = "exit"]
          /\ UNCHANGED <<written, unread>>
          /\ Release(Grandson(k), {k}, FALSE)
      BY <2>3 DEF CloseInPthreadFunc, GrandsonAt
    <3>2. /\ holds' \in [Procs -> SUBSET Conns]
          /\ holds'[Grandson(k)] = holds[Grandson(k)] \ {k}
          /\ \A q \in Procs : q # Grandson(k) => holds'[q] = holds[q]
          /\ listens' = listens /\ resets' \subseteq Conns
      BY <1>a, <3>1, Releases
    <3>3. TypeOK' /\ Grandsons'
      BY <1>a, <2>a, <3>1, <3>2 DEF TypeOK, ClientTypeOK, Grandsons
    <3>4. Descriptors'
      BY <1>a, <2>a, <3>1, <3>2 DEF Descriptors, Busy, TypeOK
    <3> QED BY <2>b, <3>3, <3>4 DEF ServerInv
  <2>4. CASE GrandsonExit(k)
    <3>1. /\ grandson[k] = "exit" /\ grandson' = [grandson EXCEPT ![k] = "gone"]
          /\ UNCHANGED <<written, unread>>
          /\ Release(Grandson(k), Conns, TRUE)
      BY <2>4 DEF GrandsonExit, GrandsonAt
    <3>2. /\ holds' \in [Procs -> SUBSET Conns]
          /\ holds'[Grandson(k)] = holds[Grandson(k)] \ Conns
          /\ \A q \in Procs : q # Grandson(k) => holds'[q] = holds[q]
          /\ listens' = listens \ {Grandson(k)} /\ resets' \subseteq Conns
      BY <1>a, <3>1, Releases
    <3>3. TypeOK' /\ Grandsons'
      BY <1>a, <2>a, <3>1, <3>2 DEF TypeOK, ClientTypeOK, Grandsons
    <3>4. holds'[Grandson(k)] = {}
      BY <1>a, <3>2 DEF TypeOK
    <3>5. Descriptors'
      BY <1>a, <2>a, <3>1, <3>2, <3>4 DEF Descriptors, Busy, TypeOK
    <3> QED BY <2>b, <3>3, <3>5 DEF ServerInv
  <2> QED BY <1>10, <2>1, <2>2, <2>3, <2>4 DEF GrandsonOf
<1>11. CASE UNCHANGED vars
  BY <1>a, <1>11 DEF vars, ClientVars, ServerInv, TypeOK, ClientTypeOK, Rounds,
                     Grandsons, Descriptors, Busy
<1> QED
  BY <1>1, <1>2, <1>3, <1>4, <1>5, <1>6, <1>7, <1>8, <1>9, <1>10, <1>11
  DEF Next, Main, Failure

\* What the processes do with each other's descriptors holds in every state.
LEMMA ServerInvHolds == Spec => []ServerInv
  BY InitInv, NextInv, PTL DEF Spec

\* Every variable keeps its type: process_accept never asks for the child of
\* a connection it has not accepted (test_server.cpp:405-460).
THEOREM TypeCorrect == Spec => []TypeOK
  BY ServerInvHolds, PTL DEF ServerInv

\* A grandson has its own connection only and never the listening socket,
\* although fork() copies whatever its parent has: the child closed the
\* listening socket before, and the server had one connection to pass on
\* (test_server.cpp:435,451-453).
THEOREM GrandsonIsConfinedHolds == Spec => []GrandsonIsConfined
<1>1. ServerInv => GrandsonIsConfined
  BY DEF ServerInv, Descriptors, GrandsonIsConfined
<1> QED BY <1>1, ServerInvHolds, PTL

\* Back in accept() the server has reaped its children and holds nothing
\* (test_server.cpp:427-431).
THEOREM NothingAccumulatesHolds == Spec => []NothingAccumulates
<1>1. ServerInv => NothingAccumulates
  <2> SUFFICES ASSUME ServerInv, main = "accept" PROVE NothingAccumulates
    BY DEF NothingAccumulates
  <2>1. holds[Server] = {}
    BY DEF ServerInv, Descriptors, Busy
  <2>2. \A k \in Conns : child[k] \in {"none", "reaped"}
    BY ServerAssumptions DEF ServerInv, Rounds, TypeOK, Conns
  <2>3. \A k \in Conns : holds[Child(k)] = {}
    BY <2>2 DEF ServerInv, Descriptors
  <2> QED BY <2>1, <2>2, <2>3 DEF NothingAccumulates
<1> QED BY <1>1, ServerInvHolds, PTL

-----------------------------------------------------------------------------
(***************************************************************************)
(* ProcessServer implements ConnService.  The refinement mapping asks      *)
(* whether any process has a descriptor of a connection; Descriptors turns *)
(* that into where the server and the grandson are.                        *)
(***************************************************************************)
Serving(k) == \/ Busy /\ k = accepted
              \/ grandson[k] \in {"write", "read", "close"}

\* Where connection k is, seen from the processes.
Phase(k) == IF client[k] = "new" THEN "new"
            ELSE IF k > accepted
                 THEN IF main = "exited" THEN "closed" ELSE "pending"
            ELSE IF Serving(k) THEN "serving" ELSE "closed"

\* The listening socket goes with the server.
LEMMA NobodyListens == ServerInv => (listens = {} <=> main = "exited")
<1> SUFFICES ASSUME ServerInv PROVE listens = {} <=> main = "exited"
  OBVIOUS
<1> USE ServerAssumptions
<1>1. \A j \in Conns : child[j] = "start" => main = "wait"
  BY DEF ServerInv, Rounds, TypeOK, Conns
<1>2. main = "exited" => \A p \in Procs : p \notin listens
  BY <1>1, ProcsDistinct DEF ServerInv, Descriptors
<1>3. main # "exited" => Server \in listens
  BY DEF ServerInv, Descriptors
<1>4. listens \subseteq Procs
  BY DEF ServerInv, TypeOK
<1> QED BY <1>2, <1>3, <1>4

\* The mapping in the words of Descriptors.
LEMMA PhaseIs == ServerInv => servicePhase = [k \in Conns |-> Phase(k)]
<1> SUFFICES ASSUME ServerInv, NEW k \in Conns
             PROVE  servicePhase[k] = Phase(k)
  BY DEF servicePhase
<1> USE ServerAssumptions, ProcsDistinct
<1>a. TypeOK /\ Rounds /\ Grandsons /\ Descriptors /\ k \in Nat /\ accepted \in Nat
  BY DEF ServerInv, TypeOK, Conns
<1>1. CASE k > accepted
  BY <1>a, <1>1, NobodyListens DEF servicePhase, Closed, Phase
<1>2. CASE k <= accepted
  <2>a. \A j \in Conns : holds[Child(j)] \subseteq {j} /\ holds[Grandson(j)] \subseteq {j}
    BY <1>a DEF Descriptors
  <2>1. \A j \in Conns : j # k => k \notin holds[Child(j)] /\ k \notin holds[Grandson(j)]
    BY <2>a
  <2>2. Held(k) <=> k \in holds[Server] \/ k \in holds[Child(k)] \/ k \in holds[Grandson(k)]
    BY <2>1 DEF Held
  <2>3. child[k] \in {"start", "fork", "close"} => main = "wait" /\ k = accepted
    BY <1>a DEF Rounds, TypeOK, Conns
  <2>4. Held(k) <=> Serving(k)
    BY <1>a, <2>2, <2>3 DEF Descriptors, Serving, Busy
  <2>5. ~(k > accepted)
    BY <1>a, <1>2
  <2> QED BY <1>2, <2>4, <2>5 DEF servicePhase, Closed, Phase
<1> QED BY <1>a, <1>1, <1>2

\* The initial states of the server are initial states of the service.
LEMMA InitRefines == Init => Service!ServiceInit
<1> SUFFICES ASSUME Init PROVE Service!ServiceInit
  OBVIOUS
<1>1. servicePhase = [k \in Conns |-> "new"]
  BY InitInv, PhaseIs DEF Phase, Init, ClientInit
<1>2. serviceReplies = [k \in Conns |-> 0] /\ serviceTrouble = "none"
  BY DEF Init, serviceReplies, serviceTrouble, CallFailed
<1> QED BY <1>1, <1>2 DEF Service!ServiceInit, Service!Conns, Conns

\* A connection is closed by the last process that had it: after its message
\* was written, or after a system call has failed.
LEMMA LastClose ==
  ASSUME NEW k \in Conns,
         servicePhase = [j \in Conns |-> Phase(j)],
         servicePhase' = [j \in Conns |-> Phase(j)'],
         \A j \in Conns : j # k => Phase(j)' = Phase(j),
         Phase(k) = "serving",
         Phase(k)' \in {"serving", "closed"},
         Phase(k)' = "closed" => k \in written \/ CallFailed,
         UNCHANGED <<serviceReplies, serviceTrouble>>
  PROVE  Service!ServiceNext \/ UNCHANGED Service!cvars
<1>1. CASE Phase(k)' = "serving"
  <2>1. servicePhase' = servicePhase
    BY <1>1
  <2> QED BY <2>1 DEF Service!cvars
<1>2. CASE Phase(k)' = "closed"
  <2>1. servicePhase[k] = "serving"
        /\ servicePhase' = [servicePhase EXCEPT ![k] = "closed"]
    BY <1>2
  <2>2. CASE k \in written
    <3>1. serviceReplies[k] = 1
      BY <2>2 DEF serviceReplies
    <3>2. Service!Finish(k)
      BY <2>1, <3>1 DEF Service!Finish, Service!Move
    <3> QED BY <3>2 DEF Service!ServiceNext, Service!Conns, Conns
  <2>3. CASE CallFailed
    <3>1. serviceTrouble = "failed"
      BY <2>3 DEF serviceTrouble
    <3>2. servicePhase' = [j \in Conns |-> IF j \in {k} THEN "closed" ELSE servicePhase[j]]
      BY <2>1
    <3>3. {k} \in SUBSET Conns /\ \A j \in {k} : servicePhase[j] \in {"pending", "serving"}
      BY <2>1
    <3>4. Service!Drop
      BY <3>1, <3>2, <3>3 DEF Service!Drop, Service!Conns, Conns
    <3> QED BY <3>4 DEF Service!ServiceNext
  <2> QED BY <1>2, <2>2, <2>3
<1> QED BY <1>1, <1>2

\* connect() is an arrival; the service sees no other step of a client.
LEMMA ClientRefines ==
  ASSUME ServerInv, servicePhase = [j \in Conns |-> Phase(j)],
         servicePhase' = [j \in Conns |-> Phase(j)'],
         NEW k \in Conns, Client(k)
  PROVE  Service!Arrive(k) \/ UNCHANGED Service!cvars
<1> USE ServerAssumptions
<1>a. TypeOK /\ Rounds
  BY DEF ServerInv
<1>1. UNCHANGED <<written, accepted, main, child, grandson>>
  BY DEF Client, Connect, ClientWrite, ClientRead, ServerUnchanged
<1>2. UNCHANGED <<serviceTrouble, serviceReplies>>
  BY <1>1 DEF serviceTrouble, serviceReplies, CallFailed
<1>3. CASE Connect(k)
  <2>1. client[k] = "new" /\ client' = [client EXCEPT ![k] = "open"] /\ listens # {}
    BY <1>3 DEF Connect, Dial
  <2>2. k > accepted /\ main # "exited"
    BY <1>a, <2>1, NobodyListens DEF Rounds, TypeOK, Conns
  <2>3. Phase(k) = "new" /\ Phase(k)' = "pending"
    BY <1>a, <1>1, <2>1, <2>2 DEF Phase, TypeOK, ClientTypeOK
  <2>4. \A j \in Conns : j # k => Phase(j)' = Phase(j)
    BY <1>a, <1>1, <2>1 DEF Phase, Serving, Busy, TypeOK, ClientTypeOK
  <2>5. servicePhase[k] = "new" /\ servicePhase' = [servicePhase EXCEPT ![k] = "pending"]
    BY <2>3, <2>4
  <2> QED BY <1>2, <2>5 DEF Service!Arrive, Service!Move
<1>4. CASE ClientWrite(k) \/ ClientRead(k)
  <2>1. \A j \in Conns : client'[j] = "new" <=> client[j] = "new"
    BY <1>a, <1>4 DEF ClientWrite, ClientRead, Say, Hear, TypeOK, ClientTypeOK
  <2>2. \A j \in Conns : Phase(j)' = Phase(j)
    BY <1>1, <2>1 DEF Phase, Serving, Busy
  <2>3. UNCHANGED servicePhase
    BY <2>2
  <2> QED BY <1>2, <2>3 DEF Service!cvars
<1> QED BY <1>3, <1>4 DEF Client

\* accept() takes the next connection, an error return is a failure, and the
\* end of the process drops what waits and what was not handed on.
LEMMA MainRefines ==
  ASSUME ServerInv, servicePhase = [j \in Conns |-> Phase(j)],
         servicePhase' = [j \in Conns |-> Phase(j)'],
         Main \/ Failure
  PROVE  Service!ServiceNext \/ UNCHANGED Service!cvars
<1> USE ServerAssumptions
<1>a. TypeOK /\ Rounds /\ Grandsons /\ accepted \in 0..N
  BY DEF ServerInv, TypeOK
<1>b. UNCHANGED <<client, written, grandson>>
  BY DEF Main, Failure, Accept, AcceptFail, ForkFail, Fork, Waitpid,
         CloseLinkage, ProcessExit, ClientVars
<1>c. UNCHANGED serviceReplies
  BY <1>b DEF serviceReplies
<1>1. CASE Accept
  <2>k. accepted + 1 \in Conns
    BY <1>a, <1>1 DEF Accept, Conns
  <2>0. PICK k \in Conns : k = accepted + 1
    BY <2>k
  <2>1. /\ client[k] # "new" /\ accepted' = k
        /\ main = "accept" /\ main' = "fork" /\ UNCHANGED child
    BY <1>1, <2>0 DEF Accept
  <2>2. Phase(k) = "pending" /\ Phase(k)' = "serving"
    BY <1>a, <1>b, <2>0, <2>1 DEF Phase, Serving, Busy, Conns
  <2>3. \A j \in Conns : j # k => Phase(j)' = Phase(j)
    BY <1>a, <1>b, <2>0, <2>1 DEF Phase, Serving, Busy, Conns
  <2>4. \A j \in Conns : j < k => Phase(j) \notin {"new", "pending"}
    BY <1>a, <2>0 DEF Phase, Conns, Rounds
  <2>5. servicePhase[k] = "pending"
        /\ servicePhase' = [servicePhase EXCEPT ![k] = "serving"]
    BY <2>2, <2>3
  <2>6. \A j \in Conns : j < k => servicePhase[j] \notin {"new", "pending"}
    BY <2>4
  <2>7. UNCHANGED serviceTrouble
    BY <1>b, <2>1 DEF serviceTrouble, CallFailed
  <2>8. Service!Take(k)
    BY <1>c, <2>5, <2>6, <2>7 DEF Service!Take, Service!Move, Service!Conns, Conns
  <2> QED BY <2>8 DEF Service!ServiceNext, Service!Conns, Conns
<1>2. CASE Fork \/ Waitpid
  <2>1. /\ main \in {"fork", "wait"} /\ main' \in {"wait", "close"}
        /\ UNCHANGED accepted /\ accepted \in Conns
    BY <1>a, <1>2 DEF Fork, Waitpid, Rounds, Conns
  <2>2. \A j \in Conns : Phase(j)' = Phase(j)
    BY <1>b, <2>1 DEF Phase, Serving, Busy
  <2>3. UNCHANGED servicePhase
    BY <2>2
  <2>4. CallFailed' <=> CallFailed
    <3>1. \A j \in Conns : grandson[j] = "none" =>
             (child'[j] \in {"close", "zombie", "reaped"}
                <=> child[j] \in {"close", "zombie", "reaped"})
      BY <1>a, <1>2 DEF Fork, Waitpid, Rounds, TypeOK
    <3> QED BY <1>b, <2>1, <3>1 DEF CallFailed
  <2> QED BY <1>c, <2>3, <2>4 DEF serviceTrouble, Service!cvars
<1>3. CASE CloseLinkage
  <2>0. accepted \in Conns /\ main = "close"
    BY <1>a, <1>3 DEF CloseLinkage, Rounds, Conns
  <2>k. PICK k \in Conns : k = accepted
    BY <2>0
  <2>1. main' = "accept" /\ UNCHANGED <<accepted, child>> /\ child[k] = "reaped"
    BY <1>a, <1>3, <2>0, <2>k DEF CloseLinkage, Rounds
  <2>2. \A j \in Conns : j # k => Phase(j)' = Phase(j)
    BY <1>b, <2>0, <2>k, <2>1 DEF Phase, Serving, Busy
  <2>3. client[k] # "new" /\ ~(k > accepted)
    BY <1>a, <2>k DEF Rounds
  <2>4. Phase(k) = "serving"
    BY <2>0, <2>k, <2>3 DEF Phase, Serving, Busy
  <2>5. Phase(k)' = IF grandson[k] \in {"write", "read", "close"} THEN "serving" ELSE "closed"
    BY <1>b, <2>k, <2>1, <2>3 DEF Phase, Serving, Busy
  <2>6. Phase(k)' = "closed" => k \in written \/ CallFailed
    BY <1>a, <2>1, <2>5 DEF TypeOK, Grandsons, CallFailed
  <2>7. UNCHANGED serviceTrouble
    BY <1>b, <2>0, <2>1 DEF serviceTrouble, CallFailed
  <2>8. Phase(k)' \in {"serving", "closed"}
    BY <2>5
  <2> QED BY <1>c, <2>2, <2>4, <2>6, <2>7, <2>8, LastClose
<1>4. CASE AcceptFail \/ ForkFail
  <2>1. /\ main \in {"accept", "fork"} /\ main' = "returned"
        /\ UNCHANGED <<accepted, child>>
        /\ main = "fork" => accepted > 0
    BY <1>a, <1>4 DEF AcceptFail, ForkFail, Rounds
  <2>2. main = "accept" /\ accepted > 0 => child[accepted] = "reaped"
    BY <1>a DEF Rounds, Conns
  <2>3. main = "fork" => child[accepted] = "none"
    BY <1>a DEF Rounds, Conns
  <2>4. \A j \in Conns : Phase(j)' = Phase(j)
    BY <1>b, <2>1, <2>2, <2>3 DEF Phase, Serving, Busy
  <2>5. UNCHANGED servicePhase
    BY <2>4
  <2>6. serviceTrouble' = "failed" /\ serviceTrouble \in {"none", "failed"}
    BY <2>1 DEF serviceTrouble, CallFailed
  <2>7. CASE serviceTrouble = "none"
    BY <1>c, <2>5, <2>6, <2>7 DEF Service!ServiceNext, Service!Fail
  <2>8. CASE serviceTrouble = "failed"
    BY <1>c, <2>5, <2>6, <2>8 DEF Service!cvars
  <2> QED BY <2>6, <2>7, <2>8
<1>5. CASE ProcessExit
  <2>1. main = "returned" /\ main' = "exited" /\ UNCHANGED <<accepted, child>>
    BY <1>5 DEF ProcessExit
  <2> DEFINE D == {j \in Conns : Phase(j)' # Phase(j)}
  <2>2. \A j \in D : Phase(j) \in {"pending", "serving"} /\ Phase(j)' = "closed"
    BY <1>b, <2>1 DEF Phase, Serving, Busy
  <2>3. servicePhase' = [j \in Conns |-> IF j \in D THEN "closed" ELSE servicePhase[j]]
    BY <2>2
  <2>4. D \in SUBSET Conns /\ \A j \in D : servicePhase[j] \in {"pending", "serving"}
    BY <2>2
  <2>5. serviceTrouble = "failed" /\ UNCHANGED serviceTrouble
    BY <2>1 DEF serviceTrouble, CallFailed
  <2> HIDE DEF D
  <2>6. Service!Drop
    BY <1>c, <2>3, <2>4, <2>5 DEF Service!Drop, Service!Conns, Conns
  <2> QED BY <2>6 DEF Service!ServiceNext
<1> QED BY <1>1, <1>2, <1>3, <1>4, <1>5 DEF Main, Failure

\* A child only hands its connection on, while the server has it, too: of its
\* steps the service sees a failing fork().
LEMMA ChildRefines ==
  ASSUME ServerInv, servicePhase = [j \in Conns |-> Phase(j)],
         servicePhase' = [j \in Conns |-> Phase(j)'],
         NEW k \in Conns, ChildOf(k)
  PROVE  Service!Fail \/ UNCHANGED Service!cvars
<1> USE ServerAssumptions
<1>a. TypeOK /\ Rounds /\ Grandsons
  BY DEF ServerInv
<1>1. /\ UNCHANGED <<client, written, accepted, main>>
      /\ child[k] \in {"start", "fork", "close"} /\ child'[k] \in {"fork", "close", "zombie"}
      /\ \A j \in Conns : j # k => child'[j] = child[j] /\ grandson'[j] = grandson[j]
  BY <1>a DEF ChildOf, ChildCloseListening, ChildFork, ChildForkFail,
              ChildExit, ChildAt, ClientVars, TypeOK
<1>2. k = accepted /\ main = "wait"
  BY <1>a, <1>1 DEF Rounds, TypeOK, Conns
<1>3. \A j \in Conns : Phase(j)' = Phase(j)
  BY <1>1, <1>2 DEF Phase, Serving, Busy
<1>4. UNCHANGED <<servicePhase, serviceReplies>>
  BY <1>1, <1>3 DEF serviceReplies
<1>5. CASE UNCHANGED serviceTrouble
  BY <1>4, <1>5 DEF Service!cvars
<1>6. CASE ~UNCHANGED serviceTrouble
  <2>1. child[k] = "close" /\ grandson[k] = "none" => child'[k] \in {"close", "zombie", "reaped"}
                                                     /\ grandson'[k] = "none"
    BY <1>a DEF ChildOf, ChildCloseListening, ChildFork, ChildForkFail, ChildExit, ChildAt, TypeOK
  <2>2. CallFailed => CallFailed'
    BY <1>1, <2>1 DEF CallFailed
  <2>3. serviceTrouble = "none" /\ serviceTrouble' = "failed"
    BY <1>6, <2>2 DEF serviceTrouble
  <2> QED BY <1>4, <2>3 DEF Service!Fail
<1> QED BY <1>5, <1>6

\* A grandson's write is the reply to its connection, and the end of the
\* connection comes after it.
LEMMA GrandsonRefines ==
  ASSUME ServerInv, servicePhase = [j \in Conns |-> Phase(j)],
         servicePhase' = [j \in Conns |-> Phase(j)'],
         NEW k \in Conns, GrandsonOf(k)
  PROVE  Service!ServiceNext \/ UNCHANGED Service!cvars
<1> USE ServerAssumptions
<1>a. TypeOK /\ Rounds /\ Grandsons /\ Descriptors
  BY DEF ServerInv
<1>1. /\ UNCHANGED <<client, accepted, main, child>>
      /\ grandson[k] \in {"write", "read", "close", "exit"}
      /\ grandson'[k] \in {"read", "close", "exit", "gone"}
      /\ \A j \in Conns : j # k => grandson'[j] = grandson[j]
  BY <1>a DEF GrandsonOf, WriteMessage, ReadMessage, CloseInPthreadFunc,
              GrandsonExit, GrandsonAt, ClientVars, TypeOK
<1>2. \A j \in Conns : j # k => Phase(j)' = Phase(j)
  BY <1>1 DEF Phase, Serving, Busy
<1>3. client[k] # "new" /\ ~(k > accepted)
  BY <1>a, <1>1 DEF Rounds, Grandsons, TypeOK, Conns
<1>4. UNCHANGED serviceTrouble
  BY <1>1 DEF serviceTrouble, CallFailed
<1>5. CASE WriteMessage(k)
  <2>1. /\ grandson[k] = "write" /\ grandson'[k] = "read"
        /\ written' = written \cup {k} /\ k \notin written
    BY <1>a, <1>5 DEF WriteMessage, GrandsonAt, TypeOK, Descriptors, Grandsons
  <2>2. Phase(k) = "serving" /\ Phase(k)' = "serving"
    BY <1>1, <1>3, <2>1 DEF Phase, Serving
  <2>3. servicePhase[k] = "serving" /\ UNCHANGED servicePhase
    BY <1>2, <2>2
  <2>4. serviceReplies[k] = 0 /\ serviceReplies' = [serviceReplies EXCEPT ![k] = 1]
    BY <2>1 DEF serviceReplies
  <2>5. Service!Reply(k)
    BY <1>4, <2>3, <2>4 DEF Service!Reply
  <2> QED BY <2>5 DEF Service!ServiceNext, Service!Conns, Conns
<1>6. CASE ReadMessage(k) \/ GrandsonExit(k)
  <2>1. /\ grandson[k] \in {"write", "read", "close"}
             <=> grandson'[k] \in {"write", "read", "close"}
        /\ UNCHANGED written
    BY <1>a, <1>6 DEF ReadMessage, GrandsonExit, GrandsonAt, TypeOK
  <2>2. Phase(k)' = Phase(k)
    BY <1>1, <2>1 DEF Phase, Serving, Busy
  <2>3. UNCHANGED <<servicePhase, serviceReplies>>
    BY <1>2, <2>1, <2>2 DEF serviceReplies
  <2> QED BY <1>4, <2>3 DEF Service!cvars
<1>7. CASE CloseInPthreadFunc(k)
  <2>1. grandson[k] = "close" /\ grandson'[k] = "exit" /\ UNCHANGED written /\ k \in written
    BY <1>a, <1>7 DEF CloseInPthreadFunc, GrandsonAt, TypeOK, Grandsons
  <2>2. Phase(k) = "serving" /\ Phase(k)' \in {"serving", "closed"}
    BY <1>1, <1>3, <2>1 DEF Phase, Serving
  <2>3. UNCHANGED serviceReplies
    BY <2>1 DEF serviceReplies
  <2> QED BY <1>2, <1>4, <2>1, <2>2, <2>3, LastClose
<1> QED BY <1>5, <1>6, <1>7 DEF GrandsonOf

\* Every step of the server is a step of the service, or none.
LEMMA NextRefines ==
  ServerInv /\ ServerInv' /\ [Next]_vars => [Service!ServiceNext]_(Service!cvars)
<1>a. (ServerInv => servicePhase = [k \in Conns |-> Phase(k)])'
  BY PhaseIs, PTL
<1> SUFFICES ASSUME ServerInv, ServerInv', [Next]_vars
             PROVE  Service!ServiceNext \/ UNCHANGED Service!cvars
  OBVIOUS
<1>1. /\ servicePhase = [j \in Conns |-> Phase(j)]
      /\ servicePhase' = [j \in Conns |-> Phase(j)']
  BY <1>a, PhaseIs
<1>2. CASE Main \/ Failure
  BY <1>1, <1>2, MainRefines
<1>3. ASSUME NEW k \in Conns, Client(k) \/ ChildOf(k) \/ GrandsonOf(k)
      PROVE  Service!ServiceNext \/ UNCHANGED Service!cvars
  BY <1>1, <1>3, ClientRefines, ChildRefines, GrandsonRefines
  DEF Service!ServiceNext, Service!Conns, Conns
<1>4. CASE UNCHANGED vars
  BY <1>4 DEF vars, ClientVars, serviceTrouble, serviceReplies, servicePhase,
              CallFailed, Closed, Held, Service!cvars
<1> QED BY <1>2, <1>3, <1>4 DEF Next

\* For every number of clients and every backlog: the process-per-connection
\* server keeps the promise of ConnService, in every interleaving of its
\* processes and with every failing call (test_server.cpp:405-460,56-79).
THEOREM ServiceImplemented == Spec => ImplementsService
  BY ServerInvHolds, InitRefines, NextRefines, PTL
  DEF Spec, ImplementsService, Service!ServiceSpec
=============================================================================
