------------------------- MODULE ThreadServerProofs -------------------------
(***************************************************************************)
(* What TLAPS proves of ThreadServer for every number of clients, every    *)
(* size of the descriptor table and every backlog.  The theorems are about *)
(* Spec, so about every interleaving of thread_accept, its threads and the *)
(* clients, failures included.                                             *)
(***************************************************************************)
EXTENDS ThreadServer, TLAPS

-----------------------------------------------------------------------------
(***************************************************************************)
(* The type invariant                                                      *)
(***************************************************************************)
\* The assumptions on the constants, together.
LEMMA ServerAssumptions ==
  N \in Nat /\ Backlog \in Nat /\ MaxFd \in Nat \ {0} /\ MayFail \in BOOLEAN
  BY CharClientAssumption, ThreadServerAssumption

\* A number that denotes a connection is in the table.
LEMMA DenotesType ==
  ASSUME TypeOK, NEW f \in Fds \cup {NoFd}
  PROVE  Denotes(f) \in 0..N
  BY ServerAssumptions DEF TypeOK, ClientTypeOK, Denotes

\* The initial state is well typed.
LEMMA InitType == Init => TypeOK
  BY ServerAssumptions DEF Init, TypeOK, ClientInit, ClientTypeOK, Conns, Fds, NoFd

\* Every step of a client, of thread_accept and of a thread keeps the types.
LEMMA NextType == TypeOK /\ [Next]_vars => TypeOK'
<1> SUFFICES ASSUME TypeOK, [Next]_vars PROVE TypeOK'
  OBVIOUS
<1> USE ServerAssumptions
<1> USE DEF TypeOK, ClientTypeOK
<1>1. ASSUME NEW k \in Conns, Connect(k) PROVE TypeOK'
  BY <1>1 DEF Connect, Dial, ServerUnchanged, MainVars, ThreadVars
<1>2. ASSUME NEW k \in Conns, ClientWrite(k) PROVE TypeOK'
  BY <1>2 DEF ClientWrite, Say, ServerUnchanged, MainVars, ThreadVars
<1>3. ASSUME NEW k \in Conns, ClientRead(k) PROVE TypeOK'
  BY <1>3 DEF ClientRead, Hear, ServerUnchanged, MainVars, ThreadVars
<1>4. CASE Accept
  <2>1. accepted + 1 \in 0..N
    BY <1>4 DEF Accept
  <2>2. linkage' \in Fds /\ fds' \in [Fds -> 0..N]
    BY <1>4, <2>1 DEF Accept
  <2> QED BY <1>4, <2>1, <2>2 DEF Accept, ClientVars, ThreadVars
<1>5. CASE AcceptFail
  BY <1>5 DEF AcceptFail, ClientVars, ThreadVars
<1>6. CASE StoreFuncData
  BY <1>6 DEF StoreFuncData, ClientVars, ThreadVars
<1>7. CASE PthreadCreate
  BY <1>7 DEF PthreadCreate, ClientVars
<1>8. CASE PthreadCreateFail
  BY <1>8 DEF PthreadCreateFail, ClientVars, ThreadVars
<1>9. CASE ProcessExit
  <2>1. resets' \subseteq Conns
    BY <1>9 DEF ProcessExit
  <2>2. tpc' \in [Conns -> {"none", "done"}]
    BY <1>9, Zenon DEF ProcessExit
  <2>3. fds' \in [Fds -> 0..N] /\ pinned' \in [Conns -> 0..N]
    BY <1>9 DEF ProcessExit
  <2> QED BY <1>9, <2>1, <2>2, <2>3 DEF ProcessExit
<1>10. ASSUME NEW k \in Conns, CopyFuncData(k) PROVE TypeOK'
  BY <1>10 DEF CopyFuncData, Step, ClientVars, MainVars
<1>11. ASSUME NEW k \in Conns, WriteMessage(k) PROVE TypeOK'
  <2> DEFINE c == Denotes(tfd[k])
  <2>1. c \in 0..N
    BY DenotesType
  <2>2. writers' \in [Conns -> SUBSET Conns]
    BY <1>11, <2>1 DEF WriteMessage, Conns
  <2> QED BY <1>11, <2>2 DEF WriteMessage, Step, MainVars
<1>12. ASSUME NEW k \in Conns, ReadMessage(k) PROVE TypeOK'
  BY <1>12, DenotesType DEF ReadMessage, Step, ClientVars, MainVars
<1>13. ASSUME NEW k \in Conns, ReadReturn(k) PROVE TypeOK'
  BY <1>13 DEF ReadReturn, Step, MainVars
<1>14. ASSUME NEW k \in Conns, CloseLinkage(k) PROVE TypeOK'
  <2>1. resets' \subseteq Conns
    BY <1>14 DEF CloseLinkage
  <2>2. fds' \in [Fds -> 0..N]
    BY <1>14 DEF CloseLinkage
  <2> QED BY <1>14, <2>1, <2>2 DEF CloseLinkage, Step, MainVars
<1>15. CASE UNCHANGED vars
  BY <1>15 DEF vars
<1> QED
  BY <1>1, <1>2, <1>3, <1>4, <1>5, <1>6, <1>7, <1>8, <1>9, <1>10, <1>11,
     <1>12, <1>13, <1>14, <1>15
  DEF Next, Main, Failure, Client, Thread

\* Every variable keeps its type: in particular descriptor numbers stay in
\* the table and accept() is never called for more than N connections.
THEOREM TypeCorrect == Spec => []TypeOK
  BY InitType, NextType, PTL DEF Spec

-----------------------------------------------------------------------------
(***************************************************************************)
(* ForwardOnly.  By itself it is not inductive: that CopyFuncData gives    *)
(* thread k a number of connection k or a later one rests on what          *)
(* thread_accept left in func_data.  Stored is the last connection whose   *)
(* number was stored there; the number in func_data denotes that           *)
(* connection, a later one or none, because a number that leaves a         *)
(* connection can only be given to the next one accepted.                  *)
(***************************************************************************)
Holding == {"write", "read", "blocked", "close"}

Stored == IF main = "store" THEN accepted - 1 ELSE accepted

\* f denotes connection k, a later one or none.
FromOn(f, k) == f \in Fds /\ (fds[f] = 0 \/ fds[f] >= k)

\* Threads exist for stored connections only, and numbers denote accepted
\* connections only.
Counts ==
  /\ main \in {"store", "create"} => accepted >= 1 /\ tpc[accepted] = "none"
  /\ \A k \in Conns : tpc[k] # "none" => k <= Stored
  /\ \A f \in Fds : fds[f] <= accepted
  /\ \A k \in Conns : pinned[k] # 0 => tpc[k] = "blocked"

FuncDataForward ==
  /\ main \in {"store", "create"} => FromOn(linkage, accepted)
  /\ Stored > 0 => FromOn(slot, Stored)

ThreadsForward ==
  \A k \in Conns : tpc[k] \in Holding =>
    /\ FromOn(tfd[k], k)
    /\ pinned[k] # 0 => pinned[k] >= k

ForwardInv ==
  /\ TypeOK
  /\ Counts
  /\ "dangling" \notin misuse => FuncDataForward /\ ThreadsForward

\* Threads exist for accepted connections only, and numbers denote accepted
\* connections only, after every step.
LEMMA NextCounts == TypeOK /\ Counts /\ [Next]_vars => Counts'
<1> SUFFICES ASSUME TypeOK, Counts, [Next]_vars PROVE Counts'
  OBVIOUS
<1> USE ServerAssumptions
<1> USE DEF TypeOK, Counts, Stored, Conns
<1>1. ASSUME NEW k \in Conns, Client(k) PROVE Counts'
  BY <1>1 DEF Client, Connect, ClientWrite, ClientRead, ServerUnchanged,
      MainVars, ThreadVars
<1>2. CASE Accept
  BY <1>2 DEF Accept, ThreadVars
<1>3. CASE AcceptFail \/ StoreFuncData \/ PthreadCreateFail
  BY <1>3 DEF AcceptFail, StoreFuncData, PthreadCreateFail, ThreadVars
<1>4. CASE PthreadCreate
  <2>1. \A k \in Conns : k # accepted => tpc'[k] = tpc[k]
    BY <1>4 DEF PthreadCreate
  <2>2. pinned[accepted] = 0 /\ accepted \in Conns
    BY <1>4 DEF PthreadCreate
  <2> QED BY <1>4, <2>1, <2>2 DEF PthreadCreate
<1>5. CASE ProcessExit
  <2>1. \A k \in Conns : tpc'[k] # "none" => tpc[k] # "none"
    BY <1>5, Zenon DEF ProcessExit
  <2>2. (\A f \in Fds : fds'[f] = 0) /\ \A k \in Conns : pinned'[k] = 0
    BY <1>5, Zenon DEF ProcessExit
  <2> QED BY <1>5, <2>1, <2>2 DEF ProcessExit
<1>6. ASSUME NEW k \in Conns, CopyFuncData(k) PROVE Counts'
  BY <1>6 DEF CopyFuncData, Step, MainVars
<1>7. ASSUME NEW k \in Conns, WriteMessage(k) PROVE Counts'
  BY <1>7 DEF WriteMessage, Step, MainVars
<1>8. ASSUME NEW k \in Conns, ReadMessage(k) PROVE Counts'
  BY <1>8, DenotesType DEF ReadMessage, Step, MainVars
<1>9. ASSUME NEW k \in Conns, ReadReturn(k) PROVE Counts'
  BY <1>9 DEF ReadReturn, Step, MainVars
<1>10. ASSUME NEW k \in Conns, CloseLinkage(k) PROVE Counts'
  <2>1. \A f \in Fds : fds'[f] = 0 \/ fds'[f] = fds[f]
    BY <1>10 DEF CloseLinkage
  <2> QED BY <1>10, <2>1 DEF CloseLinkage, Step, MainVars
<1>11. CASE UNCHANGED vars
  BY <1>11 DEF vars
<1> QED
  BY <1>1, <1>2, <1>3, <1>4, <1>5, <1>6, <1>7, <1>8, <1>9, <1>10, <1>11
  DEF Next, Main, Failure, Thread

\* The strengthened invariant holds before anything is accepted.
LEMMA InitForward == Init => ForwardInv
  BY InitType, ServerAssumptions
  DEF Init, ForwardInv, Counts, FuncDataForward, ThreadsForward, Stored,
      Holding, Conns

\* A number that denotes connection k or a later one keeps doing so: only
\* accept() gives it to another connection, the next one.
LEMMA FromOnKept ==
  ASSUME TypeOK, NEW f, NEW k \in 0..accepted, FromOn(f, k),
         \A g \in Fds : fds'[g] \in {0, fds[g], accepted + 1},
         fds' \in [Fds -> 0..N]
  PROVE  FromOn(f, k)'
  BY ServerAssumptions DEF TypeOK, FromOn

\* No step gives a number to anything but nothing or the next connection.
LEMMA NumbersOnlyMoveOn ==
  ASSUME TypeOK, [Next]_vars
  PROVE  \A g \in Fds : fds'[g] \in {0, fds[g], accepted + 1}
<1> USE ServerAssumptions
<1> USE DEF TypeOK
<1>1. CASE Accept
  BY <1>1 DEF Accept
<1>2. CASE ProcessExit
  BY <1>2, Zenon DEF ProcessExit
<1>3. ASSUME NEW k \in Conns, CloseLinkage(k)
      PROVE  \A g \in Fds : fds'[g] \in {0, fds[g], accepted + 1}
  BY <1>3, Zenon DEF CloseLinkage
<1>4. CASE UNCHANGED fds
  BY <1>4
<1> QED
  BY <1>1, <1>2, <1>3, <1>4
  DEF Next, Main, Failure, Client, Thread, Connect, ClientWrite, ClientRead,
      ServerUnchanged, AcceptFail, StoreFuncData, PthreadCreate,
      PthreadCreateFail, CopyFuncData, WriteMessage, ReadMessage, ReadReturn,
      vars

\* Every step keeps what is argued about func_data and the threads: their
\* numbers are never behind.
LEMMA NextForward == ForwardInv /\ [Next]_vars => ForwardInv'
<1> SUFFICES ASSUME ForwardInv, [Next]_vars,
                    "dangling" \notin misuse'
             PROVE  (FuncDataForward /\ ThreadsForward)'
  BY NextType, NextCounts DEF ForwardInv
<1> USE ServerAssumptions
<1>1. TypeOK /\ TypeOK' /\ Counts /\ Counts'
  BY NextType, NextCounts DEF ForwardInv
<1>2. \A g \in Fds : fds'[g] \in {0, fds[g], accepted + 1}
  BY <1>1, NumbersOnlyMoveOn
<1>3. "dangling" \notin misuse
  BY <1>1 DEF Next, Main, Failure, Client, Thread, Connect, ClientWrite,
      ClientRead, ServerUnchanged, Accept, AcceptFail, StoreFuncData,
      PthreadCreate, PthreadCreateFail, ProcessExit, CopyFuncData, WriteMessage, ReadMessage,
      ReadReturn, CloseLinkage, vars
<1>4. FuncDataForward /\ ThreadsForward
  BY <1>3 DEF ForwardInv
<1>5. accepted \in 0..N /\ accepted' \in 0..N
  BY <1>1 DEF TypeOK
<1>6. \A k \in 0..accepted : \A f \in Fds : FromOn(f, k) => FromOn(f, k)'
  BY <1>1, <1>2, FromOnKept DEF TypeOK
<1>7. ASSUME UNCHANGED <<main, accepted, linkage, slot>> PROVE FuncDataForward'
  BY <1>1, <1>4, <1>5, <1>6, <1>7 DEF FuncDataForward, Stored, Counts, FromOn
<1>8. ASSUME UNCHANGED <<tpc, tfd, pinned>> PROVE ThreadsForward'
  <2>1. \A k \in Conns : tpc[k] \in Holding => k \in 0..accepted
    BY <1>1, <1>5 DEF Counts, Stored, Holding, Conns
  <2>2. \A k \in Conns : tpc[k] \in Holding => FromOn(tfd[k], k)'
    BY <2>1, <1>4, <1>6, <1>8 DEF ThreadsForward, FromOn
  <2> QED BY <2>2, <1>4, <1>8 DEF ThreadsForward, FromOn
<1>9. ASSUME NEW k \in Conns, Client(k) PROVE (FuncDataForward /\ ThreadsForward)'
  BY <1>7, <1>8, <1>9
  DEF Client, Connect, ClientWrite, ClientRead, ServerUnchanged,
      MainVars, ThreadVars
<1>10. CASE Accept
  <2>1. FromOn(linkage, accepted)'
    BY <1>1, <1>10 DEF Accept, FromOn, TypeOK
  <2>2. Stored' = Stored /\ main = "accept"
    BY <1>10, <1>5 DEF Accept, Stored
  <2>3. FuncDataForward'
    BY <2>1, <2>2, <1>4, <1>5, <1>6, <1>10
    DEF Accept, FuncDataForward, Stored, FromOn
  <2> QED BY <2>3, <1>8, <1>10 DEF Accept, ThreadVars
<1>11. CASE AcceptFail \/ PthreadCreateFail
  <2>1. FuncDataForward'
    BY <1>1, <1>4, <1>11
    DEF AcceptFail, PthreadCreateFail, FuncDataForward, Stored, FromOn
  <2> QED BY <2>1, <1>8, <1>11 DEF AcceptFail, PthreadCreateFail, ThreadVars
<1>12. CASE StoreFuncData
  <2>1. FuncDataForward'
    BY <1>1, <1>4, <1>12 DEF StoreFuncData, FuncDataForward, Stored, FromOn
  <2> QED BY <2>1, <1>8, <1>12 DEF StoreFuncData, ThreadVars
<1>13. CASE PthreadCreate
  <2>1. FuncDataForward'
    BY <1>1, <1>4, <1>13 DEF PthreadCreate, FuncDataForward, Stored, FromOn
  <2>2. \A k \in Conns : tpc'[k] \in Holding => tpc'[k] = tpc[k]
    BY <1>1, <1>13 DEF PthreadCreate, TypeOK, Holding
  <2>3. ThreadsForward'
    BY <2>2, <1>1, <1>4, <1>13 DEF PthreadCreate, ThreadsForward, FromOn
  <2> QED BY <2>1, <2>3
<1>14. CASE ProcessExit
  <2>1. FuncDataForward'
    BY <1>1, <1>2, <1>4, <1>5, <1>6, <1>14
    DEF ProcessExit, FuncDataForward, Stored, FromOn, Counts
  <2>2. \A k \in Conns : tpc'[k] \notin Holding
    BY <1>14, Zenon DEF ProcessExit, Holding
  <2> QED BY <2>1, <2>2 DEF ThreadsForward
<1>15. ASSUME NEW k \in Conns, CopyFuncData(k)
       PROVE  (FuncDataForward /\ ThreadsForward)'
  <2>1. FuncDataForward'
    BY <1>7, <1>15 DEF CopyFuncData, MainVars
  <2>2. main # "returned" /\ tfd' = [tfd EXCEPT ![k] = slot]
    BY <1>15 DEF CopyFuncData
  <2>3. k \in 1..Stored /\ FromOn(slot, Stored) /\ pinned[k] = 0
    BY <1>1, <1>4, <1>15
    DEF CopyFuncData, Step, Counts, Conns, FuncDataForward, Stored, TypeOK
  <2>4. FromOn(slot, k)
    BY <2>3, <1>1 DEF FromOn, Stored, TypeOK
  <2>5. ThreadsForward'
    BY <2>2, <2>3, <2>4, <1>1, <1>4, <1>15
    DEF CopyFuncData, Step, ThreadsForward, FromOn, TypeOK, Holding
  <2> QED BY <2>1, <2>5
<1>16. ASSUME NEW k \in Conns, WriteMessage(k)
       PROVE  (FuncDataForward /\ ThreadsForward)'
  <2>1. FuncDataForward'
    BY <1>7, <1>16 DEF WriteMessage, MainVars
  <2>2. ThreadsForward'
    BY <1>1, <1>4, <1>16
    DEF WriteMessage, Step, ThreadsForward, FromOn, TypeOK, Holding
  <2> QED BY <2>1, <2>2
<1>17. ASSUME NEW k \in Conns, ReadMessage(k)
       PROVE  (FuncDataForward /\ ThreadsForward)'
  <2>1. FuncDataForward'
    BY <1>7, <1>17 DEF ReadMessage, MainVars
  <2>2. FromOn(tfd[k], k) /\ pinned' = [pinned EXCEPT ![k] = fds[tfd[k]]]
    BY <1>4, <1>17
    DEF ReadMessage, Step, ThreadsForward, FromOn, Holding, Denotes
  <2>3. ThreadsForward'
    BY <2>2, <1>1, <1>4, <1>17
    DEF ReadMessage, Step, ThreadsForward, FromOn, TypeOK, Holding
  <2> QED BY <2>1, <2>3
<1>18. ASSUME NEW k \in Conns, ReadReturn(k)
       PROVE  (FuncDataForward /\ ThreadsForward)'
  <2>1. FuncDataForward'
    BY <1>7, <1>18 DEF ReadReturn, MainVars
  <2>2. ThreadsForward'
    BY <1>1, <1>4, <1>18
    DEF ReadReturn, Step, ThreadsForward, FromOn, TypeOK, Holding
  <2> QED BY <2>1, <2>2
<1>19. ASSUME NEW k \in Conns, CloseLinkage(k)
       PROVE  (FuncDataForward /\ ThreadsForward)'
  <2>1. FuncDataForward'
    BY <1>7, <1>19 DEF CloseLinkage, MainVars
  <2>2. \A f \in Fds : \A j \in Conns : FromOn(f, j) => FromOn(f, j)'
    BY <1>19, Zenon DEF CloseLinkage, FromOn
  <2>3. ThreadsForward'
    BY <2>2, <1>1, <1>4, <1>19
    DEF CloseLinkage, Step, ThreadsForward, FromOn, TypeOK, Holding
  <2> QED BY <2>1, <2>3
<1>20. CASE UNCHANGED vars
  BY <1>7, <1>8, <1>20 DEF vars
<1> QED
  BY <1>9, <1>10, <1>11, <1>12, <1>13, <1>14, <1>15, <1>16, <1>17, <1>18,
     <1>19, <1>20
  DEF Next, Main, Failure, Thread

\* Whatever the interleaving and whatever fails, the number a thread works
\* with is never that of a connection accepted before its own: the race on
\* func_data misdirects forward only (test_server.cpp:60,388-394).
THEOREM ForwardOnlyHolds == Spec => []ForwardOnly
<1>1. ForwardInv => ForwardOnly
  BY ServerAssumptions
  DEF ForwardInv, ForwardOnly, ThreadsForward, FromOn, Holding
<1> QED BY <1>1, InitForward, NextForward, PTL DEF Spec

-----------------------------------------------------------------------------
(***************************************************************************)
(* OwnThreadOnly.  While no argument was lost, at most one thread has yet  *)
(* to copy func_data, and it is the one whose number is there.  Open       *)
(* connections have exactly one number, and a connection keeps it until    *)
(* its own thread is done.                                                 *)
(***************************************************************************)
NumbersDistinct ==
  \A f, g \in Fds : fds[f] = fds[g] /\ fds[f] # 0 => f = g

\* f is the number of connection k.
Denoting(f, k) == f \in Fds /\ fds[f] = k

OwnFuncData ==
  /\ main \in {"store", "create"} => Denoting(linkage, accepted)
  /\ main = "create" => slot = linkage
  /\ \A k \in Conns : tpc[k] = "start" => Denoting(slot, k) /\ main # "create"

OwnThreads ==
  \A k \in Conns :
    /\ tpc[k] \in Holding => Denoting(tfd[k], k)
    /\ pinned[k] = IF tpc[k] = "blocked" THEN k ELSE 0
    /\ writers[k] \subseteq {k}

OwnEnds ==
  main # "exited" =>
    \A k \in Conns : k <= accepted =>
      (tpc[k] = "done" <=> \A f \in Fds : fds[f] # k)

OwnInv ==
  /\ TypeOK
  /\ Counts
  /\ NumbersDistinct
  /\ misuse = {} => OwnFuncData /\ OwnThreads /\ OwnEnds

\* The strengthened invariant of the race-free behaviour holds initially.
LEMMA InitOwn == Init => OwnInv
<1> SUFFICES ASSUME Init PROVE OwnInv
  OBVIOUS
<1>1. TypeOK /\ Counts
  BY InitType, InitForward DEF ForwardInv
<1>2. NumbersDistinct /\ OwnFuncData /\ OwnThreads /\ OwnEnds
  BY ServerAssumptions
  DEF Init, NumbersDistinct, OwnFuncData, OwnThreads, OwnEnds, Holding, Conns
<1> QED BY <1>1, <1>2 DEF OwnInv

\* No connection is ever behind two numbers: accept() numbers a new one and
\* nothing copies numbers.
LEMMA NextNumbersDistinct ==
  ASSUME TypeOK, Counts, NumbersDistinct, [Next]_vars
  PROVE  NumbersDistinct'
<1> USE ServerAssumptions
<1> USE DEF TypeOK, Counts, NumbersDistinct
<1>1. CASE Accept
  <2>1. PICK a \in Fds : fds' = [fds EXCEPT ![a] = accepted + 1]
    BY <1>1 DEF Accept
  <2>2. \A g \in Fds : fds[g] # accepted + 1
    OBVIOUS
  <2> QED BY <2>1, <2>2
<1>2. CASE ProcessExit
  BY <1>2, Zenon DEF ProcessExit
<1>3. ASSUME NEW k \in Conns, CloseLinkage(k) PROVE NumbersDistinct'
  <2>1. \A g \in Fds : fds'[g] = 0 \/ fds'[g] = fds[g]
    BY <1>3, Zenon DEF CloseLinkage
  <2> QED BY <2>1
<1>4. CASE UNCHANGED fds
  BY <1>4
<1> QED
  BY <1>1, <1>2, <1>3, <1>4
  DEF Next, Main, Failure, Client, Thread, Connect, ClientWrite, ClientRead,
      ServerUnchanged, AcceptFail, StoreFuncData, PthreadCreate,
      PthreadCreateFail, CopyFuncData, WriteMessage, ReadMessage, ReadReturn,
      vars

\* One step of a behaviour in which no argument has been lost.
LEMMA NextOwnInTime ==
  ASSUME TypeOK, Counts, NumbersDistinct, TypeOK', Counts', NumbersDistinct',
         OwnFuncData, OwnThreads, OwnEnds, misuse = {}, misuse' = {},
         [Next]_vars
  PROVE  (OwnFuncData /\ OwnThreads /\ OwnEnds)'
<1> USE ServerAssumptions
<1>1. accepted \in 0..N /\ accepted' \in 0..N
  BY DEF TypeOK
<1>2. ASSUME UNCHANGED <<accepted, main, linkage, slot, fds, tpc, tfd, pinned,
                         writers>>
      PROVE  (OwnFuncData /\ OwnThreads /\ OwnEnds)'
  BY <1>2 DEF OwnFuncData, OwnThreads, OwnEnds, Denoting
<1>3. ASSUME NEW k \in Conns, Client(k)
      PROVE  (OwnFuncData /\ OwnThreads /\ OwnEnds)'
  BY <1>2, <1>3
  DEF Client, Connect, ClientWrite, ClientRead, ServerUnchanged,
      MainVars, ThreadVars
<1>4. CASE Accept
  <2>1. PICK a \in Fds : /\ fds[a] = 0
                         /\ linkage' = a
                         /\ fds' = [fds EXCEPT ![a] = accepted + 1]
    BY <1>4 DEF Accept
  <2>2. \A f \in Fds : f # a => fds'[f] = fds[f]
    BY <2>1 DEF TypeOK
  <2>3. fds'[a] = accepted + 1
    BY <2>1 DEF TypeOK
  <2>4. /\ main = "accept" /\ main' = "store" /\ accepted' = accepted + 1
        /\ UNCHANGED <<slot, tpc, tfd, pinned, writers>>
    BY <1>4 DEF Accept, ClientVars, ThreadVars
  <2>5. tpc[accepted + 1] = "none" /\ accepted + 1 \in Conns
    BY <1>1, <2>4 DEF Counts, Stored, Conns, TypeOK
  <2>6. \A f \in Fds, k \in Conns : Denoting(f, k) => Denoting(f, k)'
    BY <2>1, <2>2 DEF Denoting, Conns
  <2>7. OwnFuncData'
    BY <2>1, <2>3, <2>4, <2>6 DEF OwnFuncData, Denoting
  <2>8. OwnThreads'
    BY <2>4, <2>6 DEF OwnThreads, Denoting
  <2>9. OwnEnds'
    <3>1. SUFFICES ASSUME NEW k \in Conns, k <= accepted + 1
                   PROVE  tpc[k] = "done" <=> \A f \in Fds : fds'[f] # k
      BY <2>4 DEF OwnEnds
    <3>2. CASE k = accepted + 1
      BY <3>2, <2>3, <2>5
    <3>3. CASE k # accepted + 1
      BY <3>1, <3>3, <2>1, <2>2, <2>3, <2>4, <1>1 DEF OwnEnds, Conns
    <3> QED BY <3>2, <3>3
  <2> QED BY <2>7, <2>8, <2>9
<1>5. CASE AcceptFail \/ PthreadCreateFail
  BY <1>5
  DEF AcceptFail, PthreadCreateFail, OwnFuncData, OwnThreads, OwnEnds,
      Denoting, ClientVars, ThreadVars
<1>6. CASE StoreFuncData
  <2>1. \A k \in Conns : tpc[k] # "start"
    BY <1>6 DEF StoreFuncData
  <2> QED
    BY <1>6, <2>1
    DEF StoreFuncData, OwnFuncData, OwnThreads, OwnEnds, Denoting,
        ClientVars, ThreadVars
<1>7. CASE PthreadCreate
  <2>1. /\ main = "create" /\ main' = "accept"
        /\ accepted \in Conns /\ tpc[accepted] = "none"
        /\ tpc' = [tpc EXCEPT ![accepted] = "start"]
        /\ UNCHANGED <<accepted, linkage, slot, fds, tfd, pinned, writers>>
    BY <1>1, <1>7 DEF PthreadCreate, Counts, Conns, ClientVars
  <2>2. \A k \in Conns : /\ k # accepted => tpc'[k] = tpc[k]
                         /\ k = accepted => tpc'[k] = "start"
    BY <2>1 DEF TypeOK
  <2>3. OwnFuncData'
    BY <2>1, <2>2 DEF OwnFuncData, Denoting
  <2>4. OwnThreads'
    BY <2>1, <2>2 DEF OwnThreads, Denoting, Holding
  <2>5. OwnEnds'
    BY <2>1, <2>2 DEF OwnEnds
  <2> QED BY <2>3, <2>4, <2>5
<1>8. CASE ProcessExit
  <2>1. \A k \in Conns : tpc'[k] \in {"none", "done"} /\ pinned'[k] = 0
    BY <1>8, Zenon DEF ProcessExit
  <2>2. main' = "exited" /\ writers' = writers
    BY <1>8 DEF ProcessExit
  <2> QED
    BY <2>1, <2>2 DEF OwnFuncData, OwnThreads, OwnEnds, Holding
<1>9. ASSUME NEW k \in Conns, CopyFuncData(k)
      PROVE  (OwnFuncData /\ OwnThreads /\ OwnEnds)'
  <2>1. /\ tpc[k] = "start"
        /\ tpc' = [tpc EXCEPT ![k] = "write"]
        /\ tfd' = [tfd EXCEPT ![k] = slot]
        /\ UNCHANGED <<accepted, main, linkage, slot, fds, pinned, writers>>
    BY <1>9 DEF CopyFuncData, Step, ClientVars, MainVars
  <2>2. Denoting(slot, k) /\ pinned[k] = 0
    BY <2>1 DEF OwnFuncData, OwnThreads
  <2>3. \A j \in Conns : /\ j # k => tpc'[j] = tpc[j] /\ tfd'[j] = tfd[j]
                         /\ j = k => tpc'[j] = "write" /\ tfd'[j] = slot
    BY <2>1 DEF TypeOK
  <2>4. OwnFuncData'
    BY <2>1, <2>3, <1>1 DEF OwnFuncData, Denoting, Counts, Conns
  <2>5. OwnThreads'
    BY <2>1, <2>2, <2>3 DEF OwnThreads, Denoting, Holding
  <2>6. OwnEnds'
    BY <2>1, <2>3 DEF OwnEnds
  <2> QED BY <2>4, <2>5, <2>6
<1>10. ASSUME NEW k \in Conns, WriteMessage(k)
       PROVE  (OwnFuncData /\ OwnThreads /\ OwnEnds)'
  <2>1. /\ tpc[k] = "write"
        /\ tpc' = [tpc EXCEPT ![k] = "read"]
        /\ UNCHANGED <<accepted, main, linkage, slot, fds, tfd, pinned>>
    BY <1>10 DEF WriteMessage, Step, MainVars
  <2>2. Denotes(tfd[k]) = k
    BY <2>1 DEF OwnThreads, Denoting, Denotes, Holding
  <2>3. writers' = [writers EXCEPT ![k] = @ \cup {k}]
    BY <2>2, <1>10 DEF WriteMessage, Conns
  <2>4. \A j \in Conns : /\ j # k => tpc'[j] = tpc[j]
                         /\ j = k => tpc'[j] = "read"
    BY <2>1 DEF TypeOK
  <2>5. OwnFuncData'
    BY <2>1, <2>4, <1>1 DEF OwnFuncData, Denoting, Counts, Conns
  <2>6. OwnThreads'
    BY <2>1, <2>3, <2>4 DEF OwnThreads, Denoting, Holding, TypeOK
  <2>7. OwnEnds'
    BY <2>1, <2>4 DEF OwnEnds
  <2> QED BY <2>5, <2>6, <2>7
<1>11. ASSUME NEW k \in Conns, ReadMessage(k)
       PROVE  (OwnFuncData /\ OwnThreads /\ OwnEnds)'
  <2>1. tpc[k] = "read"
    BY <1>11 DEF ReadMessage, Step
  <2>2. Denotes(tfd[k]) = k /\ k # 0
    BY <2>1 DEF OwnThreads, Denoting, Denotes, Holding, Conns
  <2>3. /\ tpc' = [tpc EXCEPT ![k] = "blocked"]
        /\ pinned' = [pinned EXCEPT ![k] = k]
        /\ UNCHANGED <<accepted, main, linkage, slot, fds, tfd, writers>>
    BY <2>2, <1>11 DEF ReadMessage, Step, MainVars, ClientVars
  <2>4. \A j \in Conns :
          /\ j # k => tpc'[j] = tpc[j] /\ pinned'[j] = pinned[j]
          /\ j = k => tpc'[j] = "blocked" /\ pinned'[j] = k
    BY <2>3 DEF TypeOK
  <2>5. OwnFuncData'
    BY <2>1, <2>3, <2>4, <1>1 DEF OwnFuncData, Denoting, Counts, Conns
  <2>6. OwnThreads'
    BY <2>1, <2>3, <2>4 DEF OwnThreads, Denoting, Holding
  <2>7. OwnEnds'
    BY <2>1, <2>3, <2>4 DEF OwnEnds
  <2> QED BY <2>5, <2>6, <2>7
<1>12. ASSUME NEW k \in Conns, ReadReturn(k)
       PROVE  (OwnFuncData /\ OwnThreads /\ OwnEnds)'
  <2>1. /\ tpc[k] = "blocked"
        /\ tpc' = [tpc EXCEPT ![k] = "close"]
        /\ pinned' = [pinned EXCEPT ![k] = 0]
        /\ UNCHANGED <<accepted, main, linkage, slot, fds, tfd, writers>>
    BY <1>12 DEF ReadReturn, Step, MainVars
  <2>2. \A j \in Conns :
          /\ j # k => tpc'[j] = tpc[j] /\ pinned'[j] = pinned[j]
          /\ j = k => tpc'[j] = "close" /\ pinned'[j] = 0
    BY <2>1 DEF TypeOK
  <2>3. OwnFuncData'
    BY <2>1, <2>2, <1>1 DEF OwnFuncData, Denoting, Counts, Conns
  <2>4. OwnThreads'
    BY <2>1, <2>2 DEF OwnThreads, Denoting, Holding
  <2>5. OwnEnds'
    BY <2>1, <2>2 DEF OwnEnds
  <2> QED BY <2>3, <2>4, <2>5
<1>13. ASSUME NEW k \in Conns, CloseLinkage(k)
       PROVE  (OwnFuncData /\ OwnThreads /\ OwnEnds)'
  <2>1. /\ tpc[k] = "close"
        /\ tpc' = [tpc EXCEPT ![k] = "done"]
        /\ fds' = [f \in Fds |-> IF f = tfd[k] THEN 0 ELSE fds[f]]
        /\ UNCHANGED <<accepted, main, linkage, slot, tfd, pinned, writers>>
    BY <1>13 DEF CloseLinkage, Step, MainVars
  <2>2. tfd[k] \in Fds /\ fds[tfd[k]] = k
    BY <2>1 DEF OwnThreads, Denoting, Holding
  <2>3. \A j \in Conns : /\ j # k => tpc'[j] = tpc[j]
                         /\ j = k => tpc'[j] = "done"
    BY <2>1 DEF TypeOK
  <2>4. \A f \in Fds : fds'[f] = IF f = tfd[k] THEN 0 ELSE fds[f]
    BY <2>1
  <2>5. \A f \in Fds, j \in Conns : j # k /\ Denoting(f, j) => Denoting(f, j)'
    BY <2>2, <2>4 DEF Denoting
  <2>6. OwnFuncData'
    <3>1. main \in {"store", "create"} => accepted \in Conns /\ accepted # k
      BY <2>1, <1>1 DEF Counts, Conns
    <3> QED BY <2>1, <2>3, <2>5, <3>1, <1>1
            DEF OwnFuncData, Denoting, Counts, Conns
  <2>7. OwnThreads'
    <3>1. SUFFICES ASSUME NEW j \in Conns
                   PROVE  /\ tpc'[j] \in Holding => Denoting(tfd[j], j)'
                          /\ pinned[j] = IF tpc'[j] = "blocked" THEN j ELSE 0
                          /\ writers[j] \subseteq {j}
      BY <2>1 DEF OwnThreads, Denoting
    <3>2. CASE j = k
      BY <2>1, <2>3, <3>2 DEF OwnThreads, Holding
    <3>3. CASE j # k
      <4>1. tpc[j] \in Holding => tfd[j] \in Fds /\ Denoting(tfd[j], j)
        BY DEF OwnThreads, Denoting
      <4> QED BY <2>1, <2>3, <2>5, <3>3, <4>1 DEF OwnThreads, Denoting
    <3> QED BY <3>2, <3>3
  <2>8. OwnEnds'
    <3>1. \A f \in Fds : fds'[f] # k
      BY <2>2, <2>4 DEF NumbersDistinct, Conns
    <3>2. \A j \in Conns : j # k => \A f \in Fds : fds'[f] = j <=> fds[f] = j
      BY <2>2, <2>4 DEF Conns
    <3>3. SUFFICES ASSUME main # "exited", NEW j \in Conns, j <= accepted
                   PROVE  tpc'[j] = "done" <=> \A f \in Fds : fds'[f] # j
      BY <2>1 DEF OwnEnds
    <3>4. CASE j = k
      BY <2>3, <3>1, <3>4
    <3>5. CASE j # k
      BY <2>3, <3>2, <3>3, <3>5 DEF OwnEnds
    <3> QED BY <3>4, <3>5
  <2> QED BY <2>6, <2>7, <2>8
<1>14. CASE UNCHANGED vars
  BY <1>2, <1>14 DEF vars
<1> QED
  BY <1>3, <1>4, <1>5, <1>6, <1>7, <1>8, <1>9, <1>10, <1>11, <1>12, <1>13,
     <1>14
  DEF Next, Main, Failure, Thread

\* ... and of any behaviour: once an argument has been lost nothing is claimed.
LEMMA NextOwn == OwnInv /\ [Next]_vars => OwnInv'
<1> SUFFICES ASSUME OwnInv, [Next]_vars PROVE OwnInv'
  OBVIOUS
<1>1. TypeOK' /\ Counts' /\ NumbersDistinct'
  BY NextType, NextCounts, NextNumbersDistinct DEF OwnInv
<1>2. misuse' = {} => misuse = {}
  BY DEF OwnInv, TypeOK, Next, Main, Failure, Client, Thread, Connect,
      ClientWrite, ClientRead, ServerUnchanged, Accept, AcceptFail, StoreFuncData,
      PthreadCreate, PthreadCreateFail, ProcessExit, CopyFuncData,
      WriteMessage, ReadMessage, ReadReturn, CloseLinkage, vars
<1>3. ASSUME misuse' = {} PROVE (OwnFuncData /\ OwnThreads /\ OwnEnds)'
  BY <1>1, <1>2, <1>3, NextOwnInTime DEF OwnInv
<1> QED BY <1>1, <1>3 DEF OwnInv

\* The invariant contains what was to be shown of every connection.
LEMMA OwnInvImplies == OwnInv => OwnThreadOnly
<1> SUFFICES ASSUME OwnInv, misuse = {}, NEW k \in Conns
             PROVE  /\ writers[k] \subseteq {k}
                    /\ tpc[k] \in Holding => Denoting(tfd[k], k)
                    /\ k <= accepted /\ main # "exited" =>
                         (Closed(k) <=> tpc[k] = "done")
  BY DEF OwnThreadOnly, Holding, Denoting
<1>1. OwnThreads /\ OwnEnds
  BY DEF OwnInv
<1>2. ASSUME k <= accepted, main # "exited"
      PROVE  Closed(k) <=> tpc[k] = "done"
  <2>1. \A t \in Conns : pinned[t] = k => tpc[k] = "blocked"
    BY <1>1, ServerAssumptions DEF OwnThreads, Conns
  <2> QED BY <1>1, <1>2, <2>1 DEF OwnEnds, Closed
<1> QED BY <1>1, <1>2 DEF OwnThreads

\* For every number of clients and descriptors: until an argument is lost,
\* the thread-per-connection server serves each connection by its own
\* thread alone, and ends it exactly when that thread closes it
\* (test_server.cpp:56-79,372-403).
THEOREM OwnThreadOnlyHolds == Spec => []OwnThreadOnly
  BY InitOwn, NextOwn, OwnInvImplies, PTL DEF Spec
=============================================================================
