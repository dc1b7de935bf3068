------------------------- MODULE SelectServerProofs -------------------------
(***************************************************************************)
(* What TLAPS proves of SelectServer for every number of clients, every    *)
(* length of the accept queue, of the messages and of a read(), buffers of *)
(* every size that holds a message, and a descriptor table that fits into  *)
(* an fd_set: its one thread is never stopped by a blocking call, and no   *)
(* client fails because of another.  Both follow from one inductive        *)
(* invariant, and TypeOK is a part of it: a message is written only where  *)
(* there is room for it.                                                   *)
(***************************************************************************)
EXTENDS SelectServer, WellFoundedInduction, TLAPS

\* The assumptions on the constants, as the proofs need them.
LEMMA Bounds ==
  /\ N \in Nat /\ Backlog \in Nat /\ MaxFd \in Nat /\ ReadSize \in Nat /\ ReadSize > 0
  /\ Buf \in Nat /\ AskLength \in Nat /\ AskLength > 0 /\ AskLength <= Buf
  /\ AnswerLength \in Nat /\ AnswerLength > 0 /\ AnswerLength <= Buf
  BY PollingClientsAssumption, SelectServerAssumption

\* The loops over the array come to a connection of the set they read.
LEMMA MinIsMember ==
  ASSUME NEW S \in SUBSET Nat, S # {}
  PROVE  Min(S) \in S /\ \A y \in S : Min(S) <= y
<1>1. PICK x \in S : \A y \in S : ~(<<y, x>> \in OpToRel(<, Nat))
  BY NatLessThanWellFounded, WFMin
<1>2. \A y \in S : x <= y
  <2> SUFFICES ASSUME NEW y \in S, ~(x <= y) PROVE FALSE
    OBVIOUS
  <2>1. <<y, x>> \in OpToRel(<, Nat)
    BY DEF OpToRel
  <2> QED BY <1>1, <2>1
<1> QED BY <1>2 DEF Min

\* A read() takes from a stream and adds nothing to it.
LEMMA ReadTakes ==
  ASSUME NEW bytes \in 0..Buf
  PROVE  AfterRead(bytes) \in 0..Buf /\ AfterRead(bytes) <= bytes
  BY Bounds DEF AfterRead

-----------------------------------------------------------------------------
(***************************************************************************)
(* The inductive invariant.                                                *)
(***************************************************************************)
\* What select() reported stays true until the loop comes to it.  The thread
\* uses the answer for the writes only after all the reads, so the answer
\* must outlast them: NeverBlocks says it of the phase that uses it, this of
\* every phase before.
ReportsLast ==
  /\ main = "accept" => \E k \in Conns : Queued(k)
  /\ main \in {"accept", "read"} => \A k \in rset : ReadReady(k)
  /\ main \in {"accept", "read", "write"} => \A k \in wset : WriteReady(k)

\* The server's end of a connection is open until the process ends, or, if it
\* was never accepted, until the listening socket is closed.
Kept(k) == main # "exited" /\ (Listening \/ k <= accepted)

\* As long as it is, the client finds what its own select() or poll() told it
\* of: only the client takes messages from one direction and fills the other.
PollsLast ==
  \A k \in Conns : Kept(k) =>
    /\ ends[k] = "open"
    /\ client[k] # "err"
    /\ client[k] \in {"read", "both"} => toClient[k] > 0
    /\ client[k] \in {"both", "write"} => toServer[k] + AnswerLength <= Buf

\* poll_client writes without having asked for room, but it writes once, to
\* a stream it has put nothing into.
PollsOnce ==
  \A k \in Conns :
    /\ client[k] = "new" => toServer[k] = 0
    /\ kind[k] = "poll" /\ client[k] \in {"ask", "read"} => toServer[k] = 0

SelectInv == TypeOK /\ ReportsLast /\ PollsLast /\ PollsOnce

\* No connection is open.
LEMMA InitInv == Init => SelectInv
  BY Bounds DEF Init, ClientInit, SelectInv, TypeOK, ClientTypeOK, Conns,
                ReportsLast, PollsLast, PollsOnce

\* What the clients' steps leave alone: everything of the other clients, and
\* what the server's reports rest on.
LEMMA ClientSteps ==
  ASSUME SelectInv, NEW k \in Conns, Client(k)
  PROVE  /\ ClientTypeOK'
         /\ UNCHANGED ServerVars
         /\ \A j \in Conns : j # k => /\ client'[j] = client[j]
                                      /\ ends'[j] = ends[j]
                                      /\ toClient'[j] = toClient[j]
                                      /\ toServer'[j] = toServer[j]
         /\ Gone(k) => Gone(k)'
         /\ toServer'[k] >= toServer[k]
         /\ client'[k] # "new"
         /\ kind'[k] = "poll" /\ client'[k] \in {"ask", "read"} => toServer'[k] = 0
         /\ kind' = kind
         /\ toClient'[k] <= toClient[k]
<1> USE Bounds
<1>0. /\ ClientTypeOK
      /\ client[k] = "new" => toServer[k] = 0
      /\ kind[k] = "poll" /\ client[k] \in {"ask", "read"} => toServer[k] = 0
  BY DEF SelectInv, TypeOK, PollsOnce
<1>1. CASE Connect(k)
  BY <1>0, <1>1 DEF Connect, Dial, Goes, ClientTypeOK, Gone, ServerVars
<1>2. CASE Select(k) /\ UNCHANGED ServerVars
  BY <1>0, <1>2 DEF Select, Goes, ClientTypeOK, Gone, ServerVars
<1>3. CASE Poll(k) /\ UNCHANGED ServerVars
  BY <1>0, <1>3 DEF Poll, Goes, ClientTypeOK, Gone, ServerVars
<1>4. CASE Read(k) /\ UNCHANGED ServerVars
  BY <1>0, <1>4, ReadTakes DEF Read, Goes, ClientTypeOK, Gone, ServerVars
<1>5. CASE Write(k) /\ UNCHANGED ServerVars
  BY <1>0, <1>5 DEF Write, Writable, Goes, ClientTypeOK, Gone, ServerVars
<1>6. CASE Leave(k) /\ UNCHANGED ServerVars
  BY <1>0, <1>6 DEF Leave, Goes, ClientTypeOK, Gone, ServerVars
<1> QED BY <1>1, <1>2, <1>3, <1>4, <1>5, <1>6
        DEF Client, ClientAsks, ClientServes, Ask, Serve

\* A client whose connection the server keeps stays in step with it.
LEMMA ClientInStep ==
  ASSUME SelectInv, NEW k \in Conns, Client(k), Kept(k)
  PROVE  /\ ends'[k] = "open"
         /\ client'[k] # "err"
         /\ client'[k] \in {"read", "both"} => toClient'[k] > 0
         /\ client'[k] \in {"both", "write"} => toServer'[k] + AnswerLength <= Buf
<1> USE Bounds
<1>0. /\ ClientTypeOK
      /\ ends[k] = "open" /\ client[k] # "err"
      /\ client[k] \in {"read", "both"} => toClient[k] > 0
      /\ client[k] \in {"both", "write"} => toServer[k] + AnswerLength <= Buf
      /\ kind[k] = "poll" /\ client[k] = "ask" => toServer[k] = 0
  BY DEF SelectInv, TypeOK, PollsLast, PollsOnce
<1>1. CASE Connect(k)
  BY <1>0, <1>1 DEF Connect, Dial, Goes, ClientTypeOK
<1>2. CASE Select(k)
  BY <1>0, <1>2 DEF Select, Goes, Readable, Writable, ClientTypeOK
<1>3. CASE Poll(k)
  BY <1>0, <1>3 DEF Poll, Goes, Readable, ClientTypeOK
<1>4. CASE Read(k)
  BY <1>0, <1>4, ReadTakes DEF Read, Goes, ClientTypeOK
<1>5. CASE Write(k)
  BY <1>0, <1>5 DEF Write, Writable, Goes, ClientTypeOK
<1>6. CASE Leave(k)
  BY <1>0, <1>6 DEF Leave, Goes, ClientTypeOK
<1> QED BY <1>1, <1>2, <1>3, <1>4, <1>5, <1>6
        DEF Client, ClientAsks, ClientServes, Ask, Serve

\* When the process closes connections, nothing but these is affected.
LEMMA Closes ==
  ASSUME TypeOK, NEW C \in SUBSET Conns, Close(C)
  PROVE  /\ ends' \in [Conns -> {"open", "fin", "rst"}]
         /\ toClient' \in [Conns -> 0..Buf]
         /\ \A k \in Conns \ C : ends'[k] = ends[k] /\ toClient'[k] = toClient[k]
<1> USE Bounds
<1> DEFINE open  == {k \in C : client[k] # "new" /\ ~Gone(k)}
           reset == {k \in open : toServer[k] > 0 \/ k > accepted}
<1>1. /\ ends' = [k \in Conns |-> IF k \in reset THEN "rst"
                                  ELSE IF k \in open /\ ends[k] = "open" THEN "fin"
                                  ELSE ends[k]]
      /\ \E sent \in [reset -> 0..Buf] :
           toClient' = [k \in Conns |-> IF k \in reset THEN sent[k] ELSE toClient[k]]
  BY DEF Close
<1>2. reset \subseteq C /\ open \subseteq C
  OBVIOUS
<1> HIDE DEF open, reset
<1> QED BY <1>1, <1>2 DEF TypeOK, ClientTypeOK

\* Every step keeps the invariant.
LEMMA NextInv == SelectInv /\ [Next]_vars => SelectInv'
<1> SUFFICES ASSUME SelectInv, [Next]_vars PROVE SelectInv'
  OBVIOUS
<1> USE Bounds
<1>a. TypeOK /\ ReportsLast /\ PollsLast /\ PollsOnce
  BY DEF SelectInv
<1>1. ASSUME NEW k \in Conns, Client(k) PROVE SelectInv'
  <2> USE <1>1, ClientSteps
  <2>1. TypeOK'
    BY <1>a DEF TypeOK, ServerVars
  <2>2. \A j \in Conns : /\ Queued(j) => Queued(j)'
                         /\ ReadReady(j) => ReadReady(j)'
                         /\ WriteReady(j) => WriteReady(j)'
    BY <1>a DEF Queued, ReadReady, WriteReady, Gone, ServerVars, TypeOK, ClientTypeOK
  <2>3. ReportsLast'
    BY <1>a, <2>2 DEF ReportsLast, ServerVars, TypeOK
  <2>4. PollsLast'
    <3>1. \A j \in Conns : Kept(j)' <=> Kept(j)
      BY DEF Kept, Listening, ServerVars
    <3> QED BY <1>a, <3>1, ClientInStep DEF PollsLast
  <2>5. PollsOnce'
    BY <1>a DEF PollsOnce, ServerVars
  <2> QED BY <2>1, <2>3, <2>4, <2>5 DEF SelectInv
<1>2. CASE SelectReturns
  <2>1. TypeOK' /\ UNCHANGED <<ClientVars, accepted>> /\ main # "exited"
        /\ Listening /\ Listening'
    BY <1>a, <1>2 DEF SelectReturns, TypeOK, ClientTypeOK, ClientVars, Array, Listening
  <2>2. ReportsLast'
    BY <1>2, <2>1 DEF SelectReturns, ReportsLast, ClientVars, Queued, ReadReady,
                      WriteReady, Gone, Array
  <2> QED BY <1>a, <2>1, <2>2
          DEF SelectInv, PollsLast, PollsOnce, ClientVars, Kept
<1>3. CASE SelectFail
  <2>1. /\ main = "select" /\ main' = "returned" /\ Listening /\ ~Listening'
        /\ UNCHANGED <<kind, client, heard, toServer, accepted, rset, wset, checked>>
        /\ Close({k \in Conns : Queued(k)})
    BY <1>3 DEF SelectFail, Listening
  <2>2. /\ ends' \in [Conns -> {"open", "fin", "rst"}]
        /\ toClient' \in [Conns -> 0..Buf]
        /\ \A k \in Conns : k <= accepted =>
             ends'[k] = ends[k] /\ toClient'[k] = toClient[k]
    BY <1>a, <2>1, Closes DEF Queued, TypeOK, Conns
  <2>3. TypeOK'
    BY <1>a, <2>1, <2>2 DEF TypeOK, ClientTypeOK
  <2>4. PollsLast'
    BY <1>a, <2>1, <2>2 DEF PollsLast, Kept
  <2> QED BY <1>a, <2>1, <2>3, <2>4 DEF SelectInv, ReportsLast, PollsOnce
<1>4. CASE Accept
  <2>1. /\ main = "accept" /\ main' = "read" /\ accepted' = accepted + 1
        /\ Listening /\ Listening'
        /\ UNCHANGED <<ClientVars, rset, wset, checked>>
    BY <1>4 DEF Accept, Listening
  <2>2. /\ accepted \in Nat
        /\ \E k \in Conns : Queued(k)
    BY <1>a, <2>1 DEF ReportsLast, TypeOK
  <2>3. accepted' \in Conns
    BY <1>a, <2>1, <2>2 DEF Queued, Conns
  <2>4. TypeOK'
    BY <1>a, <2>1, <2>3 DEF TypeOK, ClientTypeOK, ClientVars, Conns
  <2>5. ReportsLast'
    BY <1>a, <2>1 DEF ReportsLast, ReadReady, WriteReady, Gone, ClientVars
  <2>6. PollsLast' /\ PollsOnce'
    BY <1>a, <2>1, <2>2, <2>3 DEF PollsLast, PollsOnce, Kept, ClientVars, Conns
  <2> QED BY <2>4, <2>5, <2>6 DEF SelectInv
<1>5. CASE AcceptFail
  <2>1. /\ main = "accept" /\ main' = "read"
        /\ UNCHANGED <<ClientVars, accepted, rset, wset, checked>>
    BY <1>5 DEF AcceptFail
  <2> QED BY <1>a, <2>1
          DEF SelectInv, TypeOK, ClientTypeOK, ReportsLast, ReadReady, WriteReady,
              Gone, PollsLast, PollsOnce, Kept, Listening, ClientVars
<1>6. CASE ReadMessage
  <2> DEFINE k == Min(rset)
  <2>0. k \in rset /\ k \in Conns
    <3>1. rset \in SUBSET Nat /\ rset \subseteq Conns /\ rset # {}
      BY <1>a, <1>6 DEF TypeOK, Conns, ReadMessage
    <3> QED BY <3>1, MinIsMember
  <2>1. /\ main = "read" /\ rset' = rset \ {k}
        /\ toServer' = [toServer EXCEPT ![k] = AfterRead(@)]
        /\ UNCHANGED <<kind, client, heard, toClient, ends, main, accepted, wset, checked>>
    BY <1>6 DEF ReadMessage
  <2> HIDE DEF k
  <2>r. /\ AfterRead(toServer[k]) \in 0..Buf
        /\ AfterRead(toServer[k]) <= toServer[k]
    BY <1>a, <2>0, ReadTakes DEF TypeOK, ClientTypeOK
  <2>2. TypeOK'
    BY <1>a, <2>0, <2>1, <2>r DEF TypeOK, ClientTypeOK
  <2>3. \A j \in Conns : /\ j # k /\ ReadReady(j) => ReadReady(j)'
                         /\ WriteReady(j) => WriteReady(j)'
    BY <1>a, <2>0, <2>1 DEF ReadReady, WriteReady, Gone, TypeOK, ClientTypeOK
  <2>4. ReportsLast'
    BY <1>a, <2>0, <2>1, <2>3 DEF ReportsLast, TypeOK
  <2> QED BY <1>a, <2>0, <2>1, <2>r, <2>2, <2>4
          DEF SelectInv, PollsLast, PollsOnce, Kept, Listening,
              TypeOK, ClientTypeOK
<1>7. CASE ReadDone
  BY <1>a, <1>7
  DEF ReadDone, SelectInv, TypeOK, ClientTypeOK, ReportsLast, ReadReady, WriteReady,
      Gone, PollsLast, PollsOnce, Kept, Listening, ClientVars
<1>8. CASE Abort \/ ProcessExit
  <2>1. /\ main' = "exited"
        /\ UNCHANGED <<kind, client, heard, toServer, accepted, rset, wset, checked>>
        /\ Close(Conns) \/ Close(Array)
    BY <1>8 DEF Abort, ProcessExit
  <2>2. /\ ends' \in [Conns -> {"open", "fin", "rst"}]
        /\ toClient' \in [Conns -> 0..Buf]
    BY <1>a, <2>1, Closes DEF Array
  <2> QED BY <1>a, <2>1, <2>2
          DEF SelectInv, TypeOK, ClientTypeOK, ReportsLast, PollsLast, Kept,
              PollsOnce
<1>9. CASE WriteMessage
  <2> DEFINE k == Min(wset)
  <2>0. k \in wset /\ k \in Conns
    <3>1. wset \in SUBSET Nat /\ wset \subseteq Conns /\ wset # {}
      BY <1>a, <1>9 DEF TypeOK, Conns, WriteMessage
    <3> QED BY <3>1, MinIsMember
  <2>1. /\ main = "write" /\ wset' = wset \ {k}
        /\ WriteReady(k)
        /\ toClient' = IF Gone(k) THEN toClient ELSE [toClient EXCEPT ![k] = @ + AskLength]
        /\ UNCHANGED <<kind, client, heard, toServer, ends, main, accepted, rset, checked>>
    BY <1>9 DEF WriteMessage
  <2> HIDE DEF k
  <2>2. /\ toClient' \in [Conns -> 0..Buf]
        /\ \A j \in Conns : toClient'[j] >= toClient[j]
        /\ \A j \in Conns : j # k => toClient'[j] = toClient[j]
    <3>1. CASE Gone(k)
      BY <1>a, <2>0, <2>1, <3>1 DEF TypeOK, ClientTypeOK
    <3>2. CASE ~Gone(k)
      BY <1>a, <2>0, <2>1, <3>2 DEF TypeOK, ClientTypeOK, WriteReady
    <3> QED BY <3>1, <3>2
  <2>3. TypeOK'
    BY <1>a, <2>0, <2>1, <2>2 DEF TypeOK, ClientTypeOK
  <2>4. ReportsLast'
    BY <1>a, <2>0, <2>1, <2>2 DEF ReportsLast, WriteReady, Gone, TypeOK
  <2>5. PollsLast'
    BY <1>a, <2>0, <2>1, <2>2 DEF PollsLast, Kept, Listening, TypeOK, ClientTypeOK
  <2> QED BY <1>a, <2>0, <2>1, <2>3, <2>4, <2>5 DEF SelectInv, PollsOnce
<1>10. CASE WriteDone
  BY <1>a, <1>10
  DEF WriteDone, SelectInv, TypeOK, ClientTypeOK, ReportsLast,
      PollsLast, PollsOnce, Kept, Listening, ClientVars
<1>11. CASE UNCHANGED vars
  BY <1>a, <1>11
  DEF vars, ServerVars, ClientVars, SelectInv, TypeOK, ClientTypeOK, ReportsLast,
      ReadReady, WriteReady, Queued, Gone, PollsLast, PollsOnce,
      Kept, Listening
<1> QED BY <1>1, <1>2, <1>3, <1>4, <1>5, <1>6, <1>7, <1>8, <1>9, <1>10, <1>11
        DEF Next, Main

\* The sockets, the descriptor sets and the clients agree in every state.
LEMMA SelectInvHolds == Spec => []SelectInv
  BY InitInv, NextInv, PTL DEF Spec

-----------------------------------------------------------------------------
\* Every variable keeps its type: no stream of messages outgrows its buffer
\* and no connection is accepted that was not queued.
THEOREM TypeCorrect == Spec => []TypeOK
<1>1. SelectInv => TypeOK
  BY DEF SelectInv
<1> QED BY <1>1, SelectInvHolds, PTL

\* However clients send, read, leave and queue up between select() and the
\* calls made on its word, none of these calls blocks the one thread
\* (test_server.cpp:188-217).
THEOREM NeverBlocksHolds == Spec => []NeverBlocks
<1>1. SelectInv => NeverBlocks
  BY DEF SelectInv, ReportsLast, NeverBlocks
<1> QED BY <1>1, SelectInvHolds, PTL

\* A client's calls fail only when the server has gone or will not accept it
\* (test_client.cpp:253-267,294-306).
THEOREM FailureMeansServerGoneHolds == Spec => []FailureMeansServerGone
<1>1. SelectInv => FailureMeansServerGone
  BY Bounds DEF SelectInv, TypeOK, PollsLast, Kept, FailureMeansServerGone, Queued, Conns
<1> QED BY <1>1, SelectInvHolds, PTL
=============================================================================
