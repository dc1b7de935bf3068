-------------------------- MODULE SocketSuiteProofs --------------------------
(***************************************************************************)
(* What TLAPS proves of SocketSuite: for any number of runs of the client, *)
(* wherever the server's run begins and whatever fails, the server has one *)
(* connection open at most and a failed test is the last that listens; and *)
(* one run of the client against the whole suite stays in step with it     *)
(* until a connection is lost.                                             *)
(***************************************************************************)
EXTENDS SocketSuite, SequenceTheorems, TLAPS

\* The two programs' tests.
LEMMA Tests ==
  /\ Len(ServerTests) = 8 /\ DOMAIN ServerTests = 1..8
  /\ Len(ClientTests) = 6
  /\ \A i \in 1..8 : ServerTests[i] \in Kinds \cup {"PROTOS", "FORK", "THREAD"}
  /\ \A i \in 1..5 : ClientTests[i] \in Kinds /\ ServerTests[i] = ClientTests[i]
  /\ ServerTests[6] = "PROTOS" /\ ServerTests[7] = "FORK" /\ ServerTests[8] = "THREAD"
  BY DEF ServerTests, ClientTests, Kinds

-----------------------------------------------------------------------------
(***************************************************************************)
(* Any number of clients: the inductive invariant.                         *)
(***************************************************************************)
\* A test beyond its first call listens, exchanges a message, and still
\* wants a connection unless it is about to close the listening socket.
Listens ==
  /\ at \notin {"listen", "exited"} => listening /\ Name # "PROTOS"
  /\ at \notin {"closeListening", "exited"} => num >= 1

\* As long as no test has failed, the one connection that may be open is the
\* one the test has accepted; a test that fails may leave it open for good.
OpenIsCurrent ==
  failed = {} =>
    \A c \in Conns : ends[c] = "open" =>
      c = cur /\ at \in {"first", "second", "close", "childNext", "wait"}

SuiteInv == TypeOK /\ Listens /\ OpenIsCurrent /\ OneAtATime /\ FailureIsSticky

\* The types of what the programs do not share.
RestOK ==
  /\ sent \subseteq Conns
  /\ answer \in [Conns -> Kinds \cup {"none"}]
  /\ ctest \in [Runs -> 1..Len(ClientTests) + 1]
  /\ cat \in [Runs -> {"connect", "write", "read", "close"}]
  /\ failed \subseteq DOMAIN ServerTests
  /\ crashed \subseteq {"server", "client"}

\* No test has begun.
LEMMA InitInv == Init => SuiteInv
<1> SUFFICES ASSUME Init PROVE SuiteInv
  OBVIOUS
<1> USE Tests, SocketSuiteAssumption DEF Init
<1>1. queue \in Seq(Conns)
  BY EmptySeq
<1>2. /\ test \in 1..Len(ServerTests) /\ num \in 0..3
      /\ ctest \in [Runs -> 1..Len(ClientTests) + 1]
  OBVIOUS
<1>3. TypeOK
  BY <1>1, <1>2 DEF TypeOK
<1> QED BY <1>3 DEF SuiteInv, Listens, OpenIsCurrent, OneAtATime, FailureIsSticky

\* What waits in the accept queue is a set of connections.
LEMMA QueueIsConns == TypeOK => Queue \subseteq Conns
<1> SUFFICES ASSUME TypeOK, NEW i \in DOMAIN queue PROVE queue[i] \in Conns
  BY DEF Queue
<1>1. queue \in Seq(Conns)
  BY DEF TypeOK
<1> QED BY <1>1, LenProperties, ElementOfSeq

\* Closing the listening socket closes connections and opens none.
LEMMA CloseQueueCloses ==
  ASSUME TypeOK, NEW C \in SUBSET Conns, CloseQueue(C)
  PROVE  /\ listening' = FALSE /\ queue' \in Seq(Conns)
         /\ ends' \in [Conns -> {"none", "queued", "open", "closed"}]
         /\ \A c \in Conns : /\ ends'[c] = "open" => ends[c] = "open" /\ c \notin C
                             /\ c \in C => ends'[c] = "closed"
                             /\ ends'[c] \in {ends[c], "closed"}
         /\ lost' \subseteq Conns
<1>1. /\ listening' = FALSE /\ queue' = <<>>
      /\ ends' = [c \in Conns |-> IF c \in C \cup Queue THEN "closed" ELSE ends[c]]
      /\ lost' = lost \cup Queue
  BY DEF CloseQueue
<1>2. Queue \subseteq Conns /\ lost \subseteq Conns
      /\ ends \in [Conns -> {"none", "queued", "open", "closed"}]
  BY QueueIsConns DEF TypeOK
<1>3. queue' \in Seq(Conns)
  BY <1>1, EmptySeq
<1>4. \A c \in Conns : ends'[c] = IF c \in C \cup Queue THEN "closed" ELSE ends[c]
  BY <1>1
<1>5. ends' \in [Conns -> {"none", "queued", "open", "closed"}]
  BY <1>1, <1>2
<1> QED BY <1>1, <1>2, <1>3, <1>4, <1>5

\* When the program ends nothing is open.
LEMMA ExitInv == ASSUME SuiteInv, Exit, RestOK' PROVE SuiteInv'
<1> USE Tests
<1>1. TypeOK
  BY DEF SuiteInv
<1> DEFINE C == {c \in Conns : ends[c] # "none"}
<1>2. /\ at' = "exited" /\ cur' = None /\ UNCHANGED <<test, num>>
      /\ CloseQueue(C)
      /\ C \in SUBSET Conns /\ \A c \in Conns \ C : ends[c] = "none"
  BY DEF Exit
<1> HIDE DEF C
<1>3. /\ listening' = FALSE /\ queue' \in Seq(Conns)
      /\ ends' \in [Conns -> {"none", "queued", "open", "closed"}]
      /\ \A c \in Conns : ends'[c] # "open"
      /\ lost' \subseteq Conns
  BY <1>1, <1>2, CloseQueueCloses
<1>4. TypeOK'
  BY <1>1, <1>2, <1>3 DEF TypeOK, RestOK
<1> QED BY <1>2, <1>3, <1>4
        DEF SuiteInv, Listens, OpenIsCurrent, OneAtATime, FailureIsSticky

\* The next test finds the sockets as they were.
LEMMA NextTestInv ==
  ASSUME SuiteInv, NextTest, RestOK',
         \/ failed' # {} /\ listening
         \/ failed' = failed /\ at = "listen"
  PROVE  SuiteInv'
<1> USE Tests
<1>a. TypeOK /\ Listens /\ OpenIsCurrent /\ OneAtATime /\ FailureIsSticky
  BY DEF SuiteInv
<1>1. CASE Exit
  BY <1>1, ExitInv
<1>2. CASE ~Exit
  <2>1. /\ test # 8 /\ test' = test + 1
        /\ at' = "listen" /\ cur' = None /\ num' = 3
        /\ UNCHANGED <<listening, queue, ends, lost>>
    BY <1>2 DEF NextTest
  <2>2. TypeOK'
    BY <1>a, <2>1 DEF TypeOK, RestOK
  <2>3. OneAtATime'
    BY <1>a, <2>1 DEF OneAtATime
  <2>4. Listens' /\ OpenIsCurrent' /\ FailureIsSticky'
    BY <1>a, <2>1 DEF Listens, OpenIsCurrent, FailureIsSticky
  <2> QED BY <2>2, <2>3, <2>4 DEF SuiteInv
<1> QED BY <1>1, <1>2

\* ... and so does the one after a test that failed with a listening socket.
LEMMA FailTestInv ==
  ASSUME SuiteInv, FailTest, listening,
         UNCHANGED <<sent, answer, ClientVars, crashed>>
  PROVE  SuiteInv'
<1>1. TypeOK
  BY DEF SuiteInv
<1>2. failed' = failed \cup {test} /\ NextTest
  BY DEF FailTest
<1>3. RestOK'
  BY <1>1, <1>2, Tests DEF TypeOK, RestOK, ClientVars
<1> QED BY <1>2, <1>3, NextTestInv

-----------------------------------------------------------------------------
(***************************************************************************)
(* Any number of clients: every step keeps the invariant.                  *)
(***************************************************************************)
\* The connection at the head of the queue is the only one open.
LEMMA AcceptInv == SuiteInv /\ Accept => SuiteInv'
<1> SUFFICES ASSUME SuiteInv, Accept PROVE SuiteInv'
  OBVIOUS
<1>a. TypeOK /\ Listens /\ OpenIsCurrent /\ OneAtATime /\ FailureIsSticky
  BY DEF SuiteInv
<1> DEFINE c == Head(queue)
<1>1. c \in Conns /\ Tail(queue) \in Seq(Conns)
  BY <1>a, HeadTailProperties DEF Accept, TypeOK
<1>2. /\ at = "accept" /\ at' = "first" /\ cur' = c /\ queue' = Tail(queue)
      /\ ends' = [ends EXCEPT ![c] = "open"]
      /\ UNCHANGED <<test, num, listening, sent, answer, ctest, cat, failed,
                     lost, crashed>>
  BY DEF Accept, ClientVars
<1> HIDE DEF c
<1>3. failed = {}
  BY <1>a, <1>2 DEF FailureIsSticky
<1>4. \A d \in Conns : ends'[d] = "open" => d = c
  BY <1>a, <1>1, <1>2, <1>3 DEF OpenIsCurrent, TypeOK
<1>5. TypeOK'
  BY <1>a, <1>1, <1>2 DEF TypeOK
<1>6. Listens'
  BY <1>a, <1>2 DEF Listens, Name
<1> QED BY <1>2, <1>3, <1>4, <1>5, <1>6
        DEF SuiteInv, OpenIsCurrent, OneAtATime, FailureIsSticky

\* Steps that move on within a test.
LEMMA TestGoesOn ==
  ASSUME SuiteInv, RestOK', failed = {}, UNCHANGED <<test, cur, listening, queue, failed, lost>>,
         ends' \in [Conns -> {"none", "queued", "open", "closed"}],
         \A c \in Conns : ends'[c] = "open" => ends[c] = "open",
         at \notin {"listen", "exited"},
         at' \in {"accept", "second", "close", "closeListening", "childNext", "wait"},
         num' \in 0..3, at' = "closeListening" \/ num' >= 1,
         at' \in {"accept", "closeListening"} => \A c \in Conns : c = cur => ends'[c] # "open"
  PROVE  SuiteInv'
<1>a. TypeOK /\ Listens /\ OpenIsCurrent /\ OneAtATime
  BY DEF SuiteInv
<1>1. TypeOK'
  BY <1>a DEF TypeOK, RestOK
<1>2. Listens'
  BY <1>a DEF Listens, Name
<1>3. OpenIsCurrent' /\ OneAtATime'
  BY <1>a DEF OpenIsCurrent, OneAtATime
<1> QED BY <1>1, <1>2, <1>3 DEF SuiteInv, FailureIsSticky

\* A client touches no connection that is open, and opens none.
LEMMA ClientInv == ASSUME SuiteInv, NEW r \in Runs, Client(r) PROVE SuiteInv'
<1> USE Tests
<1>a. TypeOK /\ Listens /\ OpenIsCurrent /\ OneAtATime /\ FailureIsSticky
  BY DEF SuiteInv
<1>1. UNCHANGED <<test, at, cur, num, failed, listening>>
  BY DEF Client, Connect, Refused, ClientWrite, ClientRead, ClientClose, ClientUnchanged
<1>2. Made(r) \in Conns /\ ctest[r] \in 1..5 /\ Running(r)
  BY <1>a DEF Client, Connect, Refused, ClientWrite, ClientRead, ClientClose,
              Running, Made, Conns, TypeOK
<1>3. /\ queue' \in Seq(Conns)
      /\ ends' \in [Conns -> {"none", "queued", "open", "closed"}]
      /\ \A c \in Conns : ends'[c] = "open" => ends[c] = "open"
      /\ lost' \subseteq Conns
      /\ RestOK'
  <2>1. CASE Connect(r)
    <3>1. Append(queue, Made(r)) \in Seq(Conns)
      BY <1>a, <1>2, AppendProperties DEF TypeOK
    <3> QED BY <1>a, <1>1, <1>2, <2>1, <3>1 DEF Connect, TypeOK, RestOK
  <2>2. CASE Refused(r)
    BY <1>a, <1>1, <1>2, <2>2 DEF Refused, NextClientTest, TypeOK, RestOK
  <2>3. CASE ClientWrite(r)
    BY <1>a, <1>1, <1>2, <2>3 DEF ClientWrite, TypeOK, RestOK
  <2>4. CASE ClientRead(r)
    <3>1. /\ UNCHANGED <<listening, queue, ends, sent, answer, lost>>
          /\ ctest' \in [Runs -> 1..Len(ClientTests) + 1]
          /\ cat' \in [Runs -> {"connect", "write", "read", "close"}]
          /\ crashed' \subseteq {"server", "client"}
      <4>1. \/ cat' = [cat EXCEPT ![r] = "close"] /\ UNCHANGED <<ctest, crashed>>
            \/ /\ ctest' = [ctest EXCEPT ![r] = Len(ClientTests) + 1]
               /\ crashed' = crashed \cup {"client"} /\ cat' = cat
        BY <2>4 DEF ClientRead
      <4>2. UNCHANGED <<listening, queue, ends, sent, answer, lost>>
        BY <2>4 DEF ClientRead
      <4>3. /\ ctest \in [Runs -> 1..Len(ClientTests) + 1]
            /\ cat \in [Runs -> {"connect", "write", "read", "close"}]
            /\ crashed \subseteq {"server", "client"}
        BY <1>a DEF TypeOK
      <4>4. CASE cat' = [cat EXCEPT ![r] = "close"] /\ UNCHANGED <<ctest, crashed>>
        BY <4>2, <4>3, <4>4
      <4>5. CASE /\ ctest' = [ctest EXCEPT ![r] = Len(ClientTests) + 1]
                 /\ crashed' = crashed \cup {"client"} /\ cat' = cat
        BY <4>2, <4>3, <4>5
      <4> QED BY <4>1, <4>4, <4>5
    <3> QED BY <1>a, <1>1, <3>1 DEF TypeOK, RestOK
  <2>5. CASE ClientClose(r)
    BY <1>a, <1>1, <1>2, <2>5 DEF ClientClose, NextClientTest, TypeOK, RestOK
  <2> QED BY <2>1, <2>2, <2>3, <2>4, <2>5 DEF Client
<1>4. TypeOK'
  BY <1>a, <1>1, <1>3 DEF TypeOK, RestOK
<1>5. Listens' /\ FailureIsSticky'
  BY <1>a, <1>1 DEF Listens, Name, FailureIsSticky
<1>6. OpenIsCurrent' /\ OneAtATime'
  BY <1>a, <1>1, <1>3 DEF OpenIsCurrent, OneAtATime
<1> QED BY <1>4, <1>5, <1>6 DEF SuiteInv

\* Every step keeps the invariant.
LEMMA NextInv == SuiteInv /\ [Next]_vars => SuiteInv'
<1> SUFFICES ASSUME SuiteInv, [Next]_vars PROVE SuiteInv'
  OBVIOUS
<1> USE Tests
<1>a. TypeOK /\ Listens /\ OpenIsCurrent /\ OneAtATime /\ FailureIsSticky
  BY DEF SuiteInv
<1>b. RestOK
  BY <1>a DEF TypeOK, RestOK
<1>c. at \notin {"listen", "exited"} => failed = {} /\ listening
  BY <1>a DEF FailureIsSticky, Listens
<1>1. CASE Listen
  <2>1. failed = {}
    BY <1>a, <1>1 DEF Listen, FailureIsSticky
  <2>2. TypeOK'
    BY <1>a, <1>1 DEF Listen, ClientVars, TypeOK
  <2> QED BY <1>a, <1>1, <2>1, <2>2
          DEF Listen, SuiteInv, Listens, Name, OpenIsCurrent, OneAtATime, FailureIsSticky
<1>2. CASE ListenFail \/ AcceptFail \/ ForkFail
  <2>1. FailTest /\ listening /\ UNCHANGED <<sent, answer, ClientVars, crashed>>
    BY <1>c, <1>2 DEF ListenFail, AcceptFail, ForkFail
  <2> QED BY <2>1, FailTestInv
<1>3. CASE EmptyTest
  <2>1. RestOK' /\ NextTest /\ failed' = failed /\ at = "listen"
    BY <1>b, <1>3 DEF EmptyTest, RestOK, ClientVars
  <2> QED BY <2>1, NextTestInv
<1>4. CASE Accept
  BY <1>4, AcceptInv
<1>5. CASE Write
  <2>1. /\ at \in {"first", "second"} /\ at' \in {"second", "close"}
        /\ answer' = [answer EXCEPT ![cur] = Kind]
        /\ UNCHANGED <<test, cur, num, listening, queue, ends, sent, ctest, cat,
                       failed, lost, crashed>>
    BY <1>5 DEF Write, Writes, OpDone, ClientVars
  <2>2. Kind \in Kinds
    BY <1>a, <2>1 DEF TypeOK, Kind, Many, Name, Kinds, Listens
  <2>3. RestOK'
    BY <1>b, <2>1, <2>2 DEF RestOK
  <2> QED BY <1>a, <1>c, <2>1, <2>3, TestGoesOn DEF TypeOK, Listens
<1>6. CASE Read
  <2>0. /\ at \in {"first", "second"}
        /\ UNCHANGED <<sent, answer, ClientVars>>
    BY <1>6 DEF Read, Reads
  <2>1. CASE /\ OpDone
             /\ UNCHANGED <<test, cur, num, listening, queue, ends, failed, lost, crashed>>
    <3>1. RestOK' /\ at' \in {"second", "close"}
      BY <1>b, <2>0, <2>1 DEF RestOK, ClientVars, OpDone
    <3> QED BY <1>a, <1>c, <2>0, <2>1, <3>1, TestGoesOn DEF TypeOK, Listens
  <2>2. CASE FailTest /\ UNCHANGED crashed
    BY <1>c, <2>0, <2>2, FailTestInv
  <2>3. CASE Exit /\ crashed' = crashed \cup {"server"} /\ UNCHANGED failed
    <3>1. RestOK'
      BY <1>b, <2>0, <2>3 DEF RestOK, ClientVars
    <3> QED BY <2>3, <3>1, ExitInv
  <2> QED BY <1>6, <2>1, <2>2, <2>3 DEF Read
<1>7. CASE CloseLinkage
  <2>1. /\ at = "close"
        /\ ends' = IF Name = "FORK" THEN ends ELSE [ends EXCEPT ![cur] = "closed"]
        /\ num' = IF Name = "THREAD" THEN num - 1 ELSE num
        /\ at' = IF Name = "FORK" THEN "childNext"
                 ELSE IF Name = "THREAD" /\ num > 1 THEN "accept"
                 ELSE "closeListening"
        /\ UNCHANGED <<test, cur, listening, queue, sent, answer, ctest, cat, failed,
                       lost, crashed>>
    BY <1>7 DEF CloseLinkage, ClientVars
  <2>2. RestOK' /\ num \in 1..3 /\ failed = {}
    BY <1>a, <1>b, <1>c, <2>1 DEF RestOK, TypeOK, Listens
  <2>3. CASE Name = "FORK"
    BY <1>a, <2>1, <2>2, <2>3, TestGoesOn DEF TypeOK
  <2>4. CASE Name # "FORK"
    <3>1. /\ ends' \in [Conns -> {"none", "queued", "open", "closed"}]
          /\ \A c \in Conns : ends'[c] = "open" => ends[c] = "open" /\ c # cur
      BY <1>a, <2>1, <2>4 DEF TypeOK
    <3>2. /\ at' \in {"accept", "closeListening"} /\ num' \in 0..3
          /\ at' = "closeListening" \/ num' >= 1
      BY <2>1, <2>2, <2>4
    <3> QED BY <2>1, <2>2, <3>1, <3>2, TestGoesOn
  <2> QED BY <2>3, <2>4
<1>8. CASE ChildNextTests
  <2>1. /\ at = "childNext" /\ at' = "wait"
        /\ UNCHANGED <<test, cur, num, listening, queue, ends, sent, answer, ctest, cat,
                       failed, lost, crashed>>
    BY <1>8 DEF ChildNextTests, ClientVars
  <2>2. RestOK' /\ failed = {} /\ num \in 1..3
    BY <1>a, <1>b, <1>c, <2>1 DEF RestOK, TypeOK, Listens
  <2> QED BY <1>a, <2>1, <2>2, TestGoesOn DEF TypeOK
<1>9. CASE Wait
  <2>1. /\ at = "wait" /\ ends' = [ends EXCEPT ![cur] = "closed"] /\ num' = num - 1
        /\ at' = IF num > 1 THEN "accept" ELSE "closeListening"
        /\ UNCHANGED <<test, cur, listening, queue, sent, answer, ctest, cat, failed,
                       lost, crashed>>
    BY <1>9 DEF Wait, ClientVars
  <2>2. RestOK' /\ failed = {} /\ num \in 1..3
    BY <1>a, <1>b, <1>c, <2>1 DEF RestOK, TypeOK, Listens
  <2>3. /\ ends' \in [Conns -> {"none", "queued", "open", "closed"}]
        /\ \A c \in Conns : ends'[c] = "open" => ends[c] = "open" /\ c # cur
    BY <1>a, <2>1 DEF TypeOK
  <2> QED BY <2>1, <2>2, <2>3, TestGoesOn
<1>10. CASE CloseListening
  <2>1. RestOK' /\ at = "closeListening" /\ failed = {} /\ failed' = failed
    BY <1>b, <1>c, <1>10 DEF CloseListening, RestOK, ClientVars
  <2>2. CASE Exit
    BY <2>1, <2>2, ExitInv
  <2>3. CASE ~Exit
    <3>1. /\ test # 8 /\ CloseQueue({})
          /\ test' = test + 1 /\ at' = "listen" /\ cur' = None /\ num' = 3
      BY <1>10, <2>3 DEF CloseListening
    <3>2. /\ listening' = FALSE /\ queue' \in Seq(Conns)
          /\ ends' \in [Conns -> {"none", "queued", "open", "closed"}]
          /\ \A c \in Conns : ends'[c] = "open" => ends[c] = "open"
          /\ lost' \subseteq Conns
      BY <1>a, <3>1, CloseQueueCloses
    <3>3. \A c \in Conns : ends'[c] # "open"
      BY <1>a, <2>1, <3>2 DEF OpenIsCurrent
    <3>4. test' \in 1..Len(ServerTests) /\ num' \in 0..3
      BY <1>a, <3>1 DEF TypeOK
    <3>5. TypeOK'
      BY <2>1, <3>1, <3>2, <3>4 DEF TypeOK, RestOK
    <3> QED BY <2>1, <3>1, <3>3, <3>5
            DEF SuiteInv, Listens, OpenIsCurrent, OneAtATime, FailureIsSticky
  <2> QED BY <2>2, <2>3
<1>11. ASSUME NEW r \in Runs, Client(r) PROVE SuiteInv'
  BY <1>11, ClientInv
<1>12. CASE UNCHANGED vars
  BY <1>a, <1>12
  DEF vars, ServerVars, ClientVars, SuiteInv, TypeOK, Listens, Name, OpenIsCurrent,
      OneAtATime, FailureIsSticky
<1> QED BY <1>1, <1>2, <1>3, <1>4, <1>5, <1>6, <1>7, <1>8, <1>9, <1>10, <1>11, <1>12
        DEF Next, Server, Failure

\* The two suites and the connections they made agree in every state.
LEMMA SuiteInvHolds == Spec => []SuiteInv
  BY InitInv, NextInv, PTL DEF Spec

\* Every variable keeps its type.
THEOREM TypeCorrect == Spec => []TypeOK
<1>1. SuiteInv => TypeOK
  BY DEF SuiteInv
<1> QED BY <1>1, SuiteInvHolds, PTL

\* The server has at most one connection open, whatever its tests fork, start
\* or leave behind (server.cpp:403-425,447-453).
THEOREM OneAtATimeHolds == Spec => []OneAtATime
<1>1. SuiteInv => OneAtATime
  BY DEF SuiteInv
<1> QED BY <1>1, SuiteInvHolds, PTL

\* After a test has failed nothing is served any more
\* (server.cpp:251-293,314-326).
THEOREM FailureIsStickyHolds == Spec => []FailureIsSticky
<1>1. SuiteInv => FailureIsSticky
  BY DEF SuiteInv
<1> QED BY <1>1, SuiteInvHolds, PTL

-----------------------------------------------------------------------------
(***************************************************************************)
(* One run of the client against the whole suite.  Nothing but the numbers *)
(* of connections made and accepted keeps the programs in step: while none *)
(* is lost, connection i is accepted by test i, and the next one is made   *)
(* only when its test is over for the client.                              *)
(***************************************************************************)
\* Connections run r has made, and connections the tests have accepted: one
\* for each test of the client's names.
MadeCount(r) == IF cat[r] = "connect" THEN ctest[r] - 1 ELSE ctest[r]

AcceptedCount == IF test >= 6 THEN 5
                 ELSE IF at \in {"listen", "accept"} THEN test - 1 ELSE test

\* Every answer is of the kind its test asked for, and nothing has crashed.
Answers(r) ==
  /\ crashed = {}
  /\ \A i \in 1..5 : answer[<<r, i>>] \in {"none", ClientTests[i]}
  /\ ctest[r] \in 1..6 /\ (ctest[r] = 6 => cat[r] = "connect")

\* Until a test fails, what was made and not accepted is in the queue: it is
\* the connection of the client's current test, which waits for its answer.
Pace(r) ==
  failed = {} /\ at # "exited" =>
    /\ MadeCount(r) = AcceptedCount + Len(queue)
    /\ \A i \in 1..5 : answer[<<r, i>>] # "none" => i <= AcceptedCount
    /\ at \notin {"childNext", "wait"}
    /\ at \notin {"listen", "accept"} => test <= 5 /\ cur = <<r, test>>
    /\ queue # <<>> =>
         /\ queue = <<Made(r)>> /\ cat[r] \in {"write", "read"}
         /\ ends[Made(r)] = "queued" /\ answer[Made(r)] = "none"

OneRunInv(r) == SuiteInv /\ (lost = {} => Answers(r) /\ Pace(r))

\* One client that begins at the first test begins in step with the server.
LEMMA OneRunInit ==
  ASSUME NEW r, Runs = {r}, First = 1, Init
  PROVE  OneRunInv(r)
<1> USE Tests
<1>1. /\ r \in Runs /\ \A i \in 1..5 : <<r, i>> \in Conns
      /\ ctest[r] = 1 /\ cat[r] = "connect" /\ test = 1 /\ at = "listen"
      /\ queue = <<>> /\ crashed = {} /\ Len(queue) = 0
  BY EmptySeq DEF Init, Conns
<1>2. \A i \in 1..5 : answer[<<r, i>>] = "none"
  BY <1>1 DEF Init
<1>3. Answers(r)
  BY <1>1, <1>2 DEF Answers
<1>4. Pace(r)
  BY <1>1, <1>2 DEF Pace, MadeCount, AcceptedCount
<1> QED BY <1>3, <1>4, InitInv DEF OneRunInv

\* The tests the client has are the tests of one connection.
LEMMA NamedTests ==
  ASSUME TypeOK
  PROVE  /\ test <= 5 => /\ Name = ClientTests[test] /\ Name \in Kinds
                         /\ ~Many /\ Kind = ClientTests[test] /\ Name # "PROTOS"
         /\ Name = "PROTOS" => test = 6
<1>1. test \in 1..8
  BY Tests DEF TypeOK
<1>2. test <= 5 => test \in 1..5
  BY <1>1
<1>3. test <= 5 => Name = ClientTests[test] /\ Name \in Kinds
  BY <1>2, Tests DEF Name
<1>4. "PROTOS" \notin Kinds /\ "FORK" \notin Kinds /\ "THREAD" \notin Kinds
  BY DEF Kinds
<1>5. test = 7 => Name = "FORK"
  BY Tests DEF Name
<1>6. test = 8 => Name = "THREAD"
  BY Tests DEF Name
<1> QED BY <1>1, <1>3, <1>4, <1>5, <1>6 DEF Many, Kind

\* Connections are never found again.
LEMMA LostStays == ASSUME [Next]_vars, lost' = {} PROVE lost = {}
<1>1. Exit => lost \subseteq lost'
  BY DEF Exit, CloseQueue
<1>2. NextTest => lost \subseteq lost'
  BY <1>1 DEF NextTest
<1> QED
  BY <1>1, <1>2
  DEF Next, Server, Failure, Client, Listen, ListenFail, EmptyTest, Accept, AcceptFail,
      ForkFail, FailTest, Write, Read, CloseLinkage, ChildNextTests, Wait,
      CloseListening, CloseQueue, Connect, Refused, ClientWrite, ClientRead,
      ClientClose, vars

\* The facts every step of one run starts from, while nothing is lost.
Together(r) == /\ Runs = {r} /\ SuiteInv /\ SuiteInv'
               /\ Answers(r) /\ Pace(r) /\ lost' = {}

\* What the server accepts while it is in step is the connection its test is
\* for.
LEMMA OneRunAccept ==
  ASSUME NEW r, Together(r), Accept
  PROVE  Answers(r)' /\ Pace(r)'
<1> USE Tests
<1>1. /\ at = "accept" /\ at' = "first" /\ queue # <<>>
      /\ cur' = Head(queue) /\ queue' = Tail(queue)
      /\ UNCHANGED <<test, answer, ctest, cat, failed, crashed>>
  BY DEF Accept, ClientVars
<1>2. CASE failed # {}
  BY <1>1, <1>2 DEF Together, SuiteInv, FailureIsSticky
<1>3. CASE failed = {}
  <2>1. /\ MadeCount(r) = AcceptedCount + Len(queue)
        /\ \A i \in 1..5 : answer[<<r, i>>] # "none" => i <= AcceptedCount
        /\ queue = <<Made(r)>> /\ cat[r] \in {"write", "read"}
    BY <1>1, <1>3 DEF Together, Pace
  <2>2. Len(queue) = 1 /\ Head(queue) = Made(r) /\ Tail(queue) = <<>> /\ Len(queue') = 0
    BY <1>1, <2>1
  <2>3. ctest[r] \in 1..5 /\ test \in 1..8
    BY <2>1 DEF Together, Answers, SuiteInv, TypeOK
  <2>4. test <= 5 /\ test = ctest[r]
    BY <1>1, <2>1, <2>2, <2>3 DEF MadeCount, AcceptedCount
  <2>5. cur' = <<r, test>>
    BY <1>1, <2>2, <2>4 DEF Made
  <2>6. AcceptedCount' = AcceptedCount + 1
    BY <1>1, <2>3, <2>4 DEF AcceptedCount
  <2>7. MadeCount(r)' = AcceptedCount' + Len(queue')
    <3>1. AcceptedCount \in Int
      BY <2>3 DEF AcceptedCount
    <3> QED BY <1>1, <2>1, <2>2, <2>6, <3>1 DEF MadeCount
  <2>8. \A i \in 1..5 : answer'[<<r, i>>] # "none" => i <= AcceptedCount'
    <3>1. AcceptedCount \in Int
      BY <2>3 DEF AcceptedCount
    <3> QED BY <1>1, <2>1, <2>6, <3>1
  <2>9. Pace(r)'
    BY <1>1, <2>2, <2>4, <2>5, <2>7, <2>8 DEF Pace
  <2>10. Answers(r)'
    BY <1>1 DEF Together, Answers
  <2> QED BY <2>9, <2>10
<1> QED BY <1>2, <1>3

\* What the test writes is what the client's test of the same name expects.
LEMMA OneRunWrite ==
  ASSUME NEW r, Together(r), Write
  PROVE  Answers(r)' /\ Pace(r)'
<1> USE Tests
<1>1. /\ at \in {"first", "second"} /\ at' \in {"second", "close"}
      /\ answer' = [answer EXCEPT ![cur] = Kind]
      /\ UNCHANGED <<test, cur, queue, ends, ctest, cat, failed, crashed>>
  BY DEF Write, Writes, OpDone, ClientVars
<1>2. failed = {}
  BY <1>1 DEF Together, SuiteInv, FailureIsSticky
<1>3. /\ MadeCount(r) = AcceptedCount + Len(queue)
      /\ \A i \in 1..5 : answer[<<r, i>>] # "none" => i <= AcceptedCount
      /\ test <= 5 /\ cur = <<r, test>>
      /\ queue # <<>> =>
           /\ queue = <<Made(r)>> /\ cat[r] \in {"write", "read"}
           /\ ends[Made(r)] = "queued" /\ answer[Made(r)] = "none"
  BY <1>1, <1>2 DEF Together, Pace
<1>4. test \in 1..5 /\ cur \in Conns /\ Kind = ClientTests[test]
      /\ answer \in [Conns -> Kinds \cup {"none"}]
  BY <1>3, NamedTests DEF Together, SuiteInv, TypeOK, Conns
<1>5. AcceptedCount = test /\ AcceptedCount' = test
  BY <1>1, <1>4 DEF AcceptedCount
<1>6. /\ answer'[<<r, test>>] = ClientTests[test]
      /\ \A i \in 1..5 : i # test => answer'[<<r, i>>] = answer[<<r, i>>]
      /\ \A i \in 1..5 : <<r, i>> \in Conns
  <2>1. \A i \in 1..5 : <<r, i>> \in Conns
    BY DEF Together, Conns
  <2> QED BY <1>1, <1>3, <1>4, <2>1
<1>7. Answers(r)'
  BY <1>1, <1>4, <1>6 DEF Together, Answers
<1>8. queue # <<>> => Made(r) # <<r, test>>
  <2> SUFFICES ASSUME queue # <<>>, ctest[r] = test PROVE FALSE
    BY DEF Made
  <2>1. Len(queue) = 1 /\ cat[r] # "connect"
    BY <1>3
  <2> QED BY <1>3, <1>4, <1>5, <2>1 DEF MadeCount
<1>9. queue # <<>> => answer'[Made(r)] = "none"
  <2>1. queue # <<>> => ctest[r] \in 1..5
    BY <1>3 DEF Together, Answers
  <2> QED BY <1>3, <1>6, <1>8, <2>1 DEF Made
<1>10. Made(r)' = Made(r) /\ MadeCount(r)' = MadeCount(r)
  BY <1>1 DEF Made, MadeCount
<1>11. \A i \in 1..5 : answer'[<<r, i>>] # "none" => i <= AcceptedCount'
  BY <1>3, <1>4, <1>5, <1>6
<1>12. Pace(r)'
  BY <1>1, <1>3, <1>5, <1>9, <1>10, <1>11 DEF Pace
<1> QED BY <1>7, <1>12

\* A test in step reads what it expects, so it neither fails nor crashes, and
\* goes on to its end.
LEMMA OneRunGoesOn ==
  ASSUME NEW r, Together(r), Read \/ CloseLinkage
  PROVE  Answers(r)' /\ Pace(r)'
<1> USE Tests
<1>1. at \in {"first", "second", "close"} /\ UNCHANGED <<answer, ctest, cat>>
  BY DEF Read, Reads, CloseLinkage, ClientVars
<1>2. failed = {}
  BY <1>1 DEF Together, SuiteInv, FailureIsSticky
<1>3. Pace(r) /\ test <= 5 /\ cur = <<r, test>>
  BY <1>1, <1>2 DEF Together, Pace
<1>4. /\ test \in 1..5 /\ Kind = ClientTests[test] /\ ~Many
      /\ ends \in [Conns -> {"none", "queued", "open", "closed"}]
  BY <1>3, NamedTests DEF Together, SuiteInv, TypeOK
<1>5. /\ at' \in {"second", "close", "closeListening"}
      /\ UNCHANGED <<test, cur, queue, failed, crashed>>
      /\ ends' = ends \/ ends' = [ends EXCEPT ![cur] = "closed"]
  <2>1. CASE Read
    <3>1. cur[2] = test
      BY <1>3
    <3>2. Decode(Kind, ClientTests[cur[2]]) = {"ok"}
      BY <1>4, <3>1 DEF Decode
    <3>3. OpDone /\ UNCHANGED <<test, cur, queue, ends, failed, crashed>>
      BY <2>1, <3>2 DEF Read
    <3> QED BY <1>1, <3>3 DEF OpDone
  <2>2. CASE CloseLinkage
    BY <1>4, <2>2 DEF CloseLinkage, Many, ClientVars
  <2> QED BY <2>1, <2>2
<1>6. Answers(r)'
  BY <1>1, <1>5 DEF Together, Answers
<1>7. AcceptedCount = test /\ AcceptedCount' = test
  BY <1>1, <1>4, <1>5 DEF AcceptedCount
<1>8. Made(r)' = Made(r) /\ MadeCount(r)' = MadeCount(r)
  BY <1>1 DEF Made, MadeCount
<1>9. queue # <<>> => ends'[Made(r)] = ends[Made(r)]
  <2> SUFFICES ASSUME queue # <<>> PROVE Made(r) # cur
    <3>1. Made(r) # cur => [ends EXCEPT ![cur] = "closed"][Made(r)] = ends[Made(r)]
      OBVIOUS
    <3> QED BY <1>5, <3>1
  <2>1. /\ queue = <<Made(r)>> /\ cat[r] \in {"write", "read"}
        /\ MadeCount(r) = AcceptedCount + Len(queue)
    BY <1>1, <1>2, <1>3 DEF Pace
  <2>2. Len(queue) = 1 /\ ctest[r] = test + 1
    BY <1>4, <1>7, <2>1 DEF MadeCount
  <2> QED BY <1>3, <1>4, <2>2 DEF Made
<1>10. Pace(r)'
  BY <1>1, <1>2, <1>3, <1>5, <1>7, <1>8, <1>9 DEF Pace
<1> QED BY <1>6, <1>10

\* The next test begins with an empty queue, if nothing was lost.
LEMMA OneRunNext ==
  ASSUME NEW r, Together(r), Listen \/ EmptyTest \/ CloseListening
  PROVE  Answers(r)' /\ Pace(r)'
<1> USE Tests
<1>1. /\ at \in {"listen", "closeListening"}
      /\ UNCHANGED <<answer, ctest, cat, failed, crashed>>
  BY DEF Listen, EmptyTest, CloseListening, ClientVars
<1>2. Answers(r)'
  BY <1>1 DEF Together, Answers
<1>3. CASE failed # {} \/ at' = "exited"
  BY <1>1, <1>2, <1>3 DEF Pace
<1>4. CASE failed = {} /\ at' # "exited"
  <2>1. test \in 1..8 /\ Pace(r)
    BY DEF Together, SuiteInv, TypeOK
  <2>2. /\ at' \in {"listen", "accept"}
        /\ queue' = queue /\ ends' = ends
        /\ AcceptedCount' = AcceptedCount
    <3>1. CASE Listen
      BY <2>1, <3>1 DEF Listen, AcceptedCount
    <3>2. CASE EmptyTest
      <4>1. test = 6
        BY <3>2, NamedTests DEF EmptyTest, Together, SuiteInv
      <4>2. /\ at = "listen" /\ at' = "listen" /\ test' = 7
            /\ UNCHANGED <<queue, ends>>
        BY <1>4, <3>2, <4>1 DEF EmptyTest, NextTest, Exit
      <4> QED BY <4>1, <4>2 DEF AcceptedCount
    <3>3. CASE CloseListening
      <4>1. /\ at = "closeListening" /\ at' = "listen" /\ test' = test + 1
            /\ CloseQueue({})
        BY <1>4, <3>3 DEF CloseListening, Exit
      <4>2. Queue = {} /\ ends' = [c \in Conns |-> ends[c]] /\ queue' = <<>>
        BY <4>1 DEF CloseQueue, Together
      <4>3. queue = <<>>
        <5>1. queue \in Seq(Conns)
          BY DEF Together, SuiteInv, TypeOK
        <5>2. queue # <<>> => 1 \in DOMAIN queue
          BY <5>1, EmptySeq, LenProperties
        <5> QED BY <4>2, <5>2 DEF Queue
      <4>4. ends' = ends
        BY <4>2 DEF Together, SuiteInv, TypeOK
      <4>5. test <= 5
        BY <1>4, <2>1, <4>1 DEF Pace
      <4>6. AcceptedCount' = AcceptedCount
        BY <2>1, <4>1, <4>5 DEF AcceptedCount
      <4> QED BY <4>1, <4>2, <4>3, <4>4, <4>6
    <3> QED BY <3>1, <3>2, <3>3
  <2>3. Made(r)' = Made(r) /\ MadeCount(r)' = MadeCount(r)
    BY <1>1 DEF Made, MadeCount
  <2>4. at # "exited"
    BY <1>1
  <2>5. Pace(r)'
    BY <1>1, <1>4, <2>1, <2>2, <2>3, <2>4 DEF Pace
  <2> QED BY <1>2, <2>5
<1> QED BY <1>3, <1>4

\* A failing test answers nobody any more.
LEMMA OneRunFails ==
  ASSUME NEW r, Together(r), ListenFail \/ AcceptFail \/ ForkFail
  PROVE  Answers(r)' /\ Pace(r)'
<1>1. UNCHANGED <<answer, ctest, cat, crashed>> /\ FailTest
  BY DEF ListenFail, AcceptFail, ForkFail, ClientVars
<1>2. failed' # {}
  BY <1>1 DEF FailTest
<1> QED BY <1>1, <1>2 DEF Together, Answers, Pace

\* The tests that fork and thread have no client left to accept.
LEMMA OneRunNoFork ==
  ASSUME NEW r, Together(r), ChildNextTests \/ Wait
  PROVE  FALSE
<1>1. at \in {"childNext", "wait"}
  BY DEF ChildNextTests, Wait
<1> QED BY <1>1 DEF Together, Pace, SuiteInv, FailureIsSticky

\* The client goes on to the next connection when the last one was answered,
\* and finds in every answer what it expects.
LEMMA OneRunClient ==
  ASSUME NEW r, Together(r), Client(r)
  PROVE  Answers(r)' /\ Pace(r)'
<1> USE Tests
<1>a. /\ UNCHANGED <<test, at, cur, num, failed, answer>>
      /\ ctest[r] \in 1..5 /\ r \in Runs /\ Made(r) = <<r, ctest[r]>>
      /\ cat \in [Runs -> {"connect", "write", "read", "close"}]
      /\ ctest \in [Runs -> 1..Len(ClientTests) + 1]
  BY DEF Together, SuiteInv, TypeOK, Client, Connect, Refused, ClientWrite, ClientRead,
         ClientClose, ClientUnchanged, Running, Made
<1>b. AcceptedCount' = AcceptedCount
  BY <1>a DEF AcceptedCount
<1>c. queue \in Seq(Conns) /\ (queue = <<>> => Len(queue) = 0)
  BY EmptySeq DEF Together, SuiteInv, TypeOK
<1>1. CASE Refused(r)
  BY <1>1 DEF Refused, Together
<1>2. CASE Connect(r)
  <2>1. /\ cat[r] = "connect" /\ queue' = Append(queue, Made(r))
        /\ ends' = [ends EXCEPT ![Made(r)] = "queued"]
        /\ cat' = [cat EXCEPT ![r] = "write"]
        /\ UNCHANGED <<ctest, crashed>>
    BY <1>2 DEF Connect
  <2>2. cat'[r] = "write" /\ Made(r)' = Made(r) /\ ctest' = ctest
    BY <1>a, <2>1 DEF Made
  <2>3. Answers(r)'
    BY <1>a, <2>1, <2>2 DEF Together, Answers
  <2>4. CASE failed = {} /\ at # "exited"
    <3>1. /\ queue = <<>> /\ MadeCount(r) = AcceptedCount
          /\ \A i \in 1..5 : answer[<<r, i>>] # "none" => i <= AcceptedCount
      BY <1>c, <2>1, <2>4, <1>a DEF Together, Pace, MadeCount, AcceptedCount, SuiteInv, TypeOK
    <3>2. queue' = <<Made(r)>> /\ Len(queue') = 1
      BY <2>1, <3>1
    <3>3. ends'[Made(r)] = "queued" /\ answer[Made(r)] = "none"
      <4>1. Made(r) \in Conns
        BY <1>a DEF Conns
      <4>2. ends'[Made(r)] = "queued"
        BY <2>1, <4>1 DEF Together, SuiteInv, TypeOK
      <4>3. ctest[r] = AcceptedCount + 1 /\ AcceptedCount \in Int
        BY <1>a, <2>1, <3>1 DEF MadeCount
      <4>4. ~(ctest[r] <= AcceptedCount)
        BY <4>3
      <4> QED BY <1>a, <3>1, <4>2, <4>4
    <3>4. MadeCount(r)' = AcceptedCount' + Len(queue')
      BY <1>a, <1>b, <2>1, <2>2, <3>1, <3>2 DEF MadeCount
    <3>5. Pace(r)'
      BY <1>a, <1>b, <2>2, <2>4, <3>1, <3>2, <3>3, <3>4 DEF Pace, Together
    <3> QED BY <2>3, <3>5
  <2>5. CASE ~(failed = {} /\ at # "exited")
    BY <1>a, <2>3, <2>5 DEF Pace
  <2> QED BY <2>4, <2>5
<1>3. CASE ClientWrite(r)
  <2>1. /\ cat[r] = "write" /\ cat' = [cat EXCEPT ![r] = "read"]
        /\ UNCHANGED <<queue, ends, ctest, crashed>>
    BY <1>3 DEF ClientWrite
  <2>2. cat'[r] = "read" /\ Made(r)' = Made(r) /\ MadeCount(r)' = MadeCount(r)
    BY <1>a, <2>1 DEF Made, MadeCount
  <2>3. Answers(r)'
    BY <1>a, <2>1, <2>2 DEF Together, Answers
  <2>4. Pace(r)'
    BY <1>a, <1>b, <2>1, <2>2 DEF Together, Pace
  <2> QED BY <2>3, <2>4
<1>4. CASE ClientRead(r)
  <2>1. /\ cat[r] = "read" /\ UNCHANGED <<queue, ends>>
        /\ answer[Made(r)] # "none" \/ ends[Made(r)] = "closed"
    BY <1>4 DEF ClientRead
  <2>2. answer[Made(r)] \in {"none", ClientTests[ctest[r]]}
    BY <1>a DEF Together, Answers
  <2>3. cat' = [cat EXCEPT ![r] = "close"] /\ UNCHANGED <<ctest, crashed>>
    <3>1. "crash" \notin IF answer[Made(r)] = "none" THEN {"ok"}
                         ELSE Decode(ClientTests[ctest[r]], answer[Made(r)])
      BY <2>2 DEF Decode
    <3> QED BY <1>4, <3>1 DEF ClientRead
  <2>4. cat'[r] = "close" /\ Made(r)' = Made(r) /\ MadeCount(r)' = MadeCount(r)
    BY <1>a, <2>1, <2>3 DEF Made, MadeCount
  <2>5. Answers(r)'
    BY <1>a, <2>3, <2>4 DEF Together, Answers
  <2>6. Pace(r)'
    BY <1>a, <1>b, <2>1, <2>4 DEF Together, Pace
  <2> QED BY <2>5, <2>6
<1>5. CASE ClientClose(r)
  <2>1. /\ cat[r] = "close" /\ UNCHANGED <<queue, ends, crashed>>
        /\ ctest' = [ctest EXCEPT ![r] = @ + 1] /\ cat' = [cat EXCEPT ![r] = "connect"]
    BY <1>5 DEF ClientClose, NextClientTest
  <2>2. cat'[r] = "connect" /\ ctest'[r] = ctest[r] + 1 /\ MadeCount(r)' = MadeCount(r)
    BY <1>a, <2>1 DEF MadeCount
  <2>3. Answers(r)'
    BY <1>a, <2>1, <2>2 DEF Together, Answers
  <2>4. Pace(r)'
    BY <1>a, <1>b, <2>1, <2>2 DEF Together, Pace
  <2> QED BY <2>3, <2>4
<1> QED BY <1>1, <1>2, <1>3, <1>4, <1>5 DEF Client

\* Every step of one run keeps the invariant.
LEMMA OneRunNextInv ==
  ASSUME NEW r, Runs = {r}
  PROVE  OneRunInv(r) /\ [Next]_vars => OneRunInv(r)'
<1> SUFFICES ASSUME OneRunInv(r), [Next]_vars, lost' = {}
             PROVE  Answers(r)' /\ Pace(r)'
  BY NextInv DEF OneRunInv
<1>1. Together(r)
  BY LostStays, NextInv DEF OneRunInv, Together
<1>2. CASE Listen \/ EmptyTest \/ CloseListening
  BY <1>1, <1>2, OneRunNext
<1>3. CASE ListenFail \/ AcceptFail \/ ForkFail
  BY <1>1, <1>3, OneRunFails
<1>4. CASE Accept
  BY <1>1, <1>4, OneRunAccept
<1>5. CASE Write
  BY <1>1, <1>5, OneRunWrite
<1>6. CASE Read \/ CloseLinkage
  BY <1>1, <1>6, OneRunGoesOn
<1>7. CASE ChildNextTests \/ Wait
  BY <1>1, <1>7, OneRunNoFork
<1>8. ASSUME NEW q \in Runs, Client(q) PROVE Answers(r)' /\ Pace(r)'
  BY <1>1, <1>8, OneRunClient DEF Together
<1>9. CASE UNCHANGED vars
  BY <1>1, <1>9
  DEF Together, vars, ServerVars, ClientVars, Answers, Pace, MadeCount,
      AcceptedCount, Made
<1> QED BY <1>2, <1>3, <1>4, <1>5, <1>6, <1>7, <1>8, <1>9 DEF Next, Server, Failure

\* One run of the client against the whole suite: as long as no connection is
\* lost each test is answered by the test of its name, also when system calls
\* fail (server.cpp:311-391, client.cpp:308-356).
THEOREM InStepHolds ==
  ASSUME NEW r, Runs = {r}, First = 1
  PROVE  Spec => []InStep
<1>1. Init => OneRunInv(r)
  BY OneRunInit
<1>2. OneRunInv(r) /\ [Next]_vars => OneRunInv(r)'
  BY OneRunNextInv
<1>3. OneRunInv(r) => InStep
  <2> SUFFICES ASSUME OneRunInv(r), lost = {}, NEW c \in Conns
               PROVE  answer[c] \in {"none", ClientTests[c[2]]} /\ crashed = {}
    BY DEF InStep, OneRunInv, Answers
  <2>1. PICK i \in 1..5 : c = <<r, i>>
    BY DEF Conns
  <2> QED BY <2>1 DEF OneRunInv, Answers
<1> QED BY <1>1, <1>2, <1>3, PTL DEF Spec
=============================================================================
