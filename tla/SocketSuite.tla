----------------------------- MODULE SocketSuite -----------------------------
(***************************************************************************)
(* The two test programs of socket_basic run against each other:           *)
(* server.cpp, whose every test listens, accepts, exchanges one message in *)
(* each direction and closes, and client.cpp, whose every test connects,   *)
(* writes, reads and closes.  Nothing but the order of their tests keeps   *)
(* them in step: the server closes its listening socket between tests, and *)
(* a test that fails returns at once, leaving open what it had opened.     *)
(*                                                                         *)
(* The programs have one message of each kind, so a message is its kind.   *)
(***************************************************************************)
EXTENDS Integers, Sequences

CONSTANTS
  Runs,      \* the runs of client.cpp, at the same time
  First,     \* the first test of the server's run (as gtest_filter selects)
  MayFail    \* may accept() or fork() fail for no visible reason?

ServerTestsSwapped_mutant ==
  <<"CHAR", "PROTO", "STRUCT", "CHARS", "STRUCTS", "PROTOS", "FORK", "THREAD">>

ServerTests == <<"CHAR", "STRUCT", "PROTO", "CHARS", "STRUCTS", "PROTOS",
                 "FORK", "THREAD">>     \* FORK is B.CHAR, THREAD is C.CHAR
ClientTests == <<"CHAR", "STRUCT", "PROTO", "CHARS", "STRUCTS", "PROTOS">>

ASSUME SocketSuiteAssumption ==
  First \in 1..Len(ServerTests) /\ MayFail \in BOOLEAN

Kinds == {"CHAR", "STRUCT", "PROTO", "CHARS", "STRUCTS"}
Conns == Runs \X (1..5)      \* <<r, i>>: made by test i of client run r
None  == <<>>

VARIABLES
  test,      \* index of the server's current test
  at,        \* where that test is
  cur,       \* the connection it has accepted
  num,       \* connections the FORK and THREAD tests still want
  listening, \* is there a listening socket on the port?
  queue,     \* its accept queue
  ends,      \* per connection, the server's end: none, queued, open, closed
  sent,      \* connections whose client's message is on its way or read
  answer,    \* per connection, the kind the server wrote to it
  ctest,     \* index of the current test of each client run
  cat,       \* where that test is
  failed,    \* server tests an assertion of which failed
  lost,      \* connections refused, or reset before they were accepted
  crashed    \* the server and client runs that decoded what they should not

ServerVars == <<test, at, cur, num, listening, queue, failed>>
ClientVars == <<ctest, cat>>
vars == <<ServerVars, ends, sent, answer, ClientVars, lost, crashed>>

TypeOK ==
  /\ test \in 1..Len(ServerTests) /\ num \in 0..3
  /\ at \in {"listen", "accept", "first", "second", "close", "closeListening",
             "childNext", "wait", "exited"}
  /\ cur \in Conns \cup {None} /\ queue \in Seq(Conns)
  /\ listening \in BOOLEAN
  /\ ends \in [Conns -> {"none", "queued", "open", "closed"}]
  /\ sent \subseteq Conns /\ lost \subseteq Conns
  /\ answer \in [Conns -> Kinds \cup {"none"}]
  /\ ctest \in [Runs -> 1..Len(ClientTests) + 1]
  /\ cat \in [Runs -> {"connect", "write", "read", "close"}]
  /\ failed \subseteq DOMAIN ServerTests
  /\ crashed \subseteq {"server", "client"}

Init ==
  /\ test = First /\ at = "listen" /\ cur = None /\ num = 3
  /\ listening = FALSE /\ queue = <<>>
  /\ ends = [c \in Conns |-> "none"]
  /\ sent = {} /\ lost = {} /\ failed = {} /\ crashed = {}
  /\ answer = [c \in Conns |-> "none"]
  /\ ctest = [r \in Runs |-> 1]
  /\ cat = [r \in Runs |-> "connect"]

Name    == ServerTests[test]
Many    == Name \in {"FORK", "THREAD"}
Kind    == IF Many THEN "CHAR" ELSE Name   \* what the server's test exchanges
Queue   == {queue[i] : i \in DOMAIN queue}

\* What becomes of a read_<expected> that reads a message of kind got.
\* read_char and read_struct take anything; a protobuf that is none may fail
\* to parse; read_chars and read_structs copy by lengths they find in the
\* message, which is undefined when it holds something else.
Decode(expected, got) ==
  IF expected = got \/ expected \in {"CHAR", "STRUCT"} THEN {"ok"}
  ELSE IF expected = "PROTO" THEN {"ok", "fail"}
  ELSE {"ok", "crash"}

-----------------------------------------------------------------------------
(***************************************************************************)
(* The server.                                                             *)
(***************************************************************************)
\* close(listening_fd): what waits in the queue is reset.
CloseQueue(toEnd) ==
  /\ listening' = FALSE
  /\ queue' = <<>>
  /\ ends' = [c \in Conns |-> IF c \in toEnd \cup Queue THEN "closed" ELSE ends[c]]
  /\ lost' = lost \cup Queue

\* The program ends: every socket is closed.
Exit ==
  /\ at' = "exited"
  /\ cur' = None
  /\ CloseQueue({c \in Conns : ends[c] # "none"})
  /\ UNCHANGED <<test, num>>

\* The next test of the program, or its end.  Sockets stay as they are.
NextTest ==
  IF test = Len(ServerTests) THEN Exit
  ELSE /\ test' = test + 1
       /\ at' = "listen" /\ cur' = None /\ num' = 3
       /\ UNCHANGED <<listening, queue, ends, lost>>

\* An ASSERT_ fails: the test returns without closing anything.
FailTestCleansUp_mutant ==
  /\ failed' = failed \cup {test}
  /\ IF test = Len(ServerTests) THEN Exit
     ELSE /\ CloseQueue({cur} \ {None})
          /\ test' = test + 1 /\ at' = "listen" /\ cur' = None /\ num' = 3

FailTest == failed' = failed \cup {test} /\ NextTest

Listen ==
  /\ at = "listen"
  /\ ~listening /\ Name # "PROTOS"
  /\ listening' = TRUE
  /\ at' = "accept"
  /\ UNCHANGED <<test, cur, num, queue, ends, sent, answer, ClientVars, failed,
                 lost, crashed>>

ListenRetries_mutant ==
  /\ at = "listen"
  /\ listening /\ Name # "PROTOS"
  /\ UNCHANGED vars

\* The port is still taken by the socket an earlier test left open.
ListenFail ==
  /\ at = "listen"
  /\ listening /\ Name # "PROTOS"
  /\ FailTest
  /\ UNCHANGED <<sent, answer, ClientVars, crashed>>

EmptyTest ==
  /\ at = "listen" /\ Name = "PROTOS"
  /\ NextTest
  /\ UNCHANGED <<sent, answer, ClientVars, failed, crashed>>

\* accept(); the FORK test forks, and the child goes on while the parent
\* wait()s for it; the THREAD test starts a thread and joins it.
Accept ==
  /\ at = "accept" /\ queue # <<>>
  /\ cur' = Head(queue)
  /\ queue' = Tail(queue)
  /\ ends' = [ends EXCEPT ![Head(queue)] = "open"]
  /\ at' = "first"
  /\ UNCHANGED <<test, num, listening, sent, answer, ClientVars, failed,
                 lost, crashed>>

AcceptFail ==
  /\ MayFail
  /\ at = "accept"
  /\ FailTest
  /\ UNCHANGED <<sent, answer, ClientVars, crashed>>

\* fork() fails, or the constructor of std::thread throws, with the
\* connection accepted.
ForkFail ==
  /\ MayFail
  /\ at = "first" /\ Many
  /\ FailTest
  /\ UNCHANGED <<sent, answer, ClientVars, crashed>>

\* Only the PROTO test reads before it writes.
Writes == at = (IF Name = "PROTO" THEN "second" ELSE "first")
Reads  == at = (IF Name = "PROTO" THEN "first" ELSE "second")
OpDone == at' = IF at = "first" THEN "second" ELSE "close"

Write ==
  /\ Writes
  /\ answer' = [answer EXCEPT ![cur] = Kind]
  /\ OpDone
  /\ UNCHANGED <<test, cur, num, listening, queue, ends, sent, ClientVars,
                 failed, lost, crashed>>

\* A read waits for the client's message; a client does not close before
\* it has sent it.
Read ==
  /\ Reads /\ cur \in sent
  /\ LET results == Decode(Kind, ClientTests[cur[2]])
     IN \/ /\ "ok" \in results
           /\ OpDone
           /\ UNCHANGED <<test, cur, num, listening, queue, ends, failed, lost,
                          crashed>>
        \/ "fail" \in results /\ FailTest /\ UNCHANGED crashed
        \/ /\ "crash" \in results
           /\ Exit
           /\ crashed' = crashed \cup {"server"}
           /\ UNCHANGED failed
  /\ UNCHANGED <<sent, answer, ClientVars>>

\* The tests of one connection go on to close the listening socket.  A child
\* of the FORK test closes its copy of the connection only.
CloseLinkage ==
  /\ at = "close"
  /\ ends' = IF Name = "FORK" THEN ends ELSE [ends EXCEPT ![cur] = "closed"]
  /\ num' = IF Name = "THREAD" THEN num - 1 ELSE num
  /\ at' = IF Name = "FORK" THEN "childNext"
           ELSE IF Name = "THREAD" /\ num > 1 THEN "accept"
           ELSE "closeListening"
  /\ UNCHANGED <<test, cur, listening, queue, sent, answer, ClientVars, failed,
                 lost, crashed>>

\* A child of the FORK test falls out of the test body into the loop of
\* RUN_ALL_TESTS and runs the tests that follow; it still has the listening
\* socket, so none of them can listen.  Then it exits.
ChildNextTests ==
  /\ at = "childNext"
  /\ at' = "wait"
  /\ UNCHANGED <<test, cur, num, listening, queue, ends, sent, answer,
                 ClientVars, failed, lost, crashed>>

WaitKeepsLinkage_mutant ==
  /\ at = "wait"
  /\ num' = num - 1
  /\ at' = IF num > 1 THEN "accept" ELSE "closeListening"
  /\ UNCHANGED <<test, cur, listening, queue, ends, sent, answer, ClientVars,
                 failed, lost, crashed>>

WaitUncounted_mutant ==
  /\ at = "wait"
  /\ ends' = [ends EXCEPT ![cur] = "closed"]
  /\ num' = num - 1
  /\ at' = "accept"
  /\ UNCHANGED <<test, cur, listening, queue, sent, answer, ClientVars, failed,
                 lost, crashed>>

\* wait() in the parent returns.
Wait ==
  /\ at = "wait"
  /\ ends' = [ends EXCEPT ![cur] = "closed"]
  /\ num' = num - 1
  /\ at' = IF num > 1 THEN "accept" ELSE "closeListening"
  /\ UNCHANGED <<test, cur, listening, queue, sent, answer, ClientVars, failed,
                 lost, crashed>>

CloseListening ==
  /\ at = "closeListening"
  /\ IF test = Len(ServerTests) THEN Exit
     ELSE /\ CloseQueue({})
          /\ test' = test + 1 /\ at' = "listen" /\ cur' = None /\ num' = 3
  /\ UNCHANGED <<sent, answer, ClientVars, failed, crashed>>

-----------------------------------------------------------------------------
(***************************************************************************)
(* A run of the client.                                                    *)
(***************************************************************************)
Running(r) == ctest[r] < Len(ClientTests)
Made(r)    == <<r, ctest[r]>>      \* the connection of its current test

NextClientTest(r) == /\ ctest' = [ctest EXCEPT ![r] = @ + 1]
                     /\ cat' = [cat EXCEPT ![r] = "connect"]

ClientUnchanged == UNCHANGED <<test, at, cur, num, failed>>

Connect(r) ==
  /\ Running(r) /\ cat[r] = "connect" /\ listening
  /\ queue' = Append(queue, Made(r))
  /\ ends' = [ends EXCEPT ![Made(r)] = "queued"]
  /\ cat' = [cat EXCEPT ![r] = "write"]
  /\ UNCHANGED <<listening, sent, answer, ctest, lost, crashed>>
  /\ ClientUnchanged

\* Nobody listens: one_connect returns -1 and the ASSERT_GT fails the test.
Refused(r) ==
  /\ Running(r) /\ cat[r] = "connect" /\ ~listening
  /\ lost' = lost \cup {Made(r)}
  /\ NextClientTest(r)
  /\ UNCHANGED <<listening, queue, ends, sent, answer, crashed>>
  /\ ClientUnchanged

\* The results of write_ and read_ functions are ignored.
ClientWrite(r) ==
  /\ Running(r) /\ cat[r] = "write"
  /\ sent' = IF ends[Made(r)] = "closed" THEN sent ELSE sent \cup {Made(r)}
  /\ cat' = [cat EXCEPT ![r] = "read"]
  /\ UNCHANGED <<listening, queue, ends, answer, ctest, lost, crashed>>
  /\ ClientUnchanged

ClientRead(r) ==
  /\ Running(r) /\ cat[r] = "read"
  /\ answer[Made(r)] # "none" \/ ends[Made(r)] = "closed"
  /\ LET results == IF answer[Made(r)] = "none" THEN {"ok"}
                    ELSE Decode(ClientTests[ctest[r]], answer[Made(r)])
     IN \/ /\ cat' = [cat EXCEPT ![r] = "close"]
           /\ UNCHANGED <<ctest, crashed>>
        \/ /\ "crash" \in results
           /\ ctest' = [ctest EXCEPT ![r] = Len(ClientTests) + 1]
           /\ crashed' = crashed \cup {"client"}
           /\ UNCHANGED cat
  /\ UNCHANGED <<listening, queue, ends, sent, answer, lost>>
  /\ ClientUnchanged

\* close(socket_fd); the last test is empty.
ClientClose(r) ==
  /\ Running(r) /\ cat[r] = "close"
  /\ NextClientTest(r)
  /\ UNCHANGED <<listening, queue, ends, sent, answer, lost, crashed>>
  /\ ClientUnchanged

-----------------------------------------------------------------------------
Server == \/ Listen \/ ListenFail \/ EmptyTest \/ Accept \/ Write \/ Read
          \/ CloseLinkage \/ ChildNextTests \/ Wait \/ CloseListening
Failure == AcceptFail \/ ForkFail
Client(r) == \/ Connect(r) \/ Refused(r) \/ ClientWrite(r) \/ ClientRead(r)
             \/ ClientClose(r)

Next == Server \/ Failure \/ \E r \in Runs : Client(r)

Spec == Init /\ [][Next]_vars

\* Both programs run whenever a system call does not block them.
FairSpec == Spec /\ WF_vars(Server) /\ \A r \in Runs : WF_vars(Client(r))

-----------------------------------------------------------------------------
(***************************************************************************)
(* Properties                                                              *)
(***************************************************************************)
\* One run of the client against the server's whole suite: as long as no
\* connection was refused or reset, every test is answered by the server's
\* test of the same name, and nothing is decoded as what it is not
\* (server.cpp:311-391, client.cpp:308-356).
InStep ==
  lost = {} =>
    /\ \A c \in Conns : answer[c] \in {"none", ClientTests[c[2]]}
    /\ crashed = {}

\* A server test that fails leaves its listening socket behind, so no later
\* test can listen and no client is served again, however many tests and
\* clients follow (server.cpp:251-293,314-326).
FailureIsSticky ==
  failed # {} => \/ at = "exited"
                 \/ at = "listen" /\ listening

\* Forking and threading notwithstanding, the server has at most one
\* connection open at any time, those that failed tests leaked included
\* (server.cpp:403-425,447-453).
OneAtATime ==
  \A c, d \in Conns : ends[c] = "open" /\ ends[d] = "open" => c = d

\* Every run of the client comes to its end, whichever way the two programs
\* fall out of step: none is left waiting on a connection that nobody will
\* serve or close (client.cpp:308-356).
ClientFinishes == \A r \in Runs : <>~Running(r)

\* client.cpp:321 and its like: a client that found the server up can
\* connect in its later tests.
AssertConnected ==
  \A c \in lost : ends[<<c[1], 1>>] # "none" => ends[c] # "none"
=============================================================================
