---------------------------- MODULE SelectServer ----------------------------
(***************************************************************************)
(* select_accept of sample_socket/test_server.cpp: one thread that asks    *)
(* select() about the listening socket and every connection, accepts at    *)
(* most one connection, reads each readable one and writes to each         *)
(* writable one, whether anything was asked of it or not.  Nothing is ever *)
(* removed from its array of descriptors: del_fd is not called, and no     *)
(* connection is closed before the process ends.  The sockets are          *)
(* blocking.  The clients are those of PollingClients.                     *)
(*                                                                         *)
(* Connections are accepted in order and each takes the first free entry   *)
(* of the array, so entry k is connection k and the entries beyond         *)
(* "accepted" hold -1.  A process has no more than 1024 descriptors        *)
(* (RLIMIT_NOFILE), three of them standard ones and one the listening      *)
(* socket: accept() fails before the 1024 entries are used up.             *)
(***************************************************************************)
EXTENDS PollingClients, FiniteSetsExt

CONSTANTS
  MaxFd,     \* connections the descriptor table has room for
  MayFail    \* may select() and accept() fail for no visible reason?

ASSUME SelectServerAssumption == MaxFd \in 1..1020 /\ MayFail \in BOOLEAN

VARIABLES
  main,      \* where select_accept is
  accepted,  \* connections in the array
  rset,      \* connections in rfds that this round has not come to yet
  wset,      \* connections in wfds that this round has not come to yet
  checked    \* does this build check the argument of FD_ISSET?

ServerVars == <<main, accepted, rset, wset, checked>>
vars == <<ClientVars, ServerVars>>

TypeOK ==
  /\ ClientTypeOK
  /\ main \in {"select", "accept", "read", "write", "returned", "exited"}
  /\ accepted \in 0..N
  /\ rset \subseteq Conns
  /\ wset \subseteq Conns
  /\ checked \in BOOLEAN

Init ==
  /\ ClientInit
  /\ main = "select"
  /\ accepted = 0
  /\ rset = {}
  /\ wset = {}
  /\ checked \in BOOLEAN

Array     == {k \in Conns : k <= accepted}
Listening == main \notin {"returned", "exited"}
Queued(k) == k > accepted /\ client[k] # "new"

\* A read() or a write() of the server on connection k returns at once; so
\* select() reports it.  A connection whose client has closed is both.
ReadReady(k)  == toServer[k] > 0 \/ Gone(k)
WriteReady(k) == toClient[k] + AskLength <= Buf \/ Gone(k)

-----------------------------------------------------------------------------
Connect(k) == Listening /\ Dial(k, accepted) /\ UNCHANGED ServerVars

ClientAsks(k) == Ask(k) /\ UNCHANGED ServerVars

ClientServes(k) == Serve(k) /\ UNCHANGED ServerVars

-----------------------------------------------------------------------------
\* The process closes the connections in C: one with unread data, or one that
\* was never accepted, is reset, and what had not been sent on it is lost.
Close(C) ==
  LET open  == {k \in C : client[k] # "new" /\ ~Gone(k)}
      reset == {k \in open : toServer[k] > 0 \/ k > accepted}
  IN  /\ ends' = [k \in Conns |-> IF k \in reset THEN "rst"
                                  ELSE IF k \in open /\ ends[k] = "open" THEN "fin"
                                  ELSE ends[k]]
      /\ \E sent \in [reset -> 0..Buf] :
           /\ \A k \in reset : sent[k] <= toClient[k]
           /\ toClient' = [k \in Conns |-> IF k \in reset THEN sent[k] ELSE toClient[k]]

SelectStopsAtGone_mutant ==
  /\ main = "select"
  /\ rset' = {k \in Array : ReadReady(k)}
  /\ wset' = {k \in Array : WriteReady(k) /\ \A j \in Conns : j < k => ~Gone(j)}
  /\ rset' # {} \/ wset' # {} \/ \E k \in Conns : Queued(k)
  /\ main' = IF \E k \in Conns : Queued(k) THEN "accept" ELSE "read"
  /\ UNCHANGED <<ClientVars, accepted, checked>>

\* select() without a timeout waits until something is ready.  It waits for
\* every connection to become writable, too.
SelectReturns ==
  /\ main = "select"
  /\ rset' = {k \in Array : ReadReady(k)}
  /\ wset' = {k \in Array : WriteReady(k)}
  /\ rset' # {} \/ wset' # {} \/ \E k \in Conns : Queued(k)
  /\ main' = IF \E k \in Conns : Queued(k) THEN "accept" ELSE "read"
  /\ UNCHANGED <<ClientVars, accepted, checked>>

\* select() returns -1: the loop is left and the listening socket closed.
SelectFail ==
  /\ MayFail
  /\ main = "select"
  /\ main' = "returned"
  /\ Close({k \in Conns : Queued(k)})
  /\ UNCHANGED <<kind, client, heard, toServer, accepted, rset, wset, checked>>

AcceptReadsAtOnce_mutant ==
  /\ main = "accept"
  /\ accepted < MaxFd
  /\ accepted' = accepted + 1
  /\ rset' = rset \cup {accepted'}
  /\ main' = "read"
  /\ UNCHANGED <<ClientVars, wset, checked>>

\* one_accept and add_fd.
Accept ==
  /\ main = "accept"
  /\ accepted < MaxFd
  /\ accepted' = accepted + 1
  /\ main' = "read"
  /\ UNCHANGED <<ClientVars, rset, wset, checked>>

AcceptFailWatched_mutant ==
  /\ main = "accept"
  /\ accepted = MaxFd \/ MayFail
  /\ rset' = rset \cup {N + 1}
  /\ main' = "read"
  /\ UNCHANGED <<ClientVars, accepted, wset, checked>>

\* accept() fails, at the latest when the descriptor table is full, and leaves
\* the connection in the queue; add_fd puts -1 where there was -1.
AcceptFail ==
  /\ main = "accept"
  /\ accepted = MaxFd \/ MayFail
  /\ main' = "read"
  /\ UNCHANGED <<ClientVars, accepted, rset, wset, checked>>

\* read_message on the first connection of rfds: up to ReadSize bytes of its
\* client, or the end of file or the error of one that has gone.  Nothing
\* comes of it.
ReadMessage ==
  /\ main = "read"
  /\ rset # {}
  /\ LET k == Min(rset)
     IN  /\ ReadReady(k)
         /\ toServer' = [toServer EXCEPT ![k] = AfterRead(@)]
         /\ rset' = rset \ {k}
  /\ UNCHANGED <<kind, client, heard, toClient, ends, main, accepted, wset, checked>>

\* The loop goes on to the entries that hold -1.  FD_ISSET(-1, ...) looks at
\* a bit of the set that stands for no connection of the array, or ...
ReadDone ==
  /\ main = "read" /\ rset = {} /\ ~checked
  /\ main' = "write"
  /\ UNCHANGED <<ClientVars, accepted, rset, wset, checked>>

\* ... ends the program, where FD_ISSET is compiled with a check of its range.
Abort ==
  /\ main = "read" /\ rset = {} /\ checked
  /\ main' = "exited"
  /\ Close(Conns)
  /\ UNCHANGED <<kind, client, heard, toServer, accepted, rset, wset, checked>>

\* write_message to the first connection of wfds, without a question.  To one
\* whose client has gone it fails sooner or later, which is only logged.
WriteMessage ==
  /\ main = "write"
  /\ wset # {}
  /\ LET k == Min(wset)
     IN  /\ WriteReady(k)
         /\ wset' = wset \ {k}
         /\ toClient' = IF Gone(k) THEN toClient ELSE [toClient EXCEPT ![k] = @ + AskLength]
  /\ UNCHANGED <<kind, client, heard, toServer, ends, main, accepted, rset, checked>>

WriteDone ==
  /\ main = "write" /\ wset = {}
  /\ main' = "select"
  /\ UNCHANGED <<ClientVars, accepted, rset, wset, checked>>

\* The test is over and the process ends, with every connection open.
ProcessExit ==
  /\ main = "returned"
  /\ main' = "exited"
  /\ Close(Array)
  /\ UNCHANGED <<kind, client, heard, toServer, accepted, rset, wset, checked>>

-----------------------------------------------------------------------------
Client(k) == Connect(k) \/ ClientAsks(k) \/ ClientServes(k)
Main == \/ SelectReturns \/ Accept \/ AcceptFail \/ ReadMessage \/ ReadDone
        \/ Abort \/ WriteMessage \/ WriteDone

Next == Main \/ SelectFail \/ ProcessExit \/ \E k \in Conns : Client(k)

Spec == Init /\ [][Next]_vars

\* The server runs when it can, and so does a client once it is connected;
\* nobody has to connect, nothing has to fail, and an accept() that is called
\* again and again with room in the table does not fail for ever.
FairSpec ==
  /\ Spec
  /\ WF_vars(Main)
  /\ SF_vars(Accept)
  /\ \A k \in Conns : WF_vars(ClientAsks(k)) /\ WF_vars(ClientServes(k))

-----------------------------------------------------------------------------
(***************************************************************************)
(* Properties                                                              *)
(***************************************************************************)
\* What select() said of a connection is still true when the loop comes to
\* it, after an accept and the reads and writes of the entries before it, with
\* clients sending, reading and leaving meanwhile: no call on a blocking
\* socket stops the one thread (test_server.cpp:188-217).
NeverBlocks ==
  /\ main = "accept" => \E k \in Conns : Queued(k)
  /\ main = "read"   => \A k \in rset : ReadReady(k)
  /\ main = "write"  => \A k \in wset : WriteReady(k)

\* A client returns -1 only after the server has gone, or will never accept
\* it any more: no other client, whatever it left unread or closed, can make
\* its calls fail (test_client.cpp:253-267,294-306).
FailureMeansServerGone ==
  \A k \in Conns : client[k] = "err" => main = "exited" \/ (~Listening /\ Queued(k))

\* Every client that gets a descriptor is sent a message: neither clients
\* that spin without reading, nor connections that stay in the array after
\* their clients have gone, nor others that cannot be accepted any more keep
\* the loop from it (test_server.cpp:188-217).
EveryoneAnswered ==
  \A k \in Conns :
    k <= MaxFd /\ client[k] = "ask" ~>
      k \in heard \/ toClient[k] > 0 \/ client[k] = "gone" \/ ~Listening

\* The test of poll_client expects it to return 0 (test_client.cpp:354-355): a
\* connected client answers and returns, unless the server ends.
PollClientReturnsZero ==
  \A k \in Conns :
    client[k] = "ask" /\ kind[k] = "poll" ~> client[k] = "ok" \/ ~Listening

\* poll_client depends on the message being there at its only poll(): if it
\* is, the client reads it, finds room for its answer and returns 0, however
\* the server's loop goes on, unless the server ends (test_client.cpp:287-311).
ReadyPollReturns ==
  \A k \in Conns :
    client[k] = "ask" /\ kind[k] = "poll" /\ toClient[k] > 0
      ~> client[k] = "ok" \/ main = "exited"
=============================================================================
