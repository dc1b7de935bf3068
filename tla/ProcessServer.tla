---------------------------- MODULE ProcessServer ----------------------------
(***************************************************************************)
(* The process-per-connection server of sample_socket/test_server.cpp:     *)
(* process_accept accepts a connection and forks a child, the child forks  *)
(* a grandson and exits, the server reaps the child and closes its copy of *)
(* the connection, and the grandson runs pthread_func.  fork() copies      *)
(* every descriptor, so a connection ends only when the last of three      *)
(* processes has closed it, and the listening socket lives as long as any  *)
(* of them holds it.  The clients are those of CharClient.                 *)
(***************************************************************************)
EXTENDS CharClient

CONSTANT MayFail   \* may accept() or fork() fail for no visible reason?

ASSUME ProcessServerAssumption == MayFail \in BOOLEAN

Server      == <<"server", 0>>
Child(k)    == <<"child", k>>      \* the child forked for connection k
Grandson(k) == <<"grandson", k>>   \* the process that serves connection k
Procs == {Server} \cup {Child(k) : k \in Conns} \cup {Grandson(k) : k \in Conns}

VARIABLES
  written,   \* connections the server wrote its message to
  accepted,  \* number of connections accepted so far
  main,      \* where process_accept is
  child,     \* where each child is
  grandson,  \* where each grandson is
  holds,     \* per process, the connections it has a descriptor for
  listens    \* the processes with a descriptor for the listening socket

ClientVars == <<client, unread, resets>>
vars == <<ClientVars, written, accepted, main, child, grandson, holds, listens>>

TypeOK ==
  /\ ClientTypeOK
  /\ written \subseteq Conns
  /\ accepted \in 0..N
  /\ main \in {"accept", "fork", "wait", "close", "returned", "exited"}
  /\ child \in [Conns -> {"none", "start", "fork", "close", "zombie", "reaped"}]
  /\ grandson \in [Conns -> {"none", "write", "read", "close", "exit", "gone"}]
  /\ holds \in [Procs -> SUBSET Conns]
  /\ listens \subseteq Procs

Init ==
  /\ ClientInit
  /\ written = {}
  /\ accepted = 0
  /\ main = "accept"
  /\ child = [k \in Conns |-> "none"]
  /\ grandson = [k \in Conns |-> "none"]
  /\ holds = [p \in Procs |-> {}]
  /\ listens = {Server}

Held(k) == \E p \in Procs : k \in holds[p]

\* The server's end of connection k is gone.
Closed(k) == IF k <= accepted THEN ~Held(k) ELSE listens = {}

\* Process p loses its descriptors for the connections in gone (and, if
\* deaf, for the listening socket).  A connection nobody holds any more ends,
\* by a reset if data was unread; connections nobody can accept any more are
\* reset.
Release(p, gone, deaf) ==
  /\ holds' = [holds EXCEPT ![p] = @ \ gone]
  /\ listens' = IF deaf THEN listens \ {p} ELSE listens
  /\ resets' = resets
       \cup {k \in unread : Held(k) /\ ~Held(k)'}
       \cup {k \in Conns : k > accepted /\ client[k] # "new" /\ listens' = {}}

\* fork(): process q starts with copies of the descriptors of p.
Copy(p, q) ==
  /\ holds' = [holds EXCEPT ![q] = holds[p]]
  /\ listens' = IF p \in listens THEN listens \cup {q} ELSE listens

-----------------------------------------------------------------------------
ServerUnchanged ==
  UNCHANGED <<written, accepted, main, child, grandson, holds, listens>>

Connect(k) == listens # {} /\ Dial(k, accepted) /\ ServerUnchanged

ClientWrite(k) == Say(k, Closed(k)) /\ ServerUnchanged

ClientRead(k) == Hear(k, k \in written, Closed(k)) /\ ServerUnchanged

-----------------------------------------------------------------------------
(***************************************************************************)
(* process_accept in the server.                                           *)
(***************************************************************************)
Accept ==
  /\ main = "accept"
  /\ accepted < N
  /\ client[accepted + 1] # "new"
  /\ accepted' = accepted + 1
  /\ holds' = [holds EXCEPT ![Server] = @ \cup {accepted + 1}]
  /\ main' = "fork"
  /\ UNCHANGED <<ClientVars, written, child, grandson, listens>>

\* A failing accept() or fork() makes process_accept return -1.  What is open
\* stays open.
AcceptFail ==
  /\ MayFail
  /\ main = "accept"
  /\ main' = "returned"
  /\ UNCHANGED <<ClientVars, written, accepted, child, grandson, holds, listens>>

ForkFail ==
  /\ MayFail
  /\ main = "fork"
  /\ main' = "returned"
  /\ UNCHANGED <<ClientVars, written, accepted, child, grandson, holds, listens>>

Fork ==
  /\ main = "fork"
  /\ main' = "wait"
  /\ child' = [child EXCEPT ![accepted] = "start"]
  /\ Copy(Server, Child(accepted))
  /\ UNCHANGED <<ClientVars, written, accepted, grandson>>

WaitpidNoHang_mutant ==
  /\ main = "wait"
  /\ main' = "close"
  /\ child' = [child EXCEPT ![accepted] = IF @ = "zombie" THEN "reaped" ELSE @]
  /\ UNCHANGED <<ClientVars, written, accepted, grandson, holds, listens>>

WaitpidForGrandson_mutant ==
  /\ main = "wait"
  /\ child[accepted] = "zombie" /\ grandson[accepted] \in {"none", "gone"}
  /\ main' = "close"
  /\ child' = [child EXCEPT ![accepted] = "reaped"]
  /\ UNCHANGED <<ClientVars, written, accepted, grandson, holds, listens>>

\* waitpid() blocks until the child has exited, and frees its table entry.
Waitpid ==
  /\ main = "wait"
  /\ child[accepted] = "zombie"
  /\ main' = "close"
  /\ child' = [child EXCEPT ![accepted] = "reaped"]
  /\ UNCHANGED <<ClientVars, written, accepted, grandson, holds, listens>>

CloseLinkageForgotten_mutant ==
  /\ main = "close"
  /\ main' = "accept"
  /\ UNCHANGED <<ClientVars, written, accepted, child, grandson, holds, listens>>

CloseLinkage ==
  /\ main = "close"
  /\ main' = "accept"
  /\ Release(Server, {accepted}, FALSE)
  /\ UNCHANGED <<client, unread, written, accepted, child, grandson>>

\* After process_accept has returned, the test program ends sooner or later.
\* The other processes live on.
ProcessExit ==
  /\ main = "returned"
  /\ main' = "exited"
  /\ Release(Server, Conns, TRUE)
  /\ UNCHANGED <<client, unread, written, accepted, child, grandson>>

-----------------------------------------------------------------------------
(***************************************************************************)
(* process_accept in the child of connection k.                            *)
(***************************************************************************)
ChildAt(k, from, to) == child[k] = from /\ child' = [child EXCEPT ![k] = to]

ChildKeepsListening_mutant(k) ==
  /\ ChildAt(k, "start", "fork")
  /\ UNCHANGED <<ClientVars, written, accepted, main, grandson, holds, listens>>

ChildCloseListening(k) ==
  /\ ChildAt(k, "start", "fork")
  /\ Release(Child(k), {}, TRUE)
  /\ UNCHANGED <<client, unread, written, accepted, main, grandson>>

ChildFork(k) ==
  /\ ChildAt(k, "fork", "close")
  /\ grandson' = [grandson EXCEPT ![k] = "write"]
  /\ Copy(Child(k), Grandson(k))
  /\ UNCHANGED <<ClientVars, written, accepted, main>>

ChildForkFailMarked_mutant(k) ==
  /\ MayFail
  /\ ChildAt(k, "fork", "failed")
  /\ UNCHANGED <<ClientVars, written, accepted, main, grandson, holds, listens>>

\* The second fork() fails: the child closes the connection and exits with
\* 1, which nobody looks at.
ChildForkFail(k) ==
  /\ MayFail
  /\ ChildAt(k, "fork", "close")
  /\ UNCHANGED <<ClientVars, written, accepted, main, grandson, holds, listens>>

\* close(linkage_fd) and exit(), which closes whatever is left.
ChildExit(k) ==
  /\ ChildAt(k, "close", "zombie")
  /\ Release(Child(k), Conns, TRUE)
  /\ UNCHANGED <<client, unread, written, accepted, main, grandson>>

-----------------------------------------------------------------------------
(***************************************************************************)
(* pthread_func in the grandson of connection k, and its exit.             *)
(***************************************************************************)
GrandsonAt(k, from, to) ==
  grandson[k] = from /\ grandson' = [grandson EXCEPT ![k] = to]

WriteMessageIfAsked_mutant(k) ==
  /\ GrandsonAt(k, "write", "read")
  /\ written' = IF k \in unread THEN written \cup {k} ELSE written
  /\ UNCHANGED <<ClientVars, accepted, main, child, holds, listens>>

\* write_message: a negative result is logged and otherwise ignored.
WriteMessage(k) ==
  /\ GrandsonAt(k, "write", "read")
  /\ written' = written \cup (holds[Grandson(k)] \cap {k})
  /\ UNCHANGED <<ClientVars, accepted, main, child, holds, listens>>

\* read_message blocks until the client's message or its end is there.
ReadMessage(k) ==
  /\ k \in unread \/ ClientGone(k)
  /\ GrandsonAt(k, "read", "close")
  /\ unread' = unread \ {k}
  /\ UNCHANGED <<client, resets, written, accepted, main, child, holds, listens>>

CloseInPthreadFunc(k) ==
  /\ GrandsonAt(k, "close", "exit")
  /\ Release(Grandson(k), {k}, FALSE)
  /\ UNCHANGED <<client, unread, written, accepted, main, child>>

\* The second close(linkage_fd) finds the number free; exit(0) closes
\* whatever is left.
GrandsonExit(k) ==
  /\ GrandsonAt(k, "exit", "gone")
  /\ Release(Grandson(k), Conns, TRUE)
  /\ UNCHANGED <<client, unread, written, accepted, main, child>>

-----------------------------------------------------------------------------
Client(k)     == Connect(k) \/ ClientWrite(k) \/ ClientRead(k)
Main          == Accept \/ Fork \/ Waitpid \/ CloseLinkage
Failure       == AcceptFail \/ ForkFail \/ ProcessExit
ChildOf(k)    == \/ ChildCloseListening(k) \/ ChildFork(k)
                 \/ ChildForkFail(k) \/ ChildExit(k)
GrandsonOf(k) == \/ WriteMessage(k) \/ ReadMessage(k)
                 \/ CloseInPthreadFunc(k) \/ GrandsonExit(k)

Next == Main \/ Failure \/ \E k \in Conns : Client(k) \/ ChildOf(k) \/ GrandsonOf(k)

Spec == Init /\ [][Next]_vars

\* Every process runs; accept() returns while connections wait.  A client
\* may stay idle for ever before it writes, but one that waits in
\* epoll_wait wakes up.
Fairness ==
  /\ WF_vars(Main)
  /\ \A k \in Conns : /\ WF_vars(ChildOf(k))
                      /\ WF_vars(GrandsonOf(k))
                      /\ WF_vars(ClientRead(k))

FairSpec == Spec /\ Fairness

-----------------------------------------------------------------------------
(***************************************************************************)
(* Properties                                                              *)
(***************************************************************************)
\* A grandson can touch its own connection only, and cannot keep the
\* listening socket, and with it the port, alive after the server
\* (test_server.cpp:435,451-453).
GrandsonIsConfined ==
  \A k \in Conns : /\ holds[Grandson(k)] \subseteq {k}
                   /\ Grandson(k) \notin listens

\* When process_accept waits for the next client it has reaped every child
\* it forked and holds no connection: neither processes nor descriptors
\* accumulate, whatever the grandsons are doing (test_server.cpp:427-431).
NothingAccumulates ==
  main = "accept" =>
    /\ holds[Server] = {}
    /\ \A k \in Conns : child[k] \in {"none", "reaped"} /\ holds[Child(k)] = {}

\* A system call of one of the processes has failed.
CallFailed ==
  \/ main \in {"returned", "exited"}
  \/ \E k \in Conns : child[k] \in {"close", "zombie", "reaped"}
                      /\ grandson[k] = "none"

\* A client that says nothing holds up its own grandson only: every client
\* whose connection is made is accepted, unless process_accept has returned
\* (test_server.cpp:405-455).
IdleClientsDelayNobody ==
  \A k \in Conns :
    client[k] = "open" ~> k <= accepted \/ main \in {"returned", "exited"}

\* A connection whose client has finished is closed by all three processes
\* that had it, unless process_accept has returned with it open
\* (test_server.cpp:77,430,443).
ConnectionsEnd ==
  \A k \in Conns : ClientGone(k) ~> Closed(k) \/ main = "returned"

\* What ConnService sees of the state.
serviceTrouble == IF CallFailed THEN "failed" ELSE "none"
serviceReplies == [k \in Conns |-> IF k \in written THEN 1 ELSE 0]
servicePhase   == [k \in Conns |->
                     IF client[k] = "new" THEN "new"
                     ELSE IF Closed(k) THEN "closed"
                     ELSE IF k > accepted THEN "pending" ELSE "serving"]

Service == INSTANCE ConnService WITH
  trouble <- serviceTrouble, replies <- serviceReplies, phase <- servicePhase

\* process_accept keeps the promise of ConnService without the condition
\* thread_accept needs; a connection goes without its message only
\* after a system call has failed (test_server.cpp:405-460,56-79).
ImplementsService == Service!ServiceSpec
=============================================================================
