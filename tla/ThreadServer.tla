---------------------------- MODULE ThreadServer ----------------------------
(***************************************************************************)
(* The thread-per-connection server of sample_socket/test_server.cpp:      *)
(* thread_accept accepts a connection, puts its descriptor in the local    *)
(* variable func_data and starts a thread with the ADDRESS of func_data.   *)
(* The thread (pthread_func) copies the descriptor out of func_data,       *)
(* writes one message, reads one and closes.  Nothing makes thread_accept  *)
(* wait for that copy, and the next round of its loop reuses the same      *)
(* stack slot.  The clients are those of CharClient.                       *)
(*                                                                         *)
(* Thread k is the thread created for connection k.  A descriptor is a     *)
(* number of the process-wide table fds, so a stale number may denote a    *)
(* later connection.                                                       *)
(***************************************************************************)
EXTENDS CharClient

CONSTANTS
  MaxFd,    \* descriptors the process may open for connections
  MayFail   \* may accept() or pthread_create() fail for no visible reason?

ASSUME ThreadServerAssumption ==
  /\ MaxFd \in Nat \ {0}
  /\ MayFail \in BOOLEAN

Fds   == 1..MaxFd
NoFd  == 0          \* a number that is in no table: using it gives EBADF

VARIABLES
  writers,   \* per connection, the threads that wrote a message to it
  accepted,  \* number of connections accepted so far
  main,      \* where thread_accept is
  linkage,   \* its local linkage_fd
  slot,      \* the fd field of its local func_data
  fds,       \* descriptor table: the connection behind each number, or 0
  tpc,       \* where each thread is in pthread_func
  tfd,       \* linkage_fd of each thread
  pinned,    \* the connection each thread is blocked reading from, or 0
  misuse     \* history: what has gone wrong with func_data so far

vars == <<client, unread, writers, resets, accepted, main, linkage, slot,
          fds, tpc, tfd, pinned, misuse>>

ClientVars == <<client, unread, writers, resets>>
MainVars   == <<accepted, main, linkage, slot>>
ThreadVars == <<tpc, tfd, pinned>>

TypeOK ==
  /\ ClientTypeOK
  /\ writers \in [Conns -> SUBSET Conns]
  /\ accepted \in 0..N
  /\ main \in {"accept", "store", "create", "returned", "exited"}
  /\ linkage \in Fds \cup {NoFd}
  /\ slot \in Fds \cup {NoFd}
  /\ fds \in [Fds -> 0..N]
  /\ tpc \in [Conns -> {"none", "start", "write", "read", "blocked",
                        "close", "done"}]
  /\ tfd \in [Conns -> Fds \cup {NoFd}]
  /\ pinned \in [Conns -> 0..N]
  /\ misuse \subseteq {"overwritten", "dangling"}

Init ==
  /\ ClientInit
  /\ writers = [k \in Conns |-> {}]
  /\ accepted = 0
  /\ main = "accept"
  /\ linkage = NoFd
  /\ slot = NoFd
  /\ fds = [f \in Fds |-> 0]
  /\ tpc = [k \in Conns |-> "none"]
  /\ tfd = [k \in Conns |-> NoFd]
  /\ pinned = [k \in Conns |-> 0]
  /\ misuse = {}

\* The connection a descriptor number denotes now; 0 if it denotes none.
Denotes(f) == IF f \in Fds THEN fds[f] ELSE 0

\* The server's end of an accepted connection is gone when no descriptor
\* denotes it and no blocked read() keeps the file referenced.
Closed(k) ==
  \/ main = "exited"
  \/ /\ k <= accepted
     /\ \A f \in Fds : fds[f] # k
     /\ \A t \in Conns : pinned[t] # k

-----------------------------------------------------------------------------
(***************************************************************************)
(* The clients' steps.                                                     *)
(***************************************************************************)
ServerUnchanged == UNCHANGED <<writers, MainVars, fds, ThreadVars, misuse>>

Connect(k) == main # "exited" /\ Dial(k, accepted) /\ ServerUnchanged

ClientWrite(k) == Say(k, Closed(k)) /\ ServerUnchanged

ClientRead(k) == Hear(k, writers[k] # {}, Closed(k)) /\ ServerUnchanged

-----------------------------------------------------------------------------
(***************************************************************************)
(* thread_accept.  One round of its loop is Accept, StoreFuncData,         *)
(* PthreadCreate.                                                          *)
(***************************************************************************)
\* accept() takes the oldest connection of the queue and returns the lowest
\* free descriptor number.
Accept ==
  /\ main = "accept"
  /\ accepted < N
  /\ client[accepted + 1] # "new"
  /\ \E f \in Fds :
       /\ fds[f] = 0
       /\ \A g \in Fds : fds[g] = 0 => f <= g
       /\ linkage' = f
       /\ fds' = [fds EXCEPT ![f] = accepted + 1]
  /\ accepted' = accepted + 1
  /\ main' = "store"
  /\ UNCHANGED <<ClientVars, slot, ThreadVars, misuse>>

AcceptFailUnchecked_mutant ==
  /\ main = "accept"
  /\ MayFail \/ \A f \in Fds : fds[f] # 0
  /\ linkage' = -1
  /\ main' = "store"
  /\ UNCHANGED <<ClientVars, accepted, slot, fds, ThreadVars, misuse>>

\* A failing accept() makes thread_accept return 0 at once; the listening
\* socket and every thread are left as they are.
AcceptFail ==
  /\ main = "accept"
  /\ MayFail \/ \A f \in Fds : fds[f] # 0
  /\ main' = "returned"
  /\ UNCHANGED <<ClientVars, accepted, linkage, slot, fds, ThreadVars, misuse>>

StoreFuncDataOnce_mutant ==
  /\ main = "store"
  /\ slot' = IF slot = NoFd THEN linkage ELSE slot
  /\ main' = "create"
  /\ misuse' = IF \E t \in Conns : tpc[t] = "start"
               THEN misuse \cup {"overwritten"} ELSE misuse
  /\ UNCHANGED <<ClientVars, accepted, linkage, fds, ThreadVars>>

\* func_data of this round lies where func_data of the last round lay.  A
\* thread that has not copied it yet loses its argument.
StoreFuncData ==
  /\ main = "store"
  /\ slot' = linkage
  /\ main' = "create"
  /\ misuse' = IF \E t \in Conns : tpc[t] = "start"
               THEN misuse \cup {"overwritten"} ELSE misuse
  /\ UNCHANGED <<ClientVars, accepted, linkage, fds, ThreadVars>>

PthreadCreateUnchecked_mutant ==
  /\ main = "create"
  /\ main' = "accept"
  /\ tpc' \in {tpc, [tpc EXCEPT ![accepted] = "start"]}
  /\ UNCHANGED <<ClientVars, accepted, linkage, slot, fds, tfd, pinned, misuse>>

PthreadCreate ==
  /\ main = "create"
  /\ tpc' = [tpc EXCEPT ![accepted] = "start"]
  /\ main' = "accept"
  /\ UNCHANGED <<ClientVars, accepted, linkage, slot, fds, tfd, pinned, misuse>>

\* A failing pthread_create() makes thread_accept return 0 with the new
\* connection open and without a thread.
PthreadCreateFail ==
  /\ main = "create"
  /\ MayFail
  /\ main' = "returned"
  /\ UNCHANGED <<ClientVars, accepted, linkage, slot, fds, ThreadVars, misuse>>

\* After thread_accept has returned the test program goes on to its other
\* tests and may exit, which kills the threads and closes every socket.
\* Connections with unread data and those still in the queue are reset.
ProcessExit ==
  /\ main = "returned"
  /\ main' = "exited"
  /\ fds' = [f \in Fds |-> 0]
  /\ tpc' = [k \in Conns |-> IF tpc[k] = "none" THEN "none" ELSE "done"]
  /\ pinned' = [k \in Conns |-> 0]
  /\ resets' = resets \cup {k \in Conns : /\ client[k] # "new"
                                          /\ ~Closed(k)
                                          /\ k > accepted \/ k \in unread}
  /\ UNCHANGED <<client, unread, writers, accepted, linkage, slot, tfd, misuse>>

-----------------------------------------------------------------------------
(***************************************************************************)
(* pthread_func of thread k.                                               *)
(***************************************************************************)
Step(k, from, to) == tpc[k] = from /\ tpc' = [tpc EXCEPT ![k] = to]

\* The thread reads func_data through the pointer it was given.  Once
\* thread_accept has returned, the pointer dangles: the number read may be
\* anything (a wild write_func would end the process, as ProcessExit does).
CopyFuncData(k) ==
  /\ Step(k, "start", "write")
  /\ IF main = "returned"
     THEN /\ tfd' \in {[tfd EXCEPT ![k] = f] : f \in Fds \cup {NoFd}}
          /\ misuse' = misuse \cup {"dangling"}
     ELSE /\ tfd' = [tfd EXCEPT ![k] = slot]
          /\ UNCHANGED misuse
  /\ UNCHANGED <<ClientVars, MainVars, fds, pinned>>

WriteMessageIfAsked_mutant(k) ==
  /\ Step(k, "write", "read")
  /\ LET c == Denotes(tfd[k])
     IN writers' = IF c \notin unread THEN writers
                   ELSE [writers EXCEPT ![c] = @ \cup {k}]
  /\ UNCHANGED <<client, unread, resets, MainVars, fds, tfd, pinned, misuse>>

\* write_message: a negative result is logged and otherwise ignored.
WriteMessage(k) ==
  /\ Step(k, "write", "read")
  /\ LET c == Denotes(tfd[k])
     IN writers' = IF c = 0 THEN writers
                   ELSE [writers EXCEPT ![c] = @ \cup {k}]
  /\ UNCHANGED <<client, unread, resets, MainVars, fds, tfd, pinned, misuse>>

\* read_message: read() finds the file behind the number and holds on to
\* it, whatever happens to the number while it is blocked.
ReadMessage(k) ==
  /\ LET c == Denotes(tfd[k])
     IN /\ Step(k, "read", IF c = 0 THEN "close" ELSE "blocked")
        /\ pinned' = [pinned EXCEPT ![k] = c]
  /\ UNCHANGED <<ClientVars, MainVars, fds, tfd, misuse>>

\* The blocked read() returns with the client's message, or with end of
\* file or an error once the client has closed.
ReadReturn(k) ==
  /\ pinned[k] \in unread \/ (pinned[k] \in Conns /\ ClientGone(pinned[k]))
  /\ Step(k, "blocked", "close")
  /\ unread' = unread \ {pinned[k]}
  /\ pinned' = [pinned EXCEPT ![k] = 0]
  /\ UNCHANGED <<client, writers, resets, MainVars, fds, tfd, misuse>>

CloseLinkageTwice_mutant(k) ==
  /\ Step(k, "close", IF Denotes(tfd[k]) = 0 THEN "done" ELSE "close")
  /\ LET c == Denotes(tfd[k])
     IN /\ fds' = [f \in Fds |-> IF f = tfd[k] THEN 0 ELSE fds[f]]
        /\ resets' = IF c \in unread /\ \A t \in Conns : pinned[t] # c
                     THEN resets \cup {c} ELSE resets
  /\ UNCHANGED <<client, unread, writers, MainVars, tfd, pinned, misuse>>

\* close(linkage_fd) frees the number.  The connection itself ends when no
\* read() is blocked on it; ending it with data unread resets it.
CloseLinkage(k) ==
  /\ Step(k, "close", "done")
  /\ LET c == Denotes(tfd[k])
     IN /\ fds' = [f \in Fds |-> IF f = tfd[k] THEN 0 ELSE fds[f]]
        /\ resets' = IF c \in unread /\ \A t \in Conns : pinned[t] # c
                     THEN resets \cup {c} ELSE resets
  /\ UNCHANGED <<client, unread, writers, MainVars, tfd, pinned, misuse>>

-----------------------------------------------------------------------------
Client(k) == Connect(k) \/ ClientWrite(k) \/ ClientRead(k)
Main      == Accept \/ StoreFuncData \/ PthreadCreate
Failure   == AcceptFail \/ PthreadCreateFail \/ ProcessExit
Thread(k) == \/ CopyFuncData(k) \/ WriteMessage(k) \/ ReadMessage(k)
             \/ ReadReturn(k) \/ CloseLinkage(k)

Next == Main \/ Failure \/ \E k \in Conns : Client(k) \/ Thread(k)

Spec == Init /\ [][Next]_vars

\* The scheduler runs every runnable thread and process, accept() returns
\* while connections wait, and the clients run to the end of their test.
\* Failures are never owed.
Fairness == /\ WF_vars(Main)
            /\ \A k \in Conns : WF_vars(Client(k)) /\ WF_vars(Thread(k))

FairSpec == Spec /\ Fairness

-----------------------------------------------------------------------------
(***************************************************************************)
(* Properties                                                              *)
(***************************************************************************)
\* The race on func_data misdirects threads in one direction only: the
\* number a thread holds denotes its own connection, a later one, or none,
\* never one accepted before (test_server.cpp:60,389).  Reading the dead
\* frame of a returned thread_accept is the one exception.
ForwardOnly ==
  "dangling" \notin misuse =>
    \A k \in Conns :
      tpc[k] \in {"write", "read", "blocked", "close"} =>
        /\ tfd[k] \in Fds
        /\ fds[tfd[k]] # 0 => fds[tfd[k]] >= k
        /\ pinned[k] # 0 => pinned[k] >= k

\* As long as every thread copied func_data before the next round
\* overwrote it, the server is right: only thread k writes to connection
\* k, its number denotes connection k until it closes it, and nothing else
\* ends connection k (test_server.cpp:60-77,388-394).
OwnThreadOnly ==
  misuse = {} =>
    \A k \in Conns :
      /\ writers[k] \subseteq {k}
      /\ tpc[k] \in {"write", "read", "blocked", "close"} =>
           tfd[k] \in Fds /\ fds[tfd[k]] = k
      /\ k <= accepted /\ main # "exited" => (Closed(k) <=> tpc[k] = "done")

\* While no call fails and the threads copy func_data in time, every client
\* whose connection was made gets through its test
\* (test_server.cpp:374-400,69-77).
InTimeClientsSucceed ==
  [](misuse = {} /\ main \notin {"returned", "exited"}) =>
    \A k \in Conns : client[k] = "open" ~> client[k] = "ok"

\* test_client.cpp:320 expects epoll_client to return, and to return 0.
EpollClientReturnsZero == \A k \in Conns : client[k] = "open" ~> client[k] = "ok"

\* What ConnService sees of the server.
serviceTrouble == IF misuse # {} THEN "broken"
                  ELSE IF main \in {"returned", "exited"} THEN "failed" ELSE "none"

serviceReplies == [k \in Conns |-> IF misuse # {} \/ writers[k] = {} THEN 0
                                   ELSE IF writers[k] = {k} THEN 1 ELSE 2]

servicePhase == [k \in Conns |-> IF misuse # {} THEN "lost"
                                 ELSE IF client[k] = "new" THEN "new"
                                 ELSE IF Closed(k) THEN "closed"
                                 ELSE IF k > accepted THEN "pending"
                                 ELSE "serving"]

Service == INSTANCE ConnService WITH
  trouble <- serviceTrouble, replies <- serviceReplies, phase <- servicePhase

\* Until an argument is lost, thread_accept and its threads keep the promise
\* of ConnService: in order, one message per connection, closed after it;
\* connections are dropped only after a call has failed
\* (test_server.cpp:374-400,56-79).
ImplementsService == Service!ServiceSpec
=============================================================================
