------------------------------ MODULE EpollEcho ------------------------------
(***************************************************************************)
(* The echo server of sample_epoll/echo_server.cpp: one process, blocking  *)
(* sockets, edge-triggered epoll.  For each event of a batch it accepts    *)
(* one connection, or reads at most 50 bytes and writes 100 bytes back.    *)
(* The repository has no client for it: clients are whatever TCP allows.   *)
(*                                                                         *)
(* Input is counted in units that divide the read buffer, output in        *)
(* replies.  Descriptors are named by what they denote: 0 is listening_fd, *)
(* k the linkage_fd of connection k; connections are numbered in the order *)
(* of connect().  The order in which epoll reports descriptors, which is   *)
(* that of evs[], is left open: the events of a batch are handled in any   *)
(* order.                                                                  *)
(***************************************************************************)
EXTENDS Integers, FiniteSets, FiniteSetsExt

CONSTANTS
  N,         \* number of clients (bound of the model)
  MaxSend,   \* units each client sends in all (bound of the model)
  ReadSize,  \* units that fit the 50 bytes of buff
  Window,    \* replies that fit between a write() and the client's read
  MaxFds,    \* the 1000 of evs[] and of the accept condition
  MayFail    \* may accept() or epoll_ctl() fail for no visible reason?

ASSUME EpollEchoAssumption ==
  /\ N \in Nat /\ MaxSend \in Nat
  /\ ReadSize \in Nat \ {0}
  /\ Window \in Nat \ {0} /\ MaxFds \in Nat \ {0}
  /\ MayFail \in BOOLEAN

Conns     == 1..N
Listening == 0

VARIABLES
  peer,       \* each client: not connected yet, connected, gone
  sent,       \* units each client has sent
  replies,    \* replies written to each client and not read by it
  conn,       \* each connection at the server: new, queued, open, closed
  input,      \* units in the receive queue of each connection
  down,       \* what ends the receive queue: nothing, a FIN or a RST
  listening,  \* is listening_fd open?
  ready,      \* descriptors on epoll's ready list
  batch,      \* events of the last epoll_wait not yet done with
  replying,   \* the connection of the event in hand, once it has been read
  pc,         \* where main() is
  cur_fds     \* its counter

ClientVars == <<peer, sent, replies>>
SocketVars == <<conn, input, down, listening>>
EpollVars == <<ready, batch, replying, pc>>
vars == <<ClientVars, SocketVars, EpollVars, cur_fds>>

TypeOK ==
  /\ peer \in [Conns -> {"new", "up", "gone"}]
  /\ sent \in [Conns -> 0..MaxSend]
  /\ replies \in [Conns -> 0..Window]
  /\ conn \in [Conns -> {"new", "queued", "open", "closed"}]
  /\ input \in [Conns -> 0..MaxSend]
  /\ down \in [Conns -> {"no", "fin", "rst"}]
  /\ listening \in BOOLEAN
  /\ ready \subseteq {Listening} \cup Conns
  /\ batch \subseteq {Listening} \cup Conns
  /\ replying = {} \/ \E k \in Conns : replying = {k}
  /\ pc \in {"wait", "event", "exited"}
  /\ cur_fds \in 0..N + 1

Init ==
  /\ peer = [k \in Conns |-> "new"]
  /\ sent = [k \in Conns |-> 0]
  /\ replies = [k \in Conns |-> 0]
  /\ conn = [k \in Conns |-> "new"]
  /\ input = [k \in Conns |-> 0]
  /\ down = [k \in Conns |-> "no"]
  /\ listening = TRUE
  /\ ready = {}
  /\ batch = {}
  /\ replying = {}
  /\ pc = "wait"
  /\ cur_fds = 1

Queued == {k \in Conns : conn[k] = "queued"}

\* What epoll finds when it polls a descriptor.
Readable(f) == IF f = Listening THEN Queued # {}
               ELSE input[f] > 0 \/ down[f] # "no"

\* What arrives at a connection puts it on the ready list, if the server has
\* registered it, which it does when it accepts it.
Wake(k) == ready' = IF conn[k] = "open" THEN ready \cup {k} ELSE ready

-----------------------------------------------------------------------------
(***************************************************************************)
(* Clients and TCP.                                                        *)
(***************************************************************************)
Connect(k) ==
  /\ listening
  /\ peer[k] = "new" /\ \A j \in Conns : j < k => peer[j] # "new"
  /\ peer' = [peer EXCEPT ![k] = "up"]
  /\ conn' = [conn EXCEPT ![k] = "queued"]
  /\ ready' = ready \cup {Listening}
  /\ UNCHANGED <<sent, replies, input, down, listening, batch, replying, pc, cur_fds>>

Send(k, n) ==
  /\ peer[k] = "up" /\ conn[k] # "closed"
  /\ sent[k] + n <= MaxSend
  /\ sent' = [sent EXCEPT ![k] = @ + n]
  /\ input' = [input EXCEPT ![k] = @ + n]
  /\ Wake(k)
  /\ UNCHANGED <<peer, replies, conn, down, listening, batch, replying, pc, cur_fds>>

Receive(k) ==
  /\ peer[k] = "up" /\ replies[k] > 0
  /\ replies' = [replies EXCEPT ![k] = @ - 1]
  /\ UNCHANGED <<peer, sent, SocketVars, EpollVars, cur_fds>>

\* Closing with replies unread sends a RST, otherwise a FIN.
Close(k) ==
  /\ peer[k] = "up"
  /\ peer' = [peer EXCEPT ![k] = "gone"]
  /\ down' = [down EXCEPT ![k] = IF replies[k] > 0 THEN "rst" ELSE "fin"]
  /\ Wake(k)
  /\ UNCHANGED <<sent, replies, conn, input, listening, batch, replying, pc, cur_fds>>

-----------------------------------------------------------------------------
(***************************************************************************)
(* The server.                                                             *)
(***************************************************************************)
\* The process ends: every socket is closed.
Exit ==
  /\ pc' = "exited"
  /\ conn' = [k \in Conns |-> IF conn[k] = "new" THEN "new" ELSE "closed"]
  /\ listening' = FALSE
  /\ ready' = {} /\ batch' = {} /\ replying' = {}
  /\ UNCHANGED <<ClientVars, input, down, cur_fds>>

EpollWaitOneLess_mutant ==
  /\ pc = "wait" /\ cur_fds > 0
  /\ ready # {}
  /\ LET events == {f \in ready : Readable(f)}
     IN /\ batch' \in kSubset(Min({cur_fds - 1, Cardinality(events)}), events)
        /\ ready' = events \ batch'
  /\ pc' = IF batch' = {} THEN "wait" ELSE "event"
  /\ UNCHANGED <<ClientVars, SocketVars, replying, cur_fds>>

\* epoll_wait(epoll_fd, evs, cur_fds, -1) returns the descriptors of the
\* ready list that are readable, at most cur_fds of them, and forgets them;
\* it sleeps while there is none.
EpollWait ==
  /\ pc = "wait" /\ cur_fds > 0
  /\ ready # {}
  /\ LET events == {f \in ready : Readable(f)}
     IN /\ batch' \in kSubset(Min({cur_fds, Cardinality(events)}), events)
        /\ ready' = events \ batch'
  /\ pc' = IF batch' = {} THEN "wait" ELSE "event"
  /\ UNCHANGED <<ClientVars, SocketVars, replying, cur_fds>>

\* With no room for an event it fails, and main() returns.
EpollWaitError == pc = "wait" /\ cur_fds = 0 /\ Exit

\* The next event of the batch.
Event(f) == pc = "event" /\ replying = {} /\ f \in batch

\* On with the one after the event of descriptor f.
NextEvent(f) ==
  /\ batch' = batch \ {f}
  /\ replying' = {}
  /\ pc' = IF batch' = {} THEN "wait" ELSE "event"

AcceptOneMore_mutant ==
  /\ Event(Listening) /\ cur_fds <= MaxFds
  /\ \E k \in Queued :
       /\ \A j \in Queued : k <= j
       /\ conn' = [conn EXCEPT ![k] = "open"]
       /\ ready' = IF Readable(k) THEN ready \cup {k} ELSE ready
  /\ cur_fds' = cur_fds + 1
  /\ NextEvent(Listening)
  /\ UNCHANGED <<ClientVars, input, down, listening>>

\* One connection per event; registering it reports what is there already.
Accept ==
  /\ Event(Listening) /\ cur_fds < MaxFds
  /\ \E k \in Queued :
       /\ \A j \in Queued : k <= j
       /\ conn' = [conn EXCEPT ![k] = "open"]
       /\ ready' = IF Readable(k) THEN ready \cup {k} ELSE ready
  /\ cur_fds' = cur_fds + 1
  /\ NextEvent(Listening)
  /\ UNCHANGED <<ClientVars, input, down, listening>>

\* A failing accept() or epoll_ctl() makes main() return.
AcceptError == MayFail /\ Event(Listening) /\ cur_fds < MaxFds /\ Exit

CloseListeningUncounted_mutant ==
  /\ Event(Listening) /\ cur_fds >= MaxFds
  /\ listening' = FALSE
  /\ conn' = [k \in Conns |-> IF k \in Queued THEN "closed" ELSE conn[k]]
  /\ NextEvent(Listening)
  /\ ready' = ready \ {Listening}
  /\ UNCHANGED <<ClientVars, input, down, cur_fds>>

\* With cur_fds at its limit the event of listening_fd is handled like one of
\* a connection: read() fails, and listening_fd is closed with all that wait
\* in its queue.
CloseListening ==
  /\ Event(Listening) /\ cur_fds >= MaxFds
  /\ listening' = FALSE
  /\ conn' = [k \in Conns |-> IF k \in Queued THEN "closed" ELSE conn[k]]
  /\ cur_fds' = cur_fds - 1
  /\ NextEvent(Listening)
  /\ ready' = ready \ {Listening}
  /\ UNCHANGED <<ClientVars, input, down>>

\* One read() of at most 50 bytes per event; what is left gives no new event.
ReadData(k) ==
  /\ Event(k) /\ input[k] > 0
  /\ input' = [input EXCEPT ![k] = IF @ > ReadSize THEN @ - ReadSize ELSE 0]
  /\ replying' = {k}
  /\ UNCHANGED <<ClientVars, conn, down, listening, ready, batch, pc, cur_fds>>

ReadEndCountsTwice_mutant(k) ==
  /\ Event(k) /\ input[k] = 0 /\ down[k] # "no"
  /\ conn' = [conn EXCEPT ![k] = "closed"]
  /\ cur_fds' = cur_fds - 2
  /\ NextEvent(k)
  /\ ready' = ready \ {k}
  /\ UNCHANGED <<ClientVars, input, down, listening>>

\* End of file or an error.
ReadEnd(k) ==
  /\ Event(k) /\ input[k] = 0 /\ down[k] # "no"
  /\ conn' = [conn EXCEPT ![k] = "closed"]
  /\ cur_fds' = cur_fds - 1
  /\ NextEvent(k)
  /\ ready' = ready \ {k}
  /\ UNCHANGED <<ClientVars, input, down, listening>>

Writing(k) == k \in replying

WriteThenReadAgain_mutant(k) ==
  /\ Writing(k) /\ peer[k] = "up" /\ replies[k] < Window
  /\ replies' = [replies EXCEPT ![k] = @ + 1]
  /\ replying' = {}
  /\ UNCHANGED <<peer, sent, SocketVars, ready, batch, pc, cur_fds>>

\* The blocking write() returns when the reply fits the window.
Write(k) ==
  /\ Writing(k) /\ peer[k] = "up" /\ replies[k] < Window
  /\ replies' = [replies EXCEPT ![k] = @ + 1]
  /\ NextEvent(k)
  /\ UNCHANGED <<peer, sent, SocketVars, ready, cur_fds>>

\* A reply to a client that has closed is answered by a RST.
WriteToGone(k) ==
  /\ Writing(k) /\ down[k] = "fin"
  /\ down' = [down EXCEPT ![k] = "rst"]
  /\ NextEvent(k)
  /\ Wake(k)
  /\ UNCHANGED <<ClientVars, conn, input, listening, cur_fds>>

WriteToResetRetries_mutant(k) ==
  /\ Writing(k) /\ down[k] = "rst"
  /\ UNCHANGED vars

\* A reply to a connection that was reset fails, which main() ignores, or
\* raises SIGPIPE, which ends it.
WriteToReset(k) ==
  /\ Writing(k) /\ down[k] = "rst"
  /\ \/ NextEvent(k) /\ UNCHANGED <<ClientVars, SocketVars, ready, cur_fds>>
     \/ Exit

-----------------------------------------------------------------------------
Client(k) == \/ Connect(k) \/ Receive(k) \/ Close(k)
             \/ \E n \in 1..MaxSend : Send(k, n)
Handle    == \/ Accept \/ CloseListening
             \/ \E k \in Conns : \/ ReadData(k) \/ ReadEnd(k) \/ Write(k)
                                 \/ WriteToGone(k) \/ WriteToReset(k)
Main      == EpollWait \/ EpollWaitError \/ Handle

Next == Main \/ AcceptError \/ \E k \in Conns : Client(k)

Spec == Init /\ [][Next]_vars

\* The server runs when it can, and clients read the replies they get.
FairSpec == /\ Spec /\ WF_vars(Main)
            /\ \A k \in Conns : WF_vars(Receive(k))

-----------------------------------------------------------------------------
(***************************************************************************)
(* Properties                                                              *)
(***************************************************************************)
\* cur_fds is the number of descriptors that are open: what makes maxevents
\* large enough for every event and the accept condition a bound on the
\* descriptors (echo_server.cpp:66,69,75,97,107).
CurFdsCounts ==
  pc # "exited" =>
    cur_fds = Cardinality({k \in Conns : conn[k] = "open"})
              + (IF listening THEN 1 ELSE 0)

\* epoll_wait is never told of more room than evs[] has
\* (echo_server.cpp:58,69,75,97).
EventsFitArray == cur_fds <= MaxFds

\* The sockets are blocking, but accept() and read() never block: whatever
\* happened since epoll_wait returned, each event of the batch is of an open
\* descriptor that still has something for the server
\* (echo_server.cpp:74-102).
NeverBlocksOnInput ==
  /\ pc = "event" => batch # {}
  /\ \A f \in batch \ replying : Readable(f)
  /\ Listening \in batch => listening
  /\ \A k \in Conns : k \in batch => conn[k] = "open"

\* If clients read their replies the server always gets back to epoll_wait,
\* unless it ends (echo_server.cpp:67-118).
BatchEnds == pc = "event" ~> pc \in {"wait", "exited"}

\* One accept() or read() is made per edge, so a connection or bytes behind
\* it may be left without one.  But no edge is lost: as long as listening_fd
\* is reported, the oldest connection of the queue leaves it, and a registered
\* connection that is reported is read, however many descriptors there are and
\* in whatever order a batch is handled; so the next connect() or message
\* gets those on that were left (echo_server.cpp:69-102).
EdgesServed ==
  \A k \in Conns :
    /\ Listening \in ready \cup batch /\ k \in Queued /\ (\A j \in Queued : k <= j) ~>
         k \notin Queued
    /\ k \in ready \cup (batch \ replying) /\ input[k] > 0 ~>
         k \in replying \/ pc = "exited"
=============================================================================
