----------------------------- MODULE CharClient -----------------------------
(***************************************************************************)
(* The clients of the accepting servers: the CHAR test of                  *)
(* sample_client/test_client.cpp, one process per connection, each a       *)
(* sample_connect followed by epoll_client with write_char and read_char.  *)
(* Connections are numbered in the order in which connect() completes,     *)
(* which is the order in which the server's accept() returns them.         *)
(*                                                                         *)
(* What the client sees of the server comes in as parameters: how many     *)
(* connections were taken from the accept queue, whether a message was     *)
(* written to this one, whether the server's end of it is gone.            *)
(***************************************************************************)
EXTENDS Integers

CONSTANTS
  N,        \* number of clients, one connection each (bound of the model)
  Backlog   \* second argument of listen()

ASSUME CharClientAssumption == N \in Nat /\ Backlog \in Nat

Conns == 1..N

VARIABLES
  client,    \* what the client of each connection has done
  unread,    \* connections whose client's message the server has not read
  resets     \* connections the server reset (closed with data unread)

ClientTypeOK ==
  /\ client \in [Conns -> {"new", "open", "wrote", "ok", "err"}]
  /\ unread \subseteq Conns
  /\ resets \subseteq Conns

ClientInit ==
  /\ client = [k \in Conns |-> "new"]
  /\ unread = {}
  /\ resets = {}

\* sample_connect.  The accept queue of a listening socket holds Backlog + 1
\* connections; a client that finds it full keeps trying.
Dial(k, taken) ==
  /\ client[k] = "new"
  /\ \A j \in Conns : j < k => client[j] # "new"
  /\ k - taken <= Backlog + 1
  /\ client' = [client EXCEPT ![k] = "open"]
  /\ UNCHANGED <<unread, resets>>

\* epoll_client writes as soon as it is connected; a connection that was
\* reset makes write_message return -1, and epoll_client with it.
Say(k, ended) ==
  /\ client[k] = "open"
  /\ client' = [client EXCEPT ![k] = IF k \in resets THEN "err" ELSE "wrote"]
  /\ unread' = IF ended THEN unread ELSE unread \cup {k}
  /\ UNCHANGED resets

\* epoll_wait reports the socket when a message, FIN or RST has arrived.
\* Messages are read before the end of file or the error behind them;
\* read_message < 0 makes epoll_client return -1, 0 (end of file) does not.
Hear(k, messaged, ended) ==
  /\ client[k] = "wrote"
  /\ messaged \/ ended
  /\ client' = [client EXCEPT ![k] =
                  IF ~messaged /\ k \in resets THEN "err" ELSE "ok"]
  /\ UNCHANGED <<unread, resets>>

\* epoll_client has returned; it closed its end.
ClientGone(k) == client[k] \in {"ok", "err"}
=============================================================================
