--------------------------- MODULE PollingClients ---------------------------
(***************************************************************************)
(* The clients of sample_client/test_client.cpp that ask before they read: *)
(* select_client, which calls select() in a loop and reads and writes      *)
(* whatever it allows, and poll_client, which calls poll() once.  Neither  *)
(* waits: both pass a timeout of 0.  One process per connection, numbered  *)
(* in the order in which connect() completes.                              *)
(*                                                                         *)
(* A connection is two byte streams, each the number of bytes in it.  A    *)
(* read() may stop in the middle of a message; no reader looks at what it  *)
(* has read.  A socket is writable while a whole message fits.             *)
(*                                                                         *)
(* A client whose connect() fails has no connection and no number: it      *)
(* calls neither the server nor anything the others use.                   *)
(***************************************************************************)
EXTENDS Integers

CONSTANTS
  N,            \* number of clients, one connection each (bound of the model)
  Backlog,      \* second argument of listen()
  Buf,          \* bytes a connection holds in each direction
  AskLength,    \* bytes of what the server writes, "How are you?"
  AnswerLength, \* bytes of what the clients write, "Hello World, Lily."
  ReadSize      \* bytes one read() asks for, at both ends

ASSUME PollingClientsAssumption ==
  /\ N \in Nat /\ Backlog \in Nat
  /\ AskLength \in Nat \ {0} /\ AnswerLength \in Nat \ {0}
  /\ ReadSize \in Nat \ {0}
  /\ Buf \in Nat /\ AskLength <= Buf /\ AnswerLength <= Buf

Conns == 1..N

VARIABLES
  kind,      \* which of the two functions each client runs
  client,    \* where each client is; "both" and "write": what select() allowed
  heard,     \* clients that have read a message
  toServer,  \* bytes of each client the server has not read
  toClient,  \* bytes of the server each client has not read
  ends       \* what became of the server's end of each connection

ClientVars == <<kind, client, heard, toServer, toClient, ends>>

ClientTypeOK ==
  /\ kind \in [Conns -> {"select", "poll"}]
  /\ client \in [Conns -> {"new", "ask", "read", "both", "write", "spin",
                           "left", "gone", "ok", "err"}]
  /\ heard \subseteq Conns
  /\ toServer \in [Conns -> 0..Buf]
  /\ toClient \in [Conns -> 0..Buf]
  /\ ends \in [Conns -> {"open", "fin", "rst"}]

ClientInit ==
  /\ kind \in [Conns -> {"select", "poll"}]
  /\ client = [k \in Conns |-> "new"]
  /\ heard = {}
  /\ toServer = [k \in Conns |-> 0]
  /\ toClient = [k \in Conns |-> 0]
  /\ ends = [k \in Conns |-> "open"]

\* The client has closed its end.
Gone(k) == client[k] \in {"gone", "ok", "err"}

Readable(k) == toClient[k] > 0 \/ ends[k] # "open"
Writable(k) == toServer[k] + AnswerLength <= Buf \/ ends[k] # "open"

\* What one read() leaves of a stream.
AfterRead(bytes) == IF bytes > ReadSize THEN bytes - ReadSize ELSE 0

\* What the client does with connection k changes nothing but its own state.
Goes(k, to) == client' = [client EXCEPT ![k] = to]

\* sample_connect, while the server listens: the accept queue has room for
\* Backlog + 1 connections, and a client that finds it full waits.
Dial(k, taken) ==
  /\ client[k] = "new"
  /\ \A j \in Conns : j < k => client[j] # "new"
  /\ k - taken <= Backlog + 1
  /\ Goes(k, "ask")
  /\ UNCHANGED <<kind, heard, toServer, toClient, ends>>

SelectIgnoresWfds_mutant(k) ==
  /\ client[k] = "ask" /\ kind[k] = "select"
  /\ Goes(k, IF Readable(k) THEN "both" ELSE IF Writable(k) THEN "write" ELSE "left")
  /\ UNCHANGED <<kind, heard, toServer, toClient, ends>>

\* select() with a timeout of 0: neither readable nor writable is the end of
\* the loop, with the socket open and nothing to return.
Select(k) ==
  /\ client[k] = "ask" /\ kind[k] = "select"
  /\ Goes(k, CASE Readable(k) /\ Writable(k) -> "both"
               [] Readable(k) /\ ~Writable(k) -> "read"
               [] ~Readable(k) /\ Writable(k) -> "write"
               [] OTHER -> "left")
  /\ UNCHANGED <<kind, heard, toServer, toClient, ends>>

\* poll() with a timeout of 0, once: a client that finds nothing tests the
\* same revents for ever.
Poll(k) ==
  /\ client[k] = "ask" /\ kind[k] = "poll"
  /\ Goes(k, IF Readable(k) THEN "both" ELSE "spin")
  /\ UNCHANGED <<kind, heard, toServer, toClient, ends>>

\* read_message returns up to ReadSize of the bytes that have arrived, 0 at
\* the end of file, which is no error to either client, and -1 after a reset
\* or, the sockets of the clients being nonblocking, if nothing is there.
Read(k) ==
  /\ client[k] \in {"read", "both"}
  /\ Goes(k, IF toClient[k] = 0 /\ ends[k] # "fin" THEN "err"
             ELSE IF client[k] = "both" THEN "write" ELSE "ask")
  /\ heard' = IF toClient[k] > 0 THEN heard \cup {k} ELSE heard
  /\ toClient' = [toClient EXCEPT ![k] = AfterRead(@)]
  /\ UNCHANGED <<kind, toServer, ends>>

WriteWithoutBreak_mutant(k) ==
  /\ client[k] = "write"
  /\ Goes(k, IF ends[k] = "rst" \/ ~Writable(k) THEN "err"
             ELSE IF kind[k] = "select" THEN "ask" ELSE "both")
  /\ toServer' = [toServer EXCEPT ![k] =
                    IF ends[k] = "open" /\ Writable(k) THEN @ + AnswerLength ELSE @]
  /\ ends' = [ends EXCEPT ![k] = IF @ = "fin" THEN "rst" ELSE @]
  /\ UNCHANGED <<kind, heard, toClient>>

\* write_message: -1 if there is no room or the connection was reset; a server
\* that has closed its end answers with a reset.  poll_client has finished
\* then, select_client goes on.
Write(k) ==
  /\ client[k] = "write"
  /\ Goes(k, IF ends[k] = "rst" \/ ~Writable(k) THEN "err"
             ELSE IF kind[k] = "select" THEN "ask" ELSE "ok")
  /\ toServer' = [toServer EXCEPT ![k] =
                    IF ends[k] = "open" /\ Writable(k) THEN @ + AnswerLength ELSE @]
  /\ ends' = [ends EXCEPT ![k] = IF @ = "fin" THEN "rst" ELSE @]
  /\ UNCHANGED <<kind, heard, toClient>>

\* The process of a client whose select_client left its loop ends; what the
\* missing return value made of the test is unknown.
Leave(k) ==
  /\ client[k] = "left"
  /\ Goes(k, "gone")
  /\ UNCHANGED <<kind, heard, toServer, toClient, ends>>

Ask(k)   == Select(k) \/ Poll(k)
Serve(k) == Read(k) \/ Write(k) \/ Leave(k)
=============================================================================
