---------------------------- MODULE ConnService ----------------------------
(***************************************************************************)
(* What an accepting server of this repository promises to the clients     *)
(* that connect to it, whatever the way it dispatches connections (a       *)
(* thread each, two forks each, or one after the other): a connection is   *)
(* taken in the order of arrival, gets at most one message, and is closed  *)
(* only after that message was written.  Once a system call has failed,    *)
(* connections may be dropped without a message; once the program has      *)
(* used memory it should not, nothing is promised any more.                *)
(***************************************************************************)
EXTENDS Naturals

CONSTANT N        \* number of connections, numbered in order of arrival

Conns == 1..N

VARIABLES phase,    \* where each connection is
          replies,  \* number of messages written to each connection
          trouble   \* what has happened to the server

cvars == <<phase, replies, trouble>>

ServiceTypeOK ==
  /\ phase \in [Conns -> {"new", "pending", "serving", "closed", "lost"}]
  /\ replies \in [Conns -> {0, 1}]
  /\ trouble \in {"none", "failed", "broken"}

ServiceInit ==
  /\ phase = [k \in Conns |-> "new"]
  /\ replies = [k \in Conns |-> 0]
  /\ trouble = "none"

Move(k, from, to) ==
  /\ phase[k] = from
  /\ phase' = [phase EXCEPT ![k] = to]

Arrive(k) == Move(k, "new", "pending") /\ UNCHANGED <<replies, trouble>>

\* Connections are taken first come, first served.
Take(k) ==
  /\ Move(k, "pending", "serving")
  /\ \A j \in Conns : j < k => phase[j] \notin {"new", "pending"}
  /\ UNCHANGED <<replies, trouble>>

Reply(k) ==
  /\ phase[k] = "serving"
  /\ replies[k] = 0
  /\ replies' = [replies EXCEPT ![k] = 1]
  /\ UNCHANGED <<phase, trouble>>

Finish(k) ==
  /\ replies[k] = 1
  /\ Move(k, "serving", "closed")
  /\ UNCHANGED <<replies, trouble>>

\* A system call fails.
Fail ==
  /\ trouble = "none"
  /\ trouble' = "failed"
  /\ UNCHANGED <<phase, replies>>

\* A failed call costs connections their reply: some of those that are
\* waiting or being served are closed as they are.
Drop ==
  /\ trouble = "failed"
  /\ \E D \in SUBSET Conns :
       /\ \A k \in D : phase[k] \in {"pending", "serving"}
       /\ phase' = [k \in Conns |-> IF k \in D THEN "closed" ELSE phase[k]]
  /\ UNCHANGED <<replies, trouble>>

\* Nothing is known of the connections any more.
Break ==
  /\ trouble' = "broken"
  /\ phase' = [k \in Conns |-> "lost"]
  /\ replies' = [k \in Conns |-> 0]

ServiceNext ==
  \/ \E k \in Conns : Arrive(k) \/ Take(k) \/ Reply(k) \/ Finish(k)
  \/ Fail \/ Drop \/ Break

ServiceSpec == ServiceInit /\ [][ServiceNext]_cvars
=============================================================================
