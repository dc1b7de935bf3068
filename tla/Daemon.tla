------------------------------- MODULE Daemon -------------------------------
(***************************************************************************)
(* The double fork of deamon/deamon.cpp: the process that calls deamon()   *)
(* forks a child and waits for it, the child forks the daemon and exits,   *)
(* and the daemon leaves the session and the terminal and runs callback(). *)
(* Every system call may fail.                                             *)
(***************************************************************************)
EXTENDS Integers

VARIABLES
  starter,  \* the process that calls deamon(): fork, wait, and then back in
            \* main ("main") or somewhere else ("astray"), or ended
  child,    \* none, fork, main, zombie, reaped
  daemon,   \* none, setsid, chdir, open, dup, callback, ended
  session,  \* is the daemon in a session of its own?
  atRoot,   \* is "/" its working directory?
  null      \* its descriptors that are /dev/null

daemonVars == <<starter, child, daemon, session, atRoot, null>>

DaemonInit ==
  /\ starter = "fork" /\ child = "none" /\ daemon = "none"
  /\ session = FALSE /\ atRoot = FALSE /\ null = {}

\* A failing fork() returns -1 to main, which ends.
StarterFork ==
  /\ starter = "fork"
  /\ \/ starter' = "wait" /\ child' = "fork"
     \/ starter' = "main" /\ UNCHANGED child
  /\ UNCHANGED <<daemon, session, atRoot, null>>

\* wait() reaps the child.  deamon() then ends without a return: a build may
\* go back to main or run on into other code.
StarterWait ==
  /\ starter = "wait" /\ child = "zombie"
  /\ child' = "reaped"
  /\ starter' \in {"main", "astray"}
  /\ UNCHANGED <<daemon, session, atRoot, null>>

StarterEnd ==
  /\ starter \in {"main", "astray"}
  /\ starter' = "ended"
  /\ UNCHANGED <<child, daemon, session, atRoot, null>>

ChildRunsCallback_mutant ==
  /\ child = "fork"
  /\ \/ child' = "callback"
     \/ child' = "main"
  /\ UNCHANGED <<starter, daemon, session, atRoot, null>>

\* If this fork() fails the child, too, returns -1 to main.
ChildFork ==
  /\ child = "fork"
  /\ \/ child' = "zombie" /\ daemon' = "setsid"
     \/ child' = "main" /\ UNCHANGED daemon
  /\ UNCHANGED <<starter, session, atRoot, null>>

\* main ends whatever deamon() returned to it.
ChildEnd ==
  /\ child = "main"
  /\ child' = "zombie"
  /\ UNCHANGED <<starter, daemon, session, atRoot, null>>

\* setsid() cannot fail: a process just forked leads no group.
DaemonSetsid ==
  /\ daemon = "setsid"
  /\ daemon' = "chdir" /\ session' = TRUE
  /\ UNCHANGED <<starter, child, atRoot, null>>

DaemonChdir ==
  /\ daemon = "chdir"
  /\ \/ daemon' = "open" /\ atRoot' = TRUE
     \/ daemon' = "ended" /\ UNCHANGED atRoot
  /\ UNCHANGED <<starter, child, session, null>>

DaemonOpenWithoutClose_mutant ==
  /\ daemon = "open"
  /\ daemon' = "dup" /\ null' \in {{}, {3}}
  /\ UNCHANGED <<starter, child, session, atRoot>>

\* close(0) makes open() return 0, unless it fails.
DaemonOpen ==
  /\ daemon = "open"
  /\ daemon' = "dup" /\ null' \in {{}, {0}}
  /\ UNCHANGED <<starter, child, session, atRoot>>

\* dup2(0, 1) and dup2(0, 2) fail if 0 is not open.
DaemonDup ==
  /\ daemon = "dup"
  /\ daemon' = "callback"
  /\ null' = IF 0 \in null THEN {0, 1, 2} ELSE null
  /\ UNCHANGED <<starter, child, session, atRoot>>

DaemonEnd ==
  /\ daemon = "callback"
  /\ daemon' = "ended"
  /\ UNCHANGED <<starter, child, session, atRoot, null>>

Short == \/ StarterFork \/ StarterWait \/ StarterEnd \/ ChildFork \/ ChildEnd
         \/ DaemonSetsid \/ DaemonChdir \/ DaemonOpen \/ DaemonDup

DaemonNext == Short \/ DaemonEnd

DaemonSpec == DaemonInit /\ [][DaemonNext]_daemonVars

\* Every process runs and no call but callback() lasts: that one may.
DaemonFairness == WF_daemonVars(Short)

\* The starter gets on, and leaves no zombie, without the daemon having to
\* end, whichever fork() fails: a child that returns into main is waited for
\* like one that exits (deamon.cpp:22-42,62-65).
StarterReturns == starter = "wait" ~> starter = "ended" /\ child = "reaped"

\* callback() runs in a session of its own in "/", and with all three standard
\* descriptors on /dev/null or, where that could not be opened, none: dup2
\* copies what open() has put at the place close() made (deamon.cpp:43-56).
DaemonDetached ==
  daemon = "callback" => session /\ atRoot /\ null \in {{}, {0, 1, 2}}
=============================================================================
