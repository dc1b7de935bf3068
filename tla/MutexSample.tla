----------------------------- MODULE MutexSample -----------------------------
(***************************************************************************)
(* sample_thread/test_thread.cpp: main creates a thread that uses a struct *)
(* of main's under a mutex, takes the mutex itself, joins the thread,      *)
(* frees the struct and destroys the mutex.  The result of pthread_create  *)
(* is printed and otherwise ignored.                                       *)
(***************************************************************************)
EXTENDS Integers

VARIABLES
  mainAt,    \* init, create, lock, unlock, join, free, destroy, returned, crashed
  threadAt,  \* none, lock, use, unlock, done
  owner,     \* who holds the mutex
  exists     \* which of the struct and the mutex exist

mutexVars == <<mainAt, threadAt, owner, exists>>

MutexInit ==
  mainAt = "init" /\ threadAt = "none" /\ owner = "nobody" /\ exists = {}

MainAt(from, to) == mainAt = from /\ mainAt' = to

\* malloc() may fail.  The name in the struct is assigned to without having
\* been constructed, which may end the program.
MainInit ==
  /\ \/ MainAt("init", "create") /\ exists' = {"struct", "mutex"}
     \/ (MainAt("init", "returned") \/ MainAt("init", "crashed")) /\ UNCHANGED exists
  /\ UNCHANGED <<threadAt, owner>>

\* pthread_create; without a thread main goes on with a tid that has no value.
MainCreate ==
  /\ MainAt("create", "lock")
  /\ threadAt' \in {"lock", "none"}
  /\ UNCHANGED <<owner, exists>>

MainLock ==
  /\ MainAt("lock", "unlock")
  /\ owner = "nobody" /\ owner' = "main"
  /\ UNCHANGED <<threadAt, exists>>

MainUnlock ==
  /\ MainAt("unlock", "join")
  /\ owner' = "nobody"
  /\ UNCHANGED <<threadAt, exists>>

MainJoinTrusts_mutant ==
  /\ MainAt("join", "free")
  /\ threadAt # "lock"
  /\ UNCHANGED <<threadAt, owner, exists>>

\* pthread_join waits for the thread; of a tid without a value it may make an
\* error, which is ignored, or the end of the program.
MainJoin ==
  /\ \/ MainAt("join", "free") /\ threadAt \in {"none", "done"}
     \/ MainAt("join", "crashed") /\ threadAt = "none"
  /\ UNCHANGED <<threadAt, owner, exists>>

MainFree ==
  /\ MainAt("free", "destroy")
  /\ exists' = exists \ {"struct"}
  /\ UNCHANGED <<threadAt, owner>>

MainDestroy ==
  /\ MainAt("destroy", "returned")
  /\ exists' = exists \ {"mutex"}
  /\ UNCHANGED <<threadAt, owner>>

ThreadAt(from, to) == threadAt = from /\ threadAt' = to

ThreadLock ==
  /\ ThreadAt("lock", "use")
  /\ owner = "nobody" /\ owner' = "thread"
  /\ UNCHANGED <<mainAt, exists>>

ThreadUse == ThreadAt("use", "unlock") /\ UNCHANGED <<mainAt, owner, exists>>

ThreadUnlock ==
  /\ ThreadAt("unlock", "done")
  /\ owner' = "nobody"
  /\ UNCHANGED <<mainAt, exists>>

MutexNext ==
  \/ MainInit \/ MainCreate \/ MainLock \/ MainUnlock \/ MainJoin \/ MainFree
  \/ MainDestroy \/ ThreadLock \/ ThreadUse \/ ThreadUnlock

MutexSpec == MutexInit /\ [][MutexNext]_mutexVars

\* In whatever order the two take the mutex, neither the struct nor the mutex
\* goes while the thread has still to use it, and the mutex is never destroyed
\* locked (test_thread.cpp:16-22,41-51).
FreedAfterUse ==
  /\ threadAt \in {"lock", "use", "unlock"} => exists = {"struct", "mutex"}
  /\ mainAt = "returned" => owner = "nobody"
=============================================================================
