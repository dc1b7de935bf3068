------------------------- MODULE ThreadServiceProofs -------------------------
(***************************************************************************)
(* ThreadServer implements ConnService, for every number of clients, every *)
(* size of the descriptor table and every backlog.                         *)
(*                                                                         *)
(* The refinement mapping calls a connection closed when no descriptor and *)
(* no blocked read() has it.  OwnThreadOnly turns that into "its thread is *)
(* done", which is what makes each action map to one step of ConnService.  *)
(***************************************************************************)
EXTENDS ThreadServerProofs

\* What OwnInv does not say: connections are accepted after their client
\* connected, no thread survives the process, and a thread that is past its
\* write has written to its connection.
Served ==
  /\ \A k \in Conns : k <= accepted => client[k] # "new"
  /\ main = "exited" => \A k \in Conns : tpc[k] \in {"none", "done"}
  /\ misuse = {} /\ main # "exited" =>
       \A k \in Conns : writers[k] = IF tpc[k] \in {"none", "start", "write"}
                                     THEN {} ELSE {k}

ServiceInv == OwnInv /\ Served

\* The invariant of the refinement holds initially.
LEMMA InitServed == Init => ServiceInv
<1> SUFFICES ASSUME Init PROVE Served
  BY InitOwn DEF ServiceInv
<1> QED BY ServerAssumptions DEF Init, ClientInit, Served, Conns

\* A thread that writes, writes to its own connection while no argument has
\* been lost.
LEMMA WritesOwn ==
  ASSUME OwnInv, misuse = {}, NEW k \in Conns, tpc[k] \in Holding
  PROVE  Denotes(tfd[k]) = k
  BY ServerAssumptions DEF OwnInv, OwnThreads, Denoting, Denotes

\* misuse is a history: nothing leaves it.
LEMMA MisuseStays == TypeOK /\ [Next]_vars => misuse \subseteq misuse'
  BY DEF TypeOK, Next, Main, Failure, Client, Thread, Connect,
      ClientWrite, ClientRead, ServerUnchanged, Accept, AcceptFail,
      StoreFuncData, PthreadCreate, PthreadCreateFail, ProcessExit,
      CopyFuncData, WriteMessage, ReadMessage, ReadReturn, CloseLinkage, vars

\* Every step keeps the additions.
LEMMA NextServed == ServiceInv /\ [Next]_vars => Served'
<1> SUFFICES ASSUME ServiceInv, [Next]_vars PROVE Served'
  OBVIOUS
<1> USE ServerAssumptions
<1>a. TypeOK /\ Counts /\ Served /\ accepted \in 0..N
  BY DEF ServiceInv, OwnInv, TypeOK
<1>1. ASSUME NEW k \in Conns, Client(k) PROVE Served'
  BY <1>a, <1>1
  DEF Client, Connect, ClientWrite, ClientRead, ServerUnchanged, MainVars,
      ThreadVars, Dial, Say, Hear, Served, TypeOK, ClientTypeOK
<1>2. CASE Accept
  BY <1>a, <1>2 DEF Accept, ClientVars, ThreadVars, Served, TypeOK, Conns
<1>3. CASE AcceptFail
  BY <1>a, <1>3 DEF AcceptFail, ClientVars, ThreadVars, Served
<1>4. CASE StoreFuncData
  BY <1>a, <1>4 DEF StoreFuncData, ClientVars, ThreadVars, Served, TypeOK
<1>5. CASE PthreadCreate
  BY <1>a, <1>5 DEF PthreadCreate, ClientVars, Served, TypeOK, Counts
<1>6. CASE PthreadCreateFail
  BY <1>a, <1>6 DEF PthreadCreateFail, ClientVars, ThreadVars, Served
<1>7. CASE ProcessExit
  <2>1. \A k \in Conns : tpc'[k] \in {"none", "done"}
    BY <1>7, Zenon DEF ProcessExit
  <2> QED BY <1>a, <1>7, <2>1 DEF ProcessExit, Served
<1>8. ASSUME NEW k \in Conns, CopyFuncData(k) PROVE Served'
  BY <1>a, <1>8 DEF CopyFuncData, Step, ClientVars, MainVars, Served, TypeOK
<1>9. ASSUME NEW k \in Conns, WriteMessage(k) PROVE Served'
  <2>1. UNCHANGED <<client, accepted, main, misuse>> /\ tpc[k] = "write"
        /\ tpc' = [tpc EXCEPT ![k] = "read"]
    BY <1>9 DEF WriteMessage, Step, MainVars
  <2>2. main # "exited"
    BY <1>a, <2>1 DEF Served
  <2>3. ASSUME misuse = {}
        PROVE  writers' = [writers EXCEPT ![k] = @ \cup {k}]
    <3>1. Denotes(tfd[k]) = k
      BY <2>1, <2>3, WritesOwn DEF Holding, ServiceInv
    <3>2. k # 0
      BY DEF Conns
    <3> QED BY <1>9, <3>1, <3>2 DEF WriteMessage
  <2> QED BY <1>a, <2>1, <2>2, <2>3 DEF Served, TypeOK
<1>10. ASSUME NEW k \in Conns, ReadMessage(k) PROVE Served'
  BY <1>a, <1>10 DEF ReadMessage, Step, ClientVars, MainVars, Served, TypeOK
<1>11. ASSUME NEW k \in Conns, ReadReturn(k) PROVE Served'
  BY <1>a, <1>11 DEF ReadReturn, Step, MainVars, Served, TypeOK
<1>12. ASSUME NEW k \in Conns, CloseLinkage(k) PROVE Served'
  BY <1>a, <1>12 DEF CloseLinkage, Step, MainVars, Served, TypeOK
<1>13. CASE UNCHANGED vars
  BY <1>a, <1>13 DEF vars, Served
<1> QED
  BY <1>1, <1>2, <1>3, <1>4, <1>5, <1>6, <1>7, <1>8, <1>9, <1>10, <1>11,
     <1>12, <1>13
  DEF Next, Main, Failure, Thread

-----------------------------------------------------------------------------
(***************************************************************************)
(* The steps.                                                              *)
(***************************************************************************)
\* Where connection k is, seen from the variables alone.
Phase(k) == IF client[k] = "new" THEN "new"
            ELSE IF main = "exited" THEN "closed"
            ELSE IF k > accepted THEN "pending"
            ELSE IF tpc[k] = "done" THEN "closed" ELSE "serving"

\* While no argument is lost, the refinement mapping is this.
Mapped ==
  /\ servicePhase = [k \in Conns |-> Phase(k)]
  /\ serviceReplies = [k \in Conns |-> IF writers[k] = {} THEN 0 ELSE 1]

\* The mapping in the words of OwnThreadOnly.
LEMMA PhaseIs == OwnInv /\ misuse = {} => Mapped
<1> SUFFICES ASSUME OwnInv, misuse = {} PROVE Mapped
  OBVIOUS
<1> USE ServerAssumptions
<1>1. OwnThreadOnly /\ TypeOK
  BY OwnInvImplies DEF OwnInv
<1>2. ASSUME NEW k \in Conns
      PROVE  Closed(k) <=> \/ main = "exited"
                           \/ k <= accepted /\ tpc[k] = "done"
  BY <1>1, <1>2 DEF OwnThreadOnly, Closed
<1>3. ASSUME NEW k \in Conns
      PROVE  writers[k] = {} \/ writers[k] = {k}
  BY <1>1, <1>3 DEF OwnThreadOnly
<1>4. \A k \in Conns : ~(k > accepted /\ k <= accepted)
  BY <1>1 DEF TypeOK, Conns
<1>5. \A k \in Conns : k > accepted \/ k <= accepted
  BY <1>1 DEF TypeOK, Conns
<1>6. servicePhase = [k \in Conns |-> Phase(k)]
  BY <1>2, <1>4, <1>5 DEF servicePhase, Phase
<1> QED BY <1>3, <1>6 DEF serviceReplies, Mapped

\* The initial states of the server are initial states of the service.
LEMMA InitRefines == Init => Service!ServiceInit
<1> SUFFICES ASSUME Init PROVE Service!ServiceInit
  OBVIOUS
<1>1. misuse = {} /\ main = "accept"
  BY DEF Init
<1>2. /\ servicePhase = [k \in Conns |-> Phase(k)]
      /\ serviceReplies = [k \in Conns |-> IF writers[k] = {} THEN 0 ELSE 1]
  BY <1>1, InitOwn, PhaseIs DEF Mapped
<1>3. \A k \in Conns : client[k] = "new" /\ writers[k] = {}
  BY DEF Init, ClientInit
<1>4. servicePhase = [k \in Conns |-> "new"]
  BY <1>2, <1>3 DEF Phase
<1>5. serviceReplies = [k \in Conns |-> 0]
  BY <1>2, <1>3
<1>6. serviceTrouble = "none"
  BY <1>1 DEF serviceTrouble
<1> QED BY <1>4, <1>5, <1>6 DEF Service!ServiceInit, Service!Conns, Conns

\* A step of a client other than connect() is not seen by the service.
LEMMA ClientRefines ==
  ASSUME ServiceInv, misuse = {}, Mapped, Mapped', misuse' = {},
         NEW k \in Conns, Client(k)
  PROVE  Service!Arrive(k) \/ UNCHANGED Service!cvars
<1> USE ServerAssumptions
<1>1. TypeOK /\ Served
  BY DEF ServiceInv, OwnInv
<1>2. UNCHANGED <<writers, accepted, main, tpc, misuse>>
  BY DEF Client, Connect, ClientWrite, ClientRead, ServerUnchanged, MainVars,
         ThreadVars
<1>3. UNCHANGED <<serviceTrouble, serviceReplies>>
  BY <1>2 DEF serviceTrouble, Mapped
<1>4. CASE Connect(k)
  <2>1. client[k] = "new" /\ client' = [client EXCEPT ![k] = "open"]
    BY <1>4 DEF Connect, Dial
  <2>2. main # "exited" /\ k > accepted
    BY <1>1, <1>4, <2>1 DEF Connect, Served, TypeOK, Conns
  <2>3. Phase(k) = "new" /\ Phase(k)' = "pending"
    BY <1>1, <1>2, <2>1, <2>2 DEF Phase, TypeOK, ClientTypeOK
  <2>4. \A j \in Conns : j # k => Phase(j)' = Phase(j)
    BY <1>1, <1>2, <2>1 DEF Phase, TypeOK, ClientTypeOK
  <2>5. servicePhase' = [servicePhase EXCEPT ![k] = "pending"]
    BY <2>3, <2>4 DEF Mapped
  <2>6. servicePhase[k] = "new"
    BY <2>3 DEF Mapped
  <2> QED BY <1>3, <2>5, <2>6 DEF Service!Arrive, Service!Move
<1>5. CASE ClientWrite(k) \/ ClientRead(k)
  <2>1. \A j \in Conns : client'[j] = "new" <=> client[j] = "new"
    BY <1>1, <1>5 DEF ClientWrite, ClientRead, Say, Hear, TypeOK, ClientTypeOK
  <2>2. \A j \in Conns : Phase(j)' = Phase(j)
    BY <1>2, <2>1 DEF Phase
  <2> QED BY <1>3, <2>2 DEF Mapped, Service!cvars
<1> QED BY <1>4, <1>5 DEF Client

\* One round of thread_accept takes the next connection; its error returns
\* are failures, and the end of the process drops what is open.
LEMMA MainRefines ==
  ASSUME ServiceInv, misuse = {}, Mapped, Mapped', misuse' = {},
         Main \/ Failure
  PROVE  Service!ServiceNext \/ UNCHANGED Service!cvars
<1> USE ServerAssumptions
<1>1. TypeOK /\ Served /\ Counts /\ accepted \in 0..N
  BY DEF ServiceInv, OwnInv, TypeOK
<1>2. CASE Accept
  <2>k. accepted + 1 \in Conns
    BY <1>1, <1>2 DEF Accept, Conns
  <2>0. PICK k \in Conns : k = accepted + 1
    BY <2>k
  <2>1. /\ client[k] # "new" /\ accepted' = k
        /\ main = "accept" /\ main' = "store"
        /\ UNCHANGED <<client, writers, tpc>>
    BY <1>1, <1>2, <2>0 DEF Accept, ClientVars, ThreadVars, Conns
  <2>2. tpc[k] = "none"
    BY <1>1, <2>0, <2>1 DEF Counts, Stored, TypeOK, Conns
  <2>3. Phase(k) = "pending" /\ Phase(k)' = "serving"
    BY <1>1, <2>0, <2>1, <2>2 DEF Phase, Conns
  <2>4. \A j \in Conns : j # k => Phase(j)' = Phase(j)
    BY <1>1, <2>0, <2>1 DEF Phase, Conns
  <2>5. \A j \in Conns : j < k => Phase(j) \notin {"new", "pending"}
    BY <1>1, <2>0, <2>1 DEF Phase, Conns, Served
  <2>6. servicePhase[k] = "pending"
        /\ servicePhase' = [servicePhase EXCEPT ![k] = "serving"]
    BY <2>1, <2>3, <2>4 DEF Mapped
  <2>7. \A j \in Conns : j < k => servicePhase[j] \notin {"new", "pending"}
    BY <2>5 DEF Mapped
  <2>8. UNCHANGED <<serviceReplies, serviceTrouble>>
    BY <2>1 DEF Mapped, serviceTrouble
  <2>9. Service!Take(k)
    BY <2>6, <2>7, <2>8 DEF Service!Take, Service!Move, Service!Conns, Conns
  <2> QED BY <2>1, <2>9 DEF Service!ServiceNext, Service!Conns, Conns
<1>3. CASE StoreFuncData \/ PthreadCreate
  <2>1. /\ UNCHANGED <<client, writers, accepted>>
        /\ main \in {"store", "create"} /\ main' \in {"create", "accept"}
    BY <1>3 DEF StoreFuncData, PthreadCreate, ClientVars
  <2>2. \A j \in Conns : tpc'[j] = "done" <=> tpc[j] = "done"
    BY <1>1, <1>3 DEF StoreFuncData, PthreadCreate, ThreadVars, Counts, TypeOK
  <2>3. \A j \in Conns : Phase(j)' = Phase(j)
    BY <2>1, <2>2 DEF Phase
  <2>4. UNCHANGED <<servicePhase, serviceReplies, serviceTrouble>>
    BY <2>1, <2>3 DEF Mapped, serviceTrouble
  <2> QED BY <2>4 DEF Service!cvars
<1>4. CASE AcceptFail \/ PthreadCreateFail
  <2>1. /\ UNCHANGED <<client, writers, accepted, tpc>>
        /\ main \in {"accept", "create"} /\ main' = "returned"
    BY <1>4 DEF AcceptFail, PthreadCreateFail, ClientVars, ThreadVars
  <2>2. UNCHANGED <<servicePhase, serviceReplies>>
    BY <2>1 DEF Mapped, Phase
  <2>3. serviceTrouble = "none" /\ serviceTrouble' = "failed"
    BY <2>1 DEF serviceTrouble
  <2> QED BY <2>2, <2>3 DEF Service!ServiceNext, Service!Fail
<1>5. CASE ProcessExit
  <2>1. /\ UNCHANGED <<client, writers, accepted>>
        /\ main = "returned" /\ main' = "exited"
    BY <1>5 DEF ProcessExit
  <2> DEFINE D == {j \in Conns : Phase(j) \in {"pending", "serving"}}
  <2>2. \A j \in Conns : Phase(j)' = IF j \in D THEN "closed" ELSE Phase(j)
    BY <2>1 DEF Phase
  <2>3. servicePhase' = [j \in Conns |-> IF j \in D THEN "closed"
                                         ELSE servicePhase[j]]
    BY <2>2 DEF Mapped
  <2>4. D \in SUBSET Conns
        /\ \A j \in D : servicePhase[j] \in {"pending", "serving"}
    BY DEF Mapped
  <2>5. serviceTrouble = "failed" /\ UNCHANGED <<serviceReplies, serviceTrouble>>
    BY <2>1 DEF Mapped, serviceTrouble
  <2>6. Service!Drop
    BY <2>3, <2>4, <2>5 DEF Service!Drop, Service!Conns, Conns
  <2> QED BY <2>6 DEF Service!ServiceNext
<1> QED BY <1>2, <1>3, <1>4, <1>5 DEF Main, Failure

\* A thread's write is the reply and its close the end of its connection;
\* the service does not see its other steps.
LEMMA ThreadRefines ==
  ASSUME ServiceInv, misuse = {}, Mapped, Mapped', misuse' = {},
         NEW k \in Conns, Thread(k)
  PROVE  Service!Reply(k) \/ Service!Finish(k) \/ UNCHANGED Service!cvars
<1> USE ServerAssumptions
<1>1. TypeOK /\ Served /\ Counts /\ accepted \in 0..N
  BY DEF ServiceInv, OwnInv, TypeOK
<1>2. UNCHANGED <<client, accepted, main>> /\ tpc[k] \in Holding \cup {"start"}
  BY DEF Thread, CopyFuncData, WriteMessage, ReadMessage, ReadReturn,
         CloseLinkage, Step, ClientVars, MainVars, Holding
<1>3. main # "exited" /\ k <= accepted /\ client[k] # "new"
  BY <1>1, <1>2 DEF Served, Counts, Stored, Holding, Conns, TypeOK
<1>4. Phase(k) = "serving"
  BY <1>1, <1>2, <1>3 DEF Phase, Holding, Conns
<1>5. UNCHANGED serviceTrouble
  BY <1>2 DEF serviceTrouble
<1>6. CASE WriteMessage(k)
  <2>1. tpc[k] = "write" /\ tpc' = [tpc EXCEPT ![k] = "read"]
    BY <1>6 DEF WriteMessage, Step
  <2>2. Denotes(tfd[k]) = k /\ k # 0
    BY <2>1, WritesOwn DEF Holding, ServiceInv, Conns
  <2>3. writers[k] = {} /\ writers' = [writers EXCEPT ![k] = @ \cup {k}]
    BY <1>1, <1>3, <1>6, <2>1, <2>2 DEF WriteMessage, Served
  <2>4. writers' = [writers EXCEPT ![k] = {k}]
    BY <2>3
  <2>5. \A j \in Conns : Phase(j)' = Phase(j)
    BY <1>1, <1>2, <2>1 DEF Phase, TypeOK
  <2>r. /\ serviceReplies = [j \in Conns |-> IF writers[j] = {} THEN 0 ELSE 1]
        /\ serviceReplies' = [j \in Conns |-> IF writers'[j] = {} THEN 0 ELSE 1]
    BY DEF Mapped
  <2>w. writers'[k] # {} /\ \A j \in Conns \ {k} : writers'[j] = writers[j]
    BY <1>1, <2>4 DEF TypeOK
  <2>6. serviceReplies[k] = 0
        /\ serviceReplies' = [serviceReplies EXCEPT ![k] = 1]
    BY <2>3, <2>r, <2>w
  <2>7. servicePhase[k] = "serving" /\ UNCHANGED servicePhase
    BY <1>4, <2>5 DEF Mapped
  <2> QED BY <1>5, <2>6, <2>7 DEF Service!Reply
<1>7. CASE CloseLinkage(k)
  <2>1. tpc[k] = "close" /\ tpc' = [tpc EXCEPT ![k] = "done"]
        /\ UNCHANGED writers
    BY <1>7 DEF CloseLinkage, Step
  <2>2. writers[k] # {}
    BY <1>1, <1>3, <2>1 DEF Served
  <2>3. Phase(k)' = "closed"
    BY <1>1, <1>2, <1>3, <2>1 DEF Phase, TypeOK, Conns
  <2>4. \A j \in Conns : j # k => Phase(j)' = Phase(j)
    BY <1>1, <1>2, <2>1 DEF Phase, TypeOK
  <2>5. servicePhase[k] = "serving"
        /\ servicePhase' = [servicePhase EXCEPT ![k] = "closed"]
    BY <1>4, <2>3, <2>4 DEF Mapped
  <2>6. serviceReplies[k] = 1 /\ UNCHANGED serviceReplies
    BY <2>1, <2>2 DEF Mapped
  <2> QED BY <1>5, <2>5, <2>6 DEF Service!Finish, Service!Move
<1>8. CASE CopyFuncData(k) \/ ReadMessage(k) \/ ReadReturn(k)
  <2>1. UNCHANGED writers
        /\ \A j \in Conns : tpc'[j] = "done" <=> tpc[j] = "done"
    BY <1>1, <1>8 DEF CopyFuncData, ReadMessage, ReadReturn, Step, ClientVars,
                      TypeOK
  <2>2. \A j \in Conns : Phase(j)' = Phase(j)
    BY <1>2, <2>1 DEF Phase
  <2> QED BY <1>5, <2>1, <2>2 DEF Mapped, Service!cvars
<1> QED BY <1>6, <1>7, <1>8 DEF Thread

\* Every step of the server is a step of the service, or none.
LEMMA NextRefines ==
  ServiceInv /\ ServiceInv' /\ [Next]_vars
    => [Service!ServiceNext]_(Service!cvars)
<1>a. (OwnInv /\ misuse = {} => Mapped)'
  BY PhaseIs, PTL
<1> SUFFICES ASSUME ServiceInv, ServiceInv', [Next]_vars
             PROVE  Service!ServiceNext \/ UNCHANGED Service!cvars
  OBVIOUS
<1>1. misuse \subseteq misuse'
  BY MisuseStays DEF ServiceInv, OwnInv
<1>2. CASE misuse # {}
  <2>1. misuse' # {}
    BY <1>1, <1>2
  <2>2. UNCHANGED <<servicePhase, serviceReplies, serviceTrouble>>
    BY <1>2, <2>1 DEF servicePhase, serviceReplies, serviceTrouble
  <2> QED BY <2>2 DEF Service!cvars
<1>3. CASE misuse' # {}
  <2>1. Service!Break
    BY <1>3 DEF Service!Break, Service!Conns, Conns, servicePhase,
                serviceReplies, serviceTrouble
  <2> QED BY <2>1 DEF Service!ServiceNext
<1>4. CASE misuse = {} /\ misuse' = {}
  <2>1. Mapped /\ Mapped'
    BY <1>a, <1>4, PhaseIs DEF ServiceInv
  <2>2. CASE Main \/ Failure
    BY <1>4, <2>1, <2>2, MainRefines
  <2>3. ASSUME NEW k \in Conns, Client(k) \/ Thread(k)
        PROVE  Service!ServiceNext \/ UNCHANGED Service!cvars
    BY <1>4, <2>1, <2>3, ClientRefines, ThreadRefines
    DEF Service!ServiceNext, Service!Conns, Conns
  <2>4. CASE UNCHANGED vars
    <3>1. UNCHANGED <<writers, client, accepted, main, tpc, misuse>>
      BY <2>4 DEF vars
    <3>2. UNCHANGED <<servicePhase, serviceReplies, serviceTrouble>>
      BY <2>1, <3>1 DEF Mapped, Phase, serviceTrouble
    <3> QED BY <3>2 DEF Service!cvars
  <2> QED BY <2>2, <2>3, <2>4 DEF Next
<1> QED BY <1>2, <1>3, <1>4

\* For every number of clients and descriptors: until an argument is lost,
\* the thread-per-connection server keeps the promise of ConnService
\* (test_server.cpp:56-79,372-403).
THEOREM ServiceImplemented == Spec => ImplementsService
<1>1. ServiceInv /\ [Next]_vars => ServiceInv'
  BY NextOwn, NextServed DEF ServiceInv
<1> QED
  BY <1>1, InitServed, InitRefines, NextRefines, PTL
  DEF Spec, ImplementsService, Service!ServiceSpec
=============================================================================
