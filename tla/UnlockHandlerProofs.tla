------------------------- MODULE UnlockHandlerProofs -------------------------
(* The safety invariants of UnlockHandler for any finite set of devices, and *)
(* that it implements UnlockRequest.                                         *)
EXTENDS UnlockHandler, BaseUnlockServerProofs, FiniteSetTheorems, TLAPS

(* The inductive invariant, one part per idea.                               *)

\* Workers exist for the connections GetResult created, and only for those.
WorkersOfServers ==
    /\ mainPc = "enumerate" => servers = {}
    /\ mainPc \notin {"enumerate", "done"} => servers # {}
    /\ \A s \in Server : workerPc[s] # "unborn" => s \in servers

CountedServers == {s \in servers : workerPc[s] \in Counted}

CountIsExact == completed = Cardinality(CountedServers)

MutexIsMains ==
    mutex = "main" <=> mainPc \in {"predicate", "block", "load", "join", "delete"}

\* A worker that has left its loop knows its verdict.
StateIsKnown ==
    \A s \in Server :
        workerPc[s] \in Stopping \cup {"add"} \cup Publishing =>
            serverResult[s].state # "UNKNOWN"

\* A successful result was answered by the device it names.
Genuine(r) ==
    r.state = "SUCCESS" =>
        /\ r.device \in servers
        /\ m_UnlockState[r.device] = "SUCCESS"
        /\ r.response = "ours"

SuccessIsEarned ==
    /\ \A s \in Server : m_UnlockState[s] = "SUCCESS" => m_ResponseData[s] = "ours"
    /\ \A s \in Server :
          /\ workerPc[s] \notin Stopping => Genuine(serverResult[s])
          /\ serverResult[s].state = "SUCCESS" => m_UnlockState[s] = "SUCCESS"
    /\ Genuine(currentResult)
    /\ Genuine(result)

\* Stop() has seen to it that the thread of a stopped connection is past its
\* answer.
StopIsSafe ==
    \A s \in Server :
        /\ workerPc[s] \in PollLoop \cup Stopping => m_AcceptThread[s] # "none"
        /\ m_AcceptThread[s] \in {"connecting", "connected"} /\ ~m_IsRunning[s] =>
               workerPc[s] = "stopJoin"
        /\ workerPc[s] = "collect" => m_AcceptThread[s] \in {"leaving", "ended"}

\* While the main thread may fall asleep unnotified, a worker is still to come.
SomeoneNotifies ==
    mainPc = "block" \/ (mainPc = "asleep" /\ ~notified) =>
        \E s \in servers : workerPc[s] # "done"

\* When all are counted, the result is there or a worker still has to see to it.
SomeonePublishes ==
    servers # {} /\ (\A s \in servers : workerPc[s] \in Counted) =>
        \/ currentResult.state # "UNKNOWN"
        \/ \E s \in servers : workerPc[s] \in {"store", "last", "recheck", "storeLast"}

IInv ==
    /\ TypeOK
    /\ WorkersOfServers
    /\ CountIsExact
    /\ MutexIsMains
    /\ StateIsKnown
    /\ SuccessIsEarned
    /\ StopIsSafe
    /\ ReadAfterAllPolled
    /\ SomeoneNotifies
    /\ SomeonePublishes

-----------------------------------------------------------------------------
(* Type correctness.                                                         *)

LEMMA NoResultIsAResult == NoResult \in UnlockResults
BY DEF NoResult, UnlockResult, UnlockResults, UnlockStates

LEMMA TypeInit == ASSUME Init PROVE TypeOK
<1>1. ServerTypeOK
  BY DEF Init, ServerInit, ServerTypeOK
<1>2. /\ serverResult \in [Server -> UnlockResults]
      /\ currentResult \in UnlockResults
      /\ result \in UnlockResults
  BY NoResultIsAResult DEF Init
<1> QED BY <1>1, <1>2 DEF Init, TypeOK, WorkerPcs, MainPcs

LEMMA TypeStep == ASSUME TypeOK, [Next]_vars PROVE TypeOK'
<1> USE DEF TypeOK, ServerTypeOK, Goto
<1>1. CASE Main
  <2>1. CASE CreateServers
    BY <2>1, HandlerAssumption DEF CreateServers, UnlockResult, UnlockResults,
       UnlockStates, HandlerVerdicts, ThreadVerdicts, MainPcs, serverVars
  <2>2. CASE SpawnWorker
    BY <2>2 DEF SpawnWorker, WorkerPcs, serverVars
  <2>3. CASE LockToWait \/ CheckPredicate \/ Block \/ JoinWorkers \/ DeleteServers
    BY <2>3 DEF LockToWait, CheckPredicate, Block, JoinWorkers, DeleteServers,
       MainPcs, serverVars
  <2>4. CASE LoadResult
    BY <2>4 DEF LoadResult, MainPcs, serverVars
  <2> QED BY <1>1, <2>1, <2>2, <2>3, <2>4 DEF Main
<1>2. CASE SpuriousWakeup \/ CallerStops
  BY <1>2 DEF SpuriousWakeup, CallerStops, MainPcs, serverVars
<1>3. ASSUME NEW s \in Server, Worker(s) PROVE TypeOK'
  <2> USE DEF WorkerPcs, PollLoop, Stopping, Publishing, Counted
  <2>1. CASE RunServerStart(s)
    <3>1. CASE Start(s) /\ Goto(s, "check") /\ UNCHANGED serverResult
      <4>1. ServerTypeOK'
        BY <3>1 DEF Start
      <4> QED BY <2>1, <3>1, <4>1 DEF RunServerStart
    <3>2. CASE /\ serverResult' = [serverResult EXCEPT ![s] =
                                      UnlockResult("START_ERROR", NoServer, "none")]
               /\ Goto(s, "add")
               /\ UNCHANGED serverVars
      <4>1. UnlockResult("START_ERROR", NoServer, "none") \in UnlockResults
        BY DEF UnlockResult, UnlockResults, UnlockStates, HandlerVerdicts
      <4> QED BY <2>1, <3>2, <4>1 DEF RunServerStart, serverVars
    <3> QED BY <2>1, <3>1, <3>2 DEF RunServerStart
  <2>2. CASE CheckCancel(s) \/ PollResult(s) \/ CheckTimeout(s)
    <3>1. ASSUME NEW state \in UnlockStates, Break(s, state)
          PROVE  /\ serverResult' \in [Server -> UnlockResults]
                 /\ elapsed' \in [Server -> BOOLEAN]
                 /\ workerPc' \in [Server -> WorkerPcs]
      BY <3>1 DEF Break, UnlockResults
    <3>2. ASSUME NEW pc \in WorkerPcs, Continue(s, pc)
          PROVE  /\ serverResult' \in [Server -> UnlockResults]
                 /\ elapsed' \in [Server -> BOOLEAN]
                 /\ workerPc' \in [Server -> WorkerPcs]
      BY <3>2 DEF Continue
    <3>3. m_UnlockState[s] \in UnlockStates
      BY ServerAssumption DEF UnlockStates
    <3>4. {"CANCELED", "TIMEOUT"} \subseteq UnlockStates
      BY DEF UnlockStates, ThreadVerdicts, HandlerVerdicts
    <3>5. CASE CheckCancel(s)
      BY <3>1, <3>2, <3>4, <3>5 DEF CheckCancel, serverVars
    <3>6. CASE PollResult(s)
      BY <3>1, <3>2, <3>3, <3>6 DEF PollResult, serverVars
    <3>7. CASE CheckTimeout(s)
      <4>1. \/ Break(s, "TIMEOUT")
            \/ Break(s, "CANCELED")
            \/ Continue(s, "check")
        BY <3>7 DEF CheckTimeout
      <4>2. /\ serverResult' \in [Server -> UnlockResults]
            /\ elapsed' \in [Server -> BOOLEAN]
            /\ workerPc' \in [Server -> WorkerPcs]
        BY <4>1, <3>1, <3>2, <3>4
      <4> QED BY <3>7, <4>2 DEF CheckTimeout, serverVars
    <3> QED BY <2>2, <3>5, <3>6, <3>7
  <2>3. CASE StopServer(s) \/ StopJoin(s)
    BY <2>3 DEF StopServer, StopSignal, StopJoin, serverVars
  <2>4. CASE CollectResult(s)
    BY <2>4 DEF CollectResult, UnlockResult, UnlockResults, serverVars
  <2>5. CASE AddCompleted(s) \/ StoreSuccess(s) \/ RecheckSuccess(s) \/ StoreLast(s)
    BY <2>5 DEF AddCompleted, StoreSuccess, RecheckSuccess, StoreLast, serverVars
  <2>6. CASE CheckLast(s) \/ Notify(s)
    <3>1. \/ Goto(s, "recheck") /\ UNCHANGED serverResult
          \/ Return(s)
      BY <2>6 DEF CheckLast, Notify
    <3>2. /\ workerPc' \in [Server -> WorkerPcs]
          /\ serverResult' \in [Server -> UnlockResults]
      BY <3>1, NoResultIsAResult DEF Return
    <3>3. notified' \in BOOLEAN
      BY <2>6 DEF CheckLast, Notify
    <3> QED BY <2>6, <3>2, <3>3 DEF CheckLast, Notify, serverVars
  <2> QED BY <1>3, <2>1, <2>2, <2>3, <2>4, <2>5, <2>6 DEF Worker
<1>4. ASSUME NEW s \in Server, Connection(s) PROVE TypeOK'
  <2>1. CASE Connect(s) \/ \E token \in Answer : StoreResponse(s, token)
    BY <1>4, <2>1 DEF Connection, Connect, StoreResponse, handlerVars
  <2>2. CASE (\E verdict \in Outcome : Conclude(s, verdict)) \/ Finish(s)
    BY <1>4, <2>2 DEF Connection, Conclude, Finish, handlerVars
  <2>3. CASE HangUp(s) \/ End(s)
    BY <1>4, <2>3 DEF Connection, HangUp, End, handlerVars
  <2> QED BY <1>4, <2>1, <2>2, <2>3 DEF Connection, ServerThread
<1>5. ASSUME NEW s \in Server, TimeoutElapses(s) PROVE TypeOK'
  BY <1>5 DEF TimeoutElapses, serverVars
<1>6. CASE UNCHANGED vars
  BY <1>6 DEF vars, handlerVars, serverVars
<1> QED BY <1>1, <1>2, <1>3, <1>4, <1>5, <1>6 DEF Next

\* Every state the handler reaches is well typed (GetResult and RunServer).
THEOREM TypeCorrect == Spec => []TypeOK
<1>1. Init => TypeOK
  BY TypeInit
<1>2. TypeOK /\ [Next]_vars => TypeOK'
  BY TypeStep
<1> QED BY <1>1, <1>2, PTL DEF Spec

-----------------------------------------------------------------------------
(* The parts of the invariant, one lemma each.                               *)

LEMMA ServersStep ==
  ASSUME TypeOK, WorkersOfServers, [Next]_vars
  PROVE  WorkersOfServers'
<1> USE DEF WorkersOfServers, TypeOK, MainPcs, Goto
<1>1. CASE Main
  <2>1. CASE CreateServers
    BY <2>1 DEF CreateServers
  <2>2. CASE SpawnWorker
    BY <2>2 DEF SpawnWorker
  <2>3. CASE LockToWait \/ CheckPredicate \/ Block \/ LoadResult \/ JoinWorkers
             \/ DeleteServers
    BY <2>3 DEF LockToWait, CheckPredicate, Block, LoadResult, JoinWorkers,
       DeleteServers
  <2> QED BY <1>1, <2>1, <2>2, <2>3 DEF Main
<1>2. CASE SpuriousWakeup \/ CallerStops
  BY <1>2 DEF SpuriousWakeup, CallerStops
<1>3. ASSUME NEW s \in Server, Worker(s) PROVE WorkersOfServers'
  <2>1. /\ UNCHANGED <<mainPc, servers>>
        /\ workerPc[s] # "unborn"
        /\ \A r \in Server \ {s} : workerPc'[r] = workerPc[r]
    BY <1>3 DEF Worker, RunServerStart, CheckCancel, PollResult, CheckTimeout,
       Break, Continue, StopServer, StopJoin, CollectResult, AddCompleted,
       StoreSuccess, CheckLast, Return, RecheckSuccess, StoreLast, Notify
  <2> QED BY <2>1
<1>4. ASSUME NEW s \in Server, Connection(s) \/ TimeoutElapses(s)
      PROVE  WorkersOfServers'
  BY <1>4 DEF Connection, TimeoutElapses, handlerVars
<1>5. CASE UNCHANGED vars
  BY <1>5 DEF vars, handlerVars
<1> QED BY <1>1, <1>2, <1>3, <1>4, <1>5 DEF Next

LEMMA MutexStep ==
  ASSUME TypeOK, MutexIsMains, [Next]_vars
  PROVE  MutexIsMains'
<1> USE DEF MutexIsMains, TypeOK, MainPcs
<1>1. CASE Main
  BY <1>1 DEF Main, CreateServers, SpawnWorker, LockToWait, CheckPredicate, Block,
     LoadResult, JoinWorkers, DeleteServers
<1>2. CASE SpuriousWakeup \/ CallerStops
  BY <1>2 DEF SpuriousWakeup, CallerStops
<1>3. ASSUME NEW s \in Server, Worker(s) PROVE UNCHANGED <<mainPc, mutex>>
  BY <1>3 DEF Worker, RunServerStart, CheckCancel, PollResult, CheckTimeout,
     StopServer, StopJoin, CollectResult, AddCompleted, StoreSuccess, CheckLast,
     RecheckSuccess, StoreLast, Notify
<1>4. ASSUME NEW s \in Server, Connection(s) \/ TimeoutElapses(s)
      PROVE  UNCHANGED <<mainPc, mutex>>
  BY <1>4 DEF Connection, TimeoutElapses, handlerVars
<1>5. CASE UNCHANGED vars
  BY <1>5 DEF vars, handlerVars
<1> QED BY <1>1, <1>2, <1>3, <1>4, <1>5 DEF Next

\* Only the step past fetch_add changes who is counted, and it adds one.
LEMMA CountStep ==
  ASSUME TypeOK, WorkersOfServers, CountIsExact, [Next]_vars
  PROVE  CountIsExact'
<1> USE DEF TypeOK
<1>1. IsFiniteSet(servers) /\ IsFiniteSet(CountedServers)
  BY HandlerAssumption, FS_Subset DEF CountedServers
<1>2. ASSUME UNCHANGED <<completed, CountedServers>> PROVE CountIsExact'
  BY <1>2 DEF CountIsExact
<1>3. CASE Main
  <2>1. CASE CreateServers
    <3>1. servers = {} /\ CountedServers = {}
      BY <2>1 DEF CreateServers, WorkersOfServers, CountedServers
    <3>2. CountedServers' = {}
      <4>1. \A s \in Server : workerPc[s] = "unborn"
        BY <3>1 DEF WorkersOfServers
      <4> QED BY <2>1, <4>1 DEF CreateServers, CountedServers, Counted, Publishing
    <3> QED BY <1>2, <2>1, <3>1, <3>2 DEF CreateServers
  <2>2. CASE SpawnWorker
    <3>1. UNCHANGED <<completed, servers>>
      BY <2>2 DEF SpawnWorker
    <3>2. CountedServers' = CountedServers
      BY <2>2 DEF SpawnWorker, CountedServers, Counted, Publishing, Goto
    <3> QED BY <1>2, <3>1, <3>2
  <2>3. CASE LockToWait \/ CheckPredicate \/ Block \/ LoadResult \/ JoinWorkers
             \/ DeleteServers
    BY <1>2, <2>3 DEF LockToWait, CheckPredicate, Block, LoadResult, JoinWorkers,
       DeleteServers, CountedServers
  <2> QED BY <1>3, <2>1, <2>2, <2>3 DEF Main
<1>4. CASE SpuriousWakeup \/ CallerStops
  BY <1>2, <1>4 DEF SpuriousWakeup, CallerStops, CountedServers
<1>5. ASSUME NEW s \in Server, Worker(s) PROVE CountIsExact'
  <2>1. CASE AddCompleted(s)
    <3>1. s \in servers /\ s \notin CountedServers
      BY <2>1 DEF AddCompleted, WorkersOfServers, CountedServers, Counted, Publishing
    <3>2. CountedServers' = CountedServers \cup {s}
      BY <2>1, <3>1 DEF AddCompleted, Goto, CountedServers, Counted, Publishing
    <3>3. Cardinality(CountedServers') = Cardinality(CountedServers) + 1
      BY <1>1, <3>1, <3>2, FS_AddElement
    <3> QED BY <2>1, <3>3 DEF AddCompleted, CountIsExact
  <2>2. CASE ~AddCompleted(s)
    <3>1. /\ UNCHANGED <<completed, servers>>
          /\ workerPc[s] \in Counted <=> workerPc'[s] \in Counted
          /\ \A r \in Server \ {s} : workerPc'[r] = workerPc[r]
      BY <1>5, <2>2 DEF Worker, RunServerStart, CheckCancel, PollResult,
         CheckTimeout, Break, Continue, StopServer, StopJoin, CollectResult,
         StoreSuccess, CheckLast, Return, RecheckSuccess, StoreLast, Notify,
         Goto, Counted, Publishing
    <3>2. CountedServers' = CountedServers
      BY <3>1 DEF CountedServers
    <3> QED BY <1>2, <3>1, <3>2
  <2> QED BY <2>1, <2>2
<1>6. ASSUME NEW s \in Server, Connection(s) \/ TimeoutElapses(s)
      PROVE  CountIsExact'
  BY <1>2, <1>6 DEF Connection, TimeoutElapses, handlerVars, CountedServers
<1>7. CASE UNCHANGED vars
  BY <1>2, <1>7 DEF vars, handlerVars, CountedServers
<1> QED BY <1>3, <1>4, <1>5, <1>6, <1>7 DEF Next

\* All counted and the count at its limit are the same.
LEMMA AllCountedIffCompleted ==
  ASSUME TypeOK, CountIsExact
  PROVE  AllCompleted <=> \A s \in servers : workerPc[s] \in Counted
<1>1. IsFiniteSet(servers)
  BY HandlerAssumption, FS_Subset DEF TypeOK
<1>2. CountedServers \subseteq servers
  BY DEF CountedServers
<1>3. CASE CountedServers = servers
  BY <1>3 DEF AllCompleted, CountIsExact, CountedServers
<1>4. CASE CountedServers # servers
  <2>1. Cardinality(CountedServers) # Cardinality(servers)
    BY <1>1, <1>2, <1>4, FS_Subset
  <2>2. ~AllCompleted
    BY <2>1 DEF AllCompleted, CountIsExact
  <2> QED BY <2>2, <1>4 DEF CountedServers
<1> QED BY <1>3, <1>4

LEMMA StateStep ==
  ASSUME TypeOK, StateIsKnown, [Next]_vars
  PROVE  StateIsKnown'
<1> USE DEF StateIsKnown, TypeOK, Goto
<1>1. CASE Main
  <2>1. CASE SpawnWorker
    BY <2>1 DEF SpawnWorker, Stopping, Publishing
  <2>2. CASE ~SpawnWorker
    BY <1>1, <2>2 DEF Main, CreateServers, LockToWait, CheckPredicate, Block,
       LoadResult, JoinWorkers, DeleteServers
  <2> QED BY <2>1, <2>2
<1>2. CASE SpuriousWakeup \/ CallerStops
  BY <1>2 DEF SpuriousWakeup, CallerStops
<1>3. ASSUME NEW s \in Server, Worker(s) PROVE StateIsKnown'
  <2> USE DEF Stopping, Publishing
  <2>1. CASE RunServerStart(s)
    BY <2>1 DEF RunServerStart, UnlockResult
  <2>2. CASE CheckCancel(s) \/ PollResult(s) \/ CheckTimeout(s)
    BY <2>2 DEF CheckCancel, PollResult, CheckTimeout, Break, Continue, UnlockResults
  <2>3. CASE StopServer(s) \/ StopJoin(s)
    BY <2>3 DEF StopServer, StopJoin
  <2>4. CASE CollectResult(s)
    BY <2>4 DEF CollectResult, UnlockResult, UnlockResults
  <2>5. CASE AddCompleted(s) \/ StoreSuccess(s) \/ RecheckSuccess(s) \/ StoreLast(s)
    BY <2>5 DEF AddCompleted, StoreSuccess, RecheckSuccess, StoreLast
  <2>6. CASE CheckLast(s) \/ Notify(s)
    BY <2>6 DEF CheckLast, Notify, Return
  <2> QED BY <1>3, <2>1, <2>2, <2>3, <2>4, <2>5, <2>6 DEF Worker
<1>4. ASSUME NEW s \in Server, Connection(s) \/ TimeoutElapses(s)
      PROVE  StateIsKnown'
  BY <1>4 DEF Connection, TimeoutElapses, handlerVars
<1>5. CASE UNCHANGED vars
  BY <1>5 DEF vars, handlerVars
<1> QED BY <1>1, <1>2, <1>3, <1>4, <1>5 DEF Next

LEMMA StopStep ==
  ASSUME TypeOK, StopIsSafe, [Next]_vars
  PROVE  StopIsSafe'
<1> USE DEF StopIsSafe, TypeOK, ServerTypeOK, Goto, PollLoop, Stopping
<1>1. CASE Main
  <2>1. CASE SpawnWorker
    BY <2>1 DEF SpawnWorker, serverVars
  <2>2. CASE ~SpawnWorker
    BY <1>1, <2>2 DEF Main, CreateServers, LockToWait, CheckPredicate, Block,
       LoadResult, JoinWorkers, DeleteServers, serverVars
  <2> QED BY <2>1, <2>2
<1>2. CASE SpuriousWakeup \/ CallerStops
  BY <1>2 DEF SpuriousWakeup, CallerStops, serverVars
<1>3. ASSUME NEW s \in Server, Worker(s) PROVE StopIsSafe'
  <2>1. CASE RunServerStart(s)
    BY <2>1 DEF RunServerStart, Start, serverVars
  <2>2. CASE CheckCancel(s) \/ PollResult(s) \/ CheckTimeout(s)
    BY <2>2 DEF CheckCancel, PollResult, CheckTimeout, Break, Continue, serverVars
  <2>3. CASE StopServer(s)
    <3>1. CASE StopSignal(s)
      BY <2>3, <3>1 DEF StopServer, StopSignal
    <3>2. CASE ~m_IsRunning[s]
      BY <2>3, <3>2 DEF StopServer, StopSignal, serverVars
    <3> QED BY <2>3, <3>1, <3>2 DEF StopServer
  <2>4. CASE StopJoin(s)
    BY <2>4 DEF StopJoin, Joinable, serverVars
  <2>5. CASE CollectResult(s)
    BY <2>5 DEF CollectResult, serverVars
  <2>6. CASE AddCompleted(s) \/ StoreSuccess(s) \/ RecheckSuccess(s) \/ StoreLast(s)
    BY <2>6 DEF AddCompleted, StoreSuccess, RecheckSuccess, StoreLast, serverVars
  <2>7. CASE CheckLast(s)
    BY <2>7 DEF CheckLast, Return, serverVars
  <2>8. CASE Notify(s)
    BY <2>8 DEF Notify, Return, serverVars
  <2> QED BY <1>3, <2>1, <2>2, <2>3, <2>4, <2>5, <2>6, <2>7, <2>8 DEF Worker
<1>4. ASSUME NEW s \in Server, Connection(s) PROVE StopIsSafe'
  BY <1>4 DEF Connection, ServerThread, Connect, StoreResponse, Conclude,
     Finish, HangUp, End, handlerVars
<1>5. ASSUME NEW s \in Server, TimeoutElapses(s) PROVE StopIsSafe'
  BY <1>5 DEF TimeoutElapses, serverVars
<1>6. CASE UNCHANGED vars
  BY <1>6 DEF vars, handlerVars, serverVars
<1> QED BY <1>1, <1>2, <1>3, <1>4, <1>5, <1>6 DEF Next

LEMMA ReadStep ==
  ASSUME TypeOK, WorkersOfServers, CountIsExact, ReadAfterAllPolled, [Next]_vars
  PROVE  ReadAfterAllPolled'
<1> USE DEF ReadAfterAllPolled, TypeOK, Goto, Counted, Publishing
<1>1. CASE Main
  <2>1. CASE CheckPredicate
    BY <2>1, AllCountedIffCompleted DEF CheckPredicate
  <2>2. CASE LoadResult \/ JoinWorkers
    BY <2>2 DEF LoadResult, JoinWorkers
  <2>3. CASE CreateServers \/ SpawnWorker \/ LockToWait \/ Block \/ DeleteServers
    BY <2>3 DEF CreateServers, SpawnWorker, LockToWait, Block, DeleteServers
  <2> QED BY <1>1, <2>1, <2>2, <2>3 DEF Main
<1>2. CASE SpuriousWakeup \/ CallerStops
  BY <1>2 DEF SpuriousWakeup, CallerStops
<1>3. ASSUME NEW s \in Server, Worker(s) PROVE ReadAfterAllPolled'
  <2>1. /\ UNCHANGED <<mainPc, servers>>
        /\ workerPc[s] \in Counted => workerPc'[s] \in Counted
        /\ \A r \in Server \ {s} : workerPc'[r] = workerPc[r]
    BY <1>3 DEF Worker, RunServerStart, CheckCancel, PollResult, CheckTimeout,
       Break, Continue, StopServer, StopJoin, CollectResult, AddCompleted,
       StoreSuccess, CheckLast, Return, RecheckSuccess, StoreLast, Notify
  <2> QED BY <2>1
<1>4. ASSUME NEW s \in Server, Connection(s) \/ TimeoutElapses(s)
      PROVE  ReadAfterAllPolled'
  BY <1>4 DEF Connection, TimeoutElapses, handlerVars
<1>5. CASE UNCHANGED vars
  BY <1>5 DEF vars, handlerVars
<1> QED BY <1>1, <1>2, <1>3, <1>4, <1>5 DEF Next

LEMMA SuccessStep ==
  ASSUME TypeOK, WorkersOfServers, SuccessIsEarned, [Next]_vars
  PROVE  SuccessIsEarned'
<1> USE DEF SuccessIsEarned, Genuine, TypeOK, ServerTypeOK, Goto
<1>1. CASE Main
  <2>1. CASE CreateServers
    BY <2>1 DEF CreateServers, UnlockResult, WorkersOfServers, serverVars
  <2>2. CASE SpawnWorker
    BY <2>2 DEF SpawnWorker, Stopping, serverVars
  <2>3. CASE LoadResult
    BY <2>3 DEF LoadResult, serverVars
  <2>4. CASE LockToWait \/ CheckPredicate \/ Block \/ JoinWorkers \/ DeleteServers
    BY <2>4 DEF LockToWait, CheckPredicate, Block, JoinWorkers, DeleteServers,
       serverVars
  <2> QED BY <1>1, <2>1, <2>2, <2>3, <2>4 DEF Main
<1>2. CASE SpuriousWakeup \/ CallerStops
  BY <1>2 DEF SpuriousWakeup, CallerStops, serverVars
<1>3. ASSUME NEW s \in Server, Worker(s) PROVE SuccessIsEarned'
  <2> USE DEF Stopping
  <2>1. CASE RunServerStart(s)
    BY <2>1 DEF RunServerStart, Start, UnlockResult, serverVars
  <2>2. CASE CheckCancel(s) \/ PollResult(s) \/ CheckTimeout(s)
    <3> USE DEF Break, Continue, UnlockResults, serverVars
    <3>1. CASE CheckCancel(s)
      BY <3>1 DEF CheckCancel
    <3>2. CASE PollResult(s)
      BY <3>2 DEF PollResult
    <3>3. CASE CheckTimeout(s)
      BY <3>3 DEF CheckTimeout
    <3> QED BY <2>2, <3>1, <3>2, <3>3
  <2>3. CASE StopServer(s) \/ StopJoin(s)
    BY <2>3 DEF StopServer, StopSignal, StopJoin, serverVars
  <2>4. CASE CollectResult(s)
    BY <2>4 DEF CollectResult, UnlockResult, UnlockResults, WorkersOfServers,
       serverVars
  <2>5. CASE StoreSuccess(s) \/ StoreLast(s)
    BY <2>5 DEF StoreSuccess, StoreLast, serverVars
  <2>6. CASE AddCompleted(s) \/ RecheckSuccess(s)
    BY <2>6 DEF AddCompleted, RecheckSuccess, serverVars
  <2>7. CASE CheckLast(s) \/ Notify(s)
    <3>1. NoResult.state = "UNKNOWN"
      BY DEF NoResult, UnlockResult
    <3>2. UNCHANGED <<servers, currentResult, result, serverVars>>
      BY <2>7 DEF CheckLast, Notify
    <3>3. \/ UNCHANGED serverResult /\ workerPc' = [workerPc EXCEPT ![s] = "recheck"]
          \/ Return(s)
      BY <2>7 DEF CheckLast, Notify
    <3>4. workerPc[s] \notin Stopping
      BY <2>7 DEF CheckLast, Notify
    <3> QED BY <3>1, <3>2, <3>3, <3>4 DEF Return, serverVars
  <2> QED BY <1>3, <2>1, <2>2, <2>3, <2>4, <2>5, <2>6, <2>7 DEF Worker
<1>4. ASSUME NEW s \in Server, Connection(s) PROVE SuccessIsEarned'
  <2>1. ASSUME NEW verdict \in Outcome, Conclude(s, verdict)
        PROVE  SuccessIsEarned'
    BY <1>4, <2>1 DEF Connection, Conclude, handlerVars
  <2>2. ASSUME NEW token \in Answer, StoreResponse(s, token)
        PROVE  SuccessIsEarned'
    BY <1>4, <2>2 DEF Connection, StoreResponse, handlerVars
  <2>3. CASE Connect(s) \/ Finish(s) \/ HangUp(s) \/ End(s)
    BY <1>4, <2>3 DEF Connection, Connect, Finish, HangUp, End, handlerVars
  <2> QED BY <1>4, <2>1, <2>2, <2>3 DEF Connection, ServerThread
<1>5. ASSUME NEW s \in Server, TimeoutElapses(s) PROVE SuccessIsEarned'
  BY <1>5 DEF TimeoutElapses, serverVars
<1>6. CASE UNCHANGED vars
  BY <1>6 DEF vars, handlerVars, serverVars
<1> QED BY <1>1, <1>2, <1>3, <1>4, <1>5, <1>6 DEF Next

LEMMA NotifyStep ==
  ASSUME TypeOK, WorkersOfServers, CountIsExact, MutexIsMains, SomeoneNotifies,
         [Next]_vars
  PROVE  SomeoneNotifies'
<1> USE DEF SomeoneNotifies, TypeOK, Goto
<1>1. CASE Main
  <2>1. CASE CheckPredicate
    <3>1. CASE AllCompleted
      BY <2>1, <3>1 DEF CheckPredicate
    <3>2. CASE ~AllCompleted
      <4>1. PICK s \in servers : workerPc[s] \notin Counted
        BY <3>2, AllCountedIffCompleted
      <4> QED BY <2>1, <4>1 DEF CheckPredicate, Counted
    <3> QED BY <3>1, <3>2
  <2>2. CASE SpawnWorker \/ LockToWait \/ Block
    BY <2>2 DEF SpawnWorker, LockToWait, Block
  <2>3. CASE CreateServers \/ LoadResult \/ JoinWorkers \/ DeleteServers
    BY <2>3 DEF CreateServers, LoadResult, JoinWorkers, DeleteServers
  <2> QED BY <1>1, <2>1, <2>2, <2>3 DEF Main
<1>2. CASE SpuriousWakeup \/ CallerStops
  BY <1>2 DEF SpuriousWakeup, CallerStops
<1>3. ASSUME NEW s \in Server, Worker(s) PROVE SomeoneNotifies'
  <2>1. s \in servers
    BY <1>3 DEF WorkersOfServers, Worker, RunServerStart, CheckCancel, PollResult,
       CheckTimeout, StopServer, StopJoin, CollectResult, AddCompleted,
       StoreSuccess, CheckLast, RecheckSuccess, StoreLast, Notify
  <2>2. CASE Notify(s)
    BY <2>2 DEF Notify, MutexIsMains
  <2>3. CASE CheckLast(s)
    <3>1. CASE AllCompleted
      BY <2>1, <2>3, <3>1 DEF CheckLast
    <3>2. CASE ~AllCompleted
      <4>1. PICK r \in servers : workerPc[r] \notin Counted
        BY <3>2, AllCountedIffCompleted
      <4>2. workerPc'[r] = workerPc[r]
        BY <2>3, <4>1 DEF CheckLast, Return, Counted, Publishing
      <4> QED BY <2>3, <4>1, <4>2 DEF CheckLast, Counted
    <3> QED BY <3>1, <3>2
  <2>4. CASE ~Notify(s) /\ ~CheckLast(s)
    <3>1. UNCHANGED <<mainPc, notified, servers>> /\ workerPc'[s] # "done"
      BY <1>3, <2>4 DEF Worker, RunServerStart, CheckCancel, PollResult,
         CheckTimeout, Break, Continue, StopServer, StopJoin, CollectResult,
         AddCompleted, StoreSuccess, RecheckSuccess, StoreLast
    <3> QED BY <2>1, <3>1
  <2> QED BY <2>2, <2>3, <2>4
<1>4. ASSUME NEW s \in Server, Connection(s) \/ TimeoutElapses(s)
      PROVE  SomeoneNotifies'
  BY <1>4 DEF Connection, TimeoutElapses, handlerVars
<1>5. CASE UNCHANGED vars
  BY <1>5 DEF vars, handlerVars
<1> QED BY <1>1, <1>2, <1>3, <1>4, <1>5 DEF Next

LEMMA PublishStep ==
  ASSUME TypeOK, WorkersOfServers, CountIsExact, StateIsKnown, SomeonePublishes,
         [Next]_vars
  PROVE  SomeonePublishes'
<1> USE DEF SomeonePublishes, TypeOK, Goto, Counted, Publishing
<1>1. CASE Main
  <2>1. CASE CreateServers
    <3>1. \A s \in Server : workerPc'[s] = "unborn"
      BY <2>1 DEF CreateServers, WorkersOfServers
    <3> QED BY <2>1, <3>1 DEF CreateServers
  <2>2. CASE SpawnWorker
    BY <2>2 DEF SpawnWorker
  <2>3. CASE LockToWait \/ CheckPredicate \/ Block \/ LoadResult \/ JoinWorkers
             \/ DeleteServers
    BY <2>3 DEF LockToWait, CheckPredicate, Block, LoadResult, JoinWorkers,
       DeleteServers
  <2> QED BY <1>1, <2>1, <2>2, <2>3 DEF Main
<1>2. CASE SpuriousWakeup \/ CallerStops
  BY <1>2 DEF SpuriousWakeup, CallerStops
<1>3. ASSUME NEW s \in Server, Worker(s) PROVE SomeonePublishes'
  <2>1. s \in servers
    BY <1>3 DEF WorkersOfServers, Worker, RunServerStart, CheckCancel, PollResult,
       CheckTimeout, StopServer, StopJoin, CollectResult, AddCompleted,
       StoreSuccess, CheckLast, RecheckSuccess, StoreLast, Notify
  <2>2. CASE StoreSuccess(s) \/ StoreLast(s)
    BY <2>2 DEF StoreSuccess, StoreLast, StateIsKnown
  <2>3. CASE CheckLast(s)
    BY <2>1, <2>3, AllCountedIffCompleted DEF CheckLast, Return
  <2>4. CASE RecheckSuccess(s)
    BY <2>1, <2>4 DEF RecheckSuccess
  <2>5. CASE AddCompleted(s)
    BY <2>1, <2>5 DEF AddCompleted
  <2>6. CASE Notify(s)
    BY <2>1, <2>6 DEF Notify, Return
  <2>7. CASE \/ RunServerStart(s) \/ CheckCancel(s) \/ PollResult(s)
             \/ CheckTimeout(s) \/ StopServer(s) \/ StopJoin(s) \/ CollectResult(s)
    <3>1. UNCHANGED servers /\ workerPc'[s] \notin Counted
      BY <2>7 DEF RunServerStart, CheckCancel, PollResult, CheckTimeout, Break,
         Continue, StopServer, StopJoin, CollectResult
    <3> QED BY <2>1, <3>1
  <2> QED BY <1>3, <2>2, <2>3, <2>4, <2>5, <2>6, <2>7 DEF Worker
<1>4. ASSUME NEW s \in Server, Connection(s) \/ TimeoutElapses(s)
      PROVE  SomeonePublishes'
  BY <1>4 DEF Connection, TimeoutElapses, handlerVars
<1>5. CASE UNCHANGED vars
  BY <1>5 DEF vars, handlerVars
<1> QED BY <1>1, <1>2, <1>3, <1>4, <1>5 DEF Next

-----------------------------------------------------------------------------
(* The invariant and what follows from it.                                   *)

LEMMA Inductive == Spec => []IInv
<1>1. Init => IInv
  <2> SUFFICES ASSUME Init PROVE IInv
    OBVIOUS
  <2>1. TypeOK
    BY TypeInit
  <2>2. CountIsExact
    <3>1. CountedServers = {}
      BY DEF Init, CountedServers
    <3> QED BY <3>1, FS_EmptySet DEF Init, CountIsExact
  <2>3. NoResult.state = "UNKNOWN"
    BY DEF NoResult, UnlockResult
  <2>4. SuccessIsEarned
    BY <2>3 DEF Init, ServerInit, SuccessIsEarned, Genuine
  <2>5. /\ WorkersOfServers /\ MutexIsMains /\ StateIsKnown
        /\ ReadAfterAllPolled /\ SomeoneNotifies /\ SomeonePublishes
    BY DEF Init, WorkersOfServers, MutexIsMains, StateIsKnown, Stopping,
       Publishing, ReadAfterAllPolled, SomeoneNotifies, SomeonePublishes
  <2>6. StopIsSafe
    BY DEF Init, ServerInit, StopIsSafe, PollLoop, Stopping
  <2> QED BY <2>1, <2>2, <2>4, <2>5, <2>6 DEF IInv
<1>2. IInv /\ [Next]_vars => IInv'
  BY TypeStep, ServersStep, MutexStep, CountStep, StateStep, StopStep, ReadStep,
     SuccessStep, NotifyStep, PublishStep DEF IInv
<1> QED BY <1>1, <1>2, PTL DEF Spec

\* GetResult reads the shared result only after every device was polled to its
\* end, for any number of devices.
THEOREM ReadsAfterAllPolled == Spec => []ReadAfterAllPolled
<1>1. IInv => ReadAfterAllPolled
  BY DEF IInv
<1> QED BY <1>1, Inductive, PTL

\* A success that GetResult returns was answered by the device it names, and
\* carries the password of that answer.
THEOREM ResultsAreGenuine == Spec => []ResultIsGenuine
<1>1. IInv => ResultIsGenuine
  BY DEF IInv, SuccessIsEarned, Genuine, ResultIsGenuine
<1> QED BY <1>1, Inductive, PTL

\* RunServer reads the response when no thread is left that could write it.
THEOREM ResponsesAreQuietWhenRead == Spec => []ResponseIsQuietWhenRead
<1>1. IInv => ResponseIsQuietWhenRead
  BY DEF IInv, StopIsSafe, ResponseIsQuietWhenRead
<1> QED BY <1>1, Inductive, PTL

\* The main thread does not sleep through the end: when every worker is done,
\* it is awake or the notification has reached it.
NoLostWakeup ==
    (servers # {} /\ \A s \in servers : workerPc[s] = "done") =>
        (mainPc = "asleep" => notified)

\* The notification that ends GetResult's wait is never lost, in whatever order
\* the workers finish.
THEOREM WakeupsAreNotLost == Spec => []NoLostWakeup
<1>1. IInv => NoLostWakeup
  BY DEF IInv, SomeoneNotifies, NoLostWakeup
<1> QED BY <1>1, Inductive, PTL

\* When the workers are done, they have left a verdict.
THEOREM VerdictsArePublished == Spec => []VerdictIsPublished
<1>1. IInv => VerdictIsPublished
  BY DEF IInv, SomeonePublishes, VerdictIsPublished, Counted
<1> QED BY <1>1, Inductive, PTL

-----------------------------------------------------------------------------
(* The life of workers and threads, on top of IInv.                          *)

\* The main thread waits only when it has made all its workers.
AllSpawned ==
    mainPc \notin {"enumerate", "spawn"} => \A s \in servers : workerPc[s] # "unborn"

\* A thread is made by its worker, and its connection is quiet once the worker
\* has its result.
ThreadsFollowWorkers ==
    \A s \in Server :
        /\ workerPc[s] \in {"unborn", "start"} => m_AcceptThread[s] = "none"
        /\ workerPc[s] \in {"add"} \cup Counted =>
               m_AcceptThread[s] \in {"none", "leaving", "ended"}

\* Whoever is joined is gone.
AllJoined ==
    /\ mainPc \in {"delete", "done"} => \A s \in servers : workerPc[s] = "done"
    /\ mainPc = "done" => Talking = {}

\* A result names no device but those that were asked.
DevicesWereAsked ==
    /\ \A s \in Server : serverResult[s].device \in servers \cup {NoServer}
    /\ currentResult.device \in servers \cup {NoServer}

LivesInv == AllSpawned /\ ThreadsFollowWorkers /\ AllJoined /\ DevicesWereAsked

LEMMA SpawnedStep ==
    ASSUME IInv, AllSpawned, [Next]_vars PROVE AllSpawned'
<1> USE DEF AllSpawned, Goto
<1>0. /\ workerPc \in [Server -> WorkerPcs] /\ servers \subseteq Server
      /\ WorkersOfServers
  BY DEF IInv, TypeOK
<1>1. CASE Main
  <2>1. CASE CreateServers \/ SpawnWorker
    BY <2>1 DEF CreateServers, SpawnWorker
  <2>2. CASE LockToWait \/ CheckPredicate \/ Block
    BY <2>2 DEF LockToWait, CheckPredicate, Block
  <2>3. CASE LoadResult \/ JoinWorkers \/ DeleteServers
    BY <2>3 DEF LoadResult, JoinWorkers, DeleteServers
  <2> QED BY <1>1, <2>1, <2>2, <2>3 DEF Main
<1>2. CASE SpuriousWakeup \/ CallerStops
  BY <1>2 DEF SpuriousWakeup, CallerStops
<1>3. ASSUME NEW s \in Server, Worker(s) PROVE AllSpawned'
  <2>1. UNCHANGED <<mainPc, servers>>
    BY <1>3 DEF Worker, RunServerStart, CheckCancel, PollResult, CheckTimeout,
       StopServer, StopJoin, CollectResult, AddCompleted, StoreSuccess, CheckLast,
       RecheckSuccess, StoreLast, Notify
  <2>2. \A r \in Server : workerPc'[r] = "unborn" => workerPc[r] = "unborn"
    <3>1. CASE RunServerStart(s) \/ StopServer(s) \/ StopJoin(s) \/ CollectResult(s)
      BY <1>0, <3>1 DEF RunServerStart, StopServer, StopJoin, CollectResult
    <3>2. CASE CheckCancel(s) \/ PollResult(s) \/ CheckTimeout(s)
      BY <1>0, <3>2 DEF CheckCancel, PollResult, CheckTimeout, Break, Continue
    <3>3. CASE AddCompleted(s) \/ StoreSuccess(s) \/ CheckLast(s)
      BY <1>0, <3>3 DEF AddCompleted, StoreSuccess, CheckLast, Return
    <3>4. CASE RecheckSuccess(s) \/ StoreLast(s) \/ Notify(s)
      BY <1>0, <3>4 DEF RecheckSuccess, StoreLast, Notify, Return
    <3> QED BY <1>3, <3>1, <3>2, <3>3, <3>4 DEF Worker
  <2> QED BY <1>0, <2>1, <2>2
<1>4. ASSUME NEW s \in Server, Connection(s) \/ TimeoutElapses(s) PROVE AllSpawned'
  BY <1>4 DEF Connection, TimeoutElapses, handlerVars
<1>5. CASE UNCHANGED vars
  BY <1>5 DEF vars, handlerVars
<1> QED BY <1>1, <1>2, <1>3, <1>4, <1>5 DEF Next

LEMMA ThreadsStep ==
    ASSUME IInv, ThreadsFollowWorkers, [Next]_vars PROVE ThreadsFollowWorkers'
<1> USE DEF ThreadsFollowWorkers, Goto
<1>0. /\ workerPc \in [Server -> WorkerPcs]
      /\ m_AcceptThread \in
             [Server -> {"none", "connecting", "connected", "leaving", "ended"}]
      /\ StopIsSafe
  BY DEF IInv, TypeOK, ServerTypeOK
<1>1. CASE Main
  <2>1. CASE SpawnWorker
    BY <1>0, <2>1 DEF SpawnWorker, serverVars, Counted, Publishing
  <2>2. CASE ~SpawnWorker
    BY <1>1, <2>2 DEF Main, CreateServers, LockToWait, CheckPredicate, Block,
       LoadResult, JoinWorkers, DeleteServers, serverVars
  <2> QED BY <2>1, <2>2
<1>2. CASE SpuriousWakeup \/ CallerStops
  BY <1>2 DEF SpuriousWakeup, CallerStops, serverVars
<1>3. ASSUME NEW s \in Server, Worker(s) PROVE ThreadsFollowWorkers'
  <2> USE DEF Counted, Publishing
  <2>1. CASE RunServerStart(s)
    BY <1>0, <2>1 DEF RunServerStart, Start, serverVars
  <2>2. CASE CheckCancel(s) \/ PollResult(s) \/ CheckTimeout(s)
    BY <1>0, <2>2 DEF CheckCancel, PollResult, CheckTimeout, Break, Continue,
       serverVars
  <2>3. CASE StopServer(s) \/ StopJoin(s)
    BY <1>0, <2>3 DEF StopServer, StopSignal, StopJoin, serverVars
  <2>4. CASE CollectResult(s)
    BY <1>0, <2>4 DEF CollectResult, StopIsSafe, serverVars
  <2>5. CASE AddCompleted(s) \/ StoreSuccess(s) \/ CheckLast(s)
    BY <1>0, <2>5 DEF AddCompleted, StoreSuccess, CheckLast, Return, serverVars
  <2>6. CASE RecheckSuccess(s) \/ StoreLast(s) \/ Notify(s)
    BY <1>0, <2>6 DEF RecheckSuccess, StoreLast, Notify, Return, serverVars
  <2> QED BY <1>3, <2>1, <2>2, <2>3, <2>4, <2>5, <2>6 DEF Worker
<1>4. ASSUME NEW s \in Server, Connection(s) PROVE ThreadsFollowWorkers'
  BY <1>0, <1>4 DEF Connection, ServerThread, Connect, StoreResponse, Conclude,
     Finish, HangUp, End, handlerVars
<1>5. ASSUME NEW s \in Server, TimeoutElapses(s) PROVE ThreadsFollowWorkers'
  BY <1>5 DEF TimeoutElapses, serverVars
<1>6. CASE UNCHANGED vars
  BY <1>6 DEF vars, handlerVars, serverVars
<1> QED BY <1>1, <1>2, <1>3, <1>4, <1>5, <1>6 DEF Next

\* Threads that were made belong to a device that was asked, and only the worker
\* of that device makes one.
LEMMA ThreadsAreOfServers ==
    ASSUME IInv, ThreadsFollowWorkers PROVE Talking \subseteq servers
BY DEF IInv, WorkersOfServers, ThreadsFollowWorkers, Talking

LEMMA JoinedStep ==
    ASSUME IInv, LivesInv, [Next]_vars PROVE AllJoined'
<1> USE DEF AllJoined, Goto
<1>0. /\ workerPc \in [Server -> WorkerPcs] /\ servers \subseteq Server
      /\ AllJoined /\ WorkersOfServers /\ Talking \subseteq servers
      /\ m_AcceptThread \in
             [Server -> {"none", "connecting", "connected", "leaving", "ended"}]
  BY ThreadsAreOfServers DEF IInv, TypeOK, ServerTypeOK, LivesInv
<1>a. UNCHANGED m_AcceptThread => UNCHANGED Talking
  BY DEF Talking
<1>1. CASE Main
  <2>1. CASE CreateServers
    BY <1>0, <2>1 DEF CreateServers, WorkersOfServers, serverVars, Talking
  <2>2. CASE SpawnWorker \/ LockToWait \/ CheckPredicate \/ Block \/ LoadResult
    BY <2>2 DEF SpawnWorker, LockToWait, CheckPredicate, Block, LoadResult
  <2>3. CASE JoinWorkers
    BY <2>3 DEF JoinWorkers
  <2>4. CASE DeleteServers
    BY <1>0, <2>4 DEF DeleteServers, Joinable, Talking, serverVars
  <2> QED BY <1>1, <2>1, <2>2, <2>3, <2>4 DEF Main
<1>2. CASE SpuriousWakeup \/ CallerStops
  BY <1>0, <1>a, <1>2 DEF SpuriousWakeup, CallerStops, serverVars
<1>3. ASSUME NEW s \in Server, Worker(s) PROVE AllJoined'
  <2>1. workerPc[s] \notin {"unborn", "done"} /\ UNCHANGED <<mainPc, servers>>
    BY <1>3 DEF Worker, RunServerStart, CheckCancel, PollResult, CheckTimeout,
       StopServer, StopJoin, CollectResult, AddCompleted, StoreSuccess, CheckLast,
       RecheckSuccess, StoreLast, Notify
  <2>2. mainPc \notin {"delete", "done"}
    BY <1>0, <2>1 DEF WorkersOfServers
  <2> QED BY <2>1, <2>2
<1>4. ASSUME NEW s \in Server, Connection(s) PROVE AllJoined'
  <2>1. s \in Talking /\ UNCHANGED handlerVars
    BY <1>4 DEF Connection, ServerThread, Connect, StoreResponse, Conclude, Finish,
       HangUp, End, Talking
  <2> QED BY <1>0, <2>1 DEF handlerVars
<1>5. ASSUME NEW s \in Server, TimeoutElapses(s) PROVE AllJoined'
  BY <1>0, <1>a, <1>5 DEF TimeoutElapses, serverVars
<1>6. CASE UNCHANGED vars
  BY <1>0, <1>a, <1>6 DEF vars, handlerVars, serverVars
<1> QED BY <1>1, <1>2, <1>3, <1>4, <1>5, <1>6 DEF Next

LEMMA AskedStep ==
    ASSUME IInv, DevicesWereAsked, [Next]_vars PROVE DevicesWereAsked'
<1> USE DEF DevicesWereAsked, Goto
<1>0. /\ serverResult \in [Server -> UnlockResults] /\ WorkersOfServers
      /\ servers \subseteq Server
  BY DEF IInv, TypeOK
<1>1. CASE Main
  <2>1. CASE CreateServers
    BY <1>0, <2>1 DEF CreateServers, WorkersOfServers
  <2>2. CASE ~CreateServers
    BY <1>1, <2>2 DEF Main, SpawnWorker, LockToWait, CheckPredicate, Block,
       LoadResult, JoinWorkers, DeleteServers
  <2> QED BY <2>1, <2>2
<1>2. CASE SpuriousWakeup \/ CallerStops
  BY <1>2 DEF SpuriousWakeup, CallerStops
<1>3. ASSUME NEW s \in Server, Worker(s) PROVE DevicesWereAsked'
  <2>1. s \in servers /\ UNCHANGED servers
    BY <1>0, <1>3 DEF WorkersOfServers, Worker, RunServerStart, CheckCancel,
       PollResult, CheckTimeout, StopServer, StopJoin, CollectResult, AddCompleted,
       StoreSuccess, CheckLast, RecheckSuccess, StoreLast, Notify
  <2>2. CASE RunServerStart(s)
    BY <1>0, <2>1, <2>2 DEF RunServerStart, UnlockResult
  <2>3. CASE CheckCancel(s) \/ PollResult(s) \/ CheckTimeout(s)
    <3>1. serverResult'[s].device = serverResult[s].device
      BY <1>0, <2>3 DEF CheckCancel, PollResult, CheckTimeout, Break, Continue,
         UnlockResults
    <3>2. \A r \in Server \ {s} : serverResult'[r] = serverResult[r]
      BY <1>0, <2>3 DEF CheckCancel, PollResult, CheckTimeout, Break, Continue
    <3>3. UNCHANGED currentResult
      BY <2>3 DEF CheckCancel, PollResult, CheckTimeout
    <3> QED BY <2>1, <3>1, <3>2, <3>3
  <2>4. CASE CollectResult(s)
    BY <1>0, <2>1, <2>4 DEF CollectResult, UnlockResult
  <2>5. CASE StopServer(s) \/ StopJoin(s) \/ AddCompleted(s) \/ RecheckSuccess(s)
    BY <2>5 DEF StopServer, StopJoin, AddCompleted, RecheckSuccess
  <2>6. CASE StoreSuccess(s) \/ StoreLast(s)
    BY <2>1, <2>6 DEF StoreSuccess, StoreLast
  <2>7. CASE CheckLast(s) \/ Notify(s)
    <3>1. NoResult.device = NoServer
      BY DEF NoResult, UnlockResult
    <3>2. UNCHANGED serverResult \/ Return(s)
      BY <2>7 DEF CheckLast, Notify
    <3>3. UNCHANGED currentResult
      BY <2>7 DEF CheckLast, Notify
    <3> QED BY <1>0, <2>1, <3>1, <3>2, <3>3 DEF Return
  <2> QED BY <1>3, <2>2, <2>3, <2>4, <2>5, <2>6, <2>7 DEF Worker
<1>4. ASSUME NEW s \in Server, Connection(s) \/ TimeoutElapses(s)
      PROVE  DevicesWereAsked'
  BY <1>4 DEF Connection, TimeoutElapses, handlerVars
<1>5. CASE UNCHANGED vars
  BY <1>5 DEF vars, handlerVars
<1> QED BY <1>1, <1>2, <1>3, <1>4, <1>5 DEF Next

LEMMA LivesInductive == Spec => [](IInv /\ LivesInv)
<1>1. Init => LivesInv
  BY DEF Init, ServerInit, LivesInv, AllSpawned, ThreadsFollowWorkers, AllJoined,
     DevicesWereAsked, Counted, Publishing, NoResult, UnlockResult
<1>2. IInv /\ LivesInv /\ [Next]_vars => LivesInv'
  BY SpawnedStep, ThreadsStep, JoinedStep, AskedStep DEF LivesInv
<1> QED BY <1>1, <1>2, Inductive, PTL DEF Spec

\* Until GetResult returns one of its threads can go on, or it waits for the thread
\* of a phone; the clean-up alone can wait for one that waits for it.
THEOREM NobodyIsStuck == Spec => []NobodyWaitsForGood
<1>1. ASSUME IInv, AllSpawned PROVE NobodyWaitsForGood
  <2> SUFFICES ASSUME mainPc # "done", ~MainReady, \A s \in servers : ~WorkerReady(s)
               PROVE  \/ \E s \in servers : ~Joinable(s) /\ workerPc[s] = "stopJoin"
                      \/ mainPc = "delete" /\ \E s \in servers : ~Joinable(s)
                      \/ mainPc = "join" /\ \E s \in servers : workerPc[s] = "notify"
    BY DEF NobodyWaitsForGood
  <2>1. mainPc \in {"asleep", "join", "delete"} /\ (mainPc = "asleep" => mutex = "free")
    BY <1>1 DEF IInv, TypeOK, MainPcs, MainReady, MutexIsMains
  <2>2. \A s \in servers : workerPc[s] \in {"stopJoin", "notify", "done"}
    BY <1>1, <2>1 DEF AllSpawned, WorkerReady
  <2>3. CASE mainPc = "asleep"
    <3>1. PICK s \in servers : workerPc[s] # "done"
      BY <1>1, <2>1, <2>3 DEF MainReady, IInv, SomeoneNotifies
    <3> QED BY <2>1, <2>2, <2>3, <3>1 DEF WorkerReady
  <2>4. CASE mainPc = "join"
    <3>1. PICK s \in servers : workerPc[s] # "done"
      BY <2>4 DEF MainReady
    <3> QED BY <2>2, <2>4, <3>1 DEF WorkerReady
  <2>5. CASE mainPc = "delete"
    BY <2>5 DEF MainReady
  <2> QED BY <2>1, <2>3, <2>4, <2>5
<1>2. IInv /\ LivesInv => NobodyWaitsForGood
  BY <1>1 DEF LivesInv
<1> QED BY <1>2, LivesInductive, PTL

-----------------------------------------------------------------------------
(* The contract below, and the abstract specification above.                 *)

LEMMA StepOfContract == ASSUME [Next]_vars PROVE [ServerNext]_serverVars
<1>1. CASE Main \/ SpuriousWakeup \/ CallerStops
  BY <1>1 DEF Main, CreateServers, SpawnWorker, LockToWait, CheckPredicate, Block,
     LoadResult, JoinWorkers, DeleteServers, SpuriousWakeup, CallerStops
<1>2. ASSUME NEW s \in Server, Worker(s)
      PROVE  Start(s) \/ StopSignal(s) \/ UNCHANGED serverVars
  BY <1>2 DEF Worker, RunServerStart, CheckCancel, PollResult, CheckTimeout,
     StopServer, StopJoin, CollectResult, AddCompleted, StoreSuccess, CheckLast,
     RecheckSuccess, StoreLast, Notify
<1>3. ASSUME NEW s \in Server, Connection(s) \/ TimeoutElapses(s)
      PROVE  ServerThread(s) \/ UNCHANGED serverVars
  BY <1>3 DEF Connection, TimeoutElapses
<1>4. CASE UNCHANGED vars
  BY <1>4 DEF vars
<1> QED BY <1>1, <1>2, <1>3, <1>4 DEF Next, ServerNext

\* GetResult and its workers use their connections as the contract has it, so what
\* follows from the contract holds of every connection of a request.
THEOREM HandlerKeepsContract == Spec => ServerSpec
<1>1. Init => ServerInit
  BY DEF Init
<1>2. [Next]_vars => [ServerNext]_serverVars
  BY StepOfContract
<1> QED BY <1>1, <1>2, PTL DEF Spec, ServerSpec

\* The verdict a worker polled, and the answer it copies, are not changed any more.
THEOREM PolledVerdictsAreFinal ==
    Spec => []VerdictFollowsResponse /\ VerdictsAreFinal
BY HandlerKeepsContract, VerdictsFollowResponses, ServerVerdictsAreFinal, PTL

\* A worker at work means that the request is open.
LEMMA OpenWhileWorking ==
    ASSUME IInv, LivesInv, NEW s \in Server, workerPc[s] \notin {"unborn"} \cup Counted
    PROVE  Stage = "asking" /\ s \in servers
<1>1. s \in servers
  BY DEF IInv, WorkersOfServers
<1>2. mainPc \notin {"enumerate", "join", "delete", "done"}
  BY <1>1 DEF IInv, WorkersOfServers, ReadAfterAllPolled, LivesInv, AllJoined, Counted
<1> QED BY <1>1, <1>2 DEF Stage

LEMMA MainRefines ==
    ASSUME IInv, LivesInv, Main PROVE [Request!RequestNext]_(Request!requestVars)
<1> USE DEF Request!requestVars, Request!RequestNext
<1>0. UNCHANGED serverVars => UNCHANGED <<Talking, Approved>>
  BY DEF serverVars, Talking, Approved
<1>1. CASE CreateServers
  <2>1. Request!Ask
    BY <1>0, <1>1 DEF CreateServers, Request!Ask, Stage, Request!NotPaired, UnlockResult
  <2> QED BY <2>1
<1>2. CASE SpawnWorker \/ LockToWait \/ CheckPredicate \/ Block
  BY <1>0, <1>2 DEF SpawnWorker, LockToWait, CheckPredicate, Block, Stage
<1>3. CASE LoadResult
  <2>1. Request!Decide
    <3>1. Stage = "asking" /\ Stage' = "decided"
      BY <1>3 DEF LoadResult, Stage
    <3>2. /\ result' = currentResult
          /\ UNCHANGED <<servers, Talking, Approved>>
      BY <1>0, <1>3 DEF LoadResult
    <3>3. currentResult \in Request!Results
      <4>1. currentResult \in UnlockResults
        BY DEF IInv, TypeOK
      <4>2. UnlockStates = Request!UnlockStates
        BY DEF UnlockStates, ThreadVerdicts, HandlerVerdicts, Request!UnlockStates,
           Request!ThreadVerdicts, Request!HandlerVerdicts
      <4> QED BY <4>1, <4>2 DEF Request!Results, UnlockResults
    <3>4. /\ currentResult.device \in servers \cup {NoServer}
          /\ currentResult.state = "SUCCESS" =>
                 currentResult.device \in Approved /\ currentResult.response = "ours"
      BY DEF LivesInv, DevicesWereAsked, IInv, TypeOK, SuccessIsEarned, Genuine, Approved
    <3> QED BY <3>1, <3>2, <3>3, <3>4 DEF Request!Decide
  <2> QED BY <2>1
<1>4. CASE JoinWorkers
  BY <1>0, <1>4 DEF JoinWorkers, Stage
<1>5. CASE DeleteServers
  <2>1. Talking = {}
    BY <1>5, ThreadsAreOfServers DEF LivesInv, DeleteServers, Joinable, Talking
  <2>2. Request!Return
    BY <1>0, <1>5, <2>1 DEF DeleteServers, Stage, Request!Return
  <2> QED BY <2>2
<1> QED BY <1>1, <1>2, <1>3, <1>4, <1>5 DEF Main

LEMMA WorkerRefines ==
    ASSUME IInv, LivesInv, NEW s \in Server, Worker(s)
    PROVE  [Request!RequestNext]_(Request!requestVars)
<1> USE DEF Request!requestVars, Request!RequestNext
<1>1. UNCHANGED <<mainPc, servers, result>>
  BY DEF Worker, RunServerStart, CheckCancel, PollResult, CheckTimeout, StopServer,
     StopJoin, CollectResult, AddCompleted, StoreSuccess, CheckLast, RecheckSuccess,
     StoreLast, Notify
<1>2. UNCHANGED Stage
  BY <1>1 DEF Stage
<1>3. CASE workerPc[s] = "start" /\ Start(s)
  <2>1. Stage = "asking" /\ s \in servers \ Talking
    BY <1>3, OpenWhileWorking DEF Counted, Publishing, Start, Talking
  <2>2. Talking' = Talking \cup {s} /\ UNCHANGED Approved
    BY <1>3 DEF Start, Talking, Approved, IInv, TypeOK, ServerTypeOK
  <2> QED BY <1>1, <1>2, <2>1, <2>2 DEF Request!Talk
<1>4. CASE UNCHANGED <<m_AcceptThread, m_UnlockState>>
  BY <1>1, <1>2, <1>4 DEF Talking, Approved
<1> QED BY <1>3, <1>4
    DEF Worker, RunServerStart, CheckCancel, PollResult, CheckTimeout, StopServer,
        StopSignal, StopJoin, CollectResult, AddCompleted, StoreSuccess, CheckLast,
        RecheckSuccess, StoreLast, Notify, serverVars

LEMMA ConnectionRefines ==
    ASSUME IInv, LivesInv, ContractIInv, NEW s \in Server, Connection(s)
    PROVE  [Request!RequestNext]_(Request!requestVars)
<1> USE DEF Request!requestVars, Request!RequestNext
<1>1. UNCHANGED <<Stage, servers, result, workerPc>>
  BY DEF Connection, handlerVars, Stage
<1>2. /\ m_AcceptThread \in
             [Server -> {"none", "connecting", "connected", "leaving", "ended"}]
      /\ m_UnlockState \in [Server -> {"UNKNOWN"} \cup Outcome]
  BY DEF IInv, TypeOK, ServerTypeOK
<1>3. CASE Connect(s) \/ Finish(s) \/ HangUp(s)
  BY <1>1, <1>2, <1>3 DEF Connect, Finish, HangUp, Talking, Approved
<1>4. CASE \E token \in Answer : StoreResponse(s, token)
  BY <1>1, <1>4 DEF StoreResponse, Talking, Approved
<1>5. ASSUME NEW verdict \in Outcome, Conclude(s, verdict)
      PROVE  [Request!RequestNext]_(Request!requestVars)
  <2>1. UNCHANGED Talking
    BY <1>5 DEF Conclude, Talking
  <2>2. CASE verdict = "SUCCESS"
    <3>1. m_AcceptThread[s] = "connected"
      BY <1>5, <2>2 DEF Conclude, ContractIInv, VerdictFollowsResponse
    <3>2. Stage = "asking"
      BY <3>1, OpenWhileWorking DEF LivesInv, ThreadsFollowWorkers
    <3>3. s \in Talking \ Approved /\ Approved' = Approved \cup {s}
      BY <1>2, <1>5, <2>2, <3>1 DEF Conclude, Talking, Approved
    <3> QED BY <1>1, <2>1, <3>2, <3>3 DEF Request!Approve
  <2>3. CASE verdict # "SUCCESS"
    <3>1. UNCHANGED Approved
      BY <1>2, <1>5, <2>3 DEF Conclude, Approved
    <3> QED BY <1>1, <2>1, <3>1
  <2> QED BY <2>2, <2>3
<1>6. CASE End(s)
  <2>1. s \in Talking /\ Talking' = Talking \ {s} /\ UNCHANGED Approved
    BY <1>2, <1>6 DEF End, Talking, Approved
  <2>2. mainPc \notin {"enumerate", "done"}
    BY <2>1, ThreadsAreOfServers DEF LivesInv, AllJoined, IInv, WorkersOfServers
  <2>3. Stage \in {"asking", "decided"}
    BY <2>2 DEF Stage
  <2> QED BY <1>1, <2>1, <2>3 DEF Request!Leave
<1> QED BY <1>3, <1>4, <1>5, <1>6 DEF Connection, ServerThread

LEMMA RequestStep ==
    ASSUME IInv, LivesInv, ContractIInv, [Next]_vars
    PROVE  [Request!RequestNext]_(Request!requestVars)
<1> USE DEF Request!requestVars
<1>1. CASE Main
  BY <1>1, MainRefines
<1>2. CASE SpuriousWakeup \/ CallerStops
  BY <1>2 DEF SpuriousWakeup, CallerStops, Stage, Talking, Approved, serverVars
<1>3. ASSUME NEW s \in Server, Worker(s)
      PROVE  [Request!RequestNext]_(Request!requestVars)
  BY <1>3, WorkerRefines
<1>4. ASSUME NEW s \in Server, Connection(s)
      PROVE  [Request!RequestNext]_(Request!requestVars)
  BY <1>4, ConnectionRefines
<1>5. ASSUME NEW s \in Server, TimeoutElapses(s)
      PROVE  [Request!RequestNext]_(Request!requestVars)
  BY <1>5 DEF TimeoutElapses, Stage, Talking, Approved, serverVars
<1>6. CASE UNCHANGED vars
  BY <1>6 DEF vars, handlerVars, serverVars, Stage, Talking, Approved
<1> QED BY <1>1, <1>2, <1>3, <1>4, <1>5, <1>6 DEF Next

\* GetResult is an unlock that is decided once: what it returns was approved before
\* the decision, by a phone that was asked, and no thread outlives it.
THEOREM HandlerImplementsRequest == Spec => ImplementsRequest
<1>1. Init => Request!RequestInit
  BY DEF Init, ServerInit, Stage, Talking, Approved, NoResult, UnlockResult,
     Request!RequestInit, Request!Undecided
<1>2. IInv /\ LivesInv /\ ContractIInv /\ [Next]_vars
         => [Request!RequestNext]_(Request!requestVars)
  BY RequestStep
<1> QED BY <1>1, <1>2, LivesInductive, HandlerKeepsContract, ContractInductive, PTL
    DEF Spec, ImplementsRequest, Request!RequestSpec
=============================================================================
