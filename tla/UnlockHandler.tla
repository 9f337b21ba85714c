---------------------------- MODULE UnlockHandler ----------------------------
(* UnlockHandler::GetResult and RunServer                                    *)
(* (common-cpp/src/handler/UnlockHandler.cpp).                               *)
(*                                                                           *)
(* The main thread creates a connection per paired device, gives each a      *)
(* worker that starts, polls and stops it, waits on a condition variable     *)
(* until the workers have counted themselves into `completed', reads the     *)
(* result they agreed on and joins them.                                     *)
(*                                                                           *)
(* A step is one access to state another thread can touch.  The atomics, the *)
(* mutex inside AtomicUnlockResult, the mutex of the condition variable and  *)
(* the fields of the connection are all seen in the order of the steps.      *)
EXTENDS BaseUnlockServer, FiniteSets, Naturals

CONSTANTS NoServer,    \* the device of a result that names none
          PassesFlag   \* the caller hands over an isRunning flag: the Windows
                       \* listener does, pcbu_auth passes nullptr

ASSUME HandlerAssumption ==
    /\ IsFiniteSet(Server)
    /\ NoServer \notin Server
    /\ PassesFlag \in BOOLEAN

VARIABLES servers,        \* the connections GetResult created
          mainPc,         \* where GetResult is
          workerPc,       \* where the thread of each connection is
          serverResult,   \* the UnlockResult in the hands of each worker
          currentResult,  \* the AtomicUnlockResult they share
          completed,      \* the count of workers that have their result
          mutex,          \* the mutex of cv: "free" or held by "main"
          notified,       \* a notify_one reached the sleeping main thread
          result,         \* what GetResult returns
          isRunning,      \* the caller's flag (TRUE when it passed none)
          elapsed         \* PACKET_TIMEOUT ms have passed since startTime

handlerVars == <<servers, mainPc, workerPc, serverResult, currentResult,
                 completed, mutex, notified, result, isRunning, elapsed>>

vars == <<handlerVars, serverVars>>

-----------------------------------------------------------------------------
(* Results.  `response' stands for the password: which answer it came from.  *)

\* A slip: the password is left out of the result.
UnlockResultWithoutPassword(state, device, response) ==
    [state |-> state, device |-> device]

UnlockResult(state, device, response) ==
    [state |-> state, device |-> device, response |-> response]

NoResult == UnlockResult("UNKNOWN", NoServer, "none")

UnlockResults == [state : UnlockStates, device : Server \cup {NoServer},
                  response : {"none"} \cup Answer]

(* Program counters, in the order of the code.                               *)

PollLoop  == {"check", "poll", "timeout"}
Stopping  == {"stop", "stopJoin", "collect"}
Publishing == {"store", "last", "recheck", "storeLast", "notify"}
Counted   == Publishing \cup {"done"}     \* past completed.fetch_add

WorkerPcs == {"unborn", "start", "add"} \cup PollLoop \cup Stopping \cup Counted
MainPcs == {"enumerate", "spawn", "predicate", "block", "asleep",
            "load", "join", "delete", "done"}

TypeOK ==
    /\ ServerTypeOK
    /\ servers \subseteq Server
    /\ mainPc \in MainPcs
    /\ workerPc \in [Server -> WorkerPcs]
    /\ serverResult \in [Server -> UnlockResults]
    /\ currentResult \in UnlockResults
    /\ completed \in Nat
    /\ mutex \in {"free", "main"}
    /\ notified \in BOOLEAN
    /\ result \in UnlockResults
    /\ isRunning \in BOOLEAN
    /\ elapsed \in [Server -> BOOLEAN]

Init ==
    /\ ServerInit
    /\ servers = {}
    /\ mainPc = "enumerate"
    /\ workerPc = [s \in Server |-> "unborn"]
    /\ serverResult = [s \in Server |-> NoResult]
    /\ currentResult = NoResult
    /\ completed = 0
    /\ mutex = "free"
    /\ notified = FALSE
    /\ result = NoResult
    /\ isRunning = TRUE
    /\ elapsed = [s \in Server |-> FALSE]

Goto(s, pc) == workerPc' = [workerPc EXCEPT ![s] = pc]

\* The lambda returns; its serverResult goes with it.
Return(s) ==
    /\ Goto(s, "done")
    /\ serverResult' = [serverResult EXCEPT ![s] = NoResult]

-----------------------------------------------------------------------------
(* RunServer, in the worker of connection s.                                 *)

\* Start() succeeds, or it fails and the worker is left with START_ERROR.
RunServerStart(s) ==
    /\ workerPc[s] = "start"
    /\ \/ /\ Start(s)
          /\ Goto(s, "check")
          /\ UNCHANGED serverResult
       \/ /\ serverResult' = [serverResult EXCEPT ![s] =
                                 UnlockResult("START_ERROR", NoServer, "none")]
          /\ Goto(s, "add")
          /\ UNCHANGED serverVars
    /\ UNCHANGED <<servers, mainPc, currentResult, completed, mutex, notified,
                   result, isRunning, elapsed>>

\* The loop ends with `state'; it is reported and becomes the result's state.
Break(s, state) ==
    /\ serverResult' = [serverResult EXCEPT ![s].state = state]
    /\ elapsed' = [elapsed EXCEPT ![s] = FALSE]
    /\ Goto(s, "stop")

Continue(s, pc) == Goto(s, pc) /\ UNCHANGED <<serverResult, elapsed>>

\* A slip: the worker adopts the state it saw instead of CANCELED.
CheckCancelAdoptsState(s) ==
    /\ workerPc[s] = "check"
    /\ IF currentResult.state = "SUCCESS" \/ ~isRunning
         THEN Break(s, currentResult.state)
         ELSE Continue(s, "poll")
    /\ UNCHANGED <<servers, mainPc, currentResult, completed, mutex, notified,
                   result, isRunning, serverVars>>

\* A slip: only the caller's flag is looked at.
CheckCancelCallerOnly(s) ==
    /\ workerPc[s] = "check"
    /\ IF ~isRunning THEN Break(s, "CANCELED") ELSE Continue(s, "poll")
    /\ UNCHANGED <<servers, mainPc, currentResult, completed, mutex, notified,
                   result, isRunning, serverVars>>

\* Another device succeeded, or the caller withdrew.
CheckCancel(s) ==
    /\ workerPc[s] = "check"
    /\ IF currentResult.state = "SUCCESS" \/ ~isRunning
         THEN Break(s, "CANCELED")
         ELSE Continue(s, "poll")
    /\ UNCHANGED <<servers, mainPc, currentResult, completed, mutex, notified,
                   result, isRunning, serverVars>>

PollResult(s) ==
    /\ workerPc[s] = "poll"
    /\ IF m_UnlockState[s] # "UNKNOWN"
         THEN Break(s, m_UnlockState[s])
         ELSE Continue(s, "timeout")
    /\ UNCHANGED <<servers, mainPc, currentResult, completed, mutex, notified,
                   result, isRunning, serverVars>>

\* A slip: the timeout counts while a phone is connected.
CheckTimeoutInverted(s) ==
    /\ workerPc[s] = "timeout"
    /\ IF m_HasConnection[s] /\ elapsed[s]
         THEN Break(s, "TIMEOUT")
         ELSE Break(s, "CANCELED") \/ Continue(s, "check")
    /\ UNCHANGED <<servers, mainPc, currentResult, completed, mutex, notified,
                   result, isRunning, serverVars>>

\* The timeout counts only while no phone is connected.  Otherwise left Ctrl
\* and left Alt are both down, or the worker sleeps and loops.
CheckTimeout(s) ==
    /\ workerPc[s] = "timeout"
    /\ IF ~m_HasConnection[s] /\ elapsed[s]
         THEN Break(s, "TIMEOUT")
         ELSE Break(s, "CANCELED") \/ Continue(s, "check")
    /\ UNCHANGED <<servers, mainPc, currentResult, completed, mutex, notified,
                   result, isRunning, serverVars>>

\* A slip: Stop() does not join.
StopServerDetached(s) ==
    /\ workerPc[s] = "stop"
    /\ \/ m_IsRunning[s] /\ StopSignal(s) /\ Goto(s, "collect")
       \/ ~m_IsRunning[s] /\ Goto(s, "collect") /\ UNCHANGED serverVars
    /\ UNCHANGED <<servers, mainPc, serverResult, currentResult, completed,
                   mutex, notified, result, isRunning, elapsed>>

\* server->Stop(): at once if the connection is no longer running.
StopServer(s) ==
    /\ workerPc[s] = "stop"
    /\ \/ m_IsRunning[s] /\ StopSignal(s) /\ Goto(s, "stopJoin")
       \/ ~m_IsRunning[s] /\ Goto(s, "collect") /\ UNCHANGED serverVars
    /\ UNCHANGED <<servers, mainPc, serverResult, currentResult, completed,
                   mutex, notified, result, isRunning, elapsed>>

StopJoin(s) ==
    /\ workerPc[s] = "stopJoin"
    /\ Joinable(s)
    /\ Goto(s, "collect")
    /\ UNCHANGED <<servers, mainPc, serverResult, currentResult, completed,
                   mutex, notified, result, isRunning, elapsed, serverVars>>

\* The device and the password join the state: RunServer returns.
CollectResult(s) ==
    /\ workerPc[s] = "collect"
    /\ serverResult' = [serverResult EXCEPT ![s] =
                           UnlockResult(@.state, s, m_ResponseData[s])]
    /\ Goto(s, "add")
    /\ UNCHANGED <<servers, mainPc, currentResult, completed, mutex, notified,
                   result, isRunning, elapsed, serverVars>>

-----------------------------------------------------------------------------
(* The rest of the worker's lambda in GetResult.                             *)

AddCompleted(s) ==
    /\ workerPc[s] = "add"
    /\ completed' = completed + 1
    /\ Goto(s, IF serverResult[s].state = "SUCCESS" THEN "store" ELSE "last")
    /\ UNCHANGED <<servers, mainPc, serverResult, currentResult, mutex,
                   notified, result, isRunning, elapsed, serverVars>>

StoreSuccess(s) ==
    /\ workerPc[s] = "store"
    /\ currentResult' = serverResult[s]
    /\ Goto(s, "last")
    /\ UNCHANGED <<servers, mainPc, serverResult, completed, mutex, notified,
                   result, isRunning, elapsed, serverVars>>

AllCompleted == completed = Cardinality(servers)

\* A slip: the last worker notifies without publishing its own result.
CheckLastKeepsResult(s) ==
    /\ workerPc[s] = "last"
    /\ IF AllCompleted THEN Goto(s, "notify") /\ UNCHANGED serverResult
                       ELSE Return(s)
    /\ UNCHANGED <<servers, mainPc, currentResult, completed, mutex, notified,
                   result, isRunning, elapsed, serverVars>>

CheckLast(s) ==
    /\ workerPc[s] = "last"
    /\ IF AllCompleted THEN Goto(s, "recheck") /\ UNCHANGED serverResult
                       ELSE Return(s)
    /\ UNCHANGED <<servers, mainPc, currentResult, completed,
                   mutex, notified, result, isRunning, elapsed, serverVars>>

RecheckSuccess(s) ==
    /\ workerPc[s] = "recheck"
    /\ Goto(s, IF currentResult.state # "SUCCESS" THEN "storeLast" ELSE "notify")
    /\ UNCHANGED <<servers, mainPc, serverResult, currentResult, completed,
                   mutex, notified, result, isRunning, elapsed, serverVars>>

StoreLast(s) ==
    /\ workerPc[s] = "storeLast"
    /\ currentResult' = serverResult[s]
    /\ Goto(s, "notify")
    /\ UNCHANGED <<servers, mainPc, serverResult, completed, mutex, notified,
                   result, isRunning, elapsed, serverVars>>

\* A slip: notify_one outside the mutex.
NotifyUnlocked(s) ==
    /\ workerPc[s] = "notify"
    /\ notified' = IF mainPc = "asleep" THEN TRUE ELSE notified
    /\ Return(s)
    /\ UNCHANGED <<servers, mainPc, currentResult, completed, mutex, result,
                   isRunning, elapsed, serverVars>>

\* lock_guard, notify_one, unlock: one step, for the main thread is kept out.
\* The notification is lost when nobody sleeps.
Notify(s) ==
    /\ workerPc[s] = "notify"
    /\ mutex = "free"
    /\ notified' = IF mainPc = "asleep" THEN TRUE ELSE notified
    /\ Return(s)
    /\ UNCHANGED <<servers, mainPc, currentResult, completed, mutex, result,
                   isRunning, elapsed, serverVars>>

Worker(s) ==
    \/ RunServerStart(s)
    \/ CheckCancel(s) \/ PollResult(s) \/ CheckTimeout(s)
    \/ StopServer(s) \/ StopJoin(s) \/ CollectResult(s)
    \/ AddCompleted(s) \/ StoreSuccess(s)
    \/ CheckLast(s) \/ RecheckSuccess(s) \/ StoreLast(s)
    \/ Notify(s)

-----------------------------------------------------------------------------
(* GetResult, in the thread that called it.                                  *)

\* One connection per device paired for the user; without any, it is over.
CreateServers ==
    /\ mainPc = "enumerate"
    /\ servers' \in SUBSET Server
    /\ IF servers' = {}
         THEN /\ mainPc' = "done"
              /\ result' = UnlockResult("NOT_PAIRED_ERROR", NoServer, "none")
         ELSE /\ mainPc' = "spawn"
              /\ UNCHANGED result
    /\ UNCHANGED <<workerPc, serverResult, currentResult, completed, mutex,
                   notified, isRunning, elapsed, serverVars>>

\* threads.emplace_back, in the order of the vector (any order here).
SpawnWorker ==
    /\ mainPc = "spawn"
    /\ \E s \in servers : workerPc[s] = "unborn" /\ Goto(s, "start")
    /\ UNCHANGED <<servers, mainPc, serverResult, currentResult, completed,
                   mutex, notified, result, isRunning, elapsed, serverVars>>

LockToWait ==
    /\ \/ mainPc = "spawn" /\ \A s \in servers : workerPc[s] # "unborn"
       \/ mainPc = "asleep" /\ notified
    /\ mutex = "free"
    /\ mutex' = "main"
    /\ notified' = FALSE
    /\ mainPc' = "predicate"
    /\ UNCHANGED <<servers, workerPc, serverResult, currentResult, completed,
                   result, isRunning, elapsed, serverVars>>

\* A slip: cv.wait without its predicate.
WakeupWithoutPredicate ==
    /\ mainPc = "asleep"
    /\ ~notified
    /\ mutex = "free"
    /\ mutex' = "main"
    /\ mainPc' = "load"
    /\ UNCHANGED <<servers, workerPc, serverResult, currentResult, completed,
                   notified, result, isRunning, elapsed, serverVars>>

\* cv.wait may return without a notification.
SpuriousWakeup ==
    /\ mainPc = "asleep"
    /\ ~notified
    /\ mutex = "free"
    /\ mutex' = "main"
    /\ mainPc' = "predicate"
    /\ UNCHANGED <<servers, workerPc, serverResult, currentResult, completed,
                   notified, result, isRunning, elapsed, serverVars>>

CheckPredicate ==
    /\ mainPc = "predicate"
    /\ mainPc' = IF AllCompleted THEN "load" ELSE "block"
    /\ UNCHANGED <<servers, workerPc, serverResult, currentResult, completed,
                   mutex, notified, result, isRunning, elapsed, serverVars>>

\* cv.wait releases the mutex and sleeps in one step.
Block ==
    /\ mainPc = "block"
    /\ mutex' = "free"
    /\ mainPc' = "asleep"
    /\ UNCHANGED <<servers, workerPc, serverResult, currentResult, completed,
                   notified, result, isRunning, elapsed, serverVars>>

LoadResult ==
    /\ mainPc = "load"
    /\ result' = currentResult
    /\ mainPc' = "join"
    /\ UNCHANGED <<servers, workerPc, serverResult, currentResult, completed,
                   mutex, notified, isRunning, elapsed, serverVars>>

\* The main thread joins its workers with the mutex still in its hands.
JoinWorkers ==
    /\ mainPc = "join"
    /\ \A s \in servers : workerPc[s] = "done"
    /\ mainPc' = "delete"
    /\ UNCHANGED <<servers, workerPc, serverResult, currentResult, completed,
                   mutex, notified, result, isRunning, elapsed, serverVars>>

\* The destructors join the connection threads; leaving the function unlocks.
DeleteServers ==
    /\ mainPc = "delete"
    /\ \A s \in servers : Joinable(s)
    /\ mutex' = "free"
    /\ mainPc' = "done"
    /\ UNCHANGED <<servers, workerPc, serverResult, currentResult, completed,
                   notified, result, isRunning, elapsed, serverVars>>

Main ==
    \/ CreateServers \/ SpawnWorker \/ LockToWait \/ CheckPredicate \/ Block
    \/ LoadResult \/ JoinWorkers \/ DeleteServers

-----------------------------------------------------------------------------
(* What surrounds the two: the connection threads, the caller, the clock.    *)

Connection(s) == ServerThread(s) /\ UNCHANGED handlerVars

\* The caller clears the flag it passed (CUnlockListener::Stop).
CallerStops ==
    /\ PassesFlag
    /\ isRunning
    /\ isRunning' = FALSE
    /\ UNCHANGED <<servers, mainPc, workerPc, serverResult, currentResult,
                   completed, mutex, notified, result, elapsed, serverVars>>

TimeoutElapses(s) ==
    /\ workerPc[s] \in PollLoop
    /\ ~elapsed[s]
    /\ elapsed' = [elapsed EXCEPT ![s] = TRUE]
    /\ UNCHANGED <<servers, mainPc, workerPc, serverResult, currentResult,
                   completed, mutex, notified, result, isRunning, serverVars>>

Next ==
    \/ Main \/ SpuriousWakeup \/ CallerStops
    \/ \E s \in Server : Worker(s) \/ Connection(s) \/ TimeoutElapses(s)

\* Threads that can run do, time passes, and a connection thread that has its
\* verdict returns.  Nothing obliges a phone to connect or to answer.
Fairness ==
    /\ WF_vars(Main)
    /\ \A s \in Server :
         /\ WF_vars(Worker(s))
         /\ WF_vars(TimeoutElapses(s))
         /\ WF_vars(m_UnlockState[s] # "UNKNOWN" /\ End(s) /\ UNCHANGED handlerVars)

Spec == Init /\ [][Next]_vars

FairSpec == Spec /\ Fairness
-----------------------------------------------------------------------------
(* Safety.                                                                   *)

\* GetResult reads the shared result only when every device has been polled to
\* its end and its connection stopped: the predicate of cv.wait, re-evaluated
\* after each wakeup, keeps a spurious or early one from letting it through.
ReadAfterAllPolled ==
    mainPc \in {"load", "join", "delete"} =>
        \A s \in servers : workerPc[s] \in Counted

\* A success that GetResult returns names a device whose phone answered this
\* very request, and carries the password out of that answer.
ResultIsGenuine ==
    result.state = "SUCCESS" =>
        /\ result.device \in servers
        /\ m_UnlockState[result.device] = "SUCCESS"
        /\ result.response = "ours"

\* RunServer copies the response out of the connection without a lock.  Only
\* a connected thread stores one, and there is none left by then, although
\* Stop() does not wait for a thread that has already cleared m_IsRunning.
ResponseIsQuietWhenRead ==
    \A s \in Server : workerPc[s] = "collect" =>
        m_AcceptThread[s] \in {"leaving", "ended"}

\* The workers leave a verdict behind, whoever of them was the last.
VerdictIsPublished ==
    (servers # {} /\ \A s \in servers : workerPc[s] = "done") =>
        currentResult.state # "UNKNOWN"

\* GetResult does not wait in a circle, nor for a notification that was sent before
\* it fell asleep: until it returns, one of its threads can go on (these are the
\* guards of their steps), or the thread of a connection has to end before it can be
\* joined.  The one exception is CleanupCanJoin, below.
MainReady ==
    \/ mainPc \in {"enumerate", "predicate", "block", "load"}
    \/ mainPc = "spawn" /\ (mutex = "free" \/ \E s \in servers : workerPc[s] = "unborn")
    \/ mainPc = "asleep" /\ notified /\ mutex = "free"
    \/ mainPc = "join" /\ \A s \in servers : workerPc[s] = "done"
    \/ mainPc = "delete" /\ \A s \in servers : Joinable(s)

WorkerReady(s) ==
    \/ workerPc[s] \notin {"unborn", "stopJoin", "notify", "done"}
    \/ workerPc[s] = "stopJoin" /\ Joinable(s)
    \/ workerPc[s] = "notify" /\ mutex = "free"

NobodyWaitsForGood ==
    mainPc # "done" =>
        \/ MainReady \/ \E s \in servers : WorkerReady(s)
        \/ \E s \in servers : ~Joinable(s) /\ (workerPc[s] = "stopJoin" \/ mainPc = "delete")
        \/ mainPc = "join" /\ \E s \in servers : workerPc[s] = "notify"

-----------------------------------------------------------------------------
(* The abstract specification.                                               *)

Stage == CASE mainPc = "enumerate"           -> "idle"
           [] mainPc \in {"join", "delete"} -> "decided"
           [] mainPc = "done"                -> "returned"
           [] OTHER                          -> "asking"

Talking == {s \in Server : m_AcceptThread[s] \notin {"none", "ended"}}

Approved == {s \in Server : m_UnlockState[s] = "SUCCESS"}

Request == INSTANCE UnlockRequest WITH
    Device <- Server,
    NoDevice <- NoServer,
    Response <- {"none"} \cup Answer,
    stage <- Stage,
    asked <- servers,
    talking <- Talking,
    approved <- Approved,
    answer <- result

\* GetResult keeps its promise to the caller: it decides once, after the last
\* approval it may count and before it returns, and it leaves no thread behind.
ImplementsRequest == Request!RequestSpec

-----------------------------------------------------------------------------
(* Liveness, under FairSpec.                                                 *)

LeftLoop(s) == workerPc[s] \in Stopping \cup {"add"} \cup Counted

\* Once one device has succeeded, the polling of all the others ends.
SuccessEndsPolling ==
    currentResult.state = "SUCCESS" ~> \A s \in servers : LeftLoop(s)

\* When every worker has counted itself, GetResult's wait comes to an end.
WaitEnds ==
    (servers # {} /\ \A s \in servers : workerPc[s] \in Counted)
        ~> mainPc \in {"load", "join", "delete", "done"}

\* Polling ends for a phone that never connects, so no device blocks the login
\* by being out of reach, and for one that has answered, good or bad.  Only a
\* phone that is connected and silent can keep its worker for good.
PollingEnds ==
    \A s \in Server :
        workerPc[s] = "check" ~>
            LeftLoop(s) \/ (m_HasConnection[s] /\ m_UnlockState[s] = "UNKNOWN")

-----------------------------------------------------------------------------
(* What the code means to do and does not.                                   *)

\* The clean-up can join every worker.
CleanupCanJoin ==
    mainPc = "join" => \A s \in servers : ~(workerPc[s] = "notify" /\ mutex = "main")
=============================================================================
