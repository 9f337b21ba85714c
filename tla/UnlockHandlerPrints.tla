------------------------- MODULE UnlockHandlerPrints -------------------------
(* UnlockHandler with a history variable: what RunServer has printed to the  *)
(* user (m_PrintMessage, common-cpp/src/handler/UnlockHandler.cpp).  Nothing *)
(* reads it again, so the handler's behaviours are those of UnlockHandler.   *)
EXTENDS UnlockHandler

VARIABLE printed \* the devices whose worker has printed "Success."

printVars == <<vars, printed>>

\* The state with which RunServer left its loop is printed once the connection is
\* stopped, before the result is put together.  (The one state that may go
\* unprinted is CANCELED.)
PrintsSuccess(s) ==
    /\ workerPc[s] = "collect" /\ workerPc'[s] # "collect"
    /\ serverResult[s].state = "SUCCESS"

PrintInit == Init /\ printed = {}

PrintNext == Next /\ printed' = printed \cup {s \in servers : PrintsSuccess(s)}

PrintSpec == PrintInit /\ [][PrintNext]_printVars

\* The user has read "Success." from one of the devices (RunServer), so that is
\* what GetResult returns.
SuccessIsReported ==
    mainPc = "done" /\ printed # {} => result.state = "SUCCESS"
=============================================================================
