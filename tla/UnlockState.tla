---------------------------- MODULE UnlockState ----------------------------
(* The verdicts of an unlock attempt: enum UnlockState of                    *)
(* common-cpp/src/handler/UnlockState.h, each by its name.                   *)

\* What the thread of a phone connection writes into m_UnlockState.
ThreadVerdicts == {"SUCCESS", "CANCELED", "CONNECT_ERROR", "TIME_ERROR",
                   "DATA_ERROR", "NOT_PAIRED_ERROR", "APP_ERROR", "UNK_ERROR"}

\* What only UnlockHandler decides: nobody connected in time, or no socket.
HandlerVerdicts == {"TIMEOUT", "START_ERROR"}

UnlockStates == {"UNKNOWN"} \cup ThreadVerdicts \cup HandlerVerdicts
=============================================================================
