-------------------------- MODULE BaseUnlockServer --------------------------
(* The contract of a phone connection (class BaseUnlockServer and what its   *)
(* three subclasses have in common), for every connection of a set Server.   *)
(*                                                                           *)
(* Each connection has a thread (ConnectThread or AcceptThread) that talks   *)
(* to the phone and an owner (UnlockHandler::RunServer) that polls it.  The  *)
(* two share four plain fields, which are the variables below.  UnlockClient *)
(* shows that TCPUnlockClient and BTUnlockClient implement this contract;    *)
(* UnlockHandler is written against it.                                      *)
EXTENDS UnlockState

CONSTANTS Server,   \* the connections, one per paired device
          Outcome,  \* the verdicts their threads may reach in this instance
          Answer    \* whose answers the phones give: "ours" carries the token
                    \* of the request, "other" that of another one

ASSUME ServerAssumption ==
    /\ Outcome \subseteq ThreadVerdicts
    /\ Answer \subseteq {"ours", "other"}

VARIABLES m_IsRunning,     \* set by Start, cleared by Stop and by the thread
          m_HasConnection, \* the phone is connected
          m_UnlockState,   \* the verdict, "UNKNOWN" until there is one
          m_ResponseData,  \* whose answer was stored, or "none"
          m_AcceptThread   \* "none", "connecting", "connected", "leaving" (it
                           \* has cleared m_IsRunning), "ended"

serverVars == <<m_IsRunning, m_HasConnection, m_UnlockState, m_ResponseData,
                m_AcceptThread>>

ServerTypeOK ==
    /\ m_IsRunning \in [Server -> BOOLEAN]
    /\ m_HasConnection \in [Server -> BOOLEAN]
    /\ m_UnlockState \in [Server -> {"UNKNOWN"} \cup Outcome]
    /\ m_ResponseData \in [Server -> {"none"} \cup Answer]
    /\ m_AcceptThread \in
           [Server -> {"none", "connecting", "connected", "leaving", "ended"}]

ServerInit ==
    /\ m_IsRunning = [s \in Server |-> FALSE]
    /\ m_HasConnection = [s \in Server |-> FALSE]
    /\ m_UnlockState = [s \in Server |-> "UNKNOWN"]
    /\ m_ResponseData = [s \in Server |-> "none"]
    /\ m_AcceptThread = [s \in Server |-> "none"]

-----------------------------------------------------------------------------
(* The owner's calls.                                                        *)

\* Start() that succeeds: the flag, then the thread.
Start(s) ==
    /\ m_AcceptThread[s] = "none"
    /\ m_IsRunning' = [m_IsRunning EXCEPT ![s] = TRUE]
    /\ m_AcceptThread' = [m_AcceptThread EXCEPT ![s] = "connecting"]
    /\ UNCHANGED <<m_HasConnection, m_UnlockState, m_ResponseData>>

\* Stop() lowers both flags before it joins.  It has looked at m_IsRunning
\* first, but the thread may have lowered it since.
StopSignal(s) ==
    /\ m_IsRunning' = [m_IsRunning EXCEPT ![s] = FALSE]
    /\ m_HasConnection' = [m_HasConnection EXCEPT ![s] = FALSE]
    /\ UNCHANGED <<m_UnlockState, m_ResponseData, m_AcceptThread>>

\* The join at the end of Stop() and in the destructor returns.
Joinable(s) == m_AcceptThread[s] \in {"none", "ended"}

-----------------------------------------------------------------------------
(* The thread.  A Stop() does not interrupt it: it never reads m_IsRunning   *)
(* between connect() or accept() and the end of the exchange.                *)

\* connect() or accept() returned a connection.
Connect(s) ==
    /\ m_AcceptThread[s] = "connecting"
    /\ m_UnlockState[s] = "UNKNOWN"
    /\ m_HasConnection' = [m_HasConnection EXCEPT ![s] = TRUE]
    /\ m_AcceptThread' = [m_AcceptThread EXCEPT ![s] = "connected"]
    /\ UNCHANGED <<m_IsRunning, m_UnlockState, m_ResponseData>>

\* OnResponseReceived stores a well-formed answer before it judges it.
StoreResponse(s, token) ==
    /\ m_AcceptThread[s] = "connected"
    /\ m_UnlockState[s] = "UNKNOWN"
    /\ m_ResponseData[s] = "none"
    /\ m_ResponseData' = [m_ResponseData EXCEPT ![s] = token]
    /\ UNCHANGED <<m_IsRunning, m_HasConnection, m_UnlockState, m_AcceptThread>>

\* The one write of the verdict.  Success is for the answer that carries the
\* token of this connection; without a stored answer only an error is left.
Conclude(s, verdict) ==
    /\ m_AcceptThread[s] \in {"connecting", "connected", "leaving"}
    /\ m_UnlockState[s] = "UNKNOWN"
    /\ (verdict = "SUCCESS") <=> (m_ResponseData[s] = "ours")
    /\ m_UnlockState' = [m_UnlockState EXCEPT ![s] = verdict]
    /\ UNCHANGED <<m_IsRunning, m_HasConnection, m_ResponseData, m_AcceptThread>>

\* The thread clears the flag: from here on Stop() does not wait for it, so it
\* must not touch the answer any more.
Finish(s) ==
    /\ m_AcceptThread[s] \in {"connecting", "connected"}
    /\ m_UnlockState[s] = "UNKNOWN" => m_ResponseData[s] = "none"
    /\ m_IsRunning' = [m_IsRunning EXCEPT ![s] = FALSE]
    /\ m_AcceptThread' = [m_AcceptThread EXCEPT ![s] = "leaving"]
    /\ UNCHANGED <<m_HasConnection, m_UnlockState, m_ResponseData>>

\* The thread clears m_HasConnection on its way out.
HangUp(s) ==
    /\ m_AcceptThread[s] = "leaving"
    /\ m_HasConnection' = [m_HasConnection EXCEPT ![s] = FALSE]
    /\ UNCHANGED <<m_IsRunning, m_UnlockState, m_ResponseData, m_AcceptThread>>

\* The thread returns; one that had a connection leaves a verdict behind.
End(s) ==
    /\ m_AcceptThread[s] \in {"connecting", "connected", "leaving"}
    /\ m_UnlockState[s] = "UNKNOWN" =>
           ~m_HasConnection[s] /\ m_ResponseData[s] = "none"
    /\ m_AcceptThread' = [m_AcceptThread EXCEPT ![s] = "ended"]
    /\ UNCHANGED <<m_IsRunning, m_HasConnection, m_UnlockState, m_ResponseData>>

ServerThread(s) ==
    \/ Connect(s)
    \/ \E token \in Answer : StoreResponse(s, token)
    \/ \E verdict \in Outcome : Conclude(s, verdict)
    \/ Finish(s)
    \/ HangUp(s)
    \/ End(s)

ServerNext == \E s \in Server : Start(s) \/ StopSignal(s) \/ ServerThread(s)

\* The contract on its own, for a refinement to imply.
ServerSpec == ServerInit /\ [][ServerNext]_serverVars

-----------------------------------------------------------------------------
(* What a user of a connection may rely on.                                  *)

\* Success is for the stored answer that carries our token, and a thread that has
\* cleared its flag leaves no answer behind that is still to be judged.
VerdictFollowsResponse ==
    \A s \in Server :
        /\ m_UnlockState[s] = "SUCCESS" => m_ResponseData[s] = "ours"
        /\ m_UnlockState[s] = "UNKNOWN" /\ m_ResponseData[s] # "none" =>
               m_AcceptThread[s] = "connected"

\* The verdict and the answer it rests on are read without a lock: a verdict that
\* has been read is the last one, the answer behind it is stored before, and a
\* thread that has cleared its flag stores no answer and no longer succeeds.
IsFinal(s) ==
    /\ m_ResponseData[s] # "none" => m_ResponseData'[s] = m_ResponseData[s]
    /\ m_UnlockState[s] # "UNKNOWN" =>
           /\ m_UnlockState'[s] = m_UnlockState[s]
           /\ m_ResponseData'[s] = m_ResponseData[s]
    /\ m_AcceptThread[s] \in {"leaving", "ended"} =>
           /\ m_ResponseData'[s] = m_ResponseData[s]
           /\ m_UnlockState'[s] = "SUCCESS" => m_UnlockState[s] = "SUCCESS"

AllAreFinal == \A s \in Server : IsFinal(s)

VerdictsAreFinal == [][AllAreFinal]_serverVars
=============================================================================
