----------------------- MODULE BaseUnlockServerProofs -----------------------
(* What follows from the contract of a connection, for any set of            *)
(* connections, verdicts and answers.  Whatever implements the contract, and *)
(* whoever is written against it, has these theorems.                        *)
EXTENDS BaseUnlockServer, TLAPS

ContractIInv == ServerTypeOK /\ VerdictFollowsResponse

-----------------------------------------------------------------------------
LEMMA ContractTypeStep ==
    ASSUME ServerTypeOK, [ServerNext]_serverVars PROVE ServerTypeOK'
<1> USE DEF ServerTypeOK
<1>1. ASSUME NEW s \in Server, Start(s) \/ StopSignal(s) PROVE ServerTypeOK'
  BY <1>1 DEF Start, StopSignal
<1>2. ASSUME NEW s \in Server, ServerThread(s) PROVE ServerTypeOK'
  <2>1. CASE Connect(s) \/ Finish(s)
    BY <2>1 DEF Connect, Finish
  <2>2. CASE HangUp(s) \/ End(s)
    BY <2>2 DEF HangUp, End
  <2>3. ASSUME NEW token \in Answer, StoreResponse(s, token) PROVE ServerTypeOK'
    BY <2>3 DEF StoreResponse
  <2>4. ASSUME NEW verdict \in Outcome, Conclude(s, verdict) PROVE ServerTypeOK'
    BY <2>4 DEF Conclude
  <2> QED BY <1>2, <2>1, <2>2, <2>3, <2>4 DEF ServerThread
<1>3. CASE UNCHANGED serverVars
  BY <1>3 DEF serverVars
<1> QED BY <1>1, <1>2, <1>3 DEF ServerNext

\* Only the connected thread stores an answer, and it concludes before it clears
\* its flag.
LEMMA ContractVerdictStep ==
    ASSUME ContractIInv, [ServerNext]_serverVars PROVE VerdictFollowsResponse'
<1> USE DEF VerdictFollowsResponse
<1>0. ServerTypeOK
  BY DEF ContractIInv
<1>1. VerdictFollowsResponse
  BY DEF ContractIInv
<1>2. ASSUME NEW s \in Server, Start(s) \/ StopSignal(s)
      PROVE  VerdictFollowsResponse'
  BY <1>0, <1>1, <1>2 DEF Start, StopSignal, ServerTypeOK
<1>3. ASSUME NEW s \in Server, ServerThread(s) PROVE VerdictFollowsResponse'
  <2> USE <1>0, <1>1 DEF ServerTypeOK
  <2>1. CASE Connect(s) \/ HangUp(s)
    BY <2>1 DEF Connect, HangUp
  <2>2. CASE Finish(s) \/ End(s)
    BY <2>2 DEF Finish, End
  <2>3. ASSUME NEW token \in Answer, StoreResponse(s, token)
        PROVE  VerdictFollowsResponse'
    BY <2>3 DEF StoreResponse
  <2>4. ASSUME NEW verdict \in Outcome, Conclude(s, verdict)
        PROVE  VerdictFollowsResponse'
    <3>1. verdict # "UNKNOWN"
      BY ServerAssumption DEF ThreadVerdicts
    <3> QED BY <2>4, <3>1 DEF Conclude
  <2> QED BY <1>3, <2>1, <2>2, <2>3, <2>4 DEF ServerThread
<1>4. CASE UNCHANGED serverVars
  BY <1>1, <1>4 DEF serverVars
<1> QED BY <1>2, <1>3, <1>4 DEF ServerNext

LEMMA ContractInductive == ServerSpec => []ContractIInv
<1>1. ServerInit => ContractIInv
  BY DEF ServerInit, ContractIInv, ServerTypeOK, VerdictFollowsResponse
<1>2. ContractIInv /\ [ServerNext]_serverVars => ContractIInv'
  BY ContractTypeStep, ContractVerdictStep DEF ContractIInv
<1> QED BY <1>1, <1>2, PTL DEF ServerSpec

\* A connection that has succeeded holds the answer with our token, and one whose
\* thread has cleared m_IsRunning holds none that is still to be judged: Stop()
\* need not wait for that thread before the worker copies the answer.
THEOREM VerdictsFollowResponses == ServerSpec => []VerdictFollowsResponse
<1>1. ContractIInv => VerdictFollowsResponse
  BY DEF ContractIInv
<1> QED BY <1>1, ContractInductive, PTL

LEMMA StepIsFinal ==
    ASSUME ContractIInv, ServerNext PROVE AllAreFinal
<1> SUFFICES ASSUME NEW r \in Server PROVE IsFinal(r)
  BY DEF AllAreFinal
<1> USE DEF IsFinal, ContractIInv, ServerTypeOK
<1>1. ASSUME NEW s \in Server, Start(s) \/ StopSignal(s) PROVE IsFinal(r)
  BY <1>1 DEF Start, StopSignal
<1>2. ASSUME NEW s \in Server, ServerThread(s) PROVE IsFinal(r)
  <2>1. CASE Connect(s) \/ Finish(s) \/ HangUp(s) \/ End(s)
    BY <2>1 DEF Connect, Finish, HangUp, End
  <2>2. ASSUME NEW token \in Answer, StoreResponse(s, token) PROVE IsFinal(r)
    BY <2>2 DEF StoreResponse
  <2>3. ASSUME NEW verdict \in Outcome, Conclude(s, verdict) PROVE IsFinal(r)
    BY <2>3 DEF Conclude, VerdictFollowsResponse
  <2> QED BY <1>2, <2>1, <2>2, <2>3 DEF ServerThread
<1> QED BY <1>1, <1>2 DEF ServerNext

\* The worker reads verdict and answer without a lock, and what it has read stays.
THEOREM ServerVerdictsAreFinal == ServerSpec => VerdictsAreFinal
<1>1. ContractIInv /\ [ServerNext]_serverVars => [AllAreFinal]_serverVars
  BY StepIsFinal
<1> QED BY <1>1, ContractInductive, PTL DEF ServerSpec, VerdictsAreFinal
=============================================================================
