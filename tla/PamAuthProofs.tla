---------------------------- MODULE PamAuthProofs ----------------------------
(* The safety invariants of PamAuth, for any users and files of devices, any *)
(* size of the pipe and any number of lines.                                 *)
EXTENDS PamAuth, TLAPS

-----------------------------------------------------------------------------
(* The inductive invariant, one part per idea.                               *)

\* pcbu_auth runs while pam_sm_authenticate reads.
Lifetime ==
    /\ pamPc \in {"items", "open"} => authPc = "none"
    /\ pamPc = "read" => authPc # "none"
    /\ pamPc = "close" => authPc = "dead"
    /\ pamPc \in {"verdict", "done"} => authPc \in {"none", "dead"}

\* A line that was printed is shown or in the pipe, which is read to its end.
LinesAreKept ==
    /\ printed = shown + pipe
    /\ pamPc # "read" => pipe = 0
    /\ authPc \in {"none", "setuid"} => printed = 0
    /\ authPc = "getResult" => printed <= MaxLines
    /\ authPc \in {"judge", "wrong"} => printed <= MaxLines + 1

\* pcbu_auth exits with 0 only after a phone of the user and the password of the
\* user.
ExitIsEarned ==
    /\ result.state = "SUCCESS" =>
          \E i \in DOMAIN file : file[i].userName = userName /\ file[i] = result.device
    /\ authPc = "dead" <=> exitStatus # -1
    /\ exitStatus = 0 <=> checked = "match"
    /\ checked = "match" => result.state = "SUCCESS"
    /\ authPc \in {"none", "setuid", "getResult", "judge"} => checked = "none"

\* pam_sm_authenticate has the status of pcbu_auth, unless the host took it.
StatusIsKept ==
    /\ pamPc \notin {"verdict", "done"} => status = -1
    /\ pamPc \in {"verdict", "done"} =>
           IF authPc = "dead" /\ ~hostReaps THEN status = exitStatus ELSE status # 0
    /\ pamPc = "done" <=> returned # "none"
    /\ returned = "PAM_SUCCESS" <=> pamPc = "done" /\ status = 0

IInv == TypeOK /\ Lifetime /\ LinesAreKept /\ ExitIsEarned /\ StatusIsKept

-----------------------------------------------------------------------------
(* The devices and the exit codes.                                           *)

\* The devices of a user are entries of the file with the user's name.
LEMMA DevicesAreTheUsers ==
    ASSUME NEW f, NEW user, NEW i \in GetDevicesForUser(f, user)
    PROVE  i \in DOMAIN f /\ f[i].userName = user
BY DEF GetDevicesForUser, GetDevices

LEMMA ExitCodes == Exited(0) = 0 /\ Exited(1) = 256 /\ Exited(-1) = 65280
BY DEF Exited

LEMMA FailedExec == Exited(EPERM) = 256 /\ Exited(ENOENT) = 512
BY DEF Exited, EPERM, ENOENT

LEMMA EntriesOfFile ==
    ASSUME NEW f \in Files, NEW i \in DOMAIN f PROVE f[i] \in Entries(Users)
BY DEF Files

-----------------------------------------------------------------------------
(* Initially, and step by step.                                              *)

LEMMA Initially == ASSUME Init PROVE IInv
<1>1. TypeOK
  BY PamAssumption DEF Init, TypeOK, UnlockStates
<1>2. Lifetime /\ LinesAreKept /\ ExitIsEarned /\ StatusIsKept
  BY PamAssumption DEF Init, Lifetime, LinesAreKept, ExitIsEarned, StatusIsKept
<1> QED BY <1>1, <1>2 DEF IInv

LEMMA TypeStep == ASSUME IInv, [Next]_vars PROVE TypeOK'
<1> USE PamAssumption DEF TypeOK, world, lineVars, WaitStatuses, Signals, SIGABRT,
        SIGSEGV, SIGPIPE
<1>0. /\ TypeOK
      /\ printed = shown + pipe
      /\ authPc = "setuid" => printed = 0
      /\ authPc = "getResult" => printed <= MaxLines
      /\ authPc = "wrong" => printed <= MaxLines + 1
  BY DEF IInv, LinesAreKept
<1>1. ASSUME PrintLine, authPc \in {"setuid", "getResult", "wrong"}
      PROVE  pipe' \in 0 .. PipeSize /\ printed' \in 0 .. MaxLines + 2
             /\ shown' \in 0 .. MaxLines + 2
  BY <1>0, <1>1 DEF PrintLine
<1>2. CASE SetUid
  BY <1>0, <1>1, <1>2, ExitCodes DEF SetUid, Exit
<1>3. CASE PrintMessage
  BY <1>0, <1>1, <1>3 DEF PrintMessage
<1>4. CASE GetResult
  <2>1. CASE GetDevicesForUser(file, userName) = {}
    BY <1>0, <1>1, <1>4, <2>1 DEF GetResult, UnlockStates, ThreadVerdicts
  <2>2. CASE GetDevicesForUser(file, userName) # {}
    <3>1. PICK i \in GetDevicesForUser(file, userName),
               state \in ThreadVerdicts \cup HandlerVerdicts :
              result' = [state |-> state, device |-> file[i]]
      BY <1>4, <2>2 DEF GetResult
    <3>2. file[i] \in Entries(Users)
      BY <1>0, DevicesAreTheUsers, EntriesOfFile
    <3>3. result' \in [state : UnlockStates, device : Entries(Users) \cup {NoDevice}]
      BY <3>1, <3>2 DEF UnlockStates
    <3> QED BY <1>0, <1>4, <2>2, <3>3 DEF GetResult
  <2> QED BY <2>1, <2>2
<1>5. CASE GetResultDies
  BY <1>0, <1>5 DEF GetResultDies, Exit
<1>6. CASE Judge
  BY <1>0, <1>6, ExitCodes DEF Judge, Exit
<1>7. CASE WrongPassword
  BY <1>0, <1>1, <1>7, ExitCodes DEF WrongPassword, Exit
<1>8. CASE GetItems
  BY <1>0, <1>8 DEF GetItems, PamReturn
<1>9. CASE Open
  BY <1>0, <1>9, FailedExec DEF Open, ExecErrors
<1>10. CASE ReadLines
  BY <1>0, <1>10 DEF ReadLines
<1>11. CASE Close \/ Verdict
  BY <1>0, <1>11 DEF Close, Verdict, PamReturn
<1>12. CASE UNCHANGED vars
  BY <1>0, <1>12 DEF vars
<1> QED
  BY <1>2, <1>3, <1>4, <1>5, <1>6, <1>7, <1>8, <1>9, <1>10, <1>11, <1>12
  DEF Next, Pam, PcbuAuth

LEMMA LifetimeStep == ASSUME IInv, [Next]_vars PROVE Lifetime'
<1> USE DEF Lifetime
<1>0. Lifetime
  BY DEF IInv
<1>1. CASE SetUid \/ WrongPassword \/ Judge \/ GetResult \/ GetResultDies
  BY <1>0, <1>1
  DEF SetUid, WrongPassword, Judge, GetResult, GetResultDies, Exit
<1>2. CASE PrintMessage
  BY <1>0, <1>2 DEF PrintMessage
<1>3. CASE Pam
  BY <1>0, <1>3
  DEF Pam, GetItems, Open, ReadLines, Close, Verdict, PamReturn
<1>4. CASE UNCHANGED vars
  BY <1>0, <1>4 DEF vars
<1> QED BY <1>1, <1>2, <1>3, <1>4 DEF Next, PcbuAuth

\* While pcbu_auth runs, pam_sm_authenticate reads.
LEMMA PcReads ==
    ASSUME TypeOK, Lifetime, authPc \notin {"none", "dead"} PROVE pamPc = "read"
BY DEF TypeOK, Lifetime

LEMMA LinesStep == ASSUME IInv, [Next]_vars PROVE LinesAreKept'
<1> USE PamAssumption DEF LinesAreKept, Lifetime, lineVars
<1>0. /\ Lifetime /\ LinesAreKept
      /\ pipe \in Nat /\ printed \in Nat /\ shown \in Nat
      /\ TypeOK
  BY DEF IInv, TypeOK
<1>1. ASSUME PrintLine
      PROVE  printed' = printed + 1 /\ printed' = shown' + pipe'
  <2>1. pipe' = pipe + 1 /\ printed' = printed + 1 /\ shown' = shown
    BY <1>1 DEF PrintLine
  <2> QED BY <1>0, <2>1
<1>2. CASE SetUid
  <2>1. pamPc = "read" /\ printed = 0 /\ pamPc' = pamPc /\ authPc = "setuid"
    BY <1>0, <1>2, PcReads DEF SetUid
  <2>2. CASE authPc' = "getResult" /\ UNCHANGED lineVars
    BY <1>0, <2>1, <2>2
  <2>3. CASE PrintLine /\ authPc' = "dead"
    BY <1>1, <2>1, <2>3
  <2> QED BY <1>2, <2>2, <2>3 DEF SetUid, Exit
<1>3. CASE WrongPassword
  <2>1. PrintLine /\ pamPc' = pamPc /\ authPc' = "dead"
    BY <1>3 DEF WrongPassword, Exit
  <2>2. pamPc = "read"
    BY <1>0, <1>3, PcReads DEF WrongPassword
  <2> QED BY <1>1, <2>1, <2>2
<1>4. CASE PrintMessage
  <2>1. /\ PrintLine /\ pamPc' = pamPc /\ authPc' = authPc
        /\ authPc = "getResult" /\ printed < MaxLines
    BY <1>4 DEF PrintMessage
  <2>2. pamPc = "read"
    BY <1>0, <2>1, PcReads
  <2>3. printed + 1 <= MaxLines
    BY <1>0, <2>1
  <2> QED BY <1>1, <2>1, <2>2, <2>3
<1>5. CASE GetResult
  <2>1. /\ pamPc' = pamPc /\ authPc' = "judge" /\ authPc = "getResult"
        /\ PrintLine \/ UNCHANGED lineVars
    BY <1>5 DEF GetResult
  <2>2. pamPc = "read" /\ printed <= MaxLines
    BY <1>0, <2>1, PcReads
  <2>3. printed <= MaxLines + 1 /\ printed + 1 <= MaxLines + 1
    BY <1>0, <2>2
  <2>4. CASE PrintLine
    BY <1>1, <2>1, <2>2, <2>3, <2>4
  <2>5. CASE UNCHANGED lineVars
    BY <1>0, <2>1, <2>2, <2>3, <2>5
  <2> QED BY <2>1, <2>4, <2>5
<1>6. CASE GetResultDies \/ Judge
  BY <1>0, <1>6 DEF GetResultDies, Judge, Exit
<1>7. CASE GetItems \/ Open \/ Close \/ Verdict
  BY <1>0, <1>7 DEF GetItems, Open, Close, Verdict, PamReturn
<1>8. CASE ReadLines
  BY <1>0, <1>8 DEF ReadLines
<1>9. CASE UNCHANGED vars
  BY <1>0, <1>9 DEF vars
<1> QED
  BY <1>2, <1>3, <1>4, <1>5, <1>6, <1>7, <1>8, <1>9 DEF Next, Pam, PcbuAuth

LEMMA ExitStep == ASSUME IInv, [Next]_vars PROVE ExitIsEarned'
<1> USE DEF ExitIsEarned, Lifetime, world
<1>0. Lifetime /\ ExitIsEarned /\ exitStatus \in {-1} \cup WaitStatuses
  BY DEF IInv, TypeOK
<1>1. CASE SetUid
  BY <1>0, <1>1, ExitCodes DEF SetUid, Exit
<1>2. CASE PrintMessage
  BY <1>0, <1>2 DEF PrintMessage
<1>3. CASE GetResult
  <2>1. result'.state = "SUCCESS" =>
           \E i \in DOMAIN file :
              file[i].userName = userName /\ file[i] = result'.device
    <3>1. CASE GetDevicesForUser(file, userName) = {}
      BY <1>3, <3>1 DEF GetResult
    <3>2. CASE GetDevicesForUser(file, userName) # {}
      BY <1>3, <3>2, DevicesAreTheUsers DEF GetResult
    <3> QED BY <3>1, <3>2
  <2> QED BY <1>0, <1>3, <2>1 DEF GetResult
<1>4. CASE GetResultDies
  BY <1>0, <1>4 DEF GetResultDies, Exit, Signals, SIGABRT, SIGSEGV, SIGPIPE
<1>5. CASE Judge
  BY <1>0, <1>5, ExitCodes DEF Judge, Exit, SIGSEGV
<1>6. CASE WrongPassword
  BY <1>0, <1>6, ExitCodes DEF WrongPassword, Exit
<1>7. CASE GetItems \/ ReadLines \/ Close \/ Verdict
  BY <1>0, <1>7 DEF GetItems, ReadLines, Close, Verdict
<1>8. CASE Open
  BY <1>0, <1>8 DEF Open
<1>9. CASE UNCHANGED vars
  BY <1>0, <1>9 DEF vars
<1> QED
  BY <1>1, <1>2, <1>3, <1>4, <1>5, <1>6, <1>7, <1>8, <1>9 DEF Next, Pam, PcbuAuth

LEMMA StatusStep == ASSUME IInv, [Next]_vars PROVE StatusIsKept'
<1> USE DEF StatusIsKept, Lifetime, world
<1>0. Lifetime /\ StatusIsKept
  BY DEF IInv
<1>1. CASE PcbuAuth \/ PrintMessage \/ GetResult \/ GetResultDies
  <2>1. /\ authPc \notin {"none", "dead"}
        /\ UNCHANGED <<pamPc, status, returned, hostReaps>>
    BY <1>1 DEF PcbuAuth, SetUid, Judge, WrongPassword, PrintMessage, GetResult,
       GetResultDies
  <2> QED BY <1>0, <2>1
<1>2. CASE GetItems
  BY <1>0, <1>2 DEF GetItems, PamReturn
<1>3. CASE Open
  BY <1>0, <1>3, FailedExec DEF Open
<1>4. CASE ReadLines \/ Close
  BY <1>0, <1>4 DEF ReadLines, Close
<1>5. CASE Verdict
  BY <1>0, <1>5 DEF Verdict, PamReturn
<1>6. CASE UNCHANGED vars
  BY <1>0, <1>6 DEF vars
<1> QED BY <1>1, <1>2, <1>3, <1>4, <1>5, <1>6 DEF Next, Pam

LEMMA Inductive == Spec => []IInv
<1>1. Init => IInv
  BY Initially
<1>2. IInv /\ [Next]_vars => IInv'
  BY TypeStep, LifetimeStep, LinesStep, ExitStep, StatusStep DEF IInv
<1> QED BY <1>1, <1>2, PTL DEF Spec

-----------------------------------------------------------------------------
(* The results.                                                              *)

\* The two processes and the pipe have their types: in particular the pipe never
\* holds more than it can.
THEOREM TypeCorrect == Spec => []TypeOK
<1>1. IInv => TypeOK
  BY DEF IInv
<1> QED BY <1>1, Inductive, PTL

\* PAM_SUCCESS stands for an approval of a phone paired with this user and a
\* password that is the user's, and for nothing else.
THEOREM AccessIsEarned == Spec => []SuccessIsEarned
<1>1. IInv => SuccessIsEarned
  <2> SUFFICES ASSUME IInv, returned # "none"
               PROVE  returned = "PAM_SUCCESS" <=> Granted
    BY DEF SuccessIsEarned
  <2>1. /\ pamPc = "done" /\ authPc \in {"none", "dead"}
        /\ returned = "PAM_SUCCESS" <=> status = 0
        /\ IF authPc = "dead" /\ ~hostReaps THEN status = exitStatus ELSE status # 0
    BY DEF IInv, StatusIsKept, Lifetime
  <2>2. ASSUME status = 0 PROVE Granted
    BY <2>1, <2>2 DEF IInv, ExitIsEarned, Granted
  <2>3. ASSUME Granted PROVE status = 0
    BY <2>1, <2>3 DEF IInv, ExitIsEarned, Granted
  <2> QED BY <2>1, <2>2, <2>3
<1> QED BY <1>1, Inductive, PTL

\* No line of pcbu_auth is lost, however it ends.
THEOREM LinesAreShown == Spec => []EveryLineIsShown
<1>1. IInv => EveryLineIsShown
  BY DEF IInv, TypeOK, StatusIsKept, LinesAreKept, EveryLineIsShown
<1> QED BY <1>1, Inductive, PTL

\* pam_sm_authenticate and pcbu_auth are never both blocked by the pipe or by
\* each other: a full pipe is being read, and an empty one is waited for only
\* while pcbu_auth can go on.
THEOREM NobodyIsStuck == Spec => []NobodyWaitsForGood
<1>1. IInv => NobodyWaitsForGood
  <2> SUFFICES ASSUME IInv, pamPc # "done" PROVE PamReady \/ PcbuAuthReady
    BY DEF NobodyWaitsForGood
  <2> USE DEF PamReady, PcbuAuthReady
  <2>1. CASE pamPc = "read"
    <3>1. authPc \in {"setuid", "getResult", "judge", "wrong", "dead"}
      BY <2>1 DEF IInv, TypeOK, Lifetime
    <3>2. pipe > 0 \/ pipe < PipeSize
      BY PamAssumption DEF IInv, TypeOK
    <3> QED BY <2>1, <3>1, <3>2
  <2>2. CASE pamPc = "close"
    BY <2>2 DEF IInv, Lifetime
  <2>3. CASE pamPc \in {"items", "open", "verdict"}
    BY <2>3
  <2> QED BY <2>1, <2>2, <2>3 DEF IInv, TypeOK
<1> QED BY <1>1, Inductive, PTL

\* How many steps the two processes have left at most: the places they still
\* pass, the lines that may still be printed and those that may still be shown.
PamStepsLeft ==
    CASE pamPc = "items" -> 5 [] pamPc = "open"    -> 4 [] pamPc = "read" -> 3
      [] pamPc = "close" -> 2 [] pamPc = "verdict" -> 1 [] OTHER          -> 0

AuthStepsLeft ==
    CASE authPc = "none"      -> 5 [] authPc = "setuid" -> 4
      [] authPc = "getResult" -> 3 [] authPc = "judge"  -> 2
      [] authPc = "wrong"     -> 1 [] OTHER             -> 0

StepsLeft ==
    PamStepsLeft + AuthStepsLeft + (MaxLines + 2 - printed) + (MaxLines + 2 - shown)

LEMMA StepsAreCounted == ASSUME TypeOK PROVE StepsLeft \in Nat
<1>1. PamStepsLeft \in Nat /\ AuthStepsLeft \in Nat
  BY DEF PamStepsLeft, AuthStepsLeft
<1> QED BY <1>1, PamAssumption DEF TypeOK, StepsLeft

LEMMA SumGetsLess ==
    ASSUME NEW m \in Int, NEW a \in Int, NEW b \in Int, NEW p \in Int, NEW s \in Int,
           NEW a2 \in Int, NEW b2 \in Int, NEW p2 \in Int, NEW s2 \in Int,
           a2 <= a, b2 <= b, p <= p2, s <= s2,
           a2 < a \/ b2 < b \/ p < p2 \/ s < s2
    PROVE  a2 + b2 + (m + 2 - p2) + (m + 2 - s2) < a + b + (m + 2 - p) + (m + 2 - s)
OBVIOUS

LEMMA StepsGetFewer == ASSUME IInv, IInv', Next PROVE StepsLeft' < StepsLeft
<1> USE DEF lineVars
<1>0. /\ printed \in Int /\ shown \in Int /\ printed' \in Int /\ shown' \in Int
      /\ PamStepsLeft \in Int /\ AuthStepsLeft \in Int
      /\ PamStepsLeft' \in Int /\ AuthStepsLeft' \in Int
  BY PamAssumption DEF IInv, TypeOK, PamStepsLeft, AuthStepsLeft
<1> SUFFICES
        /\ PamStepsLeft' <= PamStepsLeft /\ AuthStepsLeft' <= AuthStepsLeft
        /\ printed <= printed' /\ shown <= shown'
        /\ \/ PamStepsLeft' < PamStepsLeft \/ AuthStepsLeft' < AuthStepsLeft
           \/ printed < printed' \/ shown < shown'
  <2>1. MaxLines \in Int
    BY PamAssumption
  <2> QED BY <1>0, <2>1, SumGetsLess DEF StepsLeft
<1>1. ASSUME PrintLine \/ UNCHANGED lineVars
      PROVE  printed <= printed' /\ shown' = shown
  BY <1>0, <1>1 DEF PrintLine
<1>2. CASE PcbuAuth \/ GetResult \/ GetResultDies
  <2>1. PamStepsLeft' = PamStepsLeft
    BY <1>2 DEF PcbuAuth, SetUid, Judge, WrongPassword, GetResult, GetResultDies,
       PamStepsLeft
  <2>2. AuthStepsLeft' < AuthStepsLeft
    <3> USE DEF AuthStepsLeft
    <3>1. CASE SetUid
      BY <3>1 DEF SetUid, Exit
    <3>2. CASE GetResult \/ GetResultDies
      BY <3>2 DEF GetResult, GetResultDies, Exit
    <3>3. CASE Judge \/ WrongPassword
      BY <3>3 DEF Judge, WrongPassword, Exit
    <3> QED BY <1>2, <3>1, <3>2, <3>3 DEF PcbuAuth
  <2>3. PrintLine \/ UNCHANGED lineVars
    BY <1>2 DEF PcbuAuth, SetUid, Judge, WrongPassword, GetResult, GetResultDies
  <2> QED BY <1>0, <1>1, <2>1, <2>2, <2>3
<1>3. CASE PrintMessage
  <2>1. PamStepsLeft' = PamStepsLeft /\ AuthStepsLeft' = AuthStepsLeft
    BY <1>3 DEF PrintMessage, PamStepsLeft, AuthStepsLeft
  <2>2. printed' = printed + 1 /\ shown' = shown
    BY <1>3 DEF PrintMessage, PrintLine
  <2> QED BY <1>0, <2>1, <2>2
<1>4. CASE ReadLines
  <2>1. AuthStepsLeft' = AuthStepsLeft /\ printed' = printed
    BY <1>4 DEF ReadLines, AuthStepsLeft
  <2>2. \/ shown' = shown + 1 /\ PamStepsLeft' = PamStepsLeft
        \/ shown' = shown /\ PamStepsLeft' < PamStepsLeft
    BY <1>4 DEF ReadLines, PamStepsLeft
  <2> QED BY <1>0, <2>1, <2>2
<1>5. CASE GetItems \/ Open \/ Close \/ Verdict
  <2>1. printed' = printed /\ shown' = shown
    BY <1>5 DEF GetItems, Open, Close, Verdict
  <2>2. PamStepsLeft' < PamStepsLeft
    BY <1>5 DEF GetItems, Open, Close, Verdict, PamReturn, PamStepsLeft
  <2>3. AuthStepsLeft' <= AuthStepsLeft
    BY <1>5 DEF GetItems, Open, Close, Verdict, AuthStepsLeft, IInv, Lifetime
  <2> QED BY <1>0, <2>1, <2>2, <2>3
<1> QED BY <1>2, <1>3, <1>4, <1>5 DEF Next, Pam

\* pam_sm_authenticate returns after a number of steps that the constants bound:
\* every step of the two processes leaves fewer.  With NobodyIsStuck it is what
\* PamReturns rests on besides fairness.
THEOREM StepsAreBounded == Spec => [][StepsLeft' < StepsLeft]_vars /\ [](StepsLeft \in Nat)
<1>1. IInv /\ IInv' /\ [Next]_vars => [StepsLeft' < StepsLeft]_vars
  BY StepsGetFewer
<1>2. IInv => StepsLeft \in Nat
  BY StepsAreCounted DEF IInv
<1> QED BY <1>1, <1>2, Inductive, PTL DEF Spec

\* PAM_AUTH_ERR is never returned: no wait status of pcbu_auth is 1, and none of
\* a child that could not run it.
THEOREM RejectionsAreIgnored == Spec => [](returned # "PAM_AUTH_ERR")
<1> DEFINE NotRejected == returned # "PAM_AUTH_ERR"
<1>1. Init => NotRejected
  BY DEF Init
<1>2. IInv /\ NotRejected /\ [Next]_vars => NotRejected'
  <2> SUFFICES ASSUME IInv, NotRejected, [Next]_vars PROVE NotRejected'
    OBVIOUS
  <2>1. status # 1
    BY DEF IInv, TypeOK, WaitStatuses, Signals, SIGABRT, SIGSEGV, SIGPIPE, ExecErrors
  <2>2. CASE Verdict \/ GetItems
    BY <2>1, <2>2 DEF Verdict, GetItems, PamReturn
  <2>3. CASE ~(Verdict \/ GetItems)
    BY <2>3 DEF Next, Pam, PcbuAuth, SetUid, Judge, WrongPassword, PrintMessage,
       GetResult, GetResultDies, Open, ReadLines, Close, vars
  <2> QED BY <2>2, <2>3
<1> QED BY <1>1, <1>2, Inductive, PTL DEF Spec
=============================================================================
