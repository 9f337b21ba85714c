------------------------------ MODULE PamAuth ------------------------------
(* pam_sm_authenticate (pam-pcbiounlock/src/pam_auth.cpp) and the program it *)
(* runs, pcbu_auth (pam-pcbiounlock/pcbu-auth/src/main.cpp): two processes,  *)
(* a pipe with the lines pcbu_auth prints, and its wait status.              *)
(*                                                                           *)
(* UnlockHandler::GetResult is one step here; its own module has the rest.   *)
EXTENDS PairedDevice, UnlockState, Integers

CONSTANTS Users,      \* the users of the machine
          MaxDevices, \* the longest file of paired devices
          PipeSize,   \* how many lines the pipe holds
          MaxLines    \* how many lines GetResult prints at most

ASSUME PamAssumption ==
    /\ MaxDevices \in Nat
    /\ PipeSize \in Nat \ {0}
    /\ MaxLines \in Nat

VARIABLES userName,   \* who authenticates
          file,       \* the paired devices
          hostReaps,  \* the host program ignores SIGCHLD, so the kernel throws
                      \* the status of its children away
          pamPc,      \* where pam_sm_authenticate is
          authPc,     \* where main of pcbu_auth is
          result,     \* what GetResult returned: its state and its device
          checked,    \* what CheckPassword found, or "none"
          exitStatus, \* the wait status of pcbu_auth once it is dead
          status,     \* status_ of the redi::ipstream
          pipe,       \* the lines in the pipe
          printed,    \* the lines pcbu_auth has printed
          shown,      \* the lines print_pam has shown
          returned    \* what pam_sm_authenticate returned, or "none"

lineVars == <<pipe, printed, shown>>
world == <<userName, file, hostReaps>>
vars == <<world, pamPc, authPc, result, checked, exitStatus, status, lineVars,
          returned>>

Files == UNION {[1 .. n -> Entries(Users)] : n \in 0 .. MaxDevices}

NoDevice == [userName |-> "none", readable |-> FALSE]

\* The status wait() reports: 256 times the low 8 bits of the exit code (which is
\* not below -256), or the signal.
Exited(code) == ((256 + code) % 256) * 256
SIGABRT == 6
SIGSEGV == 11
SIGPIPE == 13

Signals == {SIGABRT, SIGSEGV, SIGPIPE}
WaitStatuses == {0, 256, 65280} \cup Signals

\* execvp() failed: the child exits with errno (here EPERM or ENOENT).
EPERM == 1
ENOENT == 2
ExecErrors == {256, 512}

TypeOK ==
    /\ userName \in Users
    /\ file \in Files
    /\ hostReaps \in BOOLEAN
    /\ pamPc \in {"items", "open", "read", "close", "verdict", "done"}
    /\ authPc \in {"none", "setuid", "getResult", "judge", "wrong", "dead"}
    /\ result \in [state : UnlockStates, device : Entries(Users) \cup {NoDevice}]
    /\ checked \in {"none", "match", "mismatch"}
    /\ exitStatus \in {-1} \cup WaitStatuses
    /\ status \in {-1} \cup WaitStatuses \cup ExecErrors
    /\ pipe \in 0 .. PipeSize
    /\ printed \in 0 .. MaxLines + 2
    /\ shown \in 0 .. MaxLines + 2
    /\ returned \in {"none", "PAM_SUCCESS", "PAM_AUTH_ERR", "PAM_IGNORE"}

Init ==
    /\ userName \in Users
    /\ file \in Files
    /\ hostReaps \in BOOLEAN
    /\ pamPc = "items"
    /\ authPc = "none"
    /\ result = [state |-> "UNKNOWN", device |-> NoDevice]
    /\ checked = "none"
    /\ exitStatus = -1
    /\ status = -1
    /\ pipe = 0 /\ printed = 0 /\ shown = 0
    /\ returned = "none"

-----------------------------------------------------------------------------
(* pcbu_auth.                                                                *)

\* printf of a line: the pipe must have room, and nothing is buffered.
PrintLine ==
    /\ pipe < PipeSize
    /\ pipe' = pipe + 1
    /\ printed' = printed + 1
    /\ UNCHANGED shown

Exit(waitStatus) == authPc' = "dead" /\ exitStatus' = waitStatus

SetUid ==
    /\ authPc = "setuid"
    /\ \/ authPc' = "getResult" /\ UNCHANGED <<exitStatus, lineVars>>
       \/ PrintLine /\ Exit(Exited(-1))
    /\ UNCHANGED <<world, pamPc, result, checked, status, returned>>

\* The workers of GetResult report their progress.
PrintMessage ==
    /\ authPc = "getResult"
    /\ printed < MaxLines
    /\ PrintLine
    /\ UNCHANGED <<world, pamPc, authPc, result, checked, exitStatus, status,
                   returned>>

\* GetResult: a user without devices is told so; else one of the user's phones
\* decides.
GetResult ==
    /\ authPc = "getResult"
    /\ authPc' = "judge"
    /\ LET devices == GetDevicesForUser(file, userName) IN
          \/ /\ devices = {}
             /\ result' = [state |-> "NOT_PAIRED_ERROR", device |-> NoDevice]
             /\ PrintLine
          \/ /\ \E i \in devices, state \in ThreadVerdicts \cup HandlerVerdicts :
                   result' = [state |-> state, device |-> file[i]]
             /\ UNCHANGED lineVars
    /\ UNCHANGED <<world, pamPc, checked, exitStatus, status, returned>>

\* GetResult can end the process: by a write to a phone that has hung up, or by
\* the scanner of the keyboards (KeyScanner).
GetResultDies ==
    /\ authPc = "getResult"
    /\ \E signal \in Signals : Exit(signal)
    /\ UNCHANGED <<world, pamPc, result, checked, status, lineVars, returned>>

\* A slip: whoever owns the phone is let in.
JudgeWithoutPassword ==
    /\ authPc = "judge"
    /\ \/ result.state = "SUCCESS" /\ Exit(Exited(0))
       \/ result.state # "SUCCESS" /\ Exit(Exited(1))
    /\ UNCHANGED <<world, pamPc, result, checked, status, lineVars, returned>>

\* After a success CheckPassword compares the password with the system's.  It
\* crashes where crypt() returns no hash to compare.
Judge ==
    /\ authPc = "judge"
    /\ \/ /\ result.state = "SUCCESS" /\ result.device.userName = userName
          /\ \/ checked' = "match" /\ Exit(Exited(0))
             \/ UNCHANGED checked /\ Exit(SIGSEGV)
       \/ /\ result.state = "SUCCESS"
          /\ checked' = IF result.device.userName = userName THEN "mismatch"
                                                             ELSE checked
          /\ authPc' = "wrong" /\ UNCHANGED exitStatus
       \/ /\ result.state \in {"TIMEOUT", "CONNECT_ERROR"}
          /\ Exit(Exited(-1)) /\ UNCHANGED checked
       \/ /\ result.state \notin {"SUCCESS", "TIMEOUT", "CONNECT_ERROR"}
          /\ Exit(Exited(1)) /\ UNCHANGED checked
    /\ UNCHANGED <<world, pamPc, result, status, lineVars, returned>>

\* "error_password" is printed, and 1 returned.
WrongPassword ==
    /\ authPc = "wrong"
    /\ PrintLine
    /\ Exit(Exited(1))
    /\ UNCHANGED <<world, pamPc, result, checked, status, returned>>

-----------------------------------------------------------------------------
(* pam_sm_authenticate.                                                      *)

PamReturn(value) == pamPc' = "done" /\ returned' = value

\* pam_get_item and pam_get_user.
GetItems ==
    /\ pamPc = "items"
    /\ \/ pamPc' = "open" /\ UNCHANGED returned
       \/ PamReturn("PAM_IGNORE")
    /\ UNCHANGED <<world, authPc, result, checked, exitStatus, status, lineVars>>

\* A slip: the error of a failed execvp() is taken for the status.
OpenKeepsErrno ==
    /\ pamPc = "open"
    /\ \/ /\ pamPc' = "read"
          /\ authPc' = "setuid"
          /\ UNCHANGED status
       \/ /\ pamPc' = "verdict"
          /\ status' \in {-1, EPERM, ENOENT}
          /\ UNCHANGED authPc
    /\ UNCHANGED <<world, result, checked, exitStatus, lineVars, returned>>

\* redi::ipstream: fork() and execvp() succeed or fail.  After a failure there
\* is nothing to read, and close() returns what the child exited with.
Open ==
    /\ pamPc = "open"
    /\ \/ /\ pamPc' = "read"
          /\ authPc' = "setuid"
          /\ UNCHANGED status
       \/ /\ pamPc' = "verdict"
          /\ status' \in {-1, Exited(EPERM), Exited(ENOENT)}
          /\ hostReaps => status' = -1
          /\ UNCHANGED authPc
    /\ UNCHANGED <<world, result, checked, exitStatus, lineVars, returned>>

\* Slips: wait for the program and then read what it printed; stop reading at
\* its first line.
ReadAfterExit ==
    /\ pamPc = "read"
    /\ authPc = "dead"
    /\ \/ pipe > 0 /\ pipe' = pipe - 1 /\ shown' = shown + 1 /\ UNCHANGED pamPc
       \/ pipe = 0 /\ pamPc' = "close" /\ UNCHANGED <<pipe, shown>>
    /\ UNCHANGED <<world, authPc, result, checked, exitStatus, status, printed,
                   returned>>

ReadOneLine ==
    /\ pamPc = "read"
    /\ \/ pipe > 0 /\ pipe' = pipe - 1 /\ shown' = shown + 1
       \/ pipe = 0 /\ authPc = "dead" /\ UNCHANGED <<pipe, shown>>
    /\ pamPc' = "close"
    /\ UNCHANGED <<world, authPc, result, checked, exitStatus, status, printed,
                   returned>>

\* std::getline shows line after line until the program is dead and the pipe
\* empty.
ReadLines ==
    /\ pamPc = "read"
    /\ \/ pipe > 0 /\ pipe' = pipe - 1 /\ shown' = shown + 1 /\ UNCHANGED pamPc
       \/ /\ pipe = 0 /\ authPc = "dead"
          /\ pamPc' = "close" /\ UNCHANGED <<pipe, shown>>
    /\ UNCHANGED <<world, authPc, result, checked, exitStatus, status, printed,
                   returned>>

\* close() waits for the program and keeps the wait status as it is.
Close ==
    /\ pamPc = "close"
    /\ authPc = "dead"
    /\ pamPc' = "verdict"
    /\ status' = IF hostReaps THEN -1 ELSE exitStatus
    /\ UNCHANGED <<world, authPc, result, checked, exitStatus, lineVars, returned>>

Verdict ==
    /\ pamPc = "verdict"
    /\ PamReturn(CASE status = 0 -> "PAM_SUCCESS"
                   [] status = 1 -> "PAM_AUTH_ERR"
                   [] OTHER      -> "PAM_IGNORE")
    /\ UNCHANGED <<world, authPc, result, checked, exitStatus, status, lineVars>>

-----------------------------------------------------------------------------
Pam == GetItems \/ Open \/ ReadLines \/ Close \/ Verdict
PcbuAuth == SetUid \/ Judge \/ WrongPassword

Next == Pam \/ PcbuAuth \/ PrintMessage \/ GetResult \/ GetResultDies

Spec == Init /\ [][Next]_vars

\* Both processes run; how long GetResult takes is not their affair.
FairSpec == Spec /\ WF_vars(Pam) /\ WF_vars(PcbuAuth)

-----------------------------------------------------------------------------
(* Properties.                                                               *)

\* pam_sm_authenticate grants access exactly when a phone paired with this user
\* has approved and the password it sent is the user's, provided the host lets
\* the module have the status of its child.
Granted ==
    /\ result.state = "SUCCESS"
    /\ \E i \in DOMAIN file : file[i].userName = userName /\ file[i] = result.device
    /\ checked = "match"
    /\ ~hostReaps

SuccessIsEarned == returned # "none" => (returned = "PAM_SUCCESS" <=> Granted)

\* Every line pcbu_auth printed was shown before the verdict, whatever it died
\* of.
EveryLineIsShown == returned # "none" => shown = printed

\* The two processes never wait for each other: until pam_sm_authenticate has
\* returned, it or pcbu_auth can go on.  (The conditions are the guards of their
\* steps; GetResult prints, so that it, too, waits for the reader.)
PamReady ==
    \/ pamPc \in {"items", "open", "verdict"}
    \/ pamPc = "read" /\ (pipe > 0 \/ authPc = "dead")
    \/ pamPc = "close" /\ authPc = "dead"

PcbuAuthReady ==
    \/ authPc \in {"setuid", "judge"}
    \/ authPc \in {"getResult", "wrong"} /\ pipe < PipeSize

NobodyWaitsForGood == pamPc # "done" => PamReady \/ PcbuAuthReady

\* pam_sm_authenticate comes back unless GetResult does not: no print blocks for
\* good on a full pipe.
PamReturns == pamPc = "read" ~> returned # "none" \/ authPc = "getResult"

\* The code maps pcbu_auth's exit code 1 (rejected, cancelled, wrong password)
\* to PAM_AUTH_ERR.
RejectionIsReported ==
    returned # "none" /\ exitStatus = Exited(1) /\ ~hostReaps =>
        returned = "PAM_AUTH_ERR"
=============================================================================
