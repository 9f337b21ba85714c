---------------------------- MODULE RunServerProofs ----------------------------
(* The safety invariants of RunServer with its server and its scanner, for   *)
(* any packets and keyboards, and that the server implements the contract    *)
(* BaseUnlockServer.                                                         *)
EXTENDS RunServer, TLAPS

-----------------------------------------------------------------------------
(* The inductive invariant of the server, one part per idea.                 *)

\* Start() makes the one thread there is.
OneThread == ownerPc = "new" => threadPc = "none"

\* Before AcceptThread has accepted anybody.
Unaccepted == {"none", "loop", "select", "leave", "accept"}

\* A socket that is open is in its field until somebody has closed it, and
\* nobody resets a field that may yet be filled.
SocketsAreNamed ==
    /\ \A x \in Sockets : x \in sockets => field[x]
    /\ threadPc \in Unaccepted => ~field["client"]
    /\ threadPc \in {"resetClient", "closeServer", "resetServer", "return",
                      "ended"} => "client" \notin sockets
    /\ threadPc \in {"resetServer", "return", "ended"} => "server" \notin sockets
    /\ ownerPc = "resetClient" =>
           "client" \notin sockets /\ threadPc \notin Unaccepted
    /\ ownerPc = "resetServer" => "server" \notin sockets

\* There is one verdict, and a thread without one has had no phone.
Undecided == {"read", "inRead", "elsewhere", "respond", "verdict"}

OneVerdict ==
    /\ threadPc \in Unaccepted \cup {"accepted"} \cup Undecided =>
           m_UnlockState = "UNKNOWN"
    /\ threadPc \in (Unaccepted \cup {"accepted"} \cup Undecided) \ {"verdict"} =>
           m_ResponseData = "none"
    /\ threadPc \notin Undecided /\ m_UnlockState = "UNKNOWN" =>
           m_HasConnection = FALSE /\ m_ResponseData = "none"

\* A thread that may still wait for the phone has its flag up until Stop() lowers
\* it, and Stop() then waits for the thread.
Running == (Unaccepted \ {"none"}) \cup Undecided
               \cup {"accepted", "closeClient", "resetClient"}

Stopping == {"stop", "closeClient", "resetClient", "closeServer", "resetServer",
             "lowerFlags"}

StopComesFirst ==
    /\ threadPc \in Running =>
          ownerPc = "join" \/ (ownerPc \in {"poll"} \cup Stopping /\ m_IsRunning)
    /\ ownerPc = "join" => ~m_IsRunning
    /\ threadPc = "none" => ownerPc \in {"new", "delete", "gone"}
    /\ threadPc \in {"accepted", "read", "inRead"} => phone \in {"connected", "gone"}

ServerIInv ==
    TypeOK /\ OneThread /\ SocketsAreNamed /\ OneVerdict /\ StopComesFirst

-----------------------------------------------------------------------------
(* Type correctness.                                                         *)

LEMMA NoPacketIsRead == NoPacket \in {AsRead(p) : p \in Packets}
<1>1. AsRead(NoPacket) = NoPacket
  BY DEF AsRead, NoPacket, ReadSize
<1> QED BY <1>1, PacketAssumption

LEMMA JudgementIsAVerdict ==
    /\ \A p : Judgement(p) \in ThreadVerdicts \ {"SUCCESS"}
    /\ \A r : TokenVerdict(r) \in ThreadVerdicts
    /\ \A r : TokenVerdict(r) = "SUCCESS" <=> r = "ours"
BY DEF Judgement, TokenVerdict, ThreadVerdicts

LEMMA TypeInit == ASSUME Init PROVE TypeOK
BY NoPacketIsRead DEF Init, TypeOK, ThreadPcs, OwnerPcs, Sockets

\* A step of SAFE_CLOSE.
LEMMA ClosingKeepsTypes ==
    ASSUME TypeOK, NEW x \in Sockets, CloseIfSet(x) \/ Reset(x)
    PROVE  sockets' \subseteq Sockets /\ field' \in [Sockets -> BOOLEAN]
<1>1. field \in [Sockets -> BOOLEAN] /\ sockets \subseteq Sockets
  BY DEF TypeOK
<1> QED BY <1>1 DEF CloseIfSet, Reset

LEMMA TypeStep == ASSUME TypeOK, [Next]_vars PROVE TypeOK'
<1> USE DEF TypeOK, ThreadPcs, OwnerPcs, ThreadGoto, OwnerGoto, serverVars,
            socketVars
<1> DEFINE Booleans == m_IsRunning \in BOOLEAN /\ m_HasConnection \in BOOLEAN
<1>1. CASE Thread
  <2>1. CASE LoopTest \/ Select
    BY <2>1 DEF LoopTest, Select
  <2>2. CASE Leave \/ Connected
    BY <2>2 DEF Leave, Connected
  <2>3. CASE Accept
    <3>1. CASE threadPc' = "accepted"
      BY <2>3, <3>1 DEF Accept, Sockets
    <3>2. CASE threadPc' = "leave"
      BY <2>3, <3>2 DEF Accept
    <3> QED BY <2>3, <3>1, <3>2 DEF Accept
  <2>4. CASE CallRead \/ ReadEnds
    BY <2>4, NoPacketIsRead DEF CallRead, ReadEnds
  <2>5. CASE Respond
    <3>1. IsAnswer(received) => received.content \in Answers
      BY DEF IsAnswer
    <3> QED BY <2>5, <3>1, JudgementIsAVerdict DEF Respond, ThreadVerdicts
  <2>6. CASE CompareToken
    BY <2>6, JudgementIsAVerdict DEF CompareToken
  <2>7. CASE ThreadCloses
    <3>1. /\ threadPc' \in ThreadPcs
          /\ \E x \in Sockets : CloseIfSet(x) \/ Reset(x)
      BY <2>7 DEF ThreadCloses, ThreadSafeClose, Closing, Resetting, Sockets
    <3> QED BY <2>7, <3>1, ClosingKeepsTypes DEF ThreadCloses
  <2>8. CASE ThreadReturns
    BY <2>8 DEF ThreadReturns
  <2> QED
    BY <1>1, <2>1, <2>2, <2>3, <2>4, <2>5, <2>6, <2>7, <2>8 DEF Thread
<1>2. CASE ElsewhereDelivers \/ PhoneSends \/ PhoneMoves
  BY <1>2 DEF ElsewhereDelivers, PhoneSends, PhoneMoves
<1>3. CASE StartServer
  <2>1. Booleans'
    BY <1>3, Zenon DEF StartServer
  <2>2. /\ sockets' \subseteq Sockets
        /\ field' \in [Sockets -> BOOLEAN]
    BY <1>3 DEF StartServer, Sockets
  <2>3. threadPc' \in ThreadPcs /\ ownerPc' \in OwnerPcs
    BY <1>3 DEF StartServer
  <2> QED BY <1>3, <2>1, <2>2, <2>3 DEF StartServer
<1>4. CASE Stop
  <2>1. CASE CheckRunning \/ LowerFlags \/ JoinThread
    BY <2>1 DEF CheckRunning, LowerFlags, JoinThread
  <2>2. CASE OwnerCloses
    <3>1. /\ ownerPc' \in OwnerPcs
          /\ \E x \in Sockets : CloseIfSet(x) \/ Reset(x)
      BY <2>2 DEF OwnerCloses, OwnerSafeClose, Closing, Resetting, Sockets
    <3> QED BY <2>2, <3>1, ClosingKeepsTypes DEF OwnerCloses
  <2> QED BY <1>4, <2>1, <2>2 DEF Stop
<1>5. CASE LeaveLoop \/ OwnerLeaves \/ UNCHANGED vars
  BY <1>5 DEF LeaveLoop, OwnerLeaves, vars
<1> QED BY <1>1, <1>2, <1>3, <1>4, <1>5 DEF Next

-----------------------------------------------------------------------------
(* The parts of the invariant.                                               *)

LEMMA ThreadStep == ASSUME OneThread, [Next]_vars PROVE OneThread'
<1> USE DEF OneThread, ThreadGoto, OwnerGoto
<1>1. CASE Thread
  BY <1>1 DEF Thread, LoopTest, Select, Leave, Accept, Connected, CallRead, ReadEnds,
     Respond, CompareToken, ThreadCloses, ThreadSafeClose, ThreadReturns, Closing,
     Resetting
<1>2. CASE ElsewhereDelivers \/ PhoneSends \/ PhoneMoves \/ UNCHANGED vars
  BY <1>2 DEF ElsewhereDelivers, PhoneSends, PhoneMoves, vars
<1>3. CASE StartServer \/ LeaveLoop \/ Stop \/ OwnerLeaves
  BY <1>3 DEF StartServer, LeaveLoop, Stop, CheckRunning, OwnerCloses,
     OwnerSafeClose, LowerFlags, JoinThread, OwnerLeaves, Closing, Resetting
<1> QED BY <1>1, <1>2, <1>3 DEF Next

LEMMA SocketStep ==
    ASSUME TypeOK, OneThread, SocketsAreNamed, [Next]_vars PROVE SocketsAreNamed'
<1> USE DEF SocketsAreNamed, Sockets, Unaccepted, socketVars
<1>0. field \in [Sockets -> BOOLEAN] /\ sockets \subseteq Sockets
  BY DEF TypeOK
<1>1. CASE Thread
  <2> USE DEF ThreadGoto
  <2>1. CASE LoopTest \/ Select \/ Leave \/ Connected
    BY <2>1 DEF LoopTest, Select, Leave, Connected
  <2>2. CASE Accept
    BY <1>0, <2>2 DEF Accept
  <2>3. CASE CallRead \/ ReadEnds \/ Respond \/ CompareToken
    BY <2>3 DEF CallRead, ReadEnds, Respond, CompareToken
  <2>4. CASE ThreadCloses
    <3> USE DEF ThreadCloses, ThreadSafeClose, CloseIfSet, Reset, Closing, Resetting
    <3>1. CASE threadPc = "closeClient"
      BY <1>0, <2>4, <3>1
    <3>2. CASE threadPc = "resetClient"
      BY <1>0, <2>4, <3>2
    <3>3. CASE threadPc = "closeServer"
      BY <1>0, <2>4, <3>3
    <3>4. CASE threadPc = "resetServer"
      BY <1>0, <2>4, <3>4
    <3> QED BY <2>4, <3>1, <3>2, <3>3, <3>4
  <2>5. CASE ThreadReturns
    BY <2>5 DEF ThreadReturns
  <2> QED BY <1>1, <2>1, <2>2, <2>3, <2>4, <2>5 DEF Thread
<1>2. CASE ElsewhereDelivers \/ PhoneSends \/ PhoneMoves \/ UNCHANGED vars
  BY <1>2 DEF ElsewhereDelivers, PhoneSends, PhoneMoves, ThreadGoto, vars
<1>3. CASE StartServer
  BY <1>0, <1>3 DEF StartServer, OneThread, OwnerGoto
<1>4. CASE Stop
  <2> USE DEF OwnerGoto
  <2>1. CASE CheckRunning \/ LowerFlags \/ JoinThread
    BY <2>1 DEF CheckRunning, LowerFlags, JoinThread
  <2>2. CASE OwnerCloses
    <3> USE DEF OwnerCloses, OwnerSafeClose, CloseIfSet, Reset, Closing, Resetting
    <3>1. CASE ownerPc = "closeClient"
      BY <1>0, <2>2, <3>1
    <3>2. CASE ownerPc = "resetClient"
      BY <1>0, <2>2, <3>2
    <3>3. CASE ownerPc = "closeServer"
      BY <1>0, <2>2, <3>3
    <3>4. CASE ownerPc = "resetServer"
      BY <1>0, <2>2, <3>4
    <3> QED BY <2>2, <3>1, <3>2, <3>3, <3>4
  <2> QED BY <1>4, <2>1, <2>2 DEF Stop
<1>5. CASE LeaveLoop \/ OwnerLeaves
  BY <1>5 DEF LeaveLoop, OwnerLeaves, OwnerGoto
<1> QED BY <1>1, <1>2, <1>3, <1>4, <1>5 DEF Next

LEMMA VerdictStep ==
    ASSUME OneThread, OneVerdict, [Next]_vars PROVE OneVerdict'
<1> USE DEF OneVerdict, Undecided, Unaccepted, serverVars
<1>1. CASE Thread
  <2> USE DEF ThreadGoto
  <2>1. CASE LoopTest \/ Select \/ Leave \/ Connected
    BY <2>1 DEF LoopTest, Select, Leave, Connected
  <2>2. CASE Accept
    BY <2>2 DEF Accept
  <2>3. CASE CallRead \/ ReadEnds
    BY <2>3 DEF CallRead, ReadEnds
  <2>4. CASE Respond
    BY <2>4, JudgementIsAVerdict DEF Respond, ThreadVerdicts
  <2>5. CASE CompareToken
    BY <2>5, JudgementIsAVerdict DEF CompareToken, ThreadVerdicts
  <2>6. CASE ThreadCloses
    BY <2>6 DEF ThreadCloses, ThreadSafeClose, Closing, Resetting
  <2>7. CASE ThreadReturns
    BY <2>7 DEF ThreadReturns
  <2> QED BY <1>1, <2>1, <2>2, <2>3, <2>4, <2>5, <2>6, <2>7 DEF Thread
<1>2. CASE ElsewhereDelivers \/ PhoneSends \/ PhoneMoves \/ UNCHANGED vars
  BY <1>2 DEF ElsewhereDelivers, PhoneSends, PhoneMoves, ThreadGoto, vars
<1>3. CASE StartServer
  BY <1>3 DEF StartServer, OneThread, OwnerGoto
<1>4. CASE Stop
  BY <1>4 DEF Stop, CheckRunning, OwnerCloses, LowerFlags, JoinThread
<1>5. CASE LeaveLoop \/ OwnerLeaves
  BY <1>5 DEF LeaveLoop, OwnerLeaves
<1> QED BY <1>1, <1>2, <1>3, <1>4, <1>5 DEF Next

LEMMA StopStep ==
    ASSUME TypeOK, OneThread, StopComesFirst, [Next]_vars PROVE StopComesFirst'
<1> USE DEF StopComesFirst, Running, Stopping, Unaccepted, Undecided, serverVars
<1>0. phone \in {"away", "calling", "connected", "gone"}
  BY DEF TypeOK
<1>1. CASE Thread
  <2> USE DEF ThreadGoto
  <2>1. CASE LoopTest \/ Select
    BY <2>1 DEF LoopTest, Select
  <2>2. CASE Leave \/ Connected
    BY <2>2 DEF Leave, Connected
  <2>3. CASE Accept
    BY <2>3 DEF Accept
  <2>4. CASE CallRead \/ ReadEnds
    BY <2>4 DEF CallRead, ReadEnds
  <2>5. CASE Respond \/ CompareToken
    BY <2>5 DEF Respond, CompareToken
  <2>6. CASE ThreadCloses
    BY <2>6 DEF ThreadCloses, ThreadSafeClose, Closing, Resetting
  <2>7. CASE ThreadReturns
    BY <2>7 DEF ThreadReturns
  <2> QED BY <1>1, <2>1, <2>2, <2>3, <2>4, <2>5, <2>6, <2>7 DEF Thread
<1>2. CASE ElsewhereDelivers \/ PhoneSends \/ PhoneMoves \/ UNCHANGED vars
  BY <1>0, <1>2 DEF ElsewhereDelivers, PhoneSends, PhoneMoves, ThreadGoto, vars
<1>3. CASE StartServer
  BY <1>3 DEF StartServer, OneThread, OwnerGoto
<1>4. CASE Stop
  <2> USE DEF OwnerGoto
  <2>1. CASE CheckRunning
    BY <2>1 DEF CheckRunning
  <2>2. CASE OwnerCloses
    BY <2>2 DEF OwnerCloses, OwnerSafeClose, Closing, Resetting
  <2>3. CASE LowerFlags \/ JoinThread
    BY <2>3 DEF LowerFlags, JoinThread
  <2> QED BY <1>4, <2>1, <2>2, <2>3 DEF Stop
<1>5. CASE LeaveLoop \/ OwnerLeaves
  BY <1>5 DEF LeaveLoop, OwnerLeaves, OwnerGoto
<1> QED BY <1>1, <1>2, <1>3, <1>4, <1>5 DEF Next

LEMMA ServerInitially == ASSUME Init PROVE ServerIInv
<1>1. TypeOK
  BY TypeInit
<1>2. OneThread
  BY DEF Init, OneThread
<1>3. SocketsAreNamed
  BY DEF Init, SocketsAreNamed, Sockets
<1>4. OneVerdict
  BY DEF Init, OneVerdict
<1>5. StopComesFirst
  BY DEF Init, StopComesFirst, Running, Unaccepted, Undecided
<1> QED BY <1>1, <1>2, <1>3, <1>4, <1>5 DEF ServerIInv

LEMMA ServerStep == ASSUME ServerIInv, [Next]_vars PROVE ServerIInv'
BY TypeStep, ThreadStep, SocketStep, VerdictStep, StopStep DEF ServerIInv

-----------------------------------------------------------------------------
(* The refinement of the contract.                                           *)

LEMMA Refines ==
    ASSUME ServerIInv, [Next]_vars
    PROVE  [Contract!ServerNext]_(Contract!serverVars)
<1> USE DEF ContractThread, ThreadGoto, OwnerGoto, serverVars
<1> DEFINE c == "server"
<1>0. /\ TypeOK /\ OneVerdict
      /\ ownerPc = "new" => threadPc = "none"
  BY DEF ServerIInv, OneThread
<1>1. ASSUME UNCHANGED serverVars, UNCHANGED ContractThread
      PROVE  UNCHANGED Contract!serverVars
  BY <1>1 DEF Contract!serverVars
<1>2. ASSUME Contract!Start(c) \/ Contract!StopSignal(c) \/ Contract!ServerThread(c)
      PROVE  Contract!ServerNext
  BY <1>2 DEF Contract!ServerNext
<1>3. CASE Thread
  <2> USE DEF OneVerdict, Undecided, Unaccepted
  <2>1. CASE LoopTest \/ Select
    BY <2>1, <1>1 DEF LoopTest, Select
  <2>2. CASE Leave
    <3>1. Contract!Finish(c)
      BY <1>0, <2>2 DEF Leave, Contract!Finish
    <3> QED BY <3>1, <1>2 DEF Contract!ServerThread
  <2>3. CASE Accept
    BY <2>3, <1>1 DEF Accept
  <2>4. CASE Connected
    <3>1. Contract!Connect(c)
      BY <1>0, <2>4 DEF Connected, Contract!Connect
    <3> QED BY <3>1, <1>2 DEF Contract!ServerThread
  <2>5. CASE CallRead \/ ReadEnds
    BY <2>5, <1>1 DEF CallRead, ReadEnds
  <2>6. CASE Respond
    <3>1. CASE threadPc' = "verdict"
      <4>1. received.content \in Answers
        BY <2>6, <3>1 DEF Respond, IsAnswer
      <4>2. Contract!StoreResponse(c, received.content)
        BY <1>0, <2>6, <3>1 DEF Respond, Contract!StoreResponse
      <4> QED BY <4>1, <4>2, <1>2 DEF Contract!ServerThread
    <3>2. CASE threadPc' = "closeClient"
      <4>1. m_UnlockState' \in ThreadVerdicts \ {"SUCCESS"}
        BY <2>6, <3>2, JudgementIsAVerdict DEF Respond, ThreadVerdicts
      <4>2. m_UnlockState' # "UNKNOWN"
        BY <4>1 DEF ThreadVerdicts
      <4>3. Contract!Conclude(c, m_UnlockState')
        BY <1>0, <2>6, <3>2, <4>1, <4>2 DEF Respond, Contract!Conclude
      <4> QED BY <4>1, <4>3, <1>2 DEF Contract!ServerThread
    <3> QED BY <2>6, <3>1, <3>2 DEF Respond
  <2>7. CASE CompareToken
    <3>1. /\ m_UnlockState' \in ThreadVerdicts
          /\ m_UnlockState' = "SUCCESS" <=> m_ResponseData = "ours"
      BY <2>7, JudgementIsAVerdict DEF CompareToken
    <3>2. m_UnlockState' # "UNKNOWN"
      BY <3>1 DEF ThreadVerdicts
    <3>3. Contract!Conclude(c, m_UnlockState')
      BY <1>0, <2>7, <3>1, <3>2 DEF CompareToken, Contract!Conclude
    <3> QED BY <3>1, <3>3, <1>2 DEF Contract!ServerThread
  <2>8. CASE ThreadCloses
    <3>1. {threadPc, threadPc'} \subseteq {"closeClient", "resetClient",
                                          "closeServer", "resetServer", "return"}
      BY <2>8 DEF ThreadCloses, ThreadSafeClose, Closing, Resetting
    <3> QED BY <2>8, <3>1, <1>1 DEF ThreadCloses
  <2>9. CASE ThreadReturns
    <3>1. Contract!End(c)
      BY <1>0, <2>9 DEF ThreadReturns, Contract!End
    <3> QED BY <3>1, <1>2 DEF Contract!ServerThread
  <2> QED
    BY <1>3, <2>1, <2>2, <2>3, <2>4, <2>5, <2>6, <2>7, <2>8, <2>9 DEF Thread
<1>4. CASE ElsewhereDelivers \/ PhoneSends \/ PhoneMoves \/ UNCHANGED vars
  BY <1>4, <1>1 DEF ElsewhereDelivers, PhoneSends, PhoneMoves, vars
<1>5. CASE StartServer
  <2>1. CASE ownerPc' = "delete"
    BY <1>5, <2>1, <1>1 DEF StartServer
  <2>2. CASE ownerPc' = "poll"
    <3>1. Contract!Start(c)
      BY <1>0, <1>5, <2>2 DEF StartServer, Contract!Start
    <3> QED BY <3>1, <1>2
  <2> QED BY <1>5, <2>1, <2>2 DEF StartServer
<1>6. CASE Stop
  <2>1. CASE LowerFlags
    <3>1. UNCHANGED ContractThread
      BY <2>1 DEF LowerFlags
    <3>2. Contract!StopSignal(c)
      <4> HIDE DEF ContractThread
      <4> QED BY <2>1, <3>1 DEF LowerFlags, Contract!StopSignal
    <3> QED BY <3>2, <1>2
  <2>2. CASE CheckRunning \/ OwnerCloses \/ JoinThread
    BY <2>2, <1>1 DEF CheckRunning, OwnerCloses, JoinThread
  <2> QED BY <1>6, <2>1, <2>2 DEF Stop
<1>7. CASE LeaveLoop \/ OwnerLeaves
  BY <1>7, <1>1 DEF LeaveLoop, OwnerLeaves
<1> QED BY <1>3, <1>4, <1>5, <1>6, <1>7 DEF Next

-----------------------------------------------------------------------------
(* The scanner beside the server.                                            *)

\* What of RunServer's steps is one of the server, and what one of the scanner.
LEMMA StepsOfServer ==
    ASSUME [RunServerNext]_allVars PROVE [Next]_vars
<1>1. CASE Worker
  BY <1>1 DEF Worker, StartScanner, StopServer, StopScanner, Return, Next
<1>2. CASE EndLoop \/ AcceptThread \/ ScanThread
  BY <1>2 DEF EndLoop, AcceptThread, ScanThread, Next
<1>3. CASE World
  BY <1>3 DEF World, Next
<1>4. CASE UNCHANGED allVars
  BY <1>4 DEF allVars
<1> QED BY <1>1, <1>2, <1>3, <1>4 DEF RunServerNext

\* A worker that is through with the connection has been through Stop() of the
\* scanner, or has never started one; only ScanThread opens keyboards.
ScannerIsStopped ==
    /\ keysPc \in {"new", "started", "joining", "stopped"}
    /\ ownerPc = "new" => keysPc = "new"
    /\ ownerPc \in {"delete", "gone"} => keysPc \in {"new", "stopped"}
    /\ keysPc = "new" => scanPc = "none"
    /\ keysPc # "started" => ~scannerRunning
    /\ keysPc = "stopped" => Scanner!Joinable
    /\ scanPc \in {"none", "list", "ended"} => kbds = {}

RunServerIInv == ServerIInv /\ Scanner!ScannerTypeOK /\ ScannerIsStopped

LEMMA ScannerTypeStep ==
    ASSUME Scanner!ScannerTypeOK, ScannerIsStopped, [RunServerNext]_allVars
    PROVE  Scanner!ScannerTypeOK'
<1> USE DEF Scanner!ScannerTypeOK, scanner
<1>1. CASE Worker
  <2>1. CASE StartScanner
    BY <2>1 DEF StartScanner, Scanner!Start, Scanner!scannerVars
  <2>2. CASE StopScanner
    BY <2>2 DEF StopScanner, Scanner!Lower
  <2>3. CASE StopServer \/ Return
    BY <2>3 DEF StopServer, Return
  <2> QED BY <1>1, <2>1, <2>2, <2>3 DEF Worker
<1>2. CASE ScanThread
  <2> USE DEF Scanner!ScanGoto
  <2>1. CASE Scanner!ListKeyboards
    <3>1. kbds' \subseteq Keyboard /\ typing' = {}
      BY <2>1 DEF Scanner!ListKeyboards, ScannerIsStopped
    <3>2. scanPc' \in {"ended", "loop"} /\ died' \in {"no", "SIGABRT", "SIGSEGV"}
      BY <2>1 DEF Scanner!ListKeyboards
    <3> QED BY <2>1, <3>1, <3>2 DEF Scanner!ListKeyboards
  <2>2. CASE Scanner!ScanTest
    BY <2>2 DEF Scanner!ScanTest
  <2>3. CASE Scanner!ReadKeyboards
    BY <2>3 DEF Scanner!ReadKeyboards
  <2>4. CASE Scanner!CloseKeyboards
    BY <2>4 DEF Scanner!CloseKeyboards
  <2> QED BY <1>2, <2>1, <2>2, <2>3, <2>4 DEF ScanThread, Scanner!ScanThread
<1>3. CASE World
  BY <1>3 DEF World, Scanner!Type
<1>4. CASE EndLoop \/ AcceptThread \/ UNCHANGED allVars
  BY <1>4 DEF EndLoop, AcceptThread, allVars
<1> QED BY <1>1, <1>2, <1>3, <1>4 DEF RunServerNext

LEMMA ScannerStep ==
    ASSUME Scanner!ScannerTypeOK, ScannerIsStopped, [RunServerNext]_allVars
    PROVE  ScannerIsStopped'
<1> USE DEF ScannerIsStopped, Scanner!Joinable, scanner
<1>1. CASE Worker
  <2> USE DEF KeysGoto
  <2>1. CASE StartScanner
    BY <2>1
    DEF StartScanner, KeysGoto, vars, Scanner!Start, Scanner!scannerVars
  <2>2. CASE StopScanner
    BY <2>2 DEF StopScanner, KeysGoto, vars, Scanner!Lower
  <2>3. CASE StopServer
    BY <2>3 DEF StopServer, Stop, CheckRunning, OwnerCloses, OwnerSafeClose,
       LowerFlags, JoinThread, OwnerGoto, Closing, Resetting
  <2>4. CASE Return
    BY <2>4 DEF Return, OwnerLeaves, OwnerGoto
  <2> QED BY <1>1, <2>1, <2>2, <2>3, <2>4 DEF Worker
<1>2. CASE ScanThread
  <2> USE DEF Scanner!ScanGoto, vars
  <2>1. CASE Scanner!ListKeyboards
    BY <1>2, <2>1 DEF ScanThread, Scanner!ListKeyboards
  <2>2. CASE Scanner!ScanTest
    BY <1>2, <2>2 DEF ScanThread, Scanner!ScanTest
  <2>3. CASE Scanner!ReadKeyboards
    BY <1>2, <2>3 DEF ScanThread, Scanner!ReadKeyboards
  <2>4. CASE Scanner!CloseKeyboards
    BY <1>2, <2>4 DEF ScanThread, Scanner!CloseKeyboards
  <2> QED BY <1>2, <2>1, <2>2, <2>3, <2>4 DEF ScanThread, Scanner!ScanThread
<1>3. CASE World
  <2>1. CASE Scanner!Type
    BY <1>3, <2>1 DEF World, Scanner!Type, vars
  <2>2. CASE StartServer /\ UNCHANGED <<keysPc, scanner>>
    BY <2>2 DEF StartServer, OwnerGoto
  <2>3. CASE (PhoneSends \/ PhoneMoves \/ ElsewhereDelivers)
             /\ UNCHANGED <<keysPc, scanner>>
    BY <2>3 DEF PhoneSends, PhoneMoves, ElsewhereDelivers
  <2> QED BY <1>3, <2>1, <2>2, <2>3 DEF World
<1>4. CASE EndLoop
  BY <1>4 DEF EndLoop, LeaveLoop, OwnerGoto
<1>5. CASE AcceptThread
  <2>1. UNCHANGED ownerPc
    BY <1>5 DEF AcceptThread, Thread, LoopTest, Select, Leave, Accept,
       Connected, CallRead, ReadEnds, Respond, CompareToken, ThreadCloses,
       ThreadReturns
  <2> QED BY <1>5, <2>1 DEF AcceptThread
<1>6. CASE UNCHANGED allVars
  BY <1>6 DEF allVars, vars
<1> QED BY <1>1, <1>2, <1>3, <1>4, <1>5, <1>6 DEF RunServerNext

LEMMA Inductive == RunServerSpec => []RunServerIInv
<1>1. RunServerInit => RunServerIInv
  <2> SUFFICES ASSUME RunServerInit PROVE RunServerIInv
    OBVIOUS
  <2>1. ServerIInv
    BY ServerInitially DEF RunServerInit
  <2>2. Scanner!ScannerTypeOK /\ ScannerIsStopped
    BY DEF RunServerInit, Init, Scanner!ScannerInit, Scanner!ScannerTypeOK,
       ScannerIsStopped
  <2> QED BY <2>1, <2>2 DEF RunServerIInv
<1>2. RunServerIInv /\ [RunServerNext]_allVars => RunServerIInv'
  <2> SUFFICES ASSUME RunServerIInv, [RunServerNext]_allVars PROVE RunServerIInv'
    OBVIOUS
  <2>1. ServerIInv'
    BY StepsOfServer, ServerStep DEF RunServerIInv
  <2>2. Scanner!ScannerTypeOK' /\ ScannerIsStopped'
    BY ScannerTypeStep, ScannerStep DEF RunServerIInv
  <2> QED BY <2>1, <2>2 DEF RunServerIInv
<1> QED BY <1>1, <1>2, PTL DEF RunServerSpec

-----------------------------------------------------------------------------
(* The results.                                                              *)

\* The fields of the server and of the scanner have their types.
THEOREM TypeCorrect == RunServerSpec => []RunServerTypeOK
<1>1. RunServerIInv => RunServerTypeOK
  BY DEF RunServerIInv, ServerIInv, ScannerIsStopped, RunServerTypeOK
<1> QED BY <1>1, Inductive, PTL

\* Between them AcceptThread and Stop() close both sockets of a server that was
\* started, in whatever order they get to them.
THEOREM SocketsAreClosed == RunServerSpec => []NoSocketLeaks
<1>1. RunServerIInv => NoSocketLeaks
  BY DEF RunServerIInv, ServerIInv, SocketsAreNamed, TypeOK, Sockets, NoSocketLeaks
<1> QED BY <1>1, Inductive, PTL

\* No scan thread and no open keyboard outlasts the attempt.
THEOREM KeyboardsClosed == RunServerSpec => []KeyboardsAreClosed
<1>1. RunServerIInv => KeyboardsAreClosed
  BY DEF RunServerIInv, ScannerIsStopped, KeyboardsAreClosed, Scanner!Joinable
<1> QED BY <1>1, Inductive, PTL

\* A join of the worker waits for a thread that was told to stop; only Stop() may
\* wait for a read(), and the destructor for none.
THEOREM JoinsAreNotLong == RunServerSpec => []JoinsAreShort
<1>1. RunServerIInv => JoinsAreShort
  <2> SUFFICES ASSUME RunServerIInv PROVE JoinsAreShort
    OBVIOUS
  <2>1. threadPc \in ThreadPcs /\ StopComesFirst
    BY DEF RunServerIInv, ServerIInv, TypeOK
  <2>2. ASSUME ownerPc = "join", threadPc # "ended"
        PROVE  /\ ~m_IsRunning
               /\ \/ AcceptReady
                  \/ threadPc = "inRead" /\ phone = "connected"
                  \/ threadPc = "elsewhere"
    BY <2>1, <2>2 DEF StopComesFirst, AcceptReady
  <2>3. ASSUME ownerPc = "delete"
        PROVE  threadPc \in {"none", "closeServer", "resetServer", "return", "ended"}
    <3>1. threadPc \notin Running
      BY <2>1, <2>3 DEF StopComesFirst, Stopping
    <3> QED BY <2>1, <3>1 DEF Running, Unaccepted, Undecided, ThreadPcs
  <2>4. keysPc = "joining" => ~scannerRunning
    BY DEF RunServerIInv, ScannerIsStopped
  <2> QED BY <2>2, <2>3, <2>4 DEF JoinsAreShort
<1> QED BY <1>1, Inductive, PTL

LEMMA AcceptGetsOn ==
    ASSUME OneThread, Next, ~m_IsRunning
    PROVE  UNCHANGED threadPc \/ AcceptStepsLeft' < AcceptStepsLeft
<1> USE DEF AcceptStepsLeft
<1>1. CASE Thread
  <2> USE DEF ThreadGoto
  <2>1. CASE LoopTest \/ Select \/ Leave \/ Accept \/ Connected
    BY <2>1 DEF LoopTest, Select, Leave, Accept, Connected
  <2>2. CASE CallRead \/ ReadEnds \/ Respond \/ CompareToken
    BY <2>2 DEF CallRead, ReadEnds, Respond, CompareToken
  <2>3. CASE ThreadCloses \/ ThreadReturns
    BY <2>3 DEF ThreadCloses, ThreadSafeClose, Closing, Resetting, ThreadReturns
  <2> QED BY <1>1, <2>1, <2>2, <2>3 DEF Thread
<1>2. CASE ElsewhereDelivers \/ PhoneSends
  BY <1>2 DEF ElsewhereDelivers, PhoneSends, ThreadGoto
<1>3. CASE StartServer
  BY <1>3 DEF StartServer, OwnerGoto, OneThread
<1>4. CASE LeaveLoop \/ Stop \/ OwnerLeaves \/ PhoneMoves
  BY <1>4 DEF LeaveLoop, Stop, CheckRunning, OwnerCloses, LowerFlags, JoinThread,
     OwnerLeaves, PhoneMoves
<1> QED BY <1>1, <1>2, <1>3, <1>4 DEF Next

LEMMA ScanGetsOn ==
    ASSUME ScannerIsStopped, RunServerNext, ~scannerRunning
    PROVE  UNCHANGED scanPc \/ ScanStepsLeft' < ScanStepsLeft
<1> USE DEF ScanStepsLeft, scanner
<1>1. CASE ScanThread
  BY <1>1 DEF ScanThread, Scanner!ScanThread, Scanner!ScanGoto,
     Scanner!ListKeyboards, Scanner!ScanTest, Scanner!ReadKeyboards,
     Scanner!CloseKeyboards
<1>2. CASE StartScanner
  <2>1. scanPc = "none" /\ scanPc' = "list"
    BY <1>2 DEF StartScanner, KeysGoto, Scanner!Start, ScannerIsStopped
  <2> QED BY <2>1
<1>3. CASE StopServer \/ StopScanner \/ Return \/ EndLoop \/ AcceptThread
  BY <1>3 DEF StopServer, StopScanner, Scanner!Lower, Return, EndLoop, AcceptThread
<1>4. CASE World
  BY <1>4 DEF World, Scanner!Type
<1> QED BY <1>1, <1>2, <1>3, <1>4 DEF RunServerNext, Worker

\* AcceptThread and ScanThread end: once its flag is down, each step of a thread
\* brings it nearer to its end, whatever the phone and the keyboards do.
THEOREM ThreadsEnd == RunServerSpec => StoppedThreadsEnd
<1>1. RunServerIInv /\ [RunServerNext]_allVars =>
        [/\ ~m_IsRunning => UNCHANGED threadPc \/ AcceptStepsLeft' < AcceptStepsLeft
         /\ ~scannerRunning => UNCHANGED scanPc \/ ScanStepsLeft' < ScanStepsLeft]_allVars
  <2> SUFFICES ASSUME RunServerIInv, RunServerNext
               PROVE  /\ ~m_IsRunning =>
                             UNCHANGED threadPc \/ AcceptStepsLeft' < AcceptStepsLeft
                      /\ ~scannerRunning =>
                             UNCHANGED scanPc \/ ScanStepsLeft' < ScanStepsLeft
    OBVIOUS
  <2>1. Next \/ UNCHANGED vars
    BY StepsOfServer
  <2>2. ~m_IsRunning => UNCHANGED threadPc \/ AcceptStepsLeft' < AcceptStepsLeft
    BY <2>1, AcceptGetsOn DEF vars, RunServerIInv, ServerIInv
  <2>3. ~scannerRunning => UNCHANGED scanPc \/ ScanStepsLeft' < ScanStepsLeft
    BY ScanGetsOn DEF RunServerIInv
  <2> QED BY <2>2, <2>3
<1> QED BY <1>1, Inductive, PTL DEF RunServerSpec, StoppedThreadsEnd

\* The server is a connection as UnlockHandler assumes it, with the scanner
\* beside it as without.
THEOREM ServerImplementsContract == RunServerSpec => ImplementsContract
<1>1. RunServerInit => Contract!ServerInit
  BY DEF RunServerInit, Init, Contract!ServerInit, ContractThread
<1>2. RunServerIInv /\ [RunServerNext]_allVars
         => [Contract!ServerNext]_(Contract!serverVars)
  BY StepsOfServer, Refines DEF RunServerIInv
<1> QED
  BY <1>1, <1>2, Inductive, PTL
  DEF RunServerSpec, ImplementsContract, Contract!ServerSpec

-----------------------------------------------------------------------------
(* What the server inherits from the contract.                               *)

Inherited == INSTANCE BaseUnlockServerProofs WITH
    Server <- {"server"},
    Outcome <- ThreadVerdicts,
    Answer <- Answers,
    m_IsRunning <- [s \in {"server"} |-> m_IsRunning],
    m_HasConnection <- [s \in {"server"} |-> m_HasConnection],
    m_UnlockState <- [s \in {"server"} |-> m_UnlockState],
    m_ResponseData <- [s \in {"server"} |-> m_ResponseData],
    m_AcceptThread <- [s \in {"server"} |-> ContractThread]

LEMMA SameContract == Contract!ServerSpec => Inherited!ServerSpec
<1>1. Contract!ServerInit => Inherited!ServerInit
  BY DEF Contract!ServerInit, Inherited!ServerInit
<1>2. [Contract!ServerNext]_(Contract!serverVars) => [Inherited!ServerNext]_(Inherited!serverVars)
  <2> USE DEF Inherited!ServerNext, Inherited!ServerThread
  <2>1. ASSUME NEW s \in {"server"}, Contract!Start(s) \/ Contract!StopSignal(s)
        PROVE  Inherited!ServerNext
    BY <2>1 DEF Contract!Start, Contract!StopSignal, Inherited!Start,
       Inherited!StopSignal
  <2>2. ASSUME NEW s \in {"server"}, Contract!ServerThread(s)
        PROVE  Inherited!ServerThread(s)
    BY <2>2 DEF Contract!ServerThread, Contract!Connect, Contract!Finish,
       Contract!HangUp, Contract!End, Contract!StoreResponse, Contract!Conclude,
       Inherited!Connect, Inherited!Finish, Inherited!HangUp, Inherited!End,
       Inherited!StoreResponse, Inherited!Conclude
  <2>3. UNCHANGED Contract!serverVars => UNCHANGED Inherited!serverVars
    BY DEF Contract!serverVars, Inherited!serverVars
  <2> QED BY <2>1, <2>2, <2>3 DEF Contract!ServerNext
<1> QED BY <1>1, <1>2, PTL DEF Contract!ServerSpec, Inherited!ServerSpec

\* What the worker reads of the server without a lock stays, too, while the scanner
\* is stopped and the server closed.
ReadingIsFinal ==
    /\ m_UnlockState # "UNKNOWN" => UNCHANGED <<m_UnlockState, m_ResponseData>>
    /\ m_ResponseData # "none" => UNCHANGED m_ResponseData

\* The worker may copy verdict and answer of the server at any time after it
\* has seen them.
THEOREM ReadingsAreFinal == RunServerSpec => [][ReadingIsFinal]_allVars
<1>1. [Inherited!AllAreFinal]_(Inherited!serverVars) => [ReadingIsFinal]_allVars
  <2> SUFFICES ASSUME [Inherited!AllAreFinal]_(Inherited!serverVars)
               PROVE  ReadingIsFinal
    OBVIOUS
  <2>1. CASE Inherited!AllAreFinal
    BY <2>1 DEF Inherited!AllAreFinal, Inherited!IsFinal, ReadingIsFinal
  <2>2. CASE UNCHANGED Inherited!serverVars
    <3>1. /\ [s \in {"server"} |-> m_UnlockState]["server"]'
                 = [s \in {"server"} |-> m_UnlockState]["server"]
          /\ [s \in {"server"} |-> m_ResponseData]["server"]'
                 = [s \in {"server"} |-> m_ResponseData]["server"]
      BY <2>2 DEF Inherited!serverVars
    <3> QED BY <3>1 DEF ReadingIsFinal
  <2> QED BY <2>1, <2>2
<1>2. Inherited!ServerAssumption
  BY DEF Answers, ThreadVerdicts, Inherited!ThreadVerdicts
<1>3. Contract!ServerSpec => Inherited!VerdictsAreFinal
  <2>1. Inherited!ServerSpec => Inherited!VerdictsAreFinal
    BY <1>2, Inherited!ServerVerdictsAreFinal, PTL
  <2> QED BY <2>1, SameContract, PTL
<1> QED BY <1>1, <1>3, ServerImplementsContract, PTL
    DEF ImplementsContract, Inherited!VerdictsAreFinal
=============================================================================
