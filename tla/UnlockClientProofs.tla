-------------------------- MODULE UnlockClientProofs --------------------------
(* The safety invariants of UnlockClient, for any descriptors, packets and   *)
(* sizes, and that the client implements the contract BaseUnlockServer.      *)
EXTENDS UnlockClient, TLAPS

-----------------------------------------------------------------------------
(* The inductive invariant, one part per idea.                               *)

\* Before ConnectThread has a socket of its own ...
Socketless == {"none", "resolve", "addressless", "channelless", "socket",
               "socketless"}

\* ... and before it has sent its request.
Unsent == Socketless \cup {"connect", "inConnect", "refused", "packet",
                           "packetless"}

\* Start() makes the one thread there is.
OneThread == ownerPc = "new" => threadPc = "none"

NoneIsOurs == \A f \in Fd : descriptor[f] # "ours"

\* The socket of the connection is the one m_ClientSocket names, from socket()
\* to the first close(): the owner is not past its test of the field before
\* there is a socket, and whoever resets the field has closed it.
SocketIsNamed ==
    /\ \A f \in Fd : descriptor[f] = "ours" => m_ClientSocket = f
    /\ threadPc \in Socketless => m_ClientSocket = NoSocket
    /\ threadPc \in {"reset", "return", "ended"} => NoneIsOurs
    /\ ownerPc = "reset" => NoneIsOurs
    /\ ownerPc \in {"close", "reset"} => threadPc \notin Socketless
    /\ ownerPc = "gone" => threadPc \in {"none", "ended"}

\* Our token comes back only after the phone has had the whole request, and
\* what was read is what it sent, or was not meant for us.
AnswerFollowsRequest ==
    /\ threadPc \in Unsent => request = "none"
    /\ threadPc \in {"write", "inTheirWrite"} => request # "whole"
    /\ request = "garbled" => told
    /\ sent = 0 => answer = NoPacket
    /\ answer # NoPacket => request \in {"whole", "garbled"}
    /\ answer.content = "ours" => request = "whole"
    /\ received \in {NoPacket, answer} \/ received.content # "ours"

\* The stored answer is the one that was read, and there is one verdict: only
\* the token in it makes a success.
Undecided == Unsent \cup {"write", "inTheirWrite", "read", "inRead", "inTheirRead",
                          "respond", "verdict"}

VerdictFollowsAnswer ==
    /\ threadPc \in Undecided <=> m_UnlockState = "UNKNOWN"
    /\ threadPc \in Undecided \ {"verdict"} => m_ResponseData = "none"
    /\ threadPc = "verdict" =>
           IsAnswer(received) /\ m_ResponseData = received.content
    /\ m_UnlockState = "SUCCESS" =>
           IsAnswer(received) /\ received.content = "ours"

\* Until the thread has its answer the socket is the open one it made, or the
\* owner is past its close(), after which others may have the descriptor; nobody
\* skips the close() meanwhile, because the flag is still up when the owner looks
\* at it.
Connected == {"connect", "inConnect", "packet", "write", "inTheirWrite", "read",
              "inRead", "inTheirRead"}

StopComesFirst ==
    threadPc \in Connected \cup {"resolve", "socket", "respond"} =>
        \/ ownerPc \in {"poll", "stop", "sendClose", "lowerFlags"} /\ m_IsRunning
        \/ ownerPc \in {"testSocket", "close", "reset", "join"}

SocketIsKept ==
    /\ threadPc \in Connected => SocketIsOurs \/ ownerPc \in {"reset", "join"}
    /\ threadPc \in AwayPcs => ownerPc \in {"reset", "join"}

\* The thread writes and reads where it was connected, and a write() is for what
\* is left of the packet.
PhoneIsReached ==
    /\ threadPc \in {"packet", "write", "inTheirWrite", "read", "inRead",
                     "inTheirRead"} => peer # "none"
    /\ IF threadPc \in {"write", "inTheirWrite"}
         THEN written < FrameSize
         ELSE written = 0

PacketsAreWhole ==
    /\ StopComesFirst
    /\ SocketIsKept
    /\ sent <= FrameOf(answer)
    /\ AnswersArriveWhole

IInv ==
    /\ TypeOK
    /\ OneThread
    /\ SocketIsNamed
    /\ AnswerFollowsRequest
    /\ VerdictFollowsAnswer
    /\ PacketsAreWhole
    /\ PhoneIsReached

-----------------------------------------------------------------------------
(* Type correctness.                                                         *)

LEMMA JudgementIsAVerdict ==
    /\ \A p : Judgement(p) \in ThreadVerdicts \ {"SUCCESS", "CONNECT_ERROR"}
    /\ \A r : TokenVerdict(r) \in ThreadVerdicts \ {"CONNECT_ERROR"}
    /\ \A r : TokenVerdict(r) = "SUCCESS" <=> r = "ours"
BY DEF Judgement, TokenVerdict, ThreadVerdicts

LEMMA NoPacketIsAPacket == NoPacket \in Packets
BY PacketAssumption

\* The sizes of packets and of their parts.
LEMMA FrameSizes ==
    /\ FrameSize \in Nat /\ LengthSize \in 1 .. FrameSize - 1
    /\ \A p : FrameOf(p) \in LengthSize .. FrameSize
    /\ \A n \in 0 .. FrameSize : Onwards(n) \subseteq 1 .. FrameSize
BY ClientAssumption DEF FrameSize, LengthSize, FrameOf, Onwards

LEMMA TypeInit == ASSUME Init PROVE TypeOK
<1>1. 0 \in 0 .. FrameSize
  BY FrameSizes
<1> QED BY <1>1, NoPacketIsAPacket DEF Init, TypeOK, ThreadPcs, OwnerPcs

LEMMA TypeStep == ASSUME TypeOK, [Next]_vars PROVE TypeOK'
<1> USE DEF TypeOK, ThreadPcs, OwnerPcs, ThreadGoto, OwnerGoto, serverVars,
            phoneVars, packetVars
<1> DEFINE Booleans == /\ m_IsRunning \in BOOLEAN
                       /\ m_HasConnection \in BOOLEAN
                       /\ told \in BOOLEAN
<1>1. CASE Thread
  <2>1. CASE ConvertAddress \/ FindChannel
    <3>1. ASSUME NEW found \in BOOLEAN, NEW failure \in ThreadPcs,
                 ResolvedAs(found, failure)
          PROVE  TypeOK'
      <4>1. Booleans'
        BY <3>1, Zenon DEF ResolvedAs
      <4> QED BY <3>1, <4>1 DEF ResolvedAs
    <3>2. \A channels : (FindChannelSDP(channels) # -1) \in BOOLEAN
      OBVIOUS
    <3> QED BY <2>1, <3>1, <3>2 DEF ConvertAddress, FindChannel
  <2>2. CASE OpenSocket
    <3>1. Booleans'
      BY <2>2, Zenon DEF OpenSocket
    <3> QED BY <2>2, <3>1 DEF OpenSocket
  <2>3. CASE CallConnect \/ ConnectReturns
    <3>1. CASE CallConnect
      BY <3>1 DEF CallConnect
    <3>2. CASE ConnectReturns
      <4>1. Booleans'
        BY <3>2, Zenon DEF ConnectReturns
      <4> QED BY <3>2, <4>1 DEF ConnectReturns
    <3> QED BY <2>3, <3>1, <3>2
  <2>4. CASE MakePacket
    <3>1. /\ threadPc' \in {"write", "packetless"}
          /\ m_IsRunning' = m_IsRunning \/ m_IsRunning' = FALSE
          /\ UNCHANGED <<m_HasConnection, m_UnlockState, m_ResponseData,
                         m_ClientSocket, descriptor, ownerPc, packetVars,
                         phoneVars>>
      BY <2>4 DEF MakePacket
    <3>2. Booleans'
      BY <3>1, Zenon
    <3> QED BY <3>1, <3>2
  <2>5. CASE WritePacket
    BY <2>5, FrameSizes DEF WritePacket
  <2>6. CASE CallRead \/ CallTheirs \/ ReadReturns \/ TheirsReturns
    <3>1. ASSUME NEW from, NEW packet \in {NoPacket, answer} \cup Packets,
                 ReturnPacket(from, packet),
                 UNCHANGED <<serverVars, m_ClientSocket, descriptor, ownerPc,
                             written, phoneVars>>
          PROVE  TypeOK'
      BY <3>1, NoPacketIsAPacket, FrameSizes DEF ReturnPacket
    <3>2. CASE CallRead
      <4>1. CASE SocketIsOurs
        BY <3>2, <4>1 DEF CallRead
      <4>2. CASE ~SocketIsOurs
        BY <3>1, <3>2, <4>2, Zenon DEF CallRead
      <4> QED BY <4>1, <4>2
    <3>3. CASE ReadReturns
      <4>1. CASE ReturnPacket("inRead", NoPacket)
        BY <3>1, <3>3, <4>1, Zenon DEF ReadReturns
      <4>2. CASE ReturnPacket("inRead", answer)
        BY <3>1, <3>3, <4>2, Zenon DEF ReadReturns
      <4>3. ASSUME NEW n \in Onwards(bytesRead) \cap 0 .. sent,
                   ThreadGoto("inRead", "read"), bytesRead' = n,
                   UNCHANGED received
            PROVE  TypeOK'
        BY <3>3, <4>3, FrameSizes DEF ReadReturns
      <4> QED BY <3>3, <4>1, <4>2, <4>3, Zenon DEF ReadReturns
    <3>4. CASE CallTheirs
      BY <3>4 DEF CallTheirs
    <3>5. CASE TheirsReturns
      <4>1. ASSUME NEW packet \in Packets, ReturnPacket("inTheirRead", packet),
                   UNCHANGED written
            PROVE  TypeOK'
        BY <3>1, <3>5, <4>1, Zenon DEF TheirsReturns
      <4>2. CASE threadPc' \in {"write", "read"}
        <5>1. written' \in 0 .. FrameSize /\ bytesRead' \in 0 .. FrameSize
          BY <3>5, <4>2, FrameSizes DEF TheirsReturns, ReturnPacket
        <5> QED BY <3>5, <4>2, <5>1 DEF TheirsReturns, ReturnPacket
      <4> QED BY <3>5, <4>1, <4>2, Zenon DEF TheirsReturns
    <3> QED BY <2>6, <3>2, <3>3, <3>4, <3>5
  <2>7. CASE OnResponseReceived
    <3>1. IsAnswer(received) => received.content \in Answers
      BY DEF IsAnswer
    <3> QED
      BY <2>7, <3>1, JudgementIsAVerdict, NoPacketIsAPacket DEF OnResponseReceived
  <2>8. CASE WriteVerdict
    BY <2>8, JudgementIsAVerdict DEF WriteVerdict, ThreadVerdicts
  <2>9. CASE FinishThread \/ ThreadReturns
    <3>1. CASE FinishThread
      <4>1. Booleans'
        BY <3>1, Zenon DEF FinishThread
      <4> QED BY <3>1, <4>1 DEF FinishThread
    <3>2. CASE ThreadReturns
      BY <3>2 DEF ThreadReturns
    <3> QED BY <2>9, <3>1, <3>2
  <2>10. CASE ThreadCloses
    BY <2>10 DEF ThreadCloses, CloseSocket
  <2> QED
    BY <1>1, <2>1, <2>2, <2>3, <2>4, <2>5, <2>6, <2>7, <2>8, <2>9, <2>10
    DEF Thread, ThreadRuns
<1>2. CASE Owner
  <2>1. CASE StartClient \/ LeaveLoop \/ CheckRunning \/ SendClose \/ LowerFlags
    <3>1. CASE StartClient
      <4>1. Booleans'
        BY <3>1, Zenon DEF StartClient
      <4> QED BY <3>1, <4>1 DEF StartClient
    <3>2. CASE LeaveLoop \/ CheckRunning
      BY <3>2 DEF LeaveLoop, CheckRunning
    <3>3. CASE SendClose
      <4>1. Booleans'
        BY <3>3, Zenon DEF SendClose
      <4> QED BY <3>3, <4>1 DEF SendClose
    <3>4. CASE LowerFlags
      <4>1. Booleans'
        BY <3>4, Zenon DEF LowerFlags
      <4> QED BY <3>4, <4>1 DEF LowerFlags
    <3> QED BY <2>1, <3>1, <3>2, <3>3, <3>4
  <2>2. CASE OwnerCloses
    BY <2>2 DEF OwnerCloses, CloseSocket
  <2>3. CASE OwnerLeaves
    BY <2>3 DEF OwnerLeaves
  <2> QED BY <1>2, <2>1, <2>2, <2>3 DEF Owner, OwnerStops
<1>3. CASE PhoneAnswers \/ PhoneSendsOn
  BY <1>3, FrameSizes DEF PhoneAnswers, PhoneSendsOn
<1>4. CASE PhoneHangsUp \/ OthersUseDescriptors \/ UNCHANGED vars
  BY <1>4 DEF PhoneHangsUp, OthersUseDescriptors, vars
<1> QED BY <1>1, <1>2, <1>3, <1>4 DEF Next

\* The fields of the client have their types.
THEOREM TypeCorrect == Spec => []TypeOK
<1>1. Init => TypeOK
  BY TypeInit
<1>2. TypeOK /\ [Next]_vars => TypeOK'
  BY TypeStep
<1> QED BY <1>1, <1>2, PTL DEF Spec

-----------------------------------------------------------------------------
(* The parts of the invariant.                                               *)

LEMMA ThreadStep == ASSUME OneThread, [Next]_vars PROVE OneThread'
<1> USE DEF OneThread, ThreadGoto, OwnerGoto
<1>1. CASE Thread
  <2>1. CASE ConvertAddress \/ FindChannel \/ OpenSocket \/ CallConnect
    BY <2>1 DEF ConvertAddress, FindChannel, ResolvedAs, OpenSocket, CallConnect
  <2>2. CASE ConnectReturns \/ MakePacket \/ WritePacket
    BY <2>2 DEF ConnectReturns, MakePacket, WritePacket
  <2>3. CASE CallRead \/ CallTheirs \/ ReadReturns \/ TheirsReturns
    BY <2>3 DEF CallRead, CallTheirs, ReadReturns, TheirsReturns, ReturnPacket
  <2>5. CASE OnResponseReceived \/ WriteVerdict
    BY <2>5 DEF OnResponseReceived, WriteVerdict
  <2>4. CASE FinishThread \/ ThreadCloses \/ ThreadReturns
    BY <2>4 DEF FinishThread, ThreadCloses, ThreadReturns
  <2> QED BY <1>1, <2>1, <2>2, <2>3, <2>4, <2>5 DEF Thread, ThreadRuns
<1>2. CASE Owner
  BY <1>2 DEF Owner, StartClient, LeaveLoop, OwnerStops, CheckRunning, SendClose,
     LowerFlags, OwnerCloses, OwnerLeaves
<1>3. CASE PhoneAnswers \/ PhoneSendsOn \/ PhoneHangsUp \/ OthersUseDescriptors
  BY <1>3 DEF PhoneAnswers, PhoneSendsOn, PhoneHangsUp, OthersUseDescriptors
<1>4. CASE UNCHANGED vars
  BY <1>4 DEF vars
<1> QED BY <1>1, <1>2, <1>3, <1>4 DEF Next

LEMMA SocketStep ==
    ASSUME TypeOK, OneThread, SocketIsNamed, [Next]_vars PROVE SocketIsNamed'
<1> USE DEF SocketIsNamed, NoneIsOurs, Socketless
<1>0. m_ClientSocket \in Fd \cup {NoSocket} /\ NoSocket \notin Fd
      /\ descriptor \in [Fd -> {"free", "ours", "theirs"}]
  BY ClientAssumption DEF TypeOK
<1>1. CASE Thread
  <2> USE DEF ThreadGoto
  <2>1. CASE OpenSocket
    BY <1>0, <2>1 DEF OpenSocket
  <2>2. CASE ThreadCloses
    <3>1. CASE threadPc = "testSocket"
      BY <1>0, <2>2, <3>1 DEF ThreadCloses
    <3>2. CASE threadPc = "close"
      BY <1>0, <2>2, <3>2 DEF ThreadCloses, CloseSocket
    <3>3. CASE threadPc = "reset"
      BY <1>0, <2>2, <3>3 DEF ThreadCloses
    <3> QED BY <2>2, <3>1, <3>2, <3>3 DEF ThreadCloses
  <2>3. CASE ConvertAddress \/ FindChannel
    BY <1>0, <2>3 DEF ConvertAddress, FindChannel, ResolvedAs
  <2>4. CASE CallConnect \/ ConnectReturns \/ MakePacket \/ WritePacket
    BY <2>4 DEF CallConnect, ConnectReturns, MakePacket, WritePacket
  <2>5. CASE CallRead \/ CallTheirs \/ ReadReturns \/ TheirsReturns
    BY <2>5 DEF CallRead, CallTheirs, ReadReturns, TheirsReturns, ReturnPacket
  <2>6. CASE OnResponseReceived \/ WriteVerdict
    BY <1>0, <2>6 DEF OnResponseReceived, WriteVerdict
  <2>7. CASE FinishThread \/ ThreadReturns
    BY <2>7 DEF FinishThread, ThreadReturns
  <2> QED BY <1>1, <2>1, <2>2, <2>3, <2>4, <2>5, <2>6, <2>7 DEF Thread, ThreadRuns
<1>2. CASE Owner
  <2> USE DEF OwnerGoto
  <2>1. CASE StartClient
    BY <1>0, <2>1 DEF StartClient, OneThread
  <2>2. CASE LeaveLoop \/ CheckRunning \/ SendClose \/ LowerFlags
    BY <2>2 DEF LeaveLoop, CheckRunning, SendClose, LowerFlags
  <2>3. CASE OwnerCloses
    <3>1. CASE ownerPc = "testSocket"
      BY <1>0, <2>3, <3>1 DEF OwnerCloses
    <3>2. CASE ownerPc = "close"
      BY <1>0, <2>3, <3>2 DEF OwnerCloses, CloseSocket
    <3>3. CASE ownerPc = "reset"
      BY <1>0, <2>3, <3>3 DEF OwnerCloses
    <3> QED BY <2>3, <3>1, <3>2, <3>3 DEF OwnerCloses
  <2>4. CASE OwnerLeaves
    BY <2>4 DEF OwnerLeaves
  <2> QED BY <1>2, <2>1, <2>2, <2>3, <2>4 DEF Owner, OwnerStops
<1>3. CASE PhoneAnswers \/ PhoneSendsOn \/ PhoneHangsUp
  BY <1>3 DEF PhoneAnswers, PhoneSendsOn, PhoneHangsUp
<1>4. CASE OthersUseDescriptors
  BY <1>0, <1>4 DEF OthersUseDescriptors
<1>5. CASE UNCHANGED vars
  BY <1>5 DEF vars
<1> QED BY <1>1, <1>2, <1>3, <1>4, <1>5 DEF Next

LEMMA AnswerStep ==
    ASSUME TypeOK, OneThread, AnswerFollowsRequest, [Next]_vars
    PROVE  AnswerFollowsRequest'
<1> USE DEF AnswerFollowsRequest, Unsent, Socketless, phoneVars, packetVars
<1>1. CASE Thread
  <2> USE DEF ThreadGoto
  <2>1. CASE ConvertAddress \/ FindChannel
    BY <2>1 DEF ConvertAddress, FindChannel, ResolvedAs
  <2>2. CASE OpenSocket \/ CallConnect \/ ConnectReturns \/ MakePacket
    BY <2>2 DEF OpenSocket, CallConnect, ConnectReturns, MakePacket
  <2>3. CASE WritePacket
    BY <2>3 DEF WritePacket, NoPacket
  <2>5. CASE CallRead \/ CallTheirs \/ ReadReturns \/ TheirsReturns
    BY <2>5 DEF CallRead, CallTheirs, ReadReturns, TheirsReturns, ReturnPacket,
       NoPacket
  <2>6. CASE OnResponseReceived \/ WriteVerdict
    BY <2>6 DEF OnResponseReceived, WriteVerdict, NoPacket
  <2>7. CASE FinishThread \/ ThreadCloses \/ ThreadReturns
    BY <2>7 DEF FinishThread, ThreadCloses, ThreadReturns
  <2> QED BY <1>1, <2>1, <2>2, <2>3, <2>5, <2>6, <2>7 DEF Thread, ThreadRuns
<1>2. CASE Owner
  <2> USE DEF OwnerGoto
  <2>1. CASE StartClient
    BY <2>1 DEF StartClient, OneThread
  <2>2. CASE LeaveLoop \/ CheckRunning \/ LowerFlags \/ OwnerCloses \/ OwnerLeaves
    BY <2>2 DEF LeaveLoop, CheckRunning, LowerFlags, OwnerCloses, OwnerLeaves
  <2>3. CASE SendClose
    BY <2>3 DEF SendClose
  <2> QED BY <1>2, <2>1, <2>2, <2>3 DEF Owner, OwnerStops
<1>3. CASE PhoneAnswers \/ PhoneSendsOn
  BY <1>3, FrameSizes DEF PhoneAnswers, PhoneSendsOn, LengthSize, TypeOK
<1>4. CASE PhoneHangsUp \/ OthersUseDescriptors
  BY <1>4 DEF PhoneHangsUp, OthersUseDescriptors
<1>5. CASE UNCHANGED vars
  BY <1>5 DEF vars
<1> QED BY <1>1, <1>2, <1>3, <1>4, <1>5 DEF Next

LEMMA VerdictStep ==
    ASSUME OneThread, VerdictFollowsAnswer, [Next]_vars PROVE VerdictFollowsAnswer'
<1> USE DEF VerdictFollowsAnswer, Undecided, Unsent, Socketless, packetVars
<1>1. CASE Thread
  <2> USE DEF ThreadGoto, serverVars
  <2>1. CASE ConvertAddress \/ FindChannel
    BY <2>1 DEF ConvertAddress, FindChannel, ResolvedAs
  <2>2. CASE OpenSocket \/ CallConnect \/ ConnectReturns \/ MakePacket
    BY <2>2 DEF OpenSocket, CallConnect, ConnectReturns, MakePacket
  <2>3. CASE WritePacket \/ CallRead \/ CallTheirs \/ ReadReturns \/ TheirsReturns
    BY <2>3 DEF WritePacket, CallRead, CallTheirs, ReadReturns, TheirsReturns,
       ReturnPacket
  <2>4. CASE OnResponseReceived
    BY <2>4, JudgementIsAVerdict DEF OnResponseReceived, ThreadVerdicts
  <2>5. CASE WriteVerdict
    BY <2>5, JudgementIsAVerdict DEF WriteVerdict, ThreadVerdicts
  <2>6. CASE FinishThread \/ ThreadCloses \/ ThreadReturns
    BY <2>6 DEF FinishThread, ThreadCloses, ThreadReturns
  <2> QED BY <1>1, <2>1, <2>2, <2>3, <2>4, <2>5, <2>6 DEF Thread, ThreadRuns
<1>2. CASE Owner
  <2> USE DEF OwnerGoto, serverVars
  <2>1. CASE StartClient \/ LeaveLoop \/ CheckRunning \/ LowerFlags
    BY <2>1 DEF StartClient, LeaveLoop, CheckRunning, LowerFlags, OneThread
  <2>2. CASE SendClose \/ OwnerCloses \/ OwnerLeaves
    BY <2>2 DEF SendClose, OwnerCloses, OwnerLeaves
  <2> QED BY <1>2, <2>1, <2>2 DEF Owner, OwnerStops
<1>3. CASE PhoneAnswers \/ PhoneSendsOn \/ PhoneHangsUp \/ OthersUseDescriptors
  BY <1>3 DEF PhoneAnswers, PhoneSendsOn, PhoneHangsUp, OthersUseDescriptors, serverVars
<1>4. CASE UNCHANGED vars
  BY <1>4 DEF vars, serverVars
<1> QED BY <1>1, <1>2, <1>3, <1>4 DEF Next

LEMMA StopStep ==
    ASSUME OneThread, StopComesFirst, [Next]_vars PROVE StopComesFirst'
<1> USE DEF StopComesFirst, Connected, ThreadGoto, OwnerGoto, serverVars
<1>1. CASE Thread
  <2>1. CASE ConvertAddress \/ FindChannel
    <3>1. PICK found \in BOOLEAN, failure \in {"addressless", "channelless"} :
              ResolvedAs(found, failure)
      BY <2>1 DEF ConvertAddress, FindChannel
    <3> QED BY <3>1 DEF ResolvedAs
  <2>2. CASE OpenSocket \/ CallConnect \/ ConnectReturns
    BY <2>2 DEF OpenSocket, CallConnect, ConnectReturns
  <2>3. CASE MakePacket \/ WritePacket
    BY <2>3 DEF MakePacket, WritePacket
  <2>4. CASE CallRead \/ CallTheirs \/ ReadReturns \/ TheirsReturns
    BY <2>4 DEF CallRead, CallTheirs, ReadReturns, TheirsReturns, ReturnPacket
  <2>5. CASE OnResponseReceived \/ WriteVerdict
    BY <2>5 DEF OnResponseReceived, WriteVerdict
  <2>6. CASE FinishThread \/ ThreadCloses \/ ThreadReturns
    BY <2>6 DEF FinishThread, ThreadCloses, ThreadReturns
  <2> QED BY <1>1, <2>1, <2>2, <2>3, <2>4, <2>5, <2>6 DEF Thread, ThreadRuns
<1>2. CASE Owner
  <2>1. CASE StartClient \/ LeaveLoop \/ CheckRunning
    BY <2>1 DEF StartClient, LeaveLoop, CheckRunning, OneThread
  <2>2. CASE SendClose \/ LowerFlags
    BY <2>2 DEF SendClose, LowerFlags
  <2>3. CASE OwnerCloses \/ OwnerLeaves
    BY <2>3 DEF OwnerCloses, OwnerLeaves
  <2> QED BY <1>2, <2>1, <2>2, <2>3 DEF Owner, OwnerStops
<1>3. CASE PhoneAnswers \/ PhoneSendsOn \/ PhoneHangsUp \/ OthersUseDescriptors
  BY <1>3 DEF PhoneAnswers, PhoneSendsOn, PhoneHangsUp, OthersUseDescriptors
<1>4. CASE UNCHANGED vars
  BY <1>4 DEF vars
<1> QED BY <1>1, <1>2, <1>3, <1>4 DEF Next

LEMMA KeptStep ==
    ASSUME TypeOK, SocketIsNamed, StopComesFirst, SocketIsKept, [Next]_vars
    PROVE  SocketIsKept'
<1> USE DEF SocketIsKept, Connected, AwayPcs, SocketIsOurs, SocketIsTheirs,
            ThreadGoto, OwnerGoto
<1>0. m_ClientSocket \in Fd \cup {NoSocket} /\ NoSocket \notin Fd
      /\ descriptor \in [Fd -> {"free", "ours", "theirs"}]
  BY ClientAssumption DEF TypeOK
<1>1. CASE Thread
  <2>1. CASE ConvertAddress \/ FindChannel
    BY <2>1 DEF ConvertAddress, FindChannel, ResolvedAs
  <2>2. CASE OpenSocket
    BY <1>0, <2>2 DEF OpenSocket
  <2>3. CASE CallConnect \/ ConnectReturns \/ MakePacket \/ WritePacket
    BY <2>3 DEF CallConnect, ConnectReturns, MakePacket, WritePacket
  <2>4. CASE CallRead \/ CallTheirs \/ ReadReturns \/ TheirsReturns
    BY <2>4 DEF CallRead, CallTheirs, ReadReturns, TheirsReturns, ReturnPacket
  <2>5. CASE OnResponseReceived \/ WriteVerdict
    BY <2>5 DEF OnResponseReceived, WriteVerdict
  <2>6. CASE FinishThread \/ ThreadCloses \/ ThreadReturns
    BY <2>6 DEF FinishThread, ThreadCloses, ThreadReturns
  <2> QED BY <1>1, <2>1, <2>2, <2>3, <2>4, <2>5, <2>6 DEF Thread, ThreadRuns
<1>2. CASE Owner
  <2>1. CASE StartClient
    BY <2>1 DEF StartClient
  <2>2. CASE LeaveLoop \/ CheckRunning \/ SendClose \/ LowerFlags
    BY <2>2, <1>0 DEF LeaveLoop, CheckRunning, SendClose, LowerFlags
  <2>3. CASE OwnerCloses
    BY <2>3, <1>0 DEF OwnerCloses, CloseSocket
  <2>4. CASE OwnerLeaves
    BY <2>4 DEF OwnerLeaves, StopComesFirst
  <2> QED BY <1>2, <2>1, <2>2, <2>3, <2>4 DEF Owner, OwnerStops
<1>3. CASE PhoneAnswers \/ PhoneSendsOn \/ PhoneHangsUp
  BY <1>3 DEF PhoneAnswers, PhoneSendsOn, PhoneHangsUp
<1>4. CASE OthersUseDescriptors
  BY <1>0, <1>4 DEF OthersUseDescriptors
<1>5. CASE UNCHANGED vars
  BY <1>5 DEF vars
<1> QED BY <1>1, <1>2, <1>3, <1>4, <1>5 DEF Next

LEMMA WholeStep ==
    ASSUME TypeOK, OneThread, PacketsAreWhole, AnswerFollowsRequest, [Next]_vars
    PROVE  sent' <= FrameOf(answer') /\ AnswersArriveWhole'
<1> USE DEF PacketsAreWhole, AnswersArriveWhole, ThreadGoto, OwnerGoto, phoneVars,
            packetVars
<1>0. /\ sent \in Nat /\ FrameOf(answer) \in Nat /\ FrameOf(answer') \in Nat
      /\ FrameOf(answer) > 0
  BY FrameSizes DEF TypeOK, LengthSize
<1>1. CASE Thread
  <2>0. UNCHANGED <<sent, answer, ownerPc>>
    <3>1. CASE ConvertAddress \/ FindChannel \/ OpenSocket \/ CallConnect
      BY <3>1 DEF ConvertAddress, FindChannel, ResolvedAs, OpenSocket, CallConnect
    <3>2. CASE ConnectReturns \/ MakePacket \/ WritePacket
      BY <3>2 DEF ConnectReturns, MakePacket, WritePacket
    <3>3. CASE CallRead \/ CallTheirs \/ ReadReturns \/ TheirsReturns
      BY <3>3 DEF CallRead, CallTheirs, ReadReturns, TheirsReturns
    <3>4. CASE FinishThread \/ ThreadCloses \/ ThreadReturns
      BY <3>4 DEF FinishThread, ThreadCloses, ThreadReturns
    <3>5. CASE OnResponseReceived \/ WriteVerdict
      BY <3>5 DEF OnResponseReceived, WriteVerdict
    <3> QED BY <1>1, <3>1, <3>2, <3>3, <3>4, <3>5 DEF Thread, ThreadRuns
  <2>1. FrameOf(answer') = FrameOf(answer)
    BY <2>0
  <2>2. CASE CallRead
    <3>1. CASE SocketIsOurs
      BY <2>0, <2>1, <2>2, <3>1 DEF CallRead
    <3>2. CASE ~SocketIsOurs
      BY <2>0, <2>1, <2>2, <3>2
      DEF CallRead, ReturnPacket, SocketIsKept, Connected, NoPacket
    <3> QED BY <3>1, <3>2
  <2>3. CASE ReadReturns
    <3>1. ASSUME NEW n \in Onwards(bytesRead) \cap 0 .. sent,
                 n = FrameOf(answer),
                 ReturnPacket("inRead",
                              IF answer.length = 0 THEN NoPacket ELSE answer)
          PROVE  AnswersArriveWhole'
      <4>1. sent = FrameOf(answer)
        BY <1>0, <3>1
      <4> QED BY <2>0, <2>1, <3>1, <4>1 DEF ReturnPacket
    <3>2. CASE ReadFails /\ ReturnPacket("inRead", NoPacket)
      <4>1. peer = "gone" \/ ownerPc \in {"reset", "join"}
        BY <3>2 DEF ReadFails, SocketIsOpen, SocketIsKept, SocketIsOurs, Connected,
           ReturnPacket
      <4> QED BY <2>0, <2>3, <3>2, <4>1 DEF ReadReturns, ReturnPacket, NoPacket
    <3>3. CASE threadPc' = "read"
      BY <1>0, <2>0, <2>1, <3>3
    <3> QED BY <1>0, <2>0, <2>1, <2>3, <3>1, <3>2, <3>3 DEF ReadReturns
  <2>4. CASE TheirsReturns
    <3>1. ownerPc \in {"reset", "join"}
      BY <2>4 DEF TheirsReturns, ReturnPacket, SocketIsKept, AwayPcs
    <3> QED BY <1>0, <2>0, <2>1, <2>4, <3>1 DEF TheirsReturns, ReturnPacket
  <2>5. CASE ~(CallRead \/ ReadReturns \/ TheirsReturns)
    <3>1. threadPc' # "respond"
      <4>1. CASE ConvertAddress \/ FindChannel \/ OpenSocket \/ CallConnect
        BY <4>1 DEF ConvertAddress, FindChannel, ResolvedAs, OpenSocket, CallConnect
      <4>2. CASE ConnectReturns \/ MakePacket \/ WritePacket \/ CallTheirs
        BY <4>2 DEF ConnectReturns, MakePacket, WritePacket, CallTheirs
      <4>3. CASE OnResponseReceived \/ WriteVerdict
        BY <4>3 DEF OnResponseReceived, WriteVerdict
      <4>4. CASE FinishThread \/ ThreadCloses \/ ThreadReturns
        BY <4>4 DEF FinishThread, ThreadCloses, ThreadReturns
      <4> QED BY <1>1, <2>5, <4>1, <4>2, <4>3, <4>4 DEF Thread, ThreadRuns
    <3> QED BY <1>0, <2>0, <2>1, <3>1
  <2> QED BY <2>2, <2>3, <2>4, <2>5
<1>2. CASE Owner
  <2>1. UNCHANGED <<sent, answer, peer, received>>
    BY <1>2 DEF Owner, StartClient, LeaveLoop, OwnerStops, CheckRunning, SendClose,
       LowerFlags, OwnerCloses, OwnerLeaves
  <2>2. threadPc' = "respond" => threadPc = "respond"
    BY <1>2 DEF Owner, StartClient, LeaveLoop, OwnerStops, CheckRunning, SendClose,
       LowerFlags, OwnerCloses, OwnerLeaves
  <2>3. threadPc' = "respond" /\ ownerPc \in {"reset", "join"} =>
            ownerPc' \in {"reset", "join"}
    BY <1>2 DEF Owner, StartClient, LeaveLoop, OwnerStops, CheckRunning, SendClose,
       LowerFlags, OwnerCloses, OwnerLeaves
  <2> QED BY <2>1, <2>2, <2>3
<1>3. CASE PhoneAnswers
  <2>1. sent' <= FrameOf(answer')
    BY <1>0, <1>3 DEF PhoneAnswers
  <2>2. AnswersArriveWhole'
    BY <1>0, <1>3 DEF PhoneAnswers
  <2> QED BY <2>1, <2>2
<1>4. CASE PhoneSendsOn
  <2>1. FrameOf(answer') = FrameOf(answer) /\ sent < FrameOf(answer)
    BY <1>0, <1>4 DEF PhoneSendsOn
  <2> QED BY <1>0, <1>4, <2>1 DEF PhoneSendsOn
<1>5. CASE PhoneHangsUp \/ OthersUseDescriptors \/ UNCHANGED vars
  BY <1>5 DEF PhoneHangsUp, OthersUseDescriptors, vars
<1> QED BY <1>1, <1>2, <1>3, <1>4, <1>5 DEF Next

LEMMA ReachedStep ==
    ASSUME TypeOK, OneThread, PhoneIsReached, [Next]_vars PROVE PhoneIsReached'
<1> USE DEF PhoneIsReached, ThreadGoto, OwnerGoto, phoneVars, packetVars
<1>1. CASE Thread
  <2>1. CASE ConvertAddress \/ FindChannel \/ OpenSocket \/ CallConnect
    BY <2>1 DEF ConvertAddress, FindChannel, ResolvedAs, OpenSocket, CallConnect
  <2>2. CASE ConnectReturns
    BY <2>2 DEF ConnectReturns
  <2>3. CASE MakePacket
    BY <2>3, FrameSizes DEF MakePacket
  <2>4. CASE WritePacket
    BY <2>4, FrameSizes DEF WritePacket, TypeOK
  <2>5. CASE CallRead \/ CallTheirs \/ ReadReturns \/ TheirsReturns
    BY <2>5, FrameSizes DEF CallRead, CallTheirs, ReadReturns, TheirsReturns,
       ReturnPacket, Onwards, TypeOK
  <2>6. CASE OnResponseReceived \/ WriteVerdict
    BY <2>6 DEF OnResponseReceived, WriteVerdict
  <2>7. CASE FinishThread \/ ThreadCloses \/ ThreadReturns
    BY <2>7 DEF FinishThread, ThreadCloses, ThreadReturns
  <2> QED BY <1>1, <2>1, <2>2, <2>3, <2>4, <2>5, <2>6, <2>7 DEF Thread, ThreadRuns
<1>2. CASE Owner
  <2>1. UNCHANGED <<peer, written>>
    BY <1>2 DEF Owner, StartClient, LeaveLoop, OwnerStops, CheckRunning, SendClose,
       LowerFlags, OwnerCloses, OwnerLeaves
  <2>2. CASE StartClient
    BY <2>1, <2>2 DEF StartClient, OneThread
  <2>3. CASE ~StartClient
    <3>1. threadPc' = threadPc
      BY <1>2, <2>3 DEF Owner, LeaveLoop, OwnerStops, CheckRunning, SendClose,
         LowerFlags, OwnerCloses, OwnerLeaves
    <3> QED BY <2>1, <3>1
  <2> QED BY <2>2, <2>3
<1>3. CASE PhoneAnswers \/ PhoneSendsOn \/ PhoneHangsUp \/ OthersUseDescriptors
  BY <1>3 DEF PhoneAnswers, PhoneSendsOn, PhoneHangsUp, OthersUseDescriptors
<1>4. CASE UNCHANGED vars
  BY <1>4 DEF vars
<1> QED BY <1>1, <1>2, <1>3, <1>4 DEF Next

LEMMA Inductive == Spec => []IInv
<1>1. Init => IInv
  <2> SUFFICES ASSUME Init PROVE IInv
    OBVIOUS
  <2>1. TypeOK
    BY TypeInit
  <2>2. OneThread
    BY DEF Init, OneThread
  <2>3. SocketIsNamed
    BY DEF Init, SocketIsNamed, NoneIsOurs, Socketless
  <2>4. AnswerFollowsRequest
    BY DEF Init, AnswerFollowsRequest, NoPacket
  <2>5. VerdictFollowsAnswer
    BY DEF Init, VerdictFollowsAnswer, Undecided, Unsent, Socketless
  <2>6. PacketsAreWhole
    BY FrameSizes DEF Init, PacketsAreWhole, StopComesFirst, SocketIsKept,
       AnswersArriveWhole, Connected, AwayPcs, LengthSize
  <2>7. PhoneIsReached
    BY DEF Init, PhoneIsReached
  <2> QED BY <2>1, <2>2, <2>3, <2>4, <2>5, <2>6, <2>7 DEF IInv
<1>2. IInv /\ [Next]_vars => IInv'
  BY TypeStep, ThreadStep, SocketStep, AnswerStep, VerdictStep,
     StopStep, KeptStep, WholeStep, ReachedStep DEF IInv, PacketsAreWhole
<1> QED BY <1>1, <1>2, PTL DEF Spec

-----------------------------------------------------------------------------
(* The results.                                                              *)

\* Both threads close the socket without a lock, but between them they always
\* do: none is left when the connection is deleted.
THEOREM SocketsAreClosed == Spec => []NoSocketLeaks
<1>1. IInv => NoSocketLeaks
  <2> SUFFICES ASSUME IInv, ownerPc = "gone", NEW f \in Fd
               PROVE  descriptor[f] # "ours"
    BY DEF NoSocketLeaks
  <2>1. threadPc \in {"none", "ended"}
    BY DEF IInv, SocketIsNamed
  <2> QED
    BY <2>1, ClientAssumption DEF IInv, SocketIsNamed, NoneIsOurs, Socketless
<1> QED BY <1>1, Inductive, PTL

\* A success stands for an answer to this very request, sealed with the key of
\* the device and at most PACKET_TIMEOUT old.
THEOREM SuccessesAreFresh == Spec => []SuccessIsFresh
<1>1. IInv => SuccessIsFresh
  <2> SUFFICES ASSUME IInv, m_UnlockState = "SUCCESS"
               PROVE  /\ request = "whole"
                      /\ received.sealed /\ received.content = "ours"
                      /\ received.age \in -PACKET_TIMEOUT .. PACKET_TIMEOUT
    BY DEF SuccessIsFresh
  <2>1. IsAnswer(received) /\ received.content = "ours"
    BY DEF IInv, VerdictFollowsAnswer
  <2>2. received.sealed /\ received.age \in -PACKET_TIMEOUT .. PACKET_TIMEOUT
    BY <2>1 DEF IsAnswer, DecryptAESPacket, DecryptAES
  <2>3. received = answer
    BY <2>1 DEF IInv, AnswerFollowsRequest, NoPacket
  <2>4. request = "whole"
    BY <2>1, <2>3 DEF IInv, AnswerFollowsRequest
  <2> QED BY <2>1, <2>2, <2>4
<1> QED BY <1>1, Inductive, PTL

\* However the answer is cut up on its way: what ReadPacket hands on is the packet
\* the phone sent, and it gives up only when no more of it can come.  What it may
\* have from elsewhere after Stop()'s close is no answer to this request.
THEOREM AnswersAreWhole == Spec => []AnswersArriveWhole
<1>1. IInv => AnswersArriveWhole
  BY DEF IInv, PacketsAreWhole
<1> QED BY <1>1, Inductive, PTL

\* Stop() and delete join a thread that can go on, or, Stop() alone, one that reads
\* from a phone that is still there or is in a call on somebody else's descriptor:
\* the flag that Stop() finds down is down for a thread that is past its last call.
THEOREM JoinsAreNotLong == Spec => []JoinsAreShort
<1>1. IInv => JoinsAreShort
  <2> SUFFICES ASSUME IInv, threadPc \notin {"none", "ended"}
               PROVE  /\ ownerPc = "join" =>
                             \/ ThreadReady
                             \/ threadPc = "inRead" /\ peer = "connected"
                             \/ threadPc \in AwayPcs
                      /\ ownerPc = "delete" =>
                             /\ ThreadReady
                             /\ threadPc \notin {"resolve", "connect", "inConnect",
                                                 "write", "read", "inRead"}
    BY DEF JoinsAreShort
  <2>1. /\ threadPc \in ThreadPcs \ {"none", "ended"}
        /\ peer \in {"none", "connected", "gone"}
    BY DEF IInv, TypeOK
  <2>2. threadPc \in {"write", "inRead"} => peer # "none"
    BY DEF IInv, PhoneIsReached
  <2>3. CASE ownerPc = "join"
    BY <2>1, <2>2, <2>3 DEF ThreadReady, ReadFails
  <2>4. CASE ownerPc = "delete"
    <3>1. threadPc \notin {"resolve", "connect", "inConnect", "write", "read", "inRead"}
      BY <2>4 DEF IInv, PacketsAreWhole, StopComesFirst, Connected
    <3>2. threadPc \notin AwayPcs
      BY <2>4 DEF IInv, PacketsAreWhole, SocketIsKept
    <3> QED BY <2>1, <2>4, <3>1, <3>2 DEF ThreadReady
  <2> QED BY <2>3, <2>4
<1> QED BY <1>1, Inductive, PTL

-----------------------------------------------------------------------------
(* The loops end.                                                            *)

LEMMA StepsAreCounted == ASSUME TypeOK PROVE StepsLeft \in Nat
<1>1. FrameSize \in Nat /\ bytesRead \in 0 .. FrameSize /\ written \in 0 .. FrameSize
  BY FrameSizes DEF TypeOK
<1>2. /\ 9 + 2 * (FrameSize - bytesRead) \in Nat
      /\ 10 + 2 * (FrameSize - bytesRead) \in Nat
      /\ 11 + 2 * FrameSize + 2 * (FrameSize - written) \in Nat
      /\ 12 + 2 * FrameSize + 2 * (FrameSize - written) \in Nat
      /\ \A k \in 13 .. 18 : k + 4 * FrameSize \in Nat
  BY <1>1
<1> QED BY <1>2 DEF StepsLeft

LEMMA StepsGetFewer == ASSUME TypeOK, TypeOK', Thread PROVE StepsLeft' < StepsLeft
<1> USE DEF ThreadGoto, StepsLeft, packetVars
<1>0. /\ FrameSize \in Nat
      /\ bytesRead \in 0 .. FrameSize /\ written \in 0 .. FrameSize
      /\ bytesRead' \in 0 .. FrameSize /\ written' \in 0 .. FrameSize
  BY FrameSizes DEF TypeOK
<1>1. CASE ConvertAddress \/ FindChannel
  BY <1>0, <1>1 DEF ConvertAddress, FindChannel, ResolvedAs
<1>2. CASE OpenSocket \/ CallConnect
  BY <1>0, <1>2 DEF OpenSocket, CallConnect
<1>3. CASE ConnectReturns \/ MakePacket
  BY <1>0, <1>3 DEF ConnectReturns, MakePacket
<1>4. CASE WritePacket
  <2>1. threadPc = "write"
    BY <1>4 DEF WritePacket
  <2>2. CASE threadPc' = "read"
    BY <1>0, <2>1, <2>2
  <2>3. CASE threadPc' # "read"
    <3>1. threadPc' = "write" /\ written' \in Onwards(written)
      BY <1>4, <2>3 DEF WritePacket
    <3>2. written' > written
      BY <1>0, <3>1, FrameSizes DEF Onwards
    <3> QED BY <1>0, <2>1, <3>1, <3>2
  <2> QED BY <2>2, <2>3
<1>5. CASE CallRead \/ CallTheirs
  BY <1>0, <1>5 DEF CallRead, CallTheirs, ReturnPacket
<1>6. CASE ReadReturns
  <2>1. threadPc = "inRead"
    BY <1>6 DEF ReadReturns, ReturnPacket
  <2>2. CASE threadPc' = "respond"
    BY <1>0, <2>1, <2>2
  <2>3. CASE threadPc' # "respond"
    <3>1. threadPc' = "read" /\ bytesRead' \in Onwards(bytesRead)
      BY <1>6, <2>3 DEF ReadReturns, ReturnPacket
    <3>2. bytesRead' > bytesRead
      BY <1>0, <3>1, FrameSizes DEF Onwards
    <3> QED BY <1>0, <2>1, <3>1, <3>2
  <2> QED BY <2>2, <2>3
<1>7. CASE TheirsReturns
  <2>1. CASE threadPc' = "write"
    <3>1. threadPc = "inTheirWrite" /\ written' > written
      BY <1>0, <1>7, <2>1, FrameSizes DEF TheirsReturns, ReturnPacket, Onwards
    <3> QED BY <1>0, <2>1, <3>1
  <2>2. CASE threadPc' = "read" /\ threadPc = "inTheirWrite"
    BY <1>0, <2>2
  <2>3. CASE threadPc' = "read" /\ threadPc = "inTheirRead"
    <3>1. bytesRead' > bytesRead
      BY <1>0, <1>7, <2>3, FrameSizes DEF TheirsReturns, ReturnPacket, Onwards
    <3> QED BY <1>0, <2>3, <3>1
  <2>4. CASE threadPc' = "respond" /\ threadPc = "inTheirRead"
    BY <1>0, <2>4
  <2> QED BY <1>7, <2>1, <2>2, <2>3, <2>4 DEF TheirsReturns, ReturnPacket
<1>8. CASE OnResponseReceived \/ WriteVerdict
  BY <1>8 DEF OnResponseReceived, WriteVerdict
<1>9. CASE FinishThread \/ ThreadCloses \/ ThreadReturns
  BY <1>9 DEF FinishThread, ThreadCloses, ThreadReturns
<1> QED
  BY <1>1, <1>2, <1>3, <1>4, <1>5, <1>6, <1>7, <1>8, <1>9 DEF Thread, ThreadRuns

LEMMA OthersGiveNoSteps ==
    ASSUME TypeOK, TypeOK', OneThread, Next, ~Thread PROVE StepsLeft' <= StepsLeft
<1>1. CASE StartClient
  <2>1. FrameSize \in Nat
    BY FrameSizes
  <2>2. CASE UNCHANGED threadPc
    BY <1>1, <2>2, StepsAreCounted DEF StartClient, packetVars, StepsLeft
  <2>3. CASE threadPc' = "resolve"
    <3>1. threadPc = "none"
      BY <1>1 DEF StartClient, OwnerGoto, OneThread
    <3>2. StepsLeft = 18 + 4 * FrameSize /\ StepsLeft' = 17 + 4 * FrameSize
      BY <2>3, <3>1 DEF StepsLeft
    <3> QED BY <2>1, <3>2
  <2> QED BY <1>1, <2>2, <2>3 DEF StartClient, OwnerGoto
<1>2. CASE ~StartClient
  <2>1. UNCHANGED <<threadPc, bytesRead, written>>
    BY <1>2 DEF Next, Owner, LeaveLoop, OwnerStops, CheckRunning, SendClose,
       LowerFlags, OwnerCloses, OwnerLeaves, PhoneAnswers, PhoneSendsOn,
       PhoneHangsUp, OthersUseDescriptors, packetVars
  <2>2. StepsLeft' = StepsLeft
    BY <2>1 DEF StepsLeft
  <2> QED BY <2>2, StepsAreCounted
<1> QED BY <1>1, <1>2

\* WritePacket and ReadPacket do not go round for good, whatever the phone sends
\* and however it arrives: each step of the thread counts down, and the count is
\* never raised.
THEOREM LoopsEnd == Spec => ThreadGetsOn
<1>1. IInv /\ IInv' /\ [Next]_vars
         => [IF Thread THEN StepsLeft' < StepsLeft ELSE StepsLeft' <= StepsLeft]_vars
  BY StepsGetFewer, OthersGiveNoSteps DEF IInv
<1> QED BY <1>1, Inductive, PTL DEF Spec, ThreadGetsOn

-----------------------------------------------------------------------------
(* The refinement.                                                           *)

\* Every step of the client is one of the contract, or changes nothing of it.
LEMMA Refines ==
    ASSUME IInv, [Next]_vars
    PROVE  [Contract!ServerNext]_(Contract!serverVars)
<1> USE DEF ContractThread, ThreadGoto, OwnerGoto, serverVars
<1> DEFINE c == "client"
<1>0. /\ TypeOK /\ VerdictFollowsAnswer
      /\ ownerPc = "new" => threadPc = "none"
  BY DEF IInv, OneThread
<1>1. ASSUME UNCHANGED serverVars, UNCHANGED ContractThread
      PROVE  UNCHANGED Contract!serverVars
  BY <1>1 DEF Contract!serverVars
<1>2. ASSUME Contract!Start(c) \/ Contract!StopSignal(c) \/ Contract!ServerThread(c)
      PROVE  Contract!ServerNext
  BY <1>2 DEF Contract!ServerNext
<1>3. CASE Thread
  <2> USE DEF VerdictFollowsAnswer, Undecided, Unsent, Socketless
  <2>1. ASSUME NEW found \in BOOLEAN, NEW failure \in {"addressless", "channelless"},
               ResolvedAs(found, failure)
        PROVE  [Contract!ServerNext]_(Contract!serverVars)
    <3>1. CASE found
      <4>1. m_IsRunning' = m_IsRunning
        BY <1>0, <2>1, <3>1, Zenon DEF ResolvedAs, TypeOK
      <4> QED BY <2>1, <3>1, <4>1, <1>1 DEF ResolvedAs
    <3>2. CASE ~found
      <4>1. Contract!Finish(c)
        BY <1>0, <2>1, <3>2 DEF ResolvedAs, Contract!Finish
      <4> QED BY <4>1, <1>2 DEF Contract!ServerThread
    <3> QED BY <3>1, <3>2
  <2>2. CASE ConvertAddress \/ FindChannel
    <3>1. \A channels : (FindChannelSDP(channels) # -1) \in BOOLEAN
      OBVIOUS
    <3> QED BY <2>1, <2>2, <3>1 DEF ConvertAddress, FindChannel
  <2>3. CASE OpenSocket
    <3>1. CASE threadPc' = "connect"
      BY <2>3, <3>1, <1>1 DEF OpenSocket
    <3>2. CASE threadPc' = "socketless"
      <4>1. Contract!Finish(c)
        BY <1>0, <2>3, <3>2 DEF OpenSocket, Contract!Finish
      <4> QED BY <4>1, <1>2 DEF Contract!ServerThread
    <3> QED BY <2>3, <3>1, <3>2 DEF OpenSocket
  <2>4. CASE ConnectReturns
    <3>1. CASE threadPc' = "refused"
      BY <2>4, <3>1, <1>1 DEF ConnectReturns
    <3>2. CASE threadPc' = "packet"
      <4>1. Contract!Connect(c)
        BY <1>0, <2>4, <3>2 DEF ConnectReturns, Contract!Connect
      <4> QED BY <4>1, <1>2 DEF Contract!ServerThread
    <3> QED BY <2>4, <3>1, <3>2 DEF ConnectReturns
  <2>5. CASE MakePacket
    <3>1. CASE threadPc' = "write"
      BY <2>5, <3>1, <1>1 DEF MakePacket
    <3>2. CASE threadPc' = "packetless"
      <4>1. Contract!Finish(c)
        BY <1>0, <2>5, <3>2 DEF MakePacket, Contract!Finish
      <4> QED BY <4>1, <1>2 DEF Contract!ServerThread
    <3> QED BY <2>5, <3>1, <3>2 DEF MakePacket
  <2>6. CASE \/ CallConnect \/ WritePacket \/ CallRead \/ CallTheirs
             \/ ReadReturns \/ TheirsReturns
    BY <2>6, <1>1 DEF CallConnect, WritePacket, CallRead, CallTheirs, ReadReturns,
       TheirsReturns, ReturnPacket
  <2>7. CASE OnResponseReceived
    <3>1. CASE threadPc' = "verdict"
      <4>1. received.content \in Answers
        BY <2>7, <3>1 DEF OnResponseReceived, IsAnswer
      <4>2. Contract!StoreResponse(c, received.content)
        BY <1>0, <2>7, <3>1 DEF OnResponseReceived, Contract!StoreResponse
      <4> QED BY <4>1, <4>2, <1>2 DEF Contract!ServerThread
    <3>2. CASE threadPc' = "finish"
      <4>1. m_UnlockState' \in ThreadVerdicts \ {"SUCCESS", "CONNECT_ERROR"}
        BY <2>7, <3>2, JudgementIsAVerdict DEF OnResponseReceived
      <4>2. Contract!Conclude(c, m_UnlockState')
        BY <1>0, <2>7, <3>2, <4>1 DEF OnResponseReceived, Contract!Conclude
      <4> QED BY <4>1, <4>2, <1>2 DEF Contract!ServerThread
    <3> QED BY <2>7, <3>1, <3>2 DEF OnResponseReceived
  <2>8. CASE WriteVerdict
    <3>1. /\ m_UnlockState' \in ThreadVerdicts
          /\ m_UnlockState' = "SUCCESS" <=> m_ResponseData = "ours"
      BY <1>0, <2>8, JudgementIsAVerdict
      DEF WriteVerdict, ThreadVerdicts
    <3>2. UNCHANGED ContractThread /\ ContractThread \in {"connecting", "connected", "leaving"}
      <4>1. CASE threadPc = "verdict"
        <5>1. threadPc' = "finish" /\ m_UnlockState' # "CONNECT_ERROR"
          BY <2>8, <4>1, JudgementIsAVerdict DEF WriteVerdict
        <5> QED BY <4>1, <5>1
      <4>3. CASE threadPc = "refused"
        BY <2>8, <4>3 DEF WriteVerdict
      <4>2. CASE threadPc \in {"addressless", "channelless", "socketless", "packetless"}
        BY <1>0, <2>8, <4>2 DEF WriteVerdict
      <4> QED BY <2>8, <4>1, <4>2, <4>3 DEF WriteVerdict
    <3>3. Contract!Conclude(c, m_UnlockState')
      BY <1>0, <2>8, <3>1, <3>2 DEF WriteVerdict, Contract!Conclude
    <3> QED BY <3>1, <3>3, <1>2 DEF Contract!ServerThread
  <2>9. CASE FinishThread
    <3>1. CASE threadPc = "finish"
      <4>1. Contract!Finish(c)
        BY <1>0, <2>9, <3>1 DEF FinishThread, Contract!Finish
      <4> QED BY <4>1, <1>2 DEF Contract!ServerThread
    <3>2. CASE threadPc = "hangUp"
      <4>1. Contract!HangUp(c)
        BY <1>0, <2>9, <3>2 DEF FinishThread, Contract!HangUp
      <4> QED BY <4>1, <1>2 DEF Contract!ServerThread
    <3> QED BY <2>9, <3>1, <3>2 DEF FinishThread
  <2>10. CASE ThreadCloses
    BY <2>10, <1>1 DEF ThreadCloses
  <2>11. CASE ThreadReturns
    <3>1. Contract!End(c)
      BY <1>0, <2>11 DEF ThreadReturns, Contract!End
    <3> QED BY <3>1, <1>2 DEF Contract!ServerThread
  <2> QED
    BY <1>3, <2>2, <2>3, <2>4, <2>5, <2>6, <2>7, <2>8, <2>9, <2>10, <2>11
    DEF Thread, ThreadRuns
<1>4. CASE Owner
  <2>1. CASE StartClient
    <3>1. CASE ownerPc' = "delete"
      BY <2>1, <3>1, <1>1 DEF StartClient
    <3>2. CASE ownerPc' = "poll"
      <4>1. Contract!Start(c)
        BY <1>0, <2>1, <3>2 DEF StartClient, Contract!Start
      <4> QED BY <4>1, <1>2
    <3> QED BY <2>1, <3>1, <3>2 DEF StartClient
  <2>2. CASE LowerFlags
    <3>1. Contract!StopSignal(c)
      <4>1. UNCHANGED ContractThread
        BY <2>2 DEF LowerFlags
      <4> HIDE DEF ContractThread
      <4> QED BY <2>2, <4>1 DEF LowerFlags, Contract!StopSignal
    <3> QED BY <3>1, <1>2
  <2>3. CASE LeaveLoop \/ CheckRunning \/ SendClose \/ OwnerCloses \/ OwnerLeaves
    BY <2>3, <1>1 DEF LeaveLoop, CheckRunning, SendClose, OwnerCloses, OwnerLeaves
  <2> QED BY <1>4, <2>1, <2>2, <2>3 DEF Owner, OwnerStops
<1>5. CASE PhoneAnswers \/ PhoneSendsOn \/ PhoneHangsUp \/ OthersUseDescriptors \/ UNCHANGED vars
  BY <1>5, <1>1 DEF PhoneAnswers, PhoneSendsOn, PhoneHangsUp, OthersUseDescriptors, vars
<1> QED BY <1>3, <1>4, <1>5 DEF Next

\* The client is a connection as UnlockHandler assumes it, whatever the phone
\* and the rest of the process do.
THEOREM ClientImplementsContract == Spec => ImplementsContract
<1>1. Init => Contract!ServerInit
  BY DEF Init, Contract!ServerInit, ContractThread
<1>2. IInv /\ [Next]_vars => [Contract!ServerNext]_(Contract!serverVars)
  BY Refines
<1> QED
  BY <1>1, <1>2, Inductive, PTL DEF Spec, ImplementsContract, Contract!ServerSpec

-----------------------------------------------------------------------------
(* What the client inherits from the contract.                               *)

Inherited == INSTANCE BaseUnlockServerProofs WITH
    Server <- {"client"},
    Outcome <- ThreadVerdicts,
    Answer <- Answers,
    m_IsRunning <- [s \in {"client"} |-> m_IsRunning],
    m_HasConnection <- [s \in {"client"} |-> m_HasConnection],
    m_UnlockState <- [s \in {"client"} |-> m_UnlockState],
    m_ResponseData <- [s \in {"client"} |-> m_ResponseData],
    m_AcceptThread <- [s \in {"client"} |-> ContractThread]

LEMMA SameContract == Contract!ServerSpec => Inherited!ServerSpec
<1>1. Contract!ServerInit => Inherited!ServerInit
  BY DEF Contract!ServerInit, Inherited!ServerInit
<1>2. [Contract!ServerNext]_(Contract!serverVars) => [Inherited!ServerNext]_(Inherited!serverVars)
  <2> USE DEF Inherited!ServerNext, Inherited!ServerThread
  <2>1. ASSUME NEW s \in {"client"}, Contract!Start(s) \/ Contract!StopSignal(s)
        PROVE  Inherited!ServerNext
    BY <2>1 DEF Contract!Start, Contract!StopSignal, Inherited!Start,
       Inherited!StopSignal
  <2>2. ASSUME NEW s \in {"client"}, Contract!ServerThread(s)
        PROVE  Inherited!ServerThread(s)
    BY <2>2 DEF Contract!ServerThread, Contract!Connect, Contract!Finish,
       Contract!HangUp, Contract!End, Contract!StoreResponse, Contract!Conclude,
       Inherited!Connect, Inherited!Finish, Inherited!HangUp, Inherited!End,
       Inherited!StoreResponse, Inherited!Conclude
  <2>3. UNCHANGED Contract!serverVars => UNCHANGED Inherited!serverVars
    BY DEF Contract!serverVars, Inherited!serverVars
  <2> QED BY <2>1, <2>2, <2>3 DEF Contract!ServerNext
<1> QED BY <1>1, <1>2, PTL DEF Contract!ServerSpec, Inherited!ServerSpec

\* RunServer polls the verdict and copies the answer without a lock; whatever the
\* thread, Stop() and the phone do, neither changes once it is there.
ReadingIsFinal ==
    /\ m_UnlockState # "UNKNOWN" => UNCHANGED <<m_UnlockState, m_ResponseData>>
    /\ m_ResponseData # "none" => UNCHANGED m_ResponseData

\* The worker may copy verdict and answer of the client at any time after it
\* has seen them: ConnectThread does not write them again.
THEOREM ReadingsAreFinal == Spec => [][ReadingIsFinal]_vars
<1>1. [Inherited!AllAreFinal]_(Inherited!serverVars) => [ReadingIsFinal]_vars
  <2> SUFFICES ASSUME [Inherited!AllAreFinal]_(Inherited!serverVars)
               PROVE  ReadingIsFinal
    OBVIOUS
  <2>1. CASE Inherited!AllAreFinal
    BY <2>1 DEF Inherited!AllAreFinal, Inherited!IsFinal, ReadingIsFinal
  <2>2. CASE UNCHANGED Inherited!serverVars
    <3>1. /\ [s \in {"client"} |-> m_UnlockState]["client"]'
                 = [s \in {"client"} |-> m_UnlockState]["client"]
          /\ [s \in {"client"} |-> m_ResponseData]["client"]'
                 = [s \in {"client"} |-> m_ResponseData]["client"]
      BY <2>2 DEF Inherited!serverVars
    <3> QED BY <3>1 DEF ReadingIsFinal
  <2> QED BY <2>1, <2>2
<1>2. Inherited!ServerAssumption
  BY DEF Answers, ThreadVerdicts, Inherited!ThreadVerdicts
<1>3. Contract!ServerSpec => Inherited!VerdictsAreFinal
  <2>1. Inherited!ServerSpec => Inherited!VerdictsAreFinal
    BY <1>2, Inherited!ServerVerdictsAreFinal, PTL
  <2> QED BY <2>1, SameContract, PTL
<1> QED BY <1>1, <1>3, ClientImplementsContract, PTL
    DEF ImplementsContract, Inherited!VerdictsAreFinal
=============================================================================
