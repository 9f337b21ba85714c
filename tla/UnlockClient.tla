---------------------------- MODULE UnlockClient ----------------------------
(* TCPUnlockClient and BTUnlockClient: the PC connects to the phone          *)
(* (common-cpp/src/connection/clients/{TCP,BT}UnlockClient.cpp), with        *)
(* BaseUnlockServer::OnResponseReceived, which they share.                   *)
(*                                                                           *)
(* ConnectThread and the worker that owns the connection run concurrently on *)
(* the same unlocked fields, and both of them close m_ClientSocket.  A       *)
(* descriptor that was closed may be handed out again to another thread of   *)
(* the process.  The phone is outside: it answers, or hangs up, or neither.  *)
EXTENDS UnlockState, UnlockPacket, SequencesExt

CONSTANTS Fd,        \* the descriptors of the process
          NoSocket,  \* (SOCKET)-1
          Transport, \* of {"TCP", "BT"}: the classes the run looks at
          System,    \* of {"Linux", "Windows"}: what they are built for
          RequestSizes, \* bytes of a request before it is encrypted
          SdpReplies,   \* channels a phone may list for the service
          DataPieces    \* the parts the data of a packet may arrive in

\* (A request of 969 to 984 bytes, which EncryptAES takes although its tag does
\* not fit in the buffer, is left out.)
ASSUME ClientAssumption ==
    /\ NoSocket \notin Fd
    /\ Transport \subseteq {"TCP", "BT"}
    /\ System \subseteq {"Linux", "Windows"}
    /\ RequestSizes # {} /\ SdpReplies # {}
    /\ \A size \in RequestSizes :
          /\ size \in Nat
          /\ \/ size + 8 + IV_SIZE + SALT_SIZE + TagSize <= BufferSize
             \/ size + 8 + IV_SIZE + SALT_SIZE > BufferSize
    /\ SdpReplies \subseteq Seq(0 .. 255)
    /\ DataPieces \in Nat \ {0}

VARIABLES m_IsRunning, m_HasConnection, m_UnlockState, m_ResponseData,
          m_ClientSocket, \* a descriptor or NoSocket
          descriptor,     \* each descriptor: "free", "ours", "theirs"
          threadPc,       \* where ConnectThread is
          ownerPc,        \* where the worker (RunServer) is
          written,        \* how much of the request WritePacket has written,
          bytesRead,      \* of the answer ReadPacket has read: 0 outside them
          received,       \* the packet ReadPacket returned
          peer,           \* the phone's end: "none", "connected", "gone"
          request,        \* what it got: "none", "partial", "whole", "garbled"
          answer,         \* the packet it is sending, or NoPacket
          sent,           \* how much of it has been sent
          told,           \* it was sent "CLOSE"
          system          \* what this client is built for

serverVars == <<m_IsRunning, m_HasConnection, m_UnlockState, m_ResponseData>>
packetVars == <<written, bytesRead, received>>
phoneVars == <<peer, request, answer, sent, told, system>>
vars == <<serverVars, m_ClientSocket, descriptor, threadPc, ownerPc, packetVars,
          phoneVars>>

\* A packet on the wire: the two bytes of its length, and its data.
LengthSize == 2
FrameSize == LengthSize + DataPieces
FrameOf(packet) == IF packet.length = 0 THEN LengthSize ELSE FrameSize

\* How far one read() or write() may get from n: each of them asks for the rest
\* of the length or for the rest of the data.
Onwards(n) == n + 1 .. IF n < LengthSize THEN LengthSize ELSE FrameSize

ThreadPcs == {"none", "resolve", "addressless", "channelless", "socket",
              "socketless", "connect", "inConnect", "refused", "packet",
              "packetless", "write", "inTheirWrite", "read", "inRead", "inTheirRead",
              "respond", "verdict", "finish", "hangUp", "testSocket", "close",
              "reset", "return", "ended"}

OwnerPcs == {"new", "poll", "stop", "sendClose", "lowerFlags", "testSocket",
             "close", "reset", "join", "collect", "delete", "gone"}

TypeOK ==
    /\ m_IsRunning \in BOOLEAN
    /\ m_HasConnection \in BOOLEAN
    /\ m_UnlockState \in {"UNKNOWN"} \cup ThreadVerdicts
    /\ m_ResponseData \in {"none"} \cup Answers
    /\ m_ClientSocket \in Fd \cup {NoSocket}
    /\ descriptor \in [Fd -> {"free", "ours", "theirs"}]
    /\ threadPc \in ThreadPcs
    /\ ownerPc \in OwnerPcs
    /\ written \in 0 .. FrameSize
    /\ bytesRead \in 0 .. FrameSize
    /\ received \in Packets
    /\ peer \in {"none", "connected", "gone"}
    /\ request \in {"none", "partial", "whole", "garbled"}
    /\ answer \in Packets
    /\ sent \in 0 .. FrameSize
    /\ told \in BOOLEAN
    /\ system \in System

Init ==
    /\ m_IsRunning = FALSE
    /\ m_HasConnection = FALSE
    /\ m_UnlockState = "UNKNOWN"
    /\ m_ResponseData = "none"
    /\ m_ClientSocket = NoSocket
    /\ descriptor = [f \in Fd |-> "free"]
    /\ threadPc = "none"
    /\ ownerPc = "new"
    /\ written = 0
    /\ bytesRead = 0
    /\ received = NoPacket
    /\ peer = "none"
    /\ request = "none"
    /\ answer = NoPacket
    /\ sent = 0
    /\ told = FALSE
    /\ system \in System

\* Closing a socket wakes a thread that is blocked in it.
CloseAborts == system = "Windows"

\* m_ClientSocket, loaded now, is the open socket of this connection.
SocketIsOurs == m_ClientSocket \in Fd /\ descriptor[m_ClientSocket] = "ours"

\* m_ClientSocket, loaded now, is a descriptor that others have taken over: it
\* names the one Stop() has closed until Stop() resets it.
SocketIsTheirs == m_ClientSocket \in Fd /\ descriptor[m_ClientSocket] = "theirs"

\* The socket of this connection is open, whatever m_ClientSocket says.
SocketIsOpen == \E f \in Fd : descriptor[f] = "ours"

\* close(m_ClientSocket): whatever that descriptor is by now.
CloseSocket ==
    descriptor' = IF m_ClientSocket \in Fd
                    THEN [descriptor EXCEPT ![m_ClientSocket] = "free"]
                    ELSE descriptor

-----------------------------------------------------------------------------
(* ConnectThread.                                                            *)

ThreadGoto(from, to) == threadPc = from /\ threadPc' = to

\* The two classes differ here alone: in how they find the phone, and in the
\* verdict when they do not.
ResolvedAs(found, failure) ==
    /\ ThreadGoto("resolve", IF found THEN "socket" ELSE failure)
    /\ m_IsRunning' = (found /\ m_IsRunning)
    /\ UNCHANGED <<m_HasConnection, m_UnlockState, m_ResponseData,
                   m_ClientSocket, descriptor, ownerPc, packetVars, phoneVars>>

\* inet_pton: the IP of the paired device is one or not.
ConvertAddress ==
    /\ "TCP" \in Transport
    /\ \E valid \in BOOLEAN : ResolvedAs(valid, "addressless")

\* The channel the phone's service listens on, or -1: the last one listed (the
\* list is empty also when the phone is out of reach).
FindChannelSDP(channels) ==
    IF channels # <<>> /\ Last(channels) \in 1 .. 30 THEN Last(channels) ELSE -1

\* Linux asks the phone for the channel, Windows takes the service's GUID.
FindChannel ==
    /\ "BT" \in Transport
    /\ \/ /\ system = "Linux"
          /\ \E channels \in SdpReplies :
                ResolvedAs(FindChannelSDP(channels) # -1, "channelless")
       \/ system = "Windows" /\ ResolvedAs(TRUE, "channelless")

OpenSocket ==
    /\ \/ /\ ThreadGoto("socket", "connect")
          /\ \E f \in Fd :
                /\ descriptor[f] = "free"
                /\ descriptor' = [descriptor EXCEPT ![f] = "ours"]
                /\ m_ClientSocket' = f
          /\ UNCHANGED m_IsRunning
       \/ /\ ThreadGoto("socket", "socketless")
          /\ m_ClientSocket' = NoSocket
          /\ m_IsRunning' = FALSE
          /\ UNCHANGED descriptor
    /\ UNCHANGED <<m_HasConnection, m_UnlockState, m_ResponseData, ownerPc,
                   packetVars, phoneVars>>

\* connect() is called; on a descriptor that is not our socket it is taken to
\* fail, on one that others have taken over as on none.
CallConnect ==
    /\ ThreadGoto("connect", IF SocketIsOurs THEN "inConnect" ELSE "refused")
    /\ UNCHANGED <<serverVars, m_ClientSocket, descriptor, ownerPc, packetVars,
                   phoneVars>>

\* connect() returns.  Closing the socket meanwhile stops it only on Windows.
ConnectReturns ==
    /\ \/ /\ ThreadGoto("inConnect", "packet")
          /\ CloseAborts => SocketIsOpen
          /\ m_HasConnection' = TRUE
          /\ peer' = "connected"
       \/ /\ ThreadGoto("inConnect", "refused")
          /\ UNCHANGED <<m_HasConnection, peer>>
    /\ UNCHANGED <<m_IsRunning, m_UnlockState, m_ResponseData, m_ClientSocket,
                   descriptor, ownerPc, packetVars, request, answer, sent, told,
                   system>>

\* GetUnlockInfoPacket; it returns nothing when the encryption fails.
MakePacket ==
    /\ \E size \in RequestSizes : \E encLen \in EncryptAESPacket(size) :
          \/ /\ encLen > 0
             /\ ThreadGoto("packet", "write")
             /\ UNCHANGED m_IsRunning
          \/ /\ encLen = 0
             /\ ThreadGoto("packet", "packetless")
             /\ m_IsRunning' = FALSE
    /\ UNCHANGED <<m_HasConnection, m_UnlockState, m_ResponseData,
                   m_ClientSocket, descriptor, ownerPc, packetVars, phoneVars>>

\* A slip: what write() took is not counted.
WritePacketUncounted ==
    /\ \/ /\ SocketIsOurs /\ peer = "connected"
          /\ threadPc = "write" /\ UNCHANGED threadPc
          /\ request' = IF told THEN "garbled" ELSE "partial"
       \/ /\ ~SocketIsTheirs
          /\ ~SocketIsOurs \/ peer = "gone"
          /\ ThreadGoto("write", "read")
          /\ UNCHANGED request
    /\ UNCHANGED <<serverVars, m_ClientSocket, descriptor, ownerPc, packetVars,
                   peer, answer, sent, told, system>>

\* One write() of WritePacket, which may take a part of what is left.  When one
\* fails the rest is not written and nobody is told: the thread reads on.
WritePacket ==
    /\ \/ /\ SocketIsOurs /\ peer = "connected"
          /\ \E n \in Onwards(written) :
                \/ /\ n < FrameSize
                   /\ threadPc = "write" /\ UNCHANGED threadPc
                   /\ written' = n
                   /\ request' = IF told THEN "garbled" ELSE "partial"
                \/ /\ n = FrameSize
                   /\ ThreadGoto("write", "read")
                   /\ written' = 0
                   /\ request' = IF told THEN "garbled" ELSE "whole"
       \/ /\ ~SocketIsTheirs
          /\ ~SocketIsOurs \/ peer = "gone"
          /\ ThreadGoto("write", "read")
          /\ written' = 0
          /\ UNCHANGED request
    /\ UNCHANGED <<serverVars, m_ClientSocket, descriptor, ownerPc, bytesRead,
                   received, peer, answer, sent, told, system>>

\* ReadPacket returns the packet, or nothing.
ReturnPacket(from, packet) ==
    ThreadGoto(from, "respond") /\ bytesRead' = 0 /\ received' = packet

\* ReadPacket calls read(): it blocks on our socket and fails on none.
CallRead ==
    /\ \/ /\ SocketIsOurs /\ ThreadGoto("read", "inRead")
          /\ UNCHANGED <<bytesRead, received>>
       \/ /\ ~SocketIsOurs /\ ~SocketIsTheirs
          /\ ReturnPacket("read", NoPacket)
    /\ UNCHANGED <<serverVars, m_ClientSocket, descriptor, ownerPc, written,
                   phoneVars>>

\* Both of them go to the descriptor m_ClientSocket names, whoever has it by now.
CallTheirs ==
    /\ SocketIsTheirs
    /\ ThreadGoto("write", "inTheirWrite") \/ ThreadGoto("read", "inTheirRead")
    /\ UNCHANGED <<serverVars, m_ClientSocket, descriptor, ownerPc, packetVars,
                   phoneVars>>

\* Such a call may return with a part of what it asked for, with the rest of it,
\* or with a failure, or not at all.  What it reads was not meant for us, and the
\* token of this request is in none of it.
TheirsReturns ==
    /\ \/ /\ \/ /\ ThreadGoto("inTheirWrite", "write")
                /\ written' \in Onwards(written) \ {FrameSize}
             \/ ThreadGoto("inTheirWrite", "read") /\ written' = 0
          /\ UNCHANGED <<bytesRead, received>>
       \/ /\ \/ /\ ThreadGoto("inTheirRead", "read")
                /\ bytesRead' \in Onwards(bytesRead) \ {FrameSize}
                /\ UNCHANGED received
             \/ \E packet \in Packets :
                   /\ packet.content # "ours"
                   /\ packet = NoPacket \/ bytesRead >= LengthSize
                   /\ ReturnPacket("inTheirRead", packet)
          /\ UNCHANGED written
    /\ UNCHANGED <<serverVars, m_ClientSocket, descriptor, ownerPc, phoneVars>>

\* read() fails: the phone hung up, or the socket was closed under it.
ReadFails == peer = "gone" \/ (~SocketIsOpen /\ CloseAborts)

\* Slips: read() is tried again when it fails; the data is not read in a loop.
ReadReturnsRetrying ==
    /\ sent = FrameOf(answer) /\ ReturnPacket("inRead", answer)
    /\ UNCHANGED <<serverVars, m_ClientSocket, descriptor, ownerPc, written,
                   phoneVars>>

ReadReturnsFirstPiece ==
    /\ \/ \E n \in Onwards(bytesRead) \cap 0 .. sent :
             \/ n > LengthSize /\ ReturnPacket("inRead", answer)
             \/ /\ n <= LengthSize /\ ThreadGoto("inRead", "read")
                /\ bytesRead' = n /\ UNCHANGED received
       \/ ReadFails /\ ReturnPacket("inRead", NoPacket)
    /\ UNCHANGED <<serverVars, m_ClientSocket, descriptor, ownerPc, written,
                   phoneVars>>

\* read() returns with some of what was sent: the packet is complete (it has no
\* data when its length is zero), or the rest is read from m_ClientSocket as it
\* is then.
ReadReturns ==
    /\ \/ \E n \in Onwards(bytesRead) \cap 0 .. sent :
             \/ /\ n = FrameOf(answer)
                /\ ReturnPacket("inRead",
                                IF answer.length = 0 THEN NoPacket ELSE answer)
             \/ /\ n < FrameOf(answer) /\ ThreadGoto("inRead", "read")
                /\ bytesRead' = n /\ UNCHANGED received
       \/ ReadFails /\ ReturnPacket("inRead", NoPacket)
    /\ UNCHANGED <<serverVars, m_ClientSocket, descriptor, ownerPc, written,
                   phoneVars>>

\* OnResponseReceived: an answer is stored first and judged by its token in a
\* second step; anything else is judged at once, and then forgotten.
OnResponseReceived ==
    /\ \/ /\ IsAnswer(received)
          /\ ThreadGoto("respond", "verdict")
          /\ m_ResponseData' = received.content
          /\ UNCHANGED <<m_UnlockState, received>>
       \/ /\ ~IsAnswer(received)
          /\ ThreadGoto("respond", "finish")
          /\ m_UnlockState' = Judgement(received)
          /\ received' = NoPacket
          /\ UNCHANGED m_ResponseData
    /\ UNCHANGED <<m_IsRunning, m_HasConnection, m_ClientSocket, descriptor,
                   ownerPc, written, bytesRead, phoneVars>>

\* Slips: a refused connection is called a timeout; the token is not compared;
\* the socket stays open when there is no packet to send.
WriteVerdictTimeout ==
    /\ ThreadGoto("refused", "finish") /\ m_UnlockState' = "TIMEOUT"
    /\ UNCHANGED <<m_IsRunning, m_HasConnection, m_ResponseData, m_ClientSocket,
                   descriptor, ownerPc, packetVars, phoneVars>>

WriteVerdictAnyToken ==
    /\ ThreadGoto("verdict", "finish") /\ m_UnlockState' = "SUCCESS"
    /\ UNCHANGED <<m_IsRunning, m_HasConnection, m_ResponseData, m_ClientSocket,
                   descriptor, ownerPc, packetVars, phoneVars>>

WriteVerdictKeepsSocket ==
    /\ ThreadGoto("packetless", "return") /\ m_UnlockState' = "UNK_ERROR"
    /\ UNCHANGED <<m_IsRunning, m_HasConnection, m_ResponseData, m_ClientSocket,
                   descriptor, ownerPc, packetVars, phoneVars>>

\* The other writes of the verdict, by the place they are written at.
WriteVerdict ==
    /\ \/ /\ ThreadGoto("verdict", "finish")
          /\ m_UnlockState' = TokenVerdict(m_ResponseData)
       \/ ThreadGoto("refused", "finish") /\ m_UnlockState' = "CONNECT_ERROR"
       \/ ThreadGoto("addressless", "return") /\ m_UnlockState' = "UNK_ERROR"
       \/ ThreadGoto("channelless", "return") /\ m_UnlockState' = "CONNECT_ERROR"
       \/ ThreadGoto("socketless", "return") /\ m_UnlockState' = "UNK_ERROR"
       \/ ThreadGoto("packetless", "testSocket") /\ m_UnlockState' = "UNK_ERROR"
    /\ UNCHANGED <<m_IsRunning, m_HasConnection, m_ResponseData, m_ClientSocket,
                   descriptor, ownerPc, packetVars, phoneVars>>

FinishThread ==
    /\ \/ /\ ThreadGoto("finish", "hangUp")
          /\ m_IsRunning' = FALSE
          /\ UNCHANGED m_HasConnection
       \/ /\ ThreadGoto("hangUp", "testSocket")
          /\ m_HasConnection' = FALSE
          /\ UNCHANGED m_IsRunning
    /\ UNCHANGED <<m_UnlockState, m_ResponseData, m_ClientSocket, descriptor,
                   ownerPc, packetVars, phoneVars>>

\* SAFE_CLOSE: the test, the close and the reset are three steps.
ThreadCloses ==
    /\ \/ /\ ThreadGoto("testSocket",
                        IF m_ClientSocket # NoSocket THEN "close" ELSE "return")
          /\ UNCHANGED <<descriptor, m_ClientSocket>>
       \/ /\ ThreadGoto("close", "reset")
          /\ CloseSocket
          /\ UNCHANGED m_ClientSocket
       \/ /\ ThreadGoto("reset", "return")
          /\ m_ClientSocket' = NoSocket
          /\ UNCHANGED descriptor
    /\ UNCHANGED <<serverVars, ownerPc, packetVars, phoneVars>>

ThreadReturns ==
    /\ ThreadGoto("return", "ended")
    /\ UNCHANGED <<serverVars, m_ClientSocket, descriptor, ownerPc, packetVars,
                   phoneVars>>

\* What the thread does by itself.
ThreadRuns ==
    \/ ConvertAddress \/ FindChannel \/ OpenSocket \/ CallConnect \/ ConnectReturns
    \/ MakePacket \/ WritePacket \/ CallRead \/ CallTheirs \/ ReadReturns
    \/ OnResponseReceived \/ WriteVerdict
    \/ FinishThread \/ ThreadCloses \/ ThreadReturns

Thread == ThreadRuns \/ TheirsReturns

-----------------------------------------------------------------------------
(* The owner: RunServer, then the delete of GetResult.                       *)

OwnerGoto(from, to) == ownerPc = from /\ ownerPc' = to

\* Start(); WSAStartup may fail on Windows.
StartClient ==
    /\ \/ /\ OwnerGoto("new", "poll")
          /\ m_IsRunning' = TRUE
          /\ threadPc' = "resolve"
       \/ /\ OwnerGoto("new", "delete")
          /\ UNCHANGED <<m_IsRunning, threadPc>>
    /\ UNCHANGED <<m_HasConnection, m_UnlockState, m_ResponseData,
                   m_ClientSocket, descriptor, packetVars, phoneVars>>

\* The loop of RunServer ends: a verdict, the timeout, or someone cancelled.
LeaveLoop ==
    /\ OwnerGoto("poll", "stop")
    /\ UNCHANGED <<serverVars, m_ClientSocket, descriptor, threadPc, packetVars,
                   phoneVars>>

\* A slip: Stop() has nothing to do where nobody is connected.
CheckConnected ==
    /\ OwnerGoto("stop", IF m_HasConnection THEN "sendClose" ELSE "collect")
    /\ UNCHANGED <<serverVars, m_ClientSocket, descriptor, threadPc, packetVars,
                   phoneVars>>

\* Stop() has nothing to do for a thread that has lowered the flag itself.
CheckRunning ==
    /\ OwnerGoto("stop", IF m_IsRunning THEN "sendClose" ELSE "collect")
    /\ UNCHANGED <<serverVars, m_ClientSocket, descriptor, threadPc, packetVars,
                   phoneVars>>

\* "CLOSE" is written raw, maybe into the middle of the thread's packet.
SendClose ==
    /\ OwnerGoto("sendClose", "lowerFlags")
    /\ IF m_HasConnection /\ SocketIsOurs /\ peer = "connected"
         THEN /\ told' = TRUE
              /\ request' = IF request = "partial" THEN "garbled" ELSE request
         ELSE UNCHANGED <<told, request>>
    /\ UNCHANGED <<serverVars, m_ClientSocket, descriptor, threadPc, packetVars,
                   peer, answer, sent, system>>

LowerFlags ==
    /\ OwnerGoto("lowerFlags", "testSocket")
    /\ m_IsRunning' = FALSE
    /\ m_HasConnection' = FALSE
    /\ UNCHANGED <<m_UnlockState, m_ResponseData, m_ClientSocket, descriptor,
                   threadPc, packetVars, phoneVars>>

\* SAFE_CLOSE again, on the same field.
OwnerCloses ==
    /\ \/ /\ OwnerGoto("testSocket",
                       IF m_ClientSocket # NoSocket THEN "close" ELSE "join")
          /\ UNCHANGED <<descriptor, m_ClientSocket>>
       \/ /\ OwnerGoto("close", "reset")
          /\ CloseSocket
          /\ UNCHANGED m_ClientSocket
       \/ /\ OwnerGoto("reset", "join")
          /\ m_ClientSocket' = NoSocket
          /\ UNCHANGED descriptor
    /\ UNCHANGED <<serverVars, threadPc, packetVars, phoneVars>>

\* join() at the end of Stop(), the copy of the result, join() in delete.
OwnerLeaves ==
    /\ \/ OwnerGoto("join", "collect") /\ threadPc = "ended"
       \/ OwnerGoto("collect", "delete")
       \/ OwnerGoto("delete", "gone") /\ threadPc \in {"none", "ended"}
    /\ UNCHANGED <<serverVars, m_ClientSocket, descriptor, threadPc, packetVars,
                   phoneVars>>

OwnerStops ==
    CheckRunning \/ SendClose \/ LowerFlags \/ OwnerCloses \/ OwnerLeaves

Owner == StartClient \/ LeaveLoop \/ OwnerStops

-----------------------------------------------------------------------------
(* The phone and the rest of the process.                                    *)

\* The phone answers a request it could read; one it could not read, it does
\* not answer with our token.  Its packet leaves it in one piece or in several.
PhoneAnswers ==
    /\ peer = "connected"
    /\ sent = 0
    /\ request \in {"whole", "garbled"}
    /\ answer' \in Packets
    /\ answer'.content = "ours" => request = "whole"
    /\ sent' \in 1 .. FrameOf(answer')
    /\ UNCHANGED <<serverVars, m_ClientSocket, descriptor, threadPc, ownerPc,
                   packetVars, peer, request, told, system>>

PhoneSendsOn ==
    /\ peer = "connected"
    /\ sent > 0
    /\ sent' \in sent + 1 .. FrameOf(answer)
    /\ UNCHANGED <<serverVars, m_ClientSocket, descriptor, threadPc, ownerPc,
                   packetVars, peer, request, answer, told, system>>

PhoneHangsUp ==
    /\ peer = "connected"
    /\ peer' = "gone"
    /\ UNCHANGED <<serverVars, m_ClientSocket, descriptor, threadPc, ownerPc,
                   packetVars, request, answer, sent, told, system>>

\* Another thread opens a file or socket, or closes its own.
OthersUseDescriptors ==
    /\ \E f \in Fd :
          \/ /\ descriptor[f] = "free"
             /\ descriptor' = [descriptor EXCEPT ![f] = "theirs"]
          \/ /\ descriptor[f] = "theirs"
             /\ descriptor' = [descriptor EXCEPT ![f] = "free"]
    /\ UNCHANGED <<serverVars, m_ClientSocket, threadPc, ownerPc, packetVars,
                   phoneVars>>

Next ==
    \/ Thread \/ Owner
    \/ PhoneAnswers \/ PhoneSendsOn \/ PhoneHangsUp \/ OthersUseDescriptors

Spec == Init /\ [][Next]_vars

\* Both threads run, connect() returns in the end, and a phone that was told
\* "CLOSE" hangs up.  Nothing makes a phone answer, or a call return that went to
\* somebody else's descriptor.
FairSpec ==
    /\ Spec
    /\ WF_vars(ThreadRuns)
    /\ WF_vars(OwnerStops)
    /\ WF_vars(told /\ PhoneHangsUp)

-----------------------------------------------------------------------------
(* The contract.                                                             *)

\* How far the thread is in the terms of BaseUnlockServer.
ContractThread ==
    CASE threadPc \in {"resolve", "socket", "connect", "inConnect", "refused"} ->
             "connecting"
      [] threadPc \in {"packet", "write", "inTheirWrite", "read", "inRead",
                       "inTheirRead", "respond", "verdict"} -> "connected"
      [] threadPc = "finish" ->
             IF m_UnlockState = "CONNECT_ERROR" THEN "connecting" ELSE "connected"
      [] threadPc \in {"none", "ended"} -> threadPc
      [] OTHER -> "leaving"

Contract == INSTANCE BaseUnlockServer WITH
    Server <- {"client"},
    Outcome <- ThreadVerdicts,
    Answer <- Answers,
    m_IsRunning <- [s \in {"client"} |-> m_IsRunning],
    m_HasConnection <- [s \in {"client"} |-> m_HasConnection],
    m_UnlockState <- [s \in {"client"} |-> m_UnlockState],
    m_ResponseData <- [s \in {"client"} |-> m_ResponseData],
    m_AcceptThread <- [s \in {"client"} |-> ContractThread]

\* The client is a connection as UnlockHandler assumes it: one verdict, given
\* once; success for the answer to this request alone; m_IsRunning lowered only
\* when the answer is settled; no thread that leaves a connection unjudged.
ImplementsContract == Contract!ServerSpec

-----------------------------------------------------------------------------
(* Properties.                                                               *)

\* When the connection is deleted its socket has been closed, whichever of the
\* two threads got to it, and no connection was left half open.
NoSocketLeaks ==
    ownerPc = "gone" => \A f \in Fd : descriptor[f] # "ours"

\* A success was earned: the phone had read this request, and its answer was
\* sealed with the key of the device no longer than PACKET_TIMEOUT away from
\* the PC's time, in the past or in the future, and had the token in it.
SuccessIsFresh ==
    m_UnlockState = "SUCCESS" =>
        /\ request = "whole"
        /\ received.sealed /\ received.content = "ours"
        /\ received.age \in -PACKET_TIMEOUT .. PACKET_TIMEOUT

\* However the answer is cut up on its way, ReadPacket hands on the packet the
\* phone sent when it has all of it, and nothing only when there is nothing more
\* to come: the phone hung up, or Stop() has closed the socket.  What it hands on
\* after that close is never an answer to this request.
AnswersArriveWhole ==
    threadPc = "respond" =>
        \/ /\ sent = FrameOf(answer)
           /\ received = IF answer.length = 0 THEN NoPacket ELSE answer
        \/ received = NoPacket /\ peer = "gone"
        \/ received.content # "ours" /\ ownerPc \in {"reset", "join"}

\* The thread is in a call on a descriptor that belongs to somebody else.
AwayPcs == {"inTheirWrite", "inTheirRead"}

\* Where the thread can go on: everywhere but in a read() with nothing to read.
\* (A write() blocks neither while the phone is connected nor after that.)
ThreadReady ==
    /\ threadPc \in ThreadPcs \ ({"none", "ended"} \cup AwayPcs)
    /\ threadPc = "write" => ~SocketIsOurs \/ peer # "none"
    /\ threadPc = "inRead" => sent > bytesRead \/ ReadFails

\* Whoever joins the thread waits for steps it can take, except that Stop() may
\* wait for a phone that is connected and sends nothing, or for a call that went
\* to a descriptor others took over before Stop() reset the field.  The join of
\* delete is that of a thread Stop() left alone, because it had lowered the flag
\* itself: it waits for no phone, and for no call on one.
JoinsAreShort ==
    threadPc \notin {"none", "ended"} =>
        /\ ownerPc = "join" =>
               \/ ThreadReady
               \/ threadPc = "inRead" /\ peer = "connected"
               \/ threadPc \in AwayPcs
        /\ ownerPc = "delete" =>
               /\ ThreadReady
               /\ threadPc \notin {"resolve", "connect", "inConnect", "write",
                                   "read", "inRead"}

\* How many steps the thread has left at most: the places it still passes, and
\* the calls of read() and write() for what is left of a packet.
StepsLeft ==
    CASE threadPc = "ended"  -> 0
      [] threadPc = "return" -> 1
      [] threadPc \in {"reset", "addressless", "channelless", "socketless"} -> 2
      [] threadPc = "close" -> 3
      [] threadPc = "testSocket" -> 4
      [] threadPc \in {"hangUp", "packetless"} -> 5
      [] threadPc = "finish" -> 6
      [] threadPc \in {"verdict", "refused"} -> 7
      [] threadPc = "respond" -> 8
      [] threadPc \in {"inRead", "inTheirRead"} -> 9 + 2 * (FrameSize - bytesRead)
      [] threadPc = "read" -> 10 + 2 * (FrameSize - bytesRead)
      [] threadPc = "inTheirWrite" -> 11 + 2 * FrameSize + 2 * (FrameSize - written)
      [] threadPc = "write" -> 12 + 2 * FrameSize + 2 * (FrameSize - written)
      [] threadPc = "packet" -> 13 + 4 * FrameSize
      [] threadPc = "inConnect" -> 14 + 4 * FrameSize
      [] threadPc = "connect" -> 15 + 4 * FrameSize
      [] threadPc = "socket" -> 16 + 4 * FrameSize
      [] threadPc = "resolve" -> 17 + 4 * FrameSize
      [] OTHER -> 18 + 4 * FrameSize

\* The loops of WritePacket and ReadPacket end, in whatever pieces the packets
\* go: each step of the thread leaves it fewer, and nobody gives it new ones.
ThreadGetsOn ==
    [][IF Thread THEN StepsLeft' < StepsLeft ELSE StepsLeft' <= StepsLeft]_vars

\* Stop()'s join comes back, but for two kinds of thread, each of which keeps it
\* waiting in one call for good.  One was missed on its way from connect() to
\* read(): it waits for a phone that was not told to close.  (Where a close wakes
\* the reader, it has opened its socket after Stop() looked.)  The other came to
\* its write() or read() between Stop()'s close and its reset, when somebody else
\* had been given the descriptor.
JoinReturns ==
    ownerPc = "join" ~>
        \/ ownerPc = "collect"
        \/ [](threadPc = "inRead" /\ ~told /\ (CloseAborts => SocketIsOpen))
        \/ [](threadPc \in AwayPcs)

\* SAFE_CLOSE closes the socket of this connection and nobody else's.
OthersStayOpen ==
    [][Thread \/ Owner =>
          \A f \in Fd : descriptor[f] = "theirs" => descriptor'[f] = "theirs"]_vars
=============================================================================
