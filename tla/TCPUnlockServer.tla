--------------------------- MODULE TCPUnlockServer ---------------------------
(* TCPUnlockServer: the phone connects to the PC (pairing method CLOUD_TCP,  *)
(* common-cpp/src/connection/servers/TCPUnlockServer.cpp), with              *)
(* BaseUnlockServer::OnResponseReceived.                                     *)
(*                                                                           *)
(* AcceptThread and the owner share two sockets.  Here 0 is "no socket",     *)
(* which is also the descriptor of the standard input: a select() or read()  *)
(* after Stop() has reset the field goes there, and one between its close    *)
(* and the reset to whoever has been given the descriptor meanwhile, if any. *)
(* The server sends nothing, so the phone does not know the token of the     *)
(* request.                                                                  *)
EXTENDS UnlockState, UnlockPacket

VARIABLES m_IsRunning, m_HasConnection, m_UnlockState, m_ResponseData,
          field,        \* of m_ServerSocket and m_ClientSocket: holds a socket
          sockets,      \* the sockets of this server the system has open
          threadPc,     \* where AcceptThread is
          ownerPc,      \* where the worker (RunServer) is
          received,     \* what read() delivered
          phone         \* "away", "calling", "connected", "gone"

serverVars == <<m_IsRunning, m_HasConnection, m_UnlockState, m_ResponseData>>
socketVars == <<field, sockets>>
vars == <<serverVars, socketVars, threadPc, ownerPc, received, phone>>

Sockets == {"server", "client"}

\* What read() leaves of a packet in the buffer of AcceptThread.
ReadSize == 1024
AsRead(packet) ==
    IF packet.length <= ReadSize THEN packet
    ELSE [packet EXCEPT !.length = ReadSize, !.sealed = FALSE]

ThreadPcs == {"none", "loop", "select", "leave", "accept", "accepted", "read",
              "inRead", "elsewhere", "respond", "verdict", "closeClient",
              "resetClient", "closeServer", "resetServer", "return", "ended"}

OwnerPcs == {"new", "poll", "stop", "closeClient", "resetClient", "closeServer",
             "resetServer", "lowerFlags", "join", "collect", "delete", "gone"}

TypeOK ==
    /\ m_IsRunning \in BOOLEAN
    /\ m_HasConnection \in BOOLEAN
    /\ m_UnlockState \in {"UNKNOWN"} \cup ThreadVerdicts
    /\ m_ResponseData \in {"none"} \cup Answers
    /\ field \in [Sockets -> BOOLEAN]
    /\ sockets \subseteq Sockets
    /\ threadPc \in ThreadPcs
    /\ ownerPc \in OwnerPcs
    /\ received \in {AsRead(p) : p \in Packets}
    /\ phone \in {"away", "calling", "connected", "gone"}

Init ==
    /\ m_IsRunning = FALSE
    /\ m_HasConnection = FALSE
    /\ m_UnlockState = "UNKNOWN"
    /\ m_ResponseData = "none"
    /\ field = [x \in Sockets |-> FALSE]
    /\ sockets = {}
    /\ threadPc = "none"
    /\ ownerPc = "new"
    /\ received = NoPacket
    /\ phone = "away"

\* A call on the socket whose field is loaded now.
Usable(x) == field[x] /\ x \in sockets

\* SAFE_CLOSE(x), in two steps: the test and the close; the reset of the field.
Closing == [client |-> "closeClient", server |-> "closeServer"]
Resetting == [client |-> "resetClient", server |-> "resetServer"]

CloseIfSet(x) ==
    /\ sockets' = IF field[x] THEN sockets \ {x} ELSE sockets
    /\ UNCHANGED field

Reset(x) ==
    /\ field' = [field EXCEPT ![x] = FALSE]
    /\ UNCHANGED sockets

-----------------------------------------------------------------------------
(* AcceptThread.                                                             *)

ThreadGoto(from, to) == threadPc = from /\ threadPc' = to

\* A slip: the loop does not look at the flag.
LoopForever ==
    /\ ThreadGoto("loop", "select")
    /\ UNCHANGED <<serverVars, socketVars, ownerPc, received, phone>>

\* while (m_IsRunning): the test fails only after a select() that timed out.
LoopTest ==
    /\ ThreadGoto("loop", IF m_IsRunning THEN "select" ELSE "leave")
    /\ UNCHANGED <<serverVars, socketVars, ownerPc, received, phone>>

\* select() on the server socket: it fails, times out, or the phone calls.  On
\* what the descriptor is after Stop() has closed it, it may do any of this.
Select ==
    /\ \/ ThreadGoto("select", "leave")
       \/ ThreadGoto("select", "loop")
       \/ /\ ThreadGoto("select", "accept")
          /\ Usable("server") => phone = "calling"
    /\ UNCHANGED <<serverVars, socketVars, ownerPc, received, phone>>

\* A slip: a server nobody called reports a timeout itself.
LeaveTimedOut ==
    /\ ThreadGoto("leave", "closeServer")
    /\ m_IsRunning' = FALSE
    /\ m_UnlockState' = "TIMEOUT"
    /\ UNCHANGED <<m_HasConnection, m_ResponseData, socketVars, ownerPc,
                   received, phone>>

\* Without a connection the thread lowers the flag, closes and returns; there
\* is no verdict.
Leave ==
    /\ ThreadGoto("leave", "closeServer")
    /\ m_IsRunning' = FALSE
    /\ UNCHANGED <<m_HasConnection, m_UnlockState, m_ResponseData, socketVars,
                   ownerPc, received, phone>>

\* A failed accept() stores -1, which the next SAFE_CLOSE closes to no effect.  On
\* anything but the server socket it is taken to fail.
Accept ==
    /\ \/ /\ Usable("server") /\ phone = "calling"
          /\ ThreadGoto("accept", "accepted")
          /\ phone' = "connected"
          /\ field' = [field EXCEPT !["client"] = TRUE]
          /\ sockets' = sockets \cup {"client"}
       \/ /\ ThreadGoto("accept", "leave")
          /\ UNCHANGED <<socketVars, phone>>
    /\ UNCHANGED <<serverVars, ownerPc, received>>

Connected ==
    /\ ThreadGoto("accepted", "read")
    /\ m_HasConnection' = TRUE
    /\ UNCHANGED <<m_IsRunning, m_UnlockState, m_ResponseData, socketVars, ownerPc,
                   received, phone>>

\* The one read() of at most 1024 bytes.  When Stop() has closed the socket it
\* fails, or it is a read() of something else.
CallRead ==
    /\ \/ Usable("client") /\ ThreadGoto("read", "inRead")
       \/ ~Usable("client") /\ ThreadGoto("read", "elsewhere")
       \/ /\ field["client"] /\ ~Usable("client")
          /\ ThreadGoto("read", "respond")
    /\ received' = NoPacket
    /\ UNCHANGED <<serverVars, socketVars, ownerPc, phone>>

\* It delivers whatever has arrived: a packet, a part of one, or the end.
PhoneSends ==
    /\ phone = "connected"
    /\ ThreadGoto("inRead", "respond")
    /\ \E p \in Packets \ {NoPacket} :
          p.content # "ours" /\ received' = AsRead(p)
    /\ UNCHANGED <<serverVars, socketVars, ownerPc, phone>>

ReadEnds ==
    /\ phone = "gone"
    /\ ThreadGoto("inRead", "respond")
    /\ received' = NoPacket
    /\ UNCHANGED <<serverVars, socketVars, ownerPc, phone>>

\* What was read elsewhere may be anything but an answer to this request, and it
\* may never come.
ElsewhereDelivers ==
    /\ ThreadGoto("elsewhere", "respond")
    /\ \E p \in Packets : p.content # "ours" /\ received' = AsRead(p)
    /\ UNCHANGED <<serverVars, socketVars, ownerPc, phone>>

\* A slip: the answer is judged before it is stored.
RespondJudgesFirst ==
    /\ ThreadGoto("respond", "verdict")
    /\ m_UnlockState' = IF IsAnswer(received) THEN TokenVerdict(received.content)
                        ELSE Judgement(received)
    /\ UNCHANGED <<m_IsRunning, m_HasConnection, m_ResponseData, socketVars,
                   ownerPc, received, phone>>

\* The end of the connection cancels; OnResponseReceived does the rest, storing
\* an answer before its token is compared.
Respond ==
    /\ \/ /\ received = NoPacket
          /\ ThreadGoto("respond", "closeClient")
          /\ m_UnlockState' = "CANCELED"
          /\ UNCHANGED m_ResponseData
       \/ /\ received # NoPacket /\ ~IsAnswer(received)
          /\ ThreadGoto("respond", "closeClient")
          /\ m_UnlockState' = Judgement(received)
          /\ UNCHANGED m_ResponseData
       \/ /\ IsAnswer(received)
          /\ ThreadGoto("respond", "verdict")
          /\ m_ResponseData' = received.content
          /\ UNCHANGED m_UnlockState
    /\ UNCHANGED <<m_IsRunning, m_HasConnection, socketVars, ownerPc, received, phone>>

CompareToken ==
    /\ ThreadGoto("verdict", "closeClient")
    /\ m_UnlockState' = TokenVerdict(m_ResponseData)
    /\ UNCHANGED <<m_IsRunning, m_HasConnection, m_ResponseData, socketVars,
                   ownerPc, received, phone>>

ThreadSafeClose(x, next) ==
    \/ ThreadGoto(Closing[x], IF field[x] THEN Resetting[x] ELSE next) /\ CloseIfSet(x)
    \/ ThreadGoto(Resetting[x], next) /\ Reset(x)

\* A slip: after an exchange only the client's socket is closed.
ThreadClosesClientOnly ==
    /\ \/ ThreadSafeClose("client", "return")
       \/ ThreadGoto("closeServer", "return") /\ UNCHANGED socketVars
    /\ UNCHANGED <<serverVars, ownerPc, received, phone>>

ThreadCloses ==
    /\ \/ ThreadSafeClose("client", "closeServer")
       \/ ThreadSafeClose("server", "return")
    /\ UNCHANGED <<serverVars, ownerPc, received, phone>>

ThreadReturns ==
    /\ ThreadGoto("return", "ended")
    /\ UNCHANGED <<serverVars, socketVars, ownerPc, received, phone>>

Thread ==
    \/ LoopTest \/ Select \/ Leave \/ Accept \/ Connected \/ CallRead
    \/ ReadEnds \/ Respond \/ CompareToken \/ ThreadCloses \/ ThreadReturns

-----------------------------------------------------------------------------
(* The owner.                                                                *)

OwnerGoto(from, to) == ownerPc = from /\ ownerPc' = to

\* Start() fails with or without a socket left open, or starts the thread.
StartServer ==
    /\ \/ /\ OwnerGoto("new", "poll")
          /\ sockets' = {"server"}
          /\ field' = [field EXCEPT !["server"] = TRUE]
          /\ m_IsRunning' = TRUE
          /\ threadPc' = "loop"
       \/ /\ OwnerGoto("new", "delete")
          /\ \E bound \in BOOLEAN :
                /\ sockets' = IF bound THEN {"server"} ELSE {}
                /\ field' = [field EXCEPT !["server"] = bound]
          /\ UNCHANGED <<m_IsRunning, threadPc>>
    /\ UNCHANGED <<m_HasConnection, m_UnlockState, m_ResponseData, received, phone>>

LeaveLoop ==
    /\ OwnerGoto("poll", "stop")
    /\ UNCHANGED <<serverVars, socketVars, threadPc, received, phone>>

\* A slip: Stop() has nothing to do where nobody is connected.
CheckConnected ==
    /\ OwnerGoto("stop", IF m_HasConnection THEN "closeClient" ELSE "collect")
    /\ UNCHANGED <<serverVars, socketVars, threadPc, received, phone>>

CheckRunning ==
    /\ OwnerGoto("stop", IF m_IsRunning THEN "closeClient" ELSE "collect")
    /\ UNCHANGED <<serverVars, socketVars, threadPc, received, phone>>

OwnerSafeClose(x, next) ==
    \/ OwnerGoto(Closing[x], IF field[x] THEN Resetting[x] ELSE next) /\ CloseIfSet(x)
    \/ OwnerGoto(Resetting[x], next) /\ Reset(x)

\* Stop() closes both sockets before it lowers the flags.
OwnerCloses ==
    /\ \/ OwnerSafeClose("client", "closeServer")
       \/ OwnerSafeClose("server", "lowerFlags")
    /\ UNCHANGED <<serverVars, threadPc, received, phone>>

\* A slip: only the connection flag is lowered.
LowerConnectionFlag ==
    /\ OwnerGoto("lowerFlags", "join")
    /\ m_HasConnection' = FALSE
    /\ UNCHANGED <<m_IsRunning, m_UnlockState, m_ResponseData, socketVars,
                   threadPc, received, phone>>

LowerFlags ==
    /\ OwnerGoto("lowerFlags", "join")
    /\ m_IsRunning' = FALSE
    /\ m_HasConnection' = FALSE
    /\ UNCHANGED <<m_UnlockState, m_ResponseData, socketVars, threadPc, received, phone>>

JoinThread ==
    /\ OwnerGoto("join", "collect") /\ threadPc = "ended"
    /\ UNCHANGED <<serverVars, socketVars, threadPc, received, phone>>

\* The copy of the result, and delete, which joins a thread that Stop() left.
OwnerLeaves ==
    /\ \/ OwnerGoto("collect", "delete")
       \/ OwnerGoto("delete", "gone") /\ threadPc \in {"none", "ended"}
    /\ UNCHANGED <<serverVars, socketVars, threadPc, received, phone>>

Stop == CheckRunning \/ OwnerCloses \/ LowerFlags \/ JoinThread

-----------------------------------------------------------------------------
(* The phone.                                                                *)

PhoneMoves ==
    /\ \/ phone = "away" /\ "server" \in sockets /\ phone' = "calling"
       \/ phone = "connected" /\ phone' = "gone"
    /\ UNCHANGED <<serverVars, socketVars, threadPc, ownerPc, received>>

Next ==
    \/ Thread \/ ElsewhereDelivers
    \/ StartServer \/ LeaveLoop \/ Stop \/ OwnerLeaves
    \/ PhoneSends \/ PhoneMoves

Spec == Init /\ [][Next]_vars

-----------------------------------------------------------------------------
(* The contract.                                                             *)

ContractThread ==
    CASE threadPc \in {"loop", "select", "leave", "accept", "accepted"} ->
             "connecting"
      [] threadPc \in {"none", "ended"} -> threadPc
      [] threadPc \in {"read", "inRead", "elsewhere", "respond", "verdict"} ->
             "connected"
      [] OTHER -> IF m_UnlockState = "UNKNOWN" THEN "leaving" ELSE "connected"

Contract == INSTANCE BaseUnlockServer WITH
    Server <- {"server"},
    Outcome <- ThreadVerdicts,
    Answer <- Answers,
    m_IsRunning <- [s \in {"server"} |-> m_IsRunning],
    m_HasConnection <- [s \in {"server"} |-> m_HasConnection],
    m_UnlockState <- [s \in {"server"} |-> m_UnlockState],
    m_ResponseData <- [s \in {"server"} |-> m_ResponseData],
    m_AcceptThread <- [s \in {"server"} |-> ContractThread]

\* The server, too, is a connection as UnlockHandler assumes it; it may end
\* without a verdict, but then it never had a phone.
ImplementsContract == Contract!ServerSpec

-----------------------------------------------------------------------------
(* Properties.                                                               *)

\* A server that was started has closed its sockets when it is deleted, in
\* whatever order AcceptThread and Stop() got to them.
NoSocketLeaks == ownerPc = "gone" /\ threadPc = "ended" => sockets = {}
=============================================================================
