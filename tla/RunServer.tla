------------------------------ MODULE RunServer ------------------------------
(* UnlockHandler::RunServer with the two objects it starts and stops: the    *)
(* server the phone calls and the scanner of the keyboards.  The process     *)
(* has three threads here; what ends it ends all of them.                    *)
EXTENDS TCPUnlockServer

CONSTANT Keyboard

VARIABLES keysPc,          \* RunServer and the scanner: "new", "started",
                           \* "joining", "stopped"
          scannerRunning,  \* m_IsRunning of the scanner
          scanPc, kbds, typing, died

scanner == <<scannerRunning, scanPc, kbds, typing, died>>
allVars == <<vars, keysPc, scanner>>

Scanner == INSTANCE KeyScanner WITH m_IsRunning <- scannerRunning

RunServerTypeOK ==
    /\ TypeOK
    /\ Scanner!ScannerTypeOK
    /\ keysPc \in {"new", "started", "joining", "stopped"}

RunServerInit == Init /\ Scanner!ScannerInit /\ keysPc = "new"

-----------------------------------------------------------------------------
(* The worker, in the order of RunServer: the server is started before the   *)
(* scanner and stopped before it.                                            *)

KeysGoto(from, to) == keysPc = from /\ keysPc' = to

StartScanner ==
    /\ ownerPc = "poll"
    /\ KeysGoto("new", "started")
    /\ Scanner!Start
    /\ UNCHANGED vars

\* The loop ends: somebody cancelled, there is a verdict, or nobody connected in
\* time.
EndLoop ==
    /\ keysPc = "started"
    /\ LeaveLoop
    /\ UNCHANGED <<keysPc, scanner>>

\* A slip: the flag is lowered and the scan thread is not joined.
StopScannerUnjoined ==
    /\ ownerPc = "collect"
    /\ KeysGoto("started", "stopped")
    /\ Scanner!Lower
    /\ UNCHANGED vars

StopScanner ==
    /\ ownerPc = "collect"
    /\ \/ /\ KeysGoto("started", "joining")
          /\ Scanner!Lower
       \/ /\ KeysGoto("joining", "stopped")
          /\ Scanner!Joinable
          /\ UNCHANGED scanner
    /\ UNCHANGED vars

\* RunServer returns with the result, and GetResult deletes the server.
Return ==
    /\ keysPc # "started" /\ keysPc # "joining"
    /\ OwnerLeaves
    /\ UNCHANGED <<keysPc, scanner>>

StopServer == Stop /\ UNCHANGED <<keysPc, scanner>>

Worker == StartScanner \/ StopServer \/ StopScanner \/ Return

-----------------------------------------------------------------------------
(* The other threads, and the world.                                         *)

AcceptThread == Thread /\ UNCHANGED <<keysPc, scanner>>

ScanThread == Scanner!ScanThread /\ UNCHANGED <<vars, keysPc>>

World ==
    \/ (StartServer \/ PhoneSends \/ PhoneMoves \/ ElsewhereDelivers)
          /\ UNCHANGED <<keysPc, scanner>>
    \/ Scanner!Type /\ UNCHANGED <<vars, keysPc>>

Alive == died = "no"

RunServerNext ==
    Alive /\ (Worker \/ EndLoop \/ AcceptThread \/ ScanThread \/ World)

RunServerSpec == RunServerInit /\ [][RunServerNext]_allVars

\* The three threads run while the process lives; the phone, whoever else has the
\* descriptor of a read() and whoever types owe nothing.
FairSpec ==
    /\ RunServerSpec
    /\ WF_allVars(Alive /\ Worker)
    /\ WF_allVars(Alive /\ AcceptThread)
    /\ WF_allVars(Alive /\ ScanThread)

-----------------------------------------------------------------------------
(* Properties.                                                               *)

\* A worker that is through with the connection has no scan thread left and no
\* keyboard open: it goes on to delete the scanner, and a login that is tried
\* again and again does not use up the descriptors.
KeyboardsAreClosed ==
    ownerPc \in {"delete", "gone"} => Scanner!Joinable /\ kbds = {}

\* Where AcceptThread can go on: everywhere but in a read() with nothing to read.
AcceptReady ==
    /\ threadPc \in ThreadPcs \ {"none", "ended", "elsewhere"}
    /\ threadPc = "inRead" => phone = "gone"

\* A join waits for a thread that has been told to stop and can go on; that of
\* Stop() alone waits for a read(), too, of a connected phone, of the standard
\* input or of a descriptor that others have taken over.  The join of delete is
\* that of a thread that has closed its sockets without a connection: it waits
\* for no select() and no read().
JoinsAreShort ==
    /\ ownerPc = "join" /\ threadPc # "ended" =>
          /\ ~m_IsRunning
          /\ \/ AcceptReady
             \/ threadPc = "inRead" /\ phone = "connected"
             \/ threadPc = "elsewhere"
    /\ ownerPc = "delete" =>
          threadPc \in {"none", "closeServer", "resetServer", "return", "ended"}
    /\ keysPc = "joining" => ~scannerRunning

\* How many steps a thread has left at most once its flag is down.
AcceptStepsLeft ==
    CASE threadPc = "ended"       -> 0  [] threadPc = "return"      -> 1
      [] threadPc = "resetServer" -> 2  [] threadPc = "closeServer" -> 3
      [] threadPc = "resetClient" -> 4  [] threadPc = "closeClient" -> 5
      [] threadPc = "leave"       -> 6  [] threadPc = "loop"        -> 7
      [] threadPc = "verdict"     -> 8  [] threadPc = "respond"     -> 9
      [] threadPc \in {"inRead", "elsewhere"} -> 10
      [] threadPc = "read"        -> 11 [] threadPc = "accepted"    -> 12
      [] threadPc = "accept"      -> 13 [] threadPc = "select"      -> 14
      [] OTHER                    -> 15

ScanStepsLeft ==
    CASE scanPc = "ended" -> 0 [] scanPc = "close" -> 1 [] scanPc = "loop" -> 2
      [] scanPc = "read"  -> 3 [] scanPc = "list"  -> 4 [] OTHER           -> 5

\* A thread that moves after its flag went down moves towards its end.
StoppedThreadsEnd ==
    [][/\ ~m_IsRunning => UNCHANGED threadPc \/ AcceptStepsLeft' < AcceptStepsLeft
       /\ ~scannerRunning => UNCHANGED scanPc \/ ScanStepsLeft' < ScanStepsLeft]_allVars

\* RunServer comes back once its loop is over, unless AcceptThread stays in its
\* read(): of a phone that says nothing, which Stop() does not interrupt, of the
\* standard input, or of a descriptor that was closed and given to others.  (Or a
\* keyboard has ended the process.)
RunServerReturns ==
    ownerPc = "stop" ~>
        \/ ownerPc = "gone"
        \/ [](threadPc = "inRead")
        \/ [](threadPc = "elsewhere")
        \/ ~Alive
=============================================================================
