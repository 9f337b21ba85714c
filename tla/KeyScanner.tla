----------------------------- MODULE KeyScanner -----------------------------
(* KeyScanner (common-cpp/src/handler/KeyScanner.cpp) as it is on Linux: a   *)
(* thread that reads the keyboards for as long as m_IsRunning is up.  (On    *)
(* Windows there is no thread: GetKeyState asks the system.)                 *)
(*                                                                           *)
(* Nobody gives m_KeyMaps its elements.  The first key event is stored in an *)
(* element that is not there, at an address near 0, and a directory of       *)
(* keyboards that is not there raises an exception nobody catches: either    *)
(* ends the process.                                                         *)
EXTENDS Sequences

CONSTANT Keyboard    \* the keyboards of /dev/input/by-path

VARIABLES m_IsRunning,
          scanPc,    \* where ScanThread is
          kbds,      \* the keyboards it has open
          typing,    \* those of them with a key event waiting
          died       \* what ended the process: "no", "SIGABRT", "SIGSEGV"

scannerVars == <<m_IsRunning, scanPc, kbds, typing, died>>

\* The elements of m_KeyMaps.  As there are none, GetKeyState finds no key down,
\* and the keys that are to cancel an unlock never do.
KeyMaps == <<>>

ScannerTypeOK ==
    /\ m_IsRunning \in BOOLEAN
    /\ scanPc \in {"none", "list", "loop", "read", "close", "ended"}
    /\ kbds \subseteq Keyboard
    /\ typing \subseteq kbds
    /\ died \in {"no", "SIGABRT", "SIGSEGV"}

ScannerInit ==
    /\ m_IsRunning = FALSE
    /\ scanPc = "none"
    /\ kbds = {}
    /\ typing = {}
    /\ died = "no"

Start ==
    IF m_IsRunning
      THEN UNCHANGED scannerVars
      ELSE /\ m_IsRunning' = TRUE
           /\ scanPc' = "list"
           /\ UNCHANGED <<kbds, typing, died>>

\* Stop() lowers the flag; the join it ends with returns when Joinable.
Lower == m_IsRunning' = FALSE /\ UNCHANGED <<scanPc, kbds, typing, died>>

Joinable == scanPc \in {"none", "ended"}

-----------------------------------------------------------------------------
(* ScanThread.                                                               *)

ScanGoto(from, to) == scanPc = from /\ scanPc' = to

\* GetKeyboards, and open() of each, which may fail.
ListKeyboards ==
    /\ \/ \E opened \in SUBSET Keyboard :
             /\ ScanGoto("list", IF opened = {} THEN "ended" ELSE "loop")
             /\ kbds' = opened
             /\ UNCHANGED died
       \/ /\ ScanGoto("list", "ended")
          /\ died' = "SIGABRT"
          /\ UNCHANGED kbds
    /\ UNCHANGED <<m_IsRunning, typing>>

ScanTest ==
    /\ ScanGoto("loop", IF m_IsRunning THEN "read" ELSE "close")
    /\ UNCHANGED <<m_IsRunning, kbds, typing, died>>

\* One round: the number of a keyboard is its index in m_KeyMaps.
ReadKeyboards ==
    /\ ScanGoto("read", "loop")
    /\ died' = IF typing # {} /\ DOMAIN KeyMaps = {} THEN "SIGSEGV" ELSE died
    /\ typing' = {}
    /\ UNCHANGED <<m_IsRunning, kbds>>

\* A slip: the keyboards are left open.
CloseNothing ==
    /\ ScanGoto("close", "ended")
    /\ UNCHANGED <<m_IsRunning, kbds, typing, died>>

CloseKeyboards ==
    /\ ScanGoto("close", "ended")
    /\ kbds' = {}
    /\ typing' = {}
    /\ UNCHANGED <<m_IsRunning, died>>

ScanThread == ListKeyboards \/ ScanTest \/ ReadKeyboards \/ CloseKeyboards

\* Somebody types.
Type ==
    /\ \E kbd \in kbds \ typing : typing' = typing \cup {kbd}
    /\ UNCHANGED <<m_IsRunning, scanPc, kbds, died>>
=============================================================================
