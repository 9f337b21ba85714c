---------------------------- MODULE UnlockRequest ----------------------------
(* What UnlockHandler::GetResult promises whoever calls it, pcbu_auth or the *)
(* Windows listener: an unlock that is put to the phones of a user's devices *)
(* and decided once.  UnlockHandler implements it.                           *)
(*                                                                           *)
(* It promises nothing about a request that fails: the answer may be that of *)
(* any device, or "UNKNOWN", although a phone has approved (see              *)
(* SuccessIsReported in UnlockHandlerPrints).                                *)
EXTENDS UnlockState

CONSTANTS Device,   \* the devices that may be paired
          NoDevice, \* the device of an answer that names none
          Response  \* what an answer may hold of a phone: "ours" is the password
                    \* sent for this request, "none" nothing

VARIABLES stage,    \* "idle", "asking", "decided", "returned"
          asked,    \* the devices the request was put to
          talking,  \* those a thread of the request is in touch with
          approved, \* those whose phone has approved this request
          answer    \* what the caller gets

requestVars == <<stage, asked, talking, approved, answer>>

Results == [state : UnlockStates, device : Device \cup {NoDevice},
            response : Response]

Undecided == [state |-> "UNKNOWN", device |-> NoDevice, response |-> "none"]
NotPaired == [state |-> "NOT_PAIRED_ERROR", device |-> NoDevice,
              response |-> "none"]

RequestInit ==
    /\ stage = "idle"
    /\ asked = {}
    /\ talking = {}
    /\ approved = {}
    /\ answer = Undecided

-----------------------------------------------------------------------------
\* A user without devices is turned away; otherwise the request is put to some.
Ask ==
    /\ stage = "idle"
    /\ asked' \in SUBSET Device
    /\ IF asked' = {} THEN stage' = "returned" /\ answer' = NotPaired
                      ELSE stage' = "asking" /\ UNCHANGED answer
    /\ UNCHANGED <<talking, approved>>

\* Threads are made, and phones approve, only for devices that were asked and
\* while the request is open.
Talk(d) ==
    /\ stage = "asking"
    /\ d \in asked \ talking
    /\ talking' = talking \cup {d}
    /\ UNCHANGED <<stage, asked, approved, answer>>

Approve(d) ==
    /\ stage = "asking"
    /\ d \in talking \ approved
    /\ approved' = approved \cup {d}
    /\ UNCHANGED <<stage, asked, talking, answer>>

\* A thread ends before the request is returned.
Leave(d) ==
    /\ stage \in {"asking", "decided"}
    /\ d \in talking
    /\ talking' = talking \ {d}
    /\ UNCHANGED <<stage, asked, approved, answer>>

\* The one decision: a success is that of a phone that has approved, with what it
\* sent for this request.
Decide ==
    /\ stage = "asking"
    /\ stage' = "decided"
    /\ answer' \in Results
    /\ answer'.device \in asked \cup {NoDevice}
    /\ answer'.state = "SUCCESS" =>
           answer'.device \in approved /\ answer'.response = "ours"
    /\ UNCHANGED <<asked, talking, approved>>

\* The caller gets it when no thread of the request is left.
Return ==
    /\ stage = "decided"
    /\ talking = {}
    /\ stage' = "returned"
    /\ UNCHANGED <<asked, talking, approved, answer>>

RequestNext ==
    \/ Ask \/ Decide \/ Return
    \/ \E d \in Device : Talk(d) \/ Approve(d) \/ Leave(d)

RequestSpec == RequestInit /\ [][RequestNext]_requestVars
=============================================================================
