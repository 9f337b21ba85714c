------------------------------ MODULE MCPackets ------------------------------
(* Packets for TLC: one for each way through DecryptAESPacket and            *)
(* OnResponseReceived, and the two sides of each of their limits.            *)
EXTENDS Integers

MCTimeout == 30000

Plain(length, word) ==
    [length |-> length, word |-> word, sealed |-> FALSE, age |-> 0,
     content |-> "malformed"]

Sealed(length, age, content) ==
    [length |-> length, word |-> "none", sealed |-> TRUE, age |-> age,
     content |-> content]

MCPackets == {
    Plain(0, "none"), Plain(31, "none"), Plain(120, "none"),
    Plain(6, "CANCEL"), Plain(10, "NOT_PAIRED"), Plain(5, "ERROR"),
    Plain(10, "TIME_ERROR"),
    Sealed(56, 0, "malformed"), Sealed(57, 0, "malformed"),
    Sealed(120, -MCTimeout - 1, "ours"), Sealed(120, -MCTimeout, "ours"),
    Sealed(120, MCTimeout, "other"), Sealed(120, MCTimeout + 1, "ours"),
    Sealed(1056, 0, "other"), Sealed(1057, 0, "other")}
=============================================================================
