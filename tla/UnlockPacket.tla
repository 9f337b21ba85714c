---------------------------- MODULE UnlockPacket ----------------------------
(* The packets of an unlock: how CryptUtils seals and opens them             *)
(* (common-cpp/src/utils/CryptUtils.cpp) and what OnResponseReceived makes   *)
(* of one (common-cpp/src/connection/BaseUnlockServer.cpp).                  *)
(*                                                                           *)
(* A received packet is a record of what these functions tell apart:         *)
(*   length   the bytes received                                             *)
(*   word     the plain word it consists of, or "none"                       *)
(*   sealed   it was encrypted with the key of the device and is unchanged   *)
(*   age      the PC's time less the time in it, in milliseconds             *)
(*   content  what a sealed packet holds: "ours" and "other" are answers     *)
(*            with our token and with that of an earlier request, "malformed"*)
(*            is anything else                                               *)
EXTENDS Integers

CONSTANTS Packets,        \* the packets that may be received
          PACKET_TIMEOUT  \* milliseconds; it depends on the system

IV_SIZE == 16
SALT_SIZE == 16
TagSize == 16     \* of AES-GCM
BufferSize == 1024 \* of encBuffer and decBuffer

Words == {"CANCEL", "NOT_PAIRED", "ERROR", "TIME_ERROR"}
Answers == {"ours", "other"}

NoPacket == [length |-> 0, word |-> "none", sealed |-> FALSE, age |-> 0,
             content |-> "malformed"]

\* A packet that is sealed has all the parts of one.  (A packet of 32 to 47
\* bytes, which would have DecryptAES count below zero, is left out.)
ASSUME PacketAssumption ==
    /\ PACKET_TIMEOUT \in Nat
    /\ Packets \subseteq [length : Nat, word : Words \cup {"none"},
                          sealed : BOOLEAN, age : Int,
                          content : Answers \cup {"malformed"}]
    /\ NoPacket \in Packets
    /\ \A p \in Packets :
          /\ p.length < IV_SIZE + SALT_SIZE \/ p.length >= IV_SIZE + SALT_SIZE + TagSize
          /\ p.sealed => p.length >= IV_SIZE + SALT_SIZE + TagSize
          /\ ~p.sealed => p.content = "malformed"
          /\ p.word # "none" => ~p.sealed /\ p.length > 0

-----------------------------------------------------------------------------
(* CryptUtils.  A result of 0 is the failure of these functions.             *)

\* The sizes that EncryptAES may return: random numbers, keys and the cipher
\* can fail at any size.
EncryptAES(srcLen) ==
    {0} \cup IF srcLen + SALT_SIZE + IV_SIZE <= BufferSize
               THEN {IV_SIZE + SALT_SIZE + srcLen + TagSize}
               ELSE {}

\* The sizes of the packet that EncryptAESPacket may make of dataLen bytes and
\* the time; 0 if it makes none.
EncryptAESPacket(dataLen) ==
    {IF encLen <= 8 THEN 0 ELSE encLen : encLen \in EncryptAES(dataLen + 8)}

\* The bytes that are in a packet, once its tag has been verified.
DecryptAES(packet) ==
    IF /\ packet.length >= IV_SIZE + SALT_SIZE
       /\ BufferSize >= packet.length - IV_SIZE - SALT_SIZE
       /\ packet.sealed
      THEN packet.length - IV_SIZE - SALT_SIZE - TagSize
      ELSE 0

\* A slip: a packet from the past is as good as a new one.
DecryptAESPacketAnyAge(packet) ==
    IF DecryptAES(packet) <= 8 THEN "OTHER_ERROR"
    ELSE IF packet.age >= -PACKET_TIMEOUT THEN "OK"
    ELSE "INVALID_TIMESTAMP"

\* The time takes 8 of the bytes, and something has to be left.
DecryptAESPacket(packet) ==
    IF DecryptAES(packet) <= 8 THEN "OTHER_ERROR"
    ELSE IF packet.age \in -PACKET_TIMEOUT .. PACKET_TIMEOUT THEN "OK"
    ELSE "INVALID_TIMESTAMP"

-----------------------------------------------------------------------------
(* OnResponseReceived.                                                       *)

\* Decrypted and parsed: stored, and judged by its token.
IsAnswer(packet) ==
    DecryptAESPacket(packet) = "OK" /\ packet.content \in Answers

\* The verdict about everything else.
Judgement(packet) ==
    CASE packet.word = "CANCEL"     -> "CANCELED"
      [] packet.word = "NOT_PAIRED" -> "NOT_PAIRED_ERROR"
      [] packet.word = "ERROR"      -> "APP_ERROR"
      [] packet.word = "TIME_ERROR" -> "TIME_ERROR"
      [] DecryptAESPacket(packet) = "INVALID_TIMESTAMP" -> "TIME_ERROR"
      [] OTHER                      -> "DATA_ERROR"

\* The token decides about an answer that was stored.
TokenVerdict(response) == IF response = "ours" THEN "SUCCESS" ELSE "UNK_ERROR"
=============================================================================
