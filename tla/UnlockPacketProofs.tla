-------------------------- MODULE UnlockPacketProofs --------------------------
(* For packets of any size, age and content: what CryptUtils makes it opens  *)
(* again, and what OnResponseReceived takes for an answer.                   *)
EXTENDS UnlockPacket, UnlockState, TLAPS

Overhead == IV_SIZE + SALT_SIZE + TagSize
TimeSize == 8

InTime(packet) == packet.age \in -PACKET_TIMEOUT .. PACKET_TIMEOUT

LEMMA PacketFields ==
    ASSUME NEW p \in Packets
    PROVE  /\ p.length \in Nat
           /\ p.age \in Int
           /\ p.sealed \in BOOLEAN
           /\ p.word \in Words \cup {"none"}
           /\ p.sealed => p.length >= Overhead
           /\ ~p.sealed => p.content = "malformed"
           /\ p.word # "none" => ~p.sealed
BY PacketAssumption DEF Overhead

-----------------------------------------------------------------------------
(* CryptUtils.                                                               *)

\* A packet of dataLen bytes has one size, if there is one.  It fits the buffer
\* except for the tag, which EncryptAES does not count: packets of more than
\* 968 bytes end up to TagSize bytes behind encBuffer.
THEOREM SealedSize ==
    ASSUME NEW dataLen \in Nat, NEW size \in EncryptAESPacket(dataLen), size # 0
    PROVE  /\ size = TimeSize + dataLen + Overhead
           /\ size <= BufferSize + TagSize
           /\ size > BufferSize <=> dataLen > BufferSize - Overhead - TimeSize
<1> USE DEF IV_SIZE, SALT_SIZE, TagSize, BufferSize, Overhead, TimeSize
<1>1. PICK encLen \in EncryptAES(dataLen + 8) :
          size = IF encLen <= 8 THEN 0 ELSE encLen
  BY DEF EncryptAESPacket
<1>2. encLen # 0
  BY <1>1
<1>3. /\ dataLen + 8 + SALT_SIZE + IV_SIZE <= BufferSize
      /\ encLen = IV_SIZE + SALT_SIZE + (dataLen + 8) + TagSize
  <2>1. CASE dataLen + 8 + SALT_SIZE + IV_SIZE <= BufferSize
    BY <1>2, <2>1 DEF EncryptAES
  <2>2. CASE ~(dataLen + 8 + SALT_SIZE + IV_SIZE <= BufferSize)
    <3>1. EncryptAES(dataLen + 8) = {0}
      BY <2>2 DEF EncryptAES
    <3> QED BY <1>2, <3>1
  <2> QED BY <2>1, <2>2
<1> QED BY <1>1, <1>3

\* A packet that has too much data for the buffer is not made at all.
THEOREM TooLongIsRefused ==
    ASSUME NEW dataLen \in Nat,
           dataLen + TimeSize + SALT_SIZE + IV_SIZE > BufferSize
    PROVE  EncryptAESPacket(dataLen) = {0}
<1>1. EncryptAES(dataLen + 8) = {0}
  BY DEF EncryptAES, TimeSize, SALT_SIZE, IV_SIZE, BufferSize
<1> QED BY <1>1 DEF EncryptAESPacket

\* Both sides agree: every packet EncryptAESPacket makes of some data, however
\* long, is opened by DecryptAESPacket if it arrives unchanged and in time, and
\* has as many bytes in it as were put in.  (An empty message is sealed, but not
\* opened.)
THEOREM SealedOpens ==
    ASSUME NEW dataLen \in Nat, NEW p \in Packets, p.sealed,
           p.length \in EncryptAESPacket(dataLen), p.length # 0
    PROVE  /\ DecryptAES(p) = TimeSize + dataLen
           /\ DecryptAESPacket(p) =
                  IF dataLen = 0 THEN "OTHER_ERROR"
                  ELSE IF InTime(p) THEN "OK" ELSE "INVALID_TIMESTAMP"
<1>1. /\ p.length = TimeSize + dataLen + Overhead
      /\ p.length <= BufferSize + TagSize
  BY SealedSize
<1>2. DecryptAES(p) = TimeSize + dataLen
  BY <1>1 DEF DecryptAES, Overhead, TimeSize, IV_SIZE, SALT_SIZE, TagSize, BufferSize
<1> QED BY <1>2 DEF DecryptAESPacket, InTime, TimeSize

-----------------------------------------------------------------------------
(* OnResponseReceived.                                                       *)

\* Bytes behind the time, and no more of them than decBuffer takes.
HasRoom(packet) ==
    packet.length \in Overhead + TimeSize + 1 .. IV_SIZE + SALT_SIZE + BufferSize

LEMMA BytesInside ==
    ASSUME NEW p \in Packets
    PROVE  /\ DecryptAES(p) \in Int
           /\ DecryptAES(p) > 8 <=> p.sealed /\ HasRoom(p)
<1> USE DEF Overhead, TimeSize, IV_SIZE, SALT_SIZE, TagSize, BufferSize
<1>1. p.length \in Nat
  BY PacketFields
<1> DEFINE IsOpened == /\ p.length >= IV_SIZE + SALT_SIZE
                       /\ BufferSize >= p.length - IV_SIZE - SALT_SIZE
                       /\ p.sealed
<1>2. CASE IsOpened
  <2>1. DecryptAES(p) = p.length - 48
    BY <1>1, <1>2 DEF DecryptAES
  <2>2. HasRoom(p) <=> p.length > 56
    BY <1>1, <1>2 DEF HasRoom
  <2> QED BY <1>1, <1>2, <2>1, <2>2
<1>3. CASE ~IsOpened
  <2>1. DecryptAES(p) = 0
    BY <1>3 DEF DecryptAES
  <2>2. ~(p.sealed /\ HasRoom(p))
    BY <1>1, <1>3 DEF HasRoom
  <2> QED BY <2>1, <2>2
<1> QED BY <1>2, <1>3

\* What is taken for an answer: sealed with the key of the device, of a size the
\* buffer has room for, with something behind the time, no further from the PC's
\* time than PACKET_TIMEOUT, and readable.  In particular no plain word is one.
THEOREM AnswersAreSealed ==
    ASSUME NEW p \in Packets
    PROVE  /\ IsAnswer(p) <=>
                  /\ p.sealed
                  /\ HasRoom(p)
                  /\ InTime(p)
                  /\ p.content \in Answers
           /\ IsAnswer(p) => p.word = "none"
<1>1. DecryptAES(p) > 8 <=> p.sealed /\ HasRoom(p)
  BY BytesInside
<1>2. DecryptAES(p) \in Int
  BY BytesInside
<1>3. DecryptAESPacket(p) = "OK" <=> DecryptAES(p) > 8 /\ InTime(p)
  BY <1>2 DEF DecryptAESPacket, InTime
<1>4. IsAnswer(p) <=> DecryptAESPacket(p) = "OK" /\ p.content \in Answers
  BY DEF IsAnswer
<1>5. p.sealed => p.word = "none"
  BY PacketFields
<1> QED BY <1>1, <1>3, <1>4, <1>5

\* Everything else gets a verdict, too, and never a success: that takes an answer
\* with our token.
THEOREM VerdictsAreEarned ==
    /\ \A p \in Packets : Judgement(p) \in ThreadVerdicts \ {"SUCCESS"}
    /\ \A r \in Answers : TokenVerdict(r) \in ThreadVerdicts
    /\ \A r \in Answers : TokenVerdict(r) = "SUCCESS" <=> r = "ours"
BY DEF Judgement, TokenVerdict, Answers, ThreadVerdicts

\* A packet that is sealed but too old, or from the future, is told from one that
\* is no packet of this device: only the clock is blamed.
THEOREM ClockIsBlamed ==
    ASSUME NEW p \in Packets, p.word = "none"
    PROVE  Judgement(p) = "TIME_ERROR" <=>
               /\ p.sealed
               /\ HasRoom(p)
               /\ ~InTime(p)
<1>1. DecryptAES(p) > 8 <=> p.sealed /\ HasRoom(p)
  BY BytesInside
<1>2. DecryptAES(p) \in Int
  BY BytesInside
<1>3. DecryptAESPacket(p) = "INVALID_TIMESTAMP" <=> DecryptAES(p) > 8 /\ ~InTime(p)
  BY <1>2 DEF DecryptAESPacket, InTime
<1>4. Judgement(p) = "TIME_ERROR" <=> DecryptAESPacket(p) = "INVALID_TIMESTAMP"
  BY DEF Judgement
<1> QED BY <1>1, <1>3, <1>4
=============================================================================
