----------------------------- MODULE LogonBuffer -----------------------------
(* The buffer with which a tile of a local user logs on                      *)
(* (win-pcbiounlock/src/helpers.cpp): the password is encrypted, the domain  *)
(* is split from the user, and KerbInteractiveUnlockLogonPack lays the three *)
(* strings out behind a structure that refers to them by length and offset.  *)
(*                                                                           *)
(* A string is a sequence of characters, a buffer its structure and the      *)
(* bytes behind it.  A function that may fail returns the set of its results:*)
(* empty if it fails for these arguments, else with one element.  That an    *)
(* allocation fails is left to the caller, which treats all failures alike.  *)
EXTENDS Naturals, Sequences

CONSTANT UShortMax \* the greatest USHORT, which is 65535

ASSUME UShortAssumption == UShortMax \in Nat

WCharSize == 2
StructSize == 64 \* sizeof(KERB_INTERACTIVE_UNLOCK_LOGON), 64-bit
Whack == "\\"

\* The bytes of a string, without a terminator: each character has two.
Bytes(string) ==
    [b \in 0 .. WCharSize * Len(string) - 1 |->
        <<string[b \div WCharSize + 1], b % WCharSize>>]

-----------------------------------------------------------------------------
(* The strings.                                                              *)

\* The first '\' ends the domain; without one the function fails.
SplitDomainAndUsername(qualified) ==
    {[domain |-> SubSeq(qualified, 1, whack - 1),
      username |-> SubSeq(qualified, whack + 1, Len(qualified))] :
        whack \in {i \in 1 .. Len(qualified) :
                      /\ qualified[i] = Whack
                      /\ \A j \in 1 .. i - 1 : qualified[j] # Whack}}

\* CredProtectW makes a longer string that CredIsProtectedW knows again.
CredProtect(password) == <<"protected">> \o password
CredIsProtected(password) == password # <<>> /\ password[1] = "protected"

\* Neither an empty nor a protected password is encrypted, and none for CredUI.
ProtectIfNecessaryAndCopyPassword(password, cpus) ==
    IF password = <<>> \/ cpus = "CPUS_CREDUI" \/ CredIsProtected(password)
      THEN password
      ELSE CredProtect(password)

\* What a USHORT keeps of a number.
AsUShort(n) == n % (UShortMax + 1)

\* A slip: a number of bytes that does not fit 16 bits is stored all the same.
InitUnchecked(string) ==
    {[Length |-> AsUShort(WCharSize * Len(string)), Buffer |-> string]}

\* Length counts bytes.  UShortMult, which computes it, fails when the product
\* does not fit.
UnicodeStringInitWithString(string) ==
    {[Length |-> AsUShort(size), Buffer |-> string] :
        size \in {WCharSize * Len(string)} \cap 0 .. UShortMax}

MessageTypes(cpus) ==
    CASE cpus = "CPUS_UNLOCK_WORKSTATION" -> {"KerbWorkstationUnlockLogon"}
      [] cpus = "CPUS_LOGON"              -> {"KerbInteractiveLogon"}
      [] cpus = "CPUS_CREDUI"             -> {"none"}
      [] OTHER                            -> {}

KerbInteractiveUnlockLogonInit(domain, username, password, cpus) ==
    [LogonDomainName : UnicodeStringInitWithString(domain),
     UserName        : UnicodeStringInitWithString(username),
     Password        : UnicodeStringInitWithString(password),
     MessageType     : MessageTypes(cpus)]

-----------------------------------------------------------------------------
(* The buffer.                                                               *)

\* The string at an offset of the buffer, and the structure's reference to it.
CopyMemory(memory, offset, ustring) ==
    [b \in DOMAIN memory |->
        IF b \in offset .. offset + ustring.Length - 1
          THEN Bytes(ustring.Buffer)[b - offset]
          ELSE memory[b]]

Packed(ustring, offset) ==
    [Length |-> ustring.Length, MaximumLength |-> ustring.Length,
     Buffer |-> offset]

\* CoTaskMemAlloc: the bytes behind the structure, which nobody has written yet.
Allocated(cb) == [b \in StructSize .. cb - 1 |-> <<"undefined", 0>>]

\* The three strings one after the other in fresh memory; cb, a DWORD, holds
\* the sum of three 16-bit lengths.
KerbInteractiveUnlockLogonPack(kiul) ==
    LET userAt == StructSize + kiul.LogonDomainName.Length
        passwordAt == userAt + kiul.UserName.Length
        cb == passwordAt + kiul.Password.Length
    IN  [cb |-> cb,
         MessageType |-> kiul.MessageType,
         LogonDomainName |-> Packed(kiul.LogonDomainName, StructSize),
         UserName |-> Packed(kiul.UserName, userAt),
         Password |-> Packed(kiul.Password, passwordAt),
         memory |-> CopyMemory(CopyMemory(CopyMemory(Allocated(cb),
                        StructSize, kiul.LogonDomainName),
                        userAt, kiul.UserName),
                        passwordAt, kiul.Password)]

\* The serialization of a tile of a local user (GetSerialization).
SerializeLocal(qualified, password, cpus) ==
    UNION {{KerbInteractiveUnlockLogonPack(kiul) :
              kiul \in KerbInteractiveUnlockLogonInit(
                           split.domain, split.username,
                           ProtectIfNecessaryAndCopyPassword(password, cpus),
                           cpus)} :
           split \in SplitDomainAndUsername(qualified)}

-----------------------------------------------------------------------------
(* What the other side makes of a buffer.                                    *)

Fields == {"LogonDomainName", "UserName", "Password"}

\* The sanity check of KerbInteractiveUnlockLogonUnpackInPlace ...
IsPacked(buffer) ==
    /\ StructSize <= buffer.cb
    /\ \A f \in Fields :
          buffer[f].Buffer + buffer[f].MaximumLength <= buffer.cb

\* ... and what it then has a field of the structure point to.
Unpacked(buffer, field) ==
    [b \in 0 .. buffer[field].Length - 1 |->
        buffer.memory[buffer[field].Buffer + b]]
=============================================================================
