-------------------------- MODULE LogonBufferProofs --------------------------
(* For strings of any length: what SerializeLocal packs is what the other    *)
(* side unpacks.                                                             *)
EXTENDS LogonBuffer, SequenceTheorems, TLAPS

\* The first '\' of domain\name is the one between the two, if the domain has
\* none.
LEMMA SplitOfJoined ==
    ASSUME NEW C, NEW domain \in Seq(C), NEW name \in Seq(C),
           \A i \in DOMAIN domain : domain[i] # Whack,
           NEW split \in SplitDomainAndUsername(domain \o <<Whack>> \o name)
    PROVE  split.domain = domain /\ split.username = name
<1> DEFINE D == Len(domain)
           N == Len(name)
           q == domain \o <<Whack>> \o name
<1>1. /\ D \in Nat /\ N \in Nat
      /\ domain \in [1 .. D -> C] /\ DOMAIN domain = 1 .. D
      /\ name \in [1 .. N -> C]
  OBVIOUS
<1>2. /\ Len(q) = D + 1 + N
      /\ \A i \in 1 .. D : q[i] = domain[i]
      /\ q[D + 1] = Whack
      /\ \A i \in 1 .. N : q[D + 1 + i] = name[i]
  <2>1. /\ Len(domain \o <<Whack>>) = D + 1
        /\ \A i \in 1 .. D : (domain \o <<Whack>>)[i] = domain[i]
        /\ (domain \o <<Whack>>)[D + 1] = Whack
    OBVIOUS
  <2> QED BY <2>1
<1>3. q \in Seq(C \cup {Whack})
  <2>1. domain \in Seq(C \cup {Whack}) /\ name \in Seq(C \cup {Whack})
    OBVIOUS
  <2>2. <<Whack>> \in Seq(C \cup {Whack})
    OBVIOUS
  <2> QED BY <2>1, <2>2
<1> HIDE DEF q
<1>4. PICK w \in 1 .. D + 1 + N :
          /\ q[w] = Whack
          /\ \A j \in 1 .. w - 1 : q[j] # Whack
          /\ split = [domain |-> SubSeq(q, 1, w - 1),
                      username |-> SubSeq(q, w + 1, D + 1 + N)]
  BY <1>2 DEF SplitDomainAndUsername, q
<1>5. w = D + 1
  <2>1. w \notin 1 .. D
    BY <1>1, <1>2, <1>4
  <2>2. ~(D + 1 < w)
    BY <1>1, <1>2, <1>4
  <2> QED BY <1>1, <2>1, <2>2
<1>6. SubSeq(q, 1, D) = domain
  <2>1. SubSeq(q, 1, D) = [i \in 1 .. D |-> q[i]]
    BY <1>1, <1>3
  <2> QED BY <1>1, <1>2, <2>1
<1>7. SubSeq(q, D + 2, D + 1 + N) = name
  <2>1. SubSeq(q, D + 2, D + 1 + N) = [i \in 1 .. N |-> q[D + 1 + i]]
    BY <1>1, <1>3
  <2> QED BY <1>1, <1>2, <2>1
<1> QED BY <1>1, <1>4, <1>5, <1>6, <1>7

-----------------------------------------------------------------------------
(* The layout of the buffer.                                                 *)

\* A UNICODE_STRING whose Length is the number of its bytes.
Exact(u) == u.Length \in Nat /\ DOMAIN Bytes(u.Buffer) = 0 .. u.Length - 1

\* UnicodeStringInitWithString makes one.
LEMMA UnicodeStringIsExact ==
    ASSUME NEW C, NEW string \in Seq(C),
           NEW u \in UnicodeStringInitWithString(string)
    PROVE  Exact(u) /\ u.Buffer = string
<1>1. Len(string) \in Nat /\ 2 * Len(string) \in Nat
  OBVIOUS
<1>2. /\ 2 * Len(string) \in 0 .. UShortMax
      /\ u = [Length |-> AsUShort(2 * Len(string)), Buffer |-> string]
  BY DEF UnicodeStringInitWithString, WCharSize
<1>3. AsUShort(2 * Len(string)) = 2 * Len(string)
  BY <1>1, <1>2, UShortAssumption DEF AsUShort
<1> QED BY <1>1, <1>2, <1>3 DEF Bytes, WCharSize, Exact

\* Three strings copied one behind the other, and what it means that they are
\* all there.
Copied(fresh, a, x, y, z) ==
    CopyMemory(CopyMemory(CopyMemory(fresh, a, x), a + x.Length, y),
               a + x.Length + y.Length, z)

AllThere(memory, a, x, y, z) ==
    /\ \A i \in 0 .. x.Length - 1 : memory[a + i] = Bytes(x.Buffer)[i]
    /\ \A i \in 0 .. y.Length - 1 : memory[a + x.Length + i] = Bytes(y.Buffer)[i]
    /\ \A i \in 0 .. z.Length - 1 :
          memory[a + x.Length + y.Length + i] = Bytes(z.Buffer)[i]

\* No copy touches the bytes of another.
LEMMA CopiesAreDisjoint ==
    ASSUME NEW a \in Nat, NEW x, NEW y, NEW z, Exact(x), Exact(y), Exact(z),
           NEW fresh,
           DOMAIN fresh = a .. (a + x.Length + y.Length + z.Length) - 1
    PROVE  AllThere(Copied(fresh, a, x, y, z), a, x, y, z)
<1> DEFINE b == x.Length
           c == y.Length
           d == z.Length
<1>0. b \in Nat /\ c \in Nat /\ d \in Nat
  BY DEF Exact
<1> DEFINE one == CopyMemory(fresh, a, x)
           two == CopyMemory(one, a + b, y)
           memory == Copied(fresh, a, x, y, z)
           all == a .. (a + b + c + d) - 1
<1>1. \A j \in all :
         one[j] = IF j \in a .. a + b - 1 THEN Bytes(x.Buffer)[j - a] ELSE fresh[j]
  BY DEF CopyMemory
<1>2. DOMAIN one = all
  BY DEF CopyMemory
<1>3. \A j \in all :
         two[j] = IF j \in a + b .. a + b + c - 1
                    THEN Bytes(y.Buffer)[j - (a + b)] ELSE one[j]
  <2> HIDE DEF one
  <2> QED BY <1>2 DEF CopyMemory
<1>4. DOMAIN two = all
  <2> HIDE DEF one
  <2> QED BY <1>2 DEF CopyMemory
<1>5. \A j \in all :
         memory[j] = IF j \in a + b + c .. a + b + c + d - 1
                       THEN Bytes(z.Buffer)[j - (a + b + c)] ELSE two[j]
  <2>1. memory = CopyMemory(two, a + b + c, z)
    BY DEF Copied
  <2> HIDE DEF two, memory
  <2> QED BY <1>4, <2>1 DEF CopyMemory
<1> HIDE DEF one, two, memory, b, c, d
<1>6. \A i \in 0 .. b - 1 : memory[a + i] = Bytes(x.Buffer)[i]
  <2> TAKE i \in 0 .. b - 1
  <2>1. /\ a + i \in all /\ a + i \in a .. a + b - 1 /\ (a + i) - a = i
        /\ a + i \notin a + b .. a + b + c - 1
        /\ a + i \notin a + b + c .. a + b + c + d - 1
    BY <1>0
  <2>2. one[a + i] = Bytes(x.Buffer)[i]
    BY <2>1, <1>1
  <2>3. two[a + i] = one[a + i]
    BY <2>1, <1>3
  <2>4. memory[a + i] = two[a + i]
    BY <2>1, <1>5
  <2> QED BY <2>2, <2>3, <2>4
<1>7. \A i \in 0 .. c - 1 : memory[a + b + i] = Bytes(y.Buffer)[i]
  <2> TAKE i \in 0 .. c - 1
  <2>1. /\ a + b + i \in all /\ a + b + i \in a + b .. a + b + c - 1
        /\ (a + b + i) - (a + b) = i
        /\ a + b + i \notin a + b + c .. a + b + c + d - 1
    BY <1>0
  <2> QED BY <2>1, <1>3, <1>5
<1>8. \A i \in 0 .. d - 1 : memory[a + b + c + i] = Bytes(z.Buffer)[i]
  <2> TAKE i \in 0 .. d - 1
  <2>1. /\ a + b + c + i \in all
        /\ a + b + c + i \in a + b + c .. a + b + c + d - 1
        /\ (a + b + c + i) - (a + b + c) = i
    BY <1>0
  <2> QED BY <2>1, <1>5
<1> QED BY <1>6, <1>7, <1>8 DEF memory, b, c, d, AllThere

\* Each field of a packed buffer refers to the string it was made of, and within
\* the buffer.
LEMMA PackIsUnpacked ==
    ASSUME NEW C, NEW domain \in Seq(C), NEW username \in Seq(C),
           NEW password \in Seq(C), NEW cpus,
           NEW kiul \in KerbInteractiveUnlockLogonInit(domain, username, password,
                                                       cpus),
           NEW buffer, buffer = KerbInteractiveUnlockLogonPack(kiul)
    PROVE  /\ IsPacked(buffer)
           /\ Unpacked(buffer, "LogonDomainName") = Bytes(domain)
           /\ Unpacked(buffer, "UserName") = Bytes(username)
           /\ Unpacked(buffer, "Password") = Bytes(password)
           /\ buffer.MessageType \in MessageTypes(cpus)
<1> DEFINE x == kiul.LogonDomainName
           y == kiul.UserName
           z == kiul.Password
           a == StructSize
           fresh == Allocated(a + x.Length + y.Length + z.Length)
<1>1. /\ x \in UnicodeStringInitWithString(domain)
      /\ y \in UnicodeStringInitWithString(username)
      /\ z \in UnicodeStringInitWithString(password)
      /\ kiul.MessageType \in MessageTypes(cpus)
  BY DEF KerbInteractiveUnlockLogonInit
<1>2. /\ Exact(x) /\ Exact(y) /\ Exact(z)
      /\ x.Buffer = domain /\ y.Buffer = username /\ z.Buffer = password
  BY <1>1, UnicodeStringIsExact
<1>3. x.Length \in Nat /\ y.Length \in Nat /\ z.Length \in Nat /\ a \in Nat
  BY <1>2 DEF Exact, StructSize
<1>4. /\ buffer.cb = a + x.Length + y.Length + z.Length
      /\ buffer.MessageType = kiul.MessageType
      /\ buffer.LogonDomainName = Packed(x, a)
      /\ buffer.UserName = Packed(y, a + x.Length)
      /\ buffer.Password = Packed(z, a + x.Length + y.Length)
      /\ buffer.memory = Copied(fresh, a, x, y, z)
  BY DEF KerbInteractiveUnlockLogonPack, Copied
<1>5. DOMAIN fresh = a .. (a + x.Length + y.Length + z.Length) - 1
  <2> DEFINE cb == a + x.Length + y.Length + z.Length
  <2>1. \A n : DOMAIN Allocated(n) = a .. n - 1
    BY DEF Allocated
  <2> HIDE DEF x, y, z, a
  <2>2. DOMAIN Allocated(cb) = a .. cb - 1
    <3> HIDE DEF cb
    <3> QED BY <2>1
  <2> QED BY <2>2
<1> HIDE DEF x, y, z, a, fresh
<1>6. IsPacked(buffer)
  <2>1. /\ buffer.LogonDomainName.Buffer + buffer.LogonDomainName.MaximumLength
               = a + x.Length
        /\ buffer.UserName.Buffer + buffer.UserName.MaximumLength
               = a + x.Length + y.Length
        /\ buffer.Password.Buffer + buffer.Password.MaximumLength
               = a + x.Length + y.Length + z.Length
    BY <1>4 DEF Packed
  <2>2. /\ a <= buffer.cb /\ a + x.Length <= buffer.cb
        /\ a + x.Length + y.Length <= buffer.cb
        /\ a + x.Length + y.Length + z.Length <= buffer.cb
    <3>1. buffer.cb = a + x.Length + y.Length + z.Length
      BY <1>4
    <3> QED BY <1>3, <3>1
  <2> QED BY <2>1, <2>2 DEF IsPacked, Fields, a
<1>7. AllThere(Copied(fresh, a, x, y, z), a, x, y, z)
  BY <1>2, <1>3, <1>5, CopiesAreDisjoint
<1>8. /\ \A i \in 0 .. x.Length - 1 : buffer.memory[a + i] = Bytes(domain)[i]
      /\ \A i \in 0 .. y.Length - 1 :
            buffer.memory[a + x.Length + i] = Bytes(username)[i]
      /\ \A i \in 0 .. z.Length - 1 :
            buffer.memory[a + x.Length + y.Length + i] = Bytes(password)[i]
  BY <1>2, <1>4, <1>7 DEF AllThere
<1>9. /\ Unpacked(buffer, "LogonDomainName") =
            [i \in 0 .. x.Length - 1 |-> buffer.memory[a + i]]
      /\ Unpacked(buffer, "UserName") =
            [i \in 0 .. y.Length - 1 |-> buffer.memory[a + x.Length + i]]
      /\ Unpacked(buffer, "Password") =
            [i \in 0 .. z.Length - 1 |-> buffer.memory[a + x.Length + y.Length + i]]
  BY <1>4 DEF Unpacked, Packed
<1>10. /\ Bytes(domain) = [i \in 0 .. x.Length - 1 |-> Bytes(domain)[i]]
       /\ Bytes(username) = [i \in 0 .. y.Length - 1 |-> Bytes(username)[i]]
       /\ Bytes(password) = [i \in 0 .. z.Length - 1 |-> Bytes(password)[i]]
  BY <1>2 DEF Bytes, Exact
<1>11. Unpacked(buffer, "LogonDomainName") = Bytes(domain)
  BY <1>8, <1>9, <1>10
<1>12. Unpacked(buffer, "UserName") = Bytes(username)
  BY <1>8, <1>9, <1>10
<1>13. Unpacked(buffer, "Password") = Bytes(password)
  BY <1>8, <1>9, <1>10
<1> QED BY <1>1, <1>4, <1>6, <1>11, <1>12, <1>13

\* Whoever reads the serialization of a local user (the LSA: NegotiateAuth's
\* interactive logon) finds the domain, the name and the encrypted password.
THEOREM LsaReadsWhatWasSerialized ==
    ASSUME NEW C, NEW domain \in Seq(C), NEW name \in Seq(C),
           NEW password \in Seq(C), NEW cpus,
           \A i \in DOMAIN domain : domain[i] # Whack,
           NEW buffer \in SerializeLocal(domain \o <<Whack>> \o name, password,
                                         cpus)
    PROVE  /\ IsPacked(buffer)
           /\ Unpacked(buffer, "LogonDomainName") = Bytes(domain)
           /\ Unpacked(buffer, "UserName") = Bytes(name)
           /\ Unpacked(buffer, "Password") =
                 Bytes(ProtectIfNecessaryAndCopyPassword(password, cpus))
           /\ buffer.MessageType \in MessageTypes(cpus)
<1> DEFINE copy == ProtectIfNecessaryAndCopyPassword(password, cpus)
<1>1. copy \in Seq(C \cup {"protected"})
  <2>1. password \in Seq(C \cup {"protected"})
    OBVIOUS
  <2>2. CredProtect(password) \in Seq(C \cup {"protected"})
    BY <2>1 DEF CredProtect
  <2> QED BY <2>1, <2>2 DEF ProtectIfNecessaryAndCopyPassword
<1> HIDE DEF copy
<1>2. PICK split \in SplitDomainAndUsername(domain \o <<Whack>> \o name) :
          buffer \in {KerbInteractiveUnlockLogonPack(kiul) :
                        kiul \in KerbInteractiveUnlockLogonInit(
                                    split.domain, split.username, copy, cpus)}
  BY DEF SerializeLocal, copy
<1>3. split.domain = domain /\ split.username = name
  BY SplitOfJoined
<1>4. PICK kiul \in KerbInteractiveUnlockLogonInit(domain, name, copy, cpus) :
          buffer = KerbInteractiveUnlockLogonPack(kiul)
  BY <1>2, <1>3
<1>5. domain \in Seq(C \cup {"protected"}) /\ name \in Seq(C \cup {"protected"})
  OBVIOUS
<1> QED BY <1>1, <1>4, <1>5, PackIsUnpacked DEF copy
=============================================================================
