----------------------- MODULE CredentialProviderProofs -----------------------
(* The safety invariants of CredentialProvider, for any tiles, users, usage  *)
(* scenarios and passwords.                                                  *)
EXTENDS CredentialProvider, LogonBufferProofs, FiniteSetTheorems, TLAPS

-----------------------------------------------------------------------------
(* The inductive invariant, one part per idea.                               *)

Live == {t \in Tile : initialized[t] # NoTile}

\* A tile is there as long as someone refers to it or the call under way has
\* still to delete it, and a provider that is gone refers to none.
References ==
    /\ Live = Listed \cup held \cup dying \cup ({stopping} \cap Tile)
    /\ dying \cap (Listed \cup held) = {}
    /\ stopping \notin dying
    /\ provider = "none" => Live = {}
    /\ provider # "alive" => credentials = <<>> /\ held = {}

\* g_cRef counts the provider and the tiles.
RefsAreCounted ==
    /\ IsFiniteSet(Live)
    /\ g_cRef = Cardinality(Live) + (IF provider = "none" THEN 0 ELSE 1)

\* A tile that is stopped is not selected if it lives on, and a callback is only
\* called by a thread that has got so far.
ThreadsAreJoined ==
    /\ \A t \in Tile \ {stopping} : m_IsRunning[t] <=> m_ListenThread[t] # "none"
    /\ \A t \in Tile \ (dying \cup {stopping}) : isSelected[t] => m_IsRunning[t]
    /\ stopping \in Tile => ~m_IsRunning[stopping]
    /\ stopping \in held \cup Listed => ~isSelected[stopping]
    /\ \A t \in Tile :
          calling[t] # "none" => m_ListenThread[t] \in Messages \cup {"notify"}

UnbornIsIdle ==
    \A t \in Tile \ Live :
        /\ ~isSelected[t] /\ ~m_IsRunning[t]
        /\ m_ListenThread[t] = "none" /\ calling[t] = "none"

\* A logon under way is that of a tile LogonUI holds, serialized from it.
SubmittedIsSerialized ==
    \A s \in submitted :
        s.tile \in held /\ s.buffer \in Serialize(initialized[s.tile], s.password)

IInv ==
    /\ TypeOK /\ References /\ RefsAreCounted
    /\ ThreadsAreJoined /\ UnbornIsIdle /\ SubmittedIsSerialized

-----------------------------------------------------------------------------
(* Facts about the data.                                                     *)

LEMMA NoTileIsNoTile == NoTile \notin Tile
BY ProviderAssumption

\* What an enumeration makes: as many new tiles as it lists.
LEMMA EnumerationsList ==
    ASSUME IsFiniteSet(Live), NEW tiles \in Enumerations
    PROVE  /\ tiles \in Seq(Tile) /\ Len(tiles) <= PerUser
           /\ Range(tiles) \subseteq Unborn
           /\ IsFiniteSet(Range(tiles))
           /\ Cardinality(Range(tiles)) = Len(tiles)
           /\ cpus = "CPUS_INVALID" => Range(tiles) = {}
<1> USE ProviderAssumption
<1>1. PICK n \in 0 .. PerUser :
         /\ tiles \in [1 .. n -> Unborn] /\ IsInjective(tiles)
         /\ cpus = "CPUS_INVALID" => n = 0
  <2>1. CASE cpus = "CPUS_INVALID"
    <3>1. tiles = <<>>
      BY <2>1 DEF Enumerations
    <3>2. tiles \in [1 .. 0 -> Unborn] /\ IsInjective(tiles)
      BY <3>1 DEF IsInjective
    <3> QED BY <3>2
  <2>2. CASE cpus # "CPUS_INVALID"
    BY <2>2 DEF Enumerations
  <2> QED BY <2>1, <2>2
<1>2. /\ tiles \in Seq(Tile) /\ Len(tiles) = n /\ Len(tiles) <= PerUser
      /\ Range(tiles) \subseteq Unborn
      /\ n = 0 => Range(tiles) = {}
  BY <1>1 DEF Range, Unborn
<1>3. tiles \in Bijection(1 .. n, Range(tiles))
  BY <1>1 DEF Bijection, Injection, Surjection, Range
<1>4. IsFiniteSet(1 .. n) /\ Cardinality(1 .. n) = n
  BY FS_Interval
<1>5. ExistsBijection(1 .. n, Range(tiles))
  BY <1>3 DEF ExistsBijection
<1>6. IsFiniteSet(Range(tiles)) /\ Cardinality(Range(tiles)) = n
  BY <1>4, <1>5, FS_Bijection
<1> QED BY <1>1, <1>2, <1>6

LEMMA EmptyRange == Range(<<>>) = {}
BY DEF Range

-----------------------------------------------------------------------------
(* The listeners: what any of their steps may change.                        *)

Advance(t) ==
    /\ m_ListenThread[t] \in Running
    /\ \E stage \in Running \cup {"ended"} :
          /\ m_ListenThread' = [m_ListenThread EXCEPT ![t] = stage]
          /\ \E callback \in {"none", "tile", "provider"} :
                /\ calling' = [calling EXCEPT ![t] = callback]
                /\ callback # "none" => stage \in Messages \cup {"notify"}
    /\ unlockResult' \in [Tile -> Results]
    /\ changed' \in BOOLEAN
    /\ UNCHANGED <<providerVars, lifeVars, tileVars, m_IsRunning, logonVars>>

LEMMA StagesAfterCall ==
    ASSUME NEW stage \in Messages \cup {"notify"}
    PROVE  AfterCall(stage) \in Running \cup {"ended"}
<1>1. CASE stage = "init"
  BY <1>1 DEF AfterCall, Running
<1>2. CASE stage = "invalidUser"
  BY <1>2 DEF AfterCall, Running
<1>3. CASE stage = "networkMessage"
  BY <1>3 DEF AfterCall, Running, Waiting
<1>4. CASE stage = "keyMessage"
  BY <1>4 DEF AfterCall, Running, Waiting
<1>5. CASE stage = "getResult"
  BY <1>5 DEF AfterCall, Running, Messages
<1>6. CASE stage = "message"
  BY <1>6 DEF AfterCall, Running
<1>7. CASE stage = "notify"
  BY <1>7 DEF AfterCall, Running
<1> QED BY <1>1, <1>2, <1>3, <1>4, <1>5, <1>6, <1>7 DEF Messages

LEMMA GotoAdvances ==
    ASSUME TypeOK, NEW t \in Tile, NEW from \in Running,
           NEW stage \in Running \cup {"ended"}, ThreadGoto(t, from, stage),
           unlockResult' \in [Tile -> Results],
           UNCHANGED <<providerVars, lifeVars, tileVars, m_IsRunning, calling,
                       changed, logonVars>>
    PROVE  Advance(t)
<1>1. calling' = [calling EXCEPT ![t] = "none"] /\ changed' \in BOOLEAN
  BY DEF TypeOK, ThreadGoto
<1> QED BY <1>1 DEF ThreadGoto, Advance

LEMMA ListenerAdvances ==
    ASSUME TypeOK, ThreadsAreJoined, NEW t \in Tile,
           ListenThread(t) \/ WaitIsOver(t) \/ GetResult(t) \/ GetResultWorks(t)
    PROVE  Advance(t)
<1> USE DEF Running, Messages, Waiting
<1>0. unlockResult \in [Tile -> Results]
  BY DEF TypeOK
<1>1. CASE Prepare(t)
  BY <1>0, <1>1, GotoAdvances DEF Prepare
<1>2. CASE WaitStops(t) \/ WaitIsOver(t)
  BY <1>0, <1>2, GotoAdvances DEF WaitStops, WaitIsOver, EndWait
<1>3. CASE GetResult(t)
  BY <1>0, <1>3, GotoAdvances DEF GetResult
<1>4. CASE SetUnlockData(t)
  <2>1. unlockResult' \in [Tile -> Results]
    BY <1>0, <1>4 DEF SetUnlockData
  <2> QED BY <1>4, <2>1, GotoAdvances DEF SetUnlockData
<1>5. CASE UpdateMessage(t)
  <2>1. CASE tileEvents[t]
    <3>1. /\ m_ListenThread' = [m_ListenThread EXCEPT ![t] = m_ListenThread[t]]
          /\ calling' = [calling EXCEPT ![t] = "tile"]
          /\ changed' \in BOOLEAN
      BY <1>5, <2>1 DEF UpdateMessage, TypeOK
    <3> QED BY <1>0, <1>5, <3>1 DEF UpdateMessage, Advance
  <2>2. CASE ~tileEvents[t]
    <3>1. /\ calling' = [calling EXCEPT ![t] = "none"]
          /\ changed' \in BOOLEAN
          /\ m_ListenThread' =
               [m_ListenThread EXCEPT ![t] = AfterCall(m_ListenThread[t])]
          /\ AfterCall(m_ListenThread[t]) \in Running \cup {"ended"}
      BY <1>5, <2>2, StagesAfterCall DEF UpdateMessage, TypeOK
    <3> QED BY <1>0, <1>5, <3>1 DEF UpdateMessage, Advance
  <2> QED BY <2>1, <2>2
<1>6. CASE UpdateCredsStatus(t)
  <2>1. changed' \in BOOLEAN
    BY <1>6 DEF UpdateCredsStatus, TypeOK
  <2>2. CASE events
    <3>1. /\ m_ListenThread' = [m_ListenThread EXCEPT ![t] = "notify"]
          /\ calling' = [calling EXCEPT ![t] = "provider"]
      BY <1>6, <2>2 DEF UpdateCredsStatus, TypeOK
    <3> QED BY <1>0, <1>6, <2>1, <3>1 DEF UpdateCredsStatus, Advance
  <2>3. CASE ~events
    <3>1. /\ calling' = [calling EXCEPT ![t] = "none"]
          /\ m_ListenThread' = [m_ListenThread EXCEPT ![t] = "ended"]
      BY <1>6, <2>3 DEF UpdateCredsStatus, TypeOK
    <3> QED BY <1>0, <1>6, <2>1, <3>1 DEF UpdateCredsStatus, Advance
  <2> QED BY <2>2, <2>3
<1>7. CASE CallEvents(t)
  <2>1. changed' \in BOOLEAN
    BY <1>7 DEF CallEvents, TypeOK
  <2>2. m_ListenThread[t] \in Messages \cup {"notify"}
    BY <1>7 DEF CallEvents, ThreadsAreJoined
  <2>3. AfterCall(m_ListenThread[t]) \in Running \cup {"ended"}
    BY <2>2, StagesAfterCall
  <2> QED BY <1>0, <1>7, <2>1, <2>2, <2>3 DEF CallEvents, Advance
<1> QED
  BY <1>1, <1>2, <1>3, <1>4, <1>5, <1>6, <1>7 DEF ListenThread, GetResultWorks

-----------------------------------------------------------------------------
(* The tiles that come and go.                                               *)

LEMMA FreeKills ==
    ASSUME TypeOK, NEW t \in Tile, Free(t)
    PROVE  /\ Live' = Live \ {t}
           /\ initialized' = [initialized EXCEPT ![t] = NoTile]
           /\ isSelected' = [isSelected EXCEPT ![t] = FALSE]
           /\ g_cRef' = g_cRef - 1
BY DEF Free, Live, TypeOK

LEMMA CreateMakes ==
    ASSUME TypeOK, NEW tiles, CreateTiles(tiles), Range(tiles) \subseteq Tile,
           cpus = "CPUS_INVALID" => Range(tiles) = {}
    PROVE  /\ Live' = Live \cup Range(tiles)
           /\ initialized' \in
                 [Tile -> [user : Users, cpus : UsageScenarios] \cup {NoTile}]
           /\ \A t \in Tile \ Range(tiles) : initialized'[t] = initialized[t]
           /\ g_cRef' = g_cRef + Len(tiles)
<1>1. PICK user \in [Range(tiles) -> Users] :
         initialized' = [t \in Tile |->
                            IF t \in Range(tiles)
                              THEN [user |-> user[t], cpus |-> cpus]
                              ELSE initialized[t]]
  BY DEF CreateTiles
<1>2. \A t \in Range(tiles) :
         [user |-> user[t], cpus |-> cpus] \in [user : Users, cpus : UsageScenarios]
  BY DEF TypeOK
<1>3. \A t \in Range(tiles) : [user |-> user[t], cpus |-> cpus] # NoTile
  BY <1>2, ProviderAssumption
<1>4. Live' = Live \cup Range(tiles)
  BY <1>1, <1>3 DEF Live
<1>5. initialized' \in
         [Tile -> [user : Users, cpus : UsageScenarios] \cup {NoTile}]
  BY <1>1, <1>2 DEF TypeOK
<1> QED BY <1>1, <1>4, <1>5 DEF CreateTiles

\* The two ways of GetCredentialCount.
Renew(tiles) ==
    /\ tiles \in Enumerations /\ CreateTiles(tiles)
    /\ credentials' = tiles
    /\ dying' = Listed \ held
    /\ offer' = NoTile

Keep ==
    /\ offer' \in Listed \cup {NoTile}
    /\ UNCHANGED <<g_cRef, initialized, credentials, dying>>

LEMMA CountRenewsOrKeeps ==
    ASSUME GetCredentialCount
    PROVE  Keep \/ \E tiles : Renew(tiles)
<1>1. CASE recreate
  BY <1>1 DEF GetCredentialCount, Renew
<1>2. CASE ~recreate
  BY <1>2 DEF GetCredentialCount, Keep, OfferApproved, Approved, Listed, Range
<1> QED BY <1>1, <1>2

-----------------------------------------------------------------------------
(* Every step keeps every part.                                              *)

LEMMA CountStep == ASSUME IInv, [Next]_vars PROVE RefsAreCounted'
<1> USE DEF RefsAreCounted
<1>0. /\ RefsAreCounted /\ References /\ TypeOK /\ g_cRef \in Nat
      /\ IsFiniteSet(Live) /\ Cardinality(Live) \in Nat
  BY FS_CardinalityType DEF IInv, TypeOK
<1>1. ASSUME UNCHANGED <<g_cRef, initialized, provider>> PROVE RefsAreCounted'
  BY <1>0, <1>1 DEF Live
<1>2. ASSUME UNCHANGED provider, provider # "none", NEW t \in Live, Free(t)
      PROVE  RefsAreCounted'
  <2>1. Live' = Live \ {t} /\ g_cRef' = g_cRef - 1
    BY <1>0, <1>2, FreeKills DEF Live
  <2>2. IsFiniteSet(Live') /\ Cardinality(Live') = Cardinality(Live) - 1
    BY <1>0, <1>2, <2>1, FS_RemoveElement
  <2> QED BY <1>0, <1>2, <2>1, <2>2
<1>3. CASE CreateInstance
  <2>1. Live' = Live /\ provider = "none" /\ provider' = "alive"
        /\ g_cRef' = g_cRef + 1
    BY <1>3 DEF CreateInstance, Live, tileVars
  <2> QED BY <1>0, <2>1
<1>4. CASE ReleaseProvider
  <2>1. Live' = Live /\ provider = "alive" /\ provider' = "leaving"
        /\ g_cRef' = g_cRef
    BY <1>4 DEF ReleaseProvider, Live, tileVars, Idle
  <2> QED BY <1>0, <2>1
<1>5. CASE DestroyProvider
  <2>1. Live' = Live /\ provider = "leaving" /\ provider' = "none"
        /\ g_cRef' = g_cRef - 1
    BY <1>5 DEF DestroyProvider, Live, tileVars
  <2> QED BY <1>0, <2>1
<1>6. CASE Join
  <2>1. CASE stopping \in held \cup Listed
    BY <1>1, <1>6, <2>1 DEF Join, tileVars
  <2>2. CASE stopping \notin held \cup Listed
    <3>1. Free(stopping) /\ UNCHANGED provider
      BY <1>6, <2>2 DEF Join
    <3>2. stopping \in Live /\ provider # "none"
      BY <1>0, <1>6 DEF Join, TypeOK, References
    <3> QED BY <1>2, <3>1, <3>2
  <2> QED BY <2>1, <2>2
<1>7. CASE Delete
  <2>1. PICK t \in dying :
           IF m_IsRunning[t] THEN UNCHANGED <<g_cRef, tileVars, unlockResult>>
                             ELSE Free(t)
    BY <1>7 DEF Delete
  <2>2. CASE m_IsRunning[t]
    BY <1>1, <1>7, <2>1, <2>2 DEF Delete, tileVars
  <2>3. CASE ~m_IsRunning[t]
    <3>1. t \in Live /\ provider # "none"
      BY <1>0 DEF References
    <3> QED BY <1>2, <1>7, <2>1, <2>3, <3>1 DEF Delete
  <2> QED BY <2>2, <2>3
<1>8. CASE GetCredentialCount
  <2>1. CASE Keep
    BY <1>1, <1>8, <2>1 DEF Keep, GetCredentialCount
  <2>2. CASE \E tiles : Renew(tiles)
    <3>1. PICK tiles : Renew(tiles)
      BY <2>2
    <3>2. /\ IsFiniteSet(Range(tiles)) /\ Range(tiles) \subseteq Unborn
          /\ Cardinality(Range(tiles)) = Len(tiles)
          /\ cpus = "CPUS_INVALID" => Range(tiles) = {}
      BY <1>0, <3>1, EnumerationsList DEF Renew
    <3>3. Live' = Live \cup Range(tiles) /\ g_cRef' = g_cRef + Len(tiles)
      BY <1>0, <3>1, <3>2, CreateMakes DEF Renew, Unborn
    <3>4. Live \cap Range(tiles) = {}
      BY <3>2 DEF Live, Unborn
    <3>5. /\ IsFiniteSet(Live')
          /\ Cardinality(Live') = Cardinality(Live) + Len(tiles)
      <4>1. Cardinality(Live \cap Range(tiles)) = 0
        BY <3>4, FS_EmptySet
      <4>2. /\ IsFiniteSet(Live \cup Range(tiles))
            /\ Cardinality(Live \cup Range(tiles)) =
                 Cardinality(Live) + Cardinality(Range(tiles))
                   - Cardinality(Live \cap Range(tiles))
        BY <1>0, <3>2, FS_Union
      <4>3. Len(tiles) \in Nat
        BY <3>2, FS_CardinalityType
      <4> QED BY <1>0, <3>2, <3>3, <4>1, <4>2, <4>3
    <3>6. Len(tiles) \in Nat /\ provider' = provider
      BY <1>8, <3>2, FS_CardinalityType DEF GetCredentialCount
    <3> QED BY <1>0, <3>3, <3>5, <3>6
  <2> QED BY <1>8, <2>1, <2>2, CountRenewsOrKeeps
<1>9. CASE \E t \in Tile :
             ListenThread(t) \/ WaitIsOver(t) \/ GetResult(t) \/ GetResultWorks(t)
  BY <1>0, <1>1, <1>9, ListenerAdvances DEF IInv, Advance, providerVars, tileVars
<1>10. CASE \/ SetUsageScenario \/ AdviseProvider \/ GetCredentialAt \/ ReleaseTile
            \/ AdviseTile \/ SetSelected \/ SetDeselected \/ SetStringValue
            \/ GetSerialization \/ ReportResult \/ UNCHANGED vars
  BY <1>1, <1>10
  DEF SetUsageScenario, AdviseProvider, GetCredentialAt, ReleaseTile, AdviseTile,
      SetSelected, SetDeselected, SetStringValue, GetSerialization, ReportResult,
      vars, providerVars, tileVars
<1> QED
  BY <1>3, <1>4, <1>5, <1>6, <1>7, <1>8, <1>9, <1>10 DEF Next, LogonUI

LEMMA ReferencesStep == ASSUME IInv, [Next]_vars PROVE References'
<1> USE NoTileIsNoTile DEF References
<1>0. References /\ TypeOK /\ IsFiniteSet(Live)
  BY DEF IInv, RefsAreCounted
<1>1. ASSUME UNCHANGED <<provider, credentials, lifeVars, initialized>>
      PROVE  References'
  BY <1>0, <1>1 DEF lifeVars, Live, Listed
<1>2. CASE CreateInstance
  <2>1. Live = {} /\ Live' = Live /\ Listed' = Listed
    BY <1>0, <1>2 DEF CreateInstance, tileVars, Live, Listed
  <2> QED BY <1>0, <1>2, <2>1 DEF CreateInstance, lifeVars
<1>3. CASE ReleaseProvider
  <2>1. Live' = Live /\ Listed' = {}
    BY <1>3, EmptyRange DEF ReleaseProvider, tileVars, Live, Listed
  <2>2. /\ stopping = NoTile /\ stopping' = NoTile /\ held = {} /\ held' = {}
        /\ dying = {} /\ dying' = Listed
        /\ credentials' = <<>> /\ provider' = "leaving"
    BY <1>3 DEF ReleaseProvider, Idle
  <2>3. {stopping} \cap Tile = {} /\ ({stopping} \cap Tile)' = {}
    BY <2>2
  <2>4. Live' = Listed' \cup held' \cup dying' \cup ({stopping} \cap Tile)'
    BY <1>0, <2>1, <2>2, <2>3
  <2>5. stopping' \notin dying'
    BY <1>0, <2>2 DEF Live
  <2> QED BY <2>1, <2>2, <2>4, <2>5
<1>4. CASE DestroyProvider
  <2>1. Live' = Live /\ Listed' = Listed /\ Listed = {}
    BY <1>0, <1>4, EmptyRange DEF DestroyProvider, tileVars, Live, Listed
  <2> QED BY <1>0, <1>4, <2>1 DEF DestroyProvider, lifeVars
<1>5. CASE Join
  <2>1. /\ Listed' = Listed /\ UNCHANGED <<provider, credentials, held, dying>>
        /\ stopping \in Tile /\ stopping' = NoTile
    BY <1>0, <1>5 DEF Join, TypeOK, Listed
  <2>2. CASE stopping \in held \cup Listed
    <3>1. Live' = Live
      BY <1>5, <2>2 DEF Join, tileVars, Live
    <3>2. ({stopping} \cap Tile)' = {} /\ {stopping} \cap Tile = {stopping}
      BY <2>1
    <3>3. Live' = Listed' \cup held' \cup dying' \cup ({stopping} \cap Tile)'
      BY <1>0, <2>1, <2>2, <3>1, <3>2
    <3>4. stopping' \notin dying'
      BY <1>0, <2>1 DEF TypeOK
    <3> QED BY <1>0, <2>1, <3>1, <3>3, <3>4
  <2>3. CASE stopping \notin held \cup Listed
    <3>1. Live' = Live \ {stopping}
      BY <1>0, <1>5, <2>1, <2>3, FreeKills DEF Join
    <3>2. ({stopping} \cap Tile)' = {} /\ {stopping} \cap Tile = {stopping}
      BY <2>1
    <3>3. Live' = Listed' \cup held' \cup dying' \cup ({stopping} \cap Tile)'
      BY <1>0, <2>1, <2>3, <3>1, <3>2
    <3>4. stopping' \notin dying'
      BY <1>0, <2>1 DEF TypeOK
    <3> QED BY <1>0, <2>1, <3>1, <3>3, <3>4
  <2> QED BY <2>2, <2>3
<1>6. CASE Delete
  <2>1. PICK t \in dying :
           /\ dying' = dying \ {t} /\ Stop(t)
           /\ IF m_IsRunning[t] THEN UNCHANGED <<g_cRef, tileVars, unlockResult>>
                                ELSE Free(t)
    BY <1>6 DEF Delete
  <2>2. /\ Listed' = Listed /\ UNCHANGED <<provider, credentials, held>>
        /\ stopping = NoTile /\ t \in Tile
    BY <1>0, <1>6 DEF Delete, Listed, TypeOK
  <2>3. CASE m_IsRunning[t]
    <3>1. Live' = Live /\ stopping' = t
      BY <2>1, <2>3 DEF Stop, tileVars, Live
    <3> QED BY <1>0, <2>1, <2>2, <3>1
  <2>4. CASE ~m_IsRunning[t]
    <3>1. Live' = Live \ {t} /\ stopping' = stopping
      BY <1>0, <2>1, <2>2, <2>4, FreeKills DEF Stop
    <3> QED BY <1>0, <2>1, <2>2, <3>1
  <2> QED BY <2>3, <2>4
<1>7. CASE GetCredentialCount
  <2>1. CASE Keep
    BY <1>1, <1>7, <2>1 DEF Keep, GetCredentialCount, lifeVars
  <2>2. CASE \E tiles : Renew(tiles)
    <3>1. PICK tiles : Renew(tiles)
      BY <2>2
    <3>2. /\ Range(tiles) \subseteq Tile /\ Range(tiles) \cap Live = {}
          /\ cpus = "CPUS_INVALID" => Range(tiles) = {}
      BY <1>0, <3>1, EnumerationsList DEF Renew, Unborn, Live
    <3>3. Live' = Live \cup Range(tiles)
      BY <1>0, <3>1, <3>2, CreateMakes DEF Renew
    <3>4. /\ Listed' = Range(tiles) /\ dying' = Listed \ held
          /\ provider = "alive" /\ dying = {} /\ stopping = NoTile
          /\ UNCHANGED <<provider, held, stopping>>
      BY <1>7, <3>1 DEF Renew, GetCredentialCount, Idle, Listed
    <3>5. {stopping} \cap Tile = {} /\ ({stopping} \cap Tile)' = {}
      BY <3>4
    <3>6. Live' = Listed' \cup held' \cup dying' \cup ({stopping} \cap Tile)'
      BY <1>0, <3>2, <3>3, <3>4, <3>5
    <3>7. dying' \cap (Listed' \cup held') = {}
      BY <1>0, <3>2, <3>4
    <3>8. stopping' \notin dying'
      BY <1>0, <3>4 DEF Live
    <3> QED BY <3>4, <3>6, <3>7, <3>8
  <2> QED BY <1>7, <2>1, <2>2, CountRenewsOrKeeps
<1>8. CASE GetCredentialAt
  <2>1. Live' = Live /\ Listed' = Listed /\ held' \subseteq held \cup Listed
        /\ held \subseteq held'
    BY <1>8 DEF GetCredentialAt, tileVars, providerVars, Live, Listed
  <2> QED BY <1>0, <1>8, <2>1 DEF GetCredentialAt, providerVars, Idle
<1>9. CASE ReleaseTile
  <2>1. Live' = Live /\ Listed' = Listed
    BY <1>9 DEF ReleaseTile, tileVars, providerVars, Live, Listed
  <2>2. PICK t \in held : held' = held \ {t} /\ dying' = {t} \ Listed
    BY <1>9 DEF ReleaseTile
  <2>3. /\ stopping = NoTile /\ dying = {} /\ provider = "alive"
        /\ UNCHANGED <<provider, credentials, stopping>>
    BY <1>9 DEF ReleaseTile, Idle, providerVars
  <2>4. {stopping} \cap Tile = {} /\ ({stopping} \cap Tile)' = {}
    BY <2>3
  <2>5. Live' = Listed' \cup held' \cup dying' \cup ({stopping} \cap Tile)'
    BY <1>0, <2>1, <2>2, <2>3, <2>4
  <2>6. stopping' \notin dying'
    BY <1>0, <2>2, <2>3 DEF TypeOK
  <2> QED BY <2>1, <2>2, <2>3, <2>5, <2>6
<1>10. CASE SetDeselected
  <2>1. Live' = Live /\ Listed' = Listed
    BY <1>10 DEF SetDeselected, providerVars, Live, Listed
  <2>2. PICK t \in held : stopping' \in {t, stopping}
    BY <1>10 DEF SetDeselected, Stop
  <2>3. stopping = NoTile /\ dying = {} /\ UNCHANGED <<provider, credentials, held, dying>>
    BY <1>10 DEF SetDeselected, Idle, providerVars
  <2> QED BY <1>0, <2>1, <2>2, <2>3 DEF TypeOK
<1>11. CASE \E t \in Tile :
             ListenThread(t) \/ WaitIsOver(t) \/ GetResult(t) \/ GetResultWorks(t)
  BY <1>0, <1>1, <1>11, ListenerAdvances
  DEF IInv, Advance, providerVars, tileVars
<1>12. CASE \/ SetUsageScenario \/ AdviseProvider \/ AdviseTile \/ SetSelected
            \/ SetStringValue \/ GetSerialization \/ ReportResult \/ UNCHANGED vars
  BY <1>1, <1>12
  DEF SetUsageScenario, AdviseProvider, AdviseTile, SetSelected, SetStringValue,
      GetSerialization, ReportResult, vars, providerVars, tileVars
<1> QED
  BY <1>2, <1>3, <1>4, <1>5, <1>6, <1>7, <1>8, <1>9, <1>10, <1>11, <1>12
  DEF Next, LogonUI

LEMMA UnbornStep == ASSUME IInv, [Next]_vars PROVE UnbornIsIdle'
<1> USE DEF UnbornIsIdle
<1>0. UnbornIsIdle /\ References /\ ThreadsAreJoined /\ TypeOK /\ IsFiniteSet(Live)
  BY DEF IInv, RefsAreCounted
<1>1. ASSUME UNCHANGED <<initialized, isSelected, m_IsRunning, m_ListenThread, calling>>
      PROVE  UnbornIsIdle'
  BY <1>0, <1>1 DEF Live
<1>2. CASE Join
  <2>1. /\ UNCHANGED <<m_IsRunning, calling>> /\ stopping \in Tile
        /\ m_ListenThread' = [m_ListenThread EXCEPT ![stopping] = "none"]
        /\ m_ListenThread[stopping] \in {"none", "ended"}
    BY <1>0, <1>2 DEF Join, TypeOK
  <2>2. m_ListenThread'[stopping] = "none" /\ ~m_IsRunning[stopping]
        /\ calling[stopping] = "none"
    BY <1>0, <2>1 DEF ThreadsAreJoined, TypeOK, Messages
  <2>3. \A t \in Tile \ {stopping} : m_ListenThread'[t] = m_ListenThread[t]
    BY <1>0, <2>1 DEF TypeOK
  <2>4. CASE stopping \in held \cup Listed
    <3>1. Live' = Live /\ UNCHANGED isSelected
      BY <1>2, <2>4 DEF Join, tileVars, Live
    <3>2. stopping \in Live
      BY <1>0, <2>1 DEF References
    <3> QED BY <1>0, <2>1, <2>3, <3>1, <3>2
  <2>5. CASE stopping \notin held \cup Listed
    <3>1. Free(stopping)
      BY <1>2, <2>5 DEF Join
    <3>2. /\ Live' = Live \ {stopping}
          /\ isSelected' = [isSelected EXCEPT ![stopping] = FALSE]
      BY <1>0, <2>1, <3>1, FreeKills
    <3>3. /\ ~isSelected'[stopping]
          /\ \A t \in Tile \ {stopping} : isSelected'[t] = isSelected[t]
      BY <1>0, <2>1, <3>2 DEF TypeOK
    <3> QED BY <1>0, <2>1, <2>2, <2>3, <3>2, <3>3
  <2> QED BY <2>4, <2>5
<1>3. CASE Delete
  <2>1. PICK t \in dying :
           /\ Stop(t)
           /\ IF m_IsRunning[t] THEN UNCHANGED <<g_cRef, tileVars, unlockResult>>
                                ELSE Free(t)
    BY <1>3 DEF Delete
  <2>2. t \in Tile /\ UNCHANGED <<m_ListenThread, calling>> /\ stopping = NoTile
        /\ t \in Live
    BY <1>0, <1>3 DEF Delete, TypeOK, References
  <2>3. CASE m_IsRunning[t]
    <3>1. /\ Live' = Live /\ UNCHANGED isSelected
          /\ \A u \in Tile \ {t} : m_IsRunning'[u] = m_IsRunning[u]
      BY <1>0, <2>1, <2>3 DEF Stop, tileVars, Live, TypeOK
    <3> QED BY <1>0, <2>2, <3>1
  <2>4. CASE ~m_IsRunning[t]
    <3>1. /\ Live' = Live \ {t} /\ UNCHANGED m_IsRunning
          /\ isSelected' = [isSelected EXCEPT ![t] = FALSE]
      BY <1>0, <2>1, <2>2, <2>4, FreeKills DEF Stop
    <3>2. /\ ~isSelected'[t]
          /\ \A u \in Tile \ {t} : isSelected'[u] = isSelected[u]
      BY <1>0, <2>2, <3>1 DEF TypeOK
    <3>3. m_ListenThread[t] = "none" /\ calling[t] = "none"
      BY <1>0, <2>2, <2>4, NoTileIsNoTile DEF ThreadsAreJoined, Messages
    <3> QED BY <1>0, <2>2, <2>4, <3>1, <3>2, <3>3
  <2> QED BY <2>3, <2>4
<1>4. CASE GetCredentialCount
  <2>1. UNCHANGED <<isSelected, m_IsRunning, m_ListenThread, calling>>
    BY <1>4 DEF GetCredentialCount, listenerVars
  <2>2. CASE Keep
    BY <1>1, <2>1, <2>2 DEF Keep
  <2>3. CASE \E tiles : Renew(tiles)
    <3>1. Live \subseteq Live'
      <4>1. PICK tiles : Renew(tiles)
        BY <2>3
      <4>2. /\ Range(tiles) \subseteq Tile
            /\ cpus = "CPUS_INVALID" => Range(tiles) = {}
        BY <1>0, <4>1, EnumerationsList DEF Renew, Unborn
      <4> QED BY <1>0, <4>1, <4>2, CreateMakes DEF Renew
    <3> QED BY <1>0, <2>1, <3>1
  <2> QED BY <1>4, <2>2, <2>3, CountRenewsOrKeeps
<1>5. CASE SetSelected
  <2>1. PICK t \in held :
           /\ isSelected' = [isSelected EXCEPT ![t] = TRUE]
           /\ Start(t)
    BY <1>5 DEF SetSelected
  <2>2. t \in Live /\ Live' = Live /\ UNCHANGED calling
    BY <1>0, <1>5 DEF SetSelected, References, Live
  <2>3. \A u \in Tile \ {t} :
           /\ isSelected'[u] = isSelected[u] /\ m_IsRunning'[u] = m_IsRunning[u]
           /\ m_ListenThread'[u] = m_ListenThread[u]
    BY <1>0, <2>1 DEF TypeOK, Start, listenerVars
  <2> QED BY <1>0, <2>2, <2>3
<1>6. CASE SetDeselected
  <2>1. PICK t \in held :
           /\ isSelected' = [isSelected EXCEPT ![t] = FALSE]
           /\ Stop(t)
    BY <1>6 DEF SetDeselected
  <2>2. t \in Live /\ Live' = Live /\ UNCHANGED <<m_ListenThread, calling>>
    BY <1>0, <1>6 DEF SetDeselected, References, Live
  <2>3. \A u \in Tile \ {t} :
           isSelected'[u] = isSelected[u] /\ m_IsRunning'[u] = m_IsRunning[u]
    BY <1>0, <2>1 DEF TypeOK, Stop
  <2> QED BY <1>0, <2>2, <2>3
<1>7. CASE \E t \in Tile :
             ListenThread(t) \/ WaitIsOver(t) \/ GetResult(t) \/ GetResultWorks(t)
  <2>1. PICK t \in Tile : Advance(t)
    BY <1>0, <1>7, ListenerAdvances
  <2>2. t \in Live /\ Live' = Live /\ UNCHANGED <<isSelected, m_IsRunning>>
    BY <1>0, <2>1 DEF Advance, Running, Messages, Waiting, tileVars, Live
  <2>3. \A u \in Tile \ {t} :
           calling'[u] = calling[u] /\ m_ListenThread'[u] = m_ListenThread[u]
    BY <1>0, <2>1 DEF TypeOK, Advance
  <2> QED BY <1>0, <2>2, <2>3
<1>8. CASE \/ CreateInstance \/ ReleaseProvider \/ DestroyProvider
           \/ SetUsageScenario \/ AdviseProvider \/ GetCredentialAt \/ ReleaseTile
           \/ AdviseTile \/ SetStringValue \/ GetSerialization \/ ReportResult
           \/ UNCHANGED vars
  BY <1>1, <1>8
  DEF CreateInstance, ReleaseProvider, DestroyProvider, SetUsageScenario,
      AdviseProvider, GetCredentialAt, ReleaseTile, AdviseTile, SetStringValue,
      GetSerialization, ReportResult, vars, tileVars, listenerVars
<1> QED
  BY <1>2, <1>3, <1>4, <1>5, <1>6, <1>7, <1>8 DEF Next, LogonUI

LEMMA ThreadsStep == ASSUME IInv, [Next]_vars PROVE ThreadsAreJoined'
<1> USE NoTileIsNoTile DEF ThreadsAreJoined
<1>0. /\ UnbornIsIdle /\ References /\ ThreadsAreJoined /\ TypeOK /\ IsFiniteSet(Live)
      /\ Listed \subseteq Tile /\ held \subseteq Tile
  BY DEF IInv, RefsAreCounted, References, Live
<1>1. ASSUME UNCHANGED <<credentials, lifeVars, isSelected, m_IsRunning,
                         m_ListenThread, calling>>
      PROVE  ThreadsAreJoined'
  BY <1>0, <1>1 DEF Listed, lifeVars
<1>2. ASSUME dying \subseteq dying', stopping = NoTile, stopping' = NoTile,
             UNCHANGED <<isSelected, m_IsRunning, m_ListenThread, calling>>
      PROVE  ThreadsAreJoined'
  BY <1>0, <1>2, ReferencesStep DEF References, Live
<1>3. CASE Join
  <2>1. /\ UNCHANGED <<credentials, held, dying, m_IsRunning, calling>>
        /\ stopping \in Tile /\ stopping' = NoTile
        /\ m_ListenThread' = [m_ListenThread EXCEPT ![stopping] = "none"]
        /\ m_ListenThread[stopping] \in {"none", "ended"}
    BY <1>0, <1>3 DEF Join, TypeOK
  <2>2. /\ m_ListenThread'[stopping] = "none" /\ ~m_IsRunning[stopping]
        /\ calling[stopping] = "none"
        /\ \A t \in Tile \ {stopping} : m_ListenThread'[t] = m_ListenThread[t]
    BY <1>0, <2>1 DEF TypeOK, Messages
  <2>3. /\ \A t \in Tile \ {stopping} : isSelected'[t] = isSelected[t]
        /\ ~isSelected'[stopping]
    <3>1. CASE stopping \in held \cup Listed
      BY <1>0, <1>3, <3>1 DEF Join, tileVars
    <3>2. CASE stopping \notin held \cup Listed
      <4>1. isSelected' = [isSelected EXCEPT ![stopping] = FALSE]
        BY <1>0, <1>3, <2>1, <3>2, FreeKills DEF Join
      <4> QED BY <1>0, <2>1, <4>1 DEF TypeOK
    <3> QED BY <3>1, <3>2
  <2>4. stopping' \notin Tile /\ stopping' \notin held' \cup Listed'
    BY <1>0, <2>1 DEF Listed
  <2> QED BY <1>0, <2>1, <2>2, <2>3, <2>4
<1>4. CASE Delete
  <2>1. PICK t \in dying :
           /\ dying' = dying \ {t} /\ Stop(t)
           /\ IF m_IsRunning[t] THEN UNCHANGED <<g_cRef, tileVars, unlockResult>>
                                ELSE Free(t)
    BY <1>4 DEF Delete
  <2>2. /\ UNCHANGED <<credentials, held, m_ListenThread, calling>>
        /\ t \in Tile /\ t \notin held \cup Listed /\ stopping = NoTile
        /\ Listed' = Listed
    BY <1>0, <1>4, <2>1 DEF Delete, TypeOK, References, Listed
  <2>3. CASE m_IsRunning[t]
    <3>1. /\ stopping' = t /\ ~m_IsRunning'[t] /\ UNCHANGED isSelected
          /\ \A u \in Tile \ {t} : m_IsRunning'[u] = m_IsRunning[u]
      BY <1>0, <2>1, <2>2, <2>3 DEF Stop, tileVars, TypeOK
    <3> QED BY <1>0, <2>1, <2>2, <3>1
  <2>4. CASE ~m_IsRunning[t]
    <3>1. /\ UNCHANGED <<stopping, m_IsRunning>>
          /\ isSelected' = [isSelected EXCEPT ![t] = FALSE]
      BY <1>0, <2>1, <2>2, <2>4, FreeKills DEF Stop
    <3>2. /\ ~isSelected'[t]
          /\ \A u \in Tile \ {t} : isSelected'[u] = isSelected[u]
      BY <1>0, <2>2, <3>1 DEF TypeOK
    <3> QED BY <1>0, <2>1, <2>2, <2>4, <3>1, <3>2
  <2> QED BY <2>3, <2>4
<1>5. CASE ReleaseProvider \/ GetCredentialCount \/ ReleaseTile \/ GetCredentialAt
  <2>1. /\ dying = {} /\ stopping = NoTile /\ stopping' = NoTile
        /\ UNCHANGED <<isSelected, m_IsRunning, m_ListenThread, calling>>
    BY <1>5 DEF ReleaseProvider, GetCredentialCount, ReleaseTile, GetCredentialAt,
                Idle, tileVars, listenerVars
  <2> QED BY <1>2, <2>1
<1>6. CASE SetSelected
  <2>1. PICK t \in held :
           /\ isSelected' = [isSelected EXCEPT ![t] = TRUE]
           /\ Start(t)
    BY <1>6 DEF SetSelected
  <2>2. /\ t \in Tile /\ stopping = NoTile /\ stopping' = NoTile
        /\ UNCHANGED <<calling, held, dying, credentials>> /\ Listed' = Listed
    BY <1>0, <1>6 DEF SetSelected, Idle, lifeVars, providerVars, Listed
  <2>3. \A u \in Tile \ {t} :
           /\ isSelected'[u] = isSelected[u] /\ m_IsRunning'[u] = m_IsRunning[u]
           /\ m_ListenThread'[u] = m_ListenThread[u]
    BY <1>0, <2>1 DEF TypeOK, Start, listenerVars
  <2>4. m_IsRunning'[t]
    BY <1>0, <2>1, <2>2 DEF TypeOK, Start, listenerVars
  <2>5. /\ m_ListenThread'[t] # "none"
        /\ calling[t] # "none" => m_ListenThread'[t] \in Messages \cup {"notify"}
    BY <1>0, <2>1, <2>2 DEF TypeOK, Start, listenerVars, Messages
  <2> QED BY <1>0, <2>2, <2>3, <2>4, <2>5
<1>7. CASE SetDeselected
  <2>1. PICK t \in held :
           /\ isSelected' = [isSelected EXCEPT ![t] = FALSE]
           /\ Stop(t)
    BY <1>7 DEF SetDeselected
  <2>2. /\ t \in Tile /\ stopping = NoTile /\ Listed' = Listed
        /\ UNCHANGED <<calling, m_ListenThread, held, dying, credentials>>
    BY <1>0, <1>7 DEF SetDeselected, Idle, lifeVars, providerVars, Listed
  <2>3. /\ ~isSelected'[t] /\ ~m_IsRunning'[t]
        /\ IF m_IsRunning[t] THEN stopping' = t ELSE stopping' = stopping
    BY <1>0, <2>1, <2>2 DEF TypeOK, Stop
  <2>4. \A u \in Tile \ {t} :
           isSelected'[u] = isSelected[u] /\ m_IsRunning'[u] = m_IsRunning[u]
    BY <1>0, <2>1 DEF TypeOK, Stop
  <2>5. stopping' \in {t, NoTile} /\ NoTile \notin held \cup Listed
    BY <1>0, <2>2, <2>3
  <2> QED BY <1>0, <2>2, <2>3, <2>4, <2>5
<1>8. CASE \E t \in Tile :
             ListenThread(t) \/ WaitIsOver(t) \/ GetResult(t) \/ GetResultWorks(t)
  <2>1. PICK t \in Tile : Advance(t)
    BY <1>0, <1>8, ListenerAdvances
  <2>2. /\ UNCHANGED <<credentials, held, dying, stopping, isSelected, m_IsRunning>>
        /\ m_ListenThread[t] # "none" /\ m_ListenThread'[t] # "none"
        /\ calling'[t] # "none" => m_ListenThread'[t] \in Messages \cup {"notify"}
    BY <1>0, <2>1
    DEF Advance, TypeOK, Running, Messages, Waiting, tileVars, lifeVars, providerVars
  <2>3. \A u \in Tile \ {t} :
           calling'[u] = calling[u] /\ m_ListenThread'[u] = m_ListenThread[u]
    BY <1>0, <2>1 DEF TypeOK, Advance
  <2> QED BY <1>0, <2>2, <2>3 DEF Listed
<1>9. CASE \/ CreateInstance \/ DestroyProvider \/ SetUsageScenario
           \/ AdviseProvider \/ AdviseTile \/ SetStringValue \/ GetSerialization
           \/ ReportResult \/ UNCHANGED vars
  BY <1>1, <1>9
  DEF CreateInstance, DestroyProvider, SetUsageScenario, AdviseProvider,
      AdviseTile, SetStringValue, GetSerialization, ReportResult, vars, tileVars,
      listenerVars, providerVars
<1> QED
  BY <1>3, <1>4, <1>5, <1>6, <1>7, <1>8, <1>9 DEF Next, LogonUI

\* A tile that LogonUI holds stays what it was made for.
LEMMA HeldTilesStay ==
    ASSUME IInv, [Next]_vars
    PROVE  \A t \in held : initialized'[t] = initialized[t]
<1>0. /\ References /\ ThreadsAreJoined /\ TypeOK /\ IsFiniteSet(Live)
      /\ held \subseteq Tile /\ held \subseteq Live
  BY DEF IInv, RefsAreCounted, References, Live
<1>1. CASE Join
  <2>1. CASE stopping \in held \cup Listed
    BY <1>1, <2>1 DEF Join, tileVars
  <2>2. CASE stopping \notin held \cup Listed
    <3>1. initialized' = [initialized EXCEPT ![stopping] = NoTile]
      BY <1>0, <1>1, <2>2, FreeKills DEF Join, TypeOK
    <3> QED BY <1>0, <2>2, <3>1 DEF TypeOK
  <2> QED BY <2>1, <2>2
<1>2. CASE Delete
  <2>1. PICK t \in dying :
           IF m_IsRunning[t] THEN UNCHANGED <<g_cRef, tileVars, unlockResult>>
                             ELSE Free(t)
    BY <1>2 DEF Delete
  <2>2. CASE m_IsRunning[t]
    BY <2>1, <2>2 DEF tileVars
  <2>3. CASE ~m_IsRunning[t]
    <3>1. initialized' = [initialized EXCEPT ![t] = NoTile] /\ t \notin held
      BY <1>0, <2>1, <2>3, FreeKills DEF TypeOK, References
    <3> QED BY <1>0, <3>1 DEF TypeOK
  <2> QED BY <2>2, <2>3
<1>3. CASE GetCredentialCount
  <2>1. CASE Keep
    BY <2>1 DEF Keep
  <2>2. CASE \E tiles : Renew(tiles)
    <3>1. PICK tiles : Renew(tiles)
      BY <2>2
    <3>2. /\ Range(tiles) \subseteq Tile /\ Range(tiles) \cap Live = {}
          /\ cpus = "CPUS_INVALID" => Range(tiles) = {}
      BY <1>0, <3>1, EnumerationsList DEF Renew, Unborn, Live
    <3> QED BY <1>0, <3>1, <3>2, CreateMakes DEF Renew
  <2> QED BY <1>3, <2>1, <2>2, CountRenewsOrKeeps
<1>4. CASE \E t \in Tile :
             ListenThread(t) \/ WaitIsOver(t) \/ GetResult(t) \/ GetResultWorks(t)
  BY <1>0, <1>4, ListenerAdvances DEF Advance, tileVars
<1>5. CASE \/ CreateInstance \/ ReleaseProvider \/ DestroyProvider
           \/ SetUsageScenario \/ AdviseProvider \/ GetCredentialAt \/ ReleaseTile
           \/ AdviseTile \/ SetSelected \/ SetDeselected \/ SetStringValue
           \/ GetSerialization \/ ReportResult \/ UNCHANGED vars
  BY <1>5
  DEF CreateInstance, ReleaseProvider, DestroyProvider, SetUsageScenario,
      AdviseProvider, GetCredentialAt, ReleaseTile, AdviseTile, SetSelected,
      SetDeselected, SetStringValue, GetSerialization, ReportResult, vars, tileVars
<1> QED BY <1>1, <1>2, <1>3, <1>4, <1>5 DEF Next, LogonUI

LEMMA SubmittedStep == ASSUME IInv, [Next]_vars PROVE SubmittedIsSerialized'
<1> USE DEF SubmittedIsSerialized
<1>0. SubmittedIsSerialized /\ \A t \in held : initialized'[t] = initialized[t]
  BY HeldTilesStay DEF IInv
<1>1. ASSUME submitted' \subseteq submitted, held \subseteq held'
      PROVE  SubmittedIsSerialized'
  BY <1>0, <1>1 DEF Serialize
<1>2. CASE ReleaseTile
  <2>1. PICK t \in held : held' = held \ {t} /\ \A s \in submitted : s.tile # t
    BY <1>2 DEF ReleaseTile
  <2>2. submitted' = submitted
    BY <1>2 DEF ReleaseTile, logonVars
  <2> QED BY <1>0, <2>1, <2>2 DEF Serialize
<1>3. CASE GetSerialization
  <2>1. held' = held
    BY <1>3 DEF GetSerialization, lifeVars
  <2>2. CASE UNCHANGED submitted
    BY <1>1, <2>1, <2>2
  <2>3. CASE submitted' # submitted
    <3>1. PICK t \in held :
             \E pwd \in Passwords(t) :
             \E buffer \in Serialize(initialized[t], pwd.password) :
                submitted' = {[tile |-> t, source |-> pwd.source,
                               password |-> pwd.password, buffer |-> buffer]}
      BY <1>3, <2>3 DEF GetSerialization
    <3> QED BY <1>0, <2>1, <3>1 DEF Serialize
  <2> QED BY <2>2, <2>3
<1>4. CASE ReportResult
  BY <1>1, <1>4 DEF ReportResult, lifeVars
<1>5. CASE \E t \in Tile :
             ListenThread(t) \/ WaitIsOver(t) \/ GetResult(t) \/ GetResultWorks(t)
  <2>1. TypeOK /\ ThreadsAreJoined
    BY DEF IInv
  <2> QED BY <1>1, <1>5, <2>1, ListenerAdvances DEF Advance, lifeVars, logonVars
<1>6. CASE \/ CreateInstance \/ ReleaseProvider \/ DestroyProvider \/ Join \/ Delete
           \/ SetUsageScenario \/ AdviseProvider \/ GetCredentialAt \/ AdviseTile
           \/ GetCredentialCount \/ SetSelected \/ SetDeselected \/ SetStringValue
           \/ UNCHANGED vars
  BY <1>1, <1>6
  DEF CreateInstance, ReleaseProvider, DestroyProvider, Join, Delete,
      SetUsageScenario, AdviseProvider, GetCredentialAt, AdviseTile,
      GetCredentialCount, SetSelected, SetDeselected, SetStringValue, vars,
      lifeVars, logonVars
<1> QED
  BY <1>2, <1>3, <1>4, <1>5, <1>6 DEF Next, LogonUI

LEMMA TypeStep == ASSUME IInv, [Next]_vars PROVE TypeOK'
<1>0. TypeOK /\ ThreadsAreJoined /\ References
  BY DEF IInv
<1>1. ASSUME \E t \in Tile :
                ListenThread(t) \/ WaitIsOver(t) \/ GetResult(t) \/ GetResultWorks(t)
      PROVE  \E t \in Tile : Advance(t)
  BY <1>0, <1>1, ListenerAdvances
<1>2. /\ recreate' \in BOOLEAN /\ events' \in BOOLEAN /\ changed' \in BOOLEAN
  BY <1>0, <1>1
  DEF TypeOK, Next, LogonUI, CreateInstance, ReleaseProvider, DestroyProvider, Join,
      Delete, SetUsageScenario, AdviseProvider, GetCredentialCount,
      GetCredentialAt, ReleaseTile, AdviseTile, SetSelected, SetDeselected,
      SetStringValue, GetSerialization, ReportResult, vars, providerVars, Advance
<1>3. g_cRef' \in Nat
  BY CountStep, FS_CardinalityType DEF RefsAreCounted
<1>4. CASE CreateInstance \/ DestroyProvider
  BY <1>0, <1>2, <1>3, <1>4
  DEF TypeOK, CreateInstance, DestroyProvider, lifeVars, tileVars, listenerVars,
      logonVars
<1>5. CASE ReleaseProvider
  <2>1. dying' \subseteq Tile /\ credentials' \in Seq(Tile) /\ Len(credentials') <= PerUser
    BY <1>0, <1>5, ProviderAssumption DEF ReleaseProvider, Idle, References, Live
  <2> QED BY <1>0, <1>2, <1>3, <1>5, <2>1
          DEF TypeOK, ReleaseProvider, tileVars, listenerVars
<1>6. CASE SetUsageScenario \/ AdviseProvider
  BY <1>0, <1>2, <1>3, <1>6
  DEF TypeOK, SetUsageScenario, AdviseProvider, lifeVars, tileVars, listenerVars,
      logonVars
<1>7. CASE Join
  <2>1. /\ initialized' \in
              [Tile -> [user : Users, cpus : UsageScenarios] \cup {NoTile}]
        /\ isSelected' \in [Tile -> BOOLEAN] /\ tileEvents' \in [Tile -> BOOLEAN]
        /\ typed' \in [Tile -> TypedPasswords \cup {<<>>}]
        /\ unlockResult' \in [Tile -> Results]
    <3>1. CASE UNCHANGED <<tileVars, unlockResult>>
      BY <1>0, <3>1 DEF TypeOK, tileVars
    <3>2. CASE Free(stopping)
      BY <1>0, <3>2 DEF TypeOK, Free, Results
    <3> QED BY <1>7, <3>1, <3>2 DEF Join
  <2>2. m_ListenThread' \in [Tile -> Running \cup {"none", "ended"}]
    BY <1>0, <1>7 DEF TypeOK, Join
  <2> QED BY <1>0, <1>2, <1>3, <1>7, <2>1, <2>2 DEF TypeOK, Join, logonVars
<1>8. CASE Delete
  <2>1. PICK t \in dying :
           /\ dying' = dying \ {t} /\ Stop(t)
           /\ IF m_IsRunning[t] THEN UNCHANGED <<g_cRef, tileVars, unlockResult>>
                                ELSE Free(t)
    BY <1>8 DEF Delete
  <2>2. /\ initialized' \in
              [Tile -> [user : Users, cpus : UsageScenarios] \cup {NoTile}]
        /\ isSelected' \in [Tile -> BOOLEAN] /\ tileEvents' \in [Tile -> BOOLEAN]
        /\ typed' \in [Tile -> TypedPasswords \cup {<<>>}]
        /\ unlockResult' \in [Tile -> Results]
    BY <1>0, <2>1 DEF TypeOK, Free, tileVars, Results
  <2>3. m_IsRunning' \in [Tile -> BOOLEAN] /\ stopping' \in Tile \cup {NoTile}
    BY <1>0, <2>1 DEF TypeOK, Stop
  <2> QED BY <1>0, <1>2, <1>3, <1>8, <2>1, <2>2, <2>3 DEF TypeOK, Delete, logonVars
<1>9. CASE GetCredentialCount
  <2>1. Listed \subseteq Tile
    BY <1>0 DEF References, Live
  <2>2. /\ credentials' \in Seq(Tile) /\ Len(credentials') <= PerUser
        /\ dying' \subseteq Tile /\ offer' \in Tile \cup {NoTile, "failed"}
        /\ initialized' \in
              [Tile -> [user : Users, cpus : UsageScenarios] \cup {NoTile}]
    <3>1. CASE Keep
      BY <1>0, <2>1, <3>1 DEF Keep, TypeOK
    <3>2. CASE \E tiles : Renew(tiles)
      <4>1. PICK tiles : Renew(tiles)
        BY <3>2
      <4>2. /\ tiles \in Seq(Tile) /\ Len(tiles) <= PerUser
            /\ Range(tiles) \subseteq Tile
            /\ cpus = "CPUS_INVALID" => Range(tiles) = {}
        BY <4>1, EnumerationsList DEF Renew, Unborn, IInv, RefsAreCounted
      <4> QED BY <1>0, <2>1, <4>1, <4>2, CreateMakes DEF Renew
    <3> QED BY <1>9, <3>1, <3>2, CountRenewsOrKeeps
  <2> QED BY <1>0, <1>2, <1>3, <1>9, <2>2
          DEF TypeOK, GetCredentialCount, listenerVars
<1>10. CASE GetCredentialAt \/ ReleaseTile
  <2>1. Listed \subseteq Tile
    BY <1>0 DEF References, Live
  <2>2. held' \subseteq Tile /\ dying' \subseteq Tile
    BY <1>0, <1>10, <2>1 DEF TypeOK, GetCredentialAt, ReleaseTile
  <2> QED BY <1>0, <1>2, <1>3, <1>10, <2>2
          DEF TypeOK, GetCredentialAt, ReleaseTile, providerVars, tileVars,
              listenerVars, logonVars
<1>11. CASE AdviseTile
  <2>1. tileEvents' \in [Tile -> BOOLEAN]
    BY <1>0, <1>11 DEF TypeOK, AdviseTile
  <2> QED BY <1>0, <1>2, <1>3, <1>11, <2>1
          DEF TypeOK, AdviseTile, providerVars, lifeVars, listenerVars, logonVars
<1>12. CASE SetSelected
  <2>1. /\ isSelected' \in [Tile -> BOOLEAN] /\ m_IsRunning' \in [Tile -> BOOLEAN]
        /\ m_ListenThread' \in [Tile -> Running \cup {"none", "ended"}]
        /\ offer' \in Tile \cup {NoTile, "failed"}
    <3>1. PICK t \in held :
                 /\ isSelected' = [isSelected EXCEPT ![t] = TRUE]
                 /\ Start(t)
                 /\ offer' \in {t, offer}
      BY <1>12 DEF SetSelected
    <3>2. /\ t \in Tile
          /\ m_IsRunning \in [Tile -> BOOLEAN]
          /\ m_ListenThread \in [Tile -> Running \cup {"none", "ended"}]
      BY <1>0 DEF TypeOK
    <3>3. /\ m_IsRunning' \in [Tile -> BOOLEAN]
          /\ m_ListenThread' \in [Tile -> Running \cup {"none", "ended"}]
      <4>1. CASE m_IsRunning[t]
        BY <3>1, <3>2, <4>1 DEF Start, listenerVars
      <4>2. CASE ~m_IsRunning[t]
        <5>1. "init" \in Running
          BY DEF Running, Messages
        <5> QED BY <3>1, <3>2, <4>2, <5>1 DEF Start
      <4> QED BY <4>1, <4>2
    <3>4. isSelected' \in [Tile -> BOOLEAN] /\ offer' \in Tile \cup {NoTile, "failed"}
      BY <1>0, <3>1, <3>2 DEF TypeOK
    <3> QED BY <3>3, <3>4
  <2> QED BY <1>0, <1>2, <1>3, <1>12, <2>1
          DEF TypeOK, SetSelected, providerVars, lifeVars
<1>13. CASE SetDeselected
  <2>1. /\ isSelected' \in [Tile -> BOOLEAN] /\ m_IsRunning' \in [Tile -> BOOLEAN]
        /\ stopping' \in Tile \cup {NoTile}
        /\ typed' \in [Tile -> TypedPasswords \cup {<<>>}]
    <3>1. PICK t \in held :
             /\ isSelected' = [isSelected EXCEPT ![t] = FALSE]
             /\ Stop(t)
             /\ typed' = [typed EXCEPT ![t] = <<>>]
      BY <1>13 DEF SetDeselected
    <3>2. t \in Tile
      BY <1>0 DEF TypeOK
    <3>3. isSelected' \in [Tile -> BOOLEAN]
      BY <1>0, <3>1 DEF TypeOK
    <3>4. m_IsRunning' \in [Tile -> BOOLEAN] /\ stopping' \in Tile \cup {NoTile}
      BY <1>0, <3>1, <3>2 DEF TypeOK, Stop
    <3>5. typed' \in [Tile -> TypedPasswords \cup {<<>>}]
      BY <1>0, <3>1 DEF TypeOK
    <3> QED BY <3>3, <3>4, <3>5
  <2> QED BY <1>0, <1>2, <1>3, <1>13, <2>1
          DEF TypeOK, SetDeselected, providerVars, logonVars
<1>14. CASE SetStringValue
  <2>1. typed' \in [Tile -> TypedPasswords \cup {<<>>}]
    BY <1>0, <1>14 DEF TypeOK, SetStringValue
  <2> QED BY <1>0, <1>2, <1>3, <1>14, <2>1
          DEF TypeOK, SetStringValue, providerVars, lifeVars, listenerVars, logonVars
<1>15. CASE GetSerialization
  <2>1. offer' \in Tile \cup {NoTile, "failed"}
    BY <1>0, <1>15 DEF TypeOK, GetSerialization
  <2>2. CASE submitted' = submitted
    BY <1>0, <1>2, <1>3, <1>15, <2>1, <2>2
    DEF TypeOK, GetSerialization, providerVars, lifeVars, tileVars, listenerVars
  <2>3. CASE submitted' # submitted
    <3>1. PICK t \in held :
             \E pwd \in Passwords(t) :
             \E buffer \in Serialize(initialized[t], pwd.password) :
                submitted' = {[tile |-> t, source |-> pwd.source,
                               password |-> pwd.password, buffer |-> buffer]}
      BY <1>15, <2>3 DEF GetSerialization
    <3>2. \A pwd \in Passwords(t) :
             /\ pwd.source \in {"typed", "phone"}
             /\ pwd.password \in TypedPasswords \cup {PhonePassword}
      BY <1>0 DEF TypeOK, Passwords
    <3>3. /\ \A s \in submitted' :
                /\ s.tile \in Tile
                /\ s.source \in {"typed", "phone"}
                /\ s.password \in TypedPasswords \cup {PhonePassword}
          /\ \A r, s \in submitted' : r = s
      BY <1>0, <3>1, <3>2 DEF TypeOK
    <3> QED BY <1>0, <1>2, <1>3, <1>15, <2>1, <3>3
            DEF TypeOK, GetSerialization, providerVars, lifeVars, tileVars,
                listenerVars
  <2> QED BY <2>2, <2>3
<1>16. CASE ReportResult
  <2>1. unlockResult' \in [Tile -> Results] /\ submitted' \subseteq submitted
    BY <1>0, <1>16 DEF TypeOK, ReportResult, Results
  <2> QED BY <1>0, <1>2, <1>3, <1>16, <2>1
          DEF TypeOK, ReportResult, providerVars, lifeVars, tileVars, listenerVars
<1>17. CASE \E t \in Tile :
             ListenThread(t) \/ WaitIsOver(t) \/ GetResult(t) \/ GetResultWorks(t)
  <2>1. PICK t \in Tile : Advance(t)
    BY <1>1, <1>17
  <2>2. /\ m_ListenThread' \in [Tile -> Running \cup {"none", "ended"}]
        /\ calling' \in [Tile -> {"none", "tile", "provider"}]
    BY <1>0, <2>1 DEF TypeOK, Advance
  <2> QED BY <1>0, <1>2, <1>3, <2>1, <2>2
          DEF TypeOK, Advance, providerVars, lifeVars, tileVars, logonVars
<1>18. CASE UNCHANGED vars
  BY <1>0, <1>18
  DEF TypeOK, vars, providerVars, lifeVars, tileVars, listenerVars, logonVars
<1> QED
  BY <1>4, <1>5, <1>6, <1>7, <1>8, <1>9, <1>10, <1>11, <1>12, <1>13, <1>14, <1>15,
     <1>16, <1>17, <1>18
  DEF Next, LogonUI

-----------------------------------------------------------------------------
(* The results.                                                              *)

LEMMA Initially == Init => IInv
<1> SUFFICES ASSUME Init PROVE IInv
  OBVIOUS
<1>1. Live = {} /\ Listed = {}
  BY EmptyRange DEF Init, Live, Listed
<1>2. TypeOK
  <2>1. recreate \in BOOLEAN /\ events \in BOOLEAN /\ changed \in BOOLEAN
    BY DEF Init
  <2>2. /\ credentials \in Seq(Tile) /\ Len(credentials) <= PerUser
        /\ g_cRef \in Nat
    BY ProviderAssumption DEF Init
  <2>3. /\ isSelected \in [Tile -> BOOLEAN] /\ tileEvents \in [Tile -> BOOLEAN]
        /\ m_IsRunning \in [Tile -> BOOLEAN]
    BY DEF Init
  <2> QED BY <2>1, <2>2, <2>3 DEF Init, TypeOK, Results
<1>3. References
  BY <1>1, NoTileIsNoTile DEF Init, References
<1>4. RefsAreCounted
  BY <1>1, FS_EmptySet DEF Init, RefsAreCounted
<1>5. ThreadsAreJoined
  BY <1>1, NoTileIsNoTile DEF Init, ThreadsAreJoined
<1>6. UnbornIsIdle /\ SubmittedIsSerialized
  BY DEF Init, UnbornIsIdle, SubmittedIsSerialized
<1> QED BY <1>2, <1>3, <1>4, <1>5, <1>6 DEF IInv

LEMMA Inductive == Spec => []IInv
<1>1. IInv /\ [Next]_vars => IInv'
  BY TypeStep, ReferencesStep, CountStep, ThreadsStep, UnbornStep, SubmittedStep
  DEF IInv
<1> QED BY <1>1, Initially, PTL DEF Spec

\* The provider, its tiles and its listeners have their types.
THEOREM TypeCorrect == Spec => []TypeOK
<1>1. IInv => TypeOK
  BY DEF IInv
<1> QED BY <1>1, Inductive, PTL

\* However LogonUI selects, deselects, enumerates and releases tiles: between its
\* calls exactly the tiles with a raised flag have a thread to join, and the
\* selected one has a listener.
THEOREM ListenersFollow == Spec => []ListenerFollowsSelection
<1>1. IInv => ListenerFollowsSelection
  BY DEF IInv, ThreadsAreJoined, ListenerFollowsSelection
<1> QED BY <1>1, Inductive, PTL

\* No thread uses a tile that was deleted.
THEOREM ThreadsEndInTime == Spec => []NoThreadOutlivesItsTile
<1>1. IInv => NoThreadOutlivesItsTile
  BY DEF IInv, UnbornIsIdle, NoThreadOutlivesItsTile, Unborn, Live
<1> QED BY <1>1, Inductive, PTL

\* The DLL may go exactly when no code of it can still run.
THEOREM DllUnloads == Spec => []DllUnloadsWhenUnused
<1>1. ASSUME IInv PROVE DllUnloadsWhenUnused
  <2>1. /\ Cardinality(Live) \in Nat
        /\ Cardinality(Live) = 0 <=> Live = {}
        /\ g_cRef = Cardinality(Live) + (IF provider = "none" THEN 0 ELSE 1)
    BY <1>1, FS_CardinalityType, FS_EmptySet DEF IInv, RefsAreCounted
  <2>2. DllCanUnloadNow <=> provider = "none" /\ Live = {}
    BY <2>1 DEF DllCanUnloadNow
  <2>3. Live = {} <=> \A t \in Tile : initialized[t] = NoTile
    BY DEF Live
  <2>4. Live = {} => \A t \in Tile : m_ListenThread[t] = "none"
    BY <1>1 DEF IInv, UnbornIsIdle
  <2> QED BY <2>2, <2>3, <2>4 DEF DllUnloadsWhenUnused
<1> QED BY <1>1, Inductive, PTL

\* A logon of a local user that is under way is in a buffer from which the LSA
\* reads what the tile put in, whatever the names, the password and the scenario.
THEOREM LogonsAreRead == Spec => []LsaReadsTheLogon
<1>1. ASSUME IInv PROVE LsaReadsTheLogon
  <2> SUFFICES ASSUME NEW s \in submitted, initialized[s.tile].user.isLocal
               PROVE  LET tile == initialized[s.tile]
                      IN  /\ IsPacked(s.buffer)
                          /\ Unpacked(s.buffer, "LogonDomainName") =
                                Bytes(tile.user.domain)
                          /\ Unpacked(s.buffer, "UserName") = Bytes(tile.user.name)
                          /\ Unpacked(s.buffer, "Password") =
                               IF tile.cpus = "CPUS_CREDUI" \/ s.password = <<>>
                                 THEN Bytes(s.password)
                                 ELSE Bytes(CredProtect(s.password))
                          /\ s.buffer.MessageType =
                               CASE tile.cpus = "CPUS_LOGON" -> "KerbInteractiveLogon"
                                 [] tile.cpus = "CPUS_UNLOCK_WORKSTATION" ->
                                       "KerbWorkstationUnlockLogon"
                                 [] tile.cpus = "CPUS_CREDUI" -> "none"
    BY DEF LsaReadsTheLogon
  <2> DEFINE tile == initialized[s.tile]
             domain == tile.user.domain
             name == tile.user.name
  <2>1. /\ s.tile \in Tile /\ s.tile \in Live
        /\ s.password \in TypedPasswords \cup {PhonePassword}
        /\ s.buffer \in Serialize(tile, s.password)
    BY <1>1 DEF IInv, TypeOK, SubmittedIsSerialized, References
  <2>2. tile \in [user : Users, cpus : UsageScenarios]
    BY <1>1, <2>1 DEF IInv, TypeOK, Live
  <2>3. /\ domain \in Seq(STRING) /\ name \in Seq(STRING)
        /\ \A i \in DOMAIN domain : domain[i] # Whack
        /\ s.password \in Seq(STRING) /\ ~CredIsProtected(s.password)
        /\ tile.cpus \in {"CPUS_LOGON", "CPUS_UNLOCK_WORKSTATION", "CPUS_CREDUI"}
    BY <2>1, <2>2, UserAssumption
  <2>4. s.buffer \in SerializeLocal(domain \o <<Whack>> \o name, s.password, tile.cpus)
    BY <2>1 DEF Serialize, QualifiedName
  <2> HIDE DEF tile, domain, name
  <2>5. /\ IsPacked(s.buffer)
        /\ Unpacked(s.buffer, "LogonDomainName") = Bytes(domain)
        /\ Unpacked(s.buffer, "UserName") = Bytes(name)
        /\ Unpacked(s.buffer, "Password") =
              Bytes(ProtectIfNecessaryAndCopyPassword(s.password, tile.cpus))
        /\ s.buffer.MessageType \in MessageTypes(tile.cpus)
    BY <2>3, <2>4, LsaReadsWhatWasSerialized
  <2>6. Unpacked(s.buffer, "Password") =
          IF tile.cpus = "CPUS_CREDUI" \/ s.password = <<>>
            THEN Bytes(s.password) ELSE Bytes(CredProtect(s.password))
    BY <2>3, <2>5 DEF ProtectIfNecessaryAndCopyPassword
  <2>7. s.buffer.MessageType =
          CASE tile.cpus = "CPUS_LOGON" -> "KerbInteractiveLogon"
            [] tile.cpus = "CPUS_UNLOCK_WORKSTATION" -> "KerbWorkstationUnlockLogon"
            [] tile.cpus = "CPUS_CREDUI" -> "none"
    <3>1. CASE tile.cpus = "CPUS_LOGON"
      BY <2>5, <3>1 DEF MessageTypes
    <3>2. CASE tile.cpus = "CPUS_UNLOCK_WORKSTATION"
      BY <2>5, <3>2 DEF MessageTypes
    <3>3. CASE tile.cpus = "CPUS_CREDUI"
      BY <2>5, <3>3 DEF MessageTypes
    <3> QED BY <2>3, <3>1, <3>2, <3>3
  <2> QED BY <2>5, <2>6, <2>7 DEF tile, domain, name
<1> QED BY <1>1, Inductive, PTL
-----------------------------------------------------------------------------
(* The steps of a listener that was stopped, and of an approval.             *)

\* The provider's callback is the only one a listener calls at its end, and the
\* memory of no tile holds an approval for the next one.
CallsFitStages ==
    \A t \in Tile : m_ListenThread[t] = "notify" => calling[t] # "tile"

UnbornIsUnapproved == \A t \in Tile \ Live : unlockResult[t] = "OTHER"

FullIInv == IInv /\ CallsFitStages /\ UnbornIsUnapproved

Listener(t) == ListenThread(t) \/ WaitIsOver(t) \/ GetResult(t) \/ GetResultWorks(t)

LEMMA Places ==
    /\ PlacesLeft("none") = 0 /\ PlacesLeft("ended") = 1
    /\ PlacesLeft("notify") = 2 /\ PlacesLeft("invalidUser") = 2
    /\ PlacesLeft("message") = 3 /\ PlacesLeft("store") = 4
    /\ PlacesLeft("getResult") = 5 /\ PlacesLeft("key") = 6
    /\ PlacesLeft("keyMessage") = 7 /\ PlacesLeft("network") = 8
    /\ PlacesLeft("networkMessage") = 9 /\ PlacesLeft("prepare") = 10
    /\ PlacesLeft("init") = 11
<1>1. /\ PlacesLeft("none") = 0 /\ PlacesLeft("ended") = 1
      /\ PlacesLeft("notify") = 2 /\ PlacesLeft("invalidUser") = 2
      /\ PlacesLeft("message") = 3 /\ PlacesLeft("store") = 4
  BY DEF PlacesLeft
<1>2. /\ PlacesLeft("getResult") = 5 /\ PlacesLeft("key") = 6
      /\ PlacesLeft("keyMessage") = 7 /\ PlacesLeft("network") = 8
  BY DEF PlacesLeft
<1>3. /\ PlacesLeft("networkMessage") = 9 /\ PlacesLeft("prepare") = 10
      /\ PlacesLeft("init") = 11
  BY DEF PlacesLeft
<1> QED BY <1>1, <1>2, <1>3

\* A message brings the thread on, except for those of GetResult.
LEMMA CallsGoOn ==
    ASSUME NEW stage \in Messages \cup {"notify"}
    PROVE  /\ PlacesLeft(stage) \in Nat /\ PlacesLeft(AfterCall(stage)) \in Nat
           /\ IF stage = "getResult"
                THEN AfterCall(stage) = "getResult"
                ELSE PlacesLeft(AfterCall(stage)) < PlacesLeft(stage)
           /\ stage = "message" => AfterCall(stage) = "notify"
<1> USE Places
<1>1. CASE stage = "init"
  BY <1>1 DEF AfterCall
<1>2. CASE stage = "invalidUser"
  BY <1>2 DEF AfterCall
<1>3. CASE stage = "networkMessage"
  BY <1>3 DEF AfterCall
<1>4. CASE stage = "keyMessage"
  BY <1>4 DEF AfterCall
<1>5. CASE stage = "getResult"
  BY <1>5 DEF AfterCall
<1>6. CASE stage = "message"
  BY <1>6 DEF AfterCall
<1>7. CASE stage = "notify"
  BY <1>7 DEF AfterCall
<1> QED BY <1>1, <1>2, <1>3, <1>4, <1>5, <1>6, <1>7 DEF Messages

LEMMA GotoGoesOn ==
    ASSUME TypeOK, NEW t \in Tile, NEW from, NEW stage, ThreadGoto(t, from, stage),
           UNCHANGED calling, PlacesLeft(from) \in Nat, PlacesLeft(stage) \in Nat,
           PlacesLeft(stage) < PlacesLeft(from)
    PROVE  GoesOn(t)
<1>1. /\ m_ListenThread[t] = from /\ m_ListenThread'[t] = stage
      /\ calling[t] = "none" /\ calling'[t] = "none"
  BY DEF ThreadGoto, TypeOK
<1>2. /\ ListenerStepsLeft(t) = 2 * PlacesLeft(from)
      /\ ListenerStepsLeft(t)' = 2 * PlacesLeft(stage)
  BY <1>1 DEF ListenerStepsLeft
<1> QED BY <1>2 DEF GoesOn

LEMMA CallGoesOn ==
    ASSUME TypeOK, NEW t \in Tile, m_ListenThread[t] \in Messages \cup {"notify"},
           m_ListenThread' =
               [m_ListenThread EXCEPT ![t] = AfterCall(m_ListenThread[t])],
           calling'[t] = "none"
    PROVE  GoesOn(t)
<1> DEFINE stage == m_ListenThread[t]
<1>1. m_ListenThread'[t] = AfterCall(stage)
  BY DEF TypeOK
<1>2. CASE stage = "getResult"
  BY <1>1, <1>2, CallsGoOn DEF GoesOn
<1>3. CASE stage # "getResult"
  <2>1. /\ PlacesLeft(stage) \in Nat /\ PlacesLeft(AfterCall(stage)) \in Nat
        /\ PlacesLeft(AfterCall(stage)) < PlacesLeft(stage)
    BY <1>3, CallsGoOn
  <2>2. ListenerStepsLeft(t)' = 2 * PlacesLeft(AfterCall(stage))
    <3>1. ListenerStepsLeft(t)' = 2 * PlacesLeft(m_ListenThread'[t]) - 0
      BY DEF ListenerStepsLeft
    <3> HIDE DEF stage
    <3> QED BY <1>1, <2>1, <3>1
  <2>3. \/ ListenerStepsLeft(t) = 2 * PlacesLeft(stage)
        \/ ListenerStepsLeft(t) = 2 * PlacesLeft(stage) - 1
    BY <2>1 DEF ListenerStepsLeft
  <2> HIDE DEF stage
  <2>4. ListenerStepsLeft(t)' < ListenerStepsLeft(t)
    BY <2>1, <2>2, <2>3
  <2> QED BY <2>4 DEF GoesOn
<1> QED BY <1>2, <1>3

LEMMA FindsGoOn ==
    ASSUME TypeOK, NEW t \in Tile, m_ListenThread[t] \in Messages \cup {"notify"},
           UNCHANGED m_ListenThread, calling[t] = "none",
           NEW callback \in {"tile", "provider"},
           calling' = [calling EXCEPT ![t] = callback]
    PROVE  GoesOn(t)
<1>1. calling'[t] # "none"
  BY DEF TypeOK
<1>2. /\ ListenerStepsLeft(t) = 2 * PlacesLeft(m_ListenThread[t])
      /\ ListenerStepsLeft(t)' = 2 * PlacesLeft(m_ListenThread[t]) - 1
  BY <1>1, CallsGoOn DEF ListenerStepsLeft
<1>3. PlacesLeft(m_ListenThread[t]) \in Nat
  BY CallsGoOn
<1> QED BY <1>2, <1>3 DEF GoesOn

LEMMA ListenerGoesOn ==
    ASSUME TypeOK, ThreadsAreJoined, NEW t \in Tile, Listener(t)
    PROVE  GoesOn(t)
<1>1. CASE Prepare(t)
  BY <1>1, GotoGoesOn, Places DEF Prepare
<1>2. CASE WaitStops(t) \/ WaitIsOver(t)
  <2>1. EndWait(t) /\ UNCHANGED calling
    BY <1>2 DEF WaitStops, WaitIsOver
  <2> QED BY <2>1, GotoGoesOn, Places DEF EndWait
<1>3. CASE GetResult(t)
  BY <1>3, GotoGoesOn, Places DEF GetResult
<1>4. CASE SetUnlockData(t)
  BY <1>4, GotoGoesOn, Places DEF SetUnlockData
<1>5. CASE UpdateMessage(t)
  <2>1. CASE tileEvents[t]
    BY <1>5, <2>1, FindsGoOn DEF UpdateMessage
  <2>2. CASE ~tileEvents[t]
    BY <1>5, <2>2, CallGoesOn DEF UpdateMessage
  <2> QED BY <2>1, <2>2
<1>6. CASE UpdateCredsStatus(t)
  <2>1. CASE events
    BY <1>6, <2>1, FindsGoOn DEF UpdateCredsStatus
  <2>2. CASE ~events
    <3>1. AfterCall("notify") = "ended"
      BY DEF AfterCall
    <3> QED BY <1>6, <2>2, <3>1, CallGoesOn DEF UpdateCredsStatus
  <2> QED BY <2>1, <2>2
<1>7. CASE CallEvents(t)
  <2>1. m_ListenThread[t] \in Messages \cup {"notify"}
    BY <1>7 DEF CallEvents, ThreadsAreJoined
  <2>2. calling'[t] = "none"
    BY <1>7 DEF CallEvents, TypeOK
  <2> QED BY <1>7, <2>1, <2>2, CallGoesOn DEF CallEvents
<1> QED
  BY <1>1, <1>2, <1>3, <1>4, <1>5, <1>6, <1>7
  DEF Listener, ListenThread, GetResultWorks

LEMMA ListenerFits ==
    ASSUME TypeOK, ThreadsAreJoined, CallsFitStages, NEW t \in Tile, Listener(t)
    PROVE  m_ListenThread'[t] = "notify" => calling'[t] # "tile"
<1>1. CASE \/ Prepare(t) \/ WaitStops(t) \/ WaitIsOver(t) \/ GetResult(t)
           \/ SetUnlockData(t)
  <2>1. calling[t] = "none" /\ UNCHANGED calling
    BY <1>1 DEF Prepare, WaitStops, WaitIsOver, EndWait, GetResult, SetUnlockData,
                ThreadGoto
  <2> QED BY <2>1
<1>2. CASE UpdateMessage(t)
  BY <1>2 DEF UpdateMessage, TypeOK, Messages
<1>3. CASE UpdateCredsStatus(t)
  BY <1>3 DEF UpdateCredsStatus, TypeOK
<1>4. CASE CallEvents(t)
  BY <1>4 DEF CallEvents, TypeOK
<1> QED BY <1>1, <1>2, <1>3, <1>4 DEF Listener, ListenThread, GetResultWorks

\* The other steps leave the listeners alone, or start one or join one.
LEMMA OthersStartOrJoin ==
    ASSUME IInv, [Next]_vars, ~\E t \in Tile : Listener(t)
    PROVE  /\ UNCHANGED calling
           /\ \/ UNCHANGED m_ListenThread
              \/ /\ Join /\ stopping \in Tile
                 /\ m_ListenThread[stopping] \in {"none", "ended"}
                 /\ m_ListenThread' = [m_ListenThread EXCEPT ![stopping] = "none"]
              \/ /\ SetSelected
                 /\ \E t \in Tile :
                       /\ m_ListenThread[t] = "none" /\ m_IsRunning'[t]
                       /\ m_ListenThread' = [m_ListenThread EXCEPT ![t] = "init"]
<1>1. CASE Join
  BY <1>1 DEF Join, IInv, TypeOK
<1>2. CASE SetSelected
  <2>1. PICK t \in held : Start(t)
    BY <1>2 DEF SetSelected
  <2>2. t \in Tile /\ t # stopping
    BY <1>2, NoTileIsNoTile DEF IInv, TypeOK, SetSelected, Idle
  <2>3. ~m_IsRunning[t] => m_ListenThread[t] = "none"
    BY <2>2 DEF IInv, ThreadsAreJoined
  <2>4. ~m_IsRunning[t] => m_IsRunning'[t]
    BY <2>1, <2>2 DEF Start, IInv, TypeOK
  <2> QED BY <1>2, <2>1, <2>2, <2>3, <2>4 DEF SetSelected, Start, listenerVars
<1>3. CASE \/ Delete \/ DestroyProvider \/ CreateInstance \/ ReleaseProvider
           \/ SetUsageScenario \/ AdviseProvider \/ GetCredentialCount
           \/ GetCredentialAt
  BY <1>3 DEF Delete, DestroyProvider, CreateInstance, ReleaseProvider,
              SetUsageScenario, AdviseProvider, GetCredentialCount, GetCredentialAt,
              listenerVars
<1>4. CASE \/ ReleaseTile \/ AdviseTile \/ SetDeselected \/ SetStringValue
           \/ GetSerialization \/ ReportResult \/ UNCHANGED vars
  BY <1>4 DEF ReleaseTile, AdviseTile, SetDeselected, SetStringValue,
              GetSerialization, ReportResult, listenerVars, vars
<1> QED BY <1>1, <1>2, <1>3, <1>4 DEF Next, LogonUI, Listener

LEMMA FitStep == ASSUME FullIInv, [Next]_vars PROVE CallsFitStages'
<1> USE DEF CallsFitStages
<1>0. IInv /\ TypeOK /\ ThreadsAreJoined /\ CallsFitStages
  BY DEF FullIInv, IInv
<1>1. CASE \E t \in Tile : Listener(t)
  <2>1. PICK t \in Tile : Listener(t)
    BY <1>1
  <2>2. Advance(t)
    BY <1>0, <2>1, ListenerAdvances DEF Listener
  <2>3. \A u \in Tile \ {t} :
           calling'[u] = calling[u] /\ m_ListenThread'[u] = m_ListenThread[u]
    BY <1>0, <2>2 DEF TypeOK, Advance
  <2> QED BY <1>0, <2>1, <2>3, ListenerFits
<1>2. CASE ~\E t \in Tile : Listener(t)
  BY <1>0, <1>2, OthersStartOrJoin DEF TypeOK
<1> QED BY <1>1, <1>2

\* An approval is stored by a listener and by nobody else.
LEMMA ResultsAreStored ==
    ASSUME FullIInv, [Next]_vars, NEW t \in Tile, unlockResult'[t] = "SUCCESS"
    PROVE  unlockResult[t] = "SUCCESS" \/ SetUnlockData(t)
<1>0. TypeOK /\ References
  BY DEF FullIInv, IInv
<1>1. CASE \E u \in Tile : Listener(u)
  <2>1. PICK u \in Tile : Listener(u)
    BY <1>1
  <2>2. CASE SetUnlockData(u)
    BY <1>0, <2>2 DEF SetUnlockData, TypeOK
  <2>3. CASE ~SetUnlockData(u)
    BY <2>1, <2>3 DEF Listener, ListenThread, GetResultWorks, Prepare, WaitStops,
                      WaitIsOver, GetResult, UpdateMessage, UpdateCredsStatus,
                      CallEvents
  <2> QED BY <2>2, <2>3
<1>2. CASE Join \/ Delete
  <2>1. ASSUME NEW u \in Tile, Free(u) PROVE unlockResult[t] = "SUCCESS"
    BY <1>0, <2>1 DEF Free, TypeOK
  <2>2. CASE Join
    BY <1>0, <2>1, <2>2 DEF Join, TypeOK
  <2>3. CASE Delete
    <3>1. PICK u \in dying :
             IF m_IsRunning[u] THEN UNCHANGED <<g_cRef, tileVars, unlockResult>>
                               ELSE Free(u)
      BY <2>3 DEF Delete
    <3> QED BY <1>0, <2>1, <3>1 DEF TypeOK
  <2> QED BY <1>2, <2>2, <2>3
<1>3. CASE ReportResult
  <2>1. PICK s \in submitted : unlockResult' = [unlockResult EXCEPT ![s.tile] = "OTHER"]
    BY <1>3 DEF ReportResult
  <2> QED BY <1>0, <2>1 DEF TypeOK
<1>4. CASE \/ DestroyProvider \/ CreateInstance \/ ReleaseProvider
           \/ SetUsageScenario \/ AdviseProvider \/ GetCredentialCount
           \/ GetCredentialAt
  BY <1>4 DEF DestroyProvider, CreateInstance, ReleaseProvider,
              SetUsageScenario, AdviseProvider, GetCredentialCount, GetCredentialAt
<1>5. CASE \/ ReleaseTile \/ AdviseTile \/ SetSelected \/ SetDeselected
           \/ SetStringValue \/ GetSerialization \/ UNCHANGED vars
  BY <1>5 DEF ReleaseTile, AdviseTile, SetSelected, SetDeselected, SetStringValue,
              GetSerialization, vars
<1> QED BY <1>1, <1>2, <1>3, <1>4, <1>5 DEF Next, LogonUI, Listener

LEMMA UnapprovedStep == ASSUME FullIInv, [Next]_vars PROVE UnbornIsUnapproved'
<1>0. /\ TypeOK /\ IInv /\ UnbornIsUnapproved /\ UnbornIsIdle /\ References
      /\ IsFiniteSet(Live)
  BY DEF FullIInv, IInv, RefsAreCounted
<1>1. TypeOK'
  BY <1>0, TypeStep
<1>2. SUFFICES ASSUME NEW t \in Tile, t \notin Live', unlockResult'[t] = "SUCCESS"
               PROVE  FALSE
  BY <1>1 DEF UnbornIsUnapproved, TypeOK, Results
<1>3. CASE SetUnlockData(t)
  <2>1. Live' = Live /\ m_ListenThread[t] # "none"
    BY <1>3 DEF SetUnlockData, ThreadGoto, tileVars, Live
  <2> QED BY <1>0, <1>2, <2>1 DEF UnbornIsIdle
<1>4. CASE unlockResult[t] = "SUCCESS"
  <2>1. t \in Live
    BY <1>0, <1>4 DEF UnbornIsUnapproved
  <2>2. CASE Join \/ Delete
    <3>1. ASSUME NEW u \in Tile, Free(u) PROVE FALSE
      <4>1. Live' = Live \ {u}
        BY <1>0, <3>1, FreeKills
      <4>2. u = t
        BY <1>2, <2>1, <4>1
      <4>3. unlockResult' = [unlockResult EXCEPT ![t] = "OTHER"]
        BY <3>1, <4>2 DEF Free
      <4> QED BY <1>0, <1>2, <4>3 DEF TypeOK
    <3>2. CASE UNCHANGED initialized
      BY <1>2, <2>1, <3>2 DEF Live
    <3>3. CASE Join
      BY <1>0, <3>1, <3>2, <3>3 DEF Join, TypeOK, tileVars
    <3>4. CASE Delete
      <4>1. PICK u \in dying :
               IF m_IsRunning[u] THEN UNCHANGED <<g_cRef, tileVars, unlockResult>>
                                 ELSE Free(u)
        BY <3>4 DEF Delete
      <4> QED BY <1>0, <3>1, <3>2, <4>1 DEF TypeOK, tileVars
    <3> QED BY <2>2, <3>3, <3>4
  <2>3. CASE GetCredentialCount
    <3>1. CASE Keep
      BY <1>2, <2>1, <3>1 DEF Keep, Live
    <3>2. CASE \E tiles : Renew(tiles)
      <4>1. PICK tiles : Renew(tiles)
        BY <3>2
      <4>2. /\ Range(tiles) \subseteq Tile
            /\ cpus = "CPUS_INVALID" => Range(tiles) = {}
        BY <1>0, <4>1, EnumerationsList DEF Renew, Unborn
      <4> QED BY <1>0, <1>2, <2>1, <4>1, <4>2, CreateMakes DEF Renew
    <3> QED BY <2>3, <3>1, <3>2, CountRenewsOrKeeps
  <2>4. CASE \E u \in Tile : Listener(u)
    <3>1. PICK u \in Tile : Advance(u)
      BY <1>0, <2>4, ListenerAdvances DEF Listener, IInv
    <3> QED BY <1>2, <2>1, <3>1 DEF Advance, tileVars, Live
  <2>5. CASE \/ DestroyProvider \/ CreateInstance \/ ReleaseProvider
             \/ SetUsageScenario \/ AdviseProvider \/ GetCredentialAt
             \/ ReleaseTile \/ AdviseTile \/ SetSelected
    BY <1>2, <2>1, <2>5
    DEF DestroyProvider, CreateInstance, ReleaseProvider, SetUsageScenario,
        AdviseProvider, GetCredentialAt, ReleaseTile, AdviseTile, SetSelected,
        tileVars, Live
  <2>6. CASE \/ SetDeselected \/ SetStringValue \/ GetSerialization \/ ReportResult
             \/ UNCHANGED vars
    BY <1>2, <2>1, <2>6
    DEF SetDeselected, SetStringValue, GetSerialization, ReportResult, vars,
        tileVars, Live
  <2> QED BY <2>2, <2>3, <2>4, <2>5, <2>6 DEF Next, LogonUI, Listener
<1> QED BY <1>0, <1>2, <1>3, <1>4, ResultsAreStored DEF FullIInv

LEMMA FullInductive == Spec => []FullIInv
<1>1. Init => CallsFitStages /\ UnbornIsUnapproved
  BY DEF Init, CallsFitStages, UnbornIsUnapproved
<1>2. FullIInv /\ [Next]_vars => FullIInv'
  <2> SUFFICES ASSUME FullIInv, [Next]_vars PROVE FullIInv'
    OBVIOUS
  <2>1. IInv'
    BY TypeStep, ReferencesStep, CountStep, ThreadsStep, UnbornStep, SubmittedStep
    DEF FullIInv, IInv
  <2> QED BY <2>1, FitStep, UnapprovedStep DEF FullIInv
<1> QED BY <1>1, <1>2, Initially, PTL DEF Spec, FullIInv

\* A listener that was stopped goes on to its end, wherever Stop() has met it and
\* whatever LogonUI calls in between: with a phone that lets GetResult return,
\* Stop() waits for a number of steps and not for the network or the user.
THEOREM StoppedListenersGoOn == Spec => StoppedListenersEnd
<1>1. ASSUME FullIInv, Next, NEW t \in Tile
      PROVE  m_IsRunning[t] \/ m_IsRunning'[t] \/ GoesOn(t)
  <2>0. IInv /\ TypeOK /\ ThreadsAreJoined
    BY <1>1 DEF FullIInv, IInv
  <2>1. CASE \E u \in Tile : Listener(u)
    <3>1. PICK u \in Tile : Listener(u)
      BY <2>1
    <3>2. CASE u = t
      BY <2>0, <3>1, <3>2, ListenerGoesOn
    <3>3. CASE u # t
      <4>1. Advance(u)
        BY <2>0, <3>1, ListenerAdvances DEF Listener
      <4>2. calling'[t] = calling[t] /\ m_ListenThread'[t] = m_ListenThread[t]
        BY <2>0, <3>3, <4>1 DEF TypeOK, Advance
      <4> QED BY <4>2 DEF GoesOn
    <3> QED BY <3>2, <3>3
  <2>2. CASE ~\E u \in Tile : Listener(u)
    <3>1. UNCHANGED calling
      BY <1>1, <2>0, <2>2, OthersStartOrJoin
    <3>2. CASE m_ListenThread'[t] = m_ListenThread[t]
      BY <3>1, <3>2 DEF GoesOn
    <3>3. CASE m_ListenThread[t] = "ended" /\ m_ListenThread'[t] = "none"
      <4>1. calling[t] = "none"
        BY <2>0, <3>3 DEF ThreadsAreJoined, Messages
      <4>2. ListenerStepsLeft(t) = 2 * PlacesLeft("ended")
        <5>1. ListenerStepsLeft(t) = 2 * PlacesLeft(m_ListenThread[t]) - 0
          BY <4>1 DEF ListenerStepsLeft
        <5> QED BY <3>3, <5>1, Places
      <4>3. ListenerStepsLeft(t)' = 2 * PlacesLeft("none")
        BY <3>1, <3>3, <4>1, Places DEF ListenerStepsLeft
      <4>4. ListenerStepsLeft(t)' < ListenerStepsLeft(t)
        BY <4>2, <4>3, Places
      <4> QED BY <4>4 DEF GoesOn
    <3>4. \/ m_ListenThread'[t] = m_ListenThread[t]
          \/ m_ListenThread[t] = "ended" /\ m_ListenThread'[t] = "none"
          \/ m_IsRunning'[t]
      BY <1>1, <2>0, <2>2, OthersStartOrJoin DEF TypeOK
    <3> QED BY <3>2, <3>3, <3>4
  <2> QED BY <2>1, <2>2
<1>2. FullIInv /\ [Next]_vars =>
         [\A t \in Tile : m_IsRunning[t] \/ m_IsRunning'[t] \/ GoesOn(t)]_vars
  BY <1>1
<1> QED BY <1>2, FullInductive, PTL DEF Spec, StoppedListenersEnd

\* GetCredentialCount answers what LogonUI was told: it offers an approved tile of
\* the list, unless it makes the list anew.
LEMMA CountOffers ==
    ASSUME FullIInv, GetCredentialCount, NEW t \in Tile, t \in Listed,
           unlockResult[t] = "SUCCESS", ~recreate
    PROVE  offer' # NoTile
<1>0. credentials \in Seq(Tile)
  BY DEF FullIInv, IInv, TypeOK
<1>1. PICK i \in DOMAIN credentials : credentials[i] = t
  BY DEF Listed, Range
<1>2. Approved # {}
  BY <1>1 DEF Approved
<1>3. PICK j \in DOMAIN credentials : offer' = credentials[j]
  BY <1>2 DEF GetCredentialCount, OfferApproved, Approved
<1>4. credentials[j] \in Tile
  BY <1>0
<1> QED BY <1>3, <1>4, NoTileIsNoTile

LEMMA ListenerAnnounces ==
    ASSUME FullIInv, NEW t \in Tile, NEW u \in Tile, Listener(u),
           SetUnlockData(t) \/ Announced(t)
    PROVE  Announced(t)'
<1> USE DEF Announced
<1>0. TypeOK /\ ThreadsAreJoined /\ CallsFitStages
  BY DEF FullIInv, IInv
<1>1. UNCHANGED <<offer, submitted, events, recreate, Listed>>
  <2>1. Advance(u)
    BY <1>0, ListenerAdvances DEF Listener
  <2> QED BY <2>1 DEF Advance, providerVars, logonVars, Listed
<1>2. changed => changed'
  BY DEF Listener, ListenThread, GetResultWorks, Prepare, WaitStops, WaitIsOver,
         GetResult, SetUnlockData, UpdateMessage, UpdateCredsStatus, CallEvents
<1>3. CASE SetUnlockData(t)
  BY <1>0, <1>3 DEF SetUnlockData, ThreadGoto, TypeOK
<1>4. CASE \/ changed \/ offer # NoTile \/ submitted # {}
           \/ ~events \/ recreate \/ t \notin Listed
  BY <1>1, <1>2, <1>4
<1>5. CASE m_ListenThread[t] \in {"store", "message", "notify"}
  <2>1. CASE u # t
    <3>1. Advance(u)
      BY <1>0, ListenerAdvances DEF Listener
    <3>2. m_ListenThread'[t] = m_ListenThread[t]
      BY <1>0, <2>1, <3>1 DEF Advance, TypeOK
    <3> QED BY <1>5, <3>2
  <2>2. CASE u = t
    <3>1. CASE \/ Prepare(t) \/ WaitStops(t) \/ WaitIsOver(t) \/ GetResult(t)
      BY <1>5, <3>1 DEF Prepare, WaitStops, WaitIsOver, EndWait, GetResult, ThreadGoto
    <3>2. CASE UpdateMessage(t)
      <4>1. m_ListenThread[t] = "message"
        BY <1>5, <3>2 DEF UpdateMessage, Messages
      <4>2. AfterCall("message") = "notify"
        BY DEF AfterCall
      <4> QED BY <1>0, <3>2, <4>1, <4>2 DEF UpdateMessage, TypeOK
    <3>3. CASE UpdateCredsStatus(t)
      <4>1. CASE events
        BY <1>5, <3>3, <4>1 DEF UpdateCredsStatus
      <4>2. CASE ~events
        BY <1>1, <4>2
      <4> QED BY <4>1, <4>2
    <3>4. CASE CallEvents(t)
      <4>1. m_ListenThread[t] \in {"message", "notify"}
        BY <1>0, <1>5, <3>4 DEF CallEvents, ThreadsAreJoined, Messages
      <4>2. CASE m_ListenThread[t] = "message"
        <5>1. AfterCall("message") = "notify"
          BY DEF AfterCall
        <5> QED BY <1>0, <3>4, <4>2, <5>1 DEF CallEvents, TypeOK
      <4>3. CASE m_ListenThread[t] = "notify"
        <5>1. calling[t] = "provider"
          BY <1>0, <3>4, <4>3 DEF CallEvents, CallsFitStages, TypeOK
        <5> QED BY <3>4, <5>1 DEF CallEvents
      <4> QED BY <4>1, <4>2, <4>3
    <3> QED BY <1>3, <2>2, <3>1, <3>2, <3>3, <3>4 DEF Listener, ListenThread, GetResultWorks
  <2> QED BY <2>1, <2>2
<1> QED BY <1>3, <1>4, <1>5

LEMMA LogonUIListens ==
    ASSUME FullIInv, [Next]_vars, ~\E u \in Tile : Listener(u), NEW t \in Tile,
           unlockResult[t] = "SUCCESS", unlockResult'[t] = "SUCCESS", Announced(t),
           ~GetSerialization, ~ReportResult
    PROVE  Announced(t)'
<1> USE DEF Announced
<1>0. TypeOK /\ IInv /\ UnbornIsUnapproved /\ IsFiniteSet(Live)
  BY DEF FullIInv, IInv, RefsAreCounted
<1>1. m_ListenThread[t] \in {"store", "message", "notify"} =>
         m_ListenThread'[t] = m_ListenThread[t]
  BY <1>0, OthersStartOrJoin DEF TypeOK
<1>2. CASE UNCHANGED <<changed, offer, submitted, events, recreate, credentials>>
  BY <1>1, <1>2 DEF Listed
<1>3. CASE GetCredentialCount
  <2>1. CASE recreate
    <3>1. PICK tiles \in Enumerations : credentials' = tiles
      BY <1>3, <2>1 DEF GetCredentialCount
    <3>2. Range(tiles) \subseteq Unborn
      BY <1>0, EnumerationsList
    <3>3. t \notin Unborn
      BY <1>0 DEF UnbornIsUnapproved, Live, Unborn
    <3> QED BY <3>1, <3>2, <3>3 DEF Listed
  <2>2. CASE ~recreate /\ t \in Listed
    BY <1>3, <2>2, CountOffers
  <2>3. CASE ~recreate /\ t \notin Listed
    BY <1>3, <2>3 DEF GetCredentialCount, Listed
  <2> QED BY <2>1, <2>2, <2>3
<1>4. CASE AdviseProvider
  BY <1>1, <1>4 DEF AdviseProvider, logonVars, Listed
<1>5. CASE SetSelected
  <2>1. /\ UNCHANGED <<changed, submitted, events, recreate, credentials>>
        /\ offer' = offer \/ \E u \in held : offer' = u
    BY <1>5 DEF SetSelected, providerVars
  <2>2. NoTile \notin held
    BY <1>0, NoTileIsNoTile DEF TypeOK
  <2> QED BY <1>1, <2>1, <2>2 DEF Listed
<1>6. CASE CreateInstance \/ SetUsageScenario
  BY <1>6 DEF CreateInstance, SetUsageScenario
<1>7. CASE ReleaseProvider
  BY <1>7 DEF ReleaseProvider
<1>8. CASE \/ Join \/ Delete \/ DestroyProvider \/ GetCredentialAt \/ ReleaseTile
           \/ AdviseTile \/ SetDeselected \/ SetStringValue \/ UNCHANGED vars
  BY <1>2, <1>8 DEF Join, Delete, DestroyProvider, GetCredentialAt, ReleaseTile,
                    AdviseTile, SetDeselected, SetStringValue, vars, providerVars,
                    logonVars
<1> QED
  BY <1>3, <1>4, <1>5, <1>6, <1>7, <1>8 DEF Next, LogonUI, Listener

\* From the phone to LogonUI no approval is lost: of all the calls and steps only
\* a logon may take it away.
THEOREM ApprovalsAreAnnounced == Spec => ApprovalIsAnnounced
<1> DEFINE Kept(t) ==
      unlockResult'[t] = "SUCCESS" /\ (unlockResult[t] = "SUCCESS" => Announced(t))
          => Announced(t)' \/ GetSerialization \/ ReportResult
<1>1. ASSUME FullIInv, Next, NEW t \in Tile PROVE Kept(t)
  <2>1. SUFFICES ASSUME unlockResult'[t] = "SUCCESS",
                        unlockResult[t] = "SUCCESS" => Announced(t),
                        ~GetSerialization, ~ReportResult
                 PROVE  Announced(t)'
    OBVIOUS
  <2>2. unlockResult[t] = "SUCCESS" \/ SetUnlockData(t)
    BY <1>1, <2>1, ResultsAreStored
  <2>3. CASE \E u \in Tile : Listener(u)
    BY <1>1, <2>1, <2>2, <2>3, ListenerAnnounces
  <2>4. CASE ~\E u \in Tile : Listener(u)
    <3>1. ~SetUnlockData(t)
      BY <2>4 DEF Listener, ListenThread
    <3> QED BY <1>1, <2>1, <2>2, <2>4, <3>1, LogonUIListens
  <2> QED BY <2>3, <2>4
<1>2. FullIInv /\ [Next]_vars => [\A t \in Tile : Kept(t)]_vars
  BY <1>1
<1> QED BY <1>2, FullInductive, PTL DEF Spec, ApprovalIsAnnounced
=============================================================================
