------------------------- MODULE CredentialProvider -------------------------
(* The Windows credential provider (win-pcbiounlock/src): CSampleProvider,   *)
(* its tiles (CUnlockCredential), the listener of each tile (CUnlockListener)*)
(* and the count of references that keeps their DLL loaded (Dll.cpp).        *)
(*                                                                           *)
(* LogonUI makes the provider and calls it and its tiles, one call at a time.*)
(* A selected tile runs ListenThread, which asks the phones                  *)
(* (UnlockHandler::GetResult), leaves the result in the tile without a lock  *)
(* and tells LogonUI that the tiles have changed.  A tile lives as long as   *)
(* the provider lists it or LogonUI holds it.                                *)
EXTENDS Naturals, FiniteSets, Sequences, Functions, LogonBuffer

CONSTANTS Tile,            \* the memory of the CUnlockCredentials alive at once
          NoTile,
          PerUser,         \* the tiles of an enumeration: the users' devices
          Users,           \* whom LogonUI shows
          UsageScenarios,  \* what LogonUI asks tiles for
          TypedPasswords,  \* what a user may type
          PhonePassword    \* the one the phone answers with

ASSUME ProviderAssumption ==
    /\ {NoTile, "failed"} \cap Tile = {}
    /\ NoTile \notin [user : Users, cpus : UsageScenarios]
    /\ PerUser \in Nat

\* Windows gives a user as domain\name, and what is typed is no encrypted text.
ASSUME UserAssumption ==
    /\ Users \subseteq [domain : Seq(STRING), name : Seq(STRING),
                        isLocal : BOOLEAN]
    /\ \A u \in Users : \A i \in DOMAIN u.domain : u.domain[i] # Whack
    /\ TypedPasswords \cup {PhonePassword} \subseteq Seq(STRING)
    /\ <<>> \notin TypedPasswords
    /\ \A p \in TypedPasswords \cup {PhonePassword} : ~CredIsProtected(p)
    /\ UsageScenarios \subseteq
          {"CPUS_LOGON", "CPUS_UNLOCK_WORKSTATION", "CPUS_CREDUI"}

VARIABLES provider,       \* "none", "alive", or "leaving": in its destructor
          g_cRef,         \* the references that keep the DLL loaded
          cpus,           \* _cpus
          recreate,       \* _fRecreateEnumeratedCredentials
          credentials,    \* _pCredentials
          events,         \* _pCredProvEvents # NULL
          held,           \* the tiles LogonUI holds a reference to
          dying,          \* the tiles the call under way has still to delete
          stopping,       \* the tile whose Stop() the call under way is in
          initialized,    \* what a tile was initialized with, NoTile if there
                          \* is no tile
          isSelected,     \* _isSelected
          tileEvents,     \* _pCredProvCredentialEvents # nullptr
          typed,          \* _rgFieldStrings[SFI_PASSWORD]
          unlockResult,   \* _unlockResult.state
          m_IsRunning,    \* of the tile's listener
          m_ListenThread, \* where its thread is: "none" if not joinable
          calling,        \* the interface its thread has found and will call
          changed,        \* LogonUI has to ask for the tiles again: it has
                          \* been advised, or CredentialsChanged was called
          offer,          \* the tile LogonUI was told to log on with, NoTile,
                          \* or "failed" if it could not be serialized
          submitted       \* the logon under way, or {}: its tile, where its
                          \* password is from, the password and the buffer

providerVars == <<provider, g_cRef, cpus, recreate, credentials, events>>
lifeVars == <<held, dying, stopping>>
tileVars == <<initialized, isSelected, tileEvents, typed>>
listenerVars == <<m_IsRunning, m_ListenThread>>
logonVars == <<offer, submitted>>
vars == <<providerVars, lifeVars, tileVars, unlockResult, listenerVars, calling,
          changed, logonVars>>

\* Of the verdicts only success matters; UNKNOWN, too, is one of the others.
Results == {"SUCCESS", "OTHER"}

Waiting == {"network", "key"}
Messages == {"init", "invalidUser", "networkMessage", "keyMessage", "getResult",
             "message"}
Running == Messages \cup Waiting \cup {"prepare", "store", "notify"}

\* Where ListenThread goes on after a message, or after the provider's callback.
AfterCall(stage) == CASE stage = "init"           -> "prepare"
                      [] stage = "invalidUser"    -> "ended"
                      [] stage = "networkMessage" -> "network"
                      [] stage = "keyMessage"     -> "key"
                      [] stage = "getResult"      -> "getResult"
                      [] stage = "message"        -> "notify"
                      [] stage = "notify"         -> "ended"

Listed == Range(credentials)
Unborn == {t \in Tile : initialized[t] = NoTile}

TypeOK ==
    /\ provider \in {"none", "alive", "leaving"}
    /\ g_cRef \in Nat
    /\ cpus \in UsageScenarios \cup {"CPUS_INVALID"}
    /\ recreate \in BOOLEAN
    /\ credentials \in Seq(Tile) /\ Len(credentials) <= PerUser
    /\ events \in BOOLEAN
    /\ held \subseteq Tile /\ dying \subseteq Tile
    /\ stopping \in Tile \cup {NoTile}
    /\ initialized \in
          [Tile -> [user : Users, cpus : UsageScenarios] \cup {NoTile}]
    /\ isSelected \in [Tile -> BOOLEAN]
    /\ tileEvents \in [Tile -> BOOLEAN]
    /\ typed \in [Tile -> TypedPasswords \cup {<<>>}]
    /\ unlockResult \in [Tile -> Results]
    /\ m_IsRunning \in [Tile -> BOOLEAN]
    /\ m_ListenThread \in [Tile -> Running \cup {"none", "ended"}]
    /\ calling \in [Tile -> {"none", "tile", "provider"}]
    /\ changed \in BOOLEAN
    /\ offer \in Tile \cup {NoTile, "failed"}
    /\ \A s \in submitted :
          /\ s.tile \in Tile
          /\ s.source \in {"typed", "phone"}
          /\ s.password \in TypedPasswords \cup {PhonePassword}
    /\ \A r, s \in submitted : r = s

Init ==
    /\ provider = "none"
    /\ g_cRef = 0
    /\ cpus = "CPUS_INVALID"
    /\ recreate = TRUE
    /\ credentials = <<>>
    /\ events = FALSE
    /\ held = {} /\ dying = {}
    /\ stopping = NoTile
    /\ initialized = [t \in Tile |-> NoTile]
    /\ isSelected = [t \in Tile |-> FALSE]
    /\ tileEvents = [t \in Tile |-> FALSE]
    /\ typed = [t \in Tile |-> <<>>]
    /\ unlockResult = [t \in Tile |-> "OTHER"]
    /\ m_IsRunning = [t \in Tile |-> FALSE]
    /\ m_ListenThread = [t \in Tile |-> "none"]
    /\ calling = [t \in Tile |-> "none"]
    /\ changed = FALSE
    /\ offer = NoTile
    /\ submitted = {}

-----------------------------------------------------------------------------
(* ListenThread.                                                             *)

ThreadGoto(t, from, to) ==
    /\ m_ListenThread[t] = from
    /\ calling[t] = "none"
    /\ m_ListenThread' = [m_ListenThread EXCEPT ![t] = to]

MayWait(t) == initialized[t].cpus \in {"CPUS_LOGON", "CPUS_UNLOCK_WORKSTATION"}

\* Only a user of the form domain\name is asked for, and only a logon or an
\* unlock waits: for the network if a device needs it, for a key if the settings
\* say so.
Prepare(t) ==
    /\ \/ \E next \in {"invalidUser", "getResult"} : ThreadGoto(t, "prepare", next)
       \/ /\ \E next \in {"networkMessage", "keyMessage"} :
                ThreadGoto(t, "prepare", next)
          /\ MayWait(t)
    /\ UNCHANGED <<providerVars, lifeVars, tileVars, unlockResult, m_IsRunning,
                   calling, changed, logonVars>>

EndWait(t) ==
    \/ \E next \in {"keyMessage", "getResult"} : ThreadGoto(t, "network", next)
    \/ ThreadGoto(t, "key", "getResult")

\* A slip: the wait for a key does not look at m_IsRunning.
WaitStopsNetworkOnly(t) ==
    /\ ~m_IsRunning[t]
    /\ \E next \in {"keyMessage", "getResult"} : ThreadGoto(t, "network", next)
    /\ UNCHANGED <<providerVars, lifeVars, tileVars, unlockResult, m_IsRunning,
                   calling, changed, logonVars>>

\* while (m_IsRunning): a wait ends when the listener is stopped ...
WaitStops(t) ==
    /\ ~m_IsRunning[t]
    /\ EndWait(t)
    /\ UNCHANGED <<providerVars, lifeVars, tileVars, unlockResult, m_IsRunning,
                   calling, changed, logonVars>>

\* ... or when the network is up or a key is pressed.
WaitIsOver(t) ==
    /\ m_IsRunning[t]
    /\ EndWait(t)
    /\ UNCHANGED <<providerVars, lifeVars, tileVars, unlockResult, m_IsRunning,
                   calling, changed, logonVars>>

\* A slip: a request that was cancelled is made again.
GetResultRetries(t) ==
    /\ \E next \in {"store", "prepare"} : ThreadGoto(t, "getResult", next)
    /\ UNCHANGED <<providerVars, lifeVars, tileVars, unlockResult, m_IsRunning,
                   calling, changed, logonVars>>

\* GetResult returns: it may have had its success just before it was cancelled.
GetResult(t) ==
    /\ ThreadGoto(t, "getResult", "store")
    /\ UNCHANGED <<providerVars, lifeVars, tileVars, unlockResult, m_IsRunning,
                   calling, changed, logonVars>>

\* A slip: the provider is told before the tile has the result.
SetUnlockDataLast(t) ==
    /\ \/ ThreadGoto(t, "store", "notify") /\ UNCHANGED unlockResult
       \/ /\ ThreadGoto(t, "ended", "ended") /\ unlockResult[t] = "OTHER"
          /\ unlockResult' = [unlockResult EXCEPT ![t] = "SUCCESS"]
    /\ UNCHANGED <<providerVars, lifeVars, tileVars, m_IsRunning, calling,
                   changed, logonVars>>

\* SetUnlockData: the result first, then its message.
SetUnlockData(t) ==
    /\ ThreadGoto(t, "store", "message")
    /\ \E result \in Results :
          unlockResult' = [unlockResult EXCEPT ![t] = result]
    /\ UNCHANGED <<providerVars, lifeVars, tileVars, m_IsRunning, calling,
                   changed, logonVars>>

\* UpdateMessage, at the start, before each wait, while GetResult reports and
\* with the result: the test of the tile's callback and the call of it are two
\* steps.
UpdateMessage(t) ==
    /\ m_ListenThread[t] \in Messages
    /\ calling[t] = "none"
    /\ IF tileEvents[t]
         THEN /\ calling' = [calling EXCEPT ![t] = "tile"]
              /\ UNCHANGED m_ListenThread
         ELSE /\ m_ListenThread' = [m_ListenThread EXCEPT ![t] = AfterCall(@)]
              /\ UNCHANGED calling
    /\ UNCHANGED <<providerVars, lifeVars, tileVars, unlockResult, m_IsRunning,
                   changed, logonVars>>

\* UpdateCredsStatus, likewise in two steps; without a callback it only logs.
UpdateCredsStatus(t) ==
    /\ m_ListenThread[t] = "notify"
    /\ calling[t] = "none"
    /\ IF events
         THEN /\ calling' = [calling EXCEPT ![t] = "provider"]
              /\ UNCHANGED m_ListenThread
         ELSE /\ m_ListenThread' = [m_ListenThread EXCEPT ![t] = "ended"]
              /\ UNCHANGED calling
    /\ UNCHANGED <<providerVars, lifeVars, tileVars, unlockResult, m_IsRunning,
                   changed, logonVars>>

\* A slip: the thread lowers its flag when it is done.
CallEventsLowering(t) ==
    /\ calling[t] # "none"
    /\ calling' = [calling EXCEPT ![t] = "none"]
    /\ m_ListenThread' = [m_ListenThread EXCEPT ![t] = AfterCall(@)]
    /\ changed' = (changed \/ calling[t] = "provider")
    /\ m_IsRunning' = [m_IsRunning EXCEPT ![t] = @ /\ calling[t] # "provider"]
    /\ UNCHANGED <<providerVars, lifeVars, tileVars, unlockResult, logonVars>>

\* The call itself, of the interface found before.
CallEvents(t) ==
    /\ calling[t] # "none"
    /\ calling' = [calling EXCEPT ![t] = "none"]
    /\ m_ListenThread' = [m_ListenThread EXCEPT ![t] = AfterCall(@)]
    /\ changed' = (changed \/ calling[t] = "provider")
    /\ UNCHANGED <<providerVars, lifeVars, tileVars, unlockResult, m_IsRunning,
                   logonVars>>

\* What the thread does by itself; GetResult reports and returns when it likes.
ListenThread(t) ==
    \/ Prepare(t) \/ WaitStops(t) \/ SetUnlockData(t)
    \/ m_ListenThread[t] # "getResult" /\ UpdateMessage(t)
    \/ UpdateCredsStatus(t)
    \/ m_ListenThread[t] # "getResult" /\ CallEvents(t)

GetResultWorks(t) ==
    m_ListenThread[t] = "getResult" /\ (UpdateMessage(t) \/ CallEvents(t))

-----------------------------------------------------------------------------
(* LogonUI's calls: of the provider and its tiles when no other call is under *)
(* way.                                                                      *)

Idle == provider = "alive" /\ dying = {} /\ stopping = NoTile

\* CSample_CreateInstance: a provider counts for the DLL as long as it lives.
CreateInstance ==
    /\ provider = "none"
    /\ provider' = "alive"
    /\ g_cRef' = g_cRef + 1
    /\ cpus' = "CPUS_INVALID"
    /\ recreate' = TRUE
    /\ UNCHANGED <<credentials, events, lifeVars, tileVars, unlockResult,
                   listenerVars, calling, changed, logonVars>>

\* The last Release: the provider's destructor releases the listed tiles.
\* LogonUI has given back the tiles, which point to their provider without a
\* reference, and its own callback before.
ReleaseProvider ==
    /\ Idle
    /\ held = {} /\ ~events
    /\ provider' = "leaving"
    /\ dying' = Listed
    /\ credentials' = <<>>
    /\ offer' = NoTile
    /\ changed' = FALSE
    /\ UNCHANGED <<g_cRef, cpus, recreate, events, held, stopping, tileVars,
                   unlockResult, listenerVars, calling, submitted>>

DestroyProvider ==
    /\ provider = "leaving" /\ dying = {} /\ stopping = NoTile
    /\ provider' = "none"
    /\ g_cRef' = g_cRef - 1
    /\ UNCHANGED <<cpus, recreate, credentials, events, lifeVars, tileVars,
                   unlockResult, listenerVars, calling, changed, logonVars>>

\* CUnlockListener::Start and Stop; Stop joins in a later step.
Start(t) ==
    IF m_IsRunning[t]
      THEN UNCHANGED listenerVars
      ELSE /\ m_IsRunning' = [m_IsRunning EXCEPT ![t] = TRUE]
           /\ m_ListenThread' = [m_ListenThread EXCEPT ![t] = "init"]

Stop(t) ==
    IF m_IsRunning[t]
      THEN /\ m_IsRunning' = [m_IsRunning EXCEPT ![t] = FALSE]
           /\ stopping' = t
      ELSE UNCHANGED <<m_IsRunning, stopping>>

\* A slip: the destructor does not count down.
FreeUncounted(t) ==
    /\ initialized' = [initialized EXCEPT ![t] = NoTile]
    /\ isSelected' = [isSelected EXCEPT ![t] = FALSE]
    /\ tileEvents' = [tileEvents EXCEPT ![t] = FALSE]
    /\ typed' = [typed EXCEPT ![t] = <<>>]
    /\ unlockResult' = [unlockResult EXCEPT ![t] = "OTHER"]
    /\ UNCHANGED g_cRef

\* The end of ~CUnlockCredential.  (The next tile in this memory starts with
\* what its constructor puts there.)
Free(t) ==
    /\ initialized' = [initialized EXCEPT ![t] = NoTile]
    /\ isSelected' = [isSelected EXCEPT ![t] = FALSE]
    /\ tileEvents' = [tileEvents EXCEPT ![t] = FALSE]
    /\ typed' = [typed EXCEPT ![t] = <<>>]
    /\ unlockResult' = [unlockResult EXCEPT ![t] = "OTHER"]
    /\ g_cRef' = g_cRef - 1

\* The thread is joined, and if a destructor has waited for it, it goes on.
Join ==
    /\ stopping # NoTile
    /\ m_ListenThread[stopping] \in {"none", "ended"}
    /\ m_ListenThread' = [m_ListenThread EXCEPT ![stopping] = "none"]
    /\ stopping' = NoTile
    /\ IF stopping \in held \cup Listed
         THEN UNCHANGED <<g_cRef, tileVars, unlockResult>>
         ELSE Free(stopping)
    /\ UNCHANGED <<provider, cpus, recreate, credentials, events, held, dying,
                   m_IsRunning, calling, changed, logonVars>>

\* A slip: the destructor does not stop the listener.
DeleteWithoutStop ==
    /\ stopping = NoTile
    /\ \E t \in dying :
          /\ dying' = dying \ {t}
          /\ Free(t)
    /\ UNCHANGED <<provider, cpus, recreate, credentials, events, held, stopping,
                   listenerVars, calling, changed, logonVars>>

\* ~CUnlockCredential, once nobody refers to the tile.
Delete ==
    /\ stopping = NoTile
    /\ \E t \in dying :
          /\ dying' = dying \ {t}
          /\ Stop(t)
          /\ IF m_IsRunning[t]
               THEN UNCHANGED <<g_cRef, tileVars, unlockResult>>
               ELSE Free(t)
    /\ UNCHANGED <<provider, cpus, recreate, credentials, events, held,
                   m_ListenThread, calling, changed, logonVars>>

\* SetUsageScenario (with SetUserArray): the tiles are to be made anew.  LogonUI
\* asks for them before it gives another scenario.
SetUsageScenario ==
    /\ Idle
    /\ recreate => cpus = "CPUS_INVALID"
    /\ cpus' \in UsageScenarios
    /\ recreate' = TRUE
    /\ UNCHANGED <<provider, g_cRef, credentials, events, lifeVars, tileVars,
                   unlockResult, listenerVars, calling, changed, logonVars>>

\* CSampleProvider::Advise and UnAdvise.
AdviseProvider ==
    /\ Idle
    /\ events' = ~events
    /\ changed' = (changed \/ ~events)
    /\ UNCHANGED <<provider, g_cRef, cpus, recreate, credentials, lifeVars,
                   tileVars, unlockResult, listenerVars, calling, logonVars>>

\* GetCredentialCount makes the tiles anew if it must, releasing the old ones,
\* and names the last one with a success for an automatic logon.
Approved == {i \in DOMAIN credentials : unlockResult[credentials[i]] = "SUCCESS"}

OfferApproved ==
    \/ Approved = {} /\ offer' = NoTile
    \/ \E i \in Approved :
          /\ \A j \in Approved : j <= i
          /\ offer' = credentials[i]

\* A tile for each device of the users, unless one cannot be made; none before
\* SetUsageScenario.  Each counts for the DLL.
Enumerations ==
    IF cpus = "CPUS_INVALID"
      THEN {<<>>}
      ELSE {tiles \in UNION {[1 .. n -> Unborn] : n \in 0 .. PerUser} :
               IsInjective(tiles)}

CreateTiles(tiles) ==
    /\ \E user \in [Range(tiles) -> Users] :
          initialized' = [t \in Tile |->
                             IF t \in Range(tiles)
                               THEN [user |-> user[t], cpus |-> cpus]
                               ELSE initialized[t]]
    /\ g_cRef' = g_cRef + Len(tiles)

\* A slip: the list of the released tiles is not cleared.
GetCredentialCountAppending ==
    /\ Idle
    /\ changed' = FALSE
    /\ recreate' = FALSE
    /\ \/ /\ recreate
          /\ dying' = Listed \ held
          /\ \E tiles \in Enumerations :
                CreateTiles(tiles) /\ credentials' = credentials \o tiles
          /\ offer' = NoTile
       \/ /\ ~recreate
          /\ OfferApproved
          /\ UNCHANGED <<g_cRef, initialized, credentials, dying>>
    /\ UNCHANGED <<provider, cpus, events, held, stopping, isSelected, tileEvents,
                   typed, unlockResult, listenerVars, calling, submitted>>

GetCredentialCount ==
    /\ Idle
    /\ changed' = FALSE
    /\ recreate' = FALSE
    /\ \/ /\ recreate
          /\ dying' = Listed \ held
          /\ \E tiles \in Enumerations : CreateTiles(tiles) /\ credentials' = tiles
          /\ offer' = NoTile
       \/ /\ ~recreate
          /\ OfferApproved
          /\ UNCHANGED <<g_cRef, initialized, credentials, dying>>
    /\ UNCHANGED <<provider, cpus, events, held, stopping, isSelected, tileEvents,
                   typed, unlockResult, listenerVars, calling, submitted>>

\* GetCredentialAt hands out a reference, which LogonUI gives back.
GetCredentialAt ==
    /\ Idle
    /\ \E t \in Listed \ held : held' = held \cup {t}
    /\ UNCHANGED <<providerVars, dying, stopping, tileVars, unlockResult,
                   listenerVars, calling, changed, logonVars>>

ReleaseTile ==
    /\ Idle
    /\ \E t \in held :
          /\ ~tileEvents[t]
          /\ \A s \in submitted : s.tile # t
          /\ held' = held \ {t}
          /\ dying' = {t} \ Listed
    /\ UNCHANGED <<providerVars, stopping, tileVars, unlockResult,
                   listenerVars, calling, changed, logonVars>>

\* CUnlockCredential::Advise and UnAdvise.
AdviseTile ==
    /\ Idle
    /\ \E t \in held : tileEvents' = [tileEvents EXCEPT ![t] = ~@]
    /\ UNCHANGED <<providerVars, lifeVars, initialized, isSelected, typed,
                   unlockResult, listenerVars, calling, changed, logonVars>>

\* SetSelected starts the listener; an earlier success means an automatic logon.
SetSelected ==
    /\ Idle
    /\ \E t \in held :
          /\ tileEvents[t]
          /\ \A u \in held \ {t} : ~isSelected[u]
          /\ isSelected' = [isSelected EXCEPT ![t] = TRUE]
          /\ Start(t)
          /\ offer' = IF unlockResult[t] = "SUCCESS" THEN t ELSE offer
    /\ UNCHANGED <<providerVars, lifeVars, initialized, tileEvents, typed, unlockResult,
                   calling, changed, submitted>>

\* SetDeselected stops it and empties the password field.
SetDeselected ==
    /\ Idle
    /\ \E t \in held :
          /\ isSelected[t]
          /\ isSelected' = [isSelected EXCEPT ![t] = FALSE]
          /\ Stop(t)
          /\ typed' = [typed EXCEPT ![t] = <<>>]
    /\ UNCHANGED <<providerVars, held, dying, initialized, tileEvents, unlockResult,
                   m_ListenThread, calling, changed, logonVars>>

\* SetStringValue, at a keystroke.
SetStringValue ==
    /\ Idle
    /\ \E t \in held, password \in TypedPasswords \cup {<<>>} :
          isSelected[t] /\ typed' = [typed EXCEPT ![t] = password]
    /\ UNCHANGED <<providerVars, lifeVars, initialized, isSelected, tileEvents, unlockResult,
                   listenerVars, calling, changed, logonVars>>

\* The password of a logon: the typed one if there is one, else the phone's.
Passwords(t) ==
    IF typed[t] # <<>> THEN {[source |-> "typed", password |-> typed[t]]}
    ELSE IF unlockResult[t] = "SUCCESS"
           THEN {[source |-> "phone", password |-> PhonePassword]}
           ELSE {}

QualifiedName(user) == user.domain \o <<Whack>> \o user.name

\* For other users CredPackAuthenticationBufferW packs the buffer.
Serialize(tile, password) ==
    IF tile.user.isLocal
      THEN SerializeLocal(QualifiedName(tile.user), password, tile.cpus)
      ELSE {[user |-> QualifiedName(tile.user), password |-> password]}

\* GetSerialization, by the user or because of an offer.  It fails without a
\* password (E_ABORT), and it may fail whenever memory, the encryption or the
\* LSA does.
GetSerialization ==
    /\ Idle
    /\ submitted = {}
    /\ \E t \in held :
          /\ isSelected[t] \/ offer = t
          /\ \/ Passwords(t) = {} /\ offer' = NoTile /\ UNCHANGED submitted
             \/ Passwords(t) # {} /\ offer' = "failed" /\ UNCHANGED submitted
             \/ /\ offer' = NoTile
                /\ \E pwd \in Passwords(t) :
                   \E buffer \in Serialize(initialized[t], pwd.password) :
                      submitted' = {[tile |-> t, source |-> pwd.source,
                                     password |-> pwd.password, buffer |-> buffer]}
    /\ UNCHANGED <<providerVars, lifeVars, tileVars, unlockResult, listenerVars,
                   calling, changed>>

\* A slip: the phone's success stays.
ReportResultKeepsUnlock ==
    /\ Idle
    /\ \E s \in submitted : submitted' = submitted \ {s}
    /\ UNCHANGED <<providerVars, lifeVars, tileVars, unlockResult, listenerVars,
                   calling, changed, offer>>

\* ReportResult forgets the phone's result, whichever password was tried.
ReportResult ==
    /\ Idle
    /\ \E s \in submitted :
          /\ submitted' = submitted \ {s}
          /\ unlockResult' = [unlockResult EXCEPT ![s.tile] = "OTHER"]
    /\ UNCHANGED <<providerVars, lifeVars, tileVars, listenerVars, calling,
                   changed, offer>>

LogonUI ==
    \/ CreateInstance \/ ReleaseProvider \/ SetUsageScenario \/ AdviseProvider \/ GetCredentialCount
    \/ GetCredentialAt \/ ReleaseTile \/ AdviseTile
    \/ SetSelected \/ SetDeselected \/ SetStringValue
    \/ GetSerialization \/ ReportResult

Next ==
    \/ LogonUI \/ Join \/ Delete \/ DestroyProvider
    \/ \E t \in Tile :
          ListenThread(t) \/ WaitIsOver(t) \/ GetResult(t) \/ GetResultWorks(t)

Spec == Init /\ [][Next]_vars

\* A call that LogonUI has made runs on, the listeners run, and LogonUI asks
\* for the tiles again when it was told that they have changed.
FairSpec ==
    /\ Spec
    /\ WF_vars(Join) /\ WF_vars(Delete) /\ WF_vars(DestroyProvider)
    /\ \A t \in Tile : WF_vars(ListenThread(t))
    /\ SF_vars(changed /\ GetCredentialCount)

-----------------------------------------------------------------------------
(* Properties.                                                               *)

\* Between calls a tile has a thread to join exactly while its flag is up, and
\* the selected tile has one: Start() never overwrites a thread that was not
\* joined, which would end the process, and the user never waits for a listener
\* that was not started.
ListenerFollowsSelection ==
    \A t \in Tile \ {stopping} :
        /\ m_IsRunning[t] <=> m_ListenThread[t] # "none"
        /\ isSelected[t] /\ t \notin dying => m_IsRunning[t]

\* Memory that is no tile has no thread that still uses it.
NoThreadOutlivesItsTile ==
    \A t \in Unborn :
        ~m_IsRunning[t] /\ m_ListenThread[t] = "none" /\ calling[t] = "none"

\* DllCanUnloadNow returns S_OK exactly when there is neither a provider nor a
\* tile nor a listener whose code would go with the DLL.
DllCanUnloadNow == ~(g_cRef > 0)

DllUnloadsWhenUnused ==
    DllCanUnloadNow <=>
        /\ provider = "none"
        /\ \A t \in Tile : initialized[t] = NoTile /\ m_ListenThread[t] = "none"

\* A logon of a local user reaches the LSA as the domain, the name and the
\* password it was made of: the lengths and offsets in the buffer lead to them
\* and stay inside it.  "The password is stored in encrypted form for CPUS_LOGON
\* and CPUS_UNLOCK_WORKSTATION" and "not encrypted in CPUS_CREDUI"
\* (helpers.cpp:168-170).
LsaReadsTheLogon ==
    \A s \in submitted :
        LET tile == initialized[s.tile]
        IN  tile.user.isLocal =>
                /\ IsPacked(s.buffer)
                /\ Unpacked(s.buffer, "LogonDomainName") = Bytes(tile.user.domain)
                /\ Unpacked(s.buffer, "UserName") = Bytes(tile.user.name)
                /\ Unpacked(s.buffer, "Password") =
                     IF tile.cpus = "CPUS_CREDUI" \/ s.password = <<>>
                       THEN Bytes(s.password)
                       ELSE Bytes(CredProtect(s.password))
                /\ s.buffer.MessageType =
                     CASE tile.cpus = "CPUS_LOGON" -> "KerbInteractiveLogon"
                       [] tile.cpus = "CPUS_UNLOCK_WORKSTATION" ->
                             "KerbWorkstationUnlockLogon"
                       [] tile.cpus = "CPUS_CREDUI" -> "none"

\* How many steps a listener has left at most, but for the messages of GetResult;
\* a message is two.
PlacesLeft(stage) ==
    CASE stage = "none"           -> 0  [] stage = "ended"      -> 1
      [] stage \in {"notify", "invalidUser"} -> 2
      [] stage = "message"        -> 3  [] stage = "store"      -> 4
      [] stage = "getResult"      -> 5  [] stage = "key"        -> 6
      [] stage = "keyMessage"     -> 7  [] stage = "network"    -> 8
      [] stage = "networkMessage" -> 9  [] stage = "prepare"    -> 10
      [] OTHER                    -> 11

ListenerStepsLeft(t) ==
    2 * PlacesLeft(m_ListenThread[t]) - (IF calling[t] = "none" THEN 0 ELSE 1)

\* A listener that was told to stop does not go back, to ask the phones again or
\* to wait again for the network or a key: wherever Stop() has met it, its steps
\* bring it nearer to its end, save for the messages of GetResult.
GoesOn(t) ==
    \/ UNCHANGED <<m_ListenThread[t], calling[t]>>
    \/ ListenerStepsLeft(t)' < ListenerStepsLeft(t)
    \/ m_ListenThread[t] = "getResult" /\ m_ListenThread'[t] = "getResult"

StoppedListenersEnd ==
    [][\A t \in Tile : m_IsRunning[t] \/ m_IsRunning'[t] \/ GoesOn(t)]_vars

\* LogonUI learns of an answer: the listener is about to tell, LogonUI was told
\* and has yet to ask for the tiles, a logon is offered or tried; or there is
\* nobody to tell, or the tile is not one that would be offered.
Announced(t) ==
    \/ m_ListenThread[t] \in {"store", "message", "notify"}
    \/ changed \/ offer # NoTile \/ submitted # {}
    \/ ~events \/ recreate \/ t \notin Listed

\* No approval is lost on its way from the phone to LogonUI, however its calls
\* come between the listener's steps: only a logon (of this tile or of another)
\* may take the offer away.
ApprovalIsAnnounced ==
    [][\A t \in Tile :
          unlockResult'[t] = "SUCCESS" /\ (unlockResult[t] = "SUCCESS" => Announced(t))
              => Announced(t)' \/ GetSerialization \/ ReportResult]_vars

\* One approval does not keep LogonUI logging on: automatic logons that are
\* reported and come again for ever need answers of the phone that do so too.
NoLogonLoop ==
    \A t \in Tile :
        /\ []<>(\E s \in submitted : s.tile = t /\ s.source = "phone")
        /\ []<>(submitted = {})
        => []<>(m_ListenThread[t] = "store")

\* SetDeselected and the deletion of a tile come back, unless the phones keep
\* GetResult busy.
StopReturns ==
    \A t \in Tile : stopping = t ~> stopping # t \/ m_ListenThread[t] = "getResult"

\* LogonUI is told of an approval: a tile is offered for an automatic logon,
\* unless the provider is not advised, a logon attempt took the approval or has
\* just failed for want of memory or the like, or the tiles are made anew (or
\* LogonUI waits for a listener that waits for a phone).
ApprovalIsOffered ==
    \A t \in Tile :
        unlockResult[t] = "SUCCESS" ~>
            \/ offer # NoTile \/ submitted # {}
            \/ unlockResult[t] # "SUCCESS"
            \/ ~events
            \/ recreate \/ t \notin Listed
            \/ stopping # NoTile /\ m_ListenThread[stopping] = "getResult"

\* A callback is not called after UnAdvise() released it: "Called by LogonUI
\* when the ICredentialProviderEvents callback is no longer valid"
\* (CSampleProvider.cpp:120).
CallbackIsValid == \A t \in Tile : calling[t] = "provider" => events
=============================================================================
