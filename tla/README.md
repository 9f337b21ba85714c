# PC Bio Unlock natives: TLA+ models, checks and proofs

The repository holds the native parts of PC Bio Unlock: a PAM module for Linux
and macOS and a credential provider for Windows, which let a user log on by
approving the request on a paired phone. This directory models what in them is
concurrent, distributed over processes, or ordered by somebody else's calls:

* the unlock handler, which polls several phones at once and has to agree on
  one result;
* the connections to the phones, each a thread that shares unlocked fields and
  a socket with the worker that owns it;
* the worker that runs a connection, with the scanner of the keyboards it starts
  and stops beside it;
* the PAM module and the program it runs, two processes joined by a pipe and an
  exit status;
* the Windows provider, its tiles and their listener threads, under LogonUI's
  calls, and the buffer with which a tile logs on.

Paths below are relative to the repository. TLC checks every component on a
small instance. All invariants and action properties of the passing runs, and
the three refinements, are also proved with TLAPS for all values of the constants;
the proofs are in the modules whose names end in `Proofs`.

## 1. The system

| Component | State | Operations | Talks to |
|---|---|---|---|
| `UnlockHandler` (`common-cpp/src/handler`) | the connections, a thread per connection, the atomic result, the counter, mutex and condition variable | `GetResult`, `RunServer` | the connections (`Start`, `PollResult`, `HasClient`, `Stop`, `GetResponseData`), the caller's `isRunning` flag, `KeyScanner` |
| `BaseUnlockServer` (`common-cpp/src/connection`) | `m_IsRunning`, `m_HasConnection`, `m_UnlockState`, `m_ResponseData`, the thread | `OnResponseReceived`, `GetUnlockInfoPacket`, the getters | its subclasses, `CryptUtils` |
| `TCPUnlockClient`, `BTUnlockClient` | the same, and `m_ClientSocket` | `Start`, `Stop`, `ConnectThread`, `ReadPacket`, `WritePacket` | the phone, by a socket |
| `TCPUnlockServer` | the same, and a server and a client socket | `Start`, `Stop`, `AcceptThread` | the phone, which calls |
| `PairedDeviceStorage`, `AppStorage` | two JSON files | read them | `GetResult`, `ListenThread` |
| `CryptUtils` | none | encrypt and decrypt a packet with its time | `BaseUnlockServer` |
| `KeyScanner` | key maps, a scan thread (Linux) | `Start`, `Stop`, `GetKeyState` | `RunServer` |
| `pcbu_auth` (`pam-pcbiounlock/pcbu-auth`) | none but its process | `main`, `CheckPassword` | `GetResult`, the pipe, its exit status |
| PAM module (`pam-pcbiounlock/src`) | none but its process | `pam_sm_authenticate` | `pcbu_auth`, the host program |
| `CSampleProvider`, `CUnlockCredential`, `CUnlockListener` (`win-pcbiounlock/src`) | the list of tiles, the result in each, the selection, the callbacks, a thread | LogonUI's calls and `ListenThread` | LogonUI, `GetResult` |
| `Dll.cpp`, `helpers.cpp` | the count of references to the DLL | `DllCanUnloadNow`, the class factory; the strings and the buffer of a logon | COM, the tiles, the LSA |
| `api`, `bt_api` | none | queries for the desktop app | the system |

`I18n`, `Logger`, `Utils` and the PAM stubs have no state of interest; json, httplib, spdlog and pstream are
vendored. `PROJECT.json` lists every component with its status.

What is hard here, and what has to hold:

* **The handler.** Workers finish in any order, the condition variable wakes
  spuriously, the caller may withdraw. `GetResult` must not read before all are
  polled, must not sleep through the end, must return a success only with the
  device and password that belong to it, and should return the success it has
  announced.
* **The connections.** Two threads write the same plain fields and close the
  same socket; the phone may answer late, in pieces, for another request, or
  not at all. The verdict must be given once and after the response is stored,
  no socket may leak or be closed twice, and `Stop` must come back.
* **The scanner.** Its thread must be joined and its keyboards closed whenever
  `RunServer` returns, and what it does to the process it shares must not open
  the machine.
* **PAM.** Access has to follow from four answers given in two processes, and
  neither process may wait for the other for good.
* **Windows.** LogonUI makes and releases tiles while their listeners run. A
  thread must not be started over an unjoined one, must not outlive its tile,
  and must not call what LogonUI has taken back; an approval must be offered
  once and not for ever. The DLL may go only when nothing of it is left, and the
  LSA, in another process, has to find the three strings of a logon by the
  lengths and offsets the tile put into its buffer.

The hazards, each at its line and with the properties that watch it, are in
`PROJECT.json`.

## 2. The modules

```
UnlockState <-- BaseUnlockServer (contract) <-- BaseUnlockServerProofs
UnlockRequest (promise) <--refined by-- UnlockHandler <-- MCUnlockHandler, UnlockHandlerProofs
                                        UnlockHandler <-- UnlockHandlerPrints (history)
BaseUnlockServer <--extends------------ UnlockHandler
BaseUnlockServer <--refined by--------- UnlockClient <-- MCUnlockClient, UnlockClientProofs
BaseUnlockServer <--refined by--------- TCPUnlockServer <--extends-- RunServer
                                 RunServer <-- MCRunServer, RunServerProofs
                                 RunServer --INSTANCE--> KeyScanner
UnlockPacket <-- UnlockClient, TCPUnlockServer, UnlockPacketProofs
                 (MCPackets: the packets of the runs)
PairedDevice, UnlockState <-- PamAuth <-- PamAuthProofs
LogonBuffer <-- LogonBufferProofs
LogonBuffer <-- CredentialProvider <-- MCCredentialProvider
CredentialProvider, LogonBufferProofs <-- CredentialProviderProofs
```

The composition is by contract: `BaseUnlockServer` says what a connection does
to its four shared fields, `UnlockHandler` runs over any set of connections
that keep to it, and `UnlockClient` and `TCPUnlockServer` are shown to keep to
it (`ImplementsContract`, with `INSTANCE BaseUnlockServer WITH ...`). This keeps
sockets and descriptors out of the handler's state space. The server and the
scanner share a process and a worker and are composed directly, in `RunServer`.

**UnlockState** has the verdicts of `UnlockState.h`, split by who gives them.

**BaseUnlockServer** has one action per step that a connection's thread or
owner makes on the shared fields: `Start`, `StopSignal` (the two flags `Stop`
lowers), `Connect`, `StoreResponse`, `Conclude` (the one write of the verdict),
`Finish` (the thread lowers `m_IsRunning`: from then on `Stop` does not wait),
`HangUp`, `End`. `m_AcceptThread` is the state of the thread.

**UnlockRequest** is what `GetResult` promises its caller: a request is put to some
devices (or turned away), threads talk to these, their phones approve, and there
is one decision, after which the threads leave and the caller gets the answer. It
promises nothing for a request that fails: the answer may be any (finding 1 is
the reason). `UnlockHandler` implements it under a mapping of its own state
(`Stage`, `Talking`, `Approved`); the decision is the step that loads the shared
result.

**UnlockHandler** follows `GetResult` and `RunServer` statement by statement.
A step is one access to something another thread can touch. `workerPc` is a
worker's place in its lambda and in `RunServer`, `mainPc` the place in
`GetResult`. Three groups of accesses are one step, as nothing can tell the
difference: the test of `currentResult` and of `isRunning` (the flag only ever
falls, so the two reads act as one at the time of the second if it has fallen by
then, and at the time of the first otherwise); the connection flag, the clock and
the keys, which are a free choice; lock, notify and unlock. Releasing the mutex
and falling asleep are one step inside `cv.wait` by its definition. A password is
represented by which answer it came from. Passing time is `TimeoutElapses`.
**UnlockHandlerPrints** adds a history variable, `printed`: the devices whose
success `RunServer` has printed. Nothing reads it, so no behaviour is added or lost;
finding 1 needs it to compare what the user has read with what `GetResult` returns.

**UnlockPacket** has `CryptUtils` by the sizes and times it checks, and the
judgement of `OnResponseReceived`. A packet is a record: its length, the plain
word it is, whether it is sealed with the device's key, its age, its content.
`EncryptAES` and `EncryptAESPacket` return the set of sizes that may come out
(any of their calls into OpenSSL may fail), `DecryptAESPacket` the result of the
C++ function.

**UnlockClient** has both client classes: they differ in how they find the
phone and in the verdict when they do not (`ConvertAddress`, `FindChannel`, the
places `addressless` and `channelless`), and not in their other steps. The variable
`system` is what the client is built for; it never changes. The test, the `close`
and the reset of `SAFE_CLOSE` are three steps, and loading the socket field and
blocking in `connect` or `read` are two. `descriptor` tells which descriptors are
this connection's, free, or somebody else's (`OthersUseDescriptors`). Between
`Stop`'s close and its reset `m_ClientSocket` may name a descriptor that others have
been given: a `read` or `write` called then goes there (`CallTheirs`), and returns
with anything but an answer to this request, or not at all (`TheirsReturns`).

A packet is two bytes of length and `DataPieces` parts of data. Each `write` of
`WritePacket` and each `read` of `ReadPacket` is a step that moves any part of
what is left of the length or of the data (`Onwards`), and the socket field is
loaded again for the next one, so `Stop` and its "CLOSE" can come in between. The
phone reads a request only if it gets all of it with nothing in the middle; it
answers in pieces (`PhoneAnswers`, `PhoneSendsOn`), hangs up at any place of its
answer, or does neither.

**TCPUnlockServer** has `AcceptThread` with `select`, `accept` and the one
`read`. The value 0 means "no socket" in this class and is the standard input
for the system, so a thread that loads a field after `Stop` has reset it goes to
the standard input, and one that loads it between the close and the reset to
whoever has been given the descriptor: both are `elsewhere` (`ElsewhereDelivers`).
`accept` and the connection flag are two steps (`Accept`, `Connected`). Its one `read` cuts a packet at 1024 bytes (`AsRead`). The
test and the close of `SAFE_CLOSE` are one step here,
its reset another. Nothing sends the token to the phone on this path, so
`PhoneSends` has no answer with the token of the request: a CLOUD_TCP device can
never succeed.

**KeyScanner** is the Linux class: `Start`, `Stop` in its two parts (`Lower`,
`Joinable`), and the rounds of `ScanThread`. `m_KeyMaps` is never given a size,
which is modelled as it is (`KeyMaps` has no elements): `GetKeyState` finds
nothing pressed, and the first key event is stored at an address near 0 and ends
the process (`died`), as an exception ends it where there is no directory of
keyboards. **RunServer** is the worker of a CLOUD_TCP device: it starts the
server and the scanner, leaves its loop (`EndLoop`), stops both in the order of
the code and returns; all the threads of the process stop when it has died.

**PairedDevice** says which entries of a file survive an exception in the
middle of it; a list of devices is the set of their places in the file.
**PamAuth** runs `pam_sm_authenticate` and `pcbu_auth` as two processes with a
bounded pipe; `GetResult` is one step with any verdict for any device of the
user. What can end `pcbu_auth` from inside is `SIGSEGV` (a NULL from `crypt`, or
the scanner), `SIGPIPE` (a write to a phone that hung up) and `SIGABRT` (the
scanner's exception); `hostReaps` is a host that ignores `SIGCHLD`.

**CredentialProvider** has LogonUI's calls as actions, one at a time (`Idle`);
a call that has to join a listener ends in `Join`, and the deletion of a
released tile is `Delete`. The provider itself is made (`CreateInstance`) and
released (`ReleaseProvider`, `DestroyProvider`), and the memory of a deleted tile
is used for the next one. `ListenThread` is split at every field it shares with
LogonUI, its two waits and their messages included; the test of a callback and
the call of it are two steps (`calling`). `g_cRef` counts the provider and the
tiles, and `DllCanUnloadNow` reads it. `GetSerialization` makes the buffer of a
logon, or fails, as memory, the encryption and the LSA may.
Without loss, `SetDeselected` empties the password field before it joins rather
than after: LogonUI makes no other call meanwhile and the listener does not look
at that field. Two things are assumed of LogonUI: it gives the tiles and its
callback back before it releases the provider (the tiles point to the provider
without a reference, so the code relies on it), and it asks for the tiles of a
scenario before it sets another one.

**LogonBuffer** has the helpers that make this buffer for a local user: the
encryption of the password where the scenario calls for it, the split of
`domain\name` at the first backslash, the lengths of `UNICODE_STRING`, which wrap at
16 bits and are checked not to, the layout of the three strings behind their structure, and, for the other side, the
sanity check and the unpacking. A character is two bytes, an offset a number of
bytes, and memory that nobody has written is "undefined". A function that may
fail for its arguments returns the set of its results.

Operators with "A slip" in their comment (`NotifyUnlocked`, `ReadReturnsFirstPiece`, ...) are
not part of any specification: each is a plausible wrong version of the action
that follows it, and the property it is paired with in `PROJECT.json` fails when
it takes that action's place.

## 3. The runs

| Run | The system | What it asks |
|---|---|---|
| `handler_safety` | two devices, spurious wakeups, a caller that withdraws, phones that answer this request or another | safety of `GetResult` under every interleaving, and its promise to the caller |
| `handler_live` | two devices under fair threads | polling and waiting end |
| `handler_success_reported` | two devices, with what was printed | *violated*: a printed success is not what `GetResult` returns |
| `handler_cleanup` | as above | *violated*: the join under the mutex |
| `client` | TCP and Bluetooth, Linux and Windows, two descriptors, packets in pieces | contract, fresh success, whole answers, leaks, short joins, loops that end, `Stop` returns |
| `client_double_close` | as above | *violated*: two `SAFE_CLOSE`s on one socket |
| `server_tcp` | accept thread, worker, scanner, a phone, two keyboards | contract, leaks of sockets and keyboards, short joins, threads that end, `RunServer` returns |
| `pam_auth` | two users, files of up to two entries, a pipe of one line, three signals | access, lines, no wait for each other, termination |
| `pam_rejection` | one user | *violated*: the raw wait status |
| `provider_tiles` | two tiles, the second made while the first may be held | threads, tiles and references, approvals on their way |
| `provider_live` | one tile under fair threads, two users, three scenarios, typed and sent passwords | calls return, approvals are offered, buffers are read |
| `provider_callback` | one tile | *violated*: `UnAdvise` against a listener |

What the properties say:

* `ReadAfterAllPolled`, `WaitEnds`, `VerdictIsPublished`: the
  wait of `GetResult` ends when, and only when, every worker has its result, and
  then some verdict has been published.
* `ResultIsGenuine`: a success that `GetResult` returns names a device whose
  phone answered this request, with the password out of that answer.
* `ResponseIsQuietWhenRead`: the response is copied without a lock, and yet no
  thread can still write it, although `Stop` does not join a thread that has
  lowered its own flag. It rests on the contract: a thread that lowers the flag
  has its answer settled (`Finish`).
* `NobodyWaitsForGood` (of the handler): until `GetResult` returns, one of its
  threads can take a step or waits for the end of a connection's thread. The one
  exception is the join under the mutex, finding 2.
* `ImplementsRequest`: seen by its caller, all of the handler is one request that
  is decided once, by an approval that was given before, and returned when no
  thread of it is left.
* `SuccessEndsPolling`, `PollingEnds`: one success ends the polling of every
  device; a phone out of reach does not block the login. A phone that connects
  and stays silent does block it, and the property says so.
* `NoSocketLeaks`, `JoinReturns`: whichever thread gets to the socket, it is
  closed at the end. The client's `Stop` hangs for two kinds of thread only: one that
  it missed on its way into a blocking `read`, and one whose `read` or `write` came
  between the close and the reset and went to somebody else's descriptor.
* `AnswersArriveWhole`: however an answer is cut up, `ReadPacket` hands on the
  packet that was sent once it has all of it, and gives up only if the phone has
  hung up or `Stop` has closed the socket. What it may read from somebody else's
  descriptor after that is never an answer to this request.
* `KeyboardsAreClosed`, `RunServerReturns`: a worker that is through has no scan
  thread and no keyboard open; it gets through unless `AcceptThread` stays in a read
  from a silent phone, from the standard input or from somebody else's descriptor,
  or the process has died.
* `JoinsAreShort` (of the client): who joins the thread waits for steps it can
  take, except that `Stop` may wait for a phone that is there and silent, or for a
  call on somebody else's descriptor; the join before `delete`, which is that of a
  thread `Stop` left alone, waits for no such call. `ThreadGetsOn`: no loop of the thread goes round for good.
* `JoinsAreShort`, `StoppedThreadsEnd` (of the server): the same for `AcceptThread`
  and the scanner, which run until they are told to stop: once its flag is down,
  each step of a thread brings it nearer to its end.
* `SuccessIsFresh`: a connection succeeds only by an answer to the request the
  phone has read, sealed with the device's key and within `PACKET_TIMEOUT` of
  the PC's time on either side.
* `SuccessIsEarned`: `PAM_SUCCESS` exactly when a readable device of this user
  approved, the password is right, and the host lets the module have the status.
  `EveryLineIsShown`, `NobodyWaitsForGood`, `PamReturns`: no line is lost, and the
  two processes never both wait.
* `ListenerFollowsSelection`: `m_IsRunning` is up exactly while there is a thread
  to join, so `Start` never assigns over one. `NoThreadOutlivesItsTile`: the
  destructor joins the thread before the tile is gone. `DllUnloadsWhenUnused`:
  COM may unload the DLL exactly when there is neither a provider nor a tile with
  its listener. `LsaReadsTheLogon`: what is unpacked from the buffer of a local
  user are the domain, the name and the password it was made of, encrypted just
  where it must be, and no reference leads out of the buffer. `StopReturns`,
  `ApprovalIsOffered`, `NoLogonLoop`: liveness of selection and automatic logon.
  `StoppedListenersEnd`: a listener that was stopped does not go back to a wait or
  to the phones. `ApprovalIsAnnounced`: between the store of an approval and the
  logon it is made for there is no order of LogonUI's calls and the listener's
  steps in which LogonUI is neither told nor about to be.

**The violated ones** are what the code does against what it says of itself:

1. A worker adds itself to `completed` before it stores its success
   (`UnlockHandler.cpp:68-70`), and the test and the store of the last worker
   (`:72-73`) are two steps. A worker that fails can find the count full and no
   success stored; the success is stored then, and it overwrites it. `GetResult`
   returns its error while the user has read "Success.". (When `GetResult` itself
   reads the result between the count and the store, the worker of the success has
   not been at the mutex yet, and the clean-up ends in finding 2: nothing is
   returned.)
2. `GetResult` joins its workers with the mutex locked (`:81`, `:92`); a worker
   at its `lock_guard` (`:74`) never gets it. This happens when the predicate is
   true before the last worker notifies.
3. `Stop` and `ConnectThread` can close one descriptor twice
   (`TCPUnlockClient.cpp:55`, `:157`).
4. The exit code 1 of `pcbu_auth` arrives as 256, so `PAM_AUTH_ERR` is never
   returned (`pam_auth.cpp:59`).
5. A listener may call the provider's callback after `UnAdvise`
   (`CSampleProvider.cpp:318`).

A sixth, seen in the model and not kept as a run: `ReportResult` forgets the
phone's approval whichever password was tried (`CUnlockCredential.cpp:549`), so
one that arrives while a typed password is under way is lost.

### Bounds

* Handler: two devices. The workers are alike and meet only in `currentResult`,
  `completed` and the notification: with two there is a first and a last one, a
  success and a failure, and both may see the full count. `Outcome` is success
  and one error, as the handler compares with nothing else. The proofs hold for
  every finite set of devices. Devices are symmetric in the safety runs; the
  liveness run uses no symmetry.
* Client: two descriptors, enough for a closed one to be reused. One answer.
  `DataPieces = 2`: length and data may each be cut in the middle, and between
  them; more pieces repeat the same loops, and the proofs hold for any number.
  `MCPackets` has a packet for each way through `DecryptAESPacket` and
  `OnResponseReceived` and both sides of each limit (56 and 57 bytes: nothing or
  something besides the time; 1056 and 1057: the buffer; `PACKET_TIMEOUT` and a
  millisecond more, in both directions). The timeout is Linux's; another value
  moves the limits. The channel lists end inside and outside of 1 to 30.
* PAM: a pipe of one line (the tightest), at most two lines from `GetResult`,
  files of two entries for two users: a readable entry before and after an
  unreadable one, for this user and the other.
* Server: two keyboards, so one may be missing while the other is open. The
  same packets as the client.
* Provider: a tile and its successor. `PerUser = 1` makes the old and the new
  tile meet while LogonUI holds both; with one tile the other run sees each call
  of its life, and its memory is used again. Tiles are symmetric in the safety
  run only, which has no typed passwords: nothing it asks depends on them.
  `MCUShortMax = 7` lets a string have three characters, so that a typed password
  of three fits by itself and not with its encryption; 65535 would put the same
  limit where TLC does not reach it, and the proofs hold for every value. One
  local user, with a domain and a name of different lengths, and one other.

### Deadlock and fairness

`CHECK_DEADLOCK FALSE` stands where the system really stops: `GetResult` and
`pam_sm_authenticate` return once, a connection is used once, a key ends the
process of `RunServer`, and a silent phone, or finding 2, stops a thread for good.
The provider's runs check deadlock.

Threads that can run do (weak fairness of each thread's steps): the operating
system schedules them, and none of them waits for a condition that comes and
goes, save for the mutex of the handler, which is taken for bounded times. In
`RunServer` they run as long as the process is alive. Time
passes (`TimeoutElapses`). A connection thread with a verdict returns. A phone
that was sent "CLOSE" hangs up, as the app does. Nothing obliges a phone to
connect, answer, finish an answer or hang up otherwise, a call on a descriptor of
the standard input or of somebody else to return, a user to act or type, the network
to come up, or `GetResult` to return in `CredentialProvider` and `PamAuth`. LogonUI asks for the
tiles again after `CredentialsChanged` (strong fairness, for its other calls
come in between): this is what the interface promises.

## 4. The proofs

Each of these theorems is about the specification a run checks, for every value
of the constants that the named `ASSUME`s of the modules admit.

| Module | Theorem | Property |
|---|---|---|
| `UnlockHandlerProofs` | `TypeCorrect`, `ReadsAfterAllPolled`, `ResultsAreGenuine`, `ResponsesAreQuietWhenRead`, `WakeupsAreNotLost`, `VerdictsArePublished`, `NobodyIsStuck` | the six invariants of `handler_safety`, and that no wakeup is lost |
| | `HandlerImplementsRequest` | `ImplementsRequest` |
| | `HandlerKeepsContract`, `PolledVerdictsAreFinal` | the handler keeps to the contract it is written against, and what a worker has polled stays |
| `BaseUnlockServerProofs` | `VerdictsFollowResponses`, `ServerVerdictsAreFinal` | what follows from the contract alone |
| `UnlockClientProofs` | `TypeCorrect`, `SocketsAreClosed`, `SuccessesAreFresh`, `AnswersAreWhole`, `JoinsAreNotLong` | the five invariants of `client` |
| | `ClientImplementsContract`, `LoopsEnd` | `ImplementsContract`, `ThreadGetsOn` |
| | `ReadingsAreFinal` | the contract's theorem, for the client |
| `RunServerProofs` | `TypeCorrect`, `SocketsAreClosed`, `KeyboardsClosed`, `JoinsAreNotLong` | the four invariants of `server_tcp` |
| | `ServerImplementsContract`, `ThreadsEnd` | `ImplementsContract`, `StoppedThreadsEnd` |
| | `ReadingsAreFinal` | the contract's theorem, for the server |
| `UnlockPacketProofs` | `SealedSize`, `TooLongIsRefused`, `SealedOpens`, `AnswersAreSealed`, `VerdictsAreEarned`, `ClockIsBlamed` | packets of any size and age |
| `PamAuthProofs` | `TypeCorrect`, `AccessIsEarned`, `LinesAreShown`, `NobodyIsStuck` | the four invariants of `pam_auth` |
| | `StepsAreBounded`, `RejectionsAreIgnored` | the number of steps; `PAM_AUTH_ERR` is never returned |
| `LogonBufferProofs` | `LsaReadsWhatWasSerialized` | what `LsaReadsTheLogon` rests on |
| `CredentialProviderProofs` | `TypeCorrect`, `ListenersFollow`, `ThreadsEndInTime`, `DllUnloads`, `LogonsAreRead` | the invariants of `provider_tiles`, and `LsaReadsTheLogon` |
| | `StoppedListenersGoOn`, `ApprovalsAreAnnounced` | `StoppedListenersEnd`, `ApprovalIsAnnounced` |

In each module an inductive invariant `IInv` is a conjunction of named parts:
the type invariant and what the code relies on silently. Each part has a lemma
with a step per action; the temporal steps are by `PTL`.

**The handler** (`UnlockHandlerProofs`), for every finite set of devices and every
set of outcomes. None of the invariants but type correctness is inductive.

* `CountIsExact`: `completed` is the number of workers past their `fetch_add`.
  With the cardinality lemmas of `FiniteSetTheorems` this turns the predicate of
  `cv.wait` into "all workers are past it", which is `ReadAfterAllPolled`.
* `WorkersOfServers`, `MutexIsMains`, `StateIsKnown`: workers exist for the
  created connections only, the mutex is held exactly from a wakeup to the sleep
  or the end, and a worker that has left its loop has a verdict.
* `SuccessIsEarned`: a success, wherever it is (in a connection, in a worker's
  hands, in `currentResult`, in `result`), is the verdict of the device it names,
  with that device's answer. It holds from the connection to the return value
  because a verdict once given never changes. Between the poll and `collect` a
  worker has the state and not yet the device, so the part about its result
  spares it there.
* `StopIsSafe`: a connection whose flag is down while its thread still talks is
  one its owner is joining; so in `collect` the thread is past its answer, which
  is `ResponseIsQuietWhenRead`.
* `SomeoneNotifies`, `SomeonePublishes`: while the main thread may fall asleep
  without a notification some worker is not done, and when all are counted the
  result is there or a worker is still on its way to store it.
* `NobodyIsStuck` adds to this, as `LivesInv`, which places of the main thread, of
  the workers and of the connections' threads go together: who holds the mutex can go on unless it joins, and a worker that
  waits in `Stop` waits for a thread, not for a worker.
* `HandlerImplementsRequest` needs little more than these: that a verdict stays
  (from the contract), that the result is genuine, and that the workers are joined
  and their connections' threads ended before `GetResult` returns. Each step is
  matched to `Ask`, `Talk`, `Approve`, `Leave`, `Decide` or `Return`.

**The contract** (`BaseUnlockServerProofs`). What a user of a connection may rely on
is proved once, from `ServerSpec` alone: the verdict is given once and the answer
behind it is stored before; a thread that has lowered its flag does not write
again. The client and the server implement the contract, so they inherit it
(`ReadingsAreFinal`, by `INSTANCE BaseUnlockServerProofs`); the handler keeps to it
(`HandlerKeepsContract`), so `PolledVerdictsAreFinal` holds of what a worker polls.

**The clients** (`UnlockClientProofs`), for any descriptors, packets, sizes and
number of pieces.

* `SocketIsNamed`: the one open socket is the one `m_ClientSocket` names, and
  whoever resets the field has closed it. `NoSocketLeaks` follows although two
  threads close without a lock, because nobody loses the name before a `close`.
* `AnswerFollowsRequest`: our token comes back only after the phone had the whole
  request, and what was read is what it sent, or has no token of ours; `VerdictFollowsAnswer`: there is one
  verdict, and only the token of the stored answer makes a success. Together they
  give `SuccessIsFresh` and the refinement.
* `StopComesFirst`, `SocketIsKept`: `Stop` finds the flag up as long as the thread
  is talking, so it does not skip its `close`, and until then the socket is open,
  so no call goes to somebody else's descriptor before `Stop` has closed. This is why
  a `read` that brings no packet of the phone has one of the two excuses of
  `AnswersArriveWhole`.
* `PhoneIsReached`: which places of the thread have a phone, and which a flag that
  is still up. `JoinsAreShort` follows: a thread that `Stop` skipped is past its
  last call on the phone. `LoopsEnd` needs type correctness only, for the counts of
  `read` and `write`.
* `Refines`: each step is a step of `BaseUnlockServer` under the mapping
  `ContractThread`, or leaves the contract's variables alone.

**The server and its worker** (`RunServerProofs`), for any keyboards and packets.
`SocketsAreNamed` and `OneVerdict` play the same parts for `AcceptThread`, proved
for the steps of `TCPUnlockServer` and carried to the composition
(`StepsOfServer`); `ScannerIsStopped` ties the scan thread to the place of the
worker, which is `KeyboardsAreClosed`. `StopComesFirst` (with the sets `Running` and
`Stopping` of places) says who may have lowered `m_IsRunning` where, from which come `JoinsAreShort` and, by a
step count for each of the two threads, `StoppedThreadsEnd`.

**Packets** (`UnlockPacketProofs`), for any length, age and content: what
`EncryptAESPacket` makes has one size (`SealedSize`), which passes the end of the
buffer exactly when there are more than 968 bytes of data; `DecryptAESPacket` opens
it with as many bytes as were put in (`SealedOpens`; an empty message is the one
exception). `AnswersAreSealed` and `ClockIsBlamed` give the packets that
`OnResponseReceived` takes for an answer, and those of which it says that the clock
is wrong, without the sizes and codes in between.

**PAM** (`PamAuthProofs`), for any users, files and pipe. `Lifetime`: which places
of the two processes go together; `LinesAreKept`: shown and in the pipe make
printed, and `main` has not printed past its end; `ExitIsEarned`: an exit code 0
comes only from a success whose password matched; `StatusIsKept`: what `close`
returns is that status, or nothing that could be taken for a success.
`SuccessIsEarned` is the chain of the four. `NobodyIsStuck` follows from `Lifetime`
and a pipe that holds at least one line, and with `LinesAreKept` a count that every
step lowers (`StepsAreBounded`). `RejectionsAreIgnored` shows that finding 4 is no accident
of the small instance: no status of `pcbu_auth` is 1.

**The logon buffer** (`LogonBufferProofs`) is arithmetic about functions:
`SplitOfJoined` (a domain without a backslash comes back from `domain\name`),
`CopiesAreDisjoint` (three copies one after the other do not overwrite each
other), `PackIsUnpacked` (what is packed is unpacked, inside the buffer).

**The provider** (`CredentialProviderProofs`), for any memory, users, scenarios
and passwords.

* `References`, `RefsAreCounted`: who may still refer to a tile, and that `g_cRef`
  is the number of live tiles and the provider, by cardinality of `Live`.
* `ThreadsAreJoined`, `UnbornIsIdle`: flag and thread go together except in the
  tile whose `Stop` is under way, and memory that is no tile has neither.
* `SubmittedIsSerialized`: the logon under way is of a tile that is held, so its
  buffer stays the one made of this tile's user.
* `CallsFitStages`, `UnbornIsUnapproved`: the callback a listener calls at its end is
  the provider's, and memory that is no tile holds no approval for the next one.
  With them `ApprovalIsAnnounced` is a matter of one step: `SetUnlockData` alone
  stores an approval, and `GetCredentialCount`, which forgets that LogonUI was told,
  offers an approved tile (`CountOffers`).
* The listener's own steps are one lemma (`Advance`): they move a thread that
  runs, and leave flags, tiles and references alone.

**What the proofs say of liveness.** Fairness and `ENABLED` are beyond this prover,
so what must eventually happen stays with TLC: `SuccessEndsPolling`, `WaitEnds`,
`PollingEnds`, `JoinReturns`, `RunServerReturns`, `PamReturns`, `StopReturns`,
`ApprovalIsOffered` and `NoLogonLoop`. For most of them the two facts such an
argument rests on are proved for all constants: somebody can always go on
(`NobodyIsStuck`, `JoinsAreNotLong`; the conditions there are the guards of the
actions, written out), and what goes on comes to an end (`StepsAreBounded`,
`LoopsEnd`, `ThreadsEnd`, `StoppedListenersGoOn`). What remains for TLC is the step
from there to "eventually", and `UnlockHandler`'s polling, whose loop ends by time
and by the phones.

The violated properties need no proof.

## 5. Not modelled

* The two ranges of sizes where `CryptUtils` overruns its buffer or counts below
  zero (969 to 984 bytes to encrypt, 32 to 47 to decrypt): assumptions exclude
  them, for what happens there is not determined by the code.
* `connect` and `accept` on a descriptor that others have taken over, which are taken
  to fail; what a `read` or `write` there takes from its owner or gives to it, which
  are outside; and the bytes a phone would send after its answer, which nobody reads.
* The scanner inside `UnlockHandler`: the two keys are a free choice of its
  `CheckTimeout`, which is wider than what the Linux scanner ever reports.
* Settings and texts. A setting is a value read from a file with a default; what
  it decides (whether a wait for a key comes before the request, the port) is a
  free choice where it is used. A message has no effect but to be shown.
* The queries for the desktop app (`api.cpp`, `bt_api.cpp`): each collects what
  the system says of its adapters and the devices around and keeps nothing. Their
  one shared function, `FindChannelSDP`, is modelled.
* `Logger`, `Utils`, the PAM stubs: formatting, or a constant.
* On Windows, the getters of fields, the class factory, the repacking of a buffer
  for 32-bit clients and `LockServer` (nothing in the repository calls them). The
  buffer that stays allocated when the LSA lookup after it fails is left out of
  `GetSerialization`, as is a typed password that stays in `_rgFieldStrings`
  after `ReportResult`: the first has no later effect, and what the second does is
  the hazard named at `CUnlockCredential.cpp:414`.
* The Apple branches, which are empty for Bluetooth and otherwise those of Linux
  with a scanner that asks the system.
* Torn reads of plain fields: the fields are words, save for the strings in the
  response and in the tile's result.

## 6. What could come next

1. The scanner in the composition of several workers: each device has one, and
   they share the keyboards and the process.
2. Several logins in one process (LogonUI), with the sockets the earlier ones left
   behind.
3. The string of the password across the tile's lock-free fields, character by
   character, to say what a torn read could make of it.
