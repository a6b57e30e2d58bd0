# Verification of the Electron extensions in `src/`

TLA+ models of the parts of this repository that are hard to test: programs
that share objects between renderer processes, block on each other, time out
and lose messages. TLC checks the models on small instances, TLAPS proves what
matters most for every instance. Paths below are relative to `src/src/` unless
they start with another directory of the repository.

## 1. The system

The repository adds modules and patches to Electron and Chromium. Its own code
is in `src/src`; `patches/` changes other projects, `scripts/`, `.azure-devops/`,
`configs/` and `build*/` build and publish.

| Part | Code | State it keeps | Interacts with |
| --- | --- | --- | --- |
| Remote client | `electron/lib/renderer/api/remote-client.ts` | weak cache of proxies, callbacks, the lane in use | server, by messages |
| Remote server | `electron/lib/renderer/api/remote-server.ts` | weak cache of stubs for client functions | clients; objects registry |
| Objects registry | `electron/lib/renderer/objects-registry.ts` | id, object and count; owners per context | remote server |
| Callbacks registry | `electron/lib/renderer/callbacks-registry.ts` | id of each function passed | remote client |
| Direct connection manager | `electron/shell/renderer/direct_connection_manager.cc` | bound and pending services per target | browser, other renderers, script |
| Renderer service, renderer event | `electron/shell/renderer/renderer_service.cc`, `renderer_event.cc` | the reply callback of a call | script of the callee |
| Send-to-sync handler, message wrapper | `electron/shell/browser/` | the callback of a relayed call | all renderers |
| Watchdog | `electron/shell/common/api/watchdog.cc` | a flag, two events, a thread, a log file | main sequence, power monitor, browser process |
| Crash checker | `electron/shell/browser/crash_checker.cc` | a session file | Crashpad's database |
| Memory info, startup metrics, CPU profiler, process bindings | `electron/shell/common` | samples, time stamps | script |
| Windows error reporting | `electron/shell/common/wer_api_win.cc` | handlers, registered files and data | threads that crash, WER |
| App Center | `electron/shell/common/appcenter_api.cc` | secret, ids of user and session | Crashpad's handler, the network |
| Video player | `media_blink`, `skype_video` | three shared buffers, the sink's connection, the current frame | the producer process, the compositor |
| Texture and buffer managers | `gpu/command_buffer/service`, `skype_video/shared_memory.cc` | pools of textures by stream, memory by name | the compositor's updaters, the GPU |
| Tenant restrictions | `components/edge_tenant`, `services/network` | policy, host list, header | registry watchers, network service |
| Trusted headers | `components/edge_adjust_headers` | header rules | network service |
| Section policy | `sandbox/win`, `content` | policy rules | the sandboxed process |
| Delay loading, COM helpers | `base` | import tables | loader |

What is hard in it:

- **Ordering.** Messages between two renderers travel over the browser process
  or a direct pipe; each lane is FIFO, the lanes are not ordered against each
  other, and a client switches lanes at run time. Replies of synchronous calls
  overtake everything.
- **Garbage collection as a concurrent actor.** Finalization callbacks run
  after arbitrary delay and in any order with the messages that recreate what
  was collected.
- **Blocking.** Synchronous calls between single-threaded processes, nested and
  in circles, partly served while waiting.
- **Failure.** Renderers crash, reload and close; replies are not serialisable.
  What reports a crash may crash: handlers run in the process that is broken,
  in several threads at once, and the session file is torn by the next crash.
- **Shared memory.** A producer in another process writes frames while the
  player shows one; one atomic word decides who has which buffer.
- **Time.** The watchdog's timeout races its own tasks, suspension and stop.

What makes each part correct: the server keeps an object exactly as long as a
context can name it and never confuses two objects; a callback invocation runs
the function it was made for; every synchronous call returns; the watchdog
terminates a process that hangs and no other; the player shows the latest frame
it could get, never one that is being written; a crash is reported whole or not
at all, told in the next session, and not counted as uploaded before it was;
the GPU process keeps what a client still uses and no more.

## 2. The modules

| Module | Models | Uses |
| --- | --- | --- |
| `ObjectsRegistry` | the registry: one action per method | |
| `RemoteObjects` | clients, host and lanes around the registry | extends `ObjectsRegistry` |
| `RemoteObjectsProofs` | the theorems about the registry, its refinement, no aliasing, backing and return of references | `RemoteObjects` |
| `RemoteCallbacks` | functions passed to the host, stubs, invocations, releases | |
| `RemoteCallbacksProofs` | its theorems | `RemoteCallbacks` |
| `Watchdog` | main sequence, watchdog thread, machine, browser process | |
| `WatchdogProofs` | its theorems | `Watchdog` |
| `DirectConnection` | connection manager, renderer service, browser's broker and relay | |
| `DirectConnectionProofs` | its theorems | `DirectConnection` |
| `LatestFrame` | what producer and player are promised: an inbox for the latest frame | |
| `TripleBuffer` | the atomic word and its exchanges | instantiates `LatestFrame` |
| `VideoPlayer` | frame sink and player on two threads, around the buffer | extends `TripleBuffer` |
| `VideoPlayerProofs` | the theorems about both | `VideoPlayer` |
| `TenantRestrictions` | the policy from Windows over the browser to the network service's requests | |
| `TenantRestrictionsProofs` | its theorems | `TenantRestrictions` |
| `WerReports` | Windows: the handlers of a process, WER call by call | |
| `CrashReports` | macOS: sessions of the browser, their file, handlers that upload | |
| `CrashHandling` | both, of which a build has one | extends `WerReports`, `CrashReports` |
| `CrashHandlingProofs` | the theorems about crashes | `CrashHandling` |
| `TextureSharing` | updaters, command buffer, the decoder's managers | |
| `TextureSharingProofs` | its theorems | `TextureSharing` |
| `MCRemoteObjects`, `MCRemoteCallbacks`, `MCDirectConnection`, `MCVideoPlayer`, `MCTenantRestrictions`, `MCTextureSharing` | instances for TLC: sets of model values, symmetry | |

Operators preceded by a comment "Mutation: ..." are plausible bugs. No
specification uses them. They are there to be put in place of the definition
that follows them, and `PROJECT.json` says which property each breaks.

### ObjectsRegistry

`storage` (id to object and count), `owners` (context to ids; a context without
an entry and one with an empty set differ, as in the code), `electronIds`
(object to id, a WeakMap) and `nextId`. `Add`, `Remove` and `Clear` are the
three methods; `Remove` dereferences whether or not the owner had the id, as
the code does. `RegistrySpec` takes any sequence of calls. `DisciplinedSpec` is
the protocol the registry relies on: a context removes only what it owns. It is
the abstract specification that `RemoteObjects` is measured against.

`IdKeepsItsObject` allows an id to disappear and never to change its object or
to come back. Only objects still registered keep an entry in `electronIds`; the
collection of an object that the host program no longer needs cannot happen
while the registry stores it, and removes nothing the model keeps otherwise.

### RemoteObjects

One action per thing a client's thread does (`Require`, `CallSync`,
`CallAsync`, `LoadFunctionProperties`, `ReceiveReply`, `ReceiveCallback`,
`RunFinalizer`, `Exit`, `ClientConnected`), per thing that happens to it
(`Collect`, `Crash`), and per message the host handles (`HostHandle`). A meta is
an id with the object it was made for, or `Plain`. Arguments of calls are left
to `RemoteCallbacks`. An object whose proxy is reachable may be called at any
time; a client that waits for a reply runs nothing else. What a reply carries
is any object: it may be the target of the call or one handed out before.

The optional behaviours of the application are a constant, `Features`: whether
promises resolve to remote objects, whether properties of remote functions are
read, whether the direct channel is enabled, whether replies may be refused by
structured clone, whether renderers crash. With none of them the protocol is
sound, and with each of the first three it is not (section 4): the property
that breaks is checked without the feature, and what survives with it.

Not modelled here: the host has one page throughout (section 4), so that a direct
pipe, which breaks only with one of its ends, breaks with the client's; and the
optimisation that caches constant return values.

### RemoteCallbacks

The other direction: `callbacks` of the client's registry, `stubs` at the host
with their cache and finalization, the two lanes each way, and a page that may
be replaced. `callbackIds` is the inverse of `callbacks` at every moment, and is
not a variable of its own. A key carries, for the properties only, the function
it was made for.

### Watchdog

`main` is what the main sequence does; `calls` the blocking calls it is in;
`tasks` what is queued on it; `thread` the place of the watchdog thread in
`ThreadMain`; `monitored` the option `usePowerMonitor` of the current watchdog,
chosen at each start. Time is abstracted: `WaitExpired` may happen at any
moment in the wait. `SleepWaits` says whether the machine waits for `OnSuspend`
to be handled before it sleeps, which operating systems do only for so long.

The browser's side is there too. Starting waits in `opening` for the file the
browser makes (`Created`), `ReadBlockingApi` and `WriteLog` copy the blocking
call into it before `Crash`, `RenderProcessGone` reads it for
`render-process-gone` and deletes it, and `Joined` sends the deletion of the file
of a watchdog that stopped, which travels on a pipe of its own (`deletes`).
`DeletesInOrder` says whether the browser handles such a deletion before a later
opening. A process may be killed at any moment, also between log and crash, and
another take its place with the same number and so the same file name.

The name is not synchronised: while the thread is in `Log` the main sequence may
return from the call or enter another, and each assignment of `blocking_api_`
(`SetBlockingApi`) leaves the thread's copy `logged` as it was, makes it the new
value, or tears it (`Garbled`). That a torn read might crash the process is a
`Kill`. `suspects` is history for the properties only: the calls the process was
in when it was given up, or has entered since.

Left out: pinging, which is data for the log; a message let in while the file is
opened that starts a watchdog itself; a page that is opened in a process later
than its first one, which may be told after the file is deleted. The log is written in full or not at all.

### WerReports, CrashReports, CrashHandling

`WerReports` is one process on Windows: `system` its rigid surroundings (the
version, whether a sandbox denies the handlers, the type of the process),
`handler` who takes its crashes, and for each thread the `frames` of the handler
it is in. A frame goes through `Calls`, the functions of WER in the order of
`HandleException`; each may fail (`WerCallFails`), and `Submit` is the call that
counts. A fault inside the handler makes another frame: `ReadNoModule` reads the
header of a module that was not found. What an early return means depends on the
handler (`Returns`): the filter passes the crash on and ends the process, the
invalid parameter handler returns and the process goes on.

`CrashReports` is macOS: a browser that starts a session, reads
session-state.dat, and writes it in two steps between which it may crash (the
torn file, of which the code then takes whatever its uninitialised structure
holds, if the magic number is among it by chance); Crashpad's database of
reports; and its handlers, one a session, which outlive it and upload reports of
earlier ones (`Take`, `SendLog`, `RecordUploaded`, `RecordFailed`), may be told
of a failure after the log arrived, and may end in the middle. The code that
uploads is compiled for Windows too, where it would run in the same way beside
`WerReports`; it is modelled in the build for macOS only. Crashpad itself is
external, modelled from the patch and its callers. The clock counts seconds and
several events may share one, because the file stores seconds. A URL that is not
one of App Center's is not modelled, nor is the Breakpad variant for Linux.

`CrashHandling` composes them: `platform` is the build's, and the part the build
does not have stands still.

### TextureSharing

Updaters put commands into one buffer, in the order of their calls: the copy of
a frame's texture, then the release of the stream shown before, which
`DrawTexture` reads from `streamName` before that changes. The decoder executes
them in order: `HandleCopyTexture` finds the texture in the pool of its stream
or makes it, after evicting the one that was unused longest
(`RemoveOldestUsed`); a command that fails, for a handle or a memory that the
producer has withdrawn or a texture of the updater's that is not there, is the
last, for the context is lost, to every user of it. `DestroyDecoder` is the end,
of both managers together. Not modelled: the mark that spares the textures of a
lost context their calls of GL (`SetContextLost`). When two updaters
show one stream, the release of one takes it from the other, whose next frame
makes it again. `recent` is history for the properties only.

### DirectConnection

Each renderer is one thread with a `stack` of frames: a synchronous call that
waits, a call that is served, a connection event that script handles. A waiting
renderer takes in calls of its direct pipes (`RendererService.MessageSync` is
`[Sync]`) and nothing else. `pending` and `services` are the manager's maps,
`requests` is where the request of each pending entry is, `broken` the
disconnect handlers that are queued, `told` the last event script saw.
`ServeFrame.open` says whether somebody still waits for the reply. What mojo
does (FIFO pipes, disconnect handlers, callbacks destroyed without a run close
their pipe) is modelled from how the code relies on it. `ConnectPairs`,
`SyncPairs` and `RelayPairs` say which renderers connect, which call each other
synchronously, and which of those also when the call has to go through the
browser process.

### TripleBuffer, LatestFrame

`flags` is the word as the integer it is, with the masks and shifts of the code
as divisions; `frames` is what is in the three buffers. A load and an exchange
are steps of their own, so either side may find that the other was faster; the
local copies `writerFlags` and `readerFlags` are 0 outside of the loops. The
producer is another process, whose code is not here; the comment of the header
says that it must behave exactly the same. An exchange that fails though it
could succeed, as `compare_exchange_weak` may, repeats the same exchange and
changes nothing. `LatestFrame` is the promise: the inbox of the mapping is the
ready buffer if its flag is set, what is taken is the read buffer. Publishing
overwrites, taking empties, and nothing else touches either.

### VideoPlayer

The compositor thread is `Render`, cut where another thread can come between:
`RenderSwaps`, `TakeFrame` (the memory is mapped, the frame wrapped), then
`CheckLayer`, `AskForLayer`, `UpdateTransparency` and `UpdateLayer`. The main
thread runs `CreateVideoLayer`, cut at the accesses both threads make, and the
tasks that `Render` posts. `OpenFails` is a frame whose memory does not open.
A frame is its number, the id of its memory, its format and whether its size is
empty. `AnyFormat` says whether the producer may change the format before the
player has its layer. Not modelled: texture handles and the loss of their
context, an invalid sink, destruction, and the sizes, positions and counters
that are reported to script.

### TenantRestrictions

`os` is the policy in the registry and the plugin, `notice` the notification
that Windows owes after it wrote, `signalled` and `armed` the event and the
watcher of it. `step` is where the UI thread is between two reads: it asks
whether there is a payload (`ReadHasPayload`), reads it (`ReadPayload`), reads
the hosts (`ReadHosts`) into the members of `WindowsPolicyManager` (`cached`),
and then compares (`UpdateIfNeeded`, `ComparePayload`) and takes over
(`RunUpdate`), asking the registry again on the way. `current` is what
`UpdateManager` has in force, `pipe` the calls of `UpdateTrv2HeaderPolicies` on
their way, `net` the observer's policy, which replaces its own only if the
service makes the same of what it was sent (`Rebuilt`, `Accepts`). `TooLong` are
payloads of more than 110 characters. The registry's values give notice when they
change, the host list does not, as `HostListWatcher` is a stub; `unseen` says
that it has changed since the thread last began to look. A payload is one of a
few, or empty, which malformed values give; hosts are the set of names a list
matches, the three of the fall-back included. A payload whose three values are read while
they are written is taken to be one the registry had at some moment; the notice
that follows makes the browser read again. Watching may fail at the start and at
each notice, after which nothing updates the policy. The network service may
die at any time. Not modelled: `ForceUpdate`, which only the host list's watcher
would call, and `HostListWatcher` never does; systems without the plugin, where
nothing runs; redirects, which keep the header chosen for the first URL.

## 3. The runs

| Run | Instance | Shows |
| --- | --- | --- |
| `RemoteObjects` | 2 contexts, 2 objects, 3 ids, lanes of 2, no features | proxies are backed and calls find their object (`UsableIsBacked`), ids come back, by their client or with its exit (`ReferencesComeBack`), the registry is used with discipline (`DisciplinedSpec`), so counts are exact |
| `RemoteObjectsFeatures` | 1 context, 2 objects, 2 ids, lanes of 1, all features | a proxy whose id was freed under it, and a call by it, reach no other object (`ProxyNeverAliases`), cleared entries are finalized, the registry's specification is implemented, synchronous calls return, exits release |
| `RemoteCallbacks` | 2 functions, 2 pages, 2 ids, lanes of 1, direct channel, re-sent functions | no message reaches another function, callbacks are tracked |
| `RemoteCallbacksLive` | 2 functions, 2 pages, lanes of 2, one lane, no re-send | held stubs and invocations find their function, collected stubs are released at the client |
| `Watchdog` | 2 calls, depth 2, 4 tasks, 2 deletions, with and without power monitor | crash only when stuck, not for sleep, blame of a call that ran then or since, the termination is told to the page, hangs are terminated, stop returns without power monitor |
| `DirectConnection` | 2 renderers, 2 calls each, 1 death | events tell the lane, answers are pending, calls carried once, no group of waiting renderers is stuck, unless at the relay (`NoGroupIsStuck`) |
| `DirectConnectionLive` | 2 renderers, 1 call each, direct pipes only | calls return in circles, requests are answered |
| `VideoPlayer` | 4 frames of 6 kinds, 2 memories, one format until there is a layer | the buffer is an inbox for the latest frame, what is shown is held, memory mapped is the frame's, one layer at a time and one in the end, opaque only if it is |
| `TextureSharing` | 2 updaters, 2 streams, 4 handles, 1 memory, a pool of 3, 2 commands | what the decoder keeps has a user or its release on the way, a pool holds what its stream used last |
| `TenantRestrictions` | 3 payloads, one of them too long for the service, 2 hosts, 3 writes | at rest the system's policy is in force, garbage ends none, a policy that stays, and that the service takes, or that goes reaches the requests |
| `CrashHandling` | 2 threads, 1 child type, 1 file; 2 seconds, 3 sessions, 1 report, 2 attempts | no half-filled report is submitted, the handler ends, macOS tells a crash of the last session and only of it, no report counts as uploaded that App Center has not |
| `WatchdogStopSuspended` | the watchdog with depth 1 | section 4 |

The type invariants `RemoteTypeOK`, `CallbacksTypeOK`, `WatchdogTypeOK`, `ConnectionTypeOK`,
`PlayerTypeOK`, `TenantTypeOK`, `WerTypeOK`, `CrashTypeOK` and `SharingTypeOK`
are not listed in the configurations; each holds in the same instance when it is
added, and those of the modules with proofs are conjuncts of their inductive
invariants. Where the browser handles deletions late, `WatchdogTypeOK` allows
for one more of them than starts wait for.

Bounds. Two contexts are enough for one to take another's reference; the
theorems about the registry are for any number. Two objects and three ids let
an id be freed and its object be registered again under a new one; with all
features, two objects and two ids let one object's id be freed under its proxy and
the other object be registered after it; one promise at a time, until its result
has arrived, lets the result cross calls, replies and releases, but no other
result, for which there are the theorems. Lanes of two
let a message be overtaken by one of the other lane and followed by one of its
own. Two pages let a message meet the ids of the next page. Depth 2 nests
blocking calls. `MaxTasks` of 4 lets a task of the watchdog's, a suspension, a
resumption and the next suspension queue up; the watchdog's own tasks may exceed
it by two, which the type invariant shows to be all it ever needs. `MaxDeletes`
of 2 leaves the deletions of two watchdogs on the way while a third writes.
Renderers with two calls each nest calls in circles; in the run with fairness
one call each suffices for a circle, and keeps the strong fairness of nested
returns per thread rather than per frame. Four frames let an index be read twice
with another memory, which three cannot, as the buffers are passed around in
turn; they also bound how often an exchange can fail. Four handles are one more
than the pool holds (`TargetSurfaceCount` is 3, of the code's 10), so that it
evicts, and two commands let a release be on the way while the next texture is
sent. Three writes let the policy change between two reads and once more between
the next two, or be withdrawn and come back. Three sessions keep a crash of the
last one and of an earlier one apart; two seconds keep a crash before a start
from one after it, and let both fall in the same; two threads are enough for one
to crash while the other reports, and a second crash of the reporting thread
nests. Symmetry is used with invariants and for step properties that name no
element; never with liveness.

Fairness. Event loops keep taking messages and threads keep running (weak
fairness of handlers). The host's engine collects an event object that nobody
replied to (`CollectEvent`): `init` has `gcInterval` for it, and without it the
property is no better than the engine's schedule. No proxy or stub need ever be
collected, no call made, no renderer closed. Strong fairness is assumed for
finalization callbacks of stubs, which the bound of a lane disables now and
then, and in `DirectConnection` for what a thread has to do between stretches
of script: handlers and event listeners return, calls and connections are taken
in. Blocking calls of the watchdog's main sequence need not return. The compositor
goes on rendering and the main thread gets to its tasks; the producer need not
produce, nor memory fail or open. Windows gives the notice it owes, the UI thread
runs its tasks and mojo delivers to a network service that lives. A thread that
reports a crash goes on, that is, the functions of Windows it calls return, with
or without success (`CrashEnds`); nothing on macOS is assumed to happen.

Deadlock is not checked where the system may stop: contexts that all exited, a
process that was terminated, bounded deaths, a producer without another frame.

## 4. Where the code differs from what it says

One is a run that TLC refutes, listed under "findings" in `PROJECT.json`:
`WatchdogStopSuspended` (`StopAlwaysReturns`). Stopping a watchdog between
`OnSuspend` and `OnResume` never returns, for its thread waits for an event
that only the stopping sequence could signal.

The same models show these when a constant of a passing run is changed:

| Change | Then TLC refutes | For |
| --- | --- | --- |
| `RemoteObjects`: `Features = {"promiseResult"}`, `MaxPending = 1` | `UsableIsBacked` | the Dereference of a collected proxy crosses the result of a promise that hands out the same object; the new proxy is dead |
| the same | `ReferencesComeBack` | a promise that settles after its context's release adds an owner nobody clears |
| `RemoteObjects`: `Features = {"functionProperties"}` | `ReferencesComeBack` | the id of a function whose properties were loaded is never returned |
| `RemoteObjects`: `Features = {"directChannel"}` | `UsableIsBacked` | a call on the new lane overtakes a Dereference on the old one |
| `ObjectsRegistry` alone under `RegistrySpec` | `OwnedIdsAreStored` | a second Dereference of one context takes the reference of another; clients send each once (`DisciplinedSpec`), so it takes one that does not |
| `RemoteCallbacksLive`: `Uses = {"resend"}` | `HeldStubFindsFunction` | a function passed again while the release of its old stub is on the way keeps its id and is then removed: the host's new stub calls nothing |
| `RemoteCallbacksLive`: `Uses = {"directChannel"}` | `HeldStubFindsFunction` | a release on the new lane overtakes an invocation on the old one |
| `Watchdog`: `SleepWaits = FALSE` | `NoCrashForSleep` | a sleep before `OnSuspend` has run counts as a hang |
| `Watchdog`: `DeletesInOrder = FALSE` | `TerminationIsTold` | where an open file can be deleted (not on Windows), the deletion for a stopped watchdog overtakes the opening for the next one, or falls after it, and takes the new file's name away |
| `VideoPlayer`: `AnyFormat = TRUE` | `OpaqueOnlyIfOpaque` | the layer is created with the transparency of the frame that asked for it; a transparent frame taken meanwhile does not change it, and is shown on an opaque layer until the next frame is taken |
| `DirectConnectionLive`: `RelayPairs <- Everyone` | `CallsReturn` | a circle of calls with one over the browser's relay waits for ever |

By the way they are stated, some properties leave out what the code does not
give.

*Remote objects.* When the host's page is loaded again, its registry begins with
id 1 again, and clients keep their proxies. Messages carry the client's
`contextId` and none of the host's, so a proxy of the former page would reach
another object. Nothing in `remote-client.ts` notices; it is left to the
application to load the clients again with their host.

*Watchdog.* A hang that begins while the watchdog is suspended is not terminated
(`HangIsTerminated` requires `resumed`). The page is told of a termination only
if its watchdog had its file open: one that ran before the file came is not, nor
are later pages of a process whose entry was taken by an earlier one
(`TerminationIsTold`). What is blamed may have returned by the time the process
ends, for the log is written while the main sequence runs on, and it may have been
entered after the give-up; the name may be torn, or empty when a nested call
returned in the outer one. A process that is killed after its log was written is
told of like one the watchdog ended. `BlameIsTrue` allows each of these, as the
comment at `watchdog.cc:299` accepts the race, and nothing else.

*Connections.* A connection request to a crashed renderer gets no answer and
closes the requester's browser pipe (`RequestsAreAnswered` excepts it). A
synchronous call on a closed browser pipe returns `undefined`.
`direct_connection_manager.cc:110` uses an iterator after the event ran script
that may have changed the map; what that gives is undefined and not modelled.

*Player and textures.* When the memory of a frame does not open, the buffers are
swapped all the same: the frame is lost and the video frame that stays is in a
buffer the producer has again; a frame of no size before there is a layer leaves
the old one likewise (`ShownFrameIsHeld` excepts both). The layer may be created
a second time when the main thread finishes between the look at `video_layer_`
and the flag (`OneCreationAtATime` rules out two at a time). A texture or memory
that its producer withdrew makes the command that names it fail, and with the
failed command the context is lost for every user of the decoder.

*Tenant restrictions.* `GetPayload` lets a cloud id of up to 38 characters
through (`trv2_utilities_win.cc:68`), a GUID in braces for example, which makes a
payload of 112. The network service refuses more than 110
(`trv2_policy.cc:32`: "Max length is 3 guids + 2 separator characters"), and the
manager makes its policy by the constructor that "Requires pre-validated
parameters" (`trv2_policy.cc:74`), of which only a DCHECK knows. So the manager
has the policy in force, and the service keeps what it had, none or the one
before, for as long as it stays. `PolicyTakesEffect` excepts such payloads, and
`ServiceFollowsManager` speaks of a policy that the service accepts. A change
of the host list alone is noticed by nobody: a list that comes after the payload,
and after the browser has looked, makes no policy until the next notice (`unseen`
in `InForce` and `PolicyTakesEffect`). A host list that changes under the same payload is not
taken over (`QuietMeansInForce` and `PolicyTakesEffect` speak of the payload and
of the hosts in force), and a network service that was restarted knows no policy
until the next change (`PolicyTakesEffect` excepts it, by `forgotten`).

*Crashes.* A crash in code that V8 generated is in no module; the handler reads
the header of the module it did not find (`wer_api_win.cc:178`), crashes itself,
and reports the second crash in place of the first. `HandleInvalidParameter`
whose report fails to be created lets the process go on. `didLastSessionCrash`
is documented as "Did last session crash or not"; `LastCrashIsTold` and
`NoFalseAlarm` say what it gives: it counts completed reports only, so a crash
whose report is still pending is not told; it counts those of children as of the
browser, and a report written since the present session's start; a crash and a
start in the same second are taken for one after the other; and on Windows it is
always false. An upload whose answer is lost is made again, under the id of the
session that repeats it, and App Center then has two logs of one crash
(`UploadedIsThere` says that it has one at least).

## 5. The proofs

**RemoteObjectsProofs, the registry.** `RegistryIInv`, the inductive invariant of
`RegistrySpec`, has three conjuncts: the types, `IdsAndObjectsMatch`, and that
the set of contexts in `owners` is finite, which it is because each step adds
one at most and without which a count of holders would mean nothing. The types
give `RegistryTypeCorrect`; the match of the two maps gives
`RegistryIdsMatch` and, as an object keeps its entry and new ids exceed
all old ones, the action property `RegistryNeverReusesIds`. On top of it
`CountsStep` shows that each operation keeps every count positive and at most
the number of its holders; the cardinality lemmas for one context entering or
leaving a set of holders are what it needs. `RegistryCountsAtMostHolders` and
`RegistryKeepsNothingWithoutOwner` follow. For `DisciplinedSpec`,
`DisciplinedIInv` adds `CountsAreExact` and `OwnedIdsAreStored`, which are
inductive only together: that a context's id is stored makes its count one of
the exact ones, and an exact count is what keeps an entry while another context
owns it. `DisciplinedFreesUnheld` is the step property that follows. The only
assumption is `MaxIdAssumption`, that the bound of the ids is a number.

**RemoteObjectsProofs, clients and host.** `RemoteImplementsRegistry`: each step of the whole
system is a registry step or leaves the registry alone. The one that needs an
argument is that a Dereference names an id in range, hence the conjuncts on the
ids clients can send. `RemoteNeverAliases`: with all features, what a context
holds, has on its way or is about to receive was issued by the registry for
that object (`ClientIssued`, `NetworkIssued`, and `LanesOK` for the shape of
the lanes), and issued ids keep their object (`StepKeepsIds`). This is the
safety that remains when the protocol's races strike: a stale proxy fails, and
reaches no other object. `ClearedAreFinalized`, also with all features, is from
`FinalizersInv`: an entry is cleared only by a collection, which owes a callback,
and a callback that comes takes away at most the entry it came for.

Three theorems assume `Features = {}`, without which section 4 shows what they
state to fail. `PlainInv` adds to the registry's `DisciplinedIInv` what every
client does with its queue. A call that awaits its reply, and the release of the
context, are the last messages of it, so that when a reply is there the queue is
empty (`Protocol`). A reference goes back once and behind all calls on its id
(`GivenBackOnce`); what is cached or on its way is owned (`InUse`); and what is
owned is in the cache, on its way back or in the reply (`Tracked`). The three
are inductive only together: a reply may bring an id whose Dereference was just
handled, and it is `Protocol` that excludes one still on its way. A step of one client leaves
the others as they are (`Apart`), as the registry's actions do but for counts.
`RemoteIsDisciplined` carries all theorems about `DisciplinedSpec` over to the
system (`RemoteCountsExact`), as `RemoteImplementsRegistry` does those about
`RegistrySpec` (`RemoteNeverReusesIds`); `UsableAreBacked` and
`ReferencesAllComeBack` follow.

**VideoPlayerProofs.** First the buffer alone. `BufferInv`: the three indices are three (`RolesAreApart`),
what is ready and new was written, and so is what the producer is about to make
ready (`PublishedIsWritten`). `WordParts` is the arithmetic of the word, from
which the two swaps follow as facts about indices, and no later proof looks at
the integer again. `BufferImplementsLatest`: the exchanges that succeed are
Publish and Take, and no other step is seen, for what the producer fills is
neither ready nor read. For any set of frames.

Then the player. `PlayerInv` adds that a frame is held until `Render` is
done with it, that the mapped memory and the shown frame are those of the held
index, and that frames are the newer the further from the screen they are
(`FramesInOrder`, without which a swap might go back). `PlayerStepsBuffer` makes
every step of the player one of the buffer or none, hence
`PlayerImplementsLatest`; `PlayerMapsTheFrame`, `PlayerShowsWhatItHolds` and
`PlayerNeverGoesBack` follow from the invariant, for any number of frames and
memories. Assumed is only what a frame is (`PlayerAssumption`).

Two theorems are about its layer. `LayersOneAtATime` is inductive with the types
of the queue (`LayerInv`), stated by places of the queue rather than by a
cardinality. `LayerIsAsItsFrame` assumes `~AnyFormat`, that frames are opaque
until there is a layer, without which it fails (section 4). Its invariant
`OpaqueInv` says what comes first (`LayerComesFirst`), that nothing is
transparent until there is a layer, queued tasks and buffered frames included
(`AllOpaque`), and that from then on the last change in the queue, or the layer if
there is none, is as the player's format, and that as its frame
(`OpaqueFollows`). A change of the format is queued before the player rests, and
the queue is in order: this is why tests and assignments of two threads come out
right.

**TenantRestrictionsProofs.** `SeenSoFar` is the inductive invariant: while no
notice is owed and none waits, what the thread has read so far is what the
system says (`View`), step by step: there is a payload, the payload read is the
one there, what is cached is the view, and at rest it is in force. A write owes
a notice and so makes it void; reading starts again when the notice is taken.
`WatcherSteps` says that the policy is read at its use only without a watcher.
`NoChangeIsMissed` and `EndedByTheSystem` follow. `ServiceFollows` is inductive
by itself with the types, by the order of the pipe: what is sent is what the
manager has, and what the service accepts it rebuilds as it was sent
(`AcceptedAsSent`). The types are a theorem of their own (`TenantTypes`); they say
of the service that no payload in it is too long. For any payloads, whichever of
them are too long, any hosts and number of writes; `TenantAssumption` only keeps the special values apart.

**CrashHandlingProofs.** `CrashInv`, for any number of
sessions, seconds, reports and attempts, has one conjunct per claim about time or
uploads: everything happened by now and in a session there has been
(`PastTimes`); a browser's crash ends its session and is no earlier than what
that session wrote or will read (`LastCrashIsLater`, which speaks of the file
until the next session has read it and of what was read from then on, for the
file is overwritten in between); what is older than a session that wrote its
time has no later time (`OlderCrashesAreEarlier`); and an upload that is
answered has left its log (`JobsAreOfReports`). Proved of `CrashReports`, it is
carried over to the composition together with `WerInv`, by which a report that a thread
is at is no further than its calls that succeeded. `ReportsWhole`,
`LastCrashTruthTold`, `NoAlarmForOlderCrashes` and `UploadedIsReceived` follow.

**RemoteCallbacksProofs.** `CallbacksInv`, for any functions, ids, pages and
lengths of the lanes, with all options: each key anywhere, in a stub, the cache or
a message of either lane, is of a page there has been, and if of the present one
names an id that was given and, while that is registered, its function
(`KeysAreKnown`). It is inductive since ids are not given again within a page
and a reload forgets all of them: `MessagesReachTheirFunction`. For
`RegisteredIsTracked` the case to look at is the finalizer of a stub, which posts
the release with the same step that deletes the cache entry:
`NoCallbackIsForgotten`.

`HeldStubsFindFunctions` assumes `Uses = {}`, without which it fails: a function that is
passed again while its release is on its way keeps its id and loses it, and two
lanes have no order. `StubsInv` then says that what the host has, or is about to
have, is registered (`HeldIsRegistered`), that the id of a call on its way is
that of no other call and no stub (`PassedOnce`), and that a release in the lane is
the last of its id: no stub, no call and no invocation behind it
(`ReleaseIsLast`). That two keys of a page with one id are the same key, which the
release of the first would make a lie of otherwise, is `KeysAreKnown`.

**DirectConnectionProofs.** `ConnectionInv`, for any renderers, pairs, calls and
deaths, relates what one renderer keeps (`Settled`): a request that is out is
for a pending target that is not connected and not announced, a pending target
has a request or an event that announces its answer, and an event is at the bottom
of its stack (`EventsFirst`), for it comes in a task of its own. Without the last,
the pending entry erased when one event returns might be one that another
announces. `EventsUntouched` covers at once all steps that leave events and
requests alone, every synchronous call among them; dropping the requests of a
closed pipe leaves them pending, and so is one of these. `ScriptKnowsTheLane`
and `AnswersMeetRequests` follow.

Two more invariants are for the calls. `ServicesInv` says what the types alone do
not keep: a disconnect handler is to run only for a service that is in the map,
and the browser passes no request of a renderer to the renderer itself. With it
goes that the calls a renderer is in are as many as the calls it has started and
not finished (`FewCalls`), and `ConnectionTypesHold` follows. `CarriageInv`
names each call by the place of its frame in the caller's stack: a frame that
serves a call, and a message to or from a live renderer, is of a call that is
made, and a call that is made has either one message on its way or one open
frame that serves it. A place in a stack, and with it a name, is used again only
when the reply has gone with its frame. When a call fails because its pipe
closes or its target dies, the frames that served it are orphaned in the step that
posts the error; otherwise they might answer a second time. `CallsCarriedOnce`
follows, for any nesting of calls.

`NoneAreStuck` is the freedom from deadlock, as a safety property: in every group of
renderers that wait, one has its call answered, on its way to a renderer that runs
or takes it in, or served by one that runs or is outside the group; else the
browser's relay brought it to a renderer that waits. It is said of groups, not
of pairs, so that it covers circles of any length and renderers that wait for a
circle. Two invariants lead to it. `ArrivalInv` says where a call can be: a
request that somebody waits for goes to a renderer that lives (`RequestsArrive`,
which needs that a service whose process died has its disconnect handler to
run), and the dead have no frames; so whoever waits either goes on or waits for
another that waits (`WhereACallIs`). `InOrder` says that the frames of all
stacks can be ranked such that ranks rise up each stack and a frame that serves
a call is above the call's. No variable keeps such an order and none need: the
invariant asks that one exists, and a frame that is pushed gets the next rank
(`OrderWhenPushed`). Who waits then waits for a renderer whose last call has a higher
rank (`WaitingRises`), and among the ranks of a group one is the greatest. That a
group which is not stuck gets its answers in the end, under fairness, is
`CallsReturn`, which TLC checks.

**WatchdogProofs.** `WatchdogInv`, for any calls, any depth of them and any
number of tasks: a flag that is set has a task on its way that clears it
(`FlagHasATask`), so that a thread which finds it set twice looks at a main
sequence that did not get to its task; a watchdog that is stopped has been told
so; `blocking_api_` names a call the process is in (`ApiIsTrue`); from the
give-up on, these are suspects (`CallsAreSuspect`); and what is read, written and
told names no other call, and is there only after the give-up (`LogIsTrue`).
`CrashesWhatIsStuck` and `BlamesTruly` follow. Two more invariants rest on
assumptions that the theorems name, since the code has them from its surroundings: `SleepIsNoHang` on
`SleepWaits` gives `SpareTheSleeping`, and `FileIsKept` on `DeletesInOrder`
gives `TellsOfTermination`; section 4 shows both assumptions to be needed.

The steps behind `StopReturns` and `HangIsTerminated` are proved too, where TLC
alone can conclude from them, and from fairness, that something happens.
`StandInv` says where the thread can be: told to exit only by a stop, parked only
for a suspension, which needs the monitor (`PlacesFit`), and with room in the
queue for the task it posts, since the flag it has set is cleared by a task
that leaves (`RoomForATask`). So `ThreadAlwaysGoesOn`: the thread of a living process
can go on, or has exited and is joined, or is parked, which is the case of
`StopAlwaysReturns` in section 4. And each of its steps lowers a measure that no other
step raises: the way to the exit while it is being stopped (`StopsAdvance`), and to
the termination while the main sequence is blocked (`HangsAdvance`).

**TextureSharingProofs.** Both invariants, for any updaters, streams, handles,
memories, size of the pool and length of the command buffer. The first half is
about one sequence of distinct handles. `UseOfOld` says where each element is
after `std::find`, `erase` and `push_back`; `EndOfOld` and `EndOfNew` that a use
of the same handle in two sequences, of which one is the end of the other,
leaves one that is the end of the other, be the handle in both, in the longer
alone or in neither. `PoolInv` then says that `use_` is the end of all handles of
its stream and as long as the pool allows, and that `texture_map_` has the same
handles: `GetTextureHolds` shows it for the three outcomes, and
`PoolsHoldTheLatest` follows. That the pool is full just when the stream used
that many handles is needed, for a pool which evicted too early would also be an
end.

`ClaimsInv` is for `KeptForUsers`. That each stream the decoder has is shown
or about to be released is not inductive: a copy that waits in the command buffer
makes the stream when its updater may be long gone. So each copy and each update
on its way has a claim behind its own place: an updater that shows the stream,
or a release that comes later (`StreamClaimed`, `NameClaimed`). An updater that
drops a stream or a memory sends the release in the same step, behind everything
there is (`ClaimsWhenSent`), and what is executed is at the head
(`ClaimsWhenExecuted`). It holds after a failed command too, where nothing is
executed any more.

Only model-checked: liveness and everything under fairness.

## 6. Plan

The runs are kept few, one per question; a new module brings one run with its
safety and liveness properties together. What is left, in this order:

1. In `RemoteObjects`: a host page that is loaded again, with the page each proxy
   is of, for what is promised of the present page.
2. In `VideoPlayer`: texture handles with the loss of their context, an invalid
   sink, destruction.
3. The accounting of `memory_info`, the section policy and delay loading, as
   pure operators.

Not planned: the upload with Breakpad on Linux, whose database is another
project's; the watchdog's pinging and the names of the constant cache, which are
data; bindings, startup metrics, the CPU profiler, the video element (no state
of their own); COM helpers, scripts, patches and pipelines (other projects'
code, or no part of the running program).
