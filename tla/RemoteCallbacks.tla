--------------------------- MODULE RemoteCallbacks ---------------------------
(***************************************************************************)
(* Functions a renderer passes to the host: the client's callbacks         *)
(* registry (src/electron/lib/renderer/callbacks-registry.ts) and the      *)
(* host's cache of the stubs it made for them (rendererFunctionCache of    *)
(* api/remote-server.ts), the mirror image of RemoteObjects.               *)
(*                                                                         *)
(* The client registers a function when it wraps it as an argument and     *)
(* keeps it until the host says Release, which the host does when its stub *)
(* has been collected.  The host's keys carry the context id, so that the  *)
(* callbacks of a page that was reloaded are not those of the new page.    *)
(*                                                                         *)
(* Contexts share nothing here, so one renderer is modelled, with the      *)
(* pages it shows one after the other.  Synchronous calls carry callbacks  *)
(* too; they only delay the client's handlers and are not told apart.      *)
(***************************************************************************)
EXTENDS Integers, FiniteSets, Sequences

CONSTANTS
  CallbackFunctions,  \* functions of a page that can be passed to the host
  Uses,               \* the optional behaviours that happen
  MaxPage,            \* bound: pages the renderer shows
  MaxCallbackId,      \* bound: callback ids of one page
  MaxMessages,        \* bound: messages in one lane
  MaxClearedStubs     \* bound: finalization callbacks to come for one key

AllUses ==
  {"resend",         \* the same function is passed again
   "directChannel"}  \* the lanes change when a direct channel connects

ASSUME CallbacksAssumption ==
  /\ Uses \subseteq AllUses
  /\ MaxPage \in Nat \ {0} /\ MaxCallbackId \in Nat
  /\ MaxMessages \in Nat /\ MaxClearedStubs \in Nat

VARIABLES
  page,         \* the renderer's current contextId
  nextCallback, \* CallbacksRegistry.nextId
  callbacks,    \* CallbacksRegistry.callbacks: id -> function
  passed,       \* functions of the page passed so far
  stubs,        \* keys of the callIntoRenderer functions the host can reach
  stubCache,    \* keys with an entry in rendererFunctionCache
  cleared,      \* key -> finalization callbacks still to run
  callLane,     \* the lane the client's messages take
  invokeLane,   \* the lane the host's messages take
  calls,        \* lane -> calls in flight, each with a callback
  invokes       \* lane -> Invoke and Release messages in flight

clientSide == <<page, nextCallback, callbacks, passed, callLane>>
hostSide == <<stubs, stubCache, cleared, invokeLane>>
callbackVars == <<clientSide, hostSide, calls, invokes>>

CallLanes == {"browser", "direct"}

(* The key `${contextId}~${objectId}`, and the function it was made for,   *)
(* which the program does not know and the properties talk about.          *)
Key(p, id, f) == [page |-> p, id |-> id, function |-> f]
Keys == [page : 1 .. MaxPage, id : 1 .. MaxCallbackId, function : CallbackFunctions]

ToClient(op, key) == [op |-> op, key |-> key]

Post(network, lane, m) ==
  /\ Len(network[lane]) < MaxMessages
  /\ network' = [network EXCEPT ![lane] = Append(@, m)]

(***************************************************************************)
(* CallbacksRegistry.                                                      *)
(***************************************************************************)
Added(f) == \E id \in DOMAIN callbacks : callbacks[id] = f

CallbackIdFor(f) ==
  IF Added(f) THEN CHOOSE id \in DOMAIN callbacks : callbacks[id] = f
  ELSE nextCallback + 1

AddCallback(f) ==
  LET id == CallbackIdFor(f) IN
  /\ id <= MaxCallbackId
  /\ nextCallback' = IF Added(f) THEN nextCallback ELSE nextCallback + 1
  /\ callbacks' = [i \in DOMAIN callbacks \cup {id} |-> IF i = id THEN f ELSE callbacks[i]]

(* Mutation: only the id of the function is deleted.                       *)
RemoveIdOnly(id) == UNCHANGED callbacks

(* callbackIds is the inverse of callbacks: both change together.          *)
RemoveCallback(id) == callbacks' = [i \in DOMAIN callbacks \ {id} |-> callbacks[i]]

(***************************************************************************)
(* The client.                                                             *)
(***************************************************************************)

(* A call with function f among its arguments (wrapArgs).                  *)
CallWith(f) ==
  /\ f \in passed => "resend" \in Uses
  /\ AddCallback(f)
  /\ passed' = passed \cup {f}
  /\ Post(calls, callLane, Key(page, CallbackIdFor(f), f))
  /\ UNCHANGED <<page, callLane, hostSide, invokes>>

(* Mutation: the handler does not look at the context id it was passed.    *)
AnyContext(m) == TRUE

(* handleMessage drops what was meant for another context.                 *)
MeantForPage(m) == m.key.page = page

(* Mutation: a callback is forgotten once it has been applied.             *)
ApplyOnce(id) == RemoveCallback(id)

(* CallbackInvoke: apply runs the callback of the id, or nothing at all.   *)
Apply(id) == UNCHANGED callbacks

HandleMessage(lane) ==
  /\ invokes[lane] # <<>>
  /\ invokes' = [invokes EXCEPT ![lane] = Tail(@)]
  /\ LET m == Head(invokes[lane]) IN
     \/ ~MeantForPage(m) /\ UNCHANGED callbacks
     \/ MeantForPage(m) /\ m.op = "Invoke" /\ Apply(m.key.id)
     \/ MeantForPage(m) /\ m.op = "Release" /\ RemoveCallback(m.key.id)
  /\ UNCHANGED <<page, nextCallback, passed, callLane, hostSide, calls>>

(* The page is replaced: a new context id and an empty registry.           *)
Reload ==
  /\ page < MaxPage
  /\ page' = page + 1
  /\ nextCallback' = 0
  /\ callbacks' = [id \in {} |-> {}]
  /\ passed' = {}
  /\ UNCHANGED <<callLane, hostSide, calls, invokes>>

ConnectToHost ==
  /\ "directChannel" \in Uses
  /\ callLane = "browser"
  /\ callLane' = "direct"
  /\ UNCHANGED <<page, nextCallback, callbacks, passed, hostSide, calls, invokes>>

(***************************************************************************)
(* The host.                                                               *)
(***************************************************************************)

(* unwrapArgs: getCachedRendererFunction, or else a new stub, which takes  *)
(* over the cache entry and is registered for finalization.                *)
HandleCallWith(lane) ==
  /\ calls[lane] # <<>>
  /\ calls' = [calls EXCEPT ![lane] = Tail(@)]
  /\ stubs' = stubs \cup {Head(calls[lane])}
  /\ stubCache' = stubCache \cup {Head(calls[lane])}
  /\ UNCHANGED <<clientSide, cleared, invokeLane, invokes>>

(* The host calls a stub: callIntoRenderer.                                *)
Invoke(key) ==
  /\ Post(invokes, invokeLane, ToClient("Invoke", key))
  /\ UNCHANGED <<clientSide, hostSide, calls>>

CollectStub(key) ==
  /\ cleared[key] < MaxClearedStubs
  /\ stubs' = stubs \ {key}
  /\ cleared' = [cleared EXCEPT ![key] = @ + 1]
  /\ UNCHANGED <<clientSide, stubCache, invokeLane, calls, invokes>>

(* Mutations: the entry is deleted without a message when a new stub has   *)
(* taken it over; the new stub is not looked for.                          *)
DeleteEntry(key) ==
  /\ IF key \in stubCache \ stubs
     THEN Post(invokes, invokeLane, ToClient("Release", key))
     ELSE UNCHANGED invokes
  /\ stubCache' = stubCache \ {key}
ReleaseAnyStub(key) ==
  IF key \in stubCache
  THEN /\ Post(invokes, invokeLane, ToClient("Release", key))
       /\ stubCache' = stubCache \ {key}
  ELSE UNCHANGED <<stubCache, invokes>>

ReleaseStub(key) ==
  IF key \in stubCache \ stubs
  THEN /\ Post(invokes, invokeLane, ToClient("Release", key))
       /\ stubCache' = stubCache \ {key}
  ELSE UNCHANGED <<stubCache, invokes>>

(* The FinalizationRegistry callback of a stub.                            *)
RunStubFinalizer(key) ==
  /\ cleared[key] > 0
  /\ cleared' = [cleared EXCEPT ![key] = @ - 1]
  /\ ReleaseStub(key)
  /\ UNCHANGED <<clientSide, stubs, invokeLane, calls>>

ConnectToClient ==
  /\ "directChannel" \in Uses
  /\ invokeLane = "browser"
  /\ invokeLane' = "direct"
  /\ UNCHANGED <<clientSide, stubs, stubCache, cleared, calls, invokes>>

(***************************************************************************)
(* The system.                                                             *)
(***************************************************************************)
CallbacksInit ==
  /\ page = 1 /\ nextCallback = 0
  /\ callbacks = [id \in {} |-> {}]
  /\ passed = {}
  /\ stubs = {} /\ stubCache = {}
  /\ cleared = [key \in Keys |-> 0]
  /\ callLane = "browser" /\ invokeLane = "browser"
  /\ calls = [lane \in CallLanes |-> <<>>]
  /\ invokes = [lane \in CallLanes |-> <<>>]

CallbacksNext ==
  \/ \E f \in CallbackFunctions : CallWith(f)
  \/ \E lane \in CallLanes : HandleMessage(lane) \/ HandleCallWith(lane)
  \/ Reload
  \/ ConnectToHost
  \/ \E key \in stubs : Invoke(key) \/ CollectStub(key)
  \/ \E key \in Keys : RunStubFinalizer(key)
  \/ ConnectToClient

CallbacksSpec == CallbacksInit /\ [][CallbacksNext]_callbackVars

(* Both event loops take the messages of each lane, and the host's engine  *)
(* runs the finalization callbacks it has scheduled (strong fairness, for  *)
(* the bound of the lane disables them now and then, which nothing in the  *)
(* program does).  No stub need ever be collected.                         *)
CallbacksFairness ==
  /\ \A lane \in CallLanes : WF_callbackVars(HandleMessage(lane))
  /\ \A key \in Keys : SF_callbackVars(RunStubFinalizer(key))

CallbacksLiveSpec == CallbacksSpec /\ CallbacksFairness

(***************************************************************************)
(* Properties.                                                             *)
(***************************************************************************)
(* The variables have their types; a stub always has a cache entry, which  *)
(* finalization callbacks of older stubs leave alone.                      *)
CallbacksTypeOK ==
  /\ page \in 1 .. MaxPage
  /\ nextCallback \in 0 .. MaxCallbackId
  /\ DOMAIN callbacks \subseteq 1 .. nextCallback
  /\ callbacks \in [DOMAIN callbacks -> CallbackFunctions]
  /\ passed \subseteq CallbackFunctions
  /\ stubs \subseteq stubCache /\ stubCache \subseteq Keys
  /\ cleared \in [Keys -> 0 .. MaxClearedStubs]
  /\ callLane \in CallLanes /\ invokeLane \in CallLanes
  /\ \A lane \in CallLanes :
       /\ calls[lane] \in Seq(Keys)
       /\ invokes[lane] \in Seq([op : {"Invoke", "Release"}, key : Keys])

(* Whatever is delivered late, re-sent or reordered, across reloads too, a *)
(* message never reaches a function other than the one its stub stands     *)
(* for: the host never calls, or releases, the wrong callback.             *)
NeverAnotherFunction ==
  \A lane \in CallLanes : invokes[lane] # <<>> =>
    LET m == Head(invokes[lane]) IN
    MeantForPage(m) /\ m.key.id \in DOMAIN callbacks =>
      m.key.page = page /\ callbacks[m.key.id] = m.key.function

(* A function the host still holds a stub for is registered at the client, *)
(* and so is that of each invocation that arrives.  Otherwise apply runs   *)
(* an empty function: the call is lost without an error, and a promise     *)
(* behind it never settles.                                                *)
HeldStubFindsFunction ==
  /\ \A key \in stubs : key.page = page => key.id \in DOMAIN callbacks
  /\ \A lane \in CallLanes : invokes[lane] # <<>> =>
       LET m == Head(invokes[lane]) IN
       m.op = "Invoke" /\ m.key.page = page => m.key.id \in DOMAIN callbacks

OnItsWay(network, id) ==
  \E lane \in CallLanes : \E i \in 1 .. Len(network[lane]) :
    network[lane][i].page = page /\ network[lane][i].id = id
BeingReleased(id) ==
  \E lane \in CallLanes : \E i \in 1 .. Len(invokes[lane]) :
    LET m == invokes[lane][i] IN
    m.op = "Release" /\ m.key.page = page /\ m.key.id = id

(* A registered callback is not forgotten by the host: its id is on the    *)
(* way to the host, in the host's cache, or on its way back.               *)
RegisteredIsTracked ==
  \A id \in DOMAIN callbacks :
    \/ OnItsWay(calls, id)
    \/ Key(page, id, callbacks[id]) \in stubCache
    \/ BeingReleased(id)

(* A function whose stub has been collected does not stay registered for   *)
(* ever, unless the page passes it again.                                  *)
CollectedIsReleased ==
  \A key \in Keys :
    key \in stubCache \ stubs
      ~> key \in stubs \/ key.page # page \/ key.id \notin DOMAIN callbacks
==============================================================================
