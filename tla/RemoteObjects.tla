---------------------------- MODULE RemoteObjects ----------------------------
(***************************************************************************)
(* Remote objects between renderer contexts (clients) and one host         *)
(* renderer: remote-client.ts on one side, remote-server.ts with its       *)
(* objects registry on the other, under src/electron/lib/renderer/api.     *)
(*                                                                         *)
(* A client context holds proxies in a cache of weak references.  When a   *)
(* proxy is collected, a finalization callback sends a Dereference for its *)
(* id; when the page exits, a ContextRelease.  Results reach a client in   *)
(* the reply of a synchronous call, for which the client blocks, or as an  *)
(* argument of a callback the host invokes later.                          *)
(*                                                                         *)
(* A message goes over the browser process, or over the direct channel     *)
(* once the sender's DirectConnectionManager has one.  Each lane is FIFO,  *)
(* nothing orders the two, and a reply overtakes every message to the      *)
(* waiting client, whose event loop stands still.                          *)
(***************************************************************************)
EXTENDS ObjectsRegistry, Sequences

CONSTANTS
  NoObject,   \* what a meta carries when the value is no remote object
  Features,   \* the optional behaviours the application makes use of
  MaxQueue,   \* bound: messages in one lane of one context
  MaxPending, \* bound: promises of one context until it has their result
  MaxCleared  \* bound: finalization callbacks to come for one id

AllFeatures ==
  {"promiseResult",      \* a promise of the host resolves to a remote object
   "functionProperties", \* properties of a remote function are read
   "directChannel",      \* enableDirectChannel: the lanes change on connect
   "unclonableReply",    \* a reply that structured clone refuses
   "crash"}              \* a renderer dies without an exit event

ASSUME RemoteAssumption ==
  /\ NoObject \notin Objects
  /\ Features \subseteq AllFeatures
  /\ MaxQueue \in Nat /\ MaxPending \in Nat /\ MaxCleared \in Nat

VARIABLES
  client,      \* context -> what its thread does
  proxies,     \* context -> the proxies script can reach: id -> object
  cache,       \* context -> ids with an entry in remoteObjectCache
  pinned,      \* context -> ids that loaded function properties refer to
  finalizers,  \* context -> id -> finalization callbacks still to run
  clientLane,  \* context -> the lane its messages take
  hostLane,    \* context -> the lane the host's messages to it take
  toHost,      \* context -> lane -> messages in flight to the host
  toClient,    \* context -> lane -> callback arguments in flight to it
  replies,     \* context -> the reply in flight, if any
  pending      \* context -> promises the host has still to settle

clientVars == <<client, proxies, cache, pinned, finalizers>>
laneVars == <<clientLane, hostLane>>
netVars == <<toHost, toClient, replies, pending>>
remoteVars == <<registryVars, clientVars, laneVars, netVars>>

Lanes == {"browser", "direct"}

(***************************************************************************)
(* Values and messages.                                                    *)
(***************************************************************************)

(* What a meta names: an id with the object it describes, or a plain value *)
(* (id 0; ids in use start at 1).                                          *)
Plain == [id |-> 0, object |-> NoObject]
MetaOf(o) == [id |-> IdFor(o), object |-> o]
Metas == [id : 0 .. MaxId, object : Objects \cup {NoObject}]

Message(op, id) == [op |-> op, id |-> id]
Messages ==
  [op : {"Require", "Call", "CallAsync", "Dereference", "ContextRelease"}, id : 0 .. MaxId]

InFlight(c) == UNION {{toHost[c][l][i] : i \in 1 .. Len(toHost[c][l])} : l \in Lanes}

(* RemoteClient.send and sendSync: the lane is chosen when sending.        *)
Send(c, m) ==
  /\ Len(toHost[c][clientLane[c]]) < MaxQueue
  /\ toHost' = [toHost EXCEPT ![c][clientLane[c]] = Append(@, m)]

(***************************************************************************)
(* The client's cache of proxies.                                          *)
(***************************************************************************)
Proxied(c, id) == id \in DOMAIN proxies[c]
Cached(c, id) == id \in cache[c]

(* getCachedRemoteObject: the entry's weak reference still has its proxy.  *)
Live(c, id) == Cached(c, id) /\ Proxied(c, id)

(* Ids a call of c can name: those of its proxies and of the properties    *)
(* loaded into its remote functions.                                       *)
Nameable(c) == DOMAIN proxies[c] \cup pinned[c]

(* metaToValue: the live proxy of the id, or a new one, which enters the   *)
(* cache or replaces a cleared reference there.                            *)
MetaToValue(c, meta) ==
  IF meta = Plain \/ Live(c, meta.id)
  THEN UNCHANGED <<proxies, cache>>
  ELSE /\ proxies' = [proxies EXCEPT ![c] =
            [id \in DOMAIN @ \cup {meta.id} |-> IF id = meta.id THEN meta.object ELSE @[id]]]
       /\ cache' = [cache EXCEPT ![c] = @ \cup {meta.id}]

(***************************************************************************)
(* Client actions.  A client that waits for a reply runs nothing else: no  *)
(* finalization callback, no message handler, no script.                   *)
(***************************************************************************)

(* require: ask the host for a module.                                     *)
Require(c) ==
  /\ client[c] = "running"
  /\ Send(c, Message("Require", 0))
  /\ client' = [client EXCEPT ![c] = "waiting"]
  /\ UNCHANGED <<registryVars, proxies, cache, pinned, finalizers, laneVars, toClient, replies, pending>>

(* A synchronous call, construction, get or set on a remote object.        *)
CallSync(c, id) ==
  /\ client[c] = "running"
  /\ Send(c, Message("Call", id))
  /\ client' = [client EXCEPT ![c] = "waiting"]
  /\ UNCHANGED <<registryVars, proxies, cache, pinned, finalizers, laneVars, toClient, replies, pending>>

(* A call of a method that returns nothing or a promise: no reply.  For a  *)
(* promise, the arguments end with a callback that settles it.             *)
CallAsync(c, id) ==
  /\ client[c] = "running"
  /\ Send(c, Message("CallAsync", id))
  /\ UNCHANGED <<registryVars, clientVars, laneVars, toClient, replies, pending>>

(* loadRemoteProperties: a get whose reply becomes members of the local    *)
(* function.                                                               *)
LoadFunctionProperties(c, id) ==
  /\ "functionProperties" \in Features
  /\ client[c] = "running"
  /\ Send(c, Message("Call", id))
  /\ client' = [client EXCEPT ![c] = "loading"]
  /\ UNCHANGED <<registryVars, proxies, cache, pinned, finalizers, laneVars, toClient, replies, pending>>

(* The reply of the call the client waits for.                             *)
ReceiveReply(c) ==
  /\ client[c] \in {"waiting", "loading"}
  /\ replies[c] # <<>>
  /\ client' = [client EXCEPT ![c] = "running"]
  /\ replies' = [replies EXCEPT ![c] = Tail(@)]
  /\ LET meta == Head(replies[c]) IN
     IF client[c] = "waiting"
     THEN MetaToValue(c, meta) /\ UNCHANGED pinned
     ELSE /\ pinned' = [pinned EXCEPT ![c] = @ \cup ({meta.id} \ {0})]
          /\ UNCHANGED <<proxies, cache>>
  /\ UNCHANGED <<registryVars, finalizers, laneVars, toHost, toClient, pending>>

(* The host invokes a callback of the context with a value.                *)
ReceiveCallback(c, lane) ==
  /\ client[c] = "running"
  /\ toClient[c][lane] # <<>>
  /\ MetaToValue(c, Head(toClient[c][lane]))
  /\ toClient' = [toClient EXCEPT ![c][lane] = Tail(@)]
  /\ UNCHANGED <<registryVars, client, pinned, finalizers, laneVars, toHost, replies, pending>>

(* Garbage collection clears the weak reference of a proxy and schedules   *)
(* the callback that was registered for it.                                *)
Collect(c, id) ==
  /\ client[c] = "running"
  /\ Proxied(c, id)
  /\ finalizers[c][id] < MaxCleared
  /\ proxies' = [proxies EXCEPT ![c] = [i \in DOMAIN @ \ {id} |-> @[i]]]
  /\ finalizers' = [finalizers EXCEPT ![c][id] = @ + 1]
  /\ UNCHANGED <<registryVars, client, cache, pinned, laneVars, netVars>>

(* Mutation: the callback does not ask whether the id has a new proxy.     *)
AnyCacheEntry(c, id) == Cached(c, id)

(* The finalization callback returns the id only if the cache still has    *)
(* the cleared reference: a new proxy of the same id keeps it.             *)
ClearedEntry(c, id) == Cached(c, id) /\ ~Proxied(c, id)

(* Mutations: the entry goes whether or not a new proxy has taken it over; *)
(* the entry is never deleted.                                             *)
ReturnIdDeleting(c, id) ==
  /\ IF ClearedEntry(c, id) THEN Send(c, Message("Dereference", id)) ELSE UNCHANGED toHost
  /\ cache' = [cache EXCEPT ![c] = @ \ {id}]
ReturnIdKeeping(c, id) ==
  /\ IF ClearedEntry(c, id) THEN Send(c, Message("Dereference", id)) ELSE UNCHANGED toHost
  /\ UNCHANGED cache

ReturnId(c, id) ==
  IF ClearedEntry(c, id)
  THEN /\ Send(c, Message("Dereference", id))
       /\ cache' = [cache EXCEPT ![c] = @ \ {id}]
  ELSE UNCHANGED <<cache, toHost>>

RunFinalizer(c, id) ==
  /\ client[c] = "running"
  /\ finalizers[c][id] > 0
  /\ finalizers' = [finalizers EXCEPT ![c][id] = @ - 1]
  /\ ReturnId(c, id)
  /\ UNCHANGED <<registryVars, client, proxies, pinned, laneVars, toClient, replies, pending>>

(* The context's heap goes with it: its proxies and their callbacks.       *)
DropHeap(c) ==
  /\ proxies' = [proxies EXCEPT ![c] = [id \in {} |-> NoObject]]
  /\ cache' = [cache EXCEPT ![c] = {}]
  /\ pinned' = [pinned EXCEPT ![c] = {}]
  /\ finalizers' = [finalizers EXCEPT ![c] = [id \in 1 .. MaxId |-> 0]]

(* process.on('exit'): the last message of the context.                    *)
Exit(c) ==
  /\ client[c] = "running"
  /\ Send(c, Message("ContextRelease", 0))
  /\ client' = [client EXCEPT ![c] = "released"]
  /\ DropHeap(c)
  /\ UNCHANGED <<registryVars, laneVars, toClient, replies, pending>>

(* The renderer dies: nothing more is sent.                                *)
Crash(c) ==
  /\ "crash" \in Features
  /\ client[c] \in {"running", "waiting", "loading"}
  /\ client' = [client EXCEPT ![c] = "crashed"]
  /\ DropHeap(c)
  /\ UNCHANGED <<registryVars, laneVars, netVars>>

(***************************************************************************)
(* Host actions.  Each handles one message to its end.                     *)
(***************************************************************************)
Gone(c) == client[c] \in {"released", "crashed"}

(* event.sendReply: the reply reaches the client that still waits for it.  *)
Reply(c, meta) ==
  replies' = IF Gone(c) THEN replies ELSE [replies EXCEPT ![c] = Append(@, meta)]

(* invoke: what the call yields, converted by valueToMeta.  A remote       *)
(* object is added to the registry before the reply is serialised, so it   *)
(* is added also when structured clone then refuses the reply: sendReply   *)
(* returns false, which nobody looks at, and no reply is sent.  Plain      *)
(* stands for every other value; errors are serialised as values.          *)
Invoke(c) ==
  \/ \E o \in Objects : Add(c, o) /\ Reply(c, MetaOf(o))
  \/ \E o \in Objects :
       "unclonableReply" \in Features /\ Add(c, o) /\ UNCHANGED replies
  \/ Reply(c, Plain) /\ UNCHANGED registryVars

HandleRequire(c) == Invoke(c) /\ UNCHANGED pending

(* A call on an id that is not in the registry throws: "... on missing     *)
(* remote object", and the exception is the reply.                         *)
HandleCall(c, id) ==
  /\ IF Stored(id) THEN Invoke(c) ELSE Reply(c, Plain) /\ UNCHANGED registryVars
  /\ UNCHANGED pending

(* The promises of c the host has to settle, or whose result is on its way.*)
Promised(c) == pending[c] + Len(toClient[c]["browser"]) + Len(toClient[c]["direct"])

(* The asynchronous call only logs that the object is missing.  Otherwise  *)
(* the function runs, and for a promise callbackify will settle it.        *)
HandleCallAsync(c, id) ==
  /\ UNCHANGED <<registryVars, replies>>
  /\ IF Stored(id) /\ "promiseResult" \in Features
     THEN Promised(c) < MaxPending /\ pending' = [pending EXCEPT ![c] = @ + 1]
     ELSE UNCHANGED pending

(* Mutation: the owner key leaves out the context id of the page.          *)
DereferenceAnyContext(c, id) ==
  (\E d \in Contexts : Remove(d, id)) /\ UNCHANGED <<replies, pending>>

HandleDereference(c, id) == Remove(c, id) /\ UNCHANGED <<replies, pending>>

(* Mutation: the release forgets the owner and keeps its references.       *)
ForgetContext(c) == ClearOwnerOnly(c) /\ UNCHANGED <<replies, pending>>

HandleContextRelease(c) == Clear(c) /\ UNCHANGED <<replies, pending>>

HostHandle(c, lane) ==
  /\ toHost[c][lane] # <<>>
  /\ toHost' = [toHost EXCEPT ![c][lane] = Tail(@)]
  /\ LET m == Head(toHost[c][lane]) IN
     \/ m.op = "Require" /\ HandleRequire(c)
     \/ m.op = "Call" /\ HandleCall(c, m.id)
     \/ m.op = "CallAsync" /\ HandleCallAsync(c, m.id)
     \/ m.op = "Dereference" /\ HandleDereference(c, m.id)
     \/ m.op = "ContextRelease" /\ HandleContextRelease(c)
  /\ UNCHANGED <<clientVars, laneVars, toClient>>

(* The host's engine collects the event object of a call that had no       *)
(* reply: its destructor answers with an error (~RendererEvent on the      *)
(* direct lane, ~MessageWrapper behind the browser's).                     *)
Unanswered(c) ==
  /\ client[c] \in {"waiting", "loading"}
  /\ replies[c] = <<>>
  /\ \A m \in InFlight(c) : m.op \notin {"Require", "Call"}

(* Mutation: the destructor drops its callback without an answer.          *)
CollectEventSilently(c) ==
  /\ Unanswered(c)
  /\ UNCHANGED remoteVars

CollectEvent(c) ==
  /\ Unanswered(c)
  /\ Reply(c, Plain)
  /\ UNCHANGED <<registryVars, clientVars, laneVars, toHost, toClient, pending>>

(* A promise of the host settles and its callback is invoked with the      *)
(* result.  valueToMeta runs whether or not the context still exists; the  *)
(* message to a context that is gone is dropped (no such WebContents, or   *)
(* another contextId).                                                     *)
SettlePromise(c) ==
  /\ pending[c] > 0
  /\ pending' = [pending EXCEPT ![c] = @ - 1]
  /\ \E o \in Objects :
       /\ Add(c, o)
       /\ IF Gone(c)
          THEN UNCHANGED toClient
          ELSE /\ Len(toClient[c][hostLane[c]]) < MaxQueue
               /\ toClient' = [toClient EXCEPT ![c][hostLane[c]] = Append(@, MetaOf(o))]
  /\ UNCHANGED <<clientVars, laneVars, toHost, replies>>

(***************************************************************************)
(* The direct channel (direct_connection_manager.cc): each side connects   *)
(* on its own, and from then on sends on the new pipe.                     *)
(***************************************************************************)
ClientConnected(c) ==
  /\ "directChannel" \in Features
  /\ client[c] = "running"
  /\ clientLane[c] = "browser"
  /\ clientLane' = [clientLane EXCEPT ![c] = "direct"]
  /\ UNCHANGED <<registryVars, clientVars, hostLane, netVars>>

HostConnected(c) ==
  /\ "directChannel" \in Features
  /\ hostLane[c] = "browser"
  /\ hostLane' = [hostLane EXCEPT ![c] = "direct"]
  /\ UNCHANGED <<registryVars, clientVars, clientLane, netVars>>

(***************************************************************************)
(* The system.                                                             *)
(***************************************************************************)
RemoteInit ==
  /\ RegistryInit
  /\ client = [c \in Contexts |-> "running"]
  /\ proxies = [c \in Contexts |-> [id \in {} |-> NoObject]]
  /\ cache = [c \in Contexts |-> {}]
  /\ pinned = [c \in Contexts |-> {}]
  /\ finalizers = [c \in Contexts |-> [id \in 1 .. MaxId |-> 0]]
  /\ clientLane = [c \in Contexts |-> "browser"]
  /\ hostLane = [c \in Contexts |-> "browser"]
  /\ toHost = [c \in Contexts |-> [l \in Lanes |-> <<>>]]
  /\ toClient = [c \in Contexts |-> [l \in Lanes |-> <<>>]]
  /\ replies = [c \in Contexts |-> <<>>]
  /\ pending = [c \in Contexts |-> 0]

ClientNext(c) ==
  \/ Require(c)
  \/ \E id \in Nameable(c) :
       CallSync(c, id) \/ CallAsync(c, id) \/ LoadFunctionProperties(c, id)
  \/ ReceiveReply(c)
  \/ \E lane \in Lanes : ReceiveCallback(c, lane)
  \/ \E id \in DOMAIN proxies[c] : Collect(c, id)
  \/ \E id \in 1 .. MaxId : RunFinalizer(c, id)
  \/ Exit(c)
  \/ Crash(c)
  \/ ClientConnected(c)

HostNext(c) ==
  \/ \E lane \in Lanes : HostHandle(c, lane)
  \/ CollectEvent(c)
  \/ SettlePromise(c)
  \/ HostConnected(c)

RemoteNext == \E c \in Contexts : ClientNext(c) \/ HostNext(c)

RemoteSpec == RemoteInit /\ [][RemoteNext]_remoteVars

(* The host's event loop keeps taking messages from each lane, a reply     *)
(* wakes the client that waits for it, and the host collects garbage from  *)
(* time to time (init's gcInterval).  Nothing obliges a client's engine to *)
(* collect proxies or an application to make calls.                        *)
RemoteFairness ==
  \A c \in Contexts :
    /\ WF_remoteVars(ReceiveReply(c))
    /\ WF_remoteVars(CollectEvent(c))
    /\ \A lane \in Lanes : WF_remoteVars(HostHandle(c, lane))

RemoteLiveSpec == RemoteSpec /\ RemoteFairness

(***************************************************************************)
(* Properties.                                                             *)
(***************************************************************************)

(* The variables have their types; a client has at most one reply coming.  *)
RemoteTypeOK ==
  /\ RegistryTypeOK
  /\ client \in [Contexts -> {"running", "waiting", "loading", "released", "crashed"}]
  /\ \A c \in Contexts :
       /\ DOMAIN proxies[c] \subseteq 1 .. MaxId
       /\ proxies[c] \in [DOMAIN proxies[c] -> Objects]
       /\ cache[c] \subseteq 1 .. MaxId
  /\ pinned \in [Contexts -> SUBSET (1 .. MaxId)]
  /\ finalizers \in [Contexts -> [1 .. MaxId -> 0 .. MaxCleared]]
  /\ clientLane \in [Contexts -> Lanes] /\ hostLane \in [Contexts -> Lanes]
  /\ \A c \in Contexts, l \in Lanes :
       toHost[c][l] \in Seq(Messages) /\ toClient[c][l] \in Seq(Metas)
  /\ \A c \in Contexts : replies[c] \in Seq(Metas) /\ Len(replies[c]) <= 1
  /\ pending \in [Contexts -> 0 .. MaxPending]

(* A proxy the client can use is backed by the host: the host counts the   *)
(* client among the owners of its id and has the object the proxy was made *)
(* for.  Without it, a call on a reachable proxy ends in "missing remote   *)
(* object" (remote-server.ts).                                             *)
HeldProxyIsOwned ==
  \A c \in Contexts : \A id \in DOMAIN proxies[c] :
    /\ id \in OwnedBy(c)
    /\ Stored(id)
    /\ storage[id].object = proxies[c][id]

(* A call that reaches the host finds the object it was made on, even when *)
(* the proxy was collected after the call was sent.                        *)
CallsFindTheirObject ==
  \A c \in Contexts, l \in Lanes :
    LET queue == toHost[c][l] IN
    queue # <<>> /\ Head(queue).op \in {"Call", "CallAsync"} => Stored(Head(queue).id)

(* Whatever a client can name, and whatever it has called, is there.       *)
UsableIsBacked == HeldProxyIsOwned /\ CallsFindTheirObject

(* Whatever the features, a stale proxy fails or reaches the object it was *)
(* made for: it never operates on another object.                          *)
ProxyNeverAliases ==
  \A c \in Contexts : \A id \in DOMAIN proxies[c] :
    Stored(id) => storage[id].object = proxies[c][id]

Returning(c, id) == Message("Dereference", id) \in InFlight(c)
Arriving(c, id) ==
  \/ \E i \in 1 .. Len(replies[c]) : replies[c][i].id = id
  \/ \E l \in Lanes : \E i \in 1 .. Len(toClient[c][l]) : toClient[c][l][i].id = id

(* Each id the host counts for a living client is on its way back or will  *)
(* be sent back: the client has it in its cache, or a message carries it.  *)
OwnedIsTracked ==
  \A c \in Contexts : client[c] \in {"running", "waiting", "loading"} =>
    \A id \in OwnedBy(c) : Cached(c, id) \/ Returning(c, id) \/ Arriving(c, id)

(* Once the host has handled a context's release, it owns nothing.         *)
ReleasedOwnsNothing ==
  \A c \in Contexts :
    /\ client[c] = "released"
    /\ \A l \in Lanes : toHost[c][l] = <<>>
    => OwnedBy(c) = {}

(* No reference is lost: each comes back from its client or with its exit. *)
ReferencesComeBack == OwnedIsTracked /\ ReleasedOwnsNothing

(* A cleared cache entry always has a finalization callback to come, so    *)
(* the id cannot stay behind after its proxy: the guard that skips a       *)
(* callback never skips the last one.                                      *)
ClearedIsFinalized ==
  \A c \in Contexts : \A id \in cache[c] :
    ClearedEntry(c, id) => finalizers[c][id] > 0

(* A synchronous call returns: its client does not stay blocked unless it  *)
(* dies.                                                                   *)
SyncCallsReturn ==
  \A c \in Contexts :
    client[c] \in {"waiting", "loading"} ~> client[c] \notin {"waiting", "loading"}

(* No promise for the context is to settle any more, and no call that      *)
(* would make one is on its way.  A promise that settles after the release *)
(* adds a reference under a context that nothing clears again.             *)
PromisesSettled(c) ==
  /\ pending[c] = 0
  /\ \A l \in Lanes : \A i \in 1 .. Len(toHost[c][l]) : toHost[c][l][i].op # "CallAsync"

(* The references of a context are given back for good when its release    *)
(* reaches the host with its promises settled.                             *)
ExitReleases ==
  \A c \in Contexts :
    (Message("ContextRelease", 0) \in InFlight(c) /\ PromisesSettled(c)) ~> [](OwnedBy(c) = {})
==============================================================================
