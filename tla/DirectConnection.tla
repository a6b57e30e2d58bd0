--------------------------- MODULE DirectConnection ---------------------------
(***************************************************************************)
(* Direct pipes between renderers, and the synchronous calls on them:      *)
(* DirectConnectionManager and RendererService in the renderers, the       *)
(* SendToSyncHandler of each WebContents in the browser process, which     *)
(* brokers connections and relays the calls that have no direct pipe.      *)
(*                                                                         *)
(* Every renderer has one thread, whose stack is modelled: script that     *)
(* makes a synchronous call, a call it serves, a connection event it       *)
(* handles.  While it waits for a reply mojo lets in the synchronous       *)
(* messages of its direct pipes, RendererService.MessageSync being [Sync], *)
(* and nothing else: neither ElectronRenderer.MessageSync, by which the    *)
(* browser relays calls, nor answers to connection requests.               *)
(*                                                                         *)
(* Of mojo this takes: a pipe is FIFO, the disconnect handler of a closed  *)
(* pipe runs as a task unless its remote was destroyed, and a response     *)
(* callback that is destroyed without having run closes its pipe.          *)
(***************************************************************************)
EXTENDS Integers, FiniteSets, Sequences, SequencesExt

CONSTANTS
  Renderers,    \* main frames of WebContents, with an id each
  ConnectPairs, \* <<r, t>>: script of r connects to t
  SyncPairs,    \* <<r, t>>: script of r makes synchronous calls to t
  RelayPairs,   \* those of them it makes also without a direct pipe
  MaxCalls,     \* bound: synchronous calls one renderer is in
  MaxDeaths     \* bound: renderers that die

ASSUME ConnectionAssumption ==
  /\ ConnectPairs \subseteq Renderers \X Renderers
  /\ SyncPairs \subseteq Renderers \X Renderers
  /\ \A r \in Renderers : <<r, r>> \notin SyncPairs
  /\ RelayPairs \subseteq SyncPairs
  /\ MaxCalls \in Nat /\ MaxDeaths \in Nat

VARIABLES
  state,       \* renderer -> "alive", "crashed", or "closed" (no WebContents)
  services,    \* renderer -> targets in renderer_services_
  pending,     \* renderer -> targets in pending_renderer_services_
  broken,      \* renderer -> services whose disconnect handler is to run
  requests,    \* renderer -> target -> its ConnectToRenderer request
  told,        \* renderer -> targets whose last event said connected
  browserOpen, \* renderer -> its ElectronBrowser pipe is open
  stack,       \* renderer -> frames of its thread, the innermost last
  mail         \* synchronous calls on their way, with their stage

managerVars == <<services, pending, broken, requests, told, browserOpen>>
connectionVars == <<state, managerVars, stack, mail>>

RequestStates == {"none", "atBrowser", "atTarget", "connected", "refused", "dropped"}

Alive(r) == state[r] = "alive"

(***************************************************************************)
(* Frames and calls.  A call is named by its frame in the caller's stack.  *)
(***************************************************************************)
Call(r, depth, t, lane) == [from |-> r, depth |-> depth, to |-> t, lane |-> lane]
CallFrame(c) == [kind |-> "call", call |-> c]
ServeFrame(c) == [kind |-> "serve", call |-> c, open |-> Alive(c.from)]
EventFrame(t, answers) == [kind |-> "event", peer |-> t, answers |-> answers]

Mail(c, stage) == [call |-> c, stage |-> stage]

Waiting(r) == stack[r] # <<>> /\ Last(stack[r]).kind = "call"
Idle(r) == Alive(r) /\ stack[r] = <<>>

(* Script runs in a task of its own, in a handler, or in an event.         *)
CanRun(r) == Alive(r) /\ ~Waiting(r)

Push(r, frame) == stack' = [stack EXCEPT ![r] = Append(@, frame)]
Pop(r) == stack' = [stack EXCEPT ![r] = Front(@)]

CallsOf(r) == {stack[r][i].call : i \in {j \in 1 .. Len(stack[r]) : stack[r][j].kind = "call"}}
Answered(c) == Mail(c, "reply") \in mail

(* The calls given fail: their callers get an error in place of a reply,   *)
(* and what their callees may reply still goes nowhere.                    *)
FailedMail(failed) ==
  {m \in mail : m.call \notin failed} \cup {Mail(c, "reply") : c \in failed}
Orphaned(frames, failed) ==
  [i \in 1 .. Len(frames) |->
     IF frames[i].kind = "serve" /\ frames[i].call \in failed
     THEN [frames[i] EXCEPT !.open = FALSE] ELSE frames[i]]

(***************************************************************************)
(* Connecting.                                                             *)
(***************************************************************************)

(* Mutation: the pending list is not asked.                                *)
NotConnected(r, t) == t \notin services[r]

(* ConnectToRenderer refuses what is connected or on its way.              *)
CanConnect(r, t) == t \notin services[r] /\ t \notin pending[r]

(* On a closed browser pipe the request is dropped at once.                *)
ConnectToRenderer(r, t) ==
  /\ CanRun(r) /\ <<r, t>> \in ConnectPairs
  /\ CanConnect(r, t)
  /\ requests' = [requests EXCEPT ![r][t] = IF browserOpen[r] THEN "atBrowser" ELSE "dropped"]
  /\ pending' = [pending EXCEPT ![r] = @ \cup {t}]
  /\ UNCHANGED <<state, services, broken, told, browserOpen, stack, mail>>

(* A destroyed response callback closes the browser pipe it belongs to:    *)
(* the requests of that renderer are lost, its calls by the browser fail.  *)
NoRequests == [t \in Renderers |-> "none"]
Lost(targets) == [t \in Renderers |-> IF targets[t] = "none" THEN "none" ELSE "dropped"]
RelayedCalls(r) == {c \in CallsOf(r) : c.lane = "browser" /\ ~Answered(c)}

CloseBrowserPipe(r) ==
  /\ browserOpen' = [browserOpen EXCEPT ![r] = FALSE]
  /\ requests' = [requests EXCEPT ![r] = Lost(@)]
  /\ mail' = FailedMail(RelayedCalls(r))
  /\ stack' = [t \in Renderers |-> Orphaned(stack[t], RelayedCalls(r))]

Refused(r, t) == state[t] = "closed" \/ t = r

(* SendToSyncHandler::ConnectToRenderer: no WebContents, or that of the    *)
(* sender, is refused.  The request to a frame without a process is        *)
(* dropped, for nothing asks here whether it crashed.                      *)
BrokerRequest(r, t) ==
  /\ Alive(r) /\ requests[r][t] = "atBrowser"
  /\ \/ /\ state[t] = "crashed"
        /\ CloseBrowserPipe(r)
     \/ /\ state[t] # "crashed"
        /\ requests' = [requests EXCEPT ![r][t] =
                          IF Refused(r, t) THEN "refused" ELSE "atTarget"]
        /\ UNCHANGED <<browserOpen, stack, mail>>
  /\ UNCHANGED <<state, services, pending, broken, told>>

(* The target binds a RendererService to the pipe.                         *)
BindService(r, t) ==
  /\ Alive(r) /\ requests[r][t] = "atTarget" /\ Idle(t)
  /\ requests' = [requests EXCEPT ![r][t] = "connected"]
  /\ UNCHANGED <<state, services, pending, broken, told, browserOpen, stack, mail>>

(* Mutation: the service is registered without an event.                   *)
RegisterQuietly(r, t) ==
  /\ services' = [services EXCEPT ![r] = @ \cup {t}]
  /\ broken' = [broken EXCEPT ![r] = IF Alive(t) THEN @ \ {t} ELSE @ \cup {t}]
  /\ UNCHANGED told

(* RegisterConnection: replaces a service that is there, sets the          *)
(* disconnect handler, and tells script.                                   *)
RegisterConnection(r, t) ==
  /\ services' = [services EXCEPT ![r] = @ \cup {t}]
  /\ broken' = [broken EXCEPT ![r] = IF Alive(t) THEN @ \ {t} ELSE @ \cup {t}]
  /\ told' = [told EXCEPT ![r] = @ \cup {t}]

(* OnRendererConnected, up to the event: script that handles the event     *)
(* runs before the target leaves the pending list.                         *)
OnRendererConnected(r, t) ==
  /\ Idle(r) /\ t \in pending[r]
  /\ \/ requests[r][t] = "connected" /\ RegisterConnection(r, t)
     \/ /\ requests[r][t] = "refused"
        /\ told' = [told EXCEPT ![r] = @ \ {t}]
        /\ UNCHANGED <<services, broken>>
  /\ requests' = [requests EXCEPT ![r][t] = "none"]
  /\ Push(r, EventFrame(t, TRUE))
  /\ UNCHANGED <<state, pending, browserOpen, mail>>

ForgetService(r, t) ==
  /\ services' = [services EXCEPT ![r] = @ \ {t}]
  /\ told' = [told EXCEPT ![r] = @ \ {t}]

(* OnConnectionError: the service is forgotten before script is told.      *)
OnConnectionError(r, t) ==
  /\ Idle(r) /\ t \in broken[r]
  /\ broken' = [broken EXCEPT ![r] = @ \ {t}]
  /\ ForgetService(r, t)
  /\ Push(r, EventFrame(t, FALSE))
  /\ UNCHANGED <<state, pending, requests, browserOpen, mail>>

(* Mutation: the pending entry is erased only for an established service.  *)
AnsweredIfConnected(r, frame) ==
  pending' = IF frame.answers THEN [pending EXCEPT ![r] = @ \ ({frame.peer} \cap services[r])] ELSE pending

(* OnRendererConnected erases the pending entry last.                      *)
ErasePending(r, frame) ==
  pending' = IF frame.answers THEN [pending EXCEPT ![r] = @ \ {frame.peer}] ELSE pending

EventReturns(r) ==
  /\ CanRun(r) /\ stack[r] # <<>> /\ Last(stack[r]).kind = "event"
  /\ ErasePending(r, Last(stack[r]))
  /\ Pop(r)
  /\ UNCHANGED <<state, services, broken, requests, told, browserOpen, mail>>

(***************************************************************************)
(* Synchronous calls.                                                      *)
(***************************************************************************)
LaneTo(r, t) == IF t \in services[r] THEN "direct" ELSE "browser"

(* SendToRendererSync.  On a pipe that is closed already it returns at     *)
(* once, which changes nothing.                                            *)
SendToRendererSync(r, t) ==
  /\ CanRun(r) /\ Cardinality(CallsOf(r)) < MaxCalls
  /\ <<r, t>> \in SyncPairs
  /\ LaneTo(r, t) = "browser" => <<r, t>> \in RelayPairs
  /\ LET lane == LaneTo(r, t)
         c == Call(r, Len(stack[r]) + 1, t, lane)
     IN
     /\ IF lane = "direct" THEN t \notin broken[r] ELSE browserOpen[r]
     /\ Push(r, CallFrame(c))
     /\ mail' = mail \cup {Mail(c, IF lane = "direct" THEN "request" ELSE "relay")}
  /\ UNCHANGED <<state, managerVars>>

(* Mutation: no wrapper answers for a target that is not there.            *)
RelayOrForget(c) ==
  /\ Mail(c, "relay") \in mail
  /\ mail' = (mail \ {Mail(c, "relay")})
             \cup IF Alive(c.to) THEN {Mail(c, "request")} ELSE {}
  /\ UNCHANGED <<state, managerVars, stack>>

(* SendToSyncHandler::MessageToSync: an error, or on to the target.        *)
MessageToSync(c) ==
  /\ Mail(c, "relay") \in mail
  /\ mail' = (mail \ {Mail(c, "relay")})
             \cup {Mail(c, IF Alive(c.to) THEN "request" ELSE "reply")}
  /\ UNCHANGED <<state, managerVars, stack>>

(* Mutation: the direct interface is not [Sync] either.                    *)
LetsInWhenIdle(c) == Idle(c.to)

(* The callee takes calls in its event loop, and those of its direct pipes *)
(* also while it waits for a reply itself.                                 *)
LetsIn(c) == Idle(c.to) \/ (Alive(c.to) /\ Waiting(c.to) /\ c.lane = "direct")

(* The calls of one pipe are taken in order.                               *)
First(c) ==
  \A m \in mail : m.stage # "reply" /\ m.call.from = c.from /\ m.call.to = c.to
                  /\ m.call.lane = c.lane => m.call.depth >= c.depth

MessageSync(c) ==
  /\ Mail(c, "request") \in mail
  /\ LetsIn(c) /\ First(c)
  /\ mail' = mail \ {Mail(c, "request")}
  /\ Push(c.to, ServeFrame(c))
  /\ UNCHANGED <<state, managerVars>>

(* A target whose frame is gone drops the callback of the call.  That      *)
(* closes the pipe, and the calls on it fail; the relay's pipe is made for *)
(* the one call, and ~MessageWrapper sends the error.                      *)
MessageSyncNoFrame(c) ==
  /\ Mail(c, "request") \in mail
  /\ LetsIn(c) /\ First(c)
  /\ LET failed == IF c.lane = "browser" THEN {c}
                   ELSE {d \in CallsOf(c.from) : d.lane = "direct" /\ d.to = c.to /\ ~Answered(d)}
     IN
     /\ mail' = FailedMail(failed)
     /\ stack' = [r \in Renderers |-> Orphaned(stack[r], failed)]
  /\ broken' = IF c.lane = "browser" THEN broken
               ELSE [broken EXCEPT ![c.from] = @ \cup ({c.to} \cap services[c.from])]
  /\ UNCHANGED <<state, services, pending, requests, told, browserOpen>>

(* Mutation: a reply goes out although the call has failed before.         *)
ReplyAnyway(frame) == mail' = mail \cup {Mail(frame.call, "reply")}

SendReply(frame) ==
  mail' = IF frame.open THEN mail \cup {Mail(frame.call, "reply")} ELSE mail

(* The handler returns, and its event replied or is collected.             *)
ServeReturns(r) ==
  /\ CanRun(r) /\ stack[r] # <<>> /\ Last(stack[r]).kind = "serve"
  /\ SendReply(Last(stack[r]))
  /\ Pop(r)
  /\ UNCHANGED <<state, managerVars>>

(* The innermost call returns; replies to outer calls wait for it.         *)
CallReturns(r) ==
  /\ Waiting(r)
  /\ LET c == Last(stack[r]).call IN
     /\ Answered(c)
     /\ mail' = mail \ {Mail(c, "reply")}
  /\ Pop(r)
  /\ UNCHANGED <<state, managerVars>>

(***************************************************************************)
(* Renderers come and go.                                                  *)
(***************************************************************************)

(* A new script context: the old one's manager is closed without events,   *)
(* its browser pipe and with it its requests are dropped.                  *)
Reload(r) ==
  /\ Idle(r)
  /\ services[r] \cup pending[r] # {} \/ ~browserOpen[r]
  /\ services' = [services EXCEPT ![r] = {}]
  /\ pending' = [pending EXCEPT ![r] = {}]
  /\ broken' = [broken EXCEPT ![r] = {}]
  /\ requests' = [requests EXCEPT ![r] = [t \in Renderers |-> "none"]]
  /\ told' = [told EXCEPT ![r] = {}]
  /\ browserOpen' = [browserOpen EXCEPT ![r] = TRUE]
  /\ UNCHANGED <<state, stack, mail>>

CallsTo(t) == {c \in UNION {CallsOf(r) : r \in Renderers \ {t}} : c.to = t /\ ~Answered(c)}

(* What fails when t dies: the calls to it, and those of the renderers     *)
(* whose browser pipe closes for a request that was on its way to t.       *)
FailedByDeath(t) ==
  CallsTo(t) \cup
  UNION {RelayedCalls(r) : r \in {q \in Renderers \ {t} : requests[q][t] = "atTarget"}}

(* The process of t dies, or its WebContents is closed.  The calls it made *)
(* are not answered any more, though callees may still take them.          *)
Die(t, how) ==
  /\ Alive(t)
  /\ Cardinality({r \in Renderers : ~Alive(r)}) < MaxDeaths
  /\ state' = [state EXCEPT ![t] = how]
  /\ mail' = {m \in FailedMail(FailedByDeath(t)) :
                m.call.to # t /\ m.call.from = t => m.stage # "reply"}
  /\ stack' = [r \in Renderers |-> IF r = t THEN <<>>
                                   ELSE Orphaned(stack[r], FailedByDeath(t) \cup CallsOf(t))]
  /\ requests' = [r \in Renderers |-> IF r = t THEN NoRequests
                                      ELSE IF requests[r][t] = "atTarget" THEN Lost(requests[r])
                                      ELSE requests[r]]
  /\ browserOpen' = [r \in Renderers |-> browserOpen[r] /\ requests[r][t] # "atTarget"]
  /\ services' = [services EXCEPT ![t] = {}]
  /\ pending' = [pending EXCEPT ![t] = {}]
  /\ told' = [told EXCEPT ![t] = {}]
  /\ broken' = [r \in Renderers |-> IF r = t THEN {} ELSE broken[r] \cup ({t} \cap services[r])]

(***************************************************************************)
(* The system.                                                             *)
(***************************************************************************)
ConnectionInit ==
  /\ state = [r \in Renderers |-> "alive"]
  /\ services = [r \in Renderers |-> {}]
  /\ pending = [r \in Renderers |-> {}]
  /\ broken = [r \in Renderers |-> {}]
  /\ requests = [r \in Renderers |-> NoRequests]
  /\ told = [r \in Renderers |-> {}]
  /\ browserOpen = [r \in Renderers |-> TRUE]
  /\ stack = [r \in Renderers |-> <<>>]
  /\ mail = {}

Connecting(r, t) ==
  \/ ConnectToRenderer(r, t)
  \/ BrokerRequest(r, t)
  \/ BindService(r, t)
  \/ OnRendererConnected(r, t)
  \/ OnConnectionError(r, t)

Carrying(c) ==
  MessageToSync(c) \/ MessageSync(c) \/ MessageSyncNoFrame(c)

Returning(r) == EventReturns(r) \/ ServeReturns(r) \/ CallReturns(r)

ConnectionNext ==
  \/ \E r, t \in Renderers : Connecting(r, t) \/ SendToRendererSync(r, t)
  \/ \E m \in mail : Carrying(m.call)
  \/ \E r \in Renderers : Returning(r) \/ Reload(r)
  \/ \E r \in Renderers, how \in {"crashed", "closed"} : Die(r, how)

ConnectionSpec == ConnectionInit /\ [][ConnectionNext]_connectionVars

(* Handlers terminate, threads get to the calls and the disconnect handlers *)
(* that are theirs to run, and mojo delivers.  Strong fairness on what a   *)
(* thread does, for script may keep it busy again and again.               *)
CallFairness ==
  \A r \in Renderers :
    /\ SF_connectionVars(EventReturns(r))
    /\ SF_connectionVars(ServeReturns(r))
    /\ SF_connectionVars(CallReturns(r))
    /\ SF_connectionVars(\E m \in mail : m.call.to = r /\ (MessageSync(m.call) \/ MessageSyncNoFrame(m.call)))
    /\ SF_connectionVars(\E t \in Renderers : OnConnectionError(r, t))
    /\ WF_connectionVars(\E m \in mail : m.call.from = r /\ MessageToSync(m.call))

(* Connection requests likewise: the browser brokers them, targets bind    *)
(* services, and requesters take the answers.                              *)
RequestFairness ==
  \A p \in ConnectPairs :
    /\ WF_connectionVars(BrokerRequest(p[1], p[2]))
    /\ SF_connectionVars(BindService(p[1], p[2]))
    /\ SF_connectionVars(OnRendererConnected(p[1], p[2]))

ConnectionLiveSpec == ConnectionSpec /\ CallFairness /\ RequestFairness

(***************************************************************************)
(* Properties.                                                             *)
(***************************************************************************)

(* The variables have their types.  A disconnect handler is to run only    *)
(* for a service in the map: the branch "This should never happen" of      *)
(* OnConnectionError is never taken.                                       *)
ConnectionTypeOK ==
  /\ state \in [Renderers -> {"alive", "crashed", "closed"}]
  /\ \A r \in Renderers :
       /\ services[r] \subseteq Renderers \ {r} /\ pending[r] \subseteq Renderers
       /\ broken[r] \subseteq services[r] /\ told[r] \subseteq Renderers
       /\ requests[r] \in [Renderers -> RequestStates]
       /\ Cardinality(CallsOf(r)) <= MaxCalls
  /\ browserOpen \in [Renderers -> BOOLEAN]

(* Script knows the lane: the last event about a target said connected     *)
(* exactly if messages to it take the direct pipe now (remote-client.ts    *)
(* keeps usingDirectChannel by it).                                        *)
EventsTellTheLane == told = services

(* An answer that arrives is to a pending request, so OnRendererConnected  *)
(* never meets an unknown target, and it never replaces a service that is  *)
(* in use, whatever script connects in the event handlers.                 *)
Announcing(r, t) ==
  \E i \in 1 .. Len(stack[r]) : stack[r][i] = EventFrame(t, TRUE)

AnswersArePending ==
  \A r, t \in Renderers :
    /\ requests[r][t] # "none" => t \in pending[r] \ services[r] /\ ~Announcing(r, t)
    /\ t \in pending[r] => requests[r][t] # "none" \/ Announcing(r, t)

OpenServe(frame, c) == frame.kind = "serve" /\ frame.call = c /\ frame.open

Carriers(c) ==
  {m \in mail : m.call = c} \cup
  {p \in UNION {{r} \X (1 .. Len(stack[r])) : r \in Renderers} : OpenServe(stack[p[1]][p[2]], c)}

(* A call a live renderer waits for is never lost and never answered       *)
(* twice: one message carries it, or one frame serves it.                  *)
EveryCallIsCarriedOnce ==
  \A r \in Renderers : \A c \in CallsOf(r) : Cardinality(Carriers(c)) = 1

(* t serves the call r waits for, and waits itself.                        *)
WaitsFor(r, t) ==
  /\ Waiting(r) /\ Waiting(t)
  /\ \E i \in 1 .. Len(stack[t]) : OpenServe(stack[t][i], Last(stack[r]).call)

(* The browser has relayed the call of r to a renderer that waits, which   *)
(* does not take it in.                                                    *)
KeptOut(r) ==
  LET c == Last(stack[r]).call IN
  c.lane = "browser" /\ Mail(c, "request") \in mail /\ Waiting(c.to)

(* The call r waits for is answered, or to be relayed, or on its way to a  *)
(* renderer that runs or takes it in, or served by one that runs.          *)
GoesOn(r) ==
  LET c == Last(stack[r]).call IN
  \/ Answered(c) \/ Mail(c, "relay") \in mail
  \/ Mail(c, "request") \in mail /\ (CanRun(c.to) \/ LetsIn(c))
  \/ \E t \in Renderers : CanRun(t) /\ \E i \in 1 .. Len(stack[t]) : OpenServe(stack[t][i], c)

(* Renderers that wait are never stuck among themselves, however many they *)
(* are and however their calls nest: the call of one of them goes on, or   *)
(* waits for a renderer outside the group.  Only a relayed call may be     *)
(* kept out: direct calls form no circle.                                  *)
NoGroupIsStuck ==
  \A group \in (SUBSET {r \in Renderers : Waiting(r)}) \ {{}} :
    \E r \in group : GoesOn(r) \/ KeptOut(r) \/ \E t \in Renderers \ group : WaitsFor(r, t)

InCall(r, depth) == Len(stack[r]) >= depth /\ stack[r][depth].kind = "call"

(* Renderers may call each other in circles over direct pipes, nested as   *)
(* they like, and lose pipes: every call returns.  So does every call the  *)
(* browser relays, as long as relayed calls form no circle.                *)
CallsReturn ==
  \A r \in Renderers : \A depth \in 1 .. 2 * MaxCalls :
    InCall(r, depth) ~> ~InCall(r, depth)

(* A connection request does not stay pending: it is answered, or gone     *)
(* with the page, unless the browser pipe of the requester closes, which   *)
(* a request to a crashed renderer makes it do.                            *)
RequestsAreAnswered ==
  \A p \in ConnectPairs : LET r == p[1]  t == p[2] IN
    t \in pending[r] ~> t \notin pending[r] \/ ~browserOpen[r]
==============================================================================
