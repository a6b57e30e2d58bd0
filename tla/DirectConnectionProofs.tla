------------------------ MODULE DirectConnectionProofs ------------------------
(***************************************************************************)
(* Proofs about DirectConnection, for any renderers, calls and deaths:     *)
(* script knows the lane, answers meet their pending request, a call is    *)
(* carried once, and no group of renderers that wait is stuck.             *)
(***************************************************************************)
EXTENDS DirectConnection, SequenceTheorems, FiniteSetTheorems, WellFoundedInduction, TLAPS

Calls == [from : Renderers, depth : Nat, to : Renderers, lane : {"direct", "browser"}]
CallFrames == [kind : {"call"}, call : Calls]
ServeFrames == [kind : {"serve"}, call : Calls, open : BOOLEAN]
EventFrames == [kind : {"event"}, peer : Renderers, answers : BOOLEAN]
Frames == CallFrames \cup ServeFrames \cup EventFrames

ConnectionTypes ==
  /\ services \in [Renderers -> SUBSET Renderers]
  /\ pending \in [Renderers -> SUBSET Renderers]
  /\ requests \in [Renderers -> [Renderers -> RequestStates]]
  /\ stack \in [Renderers -> Seq(Frames)]
  /\ \A m \in mail : m.call \in Calls

(* What a stack of frames says of events: which answers it announces, and  *)
(* that an event is at its bottom, for it comes in a task of its own.      *)
Announces(s, t) == \E i \in 1 .. Len(s) : s[i] = EventFrame(t, TRUE)
EventsFirst(s) == \A i \in 1 .. Len(s) : s[i].kind = "event" => i = 1

(* What one renderer's services, pending targets, requests and stack say of *)
(* each other.                                                             *)
Settled(connected, asked, request, frames) ==
  /\ EventsFirst(frames)
  /\ \A t \in Renderers :
       /\ Announces(frames, t) => t \in asked
       /\ request[t] # "none" => t \in asked \ connected /\ ~Announces(frames, t)
       /\ t \in asked => request[t] # "none" \/ Announces(frames, t)

RenderersSettled ==
  \A r \in Renderers : Settled(services[r], pending[r], requests[r], stack[r])

ConnectionInv ==
  /\ ConnectionTypes
  /\ EventsTellTheLane
  /\ RenderersSettled

(***************************************************************************)
(* Stacks.                                                                 *)
(***************************************************************************)

(* The same events are in both, of those there may be.                     *)
SameEvents(s, after) ==
  /\ EventsFirst(s) => EventsFirst(after)
  /\ \A t \in Renderers : Announces(after, t) <=> Announces(s, t)

LEMMA FrameKinds ==
  /\ \A c \in Calls : CallFrame(c) \in Frames /\ CallFrame(c).kind = "call"
  /\ \A c \in Calls : ServeFrame(c) \in Frames /\ ServeFrame(c).kind = "serve"
  /\ \A t \in Renderers, answers \in BOOLEAN :
       /\ EventFrame(t, answers) \in Frames /\ EventFrame(t, answers).kind = "event"
       /\ EventFrame(t, answers).peer = t /\ EventFrame(t, answers).answers = answers
BY DEF CallFrame, ServeFrame, EventFrame, Frames, CallFrames, ServeFrames, EventFrames, Alive

LEMMA PushedFrame ==
  ASSUME NEW s \in Seq(Frames), NEW frame \in Frames, frame.kind # "event"
  PROVE  Append(s, frame) \in Seq(Frames) /\ SameEvents(s, Append(s, frame))
<1> DEFINE after == Append(s, frame)
<1>1. /\ after \in Seq(Frames) /\ Len(after) = Len(s) + 1 /\ Len(s) \in Nat
      /\ \A i \in 1 .. Len(s) : after[i] = s[i]
      /\ after[Len(s) + 1] = frame
  BY AppendProperties
<1> HIDE DEF after
<1>2. \A i \in 1 .. Len(after) : i \in 1 .. Len(s) \/ i = Len(s) + 1
  BY <1>1
<1>3. \A t \in Renderers : frame # EventFrame(t, TRUE)
  BY FrameKinds
<1>4. EventsFirst(s) => EventsFirst(after)
  BY <1>1, <1>2 DEF EventsFirst
<1>5. ASSUME NEW t \in Renderers PROVE Announces(after, t) <=> Announces(s, t)
  <2>1. ASSUME NEW i \in 1 .. Len(after), after[i] = EventFrame(t, TRUE)
        PROVE  i \in 1 .. Len(s) /\ s[i] = EventFrame(t, TRUE)
    BY <1>1, <1>2, <1>3, <2>1
  <2>2. ASSUME NEW i \in 1 .. Len(s) PROVE i \in 1 .. Len(after)
    BY <1>1
  <2> QED BY <1>1, <2>1, <2>2 DEF Announces
<1> QED BY <1>1, <1>4, <1>5 DEF SameEvents, after

LEMMA FrontFrames ==
  ASSUME NEW s \in Seq(Frames), s # <<>>
  PROVE  /\ Len(s) \in Nat /\ Len(s) >= 1 /\ Len(s) \in 1 .. Len(s)
         /\ \A i \in 1 .. Len(s) : s[i] \in Frames
         /\ Front(s) \in Seq(Frames) /\ Len(Front(s)) = Len(s) - 1
         /\ \A i \in 1 .. Len(s) - 1 : Front(s)[i] = s[i]
<1> DEFINE n == Len(s)
           after == Front(s)
<1>1. n \in Nat /\ n >= 1 /\ n \in 1 .. Len(s) /\ \A i \in 1 .. n : s[i] \in Frames
  OBVIOUS
<1>2. /\ after \in Seq(Frames) /\ Len(after) = n - 1
      /\ \A i \in 1 .. n - 1 : after[i] = s[i]
  <2>1. \A i \in 1 .. n - 1 : s[i] \in Frames
    BY <1>1
  <2>2. after = SubSeq(s, 1, n - 1) /\ 1 \in Int /\ n - 1 \in Int
    BY <1>1 DEF Front
  <2> HIDE DEF after, n
  <2>3. /\ SubSeq(s, 1, n - 1) \in Seq(Frames)
        /\ Len(SubSeq(s, 1, n - 1)) = IF 1 <= n - 1 THEN n - 1 - 1 + 1 ELSE 0
        /\ \A i \in 1 .. n - 1 - 1 + 1 : SubSeq(s, 1, n - 1)[i] = s[1 + i - 1]
    BY <2>1, <2>2, SubSeqProperties
  <2>4. n - 1 - 1 + 1 = n - 1 /\ \A i \in 1 .. n - 1 : 1 + i - 1 = i
    BY <1>1
  <2> QED BY <1>1, <2>2, <2>3, <2>4
<1> QED BY <1>1, <1>2 DEF n, after

LEMMA PoppedFrame ==
  ASSUME NEW s \in Seq(Frames), s # <<>>
  PROVE  /\ Front(s) \in Seq(Frames) /\ Last(s) \in Frames
         /\ Last(s).kind # "event" => SameEvents(s, Front(s))
         /\ Last(s).kind = "event" /\ EventsFirst(s) =>
              /\ EventsFirst(Front(s))
              /\ \A t \in Renderers : ~Announces(Front(s), t) /\ (Announces(s, t) <=> Last(s) = EventFrame(t, TRUE))
<1> DEFINE n == Len(s)
           after == Front(s)
           frame == Last(s)
<1>1. n \in Nat /\ n >= 1 /\ n \in 1 .. Len(s) /\ \A i \in 1 .. n : s[i] \in Frames
  BY FrontFrames
<1>2. after \in Seq(Frames) /\ Len(after) = n - 1 /\ \A i \in 1 .. n - 1 : after[i] = s[i]
  BY FrontFrames
<1>3. frame = s[n] /\ frame \in Frames
  BY <1>1 DEF Last
<1> HIDE DEF n, after, frame
<1>4. \A i \in 1 .. Len(s) : i \in 1 .. Len(after) \/ i = n
  BY <1>1, <1>2 DEF n
<1>5. ASSUME frame.kind # "event" PROVE SameEvents(s, after)
  <2>1. \A t \in Renderers : frame # EventFrame(t, TRUE)
    BY <1>5, FrameKinds
  <2>2. EventsFirst(s) => EventsFirst(after)
    BY <1>1, <1>2 DEF EventsFirst, n
  <2>3. ASSUME NEW t \in Renderers PROVE Announces(after, t) <=> Announces(s, t)
    <3>1. ASSUME NEW i \in 1 .. Len(s), s[i] = EventFrame(t, TRUE)
          PROVE  i \in 1 .. Len(after) /\ after[i] = EventFrame(t, TRUE)
      BY <1>2, <1>3, <1>4, <2>1, <3>1
    <3>2. ASSUME NEW i \in 1 .. Len(after) PROVE i \in 1 .. Len(s) /\ after[i] = s[i]
      BY <1>1, <1>2 DEF n
    <3> QED BY <3>1, <3>2 DEF Announces
  <2> QED BY <2>2, <2>3 DEF SameEvents
<1>6. ASSUME frame.kind = "event", EventsFirst(s)
      PROVE  /\ EventsFirst(after)
             /\ \A t \in Renderers :
                  ~Announces(after, t) /\ (Announces(s, t) <=> frame = EventFrame(t, TRUE))
  <2>1. n = 1
    BY <1>1, <1>3, <1>6 DEF EventsFirst
  <2>2. Len(after) = 0
    BY <1>2, <2>1
  <2>3. EventsFirst(after) /\ \A t \in Renderers : ~Announces(after, t)
    BY <2>2 DEF EventsFirst, Announces
  <2>4. \A t \in Renderers : Announces(s, t) <=> frame = EventFrame(t, TRUE)
    BY <1>3, <2>1 DEF Announces, n
  <2> QED BY <2>3, <2>4
<1> QED BY <1>2, <1>3, <1>5, <1>6 DEF after, frame

LEMMA OrphanedFrames ==
  ASSUME NEW s \in Seq(Frames), NEW failed
  PROVE  Orphaned(s, failed) \in Seq(Frames) /\ SameEvents(s, Orphaned(s, failed))
<1> DEFINE after == Orphaned(s, failed)
<1>1. after = [i \in 1 .. Len(s) |->
                 IF s[i].kind = "serve" /\ s[i].call \in failed
                 THEN [s[i] EXCEPT !.open = FALSE] ELSE s[i]]
  BY DEF Orphaned
<1>2. \A frame \in Frames : frame.kind = "serve" =>
         /\ [frame EXCEPT !.open = FALSE] \in Frames
         /\ [frame EXCEPT !.open = FALSE].kind = "serve"
  BY DEF Frames, CallFrames, ServeFrames, EventFrames
<1>3. Len(s) \in Nat /\ \A i \in 1 .. Len(s) : s[i] \in Frames
  OBVIOUS
<1>4. \A i \in 1 .. Len(s) :
        /\ after[i] \in Frames
        /\ after[i] = s[i] \/ (s[i].kind = "serve" /\ after[i].kind = "serve")
  BY <1>1, <1>2, <1>3
<1>5. after \in Seq(Frames) /\ Len(after) = Len(s)
  BY <1>1, <1>3, <1>4
<1> HIDE DEF after
<1>6. EventsFirst(s) => EventsFirst(after)
  BY <1>4, <1>5 DEF EventsFirst
<1>7. ASSUME NEW t \in Renderers PROVE Announces(after, t) <=> Announces(s, t)
  <2>1. EventFrame(t, TRUE).kind = "event"
    BY FrameKinds
  <2>2. \A i \in 1 .. Len(s) : after[i] = EventFrame(t, TRUE) <=> s[i] = EventFrame(t, TRUE)
    BY <1>4, <2>1
  <2> QED BY <1>5, <2>2 DEF Announces
<1> QED BY <1>5, <1>6, <1>7 DEF SameEvents, after

(* A stack with no frame, and one with the event that began a task.        *)
LEMMA TaskFrames ==
  /\ <<>> \in Seq(Frames) /\ EventsFirst(<<>>) /\ \A t \in Renderers : ~Announces(<<>>, t)
  /\ \A t \in Renderers, answers \in BOOLEAN :
       LET begun == Append(<<>>, EventFrame(t, answers)) IN
       /\ begun \in Seq(Frames) /\ EventsFirst(begun)
       /\ \A other \in Renderers : Announces(begun, other) <=> answers /\ other = t
<1>1. <<>> \in Seq(Frames) /\ Len(<<>>) = 0
  OBVIOUS
<1>2. EventsFirst(<<>>) /\ \A t \in Renderers : ~Announces(<<>>, t)
  BY DEF EventsFirst, Announces
<1>3. ASSUME NEW t \in Renderers, NEW answers \in BOOLEAN, NEW begun,
             begun = Append(<<>>, EventFrame(t, answers))
      PROVE  /\ begun \in Seq(Frames) /\ EventsFirst(begun)
             /\ \A other \in Renderers : Announces(begun, other) <=> answers /\ other = t
  <2>1. EventFrame(t, answers) \in Frames
    BY FrameKinds
  <2>2. begun \in Seq(Frames) /\ Len(begun) = 1 /\ begun[1] = EventFrame(t, answers)
    BY <1>3, <1>1, <2>1, AppendProperties
  <2>3. \A other \in Renderers : EventFrame(t, answers) = EventFrame(other, TRUE) <=> answers /\ other = t
    BY DEF EventFrame
  <2>4. EventsFirst(begun)
    BY <2>2 DEF EventsFirst
  <2>5. \A other \in Renderers : Announces(begun, other) <=> begun[1] = EventFrame(other, TRUE)
    <3>1. 1 .. Len(begun) = {1}
      BY <2>2
    <3> QED BY <3>1 DEF Announces
  <2> QED BY <2>2, <2>3, <2>4, <2>5
<1> QED BY <1>1, <1>2, <1>3

LEMMA SettledAgain ==
  ASSUME NEW connected, NEW asked, NEW request, NEW frames, NEW request2, NEW frames2,
         Settled(connected, asked, request, frames), SameEvents(frames, frames2),
         \A t \in Renderers : request2[t] = "none" <=> request[t] = "none"
  PROVE  Settled(connected, asked, request2, frames2)
BY DEF Settled, SameEvents

(***************************************************************************)
(* Calls.                                                                  *)
(***************************************************************************)

LEMMA CallsAreCalls ==
  ASSUME ConnectionTypes
  PROVE  \A r \in Renderers : CallsOf(r) \subseteq Calls
<1> SUFFICES ASSUME NEW r \in Renderers, NEW i \in 1 .. Len(stack[r]), stack[r][i].kind = "call"
             PROVE  stack[r][i].call \in Calls
  BY DEF CallsOf
<1>1. stack[r][i] \in Frames
  BY DEF ConnectionTypes
<1> QED BY <1>1 DEF Frames, CallFrames, ServeFrames, EventFrames

LEMMA FailedMailTyped ==
  ASSUME ConnectionTypes, NEW failed, failed \subseteq Calls
  PROVE  \A m \in FailedMail(failed) : m.call \in Calls
BY DEF FailedMail, Mail, ConnectionTypes

(* What changes neither services nor pending targets, drops no request and *)
(* touches no event preserves the invariant.                               *)
LEMMA EventsUntouched ==
  ASSUME ConnectionInv, UNCHANGED <<services, pending, told>>,
         requests' \in [Renderers -> [Renderers -> RequestStates]],
         \A r, t \in Renderers : requests'[r][t] = "none" <=> requests[r][t] = "none",
         stack' \in [Renderers -> Seq(Frames)],
         \A r \in Renderers : SameEvents(stack[r], stack'[r]),
         \A m \in mail' : m.call \in Calls
  PROVE  ConnectionInv'
<1>1. ConnectionTypes'
  BY DEF ConnectionInv, ConnectionTypes
<1>2. EventsTellTheLane'
  BY DEF ConnectionInv, EventsTellTheLane
<1>3. RenderersSettled'
  <2> SUFFICES ASSUME NEW r \in Renderers
               PROVE  Settled(services[r], pending[r], requests'[r], stack'[r])
    BY DEF RenderersSettled
  <2>1. Settled(services[r], pending[r], requests[r], stack[r])
    BY DEF ConnectionInv, RenderersSettled
  <2>2. SameEvents(stack[r], stack'[r])
    OBVIOUS
  <2> QED BY <2>1, <2>2, SettledAgain
<1> QED BY <1>1, <1>2, <1>3 DEF ConnectionInv

(* The same for a step on the stack of one renderer.                       *)
LEMMA OneStackChanges ==
  ASSUME ConnectionInv, UNCHANGED <<services, pending, requests, told>>,
         NEW r \in Renderers, NEW frames \in Seq(Frames), SameEvents(stack[r], frames),
         stack' = [stack EXCEPT ![r] = frames],
         \A m \in mail' : m.call \in Calls
  PROVE  ConnectionInv'
<1>1. stack' \in [Renderers -> Seq(Frames)]
  BY DEF ConnectionInv, ConnectionTypes
<1>2. \A q \in Renderers : SameEvents(stack[q], stack'[q])
  BY DEF ConnectionInv, ConnectionTypes, SameEvents
<1>3. requests' \in [Renderers -> [Renderers -> RequestStates]]
  BY DEF ConnectionInv, ConnectionTypes
<1> QED BY <1>1, <1>2, <1>3, EventsUntouched

(***************************************************************************)
(* The steps.                                                              *)
(***************************************************************************)

LEMMA ConnectionInitInv == ConnectionInit => ConnectionInv
<1> SUFFICES ASSUME ConnectionInit PROVE ConnectionInv
  OBVIOUS
<1>1. ConnectionTypes
  BY TaskFrames DEF ConnectionInit, ConnectionTypes, NoRequests, RequestStates
<1>2. EventsTellTheLane
  BY DEF ConnectionInit, EventsTellTheLane
<1>3. RenderersSettled
  BY TaskFrames DEF ConnectionInit, RenderersSettled, Settled, NoRequests
<1> QED BY <1>1, <1>2, <1>3 DEF ConnectionInv

(* What is asked for was neither connected nor asked for nor announced.    *)
LEMMA ConnectStep ==
  ASSUME ConnectionInv, NEW r \in Renderers, NEW t \in Renderers, ConnectToRenderer(r, t)
  PROVE  ConnectionInv'
<1>1. ConnectionTypes'
  BY DEF ConnectionInv, ConnectionTypes, ConnectToRenderer, RequestStates
<1>2. EventsTellTheLane'
  BY DEF ConnectionInv, EventsTellTheLane, ConnectToRenderer
<1>3. RenderersSettled'
  <2> SUFFICES ASSUME NEW q \in Renderers
               PROVE  Settled(services[q], pending'[q], requests'[q], stack[q])
    BY DEF RenderersSettled, ConnectToRenderer
  <2>1. Settled(services[q], pending[q], requests[q], stack[q])
    BY DEF ConnectionInv, RenderersSettled
  <2>2. CASE q # r
    <3>1. pending'[q] = pending[q] /\ requests'[q] = requests[q]
      BY <2>2 DEF ConnectToRenderer, ConnectionInv, ConnectionTypes
    <3> QED BY <2>1, <3>1
  <2>3. CASE q = r
    <3>1. pending'[r] = pending[r] \cup {t} /\ t \notin pending[r] /\ t \notin services[r]
      BY DEF ConnectToRenderer, CanConnect, ConnectionInv, ConnectionTypes
    <3>2. requests'[r][t] # "none" /\ \A x \in Renderers \ {t} : requests'[r][x] = requests[r][x]
      BY DEF ConnectToRenderer, ConnectionInv, ConnectionTypes
    <3> QED BY <2>1, <2>3, <3>1, <3>2 DEF Settled
  <2> QED BY <2>2, <2>3
<1> QED BY <1>1, <1>2, <1>3 DEF ConnectionInv

(* The browser answers the request, passes it on, or drops it with all     *)
(* others of its pipe.                                                     *)
LEMMA BrokerStep ==
  ASSUME ConnectionInv, NEW r \in Renderers, NEW t \in Renderers, BrokerRequest(r, t)
  PROVE  ConnectionInv'
<1>1. UNCHANGED <<services, pending, told>>
  BY DEF BrokerRequest
<1>2. ConnectionTypes
  BY DEF ConnectionInv
<1>3. CASE state[t] = "crashed" /\ CloseBrowserPipe(r)
  <2> DEFINE failed == RelayedCalls(r)
  <2>1. failed \subseteq Calls
    BY <1>2, CallsAreCalls DEF RelayedCalls
  <2>2. requests' = [requests EXCEPT ![r] = Lost(@)] /\ mail' = FailedMail(failed)
        /\ stack' = [q \in Renderers |-> Orphaned(stack[q], failed)]
    BY <1>3 DEF CloseBrowserPipe
  <2> HIDE DEF failed
  <2>3. /\ requests' \in [Renderers -> [Renderers -> RequestStates]]
        /\ \A q, x \in Renderers : requests'[q][x] = "none" <=> requests[q][x] = "none"
    BY <1>2, <2>2 DEF ConnectionTypes, Lost, RequestStates
  <2>4. \A q \in Renderers : Orphaned(stack[q], failed) \in Seq(Frames)
                             /\ SameEvents(stack[q], Orphaned(stack[q], failed))
    BY <1>2, OrphanedFrames DEF ConnectionTypes
  <2>5. \A m \in mail' : m.call \in Calls
    BY <1>2, <2>1, <2>2, FailedMailTyped
  <2> QED BY <1>1, <2>2, <2>3, <2>4, <2>5, EventsUntouched
<1>4. CASE state[t] # "crashed"
  <2>1. /\ requests' = [requests EXCEPT ![r][t] = IF Refused(r, t) THEN "refused" ELSE "atTarget"]
        /\ UNCHANGED <<stack, mail>> /\ requests[r][t] = "atBrowser"
    BY <1>4 DEF BrokerRequest
  <2>2. /\ requests' \in [Renderers -> [Renderers -> RequestStates]]
        /\ \A q, x \in Renderers : requests'[q][x] = "none" <=> requests[q][x] = "none"
    BY <1>2, <2>1 DEF ConnectionTypes, RequestStates
  <2> QED BY <1>1, <1>2, <2>1, <2>2, EventsUntouched DEF ConnectionTypes, SameEvents
<1> QED BY <1>3, <1>4 DEF BrokerRequest

LEMMA BindStep ==
  ASSUME ConnectionInv, NEW r \in Renderers, NEW t \in Renderers, BindService(r, t)
  PROVE  ConnectionInv'
<1>1. /\ requests' \in [Renderers -> [Renderers -> RequestStates]]
      /\ \A q, x \in Renderers : requests'[q][x] = "none" <=> requests[q][x] = "none"
  BY DEF ConnectionInv, ConnectionTypes, RequestStates, BindService
<1> QED BY <1>1, EventsUntouched DEF BindService, ConnectionInv, ConnectionTypes, SameEvents

(* The answer comes to a thread in no task, so its event is the bottom of  *)
(* the stack; the target is pending and, refused or not, was not           *)
(* connected.                                                              *)
LEMMA ConnectedStep ==
  ASSUME ConnectionInv, NEW r \in Renderers, NEW t \in Renderers, OnRendererConnected(r, t)
  PROVE  ConnectionInv'
<1> DEFINE event == EventFrame(t, TRUE)
           begun == Append(<<>>, event)
<1>1. ConnectionTypes
  BY DEF ConnectionInv
<1>2. stack[r] = <<>> /\ t \in pending[r] /\ requests[r][t] # "none"
      /\ requests' = [requests EXCEPT ![r][t] = "none"]
      /\ UNCHANGED <<pending, mail>>
  BY DEF OnRendererConnected, Idle
<1>3. stack' = [stack EXCEPT ![r] = begun]
  BY <1>1, <1>2 DEF OnRendererConnected, Push, ConnectionTypes
<1>4. begun \in Seq(Frames) /\ EventsFirst(begun)
      /\ \A x \in Renderers : Announces(begun, x) <=> x = t
  BY TaskFrames
<1> HIDE DEF begun, event
<1>5. Settled(services[r], pending[r], requests[r], stack[r])
  BY DEF ConnectionInv, RenderersSettled
<1>6. t \notin services[r]
  BY <1>2, <1>5 DEF Settled
<1>7. /\ services' \in [Renderers -> SUBSET Renderers] /\ told' = services'
      /\ \A q \in Renderers \ {r} : services'[q] = services[q]
      /\ services'[r] \subseteq services[r] \cup {t}
  <2>1. CASE RegisterConnection(r, t)
    BY <1>1, <2>1 DEF RegisterConnection, ConnectionInv, ConnectionTypes, EventsTellTheLane
  <2>2. CASE told' = [told EXCEPT ![r] = @ \ {t}] /\ UNCHANGED <<services, broken>>
    BY <1>1, <1>6, <2>2 DEF ConnectionInv, ConnectionTypes, EventsTellTheLane
  <2> QED BY <2>1, <2>2 DEF OnRendererConnected
<1>8. ConnectionTypes'
  BY <1>1, <1>2, <1>3, <1>4, <1>7 DEF ConnectionTypes, RequestStates
<1>9. RenderersSettled'
  <2> SUFFICES ASSUME NEW q \in Renderers
               PROVE  Settled(services'[q], pending[q], requests'[q], stack'[q])
    BY <1>2 DEF RenderersSettled
  <2>1. CASE q # r
    <3>1. services'[q] = services[q] /\ requests'[q] = requests[q] /\ stack'[q] = stack[q]
      BY <1>1, <1>2, <1>3, <1>7, <2>1 DEF ConnectionTypes
    <3> QED BY <3>1 DEF ConnectionInv, RenderersSettled
  <2>2. CASE q = r
    <3>1. stack'[r] = begun /\ requests'[r][t] = "none"
          /\ \A x \in Renderers \ {t} : requests'[r][x] = requests[r][x]
      BY <1>1, <1>2, <1>3 DEF ConnectionTypes
    <3>2. \A x \in Renderers : ~Announces(stack[r], x)
      BY <1>2, TaskFrames
    <3> QED BY <1>2, <1>4, <1>5, <1>7, <2>2, <3>1, <3>2 DEF Settled
  <2> QED BY <2>1, <2>2
<1> QED BY <1>7, <1>8, <1>9 DEF ConnectionInv, EventsTellTheLane

(* The event of a broken pipe announces no answer.                         *)
LEMMA ErrorStep ==
  ASSUME ConnectionInv, NEW r \in Renderers, NEW t \in Renderers, OnConnectionError(r, t)
  PROVE  ConnectionInv'
<1> DEFINE begun == Append(<<>>, EventFrame(t, FALSE))
<1>1. ConnectionTypes
  BY DEF ConnectionInv
<1>2. stack[r] = <<>> /\ UNCHANGED <<pending, requests, mail>>
      /\ services' = [services EXCEPT ![r] = @ \ {t}]
      /\ told' = [told EXCEPT ![r] = @ \ {t}]
  BY DEF OnConnectionError, ForgetService, Idle
<1>3. stack' = [stack EXCEPT ![r] = begun]
  BY <1>1, <1>2 DEF OnConnectionError, Push, ConnectionTypes
<1>4. begun \in Seq(Frames) /\ EventsFirst(begun)
      /\ \A x \in Renderers : ~Announces(begun, x)
  BY TaskFrames
<1> HIDE DEF begun
<1>5. ConnectionTypes'
  BY <1>1, <1>2, <1>3, <1>4 DEF ConnectionTypes
<1>6. EventsTellTheLane'
  BY <1>2 DEF ConnectionInv, EventsTellTheLane
<1>7. RenderersSettled'
  <2> SUFFICES ASSUME NEW q \in Renderers
               PROVE  Settled(services'[q], pending[q], requests[q], stack'[q])
    BY <1>2 DEF RenderersSettled
  <2>1. Settled(services[q], pending[q], requests[q], stack[q])
    BY DEF ConnectionInv, RenderersSettled
  <2>2. CASE q # r
    <3>1. services'[q] = services[q] /\ stack'[q] = stack[q]
      BY <1>1, <1>2, <1>3, <2>2 DEF ConnectionTypes
    <3> QED BY <2>1, <3>1
  <2>3. CASE q = r
    <3>1. services'[r] = services[r] \ {t} /\ stack'[r] = begun
      BY <1>1, <1>2, <1>3 DEF ConnectionTypes
    <3>2. \A x \in Renderers : ~Announces(stack[r], x)
      BY <1>2, TaskFrames
    <3> QED BY <1>4, <2>1, <2>3, <3>1, <3>2 DEF Settled
  <2> QED BY <2>2, <2>3
<1> QED BY <1>5, <1>6, <1>7 DEF ConnectionInv

(* An event that answered a request is the only frame of its task: when it *)
(* returns the target is neither pending nor announced any more.           *)
LEMMA EventStep ==
  ASSUME ConnectionInv, NEW r \in Renderers, EventReturns(r)
  PROVE  ConnectionInv'
<1> DEFINE frame == Last(stack[r])
           rest == Front(stack[r])
<1>1. ConnectionTypes /\ stack[r] \in Seq(Frames)
  BY DEF ConnectionInv, ConnectionTypes
<1>2. /\ UNCHANGED <<services, requests, told, mail>>
      /\ stack[r] # <<>> /\ frame.kind = "event"
      /\ stack' = [stack EXCEPT ![r] = rest]
      /\ pending' = IF frame.answers THEN [pending EXCEPT ![r] = @ \ {frame.peer}] ELSE pending
  BY <1>1 DEF EventReturns, ErasePending, Pop, ConnectionTypes
<1>3. Settled(services[r], pending[r], requests[r], stack[r])
  BY DEF ConnectionInv, RenderersSettled
<1>4. /\ rest \in Seq(Frames) /\ frame \in Frames /\ EventsFirst(rest)
      /\ \A t \in Renderers : ~Announces(rest, t)
                              /\ (Announces(stack[r], t) <=> frame = EventFrame(t, TRUE))
  BY <1>1, <1>2, <1>3, PoppedFrame DEF Settled
<1> HIDE DEF frame, rest
<1>5. frame.peer \in Renderers /\ frame = EventFrame(frame.peer, frame.answers)
      /\ frame.answers \in BOOLEAN
  BY <1>2, <1>4 DEF Frames, CallFrames, ServeFrames, EventFrames, EventFrame
<1>6. \A t \in Renderers : Announces(stack[r], t) <=> frame.answers /\ t = frame.peer
  BY <1>4, <1>5 DEF EventFrame
<1>7. ConnectionTypes'
  BY <1>1, <1>2, <1>4 DEF ConnectionTypes
<1>8. EventsTellTheLane'
  BY <1>2 DEF ConnectionInv, EventsTellTheLane
<1>9. RenderersSettled'
  <2> SUFFICES ASSUME NEW q \in Renderers
               PROVE  Settled(services[q], pending'[q], requests[q], stack'[q])
    BY <1>2 DEF RenderersSettled
  <2>1. CASE q # r
    <3>1. pending'[q] = pending[q] /\ stack'[q] = stack[q]
      BY <1>1, <1>2, <2>1 DEF ConnectionTypes
    <3> QED BY <3>1 DEF ConnectionInv, RenderersSettled
  <2>2. CASE q = r
    <3>1. stack'[r] = rest
          /\ pending'[r] = IF frame.answers THEN pending[r] \ {frame.peer} ELSE pending[r]
      BY <1>1, <1>2 DEF ConnectionTypes
    <3> QED BY <1>3, <1>4, <1>6, <2>2, <3>1 DEF Settled
  <2> QED BY <2>1, <2>2
<1> QED BY <1>7, <1>8, <1>9 DEF ConnectionInv

(* Synchronous calls touch no event, whatever becomes of them.             *)
LEMMA SendStep ==
  ASSUME ConnectionInv, NEW r \in Renderers, NEW t \in Renderers, SendToRendererSync(r, t)
  PROVE  ConnectionInv'
<1> DEFINE c == Call(r, Len(stack[r]) + 1, t, LaneTo(r, t))
<1>1. ConnectionTypes /\ stack[r] \in Seq(Frames)
  BY DEF ConnectionInv, ConnectionTypes
<1>2. c \in Calls
  <2>1. Len(stack[r]) + 1 \in Nat
    BY <1>1
  <2> QED BY <2>1 DEF Calls, Call, LaneTo
<1>3. /\ UNCHANGED <<services, pending, requests, told>>
      /\ stack' = [stack EXCEPT ![r] = Append(stack[r], CallFrame(c))]
      /\ \E stage \in {"request", "relay"} : mail' = mail \cup {Mail(c, stage)}
  BY <1>1 DEF SendToRendererSync, managerVars, Push, ConnectionTypes
<1> HIDE DEF c
<1>4. CallFrame(c) \in Frames /\ CallFrame(c).kind # "event"
  BY <1>2, FrameKinds
<1>5. \A m \in mail' : m.call \in Calls
  BY <1>1, <1>2, <1>3 DEF ConnectionTypes, Mail
<1>6. Append(stack[r], CallFrame(c)) \in Seq(Frames)
      /\ SameEvents(stack[r], Append(stack[r], CallFrame(c)))
  BY <1>1, <1>4, PushedFrame
<1> QED BY <1>3, <1>5, <1>6, OneStackChanges

LEMMA RelayStep ==
  ASSUME ConnectionInv, NEW c \in Calls, MessageToSync(c)
  PROVE  ConnectionInv'
<1>1. UNCHANGED <<services, pending, requests, told, stack>>
  BY DEF MessageToSync, managerVars
<1>2. \A m \in mail' : m.call \in Calls
  BY DEF MessageToSync, Mail, ConnectionInv, ConnectionTypes
<1> QED BY <1>1, <1>2, EventsUntouched DEF ConnectionInv, ConnectionTypes, SameEvents

LEMMA ServeStep ==
  ASSUME ConnectionInv, NEW c \in Calls, MessageSync(c)
  PROVE  ConnectionInv'
<1>1. c.to \in Renderers /\ stack[c.to] \in Seq(Frames)
  BY DEF Calls, ConnectionInv, ConnectionTypes
<1>2. /\ UNCHANGED <<services, pending, requests, told>>
      /\ stack' = [stack EXCEPT ![c.to] = Append(stack[c.to], ServeFrame(c))]
      /\ mail' = mail \ {Mail(c, "request")}
  BY <1>1 DEF MessageSync, managerVars, Push, ConnectionInv, ConnectionTypes
<1>3. ServeFrame(c) \in Frames /\ ServeFrame(c).kind # "event"
  BY FrameKinds
<1>4. \A m \in mail' : m.call \in Calls
  BY <1>2 DEF ConnectionInv, ConnectionTypes
<1>5. Append(stack[c.to], ServeFrame(c)) \in Seq(Frames)
      /\ SameEvents(stack[c.to], Append(stack[c.to], ServeFrame(c)))
  BY <1>1, <1>3, PushedFrame
<1> QED BY <1>1, <1>2, <1>4, <1>5, OneStackChanges

LEMMA NoFrameStep ==
  ASSUME ConnectionInv, NEW c \in Calls, MessageSyncNoFrame(c)
  PROVE  ConnectionInv'
<1> DEFINE failed == IF c.lane = "browser" THEN {c}
                     ELSE {d \in CallsOf(c.from) : d.lane = "direct" /\ d.to = c.to /\ ~Answered(d)}
<1>1. ConnectionTypes
  BY DEF ConnectionInv
<1>2. failed \subseteq Calls
  <2>1. CallsOf(c.from) \subseteq Calls
    BY <1>1, CallsAreCalls DEF Calls
  <2> QED BY <2>1
<1>3. /\ UNCHANGED <<services, pending, requests, told>>
      /\ mail' = FailedMail(failed)
      /\ stack' = [q \in Renderers |-> Orphaned(stack[q], failed)]
  BY DEF MessageSyncNoFrame
<1> HIDE DEF failed
<1>4. \A q \in Renderers : Orphaned(stack[q], failed) \in Seq(Frames)
                           /\ SameEvents(stack[q], Orphaned(stack[q], failed))
  BY <1>1, OrphanedFrames DEF ConnectionTypes
<1>5. \A m \in mail' : m.call \in Calls
  BY <1>1, <1>2, <1>3, FailedMailTyped
<1> QED BY <1>1, <1>3, <1>4, <1>5, EventsUntouched DEF ConnectionTypes

LEMMA ServeReturnsStep ==
  ASSUME ConnectionInv, NEW r \in Renderers, ServeReturns(r)
  PROVE  ConnectionInv'
<1> DEFINE frame == Last(stack[r])
           rest == Front(stack[r])
<1>1. ConnectionTypes /\ stack[r] \in Seq(Frames)
  BY DEF ConnectionInv, ConnectionTypes
<1>2. /\ UNCHANGED <<services, pending, requests, told>>
      /\ stack[r] # <<>> /\ frame.kind = "serve"
      /\ stack' = [stack EXCEPT ![r] = rest]
      /\ mail' = mail \/ mail' = mail \cup {Mail(frame.call, "reply")}
  BY <1>1 DEF ServeReturns, SendReply, Pop, managerVars, ConnectionTypes
<1>3. frame \in Frames /\ rest \in Seq(Frames) /\ SameEvents(stack[r], rest)
  BY <1>1, <1>2, PoppedFrame
<1> HIDE DEF frame, rest
<1>4. frame.call \in Calls
  BY <1>2, <1>3 DEF Frames, CallFrames, ServeFrames, EventFrames
<1>5. \A m \in mail' : m.call \in Calls
  BY <1>1, <1>2, <1>4 DEF ConnectionTypes, Mail
<1> QED BY <1>2, <1>3, <1>5, OneStackChanges

LEMMA CallReturnsStep ==
  ASSUME ConnectionInv, NEW r \in Renderers, CallReturns(r)
  PROVE  ConnectionInv'
<1> DEFINE rest == Front(stack[r])
<1>1. ConnectionTypes /\ stack[r] \in Seq(Frames)
  BY DEF ConnectionInv, ConnectionTypes
<1>2. /\ UNCHANGED <<services, pending, requests, told>>
      /\ stack[r] # <<>> /\ Last(stack[r]).kind = "call"
      /\ stack' = [stack EXCEPT ![r] = rest]
      /\ mail' \subseteq mail
  BY <1>1 DEF CallReturns, Waiting, Pop, managerVars, ConnectionTypes
<1>3. rest \in Seq(Frames) /\ SameEvents(stack[r], rest)
  BY <1>1, <1>2, PoppedFrame
<1> HIDE DEF rest
<1>4. \A m \in mail' : m.call \in Calls
  BY <1>1, <1>2 DEF ConnectionTypes
<1> QED BY <1>2, <1>3, <1>4, OneStackChanges

(* A new page begins outside any task, with nothing.                       *)
LEMMA ReloadStep ==
  ASSUME ConnectionInv, NEW r \in Renderers, Reload(r)
  PROVE  ConnectionInv'
<1>1. stack[r] = <<>> /\ UNCHANGED <<stack, mail>>
  BY DEF Reload, Idle
<1>2. ConnectionTypes'
  BY DEF ConnectionInv, ConnectionTypes, Reload, RequestStates
<1>3. EventsTellTheLane'
  BY DEF ConnectionInv, EventsTellTheLane, Reload
<1>4. RenderersSettled'
  <2> SUFFICES ASSUME NEW q \in Renderers
               PROVE  Settled(services'[q], pending'[q], requests'[q], stack[q])
    BY <1>1 DEF RenderersSettled
  <2>1. Settled(services[q], pending[q], requests[q], stack[q])
    BY DEF ConnectionInv, RenderersSettled
  <2>2. CASE q # r
    <3>1. services'[q] = services[q] /\ pending'[q] = pending[q] /\ requests'[q] = requests[q]
      BY <2>2 DEF Reload, ConnectionInv, ConnectionTypes
    <3> QED BY <2>1, <3>1
  <2>3. CASE q = r
    <3>1. services'[r] = {} /\ pending'[r] = {} /\ requests'[r] = [t \in Renderers |-> "none"]
      BY DEF Reload, ConnectionInv, ConnectionTypes
    <3> QED BY <1>1, <2>3, <3>1, TaskFrames DEF Settled
  <2> QED BY <2>2, <2>3
<1> QED BY <1>2, <1>3, <1>4 DEF ConnectionInv

(* The dead renderer has nothing left, the others keep their events and,   *)
(* dropped or not, their requests.                                         *)
LEMMA DieStep ==
  ASSUME ConnectionInv, NEW t \in Renderers, NEW how, Die(t, how)
  PROVE  ConnectionInv'
<1> DEFINE failed == FailedByDeath(t)
           orphaned == failed \cup CallsOf(t)
<1>1. ConnectionTypes
  BY DEF ConnectionInv
<1>2. failed \subseteq Calls
  BY <1>1, CallsAreCalls DEF FailedByDeath, CallsTo, RelayedCalls
<1>3. /\ mail' \subseteq FailedMail(failed)
      /\ stack' = [r \in Renderers |-> IF r = t THEN <<>> ELSE Orphaned(stack[r], orphaned)]
      /\ requests' = [r \in Renderers |-> IF r = t THEN NoRequests
                                          ELSE IF requests[r][t] = "atTarget" THEN Lost(requests[r])
                                          ELSE requests[r]]
      /\ services' = [services EXCEPT ![t] = {}]
      /\ pending' = [pending EXCEPT ![t] = {}]
      /\ told' = [told EXCEPT ![t] = {}]
  BY DEF Die
<1> HIDE DEF failed, orphaned
<1>4. \A r \in Renderers : Orphaned(stack[r], orphaned) \in Seq(Frames)
                           /\ SameEvents(stack[r], Orphaned(stack[r], orphaned))
  BY <1>1, OrphanedFrames DEF ConnectionTypes
<1>5. ConnectionTypes'
  <2>1. \A m \in mail' : m.call \in Calls
    BY <1>1, <1>2, <1>3, FailedMailTyped
  <2>2. stack' \in [Renderers -> Seq(Frames)]
    BY <1>3, <1>4, TaskFrames
  <2>3. requests' \in [Renderers -> [Renderers -> RequestStates]]
    BY <1>1, <1>3 DEF ConnectionTypes, Lost, NoRequests, RequestStates
  <2>4. services' \in [Renderers -> SUBSET Renderers] /\ pending' \in [Renderers -> SUBSET Renderers]
    BY <1>1, <1>3 DEF ConnectionTypes
  <2> QED BY <2>1, <2>2, <2>3, <2>4 DEF ConnectionTypes
<1>6. EventsTellTheLane'
  BY <1>3 DEF ConnectionInv, EventsTellTheLane
<1>7. RenderersSettled'
  <2> SUFFICES ASSUME NEW q \in Renderers
               PROVE  Settled(services'[q], pending'[q], requests'[q], stack'[q])
    BY DEF RenderersSettled
  <2>1. Settled(services[q], pending[q], requests[q], stack[q])
    BY DEF ConnectionInv, RenderersSettled
  <2>2. CASE q # t
    <3>1. services'[q] = services[q] /\ pending'[q] = pending[q]
          /\ stack'[q] = Orphaned(stack[q], orphaned)
      BY <1>1, <1>3, <2>2 DEF ConnectionTypes
    <3>2. \A x \in Renderers : requests'[q][x] = "none" <=> requests[q][x] = "none"
      BY <1>1, <1>3, <2>2 DEF ConnectionTypes, Lost
    <3>3. SameEvents(stack[q], stack'[q])
      BY <1>4, <3>1
    <3> QED BY <2>1, <3>1, <3>2, <3>3, SettledAgain
  <2>3. CASE q = t
    <3>1. services'[t] = {} /\ pending'[t] = {} /\ requests'[t] = NoRequests /\ stack'[t] = <<>>
      BY <1>1, <1>3 DEF ConnectionTypes
    <3> QED BY <2>3, <3>1, TaskFrames DEF Settled, NoRequests
  <2> QED BY <2>2, <2>3
<1> QED BY <1>5, <1>6, <1>7 DEF ConnectionInv

LEMMA ConnectionStepInv == ConnectionInv /\ [ConnectionNext]_connectionVars => ConnectionInv'
<1> SUFFICES ASSUME ConnectionInv, [ConnectionNext]_connectionVars PROVE ConnectionInv'
  OBVIOUS
<1>1. ASSUME NEW r \in Renderers, NEW t \in Renderers, Connecting(r, t) PROVE ConnectionInv'
  BY <1>1, ConnectStep, BrokerStep, BindStep, ConnectedStep, ErrorStep DEF Connecting
<1>2. ASSUME NEW r \in Renderers, NEW t \in Renderers, SendToRendererSync(r, t) PROVE ConnectionInv'
  BY <1>2, SendStep
<1>3. ASSUME NEW m \in mail, Carrying(m.call) PROVE ConnectionInv'
  <2>1. m.call \in Calls
    BY DEF ConnectionInv, ConnectionTypes
  <2> QED BY <1>3, <2>1, RelayStep, ServeStep, NoFrameStep DEF Carrying
<1>4. ASSUME NEW r \in Renderers, Returning(r) PROVE ConnectionInv'
  BY <1>4, EventStep, ServeReturnsStep, CallReturnsStep DEF Returning
<1>5. ASSUME NEW r \in Renderers, Reload(r) PROVE ConnectionInv'
  BY <1>5, ReloadStep
<1>6. ASSUME NEW r \in Renderers, NEW how \in {"crashed", "closed"}, Die(r, how) PROVE ConnectionInv'
  BY <1>6, DieStep
<1>7. CASE UNCHANGED connectionVars
  BY <1>7, EventsUntouched
     DEF connectionVars, managerVars, ConnectionInv, ConnectionTypes, SameEvents
<1> QED BY <1>1, <1>2, <1>3, <1>4, <1>5, <1>6, <1>7 DEF ConnectionNext

LEMMA ConnectionAlways == ConnectionSpec => []ConnectionInv
<1> QED BY ConnectionInitInv, ConnectionStepInv, PTL DEF ConnectionSpec

(***************************************************************************)
(* The calls in a stack.                                                   *)
(***************************************************************************)

(* What a stack of frames says of a call.                                  *)
CallAt(s, i, c) == i \in 1 .. Len(s) /\ s[i].kind = "call" /\ s[i].call = c
ServeAt(s, i, c) == i \in 1 .. Len(s) /\ OpenServe(s[i], c)

LEMMA FramePushed ==
  ASSUME NEW s \in Seq(Frames), NEW frame \in Frames, NEW i \in Nat, NEW c
  PROVE  /\ CallAt(Append(s, frame), i, c) <=>
              CallAt(s, i, c) \/ (i = Len(s) + 1 /\ frame.kind = "call" /\ frame.call = c)
         /\ ServeAt(Append(s, frame), i, c) <=>
              ServeAt(s, i, c) \/ (i = Len(s) + 1 /\ OpenServe(frame, c))
<1> DEFINE after == Append(s, frame)
<1>1. /\ Len(after) = Len(s) + 1 /\ Len(s) \in Nat
      /\ \A j \in 1 .. Len(s) : after[j] = s[j]
      /\ after[Len(s) + 1] = frame
  BY AppendProperties
<1> HIDE DEF after
<1>2. /\ i \in 1 .. Len(after) <=> i \in 1 .. Len(s) \/ i = Len(s) + 1
      /\ ~(i \in 1 .. Len(s) /\ i = Len(s) + 1)
  BY <1>1
<1>3. CallAt(after, i, c) <=>
        CallAt(s, i, c) \/ (i = Len(s) + 1 /\ frame.kind = "call" /\ frame.call = c)
  BY <1>1, <1>2 DEF CallAt
<1>4. ServeAt(after, i, c) <=> ServeAt(s, i, c) \/ (i = Len(s) + 1 /\ OpenServe(frame, c))
  BY <1>1, <1>2 DEF ServeAt
<1> QED BY <1>3, <1>4 DEF after

LEMMA FramePopped ==
  ASSUME NEW s \in Seq(Frames), s # <<>>, NEW i \in Nat, NEW c
  PROVE  /\ CallAt(Front(s), i, c) <=> CallAt(s, i, c) /\ i # Len(s)
         /\ ServeAt(Front(s), i, c) <=> ServeAt(s, i, c) /\ i # Len(s)
<1> DEFINE after == Front(s)
           n == Len(s)
<1>1. n \in Nat /\ n >= 1 /\ Len(after) = n - 1 /\ \A j \in 1 .. n - 1 : after[j] = s[j]
  BY FrontFrames
<1> HIDE DEF after, n
<1>2. i \in 1 .. Len(after) <=> i \in 1 .. n /\ i # n
  BY <1>1
<1>3. i \in 1 .. Len(after) => after[i] = s[i]
  BY <1>1
<1> QED BY <1>2, <1>3 DEF CallAt, ServeAt, after, n

LEMMA FrameOrphaned ==
  ASSUME NEW s \in Seq(Frames), NEW failed, NEW i \in Nat, NEW c
  PROVE  /\ CallAt(Orphaned(s, failed), i, c) <=> CallAt(s, i, c)
         /\ ServeAt(Orphaned(s, failed), i, c) <=> ServeAt(s, i, c) /\ c \notin failed
<1> DEFINE after == Orphaned(s, failed)
<1>1. after = [j \in 1 .. Len(s) |->
                 IF s[j].kind = "serve" /\ s[j].call \in failed
                 THEN [s[j] EXCEPT !.open = FALSE] ELSE s[j]]
  BY DEF Orphaned
<1>2. after \in Seq(Frames) /\ Len(s) \in Nat
  BY OrphanedFrames
<1>3. Len(after) = Len(s)
  BY <1>1, <1>2
<1>4. ASSUME i \in 1 .. Len(s)
      PROVE  /\ after[i].kind = s[i].kind
             /\ after[i].call = s[i].call \/ s[i].kind = "event"
             /\ after[i].kind = "serve" =>
                  (after[i].open <=> s[i].open /\ s[i].call \notin failed)
  <2>1. s[i] \in Frames
    BY <1>4
  <2>2. after[i] = IF s[i].kind = "serve" /\ s[i].call \in failed
                   THEN [s[i] EXCEPT !.open = FALSE] ELSE s[i]
    BY <1>1, <1>4
  <2> QED BY <2>1, <2>2 DEF Frames, CallFrames, ServeFrames, EventFrames
<1> HIDE DEF after
<1>5. CallAt(after, i, c) <=> CallAt(s, i, c)
  BY <1>3, <1>4 DEF CallAt
<1>6. ServeAt(after, i, c) <=> ServeAt(s, i, c) /\ c \notin failed
  BY <1>3, <1>4 DEF ServeAt, OpenServe
<1> QED BY <1>5, <1>6 DEF after

(***************************************************************************)
(* Types and bounds.                                                       *)
(***************************************************************************)
StateTypes ==
  /\ state \in [Renderers -> {"alive", "crashed", "closed"}]
  /\ browserOpen \in [Renderers -> BOOLEAN]
  /\ broken \in [Renderers -> SUBSET Renderers]

(* A disconnect handler is to run only for a service in the map, and the   *)
(* browser never passes a renderer's request on to that renderer.          *)
BrokenAreServices == \A r \in Renderers : broken[r] \subseteq services[r]
NoneToItself ==
  \A r \in Renderers : r \notin services[r] /\ requests[r][r] \notin {"atTarget", "connected"}

ServicesInv == StateTypes /\ BrokenAreServices /\ NoneToItself

FewCalls == \A r \in Renderers : IsFiniteSet(CallsOf(r)) /\ Cardinality(CallsOf(r)) <= MaxCalls

LEMMA ServicesInit == ConnectionInit => ServicesInv
BY DEF ConnectionInit, ServicesInv, StateTypes, BrokenAreServices, NoneToItself, NoRequests

LEMMA ServicesStep == ConnectionInv /\ ServicesInv /\ [ConnectionNext]_connectionVars => ServicesInv'
<1> SUFFICES ASSUME ConnectionInv, ServicesInv, [ConnectionNext]_connectionVars PROVE ServicesInv'
  OBVIOUS
<1> USE DEF ServicesInv, StateTypes, BrokenAreServices, NoneToItself
<1>0. ConnectionTypes
  BY DEF ConnectionInv
<1>1. ASSUME NEW r \in Renderers, NEW t \in Renderers, Connecting(r, t) PROVE ServicesInv'
  <2>1. CASE ConnectToRenderer(r, t)
    BY <1>0, <2>1 DEF ConnectToRenderer, ConnectionTypes
  <2>2. CASE BrokerRequest(r, t)
    <3>1. CASE CloseBrowserPipe(r)
      BY <1>0, <2>2, <3>1 DEF BrokerRequest, CloseBrowserPipe, Lost, ConnectionTypes
    <3>2. CASE requests' = [requests EXCEPT ![r][t] = IF Refused(r, t) THEN "refused" ELSE "atTarget"]
               /\ UNCHANGED browserOpen
      BY <1>0, <2>2, <3>2 DEF BrokerRequest, Refused, ConnectionTypes
    <3> QED BY <2>2, <3>1, <3>2 DEF BrokerRequest
  <2>3. CASE BindService(r, t)
    BY <1>0, <2>3 DEF BindService, ConnectionTypes
  <2>4. CASE OnRendererConnected(r, t)
    <3>1. CASE requests[r][t] = "connected" /\ RegisterConnection(r, t)
      BY <1>0, <2>4, <3>1 DEF OnRendererConnected, RegisterConnection, ConnectionTypes
    <3>2. CASE UNCHANGED <<services, broken>>
      BY <1>0, <2>4, <3>2 DEF OnRendererConnected, ConnectionTypes
    <3> QED BY <2>4, <3>1, <3>2 DEF OnRendererConnected
  <2>5. CASE OnConnectionError(r, t)
    BY <1>0, <2>5 DEF OnConnectionError, ForgetService, ConnectionTypes
  <2> QED BY <1>1, <2>1, <2>2, <2>3, <2>4, <2>5 DEF Connecting
<1>2. ASSUME NEW r \in Renderers, NEW t \in Renderers, SendToRendererSync(r, t) PROVE ServicesInv'
  BY <1>2 DEF SendToRendererSync, managerVars
<1>3. ASSUME NEW m \in mail, Carrying(m.call) PROVE ServicesInv'
  <2>1. m.call.from \in Renderers /\ m.call.to \in Renderers
    BY <1>0 DEF ConnectionTypes, Calls
  <2>2. CASE MessageToSync(m.call) \/ MessageSync(m.call)
    BY <2>2 DEF MessageToSync, MessageSync, managerVars
  <2>3. CASE MessageSyncNoFrame(m.call)
    BY <1>0, <2>1, <2>3 DEF MessageSyncNoFrame, ConnectionTypes
  <2> QED BY <1>3, <2>2, <2>3 DEF Carrying
<1>4. ASSUME NEW r \in Renderers, Returning(r) PROVE ServicesInv'
  BY <1>4 DEF Returning, EventReturns, ServeReturns, CallReturns, managerVars
<1>5. ASSUME NEW r \in Renderers, Reload(r) PROVE ServicesInv'
  BY <1>0, <1>5 DEF Reload, ConnectionTypes
<1>6. ASSUME NEW r \in Renderers, NEW how \in {"crashed", "closed"}, Die(r, how) PROVE ServicesInv'
  <2>1. /\ state' = [state EXCEPT ![r] = how]
        /\ services' = [services EXCEPT ![r] = {}]
        /\ browserOpen' = [q \in Renderers |-> browserOpen[q] /\ requests[q][r] # "atTarget"]
        /\ broken' = [q \in Renderers |-> IF q = r THEN {} ELSE broken[q] \cup ({r} \cap services[q])]
        /\ requests' = [q \in Renderers |-> IF q = r THEN NoRequests
                                            ELSE IF requests[q][r] = "atTarget" THEN Lost(requests[q])
                                            ELSE requests[q]]
    BY <1>6 DEF Die
  <2>2. StateTypes'
    BY <2>1
  <2>3. BrokenAreServices' /\ NoneToItself'
    BY <1>0, <2>1 DEF NoRequests, Lost, ConnectionTypes
  <2> QED BY <2>2, <2>3
<1>7. CASE UNCHANGED connectionVars
  BY <1>7 DEF connectionVars, managerVars
<1> QED BY <1>1, <1>2, <1>3, <1>4, <1>5, <1>6, <1>7 DEF ConnectionNext

(* Only a frame of a call adds a call.                                     *)
CallsIn(s) == {s[i].call : i \in {j \in 1 .. Len(s) : s[j].kind = "call"}}

LEMMA CallsInFrames ==
  ASSUME NEW s \in Seq(Frames)
  PROVE  /\ \A frame \in Frames : frame.kind # "call" => CallsIn(Append(s, frame)) \subseteq CallsIn(s)
         /\ \A c \in Calls : CallsIn(Append(s, CallFrame(c))) \subseteq CallsIn(s) \cup {c}
         /\ s # <<>> => CallsIn(Front(s)) \subseteq CallsIn(s)
         /\ \A failed : CallsIn(Orphaned(s, failed)) \subseteq CallsIn(s)
         /\ CallsIn(<<>>) = {}
<1>1. \A after \in Seq(Frames) : \A c :
        c \in CallsIn(after) <=> \E i \in Nat : CallAt(after, i, c)
  BY DEF CallsIn, CallAt
<1>2. ASSUME NEW frame \in Frames, NEW c \in CallsIn(Append(s, frame))
      PROVE  c \in CallsIn(s) \/ (frame.kind = "call" /\ frame.call = c)
  <2>1. Append(s, frame) \in Seq(Frames)
    BY AppendProperties
  <2>2. PICK i \in Nat : CallAt(Append(s, frame), i, c)
    BY <1>1, <1>2, <2>1
  <2> QED BY <1>1, <2>2, FramePushed
<1>3. ASSUME s # <<>>, NEW c \in CallsIn(Front(s)) PROVE c \in CallsIn(s)
  <2>1. Front(s) \in Seq(Frames)
    BY <1>3, FrontFrames
  <2>2. PICK i \in Nat : CallAt(Front(s), i, c)
    BY <1>1, <1>3, <2>1
  <2> QED BY <1>1, <1>3, <2>2, FramePopped
<1>4. ASSUME NEW failed, NEW c \in CallsIn(Orphaned(s, failed)) PROVE c \in CallsIn(s)
  <2>1. Orphaned(s, failed) \in Seq(Frames)
    BY OrphanedFrames
  <2>2. PICK i \in Nat : CallAt(Orphaned(s, failed), i, c)
    BY <1>1, <1>4, <2>1
  <2> QED BY <1>1, <2>2, FrameOrphaned
<1>5. CallsIn(<<>>) = {}
  BY DEF CallsIn
<1>6. \A c \in Calls : CallFrame(c) \in Frames /\ CallFrame(c).call = c
  BY FrameKinds DEF CallFrame
<1>7. \A frame \in Frames : frame.kind # "call" => CallsIn(Append(s, frame)) \subseteq CallsIn(s)
  BY <1>2
<1>8. \A c \in Calls : CallsIn(Append(s, CallFrame(c))) \subseteq CallsIn(s) \cup {c}
  BY <1>2, <1>6
<1> QED BY <1>3, <1>4, <1>5, <1>7, <1>8

(* A step that adds a call says which; all others add none.                *)
LEMMA CallsStep ==
  ASSUME ConnectionInv, [ConnectionNext]_connectionVars, NEW r \in Renderers
  PROVE  \/ CallsIn(stack'[r]) \subseteq CallsIn(stack[r])
         \/ /\ Cardinality(CallsOf(r)) < MaxCalls
            /\ \E c \in Calls : CallsIn(stack'[r]) \subseteq CallsIn(stack[r]) \cup {c}
<1> DEFINE Fewer == CallsIn(stack'[r]) \subseteq CallsIn(stack[r])
<1>0. /\ ConnectionTypes /\ stack \in [Renderers -> Seq(Frames)] /\ stack[r] \in Seq(Frames)
      /\ \A m \in mail : m.call \in Calls
  BY DEF ConnectionInv, ConnectionTypes
<1>1. ASSUME NEW q \in Renderers, NEW frame \in Frames, frame.kind # "call", Push(q, frame) PROVE Fewer
  <2>1. stack'[r] = IF r = q THEN Append(stack[r], frame) ELSE stack[r]
    BY <1>0, <1>1 DEF Push
  <2> QED BY <1>0, <1>1, <2>1, CallsInFrames
<1>2. ASSUME NEW q \in Renderers, stack[q] # <<>>, Pop(q) PROVE Fewer
  <2>1. stack'[r] = IF r = q THEN Front(stack[r]) ELSE stack[r]
    BY <1>0, <1>2 DEF Pop
  <2> QED BY <1>0, <1>2, <2>1, CallsInFrames
<1>3. ASSUME NEW failed, stack' = [q \in Renderers |-> Orphaned(stack[q], failed)] PROVE Fewer
  BY <1>0, <1>3, CallsInFrames
<1>4. ASSUME NEW q \in Renderers, NEW t \in Renderers, Connecting(q, t) PROVE Fewer
  <2>1. CASE OnRendererConnected(q, t) \/ OnConnectionError(q, t)
    BY <1>1, <2>1, FrameKinds DEF OnRendererConnected, OnConnectionError
  <2>2. CASE UNCHANGED stack
    BY <2>2
  <2>3. CASE CloseBrowserPipe(q)
    BY <1>3, <2>3 DEF CloseBrowserPipe
  <2> QED BY <1>4, <2>1, <2>2, <2>3 DEF Connecting, ConnectToRenderer, BrokerRequest, BindService
<1>5. ASSUME NEW m \in mail, Carrying(m.call) PROVE Fewer
  <2>1. m.call \in Calls /\ m.call.to \in Renderers
    BY <1>0 DEF Calls
  <2>2. CASE MessageToSync(m.call)
    BY <2>2 DEF MessageToSync
  <2>3. CASE MessageSync(m.call)
    BY <1>1, <2>1, <2>3, FrameKinds DEF MessageSync
  <2>4. CASE MessageSyncNoFrame(m.call)
    BY <1>3, <2>4 DEF MessageSyncNoFrame
  <2> QED BY <1>5, <2>2, <2>3, <2>4 DEF Carrying
<1>6. ASSUME NEW q \in Renderers, Returning(q) PROVE Fewer
  BY <1>2, <1>6 DEF Returning, EventReturns, ServeReturns, CallReturns, Waiting
<1>7. ASSUME NEW q \in Renderers, NEW how, Die(q, how) PROVE Fewer
  <2>1. stack'[r] = <<>> \/ stack'[r] = Orphaned(stack[r], FailedByDeath(q) \cup CallsOf(q))
    BY <1>7 DEF Die
  <2> QED BY <1>0, <2>1, CallsInFrames
<1>8. ASSUME (\E q \in Renderers : Reload(q)) \/ UNCHANGED connectionVars PROVE Fewer
  BY <1>8 DEF Reload, connectionVars
<1>9. ASSUME NEW q \in Renderers, NEW t \in Renderers, SendToRendererSync(q, t)
      PROVE  \/ Fewer
             \/ /\ Cardinality(CallsOf(r)) < MaxCalls
                /\ \E c \in Calls : CallsIn(stack'[r]) \subseteq CallsIn(stack[r]) \cup {c}
  <2> DEFINE c == Call(q, Len(stack[q]) + 1, t, LaneTo(q, t))
  <2>1. Cardinality(CallsOf(q)) < MaxCalls /\ Push(q, CallFrame(c))
    BY <1>9 DEF SendToRendererSync
  <2>2. c \in Calls
    <3>1. Len(stack[q]) + 1 \in Nat
      BY <1>0
    <3> QED BY <3>1 DEF Calls, Call, LaneTo
  <2> HIDE DEF c
  <2>3. CASE r = q
    <3>1. stack'[r] = Append(stack[r], CallFrame(c))
      BY <1>0, <2>1, <2>3 DEF Push
    <3> QED BY <1>0, <2>1, <2>2, <2>3, <3>1, CallsInFrames
  <2>4. CASE r # q
    <3>1. stack'[r] = stack[r]
      BY <1>0, <2>1, <2>4 DEF Push
    <3> QED BY <3>1
  <2> QED BY <2>3, <2>4
<1> QED BY <1>4, <1>5, <1>6, <1>7, <1>8, <1>9 DEF ConnectionNext

LEMMA FewCallsInit == ConnectionInit => FewCalls
<1> SUFFICES ASSUME ConnectionInit, NEW r \in Renderers
             PROVE  IsFiniteSet(CallsOf(r)) /\ Cardinality(CallsOf(r)) <= MaxCalls
  BY DEF FewCalls
<1>1. CallsOf(r) = {}
  BY DEF ConnectionInit, CallsOf
<1> QED BY <1>1, FS_EmptySet, ConnectionAssumption

LEMMA FewCallsStep == ConnectionInv /\ FewCalls /\ [ConnectionNext]_connectionVars => FewCalls'
<1> SUFFICES ASSUME ConnectionInv, FewCalls, [ConnectionNext]_connectionVars, NEW r \in Renderers
             PROVE  IsFiniteSet(CallsIn(stack'[r])) /\ Cardinality(CallsIn(stack'[r])) <= MaxCalls
  BY DEF FewCalls, CallsOf, CallsIn
<1> DEFINE S == CallsIn(stack[r])
           T == CallsIn(stack'[r])
<1>1. IsFiniteSet(S) /\ Cardinality(S) <= MaxCalls /\ Cardinality(S) \in Nat /\ CallsOf(r) = S
  <2>1. CallsOf(r) = S
    BY DEF CallsOf, CallsIn
  <2> QED BY <2>1, FS_CardinalityType DEF FewCalls
<1>2. MaxCalls \in Nat
  BY ConnectionAssumption
<1>3. T \subseteq S \/ (Cardinality(S) < MaxCalls /\ \E c \in Calls : T \subseteq S \cup {c})
  BY <1>1, CallsStep
<1> HIDE DEF S, T
<1>4. CASE T \subseteq S
  <2>1. IsFiniteSet(T) /\ Cardinality(T) <= Cardinality(S)
    BY <1>1, <1>4, FS_Subset
  <2>2. Cardinality(T) \in Nat
    BY <2>1, FS_CardinalityType
  <2> QED BY <1>1, <1>2, <2>1, <2>2 DEF T
<1>5. ASSUME Cardinality(S) < MaxCalls, NEW c \in Calls, T \subseteq S \cup {c}
      PROVE  IsFiniteSet(T) /\ Cardinality(T) <= MaxCalls
  <2>1. IsFiniteSet(S \cup {c}) /\ Cardinality(S \cup {c}) <= Cardinality(S) + 1
    BY <1>1, FS_AddElement
  <2>2. IsFiniteSet(T) /\ Cardinality(T) <= Cardinality(S \cup {c})
    BY <1>5, <2>1, FS_Subset
  <2>3. Cardinality(T) \in Nat /\ Cardinality(S \cup {c}) \in Nat
    BY <2>1, <2>2, FS_CardinalityType
  <2> QED BY <1>1, <1>2, <1>5, <2>1, <2>2, <2>3
<1> QED BY <1>3, <1>4, <1>5 DEF T

LEMMA ServicesAlways == ConnectionSpec => []ServicesInv
<1> QED BY ServicesInit, ServicesStep, ConnectionAlways, PTL DEF ConnectionSpec

(***************************************************************************)
(* Carrying calls.                                                         *)
(***************************************************************************)

Made(c) == CallAt(stack[c.from], c.depth, c)

(* Calls are named by their frames, which only the living have; they are   *)
(* served where they go to, while they are made; and so is their mail on   *)
(* its way, unless the caller is dead.                                     *)
FramesAreNamed ==
  \A r \in Renderers, i \in Nat, c \in Calls :
    /\ CallAt(stack[r], i, c) => c.from = r /\ c.depth = i /\ Alive(r)
    /\ ServeAt(stack[r], i, c) => c.to = r /\ Made(c)

MailIsKnown ==
  \A m \in mail : m = Mail(m.call, m.stage) /\ (Alive(m.call.from) => Made(m.call))

(* One message or one frame, and no other.                                 *)
ByMail(c) ==
  /\ \E m \in mail : m.call = c /\ \A n \in mail : n.call = c => n = m
  /\ \A r \in Renderers, i \in Nat : ~ServeAt(stack[r], i, c)
ByFrame(c) ==
  /\ \A m \in mail : m.call # c
  /\ \E r \in Renderers, i \in Nat :
       /\ ServeAt(stack[r], i, c)
       /\ \A q \in Renderers, j \in Nat : ServeAt(stack[q], j, c) => q = r /\ j = i

CarriageInv ==
  /\ FramesAreNamed
  /\ MailIsKnown
  /\ \A c \in Calls : Made(c) => ByMail(c) \/ ByFrame(c)

(* A call whose carriers stay is carried as before.                        *)
LEMMA CarriersKept ==
  ASSUME NEW c, ByMail(c) \/ ByFrame(c),
         \A m \in mail : m.call = c => m \in mail',
         \A m \in mail' : m.call = c => m \in mail,
         \A r \in Renderers, i \in Nat : ServeAt(stack'[r], i, c) <=> ServeAt(stack[r], i, c)
  PROVE  ByMail(c)' \/ ByFrame(c)'
<1>1. ByMail(c) => ByMail(c)'
  BY DEF ByMail
<1>2. ASSUME ByFrame(c) PROVE ByFrame(c)'
  <2>1. PICK r \in Renderers, i \in Nat :
          /\ ServeAt(stack[r], i, c)
          /\ \A q \in Renderers, j \in Nat : ServeAt(stack[q], j, c) => q = r /\ j = i
    BY <1>2 DEF ByFrame
  <2>2. /\ ServeAt(stack'[r], i, c)
        /\ \A q \in Renderers, j \in Nat : ServeAt(stack'[q], j, c) => q = r /\ j = i
    BY <2>1
  <2>3. \A m \in mail' : m.call # c
    BY <1>2 DEF ByFrame
  <2>4. \E r1 \in Renderers, i1 \in Nat :
          /\ ServeAt(stack'[r1], i1, c)
          /\ \A q \in Renderers, j \in Nat : ServeAt(stack'[q], j, c) => q = r1 /\ j = i1
    BY <2>2
  <2> QED BY <2>3, <2>4 DEF ByFrame
<1> QED BY <1>1, <1>2

LEMMA CarriageKept ==
  ASSUME CarriageInv, UNCHANGED <<state, mail>>,
         \A r \in Renderers, i \in Nat, c \in Calls :
           /\ CallAt(stack'[r], i, c) <=> CallAt(stack[r], i, c)
           /\ ServeAt(stack'[r], i, c) <=> ServeAt(stack[r], i, c),
         \A m \in mail : m.call \in Calls
  PROVE  CarriageInv'
<1>1. \A c \in Calls : Made(c)' <=> Made(c)
  BY DEF Made, Calls
<1>2. FramesAreNamed'
  BY <1>1 DEF CarriageInv, FramesAreNamed, Alive
<1>3. MailIsKnown'
  BY <1>1 DEF CarriageInv, MailIsKnown, Alive
<1>4. \A c \in Calls : Made(c)' => ByMail(c)' \/ ByFrame(c)'
  <2> SUFFICES ASSUME NEW c \in Calls, Made(c)' PROVE ByMail(c)' \/ ByFrame(c)'
    OBVIOUS
  <2>1. ByMail(c) \/ ByFrame(c)
    BY <1>1 DEF CarriageInv
  <2> QED BY <2>1, CarriersKept
<1> QED BY <1>2, <1>3, <1>4 DEF CarriageInv

LEMMA CallsOfMade ==
  ASSUME ConnectionTypes, FramesAreNamed, NEW r \in Renderers
  PROVE  /\ \A c \in CallsOf(r) : c \in Calls /\ c.from = r /\ Made(c)
         /\ \A c \in Calls : c.from = r /\ Made(c) => c \in CallsOf(r)
<1>0. stack[r] \in Seq(Frames) /\ Len(stack[r]) \in Nat
  BY DEF ConnectionTypes
<1>1. ASSUME NEW c \in CallsOf(r) PROVE c \in Calls /\ c.from = r /\ Made(c)
  <2>1. PICK i \in 1 .. Len(stack[r]) : stack[r][i].kind = "call" /\ stack[r][i].call = c
    BY DEF CallsOf
  <2>2. c \in Calls /\ CallAt(stack[r], i, c) /\ i \in Nat
    BY <1>0, <2>1, CallsAreCalls DEF CallAt
  <2>3. c.from = r /\ c.depth = i
    BY <2>2 DEF FramesAreNamed
  <2> QED BY <2>2, <2>3 DEF Made
<1>2. ASSUME NEW c \in Calls, c.from = r, Made(c) PROVE c \in CallsOf(r)
  BY <1>2 DEF Made, CallAt, CallsOf
<1> QED BY <1>1, <1>2

(* Calls that fail are carried by their error.                             *)
LEMMA FailingCarried ==
  ASSUME ConnectionTypes, CarriageInv, UNCHANGED state,
         NEW failed, failed \subseteq Calls, \A c \in failed : Made(c),
         mail' = FailedMail(failed),
         stack' = [r \in Renderers |-> Orphaned(stack[r], failed)]
  PROVE  CarriageInv'
<1>1. \A r \in Renderers, i \in Nat, c \in Calls :
        /\ CallAt(stack'[r], i, c) <=> CallAt(stack[r], i, c)
        /\ ServeAt(stack'[r], i, c) <=> ServeAt(stack[r], i, c) /\ c \notin failed
  BY FrameOrphaned DEF ConnectionTypes
<1>2. \A c \in Calls : Made(c)' <=> Made(c)
  BY <1>1 DEF Made, Calls
<1>3. FramesAreNamed'
  BY <1>1, <1>2 DEF CarriageInv, FramesAreNamed, Alive
<1>4. \A m \in mail' : (m \in mail /\ m.call \notin failed)
                       \/ (m.call \in failed /\ m = Mail(m.call, "reply") /\ m.stage = "reply")
  BY DEF FailedMail, Mail
<1>5. MailIsKnown'
  <2>1. \A m \in mail' : m.call \in Calls /\ m = Mail(m.call, m.stage)
    BY <1>4 DEF CarriageInv, MailIsKnown, ConnectionTypes
  <2>2. \A m \in mail' : Alive(m.call.from) => Made(m.call)
    BY <1>4 DEF CarriageInv, MailIsKnown
  <2> QED BY <1>2, <2>1, <2>2 DEF MailIsKnown, Alive
<1>6. \A c \in Calls : Made(c)' => ByMail(c)' \/ ByFrame(c)'
  <2> SUFFICES ASSUME NEW c \in Calls, Made(c)' PROVE ByMail(c)' \/ ByFrame(c)'
    OBVIOUS
  <2>1. ByMail(c) \/ ByFrame(c)
    BY <1>2 DEF CarriageInv
  <2>2. CASE c \in failed
    <3>1. Mail(c, "reply") \in mail' /\ Mail(c, "reply").call = c
      BY <2>2 DEF FailedMail, Mail
    <3>2. \A n \in mail' : n.call = c => n = Mail(c, "reply")
      BY <1>4, <2>2
    <3>3. \A r \in Renderers, i \in Nat : ~ServeAt(stack'[r], i, c)
      BY <1>1, <2>2
    <3> QED BY <3>1, <3>2, <3>3 DEF ByMail
  <2>3. CASE c \notin failed
    <3>1. \A m \in mail : m.call = c => m \in mail'
      BY <2>3 DEF FailedMail
    <3>2. \A m \in mail' : m.call = c => m \in mail
      BY <1>4, <2>3
    <3>3. \A r \in Renderers, i \in Nat : ServeAt(stack'[r], i, c) <=> ServeAt(stack[r], i, c)
      BY <1>1, <2>3
    <3> QED BY <2>1, <3>1, <3>2, <3>3, CarriersKept
  <2> QED BY <2>2, <2>3
<1> QED BY <1>3, <1>5, <1>6 DEF CarriageInv

LEMMA CarriageInit == ConnectionInit => CarriageInv
<1> SUFFICES ASSUME ConnectionInit PROVE CarriageInv
  OBVIOUS
<1>1. \A r \in Renderers : stack[r] = <<>> /\ Len(stack[r]) = 0
  BY DEF ConnectionInit
<1>2. \A r \in Renderers, i \in Nat, c \in Calls : ~CallAt(stack[r], i, c) /\ ~ServeAt(stack[r], i, c)
  BY <1>1 DEF CallAt, ServeAt
<1>3. mail = {} /\ \A c \in Calls : ~Made(c)
  BY <1>2 DEF ConnectionInit, Made, Calls
<1> QED BY <1>2, <1>3 DEF CarriageInv, FramesAreNamed, MailIsKnown

(* An event comes or goes.                                                 *)
LEMMA EventCarried ==
  ASSUME ConnectionInv, CarriageInv, NEW r \in Renderers,
         \/ EventReturns(r)
         \/ \E t \in Renderers : OnRendererConnected(r, t) \/ OnConnectionError(r, t)
  PROVE  CarriageInv'
<1>1. UNCHANGED <<state, mail>> /\ \A m \in mail : m.call \in Calls
  BY DEF EventReturns, OnRendererConnected, OnConnectionError, ConnectionInv, ConnectionTypes
<1>2. stack \in [Renderers -> Seq(Frames)]
  BY DEF ConnectionInv, ConnectionTypes
<1>3. ASSUME EventReturns(r)
      PROVE  \A q \in Renderers, i \in Nat, c \in Calls :
               /\ CallAt(stack'[q], i, c) <=> CallAt(stack[q], i, c)
               /\ ServeAt(stack'[q], i, c) <=> ServeAt(stack[q], i, c)
  <2>1. /\ stack[r] # <<>> /\ stack[r][Len(stack[r])].kind = "event"
        /\ stack' = [stack EXCEPT ![r] = Front(stack[r])]
    BY <1>2, <1>3 DEF EventReturns, Pop, Last
  <2>2. \A i \in Nat, c \in Calls :
          /\ CallAt(Front(stack[r]), i, c) <=> CallAt(stack[r], i, c)
          /\ ServeAt(Front(stack[r]), i, c) <=> ServeAt(stack[r], i, c)
    <3> SUFFICES ASSUME NEW i \in Nat, NEW c \in Calls
                 PROVE  /\ CallAt(Front(stack[r]), i, c) <=> CallAt(stack[r], i, c)
                        /\ ServeAt(Front(stack[r]), i, c) <=> ServeAt(stack[r], i, c)
      OBVIOUS
    <3>1. ~CallAt(stack[r], Len(stack[r]), c) /\ ~ServeAt(stack[r], Len(stack[r]), c)
      BY <2>1 DEF CallAt, ServeAt, OpenServe
    <3> QED BY <1>2, <2>1, <3>1, FramePopped
  <2> QED BY <1>2, <2>1, <2>2
<1>4. ASSUME NEW t \in Renderers, OnRendererConnected(r, t) \/ OnConnectionError(r, t)
      PROVE  \A q \in Renderers, i \in Nat, c \in Calls :
               /\ CallAt(stack'[q], i, c) <=> CallAt(stack[q], i, c)
               /\ ServeAt(stack'[q], i, c) <=> ServeAt(stack[q], i, c)
  <2>1. PICK answers \in BOOLEAN :
          stack' = [stack EXCEPT ![r] = Append(stack[r], EventFrame(t, answers))]
    BY <1>2, <1>4 DEF OnRendererConnected, OnConnectionError, Push
  <2>2. EventFrame(t, answers) \in Frames /\ EventFrame(t, answers).kind = "event"
    BY FrameKinds
  <2>3. \A i \in Nat, c \in Calls :
          /\ CallAt(stack'[r], i, c) <=> CallAt(stack[r], i, c)
          /\ ServeAt(stack'[r], i, c) <=> ServeAt(stack[r], i, c)
    BY <1>2, <2>1, <2>2, FramePushed DEF OpenServe
  <2> QED BY <1>2, <2>1, <2>3
<1> QED BY <1>1, <1>3, <1>4, CarriageKept

(* The new call is the only one of its name: no frame is at its depth, and *)
(* what is carried is made.                                                *)
LEMMA SendCarried ==
  ASSUME ConnectionInv, CarriageInv,
         NEW r \in Renderers, NEW t \in Renderers, SendToRendererSync(r, t)
  PROVE  CarriageInv'
<1> DEFINE n == Len(stack[r])
           c == Call(r, n + 1, t, LaneTo(r, t))
<1>0. stack \in [Renderers -> Seq(Frames)] /\ n \in Nat /\ \A m \in mail : m.call \in Calls
  BY DEF ConnectionInv, ConnectionTypes
<1>1. c \in Calls /\ c.from = r /\ c.depth = n + 1
  BY <1>0 DEF Calls, Call, LaneTo
<1>2. /\ UNCHANGED state /\ Alive(r)
      /\ stack' = [stack EXCEPT ![r] = Append(stack[r], CallFrame(c))]
      /\ \E stage : mail' = mail \cup {Mail(c, stage)}
  BY <1>0 DEF SendToRendererSync, CanRun, Push
<1>3. n = Len(stack[r])
  OBVIOUS
<1> HIDE DEF c, n
<1>4. PICK stage : mail' = mail \cup {Mail(c, stage)}
  BY <1>2
<1>5. Mail(c, stage).call = c /\ Mail(c, stage).stage = stage
  BY DEF Mail
<1>6. CallFrame(c) \in Frames /\ CallFrame(c).kind = "call" /\ CallFrame(c).call = c
  BY <1>1, FrameKinds DEF CallFrame
<1>7. \A q \in Renderers, i \in Nat, d \in Calls :
        /\ CallAt(stack'[q], i, d) <=> CallAt(stack[q], i, d) \/ (q = r /\ i = n + 1 /\ d = c)
        /\ ServeAt(stack'[q], i, d) <=> ServeAt(stack[q], i, d)
  <2>1. \A i \in Nat, d \in Calls :
          /\ CallAt(stack'[r], i, d) <=> CallAt(stack[r], i, d) \/ (i = n + 1 /\ d = c)
          /\ ServeAt(stack'[r], i, d) <=> ServeAt(stack[r], i, d)
    BY <1>0, <1>2, <1>3, <1>6, FramePushed DEF OpenServe
  <2> QED BY <1>0, <1>2, <2>1
<1>8. ~Made(c)
  <2>1. n + 1 \notin 1 .. n
    BY <1>0
  <2> QED BY <1>1, <1>3, <2>1 DEF Made, CallAt
<1>9. \A d \in Calls : Made(d)' <=> Made(d) \/ d = c
  BY <1>0, <1>1, <1>7 DEF Made, Calls
<1>10. (\A m \in mail : m.call # c) /\ \A q \in Renderers, i \in Nat : ~ServeAt(stack[q], i, c)
  BY <1>1, <1>2, <1>8 DEF CarriageInv, MailIsKnown, FramesAreNamed
<1>11. FramesAreNamed'
  BY <1>1, <1>2, <1>7, <1>9 DEF CarriageInv, FramesAreNamed, Alive
<1>12. MailIsKnown'
  BY <1>0, <1>1, <1>2, <1>4, <1>5, <1>9 DEF CarriageInv, MailIsKnown, Alive
<1>13. \A d \in Calls : Made(d)' => ByMail(d)' \/ ByFrame(d)'
  <2> SUFFICES ASSUME NEW d \in Calls, Made(d)' PROVE ByMail(d)' \/ ByFrame(d)'
    OBVIOUS
  <2>1. CASE d = c
    <3>1. Mail(c, stage) \in mail' /\ \A m \in mail' : m.call = c => m = Mail(c, stage)
      BY <1>4, <1>10
    <3> QED BY <1>1, <1>5, <1>7, <1>10, <2>1, <3>1 DEF ByMail
  <2>2. CASE d # c
    <3>1. ByMail(d) \/ ByFrame(d)
      BY <1>9, <2>2 DEF CarriageInv
    <3>2. \A m \in mail' : m.call = d => m \in mail
      BY <1>4, <1>5, <2>2
    <3> QED BY <1>4, <1>7, <3>1, <3>2, CarriersKept
  <2> QED BY <2>1, <2>2
<1> QED BY <1>11, <1>12, <1>13 DEF CarriageInv

(* The message changes its stage.                                          *)
LEMMA RelayCarried ==
  ASSUME ConnectionInv, CarriageInv, NEW c \in Calls, MessageToSync(c)
  PROVE  CarriageInv'
<1>1. UNCHANGED <<state, stack>> /\ Mail(c, "relay") \in mail /\ \A m \in mail : m.call \in Calls
  BY DEF MessageToSync, ConnectionInv, ConnectionTypes
<1>2. PICK stage : mail' = (mail \ {Mail(c, "relay")}) \cup {Mail(c, stage)}
  BY DEF MessageToSync
<1>3. \A s : Mail(c, s).call = c /\ Mail(c, s).stage = s
  BY DEF Mail
<1>4. \A d \in Calls : Made(d)' <=> Made(d)
  BY <1>1 DEF Made
<1>5. FramesAreNamed'
  BY <1>1, <1>4 DEF CarriageInv, FramesAreNamed, Alive
<1>6. \A m \in mail' : m \in mail \/ (m = Mail(c, stage) /\ m = Mail(m.call, m.stage))
  BY <1>2, <1>3
<1>7. Alive(c.from) => Made(c)
  BY <1>1, <1>3 DEF CarriageInv, MailIsKnown
<1>8. MailIsKnown'
  BY <1>1, <1>3, <1>4, <1>6, <1>7 DEF CarriageInv, MailIsKnown, Alive
<1>9. \A d \in Calls : Made(d)' => ByMail(d)' \/ ByFrame(d)'
  <2> SUFFICES ASSUME NEW d \in Calls, Made(d)' PROVE ByMail(d)' \/ ByFrame(d)'
    OBVIOUS
  <2>1. ByMail(d) \/ ByFrame(d)
    BY <1>4 DEF CarriageInv
  <2>2. CASE d = c
    <3>1. ByMail(c) /\ \A m \in mail : m.call = c => m = Mail(c, "relay")
      BY <1>1, <1>3, <2>1, <2>2 DEF ByMail, ByFrame
    <3>2. Mail(c, stage) \in mail' /\ \A m \in mail' : m.call = c => m = Mail(c, stage)
      BY <1>2, <3>1
    <3> QED BY <1>1, <1>3, <2>2, <3>1, <3>2 DEF ByMail
  <2>3. CASE d # c
    <3>1. \A m \in mail : m.call = d => m \in mail'
      BY <1>2, <1>3, <2>3
    <3>2. \A m \in mail' : m.call = d => m \in mail
      BY <1>2, <1>3, <2>3
    <3> QED BY <1>1, <2>1, <3>1, <3>2, CarriersKept
  <2> QED BY <2>2, <2>3
<1> QED BY <1>5, <1>8, <1>9 DEF CarriageInv

(* The frame takes the message's place, unless its caller is dead.         *)
LEMMA ServeCarried ==
  ASSUME ConnectionInv, CarriageInv, NEW c \in Calls, MessageSync(c)
  PROVE  CarriageInv'
<1> DEFINE r == c.to
           n == Len(stack[r])
<1>0. /\ stack \in [Renderers -> Seq(Frames)] /\ r \in Renderers /\ n \in Nat
      /\ \A m \in mail : m.call \in Calls
  BY DEF ConnectionInv, ConnectionTypes, Calls
<1>1. /\ UNCHANGED state /\ Mail(c, "request") \in mail
      /\ mail' = mail \ {Mail(c, "request")}
      /\ stack' = [stack EXCEPT ![r] = Append(stack[r], ServeFrame(c))]
  BY <1>0 DEF MessageSync, Push
<1>2. Mail(c, "request").call = c
  BY DEF Mail
<1>3. /\ ServeFrame(c) \in Frames /\ ServeFrame(c).kind = "serve"
      /\ ServeFrame(c).call = c /\ (ServeFrame(c).open <=> Alive(c.from))
  BY FrameKinds DEF ServeFrame
<1>4. \A q \in Renderers, i \in Nat, d \in Calls :
        /\ CallAt(stack'[q], i, d) <=> CallAt(stack[q], i, d)
        /\ ServeAt(stack'[q], i, d) <=>
             ServeAt(stack[q], i, d) \/ (q = r /\ i = n + 1 /\ d = c /\ Alive(c.from))
  <2>1. \A i \in Nat, d \in Calls :
          /\ CallAt(stack'[r], i, d) <=> CallAt(stack[r], i, d)
          /\ ServeAt(stack'[r], i, d) <=>
               ServeAt(stack[r], i, d) \/ (i = n + 1 /\ d = c /\ Alive(c.from))
    BY <1>0, <1>1, <1>3, FramePushed DEF OpenServe
  <2> QED BY <1>0, <1>1, <2>1
<1> HIDE DEF n
<1>5. \A d \in Calls : Made(d)' <=> Made(d)
  BY <1>4 DEF Made, Calls
<1>6. Alive(c.from) => Made(c)
  BY <1>1, <1>2 DEF CarriageInv, MailIsKnown
<1>7. FramesAreNamed'
  BY <1>1, <1>4, <1>5, <1>6 DEF CarriageInv, FramesAreNamed, Alive
<1>8. MailIsKnown'
  BY <1>0, <1>1, <1>5 DEF CarriageInv, MailIsKnown, Alive
<1>9. \A d \in Calls : Made(d)' => ByMail(d)' \/ ByFrame(d)'
  <2> SUFFICES ASSUME NEW d \in Calls, Made(d)' PROVE ByMail(d)' \/ ByFrame(d)'
    OBVIOUS
  <2>1. ByMail(d) \/ ByFrame(d)
    BY <1>5 DEF CarriageInv
  <2>2. CASE d = c
    <3>1. Alive(c.from)
      BY <1>5, <2>2 DEF CarriageInv, FramesAreNamed, Made, Calls
    <3>2. ByMail(c) /\ \A m \in mail : m.call = c => m = Mail(c, "request")
      BY <1>1, <1>2, <2>1, <2>2 DEF ByMail, ByFrame
    <3>3. \A m \in mail' : m.call # c
      BY <1>1, <3>2
    <3>4. n + 1 \in Nat /\ ServeAt(stack'[r], n + 1, c)
      BY <1>0, <1>4, <3>1
    <3>5. \A q \in Renderers, j \in Nat : ServeAt(stack'[q], j, c) => q = r /\ j = n + 1
      BY <1>4, <3>2 DEF ByMail
    <3> QED BY <1>0, <2>2, <3>3, <3>4, <3>5 DEF ByFrame
  <2>3. CASE d # c
    <3>1. \A m \in mail : m.call = d => m \in mail'
      BY <1>1, <1>2, <2>3
    <3>2. \A m \in mail' : m.call = d => m \in mail
      BY <1>1
    <3> QED BY <1>4, <2>1, <2>3, <3>1, <3>2, CarriersKept
  <2> QED BY <2>2, <2>3
<1> QED BY <1>7, <1>8, <1>9 DEF CarriageInv

(* The calls of the pipe that closes fail; a call of a dead renderer is    *)
(* none of them, nor of the living.                                        *)
LEMMA NoFrameCarried ==
  ASSUME ConnectionInv, CarriageInv, NEW c \in Calls, MessageSyncNoFrame(c)
  PROVE  CarriageInv'
<1> DEFINE failed == IF c.lane = "browser" THEN {c}
                     ELSE {d \in CallsOf(c.from) : d.lane = "direct" /\ d.to = c.to /\ ~Answered(d)}
<1>1. ConnectionTypes /\ FramesAreNamed /\ c.from \in Renderers /\ \A m \in mail : m.call \in Calls
  BY DEF ConnectionInv, ConnectionTypes, CarriageInv, Calls
<1>2. /\ UNCHANGED state /\ Mail(c, "request") \in mail
      /\ mail' = FailedMail(failed)
      /\ stack' = [q \in Renderers |-> Orphaned(stack[q], failed)]
  BY DEF MessageSyncNoFrame
<1>3. Mail(c, "request").call = c
  BY DEF Mail
<1>4. \A d \in failed : d \in Calls /\ (Made(d) \/ (d = c /\ c.lane = "browser"))
  BY <1>1, CallsOfMade
<1> HIDE DEF failed
<1>5. CASE \A d \in failed : Made(d)
  <2>1. failed \subseteq Calls
    BY <1>4
  <2> QED BY <1>1, <1>2, <1>5, <2>1, FailingCarried
<1>6. CASE ~Made(c) /\ c.lane = "browser"
  <2>1. failed = {c} /\ ~Alive(c.from)
    BY <1>2, <1>3, <1>6 DEF failed, CarriageInv, MailIsKnown
  <2>2. \A q \in Renderers, i \in Nat, d \in Calls :
          /\ CallAt(stack'[q], i, d) <=> CallAt(stack[q], i, d)
          /\ ServeAt(stack'[q], i, d) <=> ServeAt(stack[q], i, d)
    <3>1. \A q \in Renderers, i \in Nat : ~ServeAt(stack[q], i, c)
      BY <1>6 DEF CarriageInv, FramesAreNamed
    <3>2. \A q \in Renderers, i \in Nat, d \in Calls :
            /\ CallAt(stack'[q], i, d) <=> CallAt(stack[q], i, d)
            /\ ServeAt(stack'[q], i, d) <=> ServeAt(stack[q], i, d) /\ d # c
      BY <1>1, <1>2, <2>1, FrameOrphaned DEF ConnectionTypes
    <3> QED BY <3>1, <3>2
  <2>3. \A d \in Calls : Made(d)' <=> Made(d)
    BY <2>2 DEF Made, Calls
  <2>4. FramesAreNamed'
    BY <1>1, <1>2, <2>2, <2>3 DEF FramesAreNamed, Alive
  <2>5. \A m \in mail' : m \in mail \/ (m.call = c /\ m = Mail(m.call, m.stage))
    BY <1>2, <2>1 DEF FailedMail, Mail
  <2>6. MailIsKnown'
    BY <1>1, <1>2, <2>1, <2>3, <2>5 DEF CarriageInv, MailIsKnown, Alive
  <2>7. \A d \in Calls : Made(d)' => ByMail(d)' \/ ByFrame(d)'
    <3> SUFFICES ASSUME NEW d \in Calls, Made(d)' PROVE ByMail(d)' \/ ByFrame(d)'
      OBVIOUS
    <3>1. d # c /\ (ByMail(d) \/ ByFrame(d))
      BY <1>6, <2>3 DEF CarriageInv
    <3>2. \A m \in mail : m.call = d => m \in mail'
      BY <1>2, <2>1, <3>1 DEF FailedMail
    <3>3. \A m \in mail' : m.call = d => m \in mail
      BY <2>5, <3>1
    <3> QED BY <2>2, <3>1, <3>2, <3>3, CarriersKept
  <2> QED BY <2>4, <2>6, <2>7 DEF CarriageInv
<1> QED BY <1>4, <1>5, <1>6

(* The reply takes the frame's place, if the call has not failed before.   *)
LEMMA ServeReturnsCarried ==
  ASSUME ConnectionInv, CarriageInv, NEW r \in Renderers, ServeReturns(r)
  PROVE  CarriageInv'
<1> DEFINE n == Len(stack[r])
           frame == stack[r][n]
           c == frame.call
<1>0. /\ stack \in [Renderers -> Seq(Frames)] /\ \A m \in mail : m.call \in Calls
      /\ stack[r] # <<>> /\ UNCHANGED state
  BY DEF ConnectionInv, ConnectionTypes, ServeReturns
<1>1. n \in Nat /\ n \in 1 .. n /\ frame \in Frames
  BY <1>0, FrontFrames
<1>2. /\ frame.kind = "serve"
      /\ mail' = IF frame.open THEN mail \cup {Mail(c, "reply")} ELSE mail
      /\ stack' = [stack EXCEPT ![r] = Front(stack[r])]
  BY <1>0 DEF ServeReturns, SendReply, Pop, Last
<1>3. c \in Calls /\ frame.open \in BOOLEAN
  BY <1>1, <1>2 DEF Frames, CallFrames, ServeFrames, EventFrames
<1>4. \A i \in Nat, d \in Calls :
        /\ CallAt(stack'[r], i, d) <=> CallAt(stack[r], i, d)
        /\ ServeAt(stack'[r], i, d) <=>
             ServeAt(stack[r], i, d) /\ ~(i = n /\ d = c /\ frame.open)
  <2> SUFFICES ASSUME NEW i \in Nat, NEW d \in Calls
               PROVE  /\ CallAt(stack'[r], i, d) <=> CallAt(stack[r], i, d)
                      /\ ServeAt(stack'[r], i, d) <=>
                           ServeAt(stack[r], i, d) /\ ~(i = n /\ d = c /\ frame.open)
    OBVIOUS
  <2>1. stack'[r] = Front(stack[r])
    BY <1>0, <1>2
  <2>2. ~CallAt(stack[r], n, d) /\ (ServeAt(stack[r], n, d) <=> d = c /\ frame.open)
    BY <1>1, <1>2 DEF CallAt, ServeAt, OpenServe
  <2> QED BY <1>0, <2>1, <2>2, FramePopped
<1> HIDE DEF n, frame, c
<1>5. \A q \in Renderers, i \in Nat, d \in Calls :
        /\ CallAt(stack'[q], i, d) <=> CallAt(stack[q], i, d)
        /\ ServeAt(stack'[q], i, d) <=>
             ServeAt(stack[q], i, d) /\ ~(q = r /\ i = n /\ d = c /\ frame.open)
  BY <1>0, <1>2, <1>4
<1>6. frame.open => ServeAt(stack[r], n, c)
  BY <1>1, <1>2 DEF ServeAt, OpenServe, n, frame, c
<1>7. CASE ~frame.open
  <2>1. mail' = mail
    BY <1>2, <1>7
  <2> QED BY <1>0, <1>5, <1>7, <2>1, CarriageKept
<1>8. CASE frame.open
  <2>1. Made(c) /\ ByFrame(c)
    BY <1>1, <1>3, <1>6, <1>8 DEF CarriageInv, FramesAreNamed, ByMail
  <2>2. \A d \in Calls : Made(d)' <=> Made(d)
    BY <1>5 DEF Made, Calls
  <2>3. FramesAreNamed'
    BY <1>0, <1>5, <2>2 DEF CarriageInv, FramesAreNamed, Alive
  <2>4. mail' = mail \cup {Mail(c, "reply")}
    BY <1>2, <1>8
  <2>5. Mail(c, "reply").call = c /\ Mail(c, "reply").stage = "reply"
    BY DEF Mail
  <2>6. MailIsKnown'
    BY <1>0, <1>3, <2>1, <2>2, <2>4, <2>5 DEF CarriageInv, MailIsKnown, Alive
  <2>7. \A d \in Calls : Made(d)' => ByMail(d)' \/ ByFrame(d)'
    <3> SUFFICES ASSUME NEW d \in Calls, Made(d)' PROVE ByMail(d)' \/ ByFrame(d)'
      OBVIOUS
    <3>1. CASE d = c
      <4>1. \A m \in mail' : m.call = c => m = Mail(c, "reply")
        BY <2>1, <2>4 DEF ByFrame
      <4>2. \A q \in Renderers, i \in Nat : ~ServeAt(stack'[q], i, c)
        BY <1>1, <1>3, <1>5, <1>6, <1>8, <2>1 DEF ByFrame
      <4> QED BY <2>4, <2>5, <3>1, <4>1, <4>2 DEF ByMail
    <3>2. CASE d # c
      <4>1. ByMail(d) \/ ByFrame(d)
        BY <2>2 DEF CarriageInv
      <4>2. \A m \in mail' : m.call = d => m \in mail
        BY <2>4, <2>5, <3>2
      <4> QED BY <1>5, <2>4, <3>2, <4>1, <4>2, CarriersKept
    <3> QED BY <3>1, <3>2
  <2> QED BY <2>3, <2>6, <2>7 DEF CarriageInv
<1> QED BY <1>3, <1>7, <1>8

(* The call and its reply go together: nothing carries it any more, when   *)
(* the next call may have its name.                                        *)
LEMMA CallReturnsCarried ==
  ASSUME ConnectionInv, CarriageInv, NEW r \in Renderers, CallReturns(r)
  PROVE  CarriageInv'
<1> DEFINE n == Len(stack[r])
           frame == stack[r][n]
           c == frame.call
<1>0. /\ stack \in [Renderers -> Seq(Frames)] /\ \A m \in mail : m.call \in Calls
      /\ stack[r] # <<>> /\ UNCHANGED state
  BY DEF ConnectionInv, ConnectionTypes, CallReturns, Waiting
<1>1. n \in Nat /\ n \in 1 .. n /\ frame \in Frames
  BY <1>0, FrontFrames
<1>2. /\ frame.kind = "call"
      /\ Mail(c, "reply") \in mail /\ mail' = mail \ {Mail(c, "reply")}
      /\ stack' = [stack EXCEPT ![r] = Front(stack[r])]
  BY <1>0 DEF CallReturns, Waiting, Answered, Pop, Last
<1>3. c \in Calls
  BY <1>1, <1>2 DEF Frames, CallFrames, ServeFrames, EventFrames
<1>4. CallAt(stack[r], n, c)
  BY <1>1, <1>2 DEF CallAt
<1>5. \A i \in Nat, d \in Calls :
        /\ CallAt(stack'[r], i, d) <=> CallAt(stack[r], i, d) /\ ~(i = n /\ d = c)
        /\ ServeAt(stack'[r], i, d) <=> ServeAt(stack[r], i, d)
  <2> SUFFICES ASSUME NEW i \in Nat, NEW d \in Calls
               PROVE  /\ CallAt(stack'[r], i, d) <=> CallAt(stack[r], i, d) /\ ~(i = n /\ d = c)
                      /\ ServeAt(stack'[r], i, d) <=> ServeAt(stack[r], i, d)
    OBVIOUS
  <2>1. stack'[r] = Front(stack[r])
    BY <1>0, <1>2
  <2>2. ~ServeAt(stack[r], n, d) /\ (CallAt(stack[r], n, d) <=> d = c)
    BY <1>1, <1>2 DEF CallAt, ServeAt, OpenServe
  <2> QED BY <1>0, <2>1, <2>2, FramePopped
<1> HIDE DEF n, frame, c
<1>6. \A q \in Renderers, i \in Nat, d \in Calls :
        /\ CallAt(stack'[q], i, d) <=> CallAt(stack[q], i, d) /\ ~(q = r /\ i = n /\ d = c)
        /\ ServeAt(stack'[q], i, d) <=> ServeAt(stack[q], i, d)
  BY <1>0, <1>2, <1>5
<1>7. c.from = r /\ c.depth = n
  BY <1>1, <1>3, <1>4 DEF CarriageInv, FramesAreNamed
<1>8. \A d \in Calls : Made(d)' <=> Made(d) /\ d # c
  BY <1>6, <1>7 DEF Made, Calls
<1>9. Made(c)
  BY <1>4, <1>7 DEF Made
<1>10. Mail(c, "reply").call = c
  BY DEF Mail
<1>11. /\ \A m \in mail : m.call = c => m = Mail(c, "reply")
       /\ \A q \in Renderers, i \in Nat : ~ServeAt(stack[q], i, c)
  BY <1>2, <1>3, <1>9, <1>10 DEF CarriageInv, ByMail, ByFrame
<1>12. \A m \in mail' : m \in mail /\ m.call # c
  BY <1>2, <1>11
<1>13. FramesAreNamed'
  BY <1>0, <1>3, <1>6, <1>8, <1>11 DEF CarriageInv, FramesAreNamed, Alive
<1>14. MailIsKnown'
  BY <1>0, <1>8, <1>12 DEF CarriageInv, MailIsKnown, Alive
<1>15. \A d \in Calls : Made(d)' => ByMail(d)' \/ ByFrame(d)'
  <2> SUFFICES ASSUME NEW d \in Calls, Made(d)' PROVE ByMail(d)' \/ ByFrame(d)'
    OBVIOUS
  <2>1. d # c /\ (ByMail(d) \/ ByFrame(d))
    BY <1>8 DEF CarriageInv
  <2>2. \A m \in mail : m.call = d => m \in mail'
    BY <1>2, <1>10, <2>1
  <2> QED BY <1>6, <1>12, <2>1, <2>2, CarriersKept
<1> QED BY <1>13, <1>14, <1>15 DEF CarriageInv

(* What is carried by the dead renderer fails, and what it called is not   *)
(* made any more; calls of others to others are carried as before.         *)
LEMMA DieCarried ==
  ASSUME ConnectionInv, ServicesInv, CarriageInv,
         NEW t \in Renderers, NEW how \in {"crashed", "closed"}, Die(t, how)
  PROVE  CarriageInv'
<1> DEFINE failed == FailedByDeath(t)
           orphaned == failed \cup CallsOf(t)
<1>1. ConnectionTypes /\ FramesAreNamed /\ \A m \in mail : m.call \in Calls
  BY DEF ConnectionInv, ConnectionTypes, CarriageInv
<1>2. /\ mail' = {m \in FailedMail(failed) : m.call.to # t /\ m.call.from = t => m.stage # "reply"}
      /\ stack' = [r \in Renderers |-> IF r = t THEN <<>> ELSE Orphaned(stack[r], orphaned)]
      /\ state' = [state EXCEPT ![t] = how]
  BY DEF Die
<1>3. \A c \in failed : c \in Calls /\ c.from # t /\ Made(c)
  BY <1>1, CallsOfMade DEF FailedByDeath, CallsTo, RelayedCalls
<1>4. \A c \in Calls : c.to = t /\ c.from # t /\ Made(c) /\ ~Answered(c) => c \in failed
  <2> SUFFICES ASSUME NEW c \in Calls, c.to = t, c.from # t, Made(c), ~Answered(c)
               PROVE  c \in failed
    OBVIOUS
  <2>1. c.from \in Renderers \ {t} /\ c \in CallsOf(c.from)
    BY <1>1, CallsOfMade DEF Calls
  <2> QED BY <2>1 DEF FailedByDeath, CallsTo
<1>5. \A c \in Calls : Made(c) => (c \in CallsOf(t) <=> c.from = t)
  BY <1>1, CallsOfMade
<1> HIDE DEF failed
<1>6. \A r \in Renderers : (state'[r] = "alive" => r # t) /\ (r # t => state'[r] = state[r])
  BY <1>2 DEF ServicesInv, StateTypes
<1>7. \A r \in Renderers, i \in Nat, c \in Calls :
        /\ CallAt(stack'[r], i, c) <=> r # t /\ CallAt(stack[r], i, c)
        /\ ServeAt(stack'[r], i, c) <=> r # t /\ ServeAt(stack[r], i, c) /\ c \notin orphaned
  <2> SUFFICES ASSUME NEW r \in Renderers, NEW i \in Nat, NEW c \in Calls
               PROVE  /\ CallAt(stack'[r], i, c) <=> r # t /\ CallAt(stack[r], i, c)
                      /\ ServeAt(stack'[r], i, c) <=> r # t /\ ServeAt(stack[r], i, c) /\ c \notin orphaned
    OBVIOUS
  <2>1. CASE r = t
    <3>1. stack'[r] = <<>> /\ Len(stack'[r]) = 0
      BY <1>2, <2>1
    <3> QED BY <2>1, <3>1 DEF CallAt, ServeAt
  <2>2. CASE r # t
    <3>1. stack'[r] = Orphaned(stack[r], orphaned) /\ stack[r] \in Seq(Frames)
      BY <1>1, <1>2, <2>2 DEF ConnectionTypes
    <3> QED BY <2>2, <3>1, FrameOrphaned
  <2> QED BY <2>1, <2>2
<1>8. \A c \in Calls : Made(c)' <=> Made(c) /\ c.from # t
  BY <1>7 DEF Made, Calls
<1>9. \A r \in Renderers, i \in Nat, c \in Calls :
        ServeAt(stack'[r], i, c) => ServeAt(stack[r], i, c) /\ c \notin failed /\ c.from # t
  BY <1>1, <1>5, <1>7 DEF FramesAreNamed
<1>10. FramesAreNamed'
  <2> SUFFICES ASSUME NEW r \in Renderers, NEW i \in Nat, NEW c \in Calls
               PROVE  /\ CallAt(stack'[r], i, c) => c.from = r /\ c.depth = i /\ state'[r] = "alive"
                      /\ ServeAt(stack'[r], i, c) => c.to = r /\ Made(c)'
    BY DEF FramesAreNamed, Alive
  <2>1. CallAt(stack'[r], i, c) => c.from = r /\ c.depth = i /\ state'[r] = "alive"
    BY <1>1, <1>6, <1>7 DEF FramesAreNamed, Alive
  <2>2. ServeAt(stack'[r], i, c) => c.to = r /\ Made(c)'
    BY <1>1, <1>8, <1>9 DEF FramesAreNamed
  <2> QED BY <2>1, <2>2
<1>11. \A m \in mail' : (m \in mail /\ m.call \notin failed)
                        \/ (m.call \in failed /\ m = Mail(m.call, "reply") /\ m.stage = "reply")
  BY <1>2 DEF FailedMail, Mail
<1>12. MailIsKnown'
  <2> SUFFICES ASSUME NEW m \in mail'
               PROVE  m = Mail(m.call, m.stage) /\ (state'[m.call.from] = "alive" => Made(m.call)')
    BY DEF MailIsKnown, Alive
  <2>1. m.call \in Calls /\ m.call.from \in Renderers /\ m = Mail(m.call, m.stage)
    BY <1>1, <1>3, <1>11 DEF CarriageInv, MailIsKnown, Calls
  <2>2. ASSUME state'[m.call.from] = "alive" PROVE Made(m.call)'
    <3>1. m.call.from # t /\ Alive(m.call.from)
      BY <1>6, <2>1, <2>2 DEF Alive
    <3>2. Made(m.call)
      BY <1>3, <1>11, <3>1 DEF CarriageInv, MailIsKnown
    <3> QED BY <1>8, <2>1, <3>1, <3>2
  <2> QED BY <2>1, <2>2
<1>13. \A c \in Calls : Made(c)' => ByMail(c)' \/ ByFrame(c)'
  <2> SUFFICES ASSUME NEW c \in Calls, Made(c)' PROVE ByMail(c)' \/ ByFrame(c)'
    OBVIOUS
  <2>1. Made(c) /\ c.from # t /\ (ByMail(c) \/ ByFrame(c))
    BY <1>8 DEF CarriageInv
  <2>2. CASE c \in failed
    <3>1. Mail(c, "reply") \in mail' /\ Mail(c, "reply").call = c
      BY <1>2, <2>1, <2>2 DEF FailedMail, Mail
    <3>2. \A n \in mail' : n.call = c => n = Mail(c, "reply")
      BY <1>11, <2>2
    <3>3. \A r \in Renderers, i \in Nat : ~ServeAt(stack'[r], i, c)
      BY <1>9, <2>2
    <3> QED BY <3>1, <3>2, <3>3 DEF ByMail
  <2>3. CASE c \notin failed
    <3>1. \A m \in mail : m.call = c => m \in mail'
      BY <1>2, <2>1, <2>3 DEF FailedMail
    <3>2. \A m \in mail' : m.call = c => m \in mail
      BY <1>11, <2>3
    <3>3. \A i \in Nat : ~ServeAt(stack[t], i, c)
      <4> SUFFICES ASSUME NEW i \in Nat, ServeAt(stack[t], i, c) PROVE FALSE
        OBVIOUS
      <4>1. c.to = t /\ ByFrame(c)
        BY <1>1, <2>1 DEF FramesAreNamed, ByMail
      <4>2. ~Answered(c)
        BY <4>1 DEF ByFrame, Answered, Mail
      <4> QED BY <1>4, <2>1, <2>3, <4>1, <4>2
    <3>4. c \notin orphaned
      BY <1>5, <2>1, <2>3
    <3>5. \A r \in Renderers, i \in Nat : ServeAt(stack'[r], i, c) <=> ServeAt(stack[r], i, c)
      BY <1>7, <3>3, <3>4
    <3> QED BY <2>1, <3>1, <3>2, <3>5, CarriersKept
  <2> QED BY <2>2, <2>3
<1> QED BY <1>10, <1>12, <1>13 DEF CarriageInv

LEMMA BrokerCarried ==
  ASSUME ConnectionInv, CarriageInv, NEW r \in Renderers, NEW t \in Renderers, BrokerRequest(r, t)
  PROVE  CarriageInv'
<1>1. UNCHANGED state /\ ConnectionTypes /\ FramesAreNamed /\ \A m \in mail : m.call \in Calls
  BY DEF BrokerRequest, ConnectionInv, ConnectionTypes, CarriageInv
<1>2. CASE CloseBrowserPipe(r)
  <2> DEFINE failed == RelayedCalls(r)
  <2>1. failed \subseteq Calls /\ \A c \in failed : Made(c)
    BY <1>1, CallsOfMade DEF RelayedCalls
  <2>2. mail' = FailedMail(failed) /\ stack' = [q \in Renderers |-> Orphaned(stack[q], failed)]
    BY <1>2 DEF CloseBrowserPipe
  <2> HIDE DEF failed
  <2> QED BY <1>1, <2>1, <2>2, FailingCarried
<1>3. CASE UNCHANGED <<stack, mail>>
  BY <1>1, <1>3, CarriageKept
<1> QED BY <1>2, <1>3 DEF BrokerRequest

LEMMA CarriageStep ==
  ConnectionInv /\ ServicesInv /\ CarriageInv /\ [ConnectionNext]_connectionVars => CarriageInv'
<1> SUFFICES ASSUME ConnectionInv, ServicesInv, CarriageInv, [ConnectionNext]_connectionVars PROVE CarriageInv'
  OBVIOUS
<1>0. \A m \in mail : m.call \in Calls
  BY DEF ConnectionInv, ConnectionTypes
<1>1. ASSUME NEW r \in Renderers, NEW t \in Renderers, Connecting(r, t) PROVE CarriageInv'
  <2>1. CASE ConnectToRenderer(r, t) \/ BindService(r, t)
    BY <1>0, <2>1, CarriageKept DEF ConnectToRenderer, BindService
  <2> QED BY <1>1, <2>1, BrokerCarried, EventCarried DEF Connecting
<1>2. ASSUME NEW r \in Renderers, NEW t \in Renderers, SendToRendererSync(r, t) PROVE CarriageInv'
  BY <1>2, SendCarried
<1>3. ASSUME NEW m \in mail, Carrying(m.call) PROVE CarriageInv'
  BY <1>0, <1>3, RelayCarried, ServeCarried, NoFrameCarried DEF Carrying
<1>4. ASSUME NEW r \in Renderers, Returning(r) PROVE CarriageInv'
  BY <1>4, EventCarried, ServeReturnsCarried, CallReturnsCarried DEF Returning
<1>5. ASSUME NEW r \in Renderers, Reload(r) PROVE CarriageInv'
  BY <1>0, <1>5, CarriageKept DEF Reload
<1>6. ASSUME NEW r \in Renderers, NEW how \in {"crashed", "closed"}, Die(r, how) PROVE CarriageInv'
  BY <1>6, DieCarried
<1>7. CASE UNCHANGED connectionVars
  BY <1>0, <1>7, CarriageKept DEF connectionVars
<1> QED BY <1>1, <1>2, <1>3, <1>4, <1>5, <1>6, <1>7 DEF ConnectionNext

LEMMA CarriageAlways == ConnectionSpec => []CarriageInv
<1> QED BY CarriageInit, CarriageStep, ServicesAlways, ConnectionAlways, PTL DEF ConnectionSpec

(***************************************************************************)
(* The order of calls.  No variable keeps it: frames can be ranked by when *)
(* they were pushed, so that ranks rise up each stack, and a frame that    *)
(* serves a call is above the frame that made it.                          *)
(***************************************************************************)
Ranked(rank, n) ==
  /\ \A r \in Renderers, i \in Nat : i \in 1 .. Len(stack[r]) => rank[r][i] < n
  /\ \A r \in Renderers, i, j \in Nat :
       i \in 1 .. Len(stack[r]) /\ j \in 1 .. Len(stack[r]) /\ i < j => rank[r][i] < rank[r][j]
  /\ \A r \in Renderers, i \in Nat, c \in Calls :
       ServeAt(stack[r], i, c) => rank[c.from][c.depth] < rank[r][i]

InOrder == \E n \in Nat, rank \in [Renderers -> [Nat -> Nat]] : Ranked(rank, n)

LEMMA OrderKept ==
  ASSUME InOrder,
         \A r \in Renderers, i \in Nat : i \in 1 .. Len(stack'[r]) => i \in 1 .. Len(stack[r]),
         \A r \in Renderers, i \in Nat, c \in Calls : ServeAt(stack'[r], i, c) => ServeAt(stack[r], i, c)
  PROVE  InOrder'
<1>1. PICK n \in Nat, rank \in [Renderers -> [Nat -> Nat]] : Ranked(rank, n)
  BY DEF InOrder
<1>2. Ranked(rank, n)'
  BY <1>1 DEF Ranked
<1> QED BY <1>2 DEF InOrder

(* The frame pushed gets the next rank, above all that there are.          *)
LEMMA OrderWhenPushed ==
  ASSUME ConnectionTypes, FramesAreNamed, InOrder,
         NEW r \in Renderers, NEW frame \in Frames, Push(r, frame),
         \A c \in Calls : OpenServe(frame, c) => Made(c)
  PROVE  InOrder'
<1>1. stack \in [Renderers -> Seq(Frames)] /\ stack[r] \in Seq(Frames) /\ Len(stack[r]) \in Nat
  BY DEF ConnectionTypes
<1>2. stack'[r] = Append(stack[r], frame) /\ \A q \in Renderers : q # r => stack'[q] = stack[q]
  BY <1>1 DEF Push
<1>3. PICK top \in Nat : top = Len(stack[r]) + 1
  BY <1>1
<1>4. /\ \A i \in Nat : i \in 1 .. Len(stack'[r]) <=> i \in 1 .. Len(stack[r]) \/ i = top
      /\ \A i \in Nat : i \in 1 .. Len(stack[r]) => i < top
      /\ \A i \in Nat, c \in Calls :
           ServeAt(stack'[r], i, c) => ServeAt(stack[r], i, c) \/ (i = top /\ OpenServe(frame, c))
  <2>1. Len(Append(stack[r], frame)) = top
    BY <1>1, <1>3, AppendProperties
  <2>2. Len(stack'[r]) = top /\ Len(stack[r]) = top - 1
    BY <1>1, <1>2, <1>3, <2>1
  <2>3. \A i \in Nat : i \in 1 .. Len(stack'[r]) <=> i \in 1 .. Len(stack[r]) \/ i = top
    BY <2>2
  <2>4. \A i \in Nat : i \in 1 .. Len(stack[r]) => i < top
    BY <2>2
  <2>5. \A i \in Nat, c \in Calls :
          ServeAt(Append(stack[r], frame), i, c) =>
            ServeAt(stack[r], i, c) \/ (i = Len(stack[r]) + 1 /\ OpenServe(frame, c))
    BY <1>1, FramePushed
  <2> QED BY <1>2, <1>3, <2>3, <2>4, <2>5
<1>5. PICK n \in Nat, rank \in [Renderers -> [Nat -> Nat]] : Ranked(rank, n)
  BY DEF InOrder
<1>6. PICK next \in [Renderers -> [Nat -> Nat]] :
        /\ next[r][top] = n
        /\ \A q \in Renderers, i \in Nat : q # r \/ i # top => next[q][i] = rank[q][i]
  <2>1. [rank EXCEPT ![r][top] = n] \in [Renderers -> [Nat -> Nat]]
    BY <1>5
  <2>2. /\ [rank EXCEPT ![r][top] = n][r][top] = n
        /\ \A q \in Renderers, i \in Nat : q # r \/ i # top => [rank EXCEPT ![r][top] = n][q][i] = rank[q][i]
    BY <1>5
  <2> QED BY <2>1, <2>2
<1>7. \A q \in Renderers, i \in Nat : i \in 1 .. Len(stack[q]) =>
        /\ next[q][i] = rank[q][i] /\ rank[q][i] \in Nat /\ rank[q][i] < n
        /\ ~(q = r /\ i = top)
  <2> SUFFICES ASSUME NEW q \in Renderers, NEW i \in Nat, i \in 1 .. Len(stack[q])
               PROVE  /\ next[q][i] = rank[q][i] /\ rank[q][i] \in Nat /\ rank[q][i] < n
                      /\ ~(q = r /\ i = top)
    OBVIOUS
  <2>1. ~(q = r /\ i = top)
    <3>1. CASE q = r
      <4>1. i < top
        BY <1>4, <3>1
      <4> QED BY <4>1
    <3> QED BY <3>1
  <2>2. rank[q][i] \in Nat
    BY <1>5
  <2> QED BY <1>5, <1>6, <2>1, <2>2 DEF Ranked
<1>8. \A q \in Renderers, i \in Nat : i \in 1 .. Len(stack'[q]) =>
        i \in 1 .. Len(stack[q]) \/ (q = r /\ i = top)
  BY <1>2, <1>4
<1>9. PICK above \in Nat : n < above /\ \A x \in Nat : x < n => x < above
  <2>1. n + 1 \in Nat /\ n < n + 1 /\ \A x \in Nat : x < n => x < n + 1
    OBVIOUS
  <2> QED BY <2>1
<1>10. ASSUME NEW q \in Renderers, NEW i \in Nat, NEW j \in Nat,
              i \in 1 .. Len(stack'[q]), j \in 1 .. Len(stack'[q]), i < j
       PROVE  next[q][i] < next[q][j]
  <2>1. CASE i \in 1 .. Len(stack[q]) /\ j \in 1 .. Len(stack[q])
    <3>1. rank[q][i] < rank[q][j]
      BY <1>5, <1>10, <2>1 DEF Ranked
    <3> QED BY <1>7, <2>1, <3>1
  <2>2. CASE i \in 1 .. Len(stack[q]) /\ q = r /\ j = top
    BY <1>6, <1>7, <2>2
  <2>3. CASE q = r /\ i = top
    <3>1. j \in 1 .. Len(stack[r]) \/ j = top
      BY <1>4, <1>10, <2>3
    <3>2. ~(j < top) /\ j # top
      BY <1>10, <2>3
    <3> QED BY <1>4, <3>1, <3>2
  <2> QED BY <1>8, <1>10, <2>1, <2>2, <2>3
<1>11. ASSUME NEW q \in Renderers, NEW i \in Nat, NEW c \in Calls, ServeAt(stack'[q], i, c)
       PROVE  next[c.from][c.depth] < next[q][i]
  <2>1. ServeAt(stack[q], i, c) \/ (q = r /\ i = top /\ OpenServe(frame, c))
    BY <1>2, <1>4, <1>11
  <2>2. Made(c)
    BY <2>1 DEF FramesAreNamed
  <2>3. c.from \in Renderers /\ c.depth \in Nat /\ c.depth \in 1 .. Len(stack[c.from])
    BY <2>2 DEF Made, CallAt, Calls
  <2>4. CASE ServeAt(stack[q], i, c)
    <3>1. i \in 1 .. Len(stack[q])
      BY <2>4 DEF ServeAt
    <3>2. rank[c.from][c.depth] < rank[q][i]
      BY <1>5, <2>4 DEF Ranked
    <3> QED BY <1>7, <2>3, <3>1, <3>2
  <2>5. CASE q = r /\ i = top
    BY <1>6, <1>7, <2>3, <2>5
  <2> QED BY <2>1, <2>4, <2>5
<1>12. Ranked(next, above)'
  <2>1. \A q \in Renderers, i \in Nat : i \in 1 .. Len(stack'[q]) => next[q][i] < above
    BY <1>6, <1>7, <1>8, <1>9
  <2> QED BY <1>10, <1>11, <2>1 DEF Ranked
<1> QED BY <1>12 DEF InOrder

LEMMA OrderInit == ConnectionInit => InOrder
<1> SUFFICES ASSUME ConnectionInit PROVE InOrder
  OBVIOUS
<1>1. \A r \in Renderers : stack[r] = <<>> /\ Len(stack[r]) = 0
  BY DEF ConnectionInit
<1>2. [r \in Renderers |-> [i \in Nat |-> 0]] \in [Renderers -> [Nat -> Nat]]
  OBVIOUS
<1>3. Ranked([r \in Renderers |-> [i \in Nat |-> 0]], 0)
  BY <1>1 DEF Ranked, ServeAt
<1> QED BY <1>2, <1>3 DEF InOrder

LEMMA OrderWhenPopped ==
  ASSUME ConnectionTypes, InOrder, NEW r \in Renderers, stack[r] # <<>>, Pop(r)
  PROVE  InOrder'
<1>1. stack \in [Renderers -> Seq(Frames)]
  BY DEF ConnectionTypes
<1>2. stack'[r] = Front(stack[r]) /\ \A q \in Renderers \ {r} : stack'[q] = stack[q]
  BY <1>1 DEF Pop
<1>3. \A q \in Renderers, i \in Nat, c \in Calls : ServeAt(stack'[q], i, c) => ServeAt(stack[q], i, c)
  BY <1>1, <1>2, FramePopped
<1>4. \A q \in Renderers, i \in Nat : i \in 1 .. Len(stack'[q]) => i \in 1 .. Len(stack[q])
  BY <1>1, <1>2, FrontFrames
<1> QED BY <1>3, <1>4, OrderKept

LEMMA OrderWhenOrphaned ==
  ASSUME ConnectionTypes, InOrder, NEW failed,
         \A r \in Renderers : stack'[r] = <<>> \/ stack'[r] = Orphaned(stack[r], failed)
  PROVE  InOrder'
<1>1. \A r \in Renderers : stack[r] \in Seq(Frames) /\ Len(stack[r]) \in Nat
  BY DEF ConnectionTypes
<1>2. ASSUME NEW r \in Renderers, NEW i \in Nat
      PROVE  /\ i \in 1 .. Len(stack'[r]) => i \in 1 .. Len(stack[r])
             /\ \A c \in Calls : ServeAt(stack'[r], i, c) => ServeAt(stack[r], i, c)
  <2>1. CASE stack'[r] = <<>>
    <3>1. Len(stack'[r]) = 0
      BY <2>1
    <3> QED BY <3>1 DEF ServeAt
  <2>2. CASE stack'[r] = Orphaned(stack[r], failed)
    <3>1. Len(stack'[r]) = Len(stack[r])
      BY <1>1, <2>2 DEF Orphaned
    <3> QED BY <1>1, <2>2, <3>1, FrameOrphaned
  <2> QED BY <2>1, <2>2
<1> QED BY <1>2, OrderKept

LEMMA OrderStep ==
  ConnectionInv /\ CarriageInv /\ InOrder /\ [ConnectionNext]_connectionVars => InOrder'
<1> SUFFICES ASSUME ConnectionInv, CarriageInv, InOrder, [ConnectionNext]_connectionVars PROVE InOrder'
  OBVIOUS
<1>0. ConnectionTypes /\ FramesAreNamed /\ \A m \in mail : m.call \in Calls /\ m.call.to \in Renderers
  BY DEF ConnectionInv, ConnectionTypes, CarriageInv, Calls
<1>1. ASSUME UNCHANGED stack PROVE InOrder'
  BY <1>1, OrderKept
<1>2. ASSUME NEW r \in Renderers, NEW frame \in Frames, frame.kind # "serve", Push(r, frame) PROVE InOrder'
  BY <1>0, <1>2, OrderWhenPushed DEF OpenServe
<1>3. ASSUME NEW r \in Renderers, NEW t \in Renderers, Connecting(r, t) PROVE InOrder'
  <2>1. CASE OnRendererConnected(r, t) \/ OnConnectionError(r, t)
    BY <1>2, <2>1, FrameKinds DEF OnRendererConnected, OnConnectionError
  <2>2. CASE UNCHANGED stack
    BY <1>1, <2>2
  <2>3. CASE CloseBrowserPipe(r)
    BY <1>0, <2>3, OrderWhenOrphaned DEF CloseBrowserPipe
  <2> QED BY <1>3, <2>1, <2>2, <2>3 DEF Connecting, ConnectToRenderer, BrokerRequest, BindService
<1>4. ASSUME NEW r \in Renderers, NEW t \in Renderers, SendToRendererSync(r, t) PROVE InOrder'
  <2>1. Len(stack[r]) + 1 \in Nat
    BY <1>0 DEF ConnectionTypes
  <2>2. Call(r, Len(stack[r]) + 1, t, LaneTo(r, t)) \in Calls
    BY <2>1 DEF Calls, Call, LaneTo
  <2> QED BY <1>2, <1>4, <2>2, FrameKinds DEF SendToRendererSync
<1>5. ASSUME NEW c \in Calls, c.to \in Renderers, MessageSync(c) PROVE InOrder'
  <2>1. Push(c.to, ServeFrame(c)) /\ Mail(c, "request") \in mail /\ Mail(c, "request").call = c
    BY <1>5 DEF MessageSync, Mail
  <2>2. ServeFrame(c) \in Frames
    BY FrameKinds
  <2>3. \A d \in Calls : OpenServe(ServeFrame(c), d) => Made(d)
    <3>1. \A d \in Calls : OpenServe(ServeFrame(c), d) => d = c /\ Alive(c.from)
      BY DEF OpenServe, ServeFrame
    <3> QED BY <2>1, <3>1 DEF CarriageInv, MailIsKnown
  <2> QED BY <1>0, <1>5, <2>1, <2>2, <2>3, OrderWhenPushed
<1>6. ASSUME NEW m \in mail, Carrying(m.call) PROVE InOrder'
  <2>1. CASE MessageToSync(m.call)
    BY <1>1, <2>1 DEF MessageToSync
  <2>2. CASE MessageSync(m.call)
    BY <1>0, <1>5, <2>2
  <2>3. CASE MessageSyncNoFrame(m.call)
    BY <1>0, <2>3, OrderWhenOrphaned DEF MessageSyncNoFrame
  <2> QED BY <1>6, <2>1, <2>2, <2>3 DEF Carrying
<1>7. ASSUME NEW r \in Renderers, Returning(r) PROVE InOrder'
  BY <1>0, <1>7, OrderWhenPopped DEF Returning, EventReturns, ServeReturns, CallReturns, Waiting
<1>8. ASSUME NEW r \in Renderers, Reload(r) PROVE InOrder'
  BY <1>1, <1>8 DEF Reload
<1>9. ASSUME NEW r \in Renderers, NEW how, Die(r, how) PROVE InOrder'
  <2>1. \A q \in Renderers :
          stack'[q] = <<>> \/ stack'[q] = Orphaned(stack[q], FailedByDeath(r) \cup CallsOf(r))
    BY <1>9 DEF Die
  <2> QED BY <1>0, <2>1, OrderWhenOrphaned
<1>10. CASE UNCHANGED connectionVars
  BY <1>1, <1>10 DEF connectionVars
<1> QED BY <1>3, <1>4, <1>6, <1>7, <1>8, <1>9, <1>10 DEF ConnectionNext

(***************************************************************************)
(* Waiting.                                                                *)
(***************************************************************************)

(* The dead have no frames, and a service of theirs has its disconnect     *)
(* handler to run.  A request that a living renderer waits for is on its   *)
(* way to one that lives.                                                  *)
DeadAreGone ==
  \A r \in Renderers : ~Alive(r) =>
    stack[r] = <<>> /\ \A q \in Renderers : r \in services[q] => r \in broken[q]

RequestsArrive ==
  \A m \in mail :
    /\ m.stage \in {"relay", "request", "reply"}
    /\ m.stage = "request" /\ Alive(m.call.from) => Alive(m.call.to)

ArrivalInv == DeadAreGone /\ RequestsArrive

LEMMA ArrivalInit == ConnectionInit => ArrivalInv
BY DEF ConnectionInit, ArrivalInv, DeadAreGone, RequestsArrive, Alive

LEMMA GoneStep ==
  ConnectionInv /\ ServicesInv /\ ArrivalInv /\ [ConnectionNext]_connectionVars => DeadAreGone'
<1> SUFFICES ASSUME ConnectionInv, ServicesInv, ArrivalInv, [ConnectionNext]_connectionVars,
                    NEW r \in Renderers, ~Alive(r)'
             PROVE  /\ stack'[r] = <<>>
                    /\ \A q \in Renderers : r \in services'[q] => r \in broken'[q]
  BY DEF DeadAreGone
<1> USE DEF Alive
<1>0. /\ ConnectionTypes /\ StateTypes
      /\ stack \in [Renderers -> Seq(Frames)] /\ state \in [Renderers -> {"alive", "crashed", "closed"}]
      /\ services \in [Renderers -> SUBSET Renderers] /\ broken \in [Renderers -> SUBSET Renderers]
      /\ \A m \in mail : m.call \in Calls /\ m.call.to \in Renderers /\ m.call.from \in Renderers
  BY DEF ConnectionInv, ConnectionTypes, ServicesInv, StateTypes, Calls
<1>1. CASE \E t \in Renderers, how \in {"crashed", "closed"} : Die(t, how)
  <2>1. PICK t \in Renderers, how \in {"crashed", "closed"} : Die(t, how)
    BY <1>1
  <2>2. /\ state' = [state EXCEPT ![t] = how]
        /\ stack'[r] = IF r = t THEN <<>> ELSE Orphaned(stack[r], FailedByDeath(t) \cup CallsOf(t))
        /\ services' = [services EXCEPT ![t] = {}]
        /\ broken' = [q \in Renderers |-> IF q = t THEN {} ELSE broken[q] \cup ({t} \cap services[q])]
    BY <2>1 DEF Die
  <2>3. \A q \in Renderers : r \in services'[q] => q # t /\ r \in services[q]
    BY <1>0, <2>2
  <2>4. CASE r = t
    BY <2>2, <2>3, <2>4
  <2>5. CASE r # t
    <3>1. stack[r] = <<>> /\ \A q \in Renderers : r \in services[q] => r \in broken[q]
      BY <1>0, <2>2, <2>5 DEF ArrivalInv, DeadAreGone
    <3>2. Orphaned(<<>>, FailedByDeath(t) \cup CallsOf(t)) = <<>>
      BY DEF Orphaned
    <3> QED BY <2>2, <2>3, <2>5, <3>1, <3>2
  <2> QED BY <2>4, <2>5
<1>2. CASE UNCHANGED state
  <2>1. ~Alive(r) /\ stack[r] = <<>> /\ \A q \in Renderers : r \in services[q] => r \in broken[q]
    BY <1>2 DEF ArrivalInv, DeadAreGone
  <2>2. ASSUME NEW q \in Renderers, Alive(q), NEW frame, Push(q, frame) PROVE stack'[r] = <<>>
    BY <1>0, <2>1, <2>2 DEF Push
  <2>3. ASSUME NEW q \in Renderers, stack[q] # <<>>, Pop(q) PROVE stack'[r] = <<>>
    BY <1>0, <2>1, <2>3 DEF Pop
  <2>4. ASSUME NEW failed, stack' = [q \in Renderers |-> Orphaned(stack[q], failed)] PROVE stack'[r] = <<>>
    BY <2>1, <2>4 DEF Orphaned
  <2>5. ASSUME NEW q \in Renderers, NEW t \in Renderers, Connecting(q, t)
        PROVE  stack'[r] = <<>> /\ \A x \in Renderers : r \in services'[x] => r \in broken'[x]
    <3>1. CASE ConnectToRenderer(q, t) \/ BindService(q, t)
      BY <2>1, <3>1 DEF ConnectToRenderer, BindService
    <3>2. CASE BrokerRequest(q, t)
      BY <2>1, <2>4, <3>2 DEF BrokerRequest, CloseBrowserPipe
    <3>3. CASE OnRendererConnected(q, t)
      <4>1. stack'[r] = <<>>
        BY <2>2, <3>3 DEF OnRendererConnected, Idle
      <4>2. CASE UNCHANGED <<services, broken>>
        BY <2>1, <4>1, <4>2
      <4>3. CASE RegisterConnection(q, t)
        BY <1>0, <2>1, <4>1, <4>3 DEF RegisterConnection
      <4> QED BY <3>3, <4>2, <4>3 DEF OnRendererConnected
    <3>4. CASE OnConnectionError(q, t)
      <4>1. stack'[r] = <<>>
        BY <2>2, <3>4 DEF OnConnectionError, Idle
      <4>2. /\ broken' = [broken EXCEPT ![q] = @ \ {t}]
            /\ services' = [services EXCEPT ![q] = @ \ {t}]
        BY <3>4 DEF OnConnectionError, ForgetService
      <4> QED BY <1>0, <2>1, <4>1, <4>2
    <3> QED BY <2>5, <3>1, <3>2, <3>3, <3>4 DEF Connecting
  <2>6. ASSUME NEW q \in Renderers, NEW t \in Renderers, SendToRendererSync(q, t)
        PROVE  stack'[r] = <<>> /\ UNCHANGED <<services, broken>>
    BY <2>2, <2>6 DEF SendToRendererSync, CanRun, managerVars
  <2>7. ASSUME NEW m \in mail, Carrying(m.call)
        PROVE  stack'[r] = <<>> /\ \A x \in Renderers : r \in services'[x] => r \in broken'[x]
    <3>1. CASE MessageToSync(m.call)
      BY <2>1, <3>1 DEF MessageToSync, managerVars
    <3>2. CASE MessageSync(m.call)
      BY <1>0, <2>1, <2>2, <3>2 DEF MessageSync, LetsIn, Idle, managerVars
    <3>3. CASE MessageSyncNoFrame(m.call)
      <4>1. stack'[r] = <<>> /\ UNCHANGED services
        BY <2>4, <3>3 DEF MessageSyncNoFrame
      <4>2. \A x \in Renderers : broken[x] \subseteq broken'[x]
        BY <1>0, <3>3 DEF MessageSyncNoFrame
      <4> QED BY <2>1, <4>1, <4>2
    <3> QED BY <2>7, <3>1, <3>2, <3>3 DEF Carrying
  <2>8. ASSUME NEW q \in Renderers, Returning(q)
        PROVE  stack'[r] = <<>> /\ UNCHANGED <<services, broken>>
    BY <2>3, <2>8 DEF Returning, EventReturns, ServeReturns, CallReturns, Waiting, managerVars
  <2>9. ASSUME NEW q \in Renderers, Reload(q)
        PROVE  stack'[r] = <<>> /\ \A x \in Renderers : r \in services'[x] => r \in broken'[x]
    BY <1>0, <2>1, <2>9 DEF Reload
  <2>10. CASE UNCHANGED connectionVars
    BY <2>1, <2>10 DEF connectionVars, managerVars
  <2>11. \A q \in Renderers, how \in {"crashed", "closed"} : ~Die(q, how)
    BY <1>0, <1>2 DEF Die
  <2> QED BY <2>1, <2>5, <2>6, <2>7, <2>8, <2>9, <2>10, <2>11 DEF ConnectionNext
<1>3. UNCHANGED state \/ \E t \in Renderers, how \in {"crashed", "closed"} : Die(t, how)
  BY DEF ConnectionNext, Connecting, ConnectToRenderer, BrokerRequest, BindService, OnRendererConnected,
         OnConnectionError, SendToRendererSync, Carrying, MessageToSync, MessageSync, MessageSyncNoFrame,
         Returning, EventReturns, ServeReturns, CallReturns, Reload, connectionVars
<1> QED BY <1>1, <1>2, <1>3

(* No step brings requests to the dead, nor does one leave any there.      *)
LEMMA RequestsStep ==
  ConnectionInv /\ CarriageInv /\ ServicesInv /\ ArrivalInv /\ [ConnectionNext]_connectionVars => RequestsArrive'
<1> SUFFICES ASSUME ConnectionInv, CarriageInv, ServicesInv, ArrivalInv, [ConnectionNext]_connectionVars
             PROVE  RequestsArrive'
  OBVIOUS
<1> DEFINE Arrives(m) == /\ m.stage \in {"relay", "request", "reply"}
                         /\ m.stage = "request" /\ Alive(m.call.from) => Alive(m.call.to)
<1>0. \A m \in mail : Arrives(m) /\ m.call \in Calls /\ m.call.to \in Renderers /\ m.call.from \in Renderers
  BY DEF ArrivalInv, RequestsArrive, ConnectionInv, ConnectionTypes, Calls
<1>1. \A c, stage : Mail(c, stage).call = c /\ Mail(c, stage).stage = stage
  BY DEF Mail
<1>2. ASSUME UNCHANGED state,
             \A m \in mail' : m \in mail \/ m.stage \in {"relay", "reply"}
                              \/ (m.stage = "request" /\ Alive(m.call.to))
      PROVE  RequestsArrive'
  BY <1>0, <1>2 DEF RequestsArrive, Alive
<1>3. ASSUME UNCHANGED state, NEW failed, mail' = FailedMail(failed) PROVE RequestsArrive'
  BY <1>1, <1>2, <1>3 DEF FailedMail
<1>4. ASSUME UNCHANGED <<state, mail>> PROVE RequestsArrive'
  BY <1>2, <1>4
<1>5. ASSUME NEW r \in Renderers, NEW t \in Renderers, Connecting(r, t) PROVE RequestsArrive'
  <2>1. UNCHANGED state /\ (UNCHANGED mail \/ mail' = FailedMail(RelayedCalls(r)))
    BY <1>5 DEF Connecting, ConnectToRenderer, BrokerRequest, CloseBrowserPipe, BindService,
                OnRendererConnected, OnConnectionError
  <2> QED BY <1>3, <1>4, <2>1
<1>6. ASSUME NEW r \in Renderers, NEW t \in Renderers, SendToRendererSync(r, t) PROVE RequestsArrive'
  <2> DEFINE lane == LaneTo(r, t)
             c == Call(r, Len(stack[r]) + 1, t, lane)
  <2>1. /\ UNCHANGED state
        /\ mail' = mail \cup {Mail(c, IF lane = "direct" THEN "request" ELSE "relay")}
        /\ lane = "direct" => t \in services[r] /\ t \notin broken[r]
    BY <1>6 DEF SendToRendererSync, LaneTo
  <2>2. c.to = t
    BY DEF Call
  <2>3. lane = "direct" => Alive(t)
    BY <2>1 DEF ArrivalInv, DeadAreGone
  <2> HIDE DEF c, lane
  <2> QED BY <1>1, <1>2, <2>1, <2>2, <2>3
<1>7. ASSUME NEW m \in mail, Carrying(m.call) PROVE RequestsArrive'
  <2>1. CASE MessageToSync(m.call)
    <3>1. UNCHANGED state /\ mail' = (mail \ {Mail(m.call, "relay")})
                               \cup {Mail(m.call, IF Alive(m.call.to) THEN "request" ELSE "reply")}
      BY <2>1 DEF MessageToSync
    <3> QED BY <1>1, <1>2, <3>1
  <2>2. CASE MessageSync(m.call)
    BY <1>2, <2>2 DEF MessageSync
  <2>3. CASE MessageSyncNoFrame(m.call)
    BY <1>3, <2>3 DEF MessageSyncNoFrame
  <2> QED BY <1>7, <2>1, <2>2, <2>3 DEF Carrying
<1>8. ASSUME NEW r \in Renderers, Returning(r) PROVE RequestsArrive'
  <2>1. CASE EventReturns(r)
    BY <1>4, <2>1 DEF EventReturns
  <2>2. CASE ServeReturns(r)
    <3>1. UNCHANGED state /\ (UNCHANGED mail \/ \E c : mail' = mail \cup {Mail(c, "reply")})
      BY <2>2 DEF ServeReturns, SendReply
    <3> QED BY <1>1, <1>2, <3>1
  <2>3. CASE CallReturns(r)
    BY <1>2, <2>3 DEF CallReturns
  <2> QED BY <1>8, <2>1, <2>2, <2>3 DEF Returning
<1>9. ASSUME NEW r \in Renderers, Reload(r) PROVE RequestsArrive'
  BY <1>4, <1>9 DEF Reload
<1>10. ASSUME NEW t \in Renderers, NEW how \in {"crashed", "closed"}, Die(t, how) PROVE RequestsArrive'
  <2>1. /\ state' = [state EXCEPT ![t] = how]
        /\ \A m \in mail' : m \in FailedMail(FailedByDeath(t))
    BY <1>10 DEF Die
  <2>2. \A r \in Renderers : (state'[r] = "alive" => r # t /\ Alive(r)) /\ (r # t /\ Alive(r) => state'[r] = "alive")
    BY <2>1 DEF ServicesInv, StateTypes, Alive
  <2>3. ASSUME NEW m \in mail', m.stage # "reply" PROVE m \in mail /\ m.call \notin FailedByDeath(t)
    BY <1>1, <2>1, <2>3 DEF FailedMail
  <2>4. ASSUME NEW m \in mail, m.call.to = t, m.call.from # t, m.stage # "reply", Alive(m.call.from)
        PROVE  m.call \in FailedByDeath(t)
    <3>1. m.call \in Calls /\ Made(m.call) /\ m.call.from \in Renderers \ {t}
      BY <1>0, <2>4 DEF CarriageInv, MailIsKnown
    <3>2. ByMail(m.call)
      BY <3>1 DEF CarriageInv, ByFrame
    <3>3. Mail(m.call, "reply") \notin mail
      BY <1>1, <2>4, <3>2 DEF ByMail
    <3>4. m.call \in CallsOf(m.call.from)
      BY <3>1, CallsOfMade DEF CarriageInv, ConnectionInv
    <3> QED BY <2>4, <3>1, <3>3, <3>4 DEF FailedByDeath, CallsTo, Answered
  <2>5. ASSUME NEW m \in mail'
        PROVE  /\ m.stage \in {"relay", "request", "reply"}
               /\ m.stage = "request" /\ state'[m.call.from] = "alive" => state'[m.call.to] = "alive"
    <3>1. CASE m.stage = "reply"
      BY <3>1
    <3>2. CASE m.stage # "reply"
      <4>1. m \in mail /\ m.call \notin FailedByDeath(t)
        BY <2>3, <3>2
      <4> QED BY <1>0, <2>2, <2>4, <3>2, <4>1
    <3> QED BY <3>1, <3>2
  <2> QED BY <2>5 DEF RequestsArrive, Alive
<1>11. CASE UNCHANGED connectionVars
  BY <1>4, <1>11 DEF connectionVars
<1> QED BY <1>5, <1>6, <1>7, <1>8, <1>9, <1>10, <1>11 DEF ConnectionNext

LEMMA ArrivalStep ==
  ConnectionInv /\ CarriageInv /\ ServicesInv /\ ArrivalInv /\ [ConnectionNext]_connectionVars => ArrivalInv'
BY GoneStep, RequestsStep DEF ArrivalInv

(* Where the call is that a renderer waits for.                            *)
LEMMA WhereACallIs ==
  ASSUME ConnectionInv, CarriageInv, ArrivalInv, NEW r \in Renderers, Waiting(r)
  PROVE  GoesOn(r) \/ KeptOut(r) \/ \E t \in Renderers : WaitsFor(r, t)
<1> DEFINE n == Len(stack[r])
           c == stack[r][n].call
<1>1. /\ stack[r] \in Seq(Frames) /\ stack[r] # <<>> /\ stack[r][n].kind = "call"
      /\ Last(stack[r]).call = c
  BY DEF ConnectionInv, ConnectionTypes, Waiting, Last
<1>2. n \in Nat /\ n \in 1 .. n /\ stack[r][n] \in Frames
  BY <1>1, FrontFrames
<1>3. c \in Calls
  BY <1>1, <1>2 DEF Frames, CallFrames, ServeFrames, EventFrames
<1>4. CallAt(stack[r], n, c)
  BY <1>1, <1>2 DEF CallAt
<1> HIDE DEF n, c
<1>5. c.from = r /\ c.depth = n /\ Alive(r) /\ Made(c) /\ c.to \in Renderers
  BY <1>2, <1>3, <1>4 DEF CarriageInv, FramesAreNamed, Made, Calls
<1>6. CASE ByMail(c)
  <2>1. PICK m \in mail : m.call = c
    BY <1>6 DEF ByMail
  <2>2. m = Mail(c, m.stage) /\ m.stage \in {"relay", "request", "reply"}
    BY <2>1 DEF CarriageInv, MailIsKnown, ArrivalInv, RequestsArrive
  <2>3. CASE m.stage = "relay" \/ m.stage = "reply"
    BY <1>1, <2>1, <2>2, <2>3 DEF GoesOn, Answered
  <2>4. CASE m.stage = "request"
    <3>1. Alive(c.to) /\ Mail(c, "request") \in mail
      BY <1>5, <2>1, <2>2, <2>4 DEF ArrivalInv, RequestsArrive
    <3>2. CASE CanRun(c.to) \/ LetsIn(c)
      BY <1>1, <3>1, <3>2 DEF GoesOn
    <3>3. CASE ~CanRun(c.to) /\ ~LetsIn(c)
      <4>1. Waiting(c.to) /\ c.lane # "direct"
        BY <3>1, <3>3 DEF CanRun, LetsIn
      <4>2. c.lane = "browser"
        BY <1>3, <4>1 DEF Calls
      <4> QED BY <1>1, <3>1, <4>1, <4>2 DEF KeptOut
    <3> QED BY <3>2, <3>3
  <2> QED BY <2>2, <2>3, <2>4
<1>7. CASE ByFrame(c)
  <2>1. PICK t \in Renderers, i \in Nat : ServeAt(stack[t], i, c)
    BY <1>7 DEF ByFrame
  <2>2. i \in 1 .. Len(stack[t]) /\ OpenServe(stack[t][i], c)
    BY <2>1 DEF ServeAt
  <2>3. stack[t] # <<>>
    <3>1. Len(<<>>) = 0
      OBVIOUS
    <3>2. Len(stack[t]) # 0
      BY <2>2
    <3> QED BY <3>1, <3>2
  <2>4. Alive(t)
    BY <2>3 DEF ArrivalInv, DeadAreGone
  <2>5. CASE Waiting(t)
    BY <1>1, <2>2, <2>5 DEF WaitsFor
  <2>6. CASE ~Waiting(t)
    BY <1>1, <2>2, <2>4, <2>6 DEF GoesOn, CanRun
  <2> QED BY <2>5, <2>6
<1> QED BY <1>3, <1>5, <1>6, <1>7 DEF CarriageInv

(* Of numbers below a bound, one is the greatest.                          *)
LEMMA Greatest ==
  ASSUME NEW n \in Nat, NEW T, T # {}, \A x \in T : x \in Nat /\ x < n
  PROVE  \E x \in T : \A y \in T : ~(x < y)
<1> DEFINE Below == {n - x : x \in T}
<1>1. Below \subseteq Nat /\ Below # {}
  OBVIOUS
<1>2. PICK b \in Below : \A d \in Below : ~(<<d, b>> \in OpToRel(<, Nat))
  BY <1>1, NatLessThanWellFounded, WFMin
<1>3. PICK x \in T : b = n - x
  OBVIOUS
<1>4. ASSUME NEW y \in T, x < y PROVE FALSE
  <2>1. n - y \in Below /\ n - y \in Nat /\ b \in Nat /\ n - y < b
    BY <1>1, <1>3, <1>4
  <2>2. <<n - y, b>> \in OpToRel(<, Nat)
    BY <2>1 DEF OpToRel
  <2> QED BY <1>2, <2>1, <2>2
<1> QED BY <1>4

(* A frame that serves the call of a renderer that waits is above it, and  *)
(* so is the call that its renderer waits for.                             *)
LEMMA WaitingRises ==
  ASSUME ConnectionInv, CarriageInv, NEW n \in Nat, NEW rank \in [Renderers -> [Nat -> Nat]], Ranked(rank, n),
         NEW r \in Renderers, NEW t \in Renderers, WaitsFor(r, t)
  PROVE  rank[r][Len(stack[r])] < rank[t][Len(stack[t])]
<1> DEFINE top == Len(stack[r])
           c == stack[r][top].call
<1>1. /\ stack[r] \in Seq(Frames) /\ stack[r] # <<>> /\ stack[r][top].kind = "call"
      /\ Last(stack[r]).call = c
      /\ stack[t] \in Seq(Frames) /\ stack[t] # <<>>
  BY DEF ConnectionInv, ConnectionTypes, WaitsFor, Waiting, Last
<1>2. top \in Nat /\ top \in 1 .. top /\ stack[r][top] \in Frames
  BY <1>1, FrontFrames
<1>3. c \in Calls
  BY <1>1, <1>2 DEF Frames, CallFrames, ServeFrames, EventFrames
<1>4. CallAt(stack[r], top, c)
  BY <1>1, <1>2 DEF CallAt
<1> HIDE DEF top, c
<1>5. c.from = r /\ c.depth = top
  BY <1>2, <1>3, <1>4 DEF CarriageInv, FramesAreNamed
<1>6. PICK last \in Nat : last = Len(stack[t]) /\ last \in 1 .. Len(stack[t])
  BY <1>1, FrontFrames
<1>7. PICK i \in Nat : i \in 1 .. Len(stack[t]) /\ OpenServe(stack[t][i], c)
  <2>1. \E i \in 1 .. Len(stack[t]) : OpenServe(stack[t][i], c)
    BY <1>1 DEF WaitsFor
  <2>2. \A i \in 1 .. Len(stack[t]) : i \in Nat
    BY <1>6
  <2> QED BY <2>1, <2>2
<1>8. ServeAt(stack[t], i, c) /\ (i < last \/ i = last)
  <2>1. i < last \/ i = last
    <3>1. i \in 1 .. last
      BY <1>6, <1>7
    <3> QED BY <3>1
  <2> QED BY <1>7, <2>1 DEF ServeAt
<1>9. rank[r][top] < rank[t][i]
  BY <1>3, <1>5, <1>8 DEF Ranked
<1>10. rank[t][i] < rank[t][last] \/ i = last
  BY <1>6, <1>7, <1>8 DEF Ranked
<1>11. rank[r][top] \in Nat /\ rank[t][i] \in Nat /\ rank[t][last] \in Nat
  BY <1>2, <1>7, <1>8
<1>12. rank[r][top] < rank[t][last]
  <2>1. CASE i = last
    BY <1>9, <2>1
  <2>2. CASE rank[t][i] < rank[t][last]
    <3>1. \A x, y, z \in Nat : x < y /\ y < z => x < z
      OBVIOUS
    <3> QED BY <1>9, <1>11, <2>2, <3>1
  <2> QED BY <1>10, <2>1, <2>2
<1> QED BY <1>6, <1>12 DEF top

LEMMA NoneIsStuck ==
  ConnectionInv /\ CarriageInv /\ ArrivalInv /\ InOrder => NoGroupIsStuck
<1> SUFFICES ASSUME ConnectionInv, CarriageInv, ArrivalInv, InOrder,
                    NEW group \in SUBSET {r \in Renderers : Waiting(r)}, group # {},
                    \A r \in group : ~GoesOn(r) /\ ~KeptOut(r) /\ \A t \in Renderers \ group : ~WaitsFor(r, t)
             PROVE  FALSE
  BY DEF NoGroupIsStuck
<1>1. \A r \in group : \E t \in group : WaitsFor(r, t)
  BY WhereACallIs
<1>2. PICK n \in Nat, rank \in [Renderers -> [Nat -> Nat]] : Ranked(rank, n)
  BY DEF InOrder
<1> DEFINE Top(r) == rank[r][Len(stack[r])]
           Tops == {Top(r) : r \in group}
<1>3. \A r \in group : Top(r) \in Nat /\ Top(r) < n
  <2> SUFFICES ASSUME NEW r \in group PROVE Top(r) \in Nat /\ Top(r) < n
    OBVIOUS
  <2>1. r \in Renderers /\ stack[r] \in Seq(Frames) /\ stack[r] # <<>>
    BY DEF ConnectionInv, ConnectionTypes, Waiting
  <2>2. Len(stack[r]) \in Nat /\ Len(stack[r]) \in 1 .. Len(stack[r])
    BY <2>1, FrontFrames
  <2> QED BY <1>2, <2>1, <2>2 DEF Ranked
<1>4. \A r, t \in group : WaitsFor(r, t) => Top(r) < Top(t)
  BY <1>2, WaitingRises
<1> HIDE DEF Top
<1>5. Tops # {} /\ \A x \in Tops : x \in Nat /\ x < n
  BY <1>3
<1>6. PICK x \in Tops : \A y \in Tops : ~(x < y)
  BY <1>5, Greatest
<1>7. PICK r \in group : x = Top(r)
  BY <1>6
<1>8. PICK t \in group : WaitsFor(r, t)
  BY <1>1
<1> QED BY <1>4, <1>6, <1>7, <1>8

(***************************************************************************)
(* The theorems.                                                           *)
(***************************************************************************)

(* The variables have their types for any renderers, calls and deaths; a   *)
(* disconnect handler is to run only for a service in the map, so that the *)
(* branch "This should never happen" of OnConnectionError is never taken.  *)
THEOREM ConnectionTypesHold == ConnectionSpec => []ConnectionTypeOK
<1>1. ConnectionSpec => []FewCalls
  BY FewCallsInit, FewCallsStep, ConnectionAlways, PTL DEF ConnectionSpec
<1>2. ConnectionInv /\ ServicesInv /\ FewCalls => ConnectionTypeOK
  BY DEF ConnectionInv, ConnectionTypes, EventsTellTheLane, ServicesInv, StateTypes,
         BrokenAreServices, NoneToItself, FewCalls, ConnectionTypeOK
<1> QED BY <1>1, <1>2, ServicesAlways, ConnectionAlways, PTL

(* The last event about a target said connected exactly if messages to it  *)
(* take the direct pipe now, through refused requests, lost pipes, reloads *)
(* and deaths (direct_connection_manager.cc RegisterConnection and         *)
(* OnConnectionError; remote-client.ts keeps usingDirectChannel by it).    *)
THEOREM ScriptKnowsTheLane == ConnectionSpec => []EventsTellTheLane
<1>1. ConnectionInv => EventsTellTheLane
  BY DEF ConnectionInv
<1> QED BY <1>1, ConnectionAlways, PTL

(* An answer is to a request that is pending, to a target that is not      *)
(* connected, and announced once, although the entry is erased only after  *)
(* script has run in the event (direct_connection_manager.cc               *)
(* ConnectToRenderer and OnRendererConnected).                             *)
THEOREM AnswersMeetRequests == ConnectionSpec => []AnswersArePending
<1>1. ConnectionInv => AnswersArePending
  <2>1. \A r, t \in Renderers : Announcing(r, t) <=> Announces(stack[r], t)
    BY DEF Announcing, Announces
  <2> QED BY <2>1 DEF ConnectionInv, RenderersSettled, Settled, AnswersArePending
<1> QED BY <1>1, ConnectionAlways, PTL

(* A call a live renderer waits for is neither lost nor answered twice: at *)
(* every moment one message carries it or one frame serves it, however     *)
(* calls nest, over either lane, and whichever pipes close and renderers   *)
(* die (renderer_service.cc MessageSync and renderer_event.cc SendReply,   *)
(* send_to_sync_handler.cc MessageToSync with message_wrapper.cc).         *)
THEOREM CallsCarriedOnce == ConnectionSpec => []EveryCallIsCarriedOnce
<1>1. ConnectionInv /\ CarriageInv => EveryCallIsCarriedOnce
  <2> SUFFICES ASSUME ConnectionInv, CarriageInv, NEW r \in Renderers, NEW c \in CallsOf(r)
               PROVE  Cardinality(Carriers(c)) = 1
    BY DEF EveryCallIsCarriedOnce
  <2> DEFINE places == UNION {{q} \X (1 .. Len(stack[q])) : q \in Renderers}
             frames == {p \in places : OpenServe(stack[p[1]][p[2]], c)}
             messages == {m \in mail : m.call = c}
  <2>1. c \in Calls /\ Made(c)
    BY CallsOfMade DEF ConnectionInv, CarriageInv
  <2>2. \A q \in Renderers : Len(stack[q]) \in Nat
    BY DEF ConnectionInv, ConnectionTypes
  <2>3. /\ \A p \in frames : p[1] \in Renderers /\ p[2] \in Nat /\ p = <<p[1], p[2]>>
                             /\ ServeAt(stack[p[1]], p[2], c)
        /\ \A q \in Renderers, i \in Nat : ServeAt(stack[q], i, c) => <<q, i>> \in frames
    <3>1. ASSUME NEW p \in frames
          PROVE  p[1] \in Renderers /\ p[2] \in Nat /\ p = <<p[1], p[2]>>
                 /\ ServeAt(stack[p[1]], p[2], c)
      <4>1. PICK q \in Renderers : p \in {q} \X (1 .. Len(stack[q]))
        OBVIOUS
      <4> QED BY <2>2, <4>1 DEF ServeAt
    <3>2. ASSUME NEW q \in Renderers, NEW i \in Nat, ServeAt(stack[q], i, c) PROVE <<q, i>> \in frames
      <4>1. i \in 1 .. Len(stack[q]) /\ OpenServe(stack[q][i], c)
        BY <3>2 DEF ServeAt
      <4>2. <<q, i>> \in places
        BY <4>1
      <4> QED BY <4>1, <4>2
    <3> QED BY <3>1, <3>2
  <2>4. Carriers(c) = messages \cup frames
    BY DEF Carriers
  <2> HIDE DEF frames, messages, places
  <2>5. CASE ByMail(c)
    <3>1. frames = {}
      BY <2>3, <2>5 DEF ByMail
    <3>2. \E m : messages = {m}
      BY <2>5 DEF ByMail, messages
    <3> QED BY <2>4, <3>1, <3>2, FS_Singleton
  <2>6. CASE ByFrame(c)
    <3>1. messages = {}
      BY <2>6 DEF ByFrame, messages
    <3>2. \E p : frames = {p}
      <4>1. PICK q \in Renderers, i \in Nat :
              /\ ServeAt(stack[q], i, c)
              /\ \A x \in Renderers, j \in Nat : ServeAt(stack[x], j, c) => x = q /\ j = i
        BY <2>6 DEF ByFrame
      <4>2. <<q, i>> \in frames /\ \A p \in frames : p = <<q, i>>
        BY <2>3, <4>1
      <4> QED BY <4>2
    <3> QED BY <2>4, <3>1, <3>2, FS_Singleton
  <2> QED BY <2>1, <2>5, <2>6 DEF CarriageInv
<1> QED BY <1>1, CarriageAlways, ConnectionAlways, PTL

(* No group of renderers that wait for each other is stuck, for any number *)
(* of renderers, calls and deaths: a renderer that waits takes in the      *)
(* calls of its direct pipes, RendererService.MessageSync being [Sync], so *)
(* that a circle of direct calls nests instead of blocking; only a call    *)
(* that the browser relays may be kept out (renderer_service.cc            *)
(* MessageSync, direct_connection_manager.cc SendToRendererSync).  Who     *)
(* waits waits for what was begun later, so that a chain of them ends.     *)
THEOREM NoneAreStuck == ConnectionSpec => []NoGroupIsStuck
<1>1. ConnectionSpec => []ArrivalInv
  BY ArrivalInit, ArrivalStep, CarriageAlways, ServicesAlways, ConnectionAlways, PTL DEF ConnectionSpec
<1>2. ConnectionSpec => []InOrder
  BY OrderInit, OrderStep, CarriageAlways, ConnectionAlways, PTL DEF ConnectionSpec
<1> QED BY <1>1, <1>2, NoneIsStuck, CarriageAlways, ConnectionAlways, PTL
===============================================================================
