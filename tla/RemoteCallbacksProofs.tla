------------------------- MODULE RemoteCallbacksProofs -------------------------
(***************************************************************************)
(* Proofs about RemoteCallbacks, for any functions, pages and ids, with    *)
(* all optional behaviours: no message reaches another function, and no    *)
(* registered callback is forgotten.  Without them, a stub that the host   *)
(* has finds its function.                                                 *)
(***************************************************************************)
EXTENDS RemoteCallbacks, SequenceTheorems, TLAPS

Messages == [op : {"Invoke", "Release"}, key : Keys]

QueueTypes ==
  /\ page \in 1 .. MaxPage /\ nextCallback \in 0 .. MaxCallbackId
  /\ DOMAIN callbacks \subseteq 1 .. nextCallback
  /\ stubs \subseteq Keys /\ stubCache \subseteq Keys
  /\ calls \in [CallLanes -> Seq(Keys)]
  /\ invokes \in [CallLanes -> Seq(Messages)]
  /\ callLane \in CallLanes /\ invokeLane \in CallLanes
  /\ callbacks \in [DOMAIN callbacks -> CallbackFunctions]

(* A key is of a page there has been, and if of the present one, names an  *)
(* id that was given and, while it is registered, its function.            *)
KnownTo(present, given, registered, key) ==
  /\ key.page <= present
  /\ key.page = present =>
       /\ key.id <= given
       /\ key.id \in DOMAIN registered => registered[key.id] = key.function

Known(key) == KnownTo(page, nextCallback, callbacks, key)
KnownNext(key) == KnownTo(page', nextCallback', callbacks', key)

KeysAreKnown ==
  /\ \A key \in stubs \cup stubCache : Known(key)
  /\ \A lane \in CallLanes : \A i \in 1 .. Len(calls[lane]) : Known(calls[lane][i])
  /\ \A lane \in CallLanes : \A i \in 1 .. Len(invokes[lane]) : Known(invokes[lane][i].key)

CallbacksInv ==
  /\ QueueTypes
  /\ KeysAreKnown
  /\ RegisteredIsTracked

(***************************************************************************)
(* Messages that are posted, and messages that are taken.                  *)
(***************************************************************************)
LEMMA Posted ==
  ASSUME NEW S, NEW network \in [CallLanes -> Seq(S)], NEW lane \in CallLanes, NEW m \in S,
         NEW after, after = [network EXCEPT ![lane] = Append(@, m)]
  PROVE  /\ after \in [CallLanes -> Seq(S)]
         /\ \A l \in CallLanes : \A i \in 1 .. Len(after[l]) :
              after[l][i] = m \/ (i \in 1 .. Len(network[l]) /\ after[l][i] = network[l][i])
         /\ \A l \in CallLanes : \A i \in 1 .. Len(network[l]) :
              i \in 1 .. Len(after[l]) /\ after[l][i] = network[l][i]
         /\ \E i \in 1 .. Len(after[lane]) : after[lane][i] = m
<1>1. /\ Append(network[lane], m) \in Seq(S)
      /\ Len(Append(network[lane], m)) = Len(network[lane]) + 1
      /\ Len(network[lane]) \in Nat
      /\ \A i \in 1 .. Len(network[lane]) : Append(network[lane], m)[i] = network[lane][i]
      /\ Append(network[lane], m)[Len(network[lane]) + 1] = m
  BY AppendProperties
<1>2. /\ after[lane] = Append(network[lane], m)
      /\ \A l \in CallLanes : l # lane => after[l] = network[l]
  OBVIOUS
<1>3. after \in [CallLanes -> Seq(S)]
  BY <1>1
<1>4. ASSUME NEW l \in CallLanes
      PROVE  /\ \A i \in 1 .. Len(after[l]) :
                  after[l][i] = m \/ (i \in 1 .. Len(network[l]) /\ after[l][i] = network[l][i])
             /\ \A i \in 1 .. Len(network[l]) :
                  i \in 1 .. Len(after[l]) /\ after[l][i] = network[l][i]
  <2>1. CASE l # lane
    BY <1>2, <2>1
  <2>2. CASE l = lane
    <3>1. after[l] = Append(network[lane], m) /\ network[l] = network[lane]
      BY <1>2, <2>2
    <3>2. ASSUME NEW i \in 1 .. Len(after[l])
          PROVE  after[l][i] = m \/ (i \in 1 .. Len(network[l]) /\ after[l][i] = network[l][i])
      <4>1. i \in 1 .. Len(network[l]) \/ i = Len(network[l]) + 1
        BY <1>1, <3>1
      <4> QED BY <1>1, <3>1, <4>1
    <3>3. ASSUME NEW i \in 1 .. Len(network[l])
          PROVE  i \in 1 .. Len(after[l]) /\ after[l][i] = network[l][i]
      BY <1>1, <3>1
    <3> QED BY <3>2, <3>3
  <2> QED BY <2>1, <2>2
<1>5. \E i \in 1 .. Len(after[lane]) : after[lane][i] = m
  BY <1>1, <1>2
<1> QED BY <1>3, <1>4, <1>5

TakenFrom(network, lane) == [network EXCEPT ![lane] = Tail(@)]

(* The first message leaves its lane, and all others stay.                 *)
FirstLeaves(S, network, lane, after) ==
  /\ after \in [CallLanes -> Seq(S)]
  /\ Head(network[lane]) \in S /\ Head(network[lane]) = network[lane][1]
  /\ 1 \in 1 .. Len(network[lane])
  /\ \A l \in CallLanes : \A i \in 1 .. Len(after[l]) :
       \E j \in 1 .. Len(network[l]) : after[l][i] = network[l][j]
  /\ \A l \in CallLanes : \A i \in 1 .. Len(network[l]) :
       \/ l = lane /\ network[l][i] = Head(network[lane])
       \/ \E j \in 1 .. Len(after[l]) : after[l][j] = network[l][i]

LEMMA Taken ==
  ASSUME NEW S, NEW network \in [CallLanes -> Seq(S)], NEW lane \in CallLanes,
         network[lane] # <<>>,
         NEW after, after = TakenFrom(network, lane)
  PROVE  FirstLeaves(S, network, lane, after)
<1> DEFINE s == network[lane]
<1>1. /\ Tail(s) \in Seq(S) /\ Len(Tail(s)) = Len(s) - 1 /\ Len(s) \in Nat \ {0}
      /\ \A i \in 1 .. Len(Tail(s)) : Tail(s)[i] = s[i + 1]
      /\ Head(s) = s[1] /\ Head(s) \in S
  BY HeadTailProperties
<1>2. /\ after[lane] = Tail(s)
      /\ \A l \in CallLanes : l # lane => after[l] = network[l]
  BY DEF TakenFrom
<1>3. ASSUME NEW i \in 1 .. Len(Tail(s))
      PROVE  \E j \in 1 .. Len(s) : Tail(s)[i] = s[j]
  <2>1. i + 1 \in 1 .. Len(s) /\ Tail(s)[i] = s[i + 1]
    BY <1>1
  <2> QED BY <2>1
<1>4. ASSUME NEW i \in 1 .. Len(s), i # 1
      PROVE  \E j \in 1 .. Len(Tail(s)) : Tail(s)[j] = s[i]
  <2>1. i - 1 \in 1 .. Len(Tail(s)) /\ (i - 1) + 1 = i
    BY <1>1, <1>4
  <2> QED BY <1>1, <2>1
<1>5. ASSUME NEW l \in CallLanes
      PROVE  /\ \A i \in 1 .. Len(after[l]) : \E j \in 1 .. Len(network[l]) : after[l][i] = network[l][j]
             /\ \A i \in 1 .. Len(network[l]) :
                  \/ l = lane /\ network[l][i] = Head(network[lane])
                  \/ \E j \in 1 .. Len(after[l]) : after[l][j] = network[l][i]
  <2>1. CASE l # lane
    BY <1>2, <2>1
  <2>2. CASE l = lane
    <3>1. \A i \in 1 .. Len(s) : i = 1 => s[i] = Head(s)
      BY <1>1
    <3>2. after[l] = Tail(s) /\ network[l] = s
      BY <1>2, <2>2
    <3>3. \A i \in 1 .. Len(s) : s[i] = Head(s) \/ \E j \in 1 .. Len(Tail(s)) : Tail(s)[j] = s[i]
      BY <1>4, <3>1
    <3> HIDE DEF s
    <3> QED BY <1>3, <2>2, <3>2, <3>3
  <2> QED BY <2>1, <2>2
<1>6. after \in [CallLanes -> Seq(S)]
  BY <1>1 DEF TakenFrom
<1>7. 1 \in 1 .. Len(s)
  BY <1>1
<1> QED BY <1>1, <1>5, <1>6, <1>7 DEF FirstLeaves

LEMMA MessageKeys ==
  ASSUME QueueTypes
  PROVE  /\ \A l \in CallLanes : \A i \in 1 .. Len(calls[l]) : calls[l][i] \in Keys
         /\ \A l \in CallLanes : \A i \in 1 .. Len(invokes[l]) :
              invokes[l][i] \in Messages /\ invokes[l][i].key \in Keys
<1>1. ASSUME NEW l \in CallLanes PROVE calls[l] \in Seq(Keys) /\ invokes[l] \in Seq(Messages)
  BY DEF QueueTypes
<1>2. \A m \in Messages : m.key \in Keys
  BY DEF Messages
<1> QED BY <1>1, <1>2

(***************************************************************************)
(* The client's steps.                                                     *)
(***************************************************************************)
LEMMA CallbacksInitInv == CallbacksInit => CallbacksInv
<1> SUFFICES ASSUME CallbacksInit PROVE CallbacksInv
  OBVIOUS
<1>1. /\ \A lane \in CallLanes : calls[lane] = <<>> /\ invokes[lane] = <<>>
      /\ DOMAIN callbacks = {}
  BY DEF CallbacksInit
<1>2. QueueTypes
  <2>1. <<>> \in Seq(Keys) /\ <<>> \in Seq(Messages)
    OBVIOUS
  <2> QED BY <1>1, <2>1, CallbacksAssumption DEF CallbacksInit, QueueTypes, CallLanes
<1>3. KeysAreKnown
  BY <1>1 DEF CallbacksInit, KeysAreKnown
<1>4. RegisteredIsTracked
  BY <1>1 DEF RegisteredIsTracked
<1> QED BY <1>2, <1>3, <1>4 DEF CallbacksInv

(* What AddCallback gives a function: the id it has, or a new one.         *)
LEMMA AddedFunction ==
  ASSUME QueueTypes, NEW f \in CallbackFunctions, AddCallback(f),
         NEW id, id = CallbackIdFor(f)
  PROVE  /\ id \in 1 .. MaxCallbackId
         /\ nextCallback' \in 0 .. MaxCallbackId /\ nextCallback <= nextCallback' /\ id <= nextCallback'
         /\ DOMAIN callbacks' = DOMAIN callbacks \cup {id}
         /\ callbacks'[id] = f
         /\ id \in DOMAIN callbacks \/ id = nextCallback + 1
         /\ \A i \in DOMAIN callbacks : callbacks'[i] = callbacks[i]
<1>1. /\ id <= MaxCallbackId
      /\ nextCallback' = IF Added(f) THEN nextCallback ELSE nextCallback + 1
      /\ callbacks' = [i \in DOMAIN callbacks \cup {id} |-> IF i = id THEN f ELSE callbacks[i]]
  BY DEF AddCallback
<1>2. CASE Added(f)
  <2>1. id \in DOMAIN callbacks /\ callbacks[id] = f
    BY <1>2 DEF CallbackIdFor, Added
  <2> QED BY <1>1, <1>2, <2>1, CallbacksAssumption DEF QueueTypes
<1>3. CASE ~Added(f)
  <2>1. id = nextCallback + 1
    BY <1>3 DEF CallbackIdFor
  <2>2. id \notin DOMAIN callbacks
    BY <2>1 DEF QueueTypes
  <2> QED BY <1>1, <1>3, <2>1, <2>2, CallbacksAssumption DEF QueueTypes
<1> QED BY <1>2, <1>3

(* A key that was known stays so, for ids are not given twice.             *)
LEMMA StaysKnown ==
  ASSUME QueueTypes, NEW f \in CallbackFunctions, AddCallback(f), page' = page,
         NEW key \in Keys, Known(key)
  PROVE  KnownNext(key)
<1> DEFINE id == CallbackIdFor(f)
<1>1. /\ nextCallback' \in 0 .. MaxCallbackId /\ nextCallback <= nextCallback'
      /\ DOMAIN callbacks' = DOMAIN callbacks \cup {id}
      /\ id \in DOMAIN callbacks \/ id = nextCallback + 1
      /\ \A i \in DOMAIN callbacks : callbacks'[i] = callbacks[i]
  BY AddedFunction
<1>2. key.id \in Nat /\ nextCallback \in Nat
  BY CallbacksAssumption DEF Keys, QueueTypes
<1> HIDE DEF id
<1> QED BY <1>1, <1>2 DEF Known, KnownNext, KnownTo, QueueTypes

LEMMA CallWithKeeps ==
  ASSUME CallbacksInv, NEW f \in CallbackFunctions, CallWith(f)
  PROVE  CallbacksInv'
<1> USE DEF CallbacksInv
<1> DEFINE id == CallbackIdFor(f)
           key == Key(page, id, f)
<1>1. /\ AddCallback(f) /\ calls' = [calls EXCEPT ![callLane] = Append(@, key)]
      /\ UNCHANGED <<page, callLane, hostSide, invokes>>
  BY DEF CallWith, Post
<1>2. /\ id \in 1 .. MaxCallbackId
      /\ nextCallback' \in 0 .. MaxCallbackId /\ nextCallback <= nextCallback' /\ id <= nextCallback'
      /\ DOMAIN callbacks' = DOMAIN callbacks \cup {id}
      /\ callbacks'[id] = f
      /\ \A i \in DOMAIN callbacks : callbacks'[i] = callbacks[i]
  BY <1>1, AddedFunction
<1>3. key \in Keys /\ KnownNext(key)
  <2>1. key.page = page /\ key.id = id /\ key.function = f
    BY DEF Key
  <2>2. page \in Nat /\ page' = page
    BY <1>1, CallbacksAssumption DEF QueueTypes
  <2>3. key \in Keys
    BY <1>2 DEF Key, Keys, QueueTypes
  <2> HIDE DEF id, key
  <2> QED BY <1>2, <2>1, <2>2, <2>3 DEF KnownNext, KnownTo
<1>4. \A k \in Keys : Known(k) => KnownNext(k)
  BY <1>1, StaysKnown
<1> HIDE DEF id, key
<1>5. /\ calls' \in [CallLanes -> Seq(Keys)]
      /\ \A l \in CallLanes : \A i \in 1 .. Len(calls'[l]) :
           calls'[l][i] = key \/ (i \in 1 .. Len(calls[l]) /\ calls'[l][i] = calls[l][i])
      /\ \A l \in CallLanes : \A i \in 1 .. Len(calls[l]) :
           i \in 1 .. Len(calls'[l]) /\ calls'[l][i] = calls[l][i]
      /\ \E i \in 1 .. Len(calls'[callLane]) : calls'[callLane][i] = key
  <2>1. calls \in [CallLanes -> Seq(Keys)] /\ callLane \in CallLanes
    BY DEF QueueTypes
  <2> QED BY <1>1, <1>3, <2>1, Posted
<1>6. QueueTypes'
  <2>1. DOMAIN callbacks' \subseteq 1 .. nextCallback'
    BY <1>2, CallbacksAssumption DEF QueueTypes
  <2>2. callbacks' \in [DOMAIN callbacks' -> CallbackFunctions]
    <3>1. callbacks' = [i \in DOMAIN callbacks' |-> callbacks'[i]]
      BY <1>1 DEF AddCallback
    <3>2. \A i \in DOMAIN callbacks' : callbacks'[i] \in CallbackFunctions
      BY <1>2 DEF QueueTypes
    <3> QED BY <3>1, <3>2
  <2> QED BY <1>1, <1>2, <1>5, <2>1, <2>2 DEF QueueTypes, hostSide
<1>7. KeysAreKnown'
  <2>1. \A k \in stubs' \cup stubCache' : KnownNext(k)
    BY <1>1, <1>4 DEF KeysAreKnown, QueueTypes, hostSide
  <2>2. ASSUME NEW l \in CallLanes, NEW i \in 1 .. Len(calls'[l]) PROVE KnownNext(calls'[l][i])
    <3>1. calls'[l][i] = key \/ (calls'[l][i] \in Keys /\ Known(calls'[l][i]))
      <4>1. calls'[l][i] \in Keys
        BY <1>5
      <4> QED BY <1>5, <4>1 DEF KeysAreKnown
    <3> QED BY <1>3, <1>4, <3>1
  <2>3. ASSUME NEW l \in CallLanes, NEW i \in 1 .. Len(invokes[l]) PROVE KnownNext(invokes[l][i].key)
    <3>1. invokes[l][i].key \in Keys
      BY MessageKeys
    <3> QED BY <1>4, <3>1 DEF KeysAreKnown
  <2> QED BY <1>1, <2>1, <2>2, <2>3 DEF KeysAreKnown, Known, KnownNext
<1>8. RegisteredIsTracked'
  <2> SUFFICES ASSUME NEW i \in DOMAIN callbacks'
               PROVE  OnItsWay(calls, i)' \/ Key(page, i, callbacks'[i]) \in stubCache \/ BeingReleased(i)
    BY <1>1 DEF RegisteredIsTracked, hostSide, BeingReleased
  <2>1. CASE i = id
    <3>1. key.page = page' /\ key.id = i /\ callLane \in CallLanes
      BY <1>1, <2>1 DEF key, Key, QueueTypes
    <3> QED BY <1>5, <3>1 DEF OnItsWay
  <2>2. CASE i \in DOMAIN callbacks
    <3>1. OnItsWay(calls, i) => OnItsWay(calls, i)'
      BY <1>1, <1>5 DEF OnItsWay
    <3> QED BY <1>2, <2>2, <3>1 DEF RegisteredIsTracked
  <2> QED BY <1>2, <2>1, <2>2
<1> QED BY <1>6, <1>7, <1>8

(* Nothing is forgotten of a key when ids are only removed.                *)
LEMMA FewerCallbacks ==
  ASSUME page' = page, nextCallback' = nextCallback,
         DOMAIN callbacks' \subseteq DOMAIN callbacks,
         \A i \in DOMAIN callbacks' : callbacks'[i] = callbacks[i],
         NEW key, Known(key)
  PROVE  KnownNext(key)
BY DEF Known, KnownNext, KnownTo

(* A message is handled: the id it releases is not registered any more.    *)
LEMMA HandleMessageKeeps ==
  ASSUME CallbacksInv, NEW lane \in CallLanes, HandleMessage(lane)
  PROVE  CallbacksInv'
<1> USE DEF CallbacksInv
<1> DEFINE m == Head(invokes[lane])
<1>1. /\ invokes[lane] # <<>> /\ invokes' = [invokes EXCEPT ![lane] = Tail(@)]
      /\ UNCHANGED <<page, nextCallback, passed, callLane, hostSide, calls>>
  BY DEF HandleMessage
<1>2. \/ callbacks' = callbacks /\ ~(MeantForPage(m) /\ m.op = "Release")
      \/ callbacks' = [i \in DOMAIN callbacks \ {m.key.id} |-> callbacks[i]]
  BY DEF HandleMessage, Apply, RemoveCallback
<1>3. invokes \in [CallLanes -> Seq(Messages)]
  BY DEF QueueTypes
<1>4. /\ invokes' \in [CallLanes -> Seq(Messages)]
      /\ \A l \in CallLanes : \A i \in 1 .. Len(invokes'[l]) :
           \E j \in 1 .. Len(invokes[l]) : invokes'[l][i] = invokes[l][j]
      /\ \A l \in CallLanes : \A i \in 1 .. Len(invokes[l]) :
           \/ l = lane /\ invokes[l][i] = m
           \/ \E j \in 1 .. Len(invokes'[l]) : invokes'[l][j] = invokes[l][i]
  <2>1. invokes' = TakenFrom(invokes, lane)
    BY <1>1 DEF TakenFrom
  <2>2. invokes[lane] # <<>>
    BY <1>1
  <2>3. FirstLeaves(Messages, invokes, lane, invokes')
    BY <1>3, <2>1, <2>2, Taken
  <2> QED BY <2>3 DEF FirstLeaves
<1> HIDE DEF m
<1>5. /\ DOMAIN callbacks' \subseteq DOMAIN callbacks
      /\ \A i \in DOMAIN callbacks' : callbacks'[i] = callbacks[i]
  BY <1>2
<1>6. \A k \in Keys : Known(k) => KnownNext(k)
  BY <1>1, <1>5, FewerCallbacks
<1>7. QueueTypes'
  <2>1. callbacks' \in [DOMAIN callbacks' -> CallbackFunctions]
    BY <1>2 DEF QueueTypes
  <2> QED BY <1>1, <1>4, <1>5, <2>1 DEF QueueTypes, hostSide
<1>8. KeysAreKnown'
  <2>1. \A k \in stubs \cup stubCache : KnownNext(k)
    BY <1>6 DEF KeysAreKnown, QueueTypes
  <2>2. \A l \in CallLanes : \A i \in 1 .. Len(calls[l]) : KnownNext(calls[l][i])
    BY <1>6, MessageKeys DEF KeysAreKnown
  <2>3. \A l \in CallLanes : \A i \in 1 .. Len(invokes[l]) : KnownNext(invokes[l][i].key)
    BY <1>6, MessageKeys DEF KeysAreKnown
  <2>4. \A l \in CallLanes : \A i \in 1 .. Len(invokes'[l]) : KnownNext(invokes'[l][i].key)
    BY <1>4, <2>3
  <2> QED BY <1>1, <2>1, <2>2, <2>4 DEF KeysAreKnown, Known, KnownNext, hostSide
<1>9. RegisteredIsTracked'
  <2> SUFFICES ASSUME NEW id \in DOMAIN callbacks'
               PROVE  OnItsWay(calls, id) \/ Key(page, id, callbacks[id]) \in stubCache \/ BeingReleased(id)'
    BY <1>1, <1>5 DEF RegisteredIsTracked, hostSide, OnItsWay
  <2>1. BeingReleased(id) => BeingReleased(id)'
    <3> SUFFICES ASSUME BeingReleased(id) PROVE BeingReleased(id)'
      OBVIOUS
    <3>1. PICK l \in CallLanes :
            \E i \in 1 .. Len(invokes[l]) :
              /\ invokes[l][i].op = "Release"
              /\ invokes[l][i].key.page = page /\ invokes[l][i].key.id = id
      BY DEF BeingReleased
    <3>2. PICK i \in 1 .. Len(invokes[l]) :
            /\ invokes[l][i].op = "Release"
            /\ invokes[l][i].key.page = page /\ invokes[l][i].key.id = id
      BY <3>1
    <3>3. invokes[l][i] # m
      BY <1>2, <3>2 DEF MeantForPage
    <3>4. PICK j \in 1 .. Len(invokes'[l]) : invokes'[l][j] = invokes[l][i]
      BY <1>4, <3>3
    <3> QED BY <1>1, <3>2, <3>4 DEF BeingReleased
  <2> QED BY <1>5, <2>1 DEF RegisteredIsTracked
<1> QED BY <1>7, <1>8, <1>9

(* The page is replaced: the keys of the old one are not of the new.       *)
LEMMA ReloadKeeps ==
  ASSUME CallbacksInv, Reload
  PROVE  CallbacksInv'
<1> USE DEF CallbacksInv
<1>1. /\ page' = page + 1 /\ page + 1 <= MaxPage /\ nextCallback' = 0
      /\ DOMAIN callbacks' = {} /\ callbacks' \in [DOMAIN callbacks' -> CallbackFunctions]
      /\ UNCHANGED <<callLane, hostSide, calls, invokes>>
  BY CallbacksAssumption DEF Reload, QueueTypes
<1>2. \A k \in Keys : Known(k) => KnownNext(k)
  BY <1>1, CallbacksAssumption DEF Known, KnownNext, KnownTo, Keys, QueueTypes
<1>3. QueueTypes'
  BY <1>1, CallbacksAssumption DEF QueueTypes, hostSide
<1>4. KeysAreKnown'
  <2>1. \A k \in stubs \cup stubCache : KnownNext(k)
    BY <1>2 DEF KeysAreKnown, QueueTypes
  <2>2. \A l \in CallLanes : \A i \in 1 .. Len(calls[l]) : KnownNext(calls[l][i])
    BY <1>2, MessageKeys DEF KeysAreKnown
  <2>3. \A l \in CallLanes : \A i \in 1 .. Len(invokes[l]) : KnownNext(invokes[l][i].key)
    BY <1>2, MessageKeys DEF KeysAreKnown
  <2> QED BY <1>1, <2>1, <2>2, <2>3 DEF KeysAreKnown, Known, KnownNext, hostSide
<1>5. RegisteredIsTracked'
  BY <1>1 DEF RegisteredIsTracked
<1> QED BY <1>3, <1>4, <1>5

(***************************************************************************)
(* The host's steps, which leave the client's registry alone.              *)
(***************************************************************************)
Registry == <<page, nextCallback, callbacks>>

LEMMA HandleCallWithKeeps ==
  ASSUME CallbacksInv, NEW lane \in CallLanes, HandleCallWith(lane)
  PROVE  CallbacksInv'
<1> USE DEF CallbacksInv
<1> DEFINE key == Head(calls[lane])
<1>1. /\ calls[lane] # <<>> /\ calls' = [calls EXCEPT ![lane] = Tail(@)]
      /\ stubs' = stubs \cup {key} /\ stubCache' = stubCache \cup {key}
      /\ UNCHANGED <<clientSide, cleared, invokeLane, invokes>>
  BY DEF HandleCallWith
<1>2. calls \in [CallLanes -> Seq(Keys)]
  BY DEF QueueTypes
<1>3. /\ calls' \in [CallLanes -> Seq(Keys)]
      /\ key \in Keys /\ key = calls[lane][1] /\ 1 \in 1 .. Len(calls[lane])
      /\ \A l \in CallLanes : \A i \in 1 .. Len(calls'[l]) :
           \E j \in 1 .. Len(calls[l]) : calls'[l][i] = calls[l][j]
      /\ \A l \in CallLanes : \A i \in 1 .. Len(calls[l]) :
           \/ l = lane /\ calls[l][i] = key
           \/ \E j \in 1 .. Len(calls'[l]) : calls'[l][j] = calls[l][i]
  <2>1. calls' = TakenFrom(calls, lane)
    BY <1>1 DEF TakenFrom
  <2>2. calls[lane] # <<>>
    BY <1>1
  <2>3. FirstLeaves(Keys, calls, lane, calls')
    BY <1>2, <2>1, <2>2, Taken
  <2> QED BY <2>3 DEF FirstLeaves
<1>4. Known(key)
  BY <1>3 DEF KeysAreKnown
<1> HIDE DEF key
<1>5. QueueTypes'
  BY <1>1, <1>3 DEF QueueTypes, clientSide
<1>6. KeysAreKnown'
  <2>1. \A l \in CallLanes : \A i \in 1 .. Len(calls'[l]) : Known(calls'[l][i])
    BY <1>3 DEF KeysAreKnown
  <2>2. \A k \in stubs' \cup stubCache' : Known(k)
    BY <1>1, <1>4 DEF KeysAreKnown
  <2>3. UNCHANGED Registry
    BY <1>1 DEF clientSide, Registry
  <2> QED BY <1>1, <2>1, <2>2, <2>3 DEF KeysAreKnown, Known, Registry
<1>7. RegisteredIsTracked'
  <2> SUFFICES ASSUME NEW id \in DOMAIN callbacks
               PROVE  OnItsWay(calls, id)' \/ Key(page, id, callbacks[id]) \in stubCache' \/ BeingReleased(id)
    BY <1>1 DEF RegisteredIsTracked, clientSide, BeingReleased
  <2>1. ASSUME OnItsWay(calls, id)
        PROVE  OnItsWay(calls, id)' \/ Key(page, id, callbacks[id]) \in stubCache'
    <3>1. PICK l \in CallLanes :
            \E i \in 1 .. Len(calls[l]) : calls[l][i].page = page /\ calls[l][i].id = id
      BY <2>1 DEF OnItsWay
    <3>2. PICK i \in 1 .. Len(calls[l]) : calls[l][i].page = page /\ calls[l][i].id = id
      BY <3>1
    <3>3. CASE calls[l][i] = key
      <4>1. key.page = page /\ key.id = id /\ key.function = callbacks[id]
        BY <1>4, <3>2, <3>3 DEF Known, KnownTo
      <4>2. key = Key(page, id, callbacks[id])
        BY <1>3, <4>1 DEF Key, Keys
      <4> QED BY <1>1, <4>2
    <3>4. CASE \E j \in 1 .. Len(calls'[l]) : calls'[l][j] = calls[l][i]
      BY <1>1, <3>2, <3>4 DEF OnItsWay, clientSide
    <3> QED BY <1>3, <3>3, <3>4
  <2> QED BY <1>1, <2>1 DEF RegisteredIsTracked
<1> QED BY <1>5, <1>6, <1>7

(* A message to the client about a key the host has is known, too.         *)
LEMMA PostedToClient ==
  ASSUME CallbacksInv, NEW op \in {"Invoke", "Release"}, NEW key \in stubs \cup stubCache,
         Post(invokes, invokeLane, ToClient(op, key)),
         UNCHANGED <<clientSide, calls, stubs, invokeLane>>, stubCache' \subseteq stubCache,
         \A k \in stubCache : k \in stubCache' \/ (k = key /\ op = "Release")
  PROVE  CallbacksInv'
<1> USE DEF CallbacksInv
<1> DEFINE m == ToClient(op, key)
<1>1. /\ key \in Keys /\ Known(key) /\ invokeLane \in CallLanes
      /\ invokes \in [CallLanes -> Seq(Messages)]
  BY DEF QueueTypes, KeysAreKnown
<1>2. m \in Messages /\ m.key = key /\ m.op = op
  BY <1>1 DEF ToClient, Messages
<1>3. invokes' = [invokes EXCEPT ![invokeLane] = Append(@, m)]
  BY DEF Post
<1> HIDE DEF m
<1>4. /\ invokes' \in [CallLanes -> Seq(Messages)]
      /\ \A l \in CallLanes : \A i \in 1 .. Len(invokes'[l]) :
           invokes'[l][i] = m \/ (i \in 1 .. Len(invokes[l]) /\ invokes'[l][i] = invokes[l][i])
      /\ \A l \in CallLanes : \A i \in 1 .. Len(invokes[l]) :
           i \in 1 .. Len(invokes'[l]) /\ invokes'[l][i] = invokes[l][i]
      /\ \E i \in 1 .. Len(invokes'[invokeLane]) : invokes'[invokeLane][i] = m
  BY <1>1, <1>2, <1>3, Posted
<1>5. QueueTypes'
  BY <1>4 DEF QueueTypes, clientSide
<1>6. KeysAreKnown'
  <2>1. \A l \in CallLanes : \A i \in 1 .. Len(invokes'[l]) : Known(invokes'[l][i].key)
    BY <1>1, <1>2, <1>4 DEF KeysAreKnown
  <2> QED BY <2>1 DEF KeysAreKnown, Known, clientSide
<1>7. RegisteredIsTracked'
  <2> SUFFICES ASSUME NEW id \in DOMAIN callbacks
               PROVE  \/ OnItsWay(calls, id) \/ Key(page, id, callbacks[id]) \in stubCache'
                      \/ BeingReleased(id)'
    BY DEF RegisteredIsTracked, clientSide, OnItsWay
  <2>1. BeingReleased(id) => BeingReleased(id)'
    BY <1>4 DEF BeingReleased, clientSide
  <2>2. ASSUME op = "Release", Key(page, id, callbacks[id]) = key PROVE BeingReleased(id)'
    <3>1. m.op = "Release" /\ m.key.page = page' /\ m.key.id = id
      BY <1>2, <2>2 DEF Key, clientSide
    <3> QED BY <1>1, <1>4, <3>1 DEF BeingReleased
  <2> QED BY <2>1, <2>2 DEF RegisteredIsTracked
<1> QED BY <1>5, <1>6, <1>7

(* The client, the messages and the cache stand still.                     *)
LEMMA OthersKeep ==
  ASSUME CallbacksInv, UNCHANGED <<Registry, calls, invokes, stubCache>>, stubs' \subseteq stubs,
         callLane' \in CallLanes, invokeLane' \in CallLanes
  PROVE  CallbacksInv'
<1> USE DEF CallbacksInv, Registry
<1>1. QueueTypes'
  BY DEF QueueTypes
<1>2. KeysAreKnown'
  BY DEF KeysAreKnown, Known
<1>3. RegisteredIsTracked'
  BY DEF RegisteredIsTracked, OnItsWay, BeingReleased
<1> QED BY <1>1, <1>2, <1>3

LEMMA RunStubFinalizerKeeps ==
  ASSUME CallbacksInv, NEW key \in Keys, RunStubFinalizer(key)
  PROVE  CallbacksInv'
<1>1. UNCHANGED <<clientSide, stubs, invokeLane, calls>>
  BY DEF RunStubFinalizer
<1>2. CASE key \in stubCache \ stubs
  <2>1. Post(invokes, invokeLane, ToClient("Release", key)) /\ stubCache' = stubCache \ {key}
    BY <1>2 DEF RunStubFinalizer, ReleaseStub
  <2> QED BY <1>1, <1>2, <2>1, PostedToClient
<1>3. CASE key \notin stubCache \ stubs
  <2>1. UNCHANGED <<stubCache, invokes>>
    BY <1>3 DEF RunStubFinalizer, ReleaseStub
  <2> QED BY <1>1, <2>1, OthersKeep DEF clientSide, Registry, CallbacksInv, QueueTypes
<1> QED BY <1>2, <1>3

LEMMA CallbacksStep ==
  ASSUME CallbacksInv, [CallbacksNext]_callbackVars
  PROVE  CallbacksInv'
<1> USE DEF clientSide, hostSide, Registry
<1>1. ASSUME NEW f \in CallbackFunctions, CallWith(f) PROVE CallbacksInv'
  BY <1>1, CallWithKeeps
<1>2. ASSUME NEW lane \in CallLanes, HandleMessage(lane) \/ HandleCallWith(lane) PROVE CallbacksInv'
  BY <1>2, HandleMessageKeeps, HandleCallWithKeeps
<1>3. CASE Reload
  BY <1>3, ReloadKeeps
<1>4. CASE ConnectToHost \/ ConnectToClient \/ UNCHANGED callbackVars
  BY <1>4, OthersKeep DEF ConnectToHost, ConnectToClient, callbackVars, CallbacksInv, QueueTypes, CallLanes
<1>5. ASSUME NEW key \in stubs, Invoke(key) PROVE CallbacksInv'
  BY <1>5, PostedToClient DEF Invoke
<1>6. ASSUME NEW key \in stubs, CollectStub(key) PROVE CallbacksInv'
  BY <1>6, OthersKeep DEF CollectStub, CallbacksInv, QueueTypes
<1>7. ASSUME NEW key \in Keys, RunStubFinalizer(key) PROVE CallbacksInv'
  BY <1>7, RunStubFinalizerKeeps
<1> QED BY <1>1, <1>2, <1>3, <1>4, <1>5, <1>6, <1>7 DEF CallbacksNext

LEMMA CallbacksInvariant == CallbacksSpec => []CallbacksInv
  BY CallbacksInitInv, CallbacksStep, PTL DEF CallbacksSpec

(***************************************************************************)
(* The theorems.                                                           *)
(***************************************************************************)

(* However messages are delayed, re-sent or reordered, across reloads too, *)
(* none reaches another function than the one its stub stands for.         *)
THEOREM MessagesReachTheirFunction == CallbacksSpec => []NeverAnotherFunction
<1>1. CallbacksInv => NeverAnotherFunction
  <2> SUFFICES ASSUME CallbacksInv, NEW lane \in CallLanes, invokes[lane] # <<>>
               PROVE  LET m == Head(invokes[lane]) IN
                      MeantForPage(m) /\ m.key.id \in DOMAIN callbacks =>
                        m.key.page = page /\ callbacks[m.key.id] = m.key.function
    BY DEF NeverAnotherFunction
  <2>1. /\ 1 \in 1 .. Len(invokes[lane]) /\ Head(invokes[lane]) = invokes[lane][1]
    <3>1. invokes[lane] \in Seq(Messages)
      BY DEF CallbacksInv, QueueTypes
    <3> QED BY <3>1, HeadTailProperties
  <2>2. Known(Head(invokes[lane]).key)
    BY <2>1 DEF CallbacksInv, KeysAreKnown
  <2> QED BY <2>2 DEF Known, KnownTo, MeantForPage
<1> QED BY <1>1, CallbacksInvariant, PTL

(* A registered callback is not forgotten by the host: its id is on its    *)
(* way there, in the host's cache, or on its way back.                     *)
THEOREM NoCallbackIsForgotten == CallbacksSpec => []RegisteredIsTracked
<1>1. CallbacksInv => RegisteredIsTracked
  BY DEF CallbacksInv
<1> QED BY <1>1, CallbacksInvariant, PTL

(***************************************************************************)
(* One lane, and no function passed twice: a stub finds its function.      *)
(***************************************************************************)
Incoming == calls["browser"]
Outgoing == invokes["browser"]

OneLane ==
  /\ callLane = "browser" /\ invokeLane = "browser"
  /\ calls["direct"] = <<>> /\ invokes["direct"] = <<>>

(* The host has a stub for the key, or is going to make one.               *)
HasKey(key) == key \in stubCache \/ \E i \in 1 .. Len(Incoming) : Incoming[i] = key

IsInvokeOf(m, id) == m.op = "Invoke" /\ m.key.page = page /\ m.key.id = id
IsReleaseOf(m, id) == m.op = "Release" /\ m.key.page = page /\ m.key.id = id

HeldIsRegistered == \A key \in Keys : HasKey(key) /\ key.page = page => key.id \in DOMAIN callbacks

(* The id of a call on its way is that of no other call, and of no stub.   *)
PassedOnce ==
  \A i \in 1 .. Len(Incoming) : Incoming[i].page = page =>
    /\ \A key \in stubCache : key.page = page => key.id # Incoming[i].id
    /\ \A j \in 1 .. Len(Incoming) : Incoming[j].page = page /\ j # i => Incoming[j].id # Incoming[i].id

(* When an id is released, the host is done with it.                       *)
ReleaseIsLast ==
  \A i \in 1 .. Len(Outgoing), id \in 1 .. MaxCallbackId : IsReleaseOf(Outgoing[i], id) =>
    /\ \A key \in Keys : HasKey(key) /\ key.page = page => key.id # id
    /\ \A j \in 1 .. Len(Outgoing) : IsInvokeOf(Outgoing[j], id) => j < i

InvokesFind ==
  \A i \in 1 .. Len(Outgoing), id \in 1 .. MaxCallbackId :
    IsInvokeOf(Outgoing[i], id) => id \in DOMAIN callbacks

StubsInv ==
  /\ OneLane
  /\ \A id \in DOMAIN callbacks : callbacks[id] \in passed
  /\ stubs \subseteq stubCache
  /\ HeldIsRegistered /\ PassedOnce /\ ReleaseIsLast /\ InvokesFind

LEMMA StubsInitInv == CallbacksInit => StubsInv
<1> SUFFICES ASSUME CallbacksInit PROVE StubsInv
  OBVIOUS
<1>1. /\ calls["browser"] = <<>> /\ calls["direct"] = <<>>
      /\ invokes["browser"] = <<>> /\ invokes["direct"] = <<>>
      /\ DOMAIN callbacks = {} /\ stubs = {} /\ stubCache = {}
  BY DEF CallbacksInit, CallLanes
<1>2. OneLane
  BY <1>1 DEF OneLane, CallbacksInit
<1> QED
  BY <1>1, <1>2 DEF StubsInv, HeldIsRegistered, PassedOnce, ReleaseIsLast, InvokesFind,
     Incoming, Outgoing, HasKey

(* What a queue is when a message is posted, or taken from it.             *)
LEMMA LaneAppended ==
  ASSUME NEW S, NEW network \in [CallLanes -> Seq(S)], NEW lane \in CallLanes, NEW m \in S
  PROVE  LET after == [network EXCEPT ![lane] = Append(@, m)] IN
         /\ Len(network[lane]) \in Nat /\ Len(after[lane]) = Len(network[lane]) + 1
         /\ \A i \in 1 .. Len(network[lane]) : after[lane][i] = network[lane][i]
         /\ after[lane][Len(network[lane]) + 1] = m
         /\ \A l \in CallLanes : l # lane => after[l] = network[l]
<1> QED BY AppendProperties

LEMMA LaneTaken ==
  ASSUME NEW S, NEW network \in [CallLanes -> Seq(S)], NEW lane \in CallLanes, network[lane] # <<>>
  PROVE  LET after == [network EXCEPT ![lane] = Tail(@)] IN
         /\ Len(network[lane]) \in Nat \ {0} /\ Len(after[lane]) = Len(network[lane]) - 1
         /\ \A i \in 1 .. Len(after[lane]) : after[lane][i] = network[lane][i + 1]
         /\ Head(network[lane]) = network[lane][1] /\ network[lane][1] \in S
         /\ \A l \in CallLanes : l # lane => after[l] = network[l]
<1>1. network[lane] \in Seq(S)
  OBVIOUS
<1>2. /\ Tail(network[lane]) \in Seq(S) /\ Len(Tail(network[lane])) = Len(network[lane]) - 1
      /\ Len(network[lane]) \in Nat \ {0}
      /\ \A i \in 1 .. Len(Tail(network[lane])) : Tail(network[lane])[i] = network[lane][i + 1]
      /\ Head(network[lane]) = network[lane][1] /\ Head(network[lane]) \in S
  BY <1>1, HeadTailProperties
<1> QED BY <1>2

(* A page passes a function it has not passed: its id is a new one.        *)
LEMMA CallWithKeepsStubs ==
  ASSUME Uses = {}, CallbacksInv, StubsInv, NEW f \in CallbackFunctions, CallWith(f)
  PROVE  StubsInv'
<1> USE DEF CallbacksInv
<1> DEFINE id == nextCallback + 1
           key == Key(page, id, f)
<1>1. f \notin passed /\ AddCallback(f) /\ passed' = passed \cup {f}
      /\ UNCHANGED <<page, callLane, hostSide, invokes>>
  BY DEF CallWith
<1>2. ~Added(f) /\ CallbackIdFor(f) = id
  BY <1>1 DEF Added, StubsInv, CallbackIdFor
<1>3. /\ callbacks' = [i \in DOMAIN callbacks \cup {id} |-> IF i = id THEN f ELSE callbacks[i]]
      /\ id \in 1 .. MaxCallbackId
  BY <1>1, <1>2, AddedFunction DEF AddCallback
<1>4. key \in Keys /\ key.page = page /\ key.id = id
  BY <1>3 DEF Key, Keys, QueueTypes
<1>5. calls' = [calls EXCEPT !["browser"] = Append(@, key)]
  BY <1>2 DEF CallWith, Post, StubsInv, OneLane
<1>6. /\ Len(Incoming) \in Nat /\ Len(Incoming') = Len(Incoming) + 1
      /\ \A i \in 1 .. Len(Incoming) : Incoming'[i] = Incoming[i]
      /\ Incoming'[Len(Incoming) + 1] = key
      /\ calls'["direct"] = calls["direct"]
  <2>1. calls \in [CallLanes -> Seq(Keys)] /\ "browser" \in CallLanes /\ "direct" \in CallLanes
    BY DEF QueueTypes, CallLanes
  <2> HIDE DEF key
  <2> QED BY <1>4, <1>5, <2>1, LaneAppended DEF Incoming
<1>7. \A k \in Keys : KnownTo(page, nextCallback, callbacks, k) /\ k.page = page => k.id < id
  BY DEF KnownTo, Keys, QueueTypes
<1>8. /\ \A k \in stubCache : k \in Keys /\ (k.page = page => k.id < id)
      /\ \A i \in 1 .. Len(Incoming) :
           Incoming[i] \in Keys /\ (Incoming[i].page = page => Incoming[i].id < id)
      /\ \A i \in 1 .. Len(Outgoing) :
           Outgoing[i].key \in Keys /\ (Outgoing[i].key.page = page => Outgoing[i].key.id < id)
  BY <1>7, MessageKeys DEF KeysAreKnown, Known, Incoming, Outgoing, CallLanes, QueueTypes
<1>9. id \in Nat /\ \A k \in Keys : k.id \in Nat
  BY <1>3, CallbacksAssumption DEF Keys
<1> HIDE DEF id, key
<1>10. OneLane'
  BY <1>1, <1>6 DEF StubsInv, OneLane, hostSide
<1>11. (\A i \in DOMAIN callbacks : callbacks[i] \in passed)' /\ (stubs \subseteq stubCache)'
  BY <1>1, <1>3 DEF StubsInv, hostSide
<1>12. \A k \in Keys : HasKey(k)' => HasKey(k) \/ k = key
  <2> SUFFICES ASSUME NEW k \in Keys, NEW i \in 1 .. Len(Incoming'), Incoming'[i] = k
               PROVE  HasKey(k) \/ k = key
    BY <1>1 DEF HasKey, hostSide
  <2>1. i \in 1 .. Len(Incoming) \/ i = Len(Incoming) + 1
    BY <1>6
  <2> QED BY <1>6, <2>1 DEF HasKey
<1>13. HeldIsRegistered'
  BY <1>1, <1>3, <1>4, <1>12 DEF StubsInv, HeldIsRegistered
<1>14. PassedOnce'
  <2>1. \A i \in 1 .. Len(Incoming') : i \in 1 .. Len(Incoming) \/ i = Len(Incoming) + 1
    BY <1>6
  <2> SUFFICES ASSUME NEW i \in 1 .. Len(Incoming'), Incoming'[i].page = page
               PROVE  /\ \A k \in stubCache : k.page = page => k.id # Incoming'[i].id
                      /\ \A j \in 1 .. Len(Incoming') :
                           Incoming'[j].page = page /\ j # i => Incoming'[j].id # Incoming'[i].id
    BY <1>1 DEF PassedOnce, hostSide
  <2>2. CASE i \in 1 .. Len(Incoming)
    <3>1. Incoming'[i].id # id
      BY <1>6, <1>8, <1>9, <2>2
    <3> QED BY <1>4, <1>6, <2>1, <2>2, <3>1 DEF StubsInv, PassedOnce
  <2>3. CASE i = Len(Incoming) + 1
    <3>1. Incoming'[i].id = id
      BY <1>4, <1>6, <2>3
    <3> QED BY <1>6, <1>8, <1>9, <2>1, <2>3, <3>1
  <2> QED BY <2>1, <2>2, <2>3
<1>15. ReleaseIsLast'
  <2> SUFFICES ASSUME NEW i \in 1 .. Len(Outgoing), NEW d \in 1 .. MaxCallbackId,
                      IsReleaseOf(Outgoing[i], d)
               PROVE  /\ \A k \in Keys : HasKey(k)' /\ k.page = page => k.id # d
                      /\ \A j \in 1 .. Len(Outgoing) : IsInvokeOf(Outgoing[j], d) => j < i
    BY <1>1 DEF ReleaseIsLast, IsReleaseOf, IsInvokeOf, Outgoing
  <2>1. d # id
    BY <1>8, <1>9 DEF IsReleaseOf
  <2> QED BY <1>4, <1>12, <2>1 DEF StubsInv, ReleaseIsLast
<1>16. InvokesFind'
  BY <1>1, <1>3 DEF StubsInv, InvokesFind, IsInvokeOf, Outgoing
<1> QED BY <1>10, <1>11, <1>13, <1>14, <1>15, <1>16 DEF StubsInv

(* The client takes a message: a Release finds the host done with its id.  *)
LEMMA HandleMessageKeepsStubs ==
  ASSUME CallbacksInv, StubsInv, NEW lane \in CallLanes, HandleMessage(lane)
  PROVE  StubsInv'
<1> USE DEF CallbacksInv
<1>1. lane = "browser"
  BY DEF StubsInv, OneLane, HandleMessage, CallLanes
<1>2. /\ Outgoing # <<>> /\ invokes' = [invokes EXCEPT !["browser"] = Tail(@)]
      /\ UNCHANGED <<page, nextCallback, passed, callLane, hostSide, calls>>
  BY <1>1 DEF HandleMessage, Outgoing
<1>3. /\ Len(Outgoing) \in Nat \ {0} /\ Len(Outgoing') = Len(Outgoing) - 1
      /\ \A i \in 1 .. Len(Outgoing') : Outgoing'[i] = Outgoing[i + 1]
      /\ Head(Outgoing) = Outgoing[1] /\ Outgoing[1] \in Messages
      /\ invokes'["direct"] = invokes["direct"]
  <2>1. invokes \in [CallLanes -> Seq(Messages)] /\ "browser" \in CallLanes /\ "direct" \in CallLanes
    BY DEF QueueTypes, CallLanes
  <2> QED BY <1>2, <2>1, LaneTaken DEF Outgoing
<1>4. \/ callbacks' = callbacks
      \/ /\ IsReleaseOf(Outgoing[1], Outgoing[1].key.id)
         /\ callbacks' = [i \in DOMAIN callbacks \ {Outgoing[1].key.id} |-> callbacks[i]]
  BY <1>1, <1>3 DEF HandleMessage, Apply, RemoveCallback, MeantForPage, IsReleaseOf, Outgoing
<1>5. Outgoing[1].key.id \in 1 .. MaxCallbackId
  BY <1>3 DEF Messages, Keys
<1>6. 1 \in 1 .. Len(Outgoing)
  BY <1>3
<1>7. \A i \in 1 .. Len(Outgoing') : i + 1 \in 1 .. Len(Outgoing) /\ i + 1 > 1
  BY <1>3
<1>8. \A k : HasKey(k)' <=> HasKey(k)
  BY <1>2 DEF HasKey, Incoming, hostSide
<1>9. /\ OneLane' /\ (stubs \subseteq stubCache)' /\ PassedOnce'
      /\ (\A i \in DOMAIN callbacks : callbacks[i] \in passed)'
  BY <1>2, <1>3, <1>4 DEF StubsInv, OneLane, PassedOnce, Incoming, hostSide
<1>10. \A id \in DOMAIN callbacks :
         id \in DOMAIN callbacks' \/ (id = Outgoing[1].key.id /\ IsReleaseOf(Outgoing[1], id))
  BY <1>4
<1>11. HeldIsRegistered'
  <2> SUFFICES ASSUME NEW k \in Keys, HasKey(k), k.page = page PROVE k.id \in DOMAIN callbacks'
    BY <1>2, <1>8 DEF HeldIsRegistered
  <2>1. k.id \in DOMAIN callbacks
    BY DEF StubsInv, HeldIsRegistered
  <2>2. ~IsReleaseOf(Outgoing[1], k.id)
    BY <1>6 DEF StubsInv, ReleaseIsLast, Keys
  <2> QED BY <1>10, <2>1, <2>2
<1>12. \A m, d : (IsReleaseOf(m, d)' <=> IsReleaseOf(m, d)) /\ (IsInvokeOf(m, d)' <=> IsInvokeOf(m, d))
  BY <1>2 DEF IsReleaseOf, IsInvokeOf
<1>13. ReleaseIsLast'
  <2> SUFFICES ASSUME NEW i \in 1 .. Len(Outgoing'), NEW d \in 1 .. MaxCallbackId,
                      IsReleaseOf(Outgoing'[i], d)
               PROVE  /\ \A k \in Keys : HasKey(k) /\ k.page = page => k.id # d
                      /\ \A j \in 1 .. Len(Outgoing') : IsInvokeOf(Outgoing'[j], d) => j < i
    BY <1>2, <1>8 DEF ReleaseIsLast, IsReleaseOf, IsInvokeOf
  <2>1. i + 1 \in 1 .. Len(Outgoing) /\ IsReleaseOf(Outgoing[i + 1], d)
    BY <1>3, <1>7
  <2>2. ASSUME NEW j \in 1 .. Len(Outgoing'), IsInvokeOf(Outgoing'[j], d) PROVE j < i
    <3>1. j + 1 \in 1 .. Len(Outgoing) /\ IsInvokeOf(Outgoing[j + 1], d)
      BY <1>3, <1>7, <2>2
    <3>2. j + 1 < i + 1
      BY <2>1, <3>1 DEF StubsInv, ReleaseIsLast
    <3> QED BY <3>2
  <2> QED BY <2>1, <2>2 DEF StubsInv, ReleaseIsLast
<1>14. InvokesFind'
  <2> SUFFICES ASSUME NEW i \in 1 .. Len(Outgoing'), NEW d \in 1 .. MaxCallbackId,
                      IsInvokeOf(Outgoing'[i], d)
               PROVE  d \in DOMAIN callbacks'
    BY <1>2 DEF InvokesFind, IsInvokeOf
  <2>1. i + 1 \in 1 .. Len(Outgoing) /\ i + 1 > 1 /\ IsInvokeOf(Outgoing[i + 1], d)
    BY <1>3, <1>7
  <2>2. d \in DOMAIN callbacks
    BY <2>1 DEF StubsInv, InvokesFind
  <2>3. ~IsReleaseOf(Outgoing[1], d)
    <3>1. IsReleaseOf(Outgoing[1], d) => i + 1 < 1
      BY <1>6, <2>1 DEF StubsInv, ReleaseIsLast
    <3> QED BY <2>1, <3>1
  <2> QED BY <1>10, <2>2, <2>3
<1> QED BY <1>9, <1>11, <1>13, <1>14 DEF StubsInv

(* A new page has none of the keys there are.                              *)
LEMMA ReloadKeepsStubs ==
  ASSUME CallbacksInv, StubsInv, Reload
  PROVE  StubsInv'
<1> USE DEF CallbacksInv
<1>1. /\ page' = page + 1 /\ DOMAIN callbacks' = {}
      /\ UNCHANGED <<callLane, hostSide, calls, invokes>>
  BY DEF Reload
<1>2. page \in Nat /\ \A k \in Keys : KnownTo(page, nextCallback, callbacks, k) => k.page # page + 1
  BY CallbacksAssumption DEF KnownTo, Keys, QueueTypes
<1>3. /\ \A k \in stubCache : k \in Keys /\ k.page # page'
      /\ \A i \in 1 .. Len(Incoming) : Incoming[i].page # page'
      /\ \A i \in 1 .. Len(Outgoing) : Outgoing[i].key.page # page'
  BY <1>1, <1>2, MessageKeys DEF KeysAreKnown, Known, Incoming, Outgoing, CallLanes, QueueTypes
<1>4. stubCache' = stubCache /\ stubs' = stubs /\ Incoming' = Incoming /\ Outgoing' = Outgoing
  BY <1>1 DEF hostSide, Incoming, Outgoing
<1>5. OneLane' /\ (stubs \subseteq stubCache)' /\ (\A i \in DOMAIN callbacks : callbacks[i] \in passed)'
  BY <1>1, <1>4 DEF StubsInv, OneLane, hostSide
<1>6. HeldIsRegistered'
  BY <1>3, <1>4 DEF HeldIsRegistered, HasKey
<1>7. PassedOnce' /\ ReleaseIsLast' /\ InvokesFind'
  BY <1>3, <1>4 DEF PassedOnce, ReleaseIsLast, InvokesFind, IsReleaseOf, IsInvokeOf
<1> QED BY <1>5, <1>6, <1>7 DEF StubsInv

(* The first call of the lane gets its stub.                               *)
LEMMA HandleCallWithKeepsStubs ==
  ASSUME CallbacksInv, StubsInv, NEW lane \in CallLanes, HandleCallWith(lane)
  PROVE  StubsInv'
<1> USE DEF CallbacksInv
<1> DEFINE key == Incoming[1]
<1>1. lane = "browser"
  BY DEF StubsInv, OneLane, HandleCallWith, CallLanes
<1>2. /\ Incoming # <<>> /\ calls' = [calls EXCEPT !["browser"] = Tail(@)]
      /\ stubs' = stubs \cup {Head(Incoming)} /\ stubCache' = stubCache \cup {Head(Incoming)}
      /\ UNCHANGED <<clientSide, cleared, invokeLane, invokes>>
  BY <1>1 DEF HandleCallWith, Incoming
<1>3. /\ Len(Incoming) \in Nat \ {0} /\ Len(Incoming') = Len(Incoming) - 1
      /\ \A i \in 1 .. Len(Incoming') : Incoming'[i] = Incoming[i + 1]
      /\ Head(Incoming) = key /\ key \in Keys
      /\ calls'["direct"] = calls["direct"]
  <2>1. calls \in [CallLanes -> Seq(Keys)] /\ "browser" \in CallLanes /\ "direct" \in CallLanes
    BY DEF QueueTypes, CallLanes
  <2> QED BY <1>2, <2>1, LaneTaken DEF Incoming
<1>4. 1 \in 1 .. Len(Incoming)
  BY <1>3
<1>5. \A i \in 1 .. Len(Incoming') : i + 1 \in 1 .. Len(Incoming) /\ i + 1 # 1
  BY <1>3
<1>6. \A i, j \in 1 .. Len(Incoming') : i # j => i + 1 # j + 1
  OBVIOUS
<1>7. page' = page /\ callbacks' = callbacks /\ passed' = passed /\ Outgoing' = Outgoing
  BY <1>2 DEF clientSide, Outgoing
<1>8. stubCache' = stubCache \cup {key}
  BY <1>2, <1>3
<1>9. HasKey(key)
  BY <1>4 DEF HasKey
<1>10. \A k \in Keys : HasKey(k)' => HasKey(k)
  <2> SUFFICES ASSUME NEW k \in Keys, HasKey(k)' PROVE HasKey(k)
    OBVIOUS
  <2>1. CASE k \in stubCache'
    BY <1>8, <1>9, <2>1 DEF HasKey
  <2>2. CASE \E i \in 1 .. Len(Incoming') : Incoming'[i] = k
    BY <1>3, <1>5, <2>2 DEF HasKey
  <2> QED BY <2>1, <2>2 DEF HasKey
<1>11. OneLane' /\ (stubs \subseteq stubCache)' /\ (\A i \in DOMAIN callbacks : callbacks[i] \in passed)'
  BY <1>2, <1>3, <1>7 DEF StubsInv, OneLane, clientSide
<1>12. HeldIsRegistered' /\ InvokesFind'
  BY <1>7, <1>10 DEF StubsInv, HeldIsRegistered, InvokesFind, IsInvokeOf
<1>13. ReleaseIsLast'
  BY <1>7, <1>10 DEF StubsInv, ReleaseIsLast, IsInvokeOf, IsReleaseOf
<1>14. PassedOnce'
  <2> SUFFICES ASSUME NEW i \in 1 .. Len(Incoming'), Incoming'[i].page = page
               PROVE  /\ \A k \in stubCache' : k.page = page => k.id # Incoming'[i].id
                      /\ \A j \in 1 .. Len(Incoming') :
                           Incoming'[j].page = page /\ j # i => Incoming'[j].id # Incoming'[i].id
    BY <1>7 DEF PassedOnce
  <2>1. Incoming'[i] = Incoming[i + 1] /\ i + 1 \in 1 .. Len(Incoming) /\ i + 1 # 1
    BY <1>3, <1>5
  <2>2. /\ \A k \in stubCache : k.page = page => k.id # Incoming[i + 1].id
        /\ \A j \in 1 .. Len(Incoming) :
             Incoming[j].page = page /\ j # i + 1 => Incoming[j].id # Incoming[i + 1].id
    BY <2>1 DEF StubsInv, PassedOnce
  <2>3. \A k \in stubCache' : k.page = page => k.id # Incoming'[i].id
    <3>1. key.page = page => key.id # Incoming[i + 1].id
      BY <1>4, <2>1, <2>2
    <3> HIDE DEF key
    <3> QED BY <1>8, <2>1, <2>2, <3>1
  <2>4. ASSUME NEW j \in 1 .. Len(Incoming'), Incoming'[j].page = page, j # i
        PROVE  Incoming'[j].id # Incoming'[i].id
    <3>1. Incoming'[j] = Incoming[j + 1] /\ j + 1 \in 1 .. Len(Incoming) /\ j + 1 # i + 1
      BY <1>3, <1>5, <1>6, <2>4
    <3> QED BY <2>1, <2>2, <2>4, <3>1
  <2> QED BY <2>3, <2>4
<1> QED BY <1>11, <1>12, <1>13, <1>14 DEF StubsInv

(* The host posts a message of a key it has a stub for, or had until now.  *)
LEMMA PostedKeepsStubs ==
  ASSUME CallbacksInv, StubsInv, NEW op \in {"Invoke", "Release"}, NEW key \in stubCache,
         Post(invokes, invokeLane, ToClient(op, key)),
         UNCHANGED <<clientSide, calls, stubs, invokeLane>>,
         op = "Invoke" => stubCache' = stubCache,
         op = "Release" => stubCache' = stubCache \ {key} /\ key \notin stubs
  PROVE  StubsInv'
<1> USE DEF CallbacksInv
<1> DEFINE m == ToClient(op, key)
<1>1. m \in Messages /\ m.op = op /\ m.key = key /\ key \in Keys
  BY DEF ToClient, Messages, QueueTypes
<1>2. invokes' = [invokes EXCEPT !["browser"] = Append(@, m)]
  BY DEF Post, StubsInv, OneLane
<1> HIDE DEF m
<1>3. /\ Len(Outgoing) \in Nat /\ Len(Outgoing') = Len(Outgoing) + 1
      /\ \A i \in 1 .. Len(Outgoing) : Outgoing'[i] = Outgoing[i]
      /\ Outgoing'[Len(Outgoing) + 1] = m
      /\ invokes'["direct"] = invokes["direct"]
  <2>1. invokes \in [CallLanes -> Seq(Messages)] /\ "browser" \in CallLanes /\ "direct" \in CallLanes
    BY DEF QueueTypes, CallLanes
  <2> QED BY <1>1, <1>2, <2>1, LaneAppended DEF Outgoing
<1>4. \A i \in 1 .. Len(Outgoing') : i \in 1 .. Len(Outgoing) \/ i = Len(Outgoing) + 1
  BY <1>3
<1>5. page' = page /\ callbacks' = callbacks /\ passed' = passed /\ Incoming' = Incoming /\ stubs' = stubs
  BY DEF clientSide, Incoming
<1>6. stubCache' \subseteq stubCache /\ stubs' \subseteq stubCache'
  BY <1>5 DEF StubsInv
<1>7. \A k \in Keys : HasKey(k)' => HasKey(k)
  BY <1>5, <1>6 DEF HasKey
<1>8. HasKey(key)
  BY DEF HasKey
<1>9. OneLane' /\ (stubs \subseteq stubCache)' /\ (\A i \in DOMAIN callbacks : callbacks[i] \in passed)'
  BY <1>3, <1>5, <1>6 DEF StubsInv, OneLane, clientSide
<1>10. HeldIsRegistered' /\ PassedOnce'
  BY <1>5, <1>6, <1>7 DEF StubsInv, HeldIsRegistered, PassedOnce
<1>11. InvokesFind'
  <2> SUFFICES ASSUME NEW i \in 1 .. Len(Outgoing'), NEW d \in 1 .. MaxCallbackId,
                      IsInvokeOf(Outgoing'[i], d)
               PROVE  d \in DOMAIN callbacks
    BY <1>5 DEF InvokesFind, IsInvokeOf
  <2>1. CASE i \in 1 .. Len(Outgoing)
    BY <1>3, <2>1 DEF StubsInv, InvokesFind
  <2>2. CASE i = Len(Outgoing) + 1
    BY <1>1, <1>3, <1>8, <2>2 DEF StubsInv, HeldIsRegistered, IsInvokeOf
  <2> QED BY <1>4, <2>1, <2>2
<1>12. ASSUME op = "Release", key.page = page, NEW k \in Keys, HasKey(k)', k.page = page
       PROVE  k.id # key.id
  <2>1. ASSUME k \in stubCache', k.id = key.id PROVE FALSE
    <3>1. k \in stubCache /\ k # key
      BY <1>12, <2>1
    <3>2. key.id \in DOMAIN callbacks
      BY <1>1, <1>8, <1>12 DEF StubsInv, HeldIsRegistered
    <3>3. k.function = key.function
      BY <1>12, <2>1, <3>1, <3>2 DEF KeysAreKnown, Known, KnownTo
    <3> QED BY <1>1, <1>12, <2>1, <3>1, <3>3 DEF Keys
  <2>2. ASSUME NEW i \in 1 .. Len(Incoming), Incoming[i] = k PROVE k.id # key.id
    BY <1>12, <2>2 DEF StubsInv, PassedOnce
  <2> QED BY <1>5, <1>12, <2>1, <2>2 DEF HasKey
<1>13. ReleaseIsLast'
  <2> SUFFICES ASSUME NEW i \in 1 .. Len(Outgoing'), NEW d \in 1 .. MaxCallbackId,
                      IsReleaseOf(Outgoing'[i], d)
               PROVE  /\ \A k \in Keys : HasKey(k)' /\ k.page = page => k.id # d
                      /\ \A j \in 1 .. Len(Outgoing') : IsInvokeOf(Outgoing'[j], d) => j < i
    BY <1>5 DEF ReleaseIsLast, IsReleaseOf, IsInvokeOf
  <2>1. CASE i \in 1 .. Len(Outgoing)
    <3>1. IsReleaseOf(Outgoing[i], d)
      BY <1>3, <2>1
    <3>2. /\ \A k \in Keys : HasKey(k) /\ k.page = page => k.id # d
          /\ \A j \in 1 .. Len(Outgoing) : IsInvokeOf(Outgoing[j], d) => j < i
      BY <2>1, <3>1 DEF StubsInv, ReleaseIsLast
    <3>3. ~IsInvokeOf(Outgoing'[Len(Outgoing) + 1], d)
      BY <1>1, <1>3, <1>8, <3>2 DEF IsInvokeOf
    <3> QED BY <1>3, <1>4, <1>7, <3>2, <3>3
  <2>2. CASE i = Len(Outgoing) + 1
    <3>1. op = "Release" /\ key.page = page /\ key.id = d
      BY <1>1, <1>3, <2>2 DEF IsReleaseOf
    <3>2. ~IsInvokeOf(Outgoing'[i], d)
      BY <1>1, <1>3, <2>2, <3>1 DEF IsInvokeOf
    <3>3. \A j \in 1 .. Len(Outgoing') : j = i \/ j < i
      BY <1>3, <2>2
    <3> QED BY <1>12, <3>1, <3>2, <3>3
  <2> QED BY <1>4, <2>1, <2>2
<1> QED BY <1>9, <1>10, <1>11, <1>13 DEF StubsInv

LEMMA OthersKeepStubs ==
  ASSUME StubsInv, UNCHANGED <<clientSide, calls, invokes, stubCache, invokeLane>>, stubs' \subseteq stubs
  PROVE  StubsInv'
<1>1. /\ OneLane' /\ (stubs \subseteq stubCache)'
      /\ (\A i \in DOMAIN callbacks : callbacks[i] \in passed)'
  BY DEF StubsInv, OneLane, clientSide
<1>2. HeldIsRegistered' /\ PassedOnce' /\ ReleaseIsLast' /\ InvokesFind'
  BY DEF StubsInv, HeldIsRegistered, PassedOnce, ReleaseIsLast, InvokesFind, IsInvokeOf, IsReleaseOf,
     HasKey, Incoming, Outgoing, clientSide
<1> QED BY <1>1, <1>2 DEF StubsInv

LEMMA StubsStep ==
  ASSUME Uses = {}, CallbacksInv, StubsInv, [CallbacksNext]_callbackVars
  PROVE  StubsInv'
<1>1. ASSUME NEW f \in CallbackFunctions, CallWith(f) PROVE StubsInv'
  BY <1>1, CallWithKeepsStubs
<1>2. ASSUME NEW lane \in CallLanes, HandleMessage(lane) \/ HandleCallWith(lane) PROVE StubsInv'
  BY <1>2, HandleMessageKeepsStubs, HandleCallWithKeepsStubs
<1>3. CASE Reload
  BY <1>3, ReloadKeepsStubs
<1>4. CASE ConnectToHost \/ ConnectToClient
  BY <1>4 DEF ConnectToHost, ConnectToClient
<1>5. CASE UNCHANGED callbackVars
  BY <1>5, OthersKeepStubs DEF callbackVars, hostSide
<1>6. ASSUME NEW key \in stubs, Invoke(key) PROVE StubsInv'
  BY <1>6, PostedKeepsStubs DEF Invoke, hostSide, StubsInv
<1>7. ASSUME NEW key \in stubs, CollectStub(key) PROVE StubsInv'
  BY <1>7, OthersKeepStubs DEF CollectStub
<1>8. ASSUME NEW key \in Keys, RunStubFinalizer(key) PROVE StubsInv'
  <2>1. CASE key \in stubCache \ stubs
    BY <1>8, <2>1, PostedKeepsStubs DEF RunStubFinalizer, ReleaseStub
  <2>2. CASE key \notin stubCache \ stubs
    BY <1>8, <2>2, OthersKeepStubs DEF RunStubFinalizer, ReleaseStub
  <2> QED BY <2>1, <2>2
<1> QED BY <1>1, <1>2, <1>3, <1>4, <1>5, <1>6, <1>7, <1>8 DEF CallbacksNext

(* A page that passes no function twice, over one lane, is called back in  *)
(* its functions as long as the host has stubs for them: no invocation is  *)
(* lost to a Release that overtakes it, or to a callback removed early.    *)
THEOREM HeldStubsFindFunctions ==
  ASSUME Uses = {}
  PROVE  CallbacksSpec => []HeldStubFindsFunction
<1>1. ASSUME CallbacksInv, StubsInv PROVE HeldStubFindsFunction
  <2>1. ASSUME NEW key \in stubs, key.page = page PROVE key.id \in DOMAIN callbacks
    BY <1>1, <2>1 DEF StubsInv, HeldIsRegistered, HasKey, CallbacksInv, QueueTypes
  <2>2. ASSUME NEW lane \in CallLanes, invokes[lane] # <<>>,
               Head(invokes[lane]).op = "Invoke", Head(invokes[lane]).key.page = page
        PROVE  Head(invokes[lane]).key.id \in DOMAIN callbacks
    <3>1. lane = "browser"
      BY <1>1, <2>2 DEF StubsInv, OneLane, CallLanes
    <3>2. 1 \in 1 .. Len(Outgoing) /\ Head(Outgoing) = Outgoing[1] /\ Outgoing[1].key \in Keys
      <4>1. Outgoing \in Seq(Messages) /\ Outgoing # <<>>
        BY <1>1, <2>2, <3>1 DEF CallbacksInv, QueueTypes, Outgoing
      <4>2. 1 \in 1 .. Len(Outgoing) /\ Head(Outgoing) = Outgoing[1]
        BY <4>1, HeadTailProperties
      <4> QED BY <1>1, <3>1, <4>2, MessageKeys DEF CallbacksInv, Outgoing
    <3>3. IsInvokeOf(Outgoing[1], Outgoing[1].key.id)
      BY <2>2, <3>1, <3>2 DEF IsInvokeOf, Outgoing
    <3> QED BY <1>1, <3>1, <3>2, <3>3 DEF StubsInv, InvokesFind, Keys, Outgoing
  <2> QED BY <2>1, <2>2 DEF HeldStubFindsFunction
<1>2. CallbacksInit => StubsInv
  BY StubsInitInv
<1>3. CallbacksInv /\ StubsInv /\ [CallbacksNext]_callbackVars => StubsInv'
  BY StubsStep
<1>4. CallbacksInv /\ StubsInv => HeldStubFindsFunction
  BY <1>1
<1> QED BY <1>2, <1>3, <1>4, CallbacksInvariant, PTL DEF CallbacksSpec
==============================================================================
