------------------------ MODULE TenantRestrictionsProofs ------------------------
(***************************************************************************)
(* Proofs about TenantRestrictions, for any payloads, hosts and number of  *)
(* writes.                                                                 *)
(***************************************************************************)
EXTENDS TenantRestrictions, TLAPS

(***************************************************************************)
(* Types.                                                                  *)
(***************************************************************************)

(* What UpdateManager takes over and sends is valid, and typed if the      *)
(* policy it is given is.                                                  *)
LEMMA UseAndTellTypes ==
  ASSUME TenantTypeOK, NEW policy \in Policies, UseAndTell(policy)
  PROVE  /\ current' \in Policies /\ Valid(current')
         /\ forgotten' \in BOOLEAN
         /\ pipe' \in Seq(Policies) /\ \A i \in 1 .. Len(pipe') : Valid(pipe'[i])
<1>1. current' \in Policies /\ Valid(current')
  BY DEF UseAndTell, Policies, AnyPayload, Off, Policy, Active, Valid
<1>2. pipe \in Seq(Policies) /\ \A i \in 1 .. Len(pipe) : Valid(pipe[i])
  BY DEF TenantTypeOK
<1>3. pipe' = Append(pipe, current')
  BY DEF UseAndTell
<1>4. pipe' \in Seq(Policies) /\ \A i \in 1 .. Len(pipe') : Valid(pipe'[i])
  <2> HIDE DEF Policies, Valid
  <2>1. pipe' \in Seq(Policies) /\ Len(pipe') = Len(pipe) + 1
    BY <1>1, <1>2, <1>3
  <2>2. ASSUME NEW i \in 1 .. Len(pipe')
        PROVE  Valid(pipe'[i])
    <3>1. CASE i = Len(pipe) + 1
      BY <3>1, <1>1, <1>2, <1>3
    <3>2. CASE i # Len(pipe) + 1
      <4>1. i \in 1 .. Len(pipe) /\ pipe'[i] = pipe[i]
        BY <3>2, <2>1, <1>2, <1>3
      <4> QED BY <4>1, <1>2
    <3> QED BY <3>1, <3>2
  <2> QED BY <2>1, <2>2
<1>5. forgotten' \in BOOLEAN
  BY DEF UseAndTell
<1> QED BY <1>1, <1>4, <1>5

LEMMA OffIsAPolicy == Off \in Policies /\ Valid(Off) /\ Off.payload \notin TooLong
  BY TenantAssumption DEF Off, Policy, Policies, AnyPayload, Valid

LEMMA TenantTypeInit == TenantInit => TenantTypeOK
<1> SUFFICES ASSUME TenantInit PROVE TenantTypeOK
  OBVIOUS
<1>1. /\ os.present \in BOOLEAN /\ Policy(os.payload, os.hosts) \in Policies
      /\ ~os.present => os.payload = NoPayload
  <2>1. PICK r \in Registries, hosts \in SUBSET Hosts :
          os = [present |-> r.present, payload |-> r.payload, hosts |-> hosts]
    BY DEF TenantInit
  <2>2. CASE r \in [present : {TRUE}, payload : AnyPayload]
    BY <2>1, <2>2 DEF Policy, Policies, AnyPayload
  <2>3. CASE r \in [present : {FALSE}, payload : {NoPayload}]
    BY <2>1, <2>3 DEF Policy, Policies, AnyPayload
  <2> QED BY <2>2, <2>3 DEF Registries
<1>2. pipe \in Seq(Policies) /\ \A i \in 1 .. Len(pipe) : Valid(pipe[i])
  BY DEF TenantInit
<1>3. /\ current \in Policies /\ Valid(current)
      /\ net \in Policies /\ Valid(net) /\ net.payload \notin TooLong /\ cached \in Policies
  BY OffIsAPolicy DEF TenantInit
<1>4. /\ writes \in 0 .. MaxWrites
      /\ notice \in BOOLEAN /\ unseen \in BOOLEAN /\ signalled \in BOOLEAN /\ forgotten \in BOOLEAN
      /\ hasWatcher \in BOOLEAN /\ armed \in BOOLEAN
      /\ read \in AnyPayload /\ step = "start"
  <2>1. /\ writes = 0 /\ notice = FALSE /\ unseen = FALSE /\ signalled = FALSE /\ forgotten = FALSE
        /\ hasWatcher = FALSE /\ armed = FALSE /\ read = NoPayload /\ step = "start"
    BY DEF TenantInit
  <2>2. 0 \in 0 .. MaxWrites
    BY TenantAssumption
  <2> QED BY <2>1, <2>2 DEF AnyPayload
<1> QED BY <1>1, <1>2, <1>3, <1>4 DEF TenantTypeOK

LEMMA TenantTypeStep == TenantTypeOK /\ [TenantNext]_tenantVars => TenantTypeOK'
<1> SUFFICES ASSUME TenantTypeOK, [TenantNext]_tenantVars PROVE TenantTypeOK'
  OBVIOUS
<1>1. ASSUME NEW present \in BOOLEAN, NEW payload \in AnyPayload, NEW hosts \in SUBSET Hosts,
             ~present => payload = NoPayload, Write(present, payload, hosts),
             notice' \in BOOLEAN, unseen' \in BOOLEAN
      PROVE  TenantTypeOK'
  BY <1>1, TenantAssumption
  DEF Write, TenantTypeOK, Policy, Policies, watchVars, threadVars, serviceVars
<1>2. CASE WriteRegistry
  <2>1. PICK r \in Registries : Write(r.present, r.payload, os.hosts)
    BY <1>2 DEF WriteRegistry
  <2>2. /\ r.present \in BOOLEAN /\ r.payload \in AnyPayload
        /\ ~r.present => r.payload = NoPayload
    BY DEF Registries, AnyPayload
  <2>3. os.hosts \in SUBSET Hosts
    BY DEF TenantTypeOK, Policy, Policies
  <2>4. notice' \in BOOLEAN /\ unseen' \in BOOLEAN
    BY <1>2 DEF WriteRegistry, TenantTypeOK
  <2> QED BY <1>1, <2>1, <2>2, <2>3, <2>4
<1>3. CASE WriteHosts
  <2>1. PICK hosts \in SUBSET Hosts : Write(os.present, os.payload, hosts)
    BY <1>3 DEF WriteHosts
  <2>2. os.present \in BOOLEAN /\ os.payload \in AnyPayload /\ (~os.present => os.payload = NoPayload)
    BY DEF TenantTypeOK, Policy, Policies
  <2>3. notice' \in BOOLEAN /\ unseen' \in BOOLEAN
    BY <1>3 DEF WriteHosts, TenantTypeOK
  <2> QED BY <1>1, <2>1, <2>2, <2>3
<1>4. CASE GiveNotice
  BY <1>4 DEF GiveNotice, TenantTypeOK, threadVars, serviceVars
<1>5. ASSUME NEW ok \in BOOLEAN, CreateUpdateManager(ok) \/ OnPolicyUpdate(ok)
      PROVE  TenantTypeOK'
  BY <1>5 DEF CreateUpdateManager, OnPolicyUpdate, StartWatching, TenantTypeOK, osVars, serviceVars
<1>6. CASE ReadHasPayload
  BY <1>6, OffIsAPolicy DEF ReadHasPayload, TenantTypeOK, osVars, watchVars, serviceVars
<1>7. CASE ReadPayload \/ ReadHosts
  BY <1>7 DEF ReadPayload, ReadHosts, TenantTypeOK, Policy, Policies, osVars, watchVars, serviceVars
<1>8. ASSUME NEW policy \in Policies, UseIfValid(policy)
      PROVE  /\ current' \in Policies /\ Valid(current')
             /\ net' \in Policies /\ Valid(net') /\ net'.payload \notin TooLong /\ forgotten' \in BOOLEAN
             /\ pipe' \in Seq(Policies) /\ \A i \in 1 .. Len(pipe') : Valid(pipe'[i])
  <2>1. CASE Valid(policy)
    BY <2>1, <1>8, UseAndTellTypes DEF UseIfValid, TenantTypeOK
  <2>2. CASE ~Valid(policy)
    BY <2>2, <1>8 DEF UseIfValid, TenantTypeOK, serviceVars
  <2> QED BY <2>1, <2>2
<1>9. ASSUME TurnOff
      PROVE  /\ current' \in Policies /\ Valid(current')
             /\ net' \in Policies /\ Valid(net') /\ net'.payload \notin TooLong /\ forgotten' \in BOOLEAN
             /\ pipe' \in Seq(Policies) /\ \A i \in 1 .. Len(pipe') : Valid(pipe'[i])
  BY <1>9, UseAndTellTypes, OffIsAPolicy DEF TurnOff, TenantTypeOK
<1>10. CASE UpdateIfNeeded
  <2>1. CASE TurnOff
    BY <2>1, <1>9, <1>10 DEF UpdateIfNeeded, TenantTypeOK, osVars, watchVars
  <2>2. CASE UNCHANGED <<current, serviceVars>>
    BY <2>2, <1>10 DEF UpdateIfNeeded, TenantTypeOK, osVars, watchVars, serviceVars
  <2> QED BY <2>1, <2>2, <1>10 DEF UpdateIfNeeded
<1>11. CASE ComparePayload
  BY <1>11 DEF ComparePayload, TenantTypeOK, osVars, watchVars, serviceVars
<1>12. CASE RunUpdate
  <2>1. CASE TurnOff /\ UNCHANGED read /\ step' = "idle"
    BY <2>1, <1>9, <1>12 DEF RunUpdate, TenantTypeOK, osVars, watchVars
  <2>2. CASE UseIfValid(cached) /\ UNCHANGED read /\ step' = "idle"
    <3>1. cached \in Policies
      BY DEF TenantTypeOK
    <3> QED BY <2>2, <3>1, <1>8, <1>12 DEF RunUpdate, TenantTypeOK, osVars, watchVars
  <2>3. CASE read' = os.payload /\ step' = "runHosts" /\ UNCHANGED <<current, serviceVars>>
    BY <2>3, <1>12 DEF RunUpdate, TenantTypeOK, Policy, Policies, osVars, watchVars, serviceVars
  <2> QED BY <2>1, <2>2, <2>3, <1>12 DEF RunUpdate
<1>13. CASE RunHosts
  <2>1. Policy(read, os.hosts) \in Policies
    BY DEF TenantTypeOK, Policy, Policies
  <2> QED BY <2>1, <1>8, <1>13 DEF RunHosts, TenantTypeOK, osVars, watchVars
<1>14. CASE UpdateHeaderPolicies
  <2>1. /\ pipe' \in Seq(Policies) /\ Head(pipe) \in Policies
        /\ \A i \in 1 .. Len(pipe') : Valid(pipe'[i])
    <3>1. pipe \in Seq(Policies) /\ pipe # <<>> /\ pipe' = Tail(pipe)
      BY <1>14 DEF UpdateHeaderPolicies, TenantTypeOK
    <3>2. \A i \in 1 .. Len(pipe) : Valid(pipe[i])
      BY DEF TenantTypeOK
    <3> HIDE DEF Policies, Valid
    <3>3. /\ pipe' \in Seq(Policies) /\ Head(pipe) \in Policies
          /\ \A i \in 1 .. Len(pipe') : i + 1 \in 1 .. Len(pipe) /\ pipe'[i] = pipe[i + 1]
      BY <3>1
    <3> QED BY <3>2, <3>3
  <2>2. net' \in Policies /\ Valid(net') /\ net'.payload \notin TooLong
    <3>1. CASE Accepts(Head(pipe))
      <4>1. net' = Off \/ (net' = Head(pipe) /\ Head(pipe).payload \notin TooLong)
        BY <3>1, <1>14 DEF UpdateHeaderPolicies, Rebuilt
      <4>2. Valid(net')
        BY <3>1, <1>14 DEF UpdateHeaderPolicies, Accepts
      <4> QED BY <2>1, <4>1, <4>2, OffIsAPolicy
    <3>2. CASE ~Accepts(Head(pipe))
      BY <3>2, <1>14 DEF UpdateHeaderPolicies, TenantTypeOK
    <3> QED BY <3>1, <3>2
  <2> QED BY <2>1, <2>2, <1>14 DEF UpdateHeaderPolicies, TenantTypeOK, osVars, watchVars, threadVars
<1>15. CASE Restart
  <2>1. pipe' \in Seq(Policies) /\ \A i \in 1 .. Len(pipe') : Valid(pipe'[i])
    BY <1>15 DEF Restart
  <2> QED BY <2>1, <1>15, OffIsAPolicy DEF Restart, TenantTypeOK, osVars, watchVars, threadVars
<1>16. CASE UNCHANGED tenantVars
  BY <1>16 DEF tenantVars, TenantTypeOK, osVars, watchVars, threadVars, serviceVars
<1> QED
  BY <1>2, <1>3, <1>4, <1>5, <1>6, <1>7, <1>10, <1>11, <1>12, <1>13, <1>14, <1>15, <1>16
  DEF TenantNext, SystemNext, ThreadNext, Handling, ServiceNext

(* The variables keep their types, and only valid policies are in force or *)
(* on their way to the network service.                                    *)
THEOREM TenantTypes == TenantSpec => []TenantTypeOK
  BY TenantTypeInit, TenantTypeStep, PTL DEF TenantSpec

(***************************************************************************)
(* No change is missed.  While nothing is owed and nothing taken is left   *)
(* undone, the thread has seen the policy as it is, as far as it has read, *)
(* but for a host list that changed since it began to.                     *)
(***************************************************************************)
Undisturbed == hasWatcher /\ ~notice /\ ~signalled

(* Without a watcher only, the policy is read when it is used.             *)
WatcherSteps == hasWatcher => step # "start" /\ step # "runHosts"

CachedIsSeen ==
  /\ os.present => cached.payload = os.payload /\ (~unseen => cached.hosts = os.hosts)
  /\ ~os.present => cached = Off

SeenSoFar ==
  Undisturbed =>
    /\ step \in {"payload", "hosts", "compare", "run"} => os.present
    /\ step = "hosts" => read = os.payload
    /\ step \in {"check", "compare", "run"} => CachedIsSeen
    /\ step = "idle" => InForce

TenantInv == TenantTypeOK /\ WatcherSteps /\ SeenSoFar

(* A valid policy that is used is the one in force from then on.           *)
LEMMA UsedIsInForce ==
  ASSUME NEW policy \in Policies, UseIfValid(policy), Active(policy)
  PROVE  current' = policy
  BY DEF UseIfValid, UseAndTell, Valid

LEMMA TenantInvInit == TenantInit => TenantInv
  BY TenantTypeInit DEF TenantInit, TenantInv, WatcherSteps, SeenSoFar, Undisturbed

LEMMA WatcherStepsStep ==
  ASSUME WatcherSteps, [TenantNext]_tenantVars
  PROVE  WatcherSteps'
<1>1. CASE SystemNext
  BY <1>1 DEF SystemNext, WriteRegistry, WriteHosts, Write, GiveNotice, WatcherSteps,
    watchVars, threadVars
<1>2. CASE ThreadNext
  <2>1. ASSUME NEW ok \in BOOLEAN, CreateUpdateManager(ok) \/ OnPolicyUpdate(ok)
        PROVE  WatcherSteps'
    BY <2>1 DEF CreateUpdateManager, OnPolicyUpdate, WatcherSteps
  <2>2. CASE Handling
    BY <2>2 DEF Handling, ReadHasPayload, ReadPayload, ReadHosts, UpdateIfNeeded,
      ComparePayload, RunUpdate, RunHosts, WatcherSteps, watchVars
  <2> QED BY <1>2, <2>1, <2>2 DEF ThreadNext
<1>3. CASE ServiceNext \/ UNCHANGED tenantVars
  BY <1>3 DEF ServiceNext, UpdateHeaderPolicies, Restart, tenantVars, WatcherSteps,
    watchVars, threadVars
<1> QED BY <1>1, <1>2, <1>3 DEF TenantNext

LEMMA SeenSoFarStep ==
  ASSUME TenantInv, [TenantNext]_tenantVars
  PROVE  SeenSoFar'
<1>1. CASE WriteRegistry \/ GiveNotice
  <2>1. CASE WriteRegistry
    BY <2>1 DEF WriteRegistry, SeenSoFar, Undisturbed
  <2>2. CASE GiveNotice
    BY <2>2 DEF GiveNotice, SeenSoFar, Undisturbed
  <2> QED BY <1>1, <2>1, <2>2
<1>2. CASE WriteHosts
  <2>1. PICK hosts : Write(os.present, os.payload, hosts)
    BY <1>2 DEF WriteHosts
  <2>2. /\ os'.present = os.present /\ os'.payload = os.payload /\ unseen'
        /\ UNCHANGED <<hasWatcher, signalled, notice, cached, step, read, current>>
    BY <1>2, <2>1 DEF WriteHosts, Write, watchVars, threadVars
  <2> QED BY <2>2 DEF TenantInv, SeenSoFar, Undisturbed, CachedIsSeen, InForce
<1>3. ASSUME NEW ok \in BOOLEAN, CreateUpdateManager(ok) \/ OnPolicyUpdate(ok)
      PROVE  SeenSoFar'
  BY <1>3 DEF CreateUpdateManager, OnPolicyUpdate, SeenSoFar, Undisturbed
<1> SUFFICES ASSUME Undisturbed', Handling \/ ServiceNext \/ UNCHANGED tenantVars
    PROVE  SeenSoFar'
  BY <1>1, <1>2, <1>3 DEF TenantNext, SystemNext, ThreadNext, SeenSoFar
<1>4. Undisturbed /\ UNCHANGED <<os, unseen>> /\ step # "start" /\ step # "runHosts"
  <2>1. UNCHANGED <<osVars, watchVars>>
    <3>1. CASE Handling
      BY <3>1 DEF Handling, ReadHasPayload, ReadPayload, ReadHosts, UpdateIfNeeded,
        ComparePayload, RunUpdate, RunHosts
    <3>2. CASE ServiceNext \/ UNCHANGED tenantVars
      BY <3>2 DEF ServiceNext, UpdateHeaderPolicies, Restart, tenantVars, osVars
    <3> QED BY <3>1, <3>2
  <2>2. Undisturbed /\ UNCHANGED <<os, unseen>>
    BY <2>1 DEF Undisturbed, osVars, watchVars
  <2>3. step # "start" /\ step # "runHosts"
    BY <2>2 DEF Undisturbed, TenantInv, WatcherSteps
  <2> QED BY <2>2, <2>3
<1>5. /\ step \in {"payload", "hosts", "compare", "run"} => os.present
      /\ step = "hosts" => read = os.payload
      /\ step \in {"check", "compare", "run"} => CachedIsSeen
      /\ step = "idle" => InForce
  BY <1>4 DEF TenantInv, SeenSoFar
<1>6. cached' = cached => CachedIsSeen' = CachedIsSeen
  BY <1>4 DEF CachedIsSeen
<1>7. CASE ReadHasPayload
  BY <1>4, <1>7 DEF ReadHasPayload, SeenSoFar, CachedIsSeen
<1>8. CASE ReadPayload
  BY <1>4, <1>5, <1>8 DEF ReadPayload, SeenSoFar
<1>9. CASE ReadHosts
  BY <1>4, <1>5, <1>9 DEF ReadHosts, SeenSoFar, CachedIsSeen, Policy
<1>10. CASE UpdateIfNeeded
  <2>1. step = "check" /\ cached' = cached
    BY <1>10 DEF UpdateIfNeeded
  <2>2. CASE os.present
    <3>1. step' \in {"run", "compare"}
      BY <2>2, <1>10 DEF UpdateIfNeeded
    <3> QED BY <2>1, <2>2, <3>1, <1>4, <1>5, <1>6 DEF SeenSoFar
  <2>3. CASE ~os.present
    <3>1. current' = Off /\ step' = "idle"
      BY <2>3, <1>10 DEF UpdateIfNeeded, TurnOff, UseAndTell, Active, Off, Policy
    <3> QED BY <3>1, <2>3, <1>4 DEF SeenSoFar, InForce
  <2> QED BY <2>2, <2>3
<1>11. CASE ComparePayload
  <2>1. step = "compare" /\ cached' = cached /\ current' = current
    BY <1>11 DEF ComparePayload
  <2>2. PayloadFromOS = os.payload
    BY <2>1, <1>4, <1>5 DEF PayloadFromOS, Undisturbed, CachedIsSeen
  <2>3. CASE PayloadChanged(PayloadFromOS)
    BY <2>1, <2>3, <1>4, <1>5, <1>6, <1>11 DEF ComparePayload, SeenSoFar
  <2>4. CASE ~PayloadChanged(PayloadFromOS)
    BY <2>1, <2>2, <2>4, <1>4, <1>5, <1>11
    DEF ComparePayload, PayloadChanged, SeenSoFar, InForce
  <2> QED BY <2>3, <2>4
<1>12. CASE RunUpdate
  <2>1. step = "run" /\ os.present /\ CachedIsSeen
    BY <1>5, <1>12 DEF RunUpdate
  <2>2. UseIfValid(cached) /\ step' = "idle"
    BY <2>1, <1>4, <1>12 DEF RunUpdate, Undisturbed
  <2>3. ASSUME os.payload # NoPayload, os.hosts # {}, ~unseen
        PROVE  current'.payload = os.payload
    <3>1. Active(cached) /\ cached.payload = os.payload
      BY <2>1, <2>3 DEF Active, CachedIsSeen
    <3>2. cached \in Policies
      BY DEF TenantInv, TenantTypeOK
    <3> QED BY <3>1, <3>2, <2>2, UsedIsInForce
  <2> QED BY <2>1, <2>2, <2>3, <1>4 DEF SeenSoFar, InForce
<1>13. CASE RunHosts
  BY <1>4, <1>13 DEF RunHosts
<1>14. CASE ServiceNext \/ UNCHANGED tenantVars
  <2>1. UNCHANGED <<cached, step, read, current>>
    BY <1>14 DEF ServiceNext, UpdateHeaderPolicies, Restart, tenantVars, threadVars
  <2> QED BY <2>1, <1>4, <1>5, <1>6 DEF SeenSoFar, InForce
<1> QED
  BY <1>7, <1>8, <1>9, <1>10, <1>11, <1>12, <1>13, <1>14 DEF Handling

LEMMA TenantInvariant == TenantSpec => []TenantInv
<1>1. TenantInv /\ [TenantNext]_tenantVars => TenantInv'
  BY TenantTypeStep, WatcherStepsStep, SeenSoFarStep DEF TenantInv
<1> QED BY <1>1, TenantInvInit, PTL DEF TenantSpec

(* However writes, notices and reads interleave, a browser at rest whose   *)
(* watcher works has in force what the system says.                        *)
THEOREM NoChangeIsMissed == TenantSpec => []QuietMeansInForce
<1>1. TenantInv => QuietMeansInForce
  BY DEF TenantInv, SeenSoFar, Undisturbed, QuietMeansInForce, Quiet
<1> QED BY <1>1, TenantInvariant, PTL

(* A policy in force ends only when the system has withdrawn it.           *)
THEOREM EndedByTheSystem == TenantSpec => GarbageEndsNothing
<1>1. ASSUME TenantInv, [TenantNext]_tenantVars, current # Off, current' = Off
      PROVE  ~os.present \/ IF hasWatcher THEN cached = Off ELSE os.hosts = {}
  <2>1. ASSUME NEW policy \in Policies, UseIfValid(policy)
        PROVE  policy = Off
    BY <1>1, <2>1, UsedIsInForce DEF UseIfValid, Valid, Active, Off, Policy
  <2>2. \/ UpdateIfNeeded \/ RunUpdate \/ RunHosts
    BY <1>1 DEF TenantNext, SystemNext, WriteRegistry, WriteHosts, Write, GiveNotice, ThreadNext,
      CreateUpdateManager, OnPolicyUpdate, Handling, ReadHasPayload, ReadPayload, ReadHosts,
      ComparePayload, ServiceNext, UpdateHeaderPolicies, Restart, tenantVars
  <2>3. CASE UpdateIfNeeded
    BY <1>1, <2>3 DEF UpdateIfNeeded
  <2>4. CASE RunUpdate
    <3>1. cached \in Policies
      BY <1>1 DEF TenantInv, TenantTypeOK
    <3> QED BY <3>1, <2>1, <2>4, <1>1 DEF RunUpdate
  <2>5. CASE RunHosts
    <3>1. ~hasWatcher
      BY <1>1, <2>5 DEF RunHosts, TenantInv, WatcherSteps
    <3>2. Policy(read, os.hosts) \in Policies
      BY <1>1 DEF TenantInv, TenantTypeOK, Policy, Policies
    <3>3. Policy(read, os.hosts) = Off
      BY <3>2, <2>1, <2>5 DEF RunHosts
    <3> QED BY <3>1, <3>3 DEF Off, Policy
  <2> QED BY <2>2, <2>3, <2>4, <2>5
<1>2. TenantInv /\ [TenantNext]_tenantVars => [EndsWhenWithdrawn]_tenantVars
  BY <1>1 DEF EndsWhenWithdrawn
<1> QED BY <1>2, TenantInvariant, PTL DEF TenantSpec, GarbageEndsNothing

(***************************************************************************)
(* The service and the manager.                                            *)
(***************************************************************************)

(* What the manager sends is what it has in force, and the last it sent.   *)
LEMMA ToldLast ==
  ASSUME TenantTypeOK, NEW policy \in Policies, UseAndTell(policy)
  PROVE  pipe' # <<>> /\ LastSent' = current'
<1>1. pipe \in Seq(Policies)
  BY DEF TenantTypeOK
<1>2. current' \in Policies
  BY UseAndTellTypes
<1>3. pipe' = Append(pipe, current')
  BY DEF UseAndTell
<1> HIDE DEF Policies
<1> QED BY <1>1, <1>2, <1>3 DEF LastSent

(* A delivery leaves the last sent in the pipe, or was the last.           *)
LEMMA DeliveryKeepsLast ==
  ASSUME TenantTypeOK, UpdateHeaderPolicies
  PROVE  /\ pipe # <<>>
         /\ pipe' # <<>> => LastSent' = LastSent
         /\ pipe' = <<>> => Head(pipe) = LastSent
<1>1. pipe \in Seq(Policies) /\ pipe # <<>> /\ pipe' = Tail(pipe)
  BY DEF TenantTypeOK, UpdateHeaderPolicies
<1> HIDE DEF Policies
<1>2. Len(pipe) \in Nat \ {0} /\ Head(pipe) = pipe[1]
  BY <1>1
<1>3. ASSUME pipe' = <<>> PROVE Head(pipe) = LastSent
  <2>1. Len(pipe') = Len(pipe) - 1
    BY <1>1, <1>2
  <2>2. Len(pipe') = 0
    BY <1>3
  <2>3. Len(pipe) = 1
    BY <2>1, <2>2, <1>2
  <2> QED BY <2>3, <1>2 DEF LastSent
<1>4. ASSUME pipe' # <<>> PROVE LastSent' = LastSent
  <2>1. pipe'[Len(pipe')] = pipe[Len(pipe)]
    BY <1>1, <1>2, <1>4
  <2> QED BY <2>1 DEF LastSent
<1> QED BY <1>1, <1>3, <1>4

(* What the service accepts it has as it was sent.                         *)
LEMMA AcceptedAsSent ==
  ASSUME NEW policy \in Policies, Valid(policy), Accepts(policy)
  PROVE  Rebuilt(policy) = policy
<1>1. CASE policy = Off
  BY <1>1 DEF Rebuilt
<1>2. CASE Active(policy)
  <2>1. ~Active(Off)
    BY DEF Active, Off, Policy
  <2> QED BY <1>2, <2>1 DEF Accepts, Rebuilt
<1> QED BY <1>1, <1>2 DEF Valid

(* The service has the policy the manager has in force, or is about to be  *)
(* told it, if it accepts it and has not restarted.                        *)
THEOREM ServiceFollows == TenantSpec => []ServiceFollowsManager
<1>1. TenantInit => ServiceFollowsManager
  BY DEF TenantInit, ServiceFollowsManager
<1>2. ASSUME TenantTypeOK, ServiceFollowsManager, [TenantNext]_tenantVars
      PROVE  ServiceFollowsManager'
  <2>1. ASSUME NEW policy \in Policies, UseAndTell(policy)
        PROVE  ServiceFollowsManager'
    BY <2>1, <1>2, ToldLast DEF ServiceFollowsManager
  <2>2. CASE UNCHANGED <<current, serviceVars>>
    BY <2>2, <1>2 DEF ServiceFollowsManager, LastSent, serviceVars, Accepts, Rebuilt, Valid, Active
  <2>3. ASSUME NEW policy \in Policies, UseIfValid(policy)
        PROVE  ServiceFollowsManager'
    BY <2>1, <2>2, <2>3 DEF UseIfValid
  <2>4. CASE TurnOff
    BY <2>4, <2>1, OffIsAPolicy DEF TurnOff
  <2>5. CASE UpdateIfNeeded \/ RunUpdate
    <3>1. cached \in Policies
      BY <1>2 DEF TenantTypeOK
    <3> QED BY <3>1, <2>2, <2>3, <2>4, <2>5 DEF UpdateIfNeeded, RunUpdate
  <2>6. CASE RunHosts
    <3>1. Policy(read, os.hosts) \in Policies
      BY <1>2 DEF TenantTypeOK, Policy, Policies
    <3> QED BY <3>1, <2>3, <2>6 DEF RunHosts
  <2>7. CASE UpdateHeaderPolicies
    <3>1. UNCHANGED <<current, forgotten>>
          /\ net' = IF Accepts(Head(pipe)) THEN Rebuilt(Head(pipe)) ELSE net
      BY <2>7 DEF UpdateHeaderPolicies
    <3>2. /\ pipe # <<>>
          /\ pipe' # <<>> => LastSent' = LastSent
          /\ pipe' = <<>> => Head(pipe) = LastSent
      BY <1>2, <2>7, DeliveryKeepsLast
    <3>3. current \in Policies /\ Valid(current)
      BY <1>2 DEF TenantTypeOK
    <3>4. Accepts(current)' = Accepts(current)
      BY <3>1 DEF Accepts, Rebuilt, Valid, Active
    <3>5. Accepts(current) => Rebuilt(current) = current
      BY <3>3, AcceptedAsSent
    <3>6. ~forgotten => LastSent = current
      BY <1>2, <3>2 DEF ServiceFollowsManager
    <3>7. ~forgotten /\ pipe' = <<>> /\ Accepts(current) => net' = current
      BY <3>1, <3>2, <3>5, <3>6
    <3> QED BY <3>1, <3>2, <3>4, <3>6, <3>7 DEF ServiceFollowsManager
  <2>8. CASE Restart
    BY <2>8 DEF Restart, ServiceFollowsManager
  <2>9. \/ UpdateIfNeeded \/ RunUpdate \/ RunHosts \/ UpdateHeaderPolicies \/ Restart
        \/ UNCHANGED <<current, serviceVars>>
    BY <1>2 DEF TenantNext, SystemNext, WriteRegistry, WriteHosts, Write, GiveNotice, ThreadNext,
      CreateUpdateManager, OnPolicyUpdate, Handling, ReadHasPayload, ReadPayload, ReadHosts,
      ComparePayload, ServiceNext, tenantVars
  <2> QED BY <2>2, <2>5, <2>6, <2>7, <2>8, <2>9
<1> QED BY <1>1, <1>2, TenantTypes, PTL DEF TenantSpec
=================================================================================
