-------------------------- MODULE TenantRestrictions --------------------------
(***************************************************************************)
(* Tenant restrictions on Windows: what an administrator's policy says is  *)
(* read by the browser process, sent to the network service and put into   *)
(* the requests of all pages (components/edge_tenant,                      *)
(* components/edge_adjust_headers, services/network).                      *)
(*                                                                         *)
(* The operating system writes the policy value by value and gives notice  *)
(* when it is done.  The browser's UI thread reads it value by value too:  *)
(* PolicyWatcher takes the notice, WindowsPolicyManager keeps what was     *)
(* read, UpdateManager decides whether it is new.  Each read is a step of  *)
(* its own here, for the system may write between any two.                 *)
(***************************************************************************)
EXTENDS Naturals, Sequences

CONSTANTS
  Payloads,   \* well-formed header payloads: [<cloud>:]<tenant>:<policy>
  TooLong,    \* those of them the service refuses: over max_length
  NoPayload,  \* the empty payload: values missing or malformed
  Hosts,      \* host names requests go to, with the wildcards applied
  NoHeader,   \* a request without the policy header
  OwnHeader,  \* a request whose page set the header itself
  MaxWrites   \* bound: writes of the operating system

ASSUME TenantAssumption ==
  /\ TooLong \subseteq Payloads /\ NoPayload \notin Payloads
  /\ NoHeader \notin Payloads /\ OwnHeader \notin Payloads /\ OwnHeader # NoHeader
  /\ MaxWrites \in Nat

VARIABLES
  os,         \* the policy of the operating system
  writes,     \* how often it wrote
  notice,     \* it wrote, and gives notice when it is done
  unseen,     \* the host list changed since the thread last began to look
  signalled,  \* machine_policy_changed_event_
  armed,      \* machine_policy_watcher_ waits for the event
  hasWatcher, \* policy_watcher_ is set
  cached,     \* payload_ and host_list_ of WindowsPolicyManager
  step,       \* where the UI thread is
  read,       \* the payload it has in a local variable
  current,    \* current_policies_ of UpdateManager
  pipe,       \* updates on their way to the network service
  net,        \* policies_ of the service's Trv2HeaderObserver
  forgotten   \* the service restarted under a policy and was told none since

osVars == <<os, writes, notice, unseen>>
watchVars == <<signalled, armed, hasWatcher>>
threadVars == <<cached, step, read>>
serviceVars == <<pipe, net, forgotten>>
tenantVars == <<osVars, watchVars, threadVars, current, serviceVars>>

(***************************************************************************)
(* Policies.                                                               *)
(***************************************************************************)
AnyPayload == Payloads \cup {NoPayload}
Policies == [payload : AnyPayload, hosts : SUBSET Hosts]

Policy(payload, hosts) == [payload |-> payload, hosts |-> hosts]
Off == Policy(NoPayload, {})

Active(policy) == policy.payload # NoPayload /\ policy.hosts # {}

(* IsValid: payload and hosts, or neither.                                 *)
Valid(policy) == Active(policy) \/ policy = Off

(***************************************************************************)
(* The operating system.  Registry values and the plugin's host list       *)
(* change one at a time; identifiers that are no GUID leave a payload that *)
(* is present and empty.  Group policy gives notice of what it writes; of  *)
(* the host list nobody does, HostListWatcher being a stub.                *)
(***************************************************************************)
Registries ==
  [present : {TRUE}, payload : AnyPayload] \cup [present : {FALSE}, payload : {NoPayload}]

Write(present, payload, hosts) ==
  /\ writes < MaxWrites
  /\ writes' = writes + 1
  /\ os' = [present |-> present, payload |-> payload, hosts |-> hosts]
  /\ UNCHANGED <<watchVars, threadVars, current, serviceVars>>

WriteRegistry ==
  /\ \E r \in Registries : Write(r.present, r.payload, os.hosts)
  /\ notice' = TRUE
  /\ UNCHANGED unseen

WriteHosts ==
  /\ \E hosts \in SUBSET Hosts : Write(os.present, os.payload, hosts)
  /\ unseen' = TRUE
  /\ UNCHANGED notice

(* Registered events are set, and stay set until a watcher takes them.     *)
GiveNotice ==
  /\ notice
  /\ notice' = FALSE
  /\ signalled' = hasWatcher
  /\ UNCHANGED <<os, writes, unseen, armed, hasWatcher, threadVars, current, serviceVars>>

(***************************************************************************)
(* The UI thread: start, and the watcher's callback.                       *)
(***************************************************************************)

(* CreateUpdateManager: the event is registered and watched before the     *)
(* policy is read for the first time.  Without a watcher, payload and      *)
(* hosts are read from the system when they are asked for.                 *)
CreateUpdateManager(ok) ==
  /\ step = "start"
  /\ hasWatcher' = ok
  /\ armed' = ok
  /\ step' = IF ok THEN "hasPayload" ELSE "check"
  /\ unseen' = FALSE
  /\ UNCHANGED <<os, writes, notice, signalled, cached, read, current, serviceVars>>

(* Mutation: is_watching_ is still set, and StartWatching does nothing.    *)
StillWatching(ok) == armed' = FALSE

(* OnUpdate clears is_watching_, so StartWatching watches the event again. *)
StartWatching(ok) == armed' = ok

(* PolicyWatcher::OnPolicyUpdate.  If the event cannot be watched again,   *)
(* the watcher is given up, and with it the callback to UpdateManager.     *)
OnPolicyUpdate(ok) ==
  /\ step = "idle" /\ armed /\ signalled
  /\ signalled' = FALSE
  /\ StartWatching(ok)
  /\ hasWatcher' = ok
  /\ step' = IF ok THEN "hasPayload" ELSE "idle"
  /\ unseen' = FALSE
  /\ UNCHANGED <<os, writes, notice, cached, read, current, serviceVars>>

(* PolicyWatcher::RunUpdate reads the policy for WindowsPolicyManager,     *)
(* which keeps it and calls UpdateIfNeeded.  At the start it cannot, its   *)
(* callback not being set, and ElectronBrowserMainParts does.              *)
ReadHasPayload ==
  /\ step = "hasPayload"
  /\ step' = IF os.present THEN "payload" ELSE "check"
  /\ cached' = IF os.present THEN cached ELSE Off
  /\ UNCHANGED <<osVars, watchVars, read, current, serviceVars>>

ReadPayload ==
  /\ step = "payload"
  /\ read' = os.payload
  /\ step' = "hosts"
  /\ UNCHANGED <<osVars, watchVars, cached, current, serviceVars>>

ReadHosts ==
  /\ step = "hosts"
  /\ cached' = Policy(read, os.hosts)
  /\ step' = "check"
  /\ UNCHANGED <<osVars, watchVars, read, current, serviceVars>>

(***************************************************************************)
(* UpdateManager.                                                          *)
(***************************************************************************)

(* UpdateManager::OnPolicyUpdate.                                          *)
UseAndTell(policy) ==
  /\ current' = IF Active(policy) THEN policy ELSE Off
  /\ pipe' = Append(pipe, current')
  /\ forgotten' = FALSE

TurnOff == UseAndTell(Off) /\ UNCHANGED net

(* Mutations: a policy that is not valid turns the restrictions off; it is *)
(* used as it is.                                                          *)
UseOrTurnOff(policy) == UseAndTell(policy) /\ UNCHANGED net
UseAsItIs(policy) ==
  /\ current' = policy
  /\ pipe' = Append(pipe, policy)
  /\ forgotten' = FALSE
  /\ UNCHANGED net

UseIfValid(policy) ==
  IF Valid(policy) THEN UseAndTell(policy) /\ UNCHANGED net
  ELSE UNCHANGED <<current, serviceVars>>

(* UpdateIfNeeded: have the restrictions been turned on or off?            *)
UpdateIfNeeded ==
  /\ step = "check"
  /\ LET isOn == current # Off IN
     \/ /\ os.present # isOn
        /\ IF os.present THEN UNCHANGED <<current, serviceVars>> ELSE TurnOff
        /\ step' = IF os.present THEN "run" ELSE "idle"
     \/ /\ os.present = isOn
        /\ step' = IF isOn THEN "compare" ELSE "idle"
        /\ UNCHANGED <<current, serviceVars>>
  /\ UNCHANGED <<osVars, watchVars, cached, read>>

PayloadFromOS == IF hasWatcher THEN cached.payload ELSE os.payload

(* Mutation: only turning on and off counts as a change.                   *)
NeverChanged(payload) == FALSE

PayloadChanged(payload) == current.payload # payload

(* Has the payload changed?                                                *)
ComparePayload ==
  /\ step = "compare"
  /\ step' = IF PayloadChanged(PayloadFromOS) THEN "run" ELSE "idle"
  /\ UNCHANGED <<osVars, watchVars, cached, read, current, serviceVars>>

(* RunUpdate: is there a policy still?  The watcher's payload and hosts    *)
(* are at hand, those of the system are read one after the other.  (That   *)
(* happens at the start only, when there is no payload to compare with.)   *)
RunUpdate ==
  /\ step = "run"
  /\ \/ ~os.present /\ TurnOff /\ UNCHANGED read /\ step' = "idle"
     \/ os.present /\ hasWatcher /\ UseIfValid(cached) /\ UNCHANGED read /\ step' = "idle"
     \/ /\ os.present /\ ~hasWatcher
        /\ read' = os.payload
        /\ step' = "runHosts"
        /\ UNCHANGED <<current, serviceVars>>
  /\ UNCHANGED <<osVars, watchVars, cached>>

RunHosts ==
  /\ step = "runHosts"
  /\ UseIfValid(Policy(read, os.hosts))
  /\ step' = "idle"
  /\ UNCHANGED <<osVars, watchVars, cached, read>>

(***************************************************************************)
(* The network service.                                                    *)
(***************************************************************************)

(* The Policy the service makes of payload and hosts, which is left empty  *)
(* if the payload is too long.  The manager's comes from the constructor   *)
(* that trusts its arguments, "pre-validated" by GetPayload, whose limit   *)
(* for the cloud id lets two characters more through.                      *)
Rebuilt(policy) == IF policy.payload \in TooLong THEN Off ELSE policy

Accepts(policy) ==
  LET rebuilt == Rebuilt(policy)
      shouldBeActive == Active(policy)
  IN  Valid(rebuilt) /\ shouldBeActive = Active(rebuilt)

(* Trv2HeaderObserver::Update: garbage does not replace a policy.          *)
UpdateHeaderPolicies ==
  /\ pipe # <<>>
  /\ net' = IF Accepts(Head(pipe)) THEN Rebuilt(Head(pipe)) ELSE net
  /\ pipe' = Tail(pipe)
  /\ UNCHANGED <<osVars, watchVars, threadVars, current, forgotten>>

(* The service's process dies, and the next use of it starts a new one.    *)
Restart ==
  /\ net' = Off
  /\ pipe' = <<>>
  /\ forgotten' = (current # Off)
  /\ UNCHANGED <<osVars, watchVars, threadVars, current>>

(* MakeCallbackForRequest: the observer asks for one for every request.    *)
MakesCallback == Active(net)

IsUrlWeCareAbout(host) == host \in net.hosts

(* AdjustHeadersCallback sets the header, or removes what is there.        *)
AdjustHeaders(host) == IF IsUrlWeCareAbout(host) THEN net.payload ELSE NoHeader

(* What a request to the host goes out with, if the page gave it `own'.    *)
OnBeforeSendHeaders(host, own) == IF MakesCallback THEN AdjustHeaders(host) ELSE own

(***************************************************************************)
(* The system.                                                             *)
(***************************************************************************)
TenantInit ==
  /\ os \in {[present |-> r.present, payload |-> r.payload, hosts |-> hosts] :
               r \in Registries, hosts \in SUBSET Hosts}
  /\ writes = 0 /\ notice = FALSE /\ unseen = FALSE
  /\ signalled = FALSE /\ armed = FALSE /\ hasWatcher = FALSE
  /\ cached = Off /\ step = "start" /\ read = NoPayload
  /\ current = Off
  /\ pipe = <<>> /\ net = Off /\ forgotten = FALSE

SystemNext == WriteRegistry \/ WriteHosts \/ GiveNotice

Handling ==
  \/ ReadHasPayload \/ ReadPayload \/ ReadHosts
  \/ UpdateIfNeeded \/ ComparePayload \/ RunUpdate \/ RunHosts

ThreadNext ==
  \/ \E ok \in BOOLEAN : CreateUpdateManager(ok) \/ OnPolicyUpdate(ok)
  \/ Handling

ServiceNext == UpdateHeaderPolicies \/ Restart

TenantNext == SystemNext \/ ThreadNext \/ ServiceNext

TenantSpec == TenantInit /\ [][TenantNext]_tenantVars

(* The system gives the notice it owes, the UI thread runs its tasks, and  *)
(* mojo delivers.                                                          *)
TenantFairness ==
  /\ WF_tenantVars(GiveNotice)
  /\ WF_tenantVars(ThreadNext)
  /\ WF_tenantVars(UpdateHeaderPolicies)

TenantLiveSpec == TenantSpec /\ TenantFairness

(***************************************************************************)
(* Properties.                                                             *)
(***************************************************************************)

(* The variables have their types: what is in force or on its way to the   *)
(* service is a policy that is active, or none.                            *)
TenantTypeOK ==
  /\ os.present \in BOOLEAN /\ Policy(os.payload, os.hosts) \in Policies
  /\ ~os.present => os.payload = NoPayload
  /\ writes \in 0 .. MaxWrites
  /\ notice \in BOOLEAN /\ unseen \in BOOLEAN /\ signalled \in BOOLEAN /\ forgotten \in BOOLEAN
  /\ hasWatcher \in BOOLEAN /\ armed \in BOOLEAN
  /\ cached \in Policies /\ read \in AnyPayload
  /\ step \in {"start", "idle", "hasPayload", "payload", "hosts",
               "check", "compare", "run", "runHosts"}
  /\ current \in Policies /\ Valid(current)
  /\ net \in Policies /\ Valid(net) /\ net.payload \notin TooLong
  /\ pipe \in Seq(Policies) /\ \A i \in 1 .. Len(pipe) : Valid(pipe[i])

(* The system owes no notice and the thread has taken all it was given.    *)
Quiet == step = "idle" /\ ~notice /\ ~signalled

InForce ==
  /\ ~os.present => current = Off
  /\ os.present /\ os.payload # NoPayload /\ os.hosts # {} /\ ~unseen =>
       current.payload = os.payload

(* No change is missed: however writes, notices and reads interleave, a    *)
(* browser that has come to rest, and whose watcher works, has in force    *)
(* what the system says, but for a change of the host list after its last  *)
(* look, which may have made the policy valid.  (A host list that changes  *)
(* under the same payload is not taken over: UpdateIfNeeded compares       *)
(* payloads.)                                                              *)
QuietMeansInForce == Quiet /\ hasWatcher => InForce

(* "Don't replace the policies if we got garbage data": a policy in force  *)
(* ends only when the system has withdrawn it, or has a policy with        *)
(* neither payload nor hosts, and not when the payload cannot be read.     *)
EndsWhenWithdrawn ==
  current # Off /\ current' = Off =>
    ~os.present \/ IF hasWatcher THEN cached = Off ELSE os.hosts = {}
GarbageEndsNothing == [][EndsWhenWithdrawn]_tenantVars

LastSent == pipe[Len(pipe)]

(* The service has, or is about to be told, the policy the manager has in  *)
(* force, if it is one it accepts, unless it restarted, which nobody tells *)
(* the manager.                                                            *)
ServiceFollowsManager ==
  ~forgotten =>
    /\ pipe # <<>> => LastSent = current
    /\ pipe = <<>> /\ Accepts(current) => net = current

Lasting(state) == hasWatcher /\ ~forgotten /\ state

(* A policy that stays is put into the requests to the hosts of the list   *)
(* in force and kept out of all others, whatever header the page sets; a   *)
(* policy that is withdrawn for good leaves the requests alone.  The       *)
(* watcher must not fail, nor the service restart unnoticed; a policy      *)
(* whose payload is too long for the service is excepted, and a host list  *)
(* that comes after the browser has looked.                                *)
PolicyTakesEffect ==
  /\ \A p \in Payloads \ TooLong :
       <>[]Lasting(os.present /\ os.payload = p /\ os.hosts # {} /\ ~unseen)
         => <>[](/\ net.hosts # {}
                 /\ \A host \in Hosts : \A own \in {NoHeader, OwnHeader} :
                      OnBeforeSendHeaders(host, own) =
                        IF host \in net.hosts THEN p ELSE NoHeader)
  /\ <>[]Lasting(~os.present)
       => <>[](\A host \in Hosts : \A own \in {NoHeader, OwnHeader} :
                    OnBeforeSendHeaders(host, own) = own)
==============================================================================
