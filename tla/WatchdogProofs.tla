---------------------------- MODULE WatchdogProofs ----------------------------
(***************************************************************************)
(* Proofs about Watchdog, for any calls, any depth of them and any number  *)
(* of tasks, events of the machine and deletions.                          *)
(***************************************************************************)
EXTENDS Watchdog, SequenceTheorems, TLAPS

Tasks == {"SetResponsive", "OnSuspend", "OnResume"}

(* The thread is between two looks at the flag.                            *)
Waiting == thread \in {"timedWait", "expired", "parked", "check"}

QueuesAndTimes ==
  /\ calls \in Seq(Apis) /\ tasks \in Seq(Tasks)
  /\ main = "blocked" => calls # <<>>
  /\ unresponsive \in BOOLEAN /\ resumed \in BOOLEAN
  /\ deletes \in Nat

(* A flag that is set has a task on its way that clears it.                *)
FlagHasATask == Waiting /\ unresponsive => Queued("SetResponsive")

(* A watchdog that is stopped has been told so, and one is created where   *)
(* there is none.                                                          *)
StopIsTold ==
  /\ /\ main \in {"stopping", "restarting"}
     /\ thread \in {"timedWait", "expired", "parked", "check", "log", "logging", "crash", "post"}
     => done
  /\ main = "opening" => ~Started

(* After a sleep the thread parks until the flag is cleared, or finds it   *)
(* cleared, or exits.                                                      *)
SleepIsNoHang ==
  monitored /\ slept /\ Waiting =>
    \/ ~unresponsive
    \/ ~resumed /\ thread # "check"
    \/ done /\ thread = "timedWait"

(* The name of the current call is that of a call the process is in.       *)
ApiIsTrue ==
  /\ blockingApi = NoApi \/ blockingApi \in ToSet(calls)
  /\ ~Started => blockingApi = NoApi

(* The process is in suspected calls only, once the thread gave it up.     *)
CallsAreSuspect == GivenUp => ToSet(calls) \subseteq suspects

(* What is read, written and told is no name but a suspected call's.       *)
Suspect(api) == api \in suspects \cup {NoApi, Garbled}
LogIsTrue ==
  /\ Crashed => ~Alive
  /\ thread = "logging" => Suspect(logged)
  /\ file.state = "written" => process # "gone" /\ Logged /\ Suspect(file.api)
  /\ told # Absent => process = "gone" /\ Logged /\ Suspect(told.api)

WatchdogInv ==
  /\ QueuesAndTimes
  /\ FlagHasATask
  /\ StopIsTold
  /\ ApiIsTrue
  /\ CallsAreSuspect
  /\ LogIsTrue

(* A file that is open is not deleted, and what is logged is read.         *)
FileIsKept ==
  /\ Started => logFile \in {"linked", "invalid"}
  /\ Started /\ process # "gone" => deletes = 0
  /\ Logged /\ process # "gone" /\ logFile = "linked" => file.state = "written"
  /\ Logged /\ process = "gone" /\ logFile = "linked" => told # Absent

(***************************************************************************)
(* Sequences and their elements.                                           *)
(***************************************************************************)
LEMMA Appended ==
  ASSUME NEW S, NEW s \in Seq(S), NEW e \in S
  PROVE  /\ Append(s, e) \in Seq(S) /\ Append(s, e) # <<>>
         /\ ToSet(Append(s, e)) = ToSet(s) \cup {e}
<1>1. /\ Append(s, e) \in Seq(S) /\ Append(s, e) # <<>>
      /\ Len(Append(s, e)) = Len(s) + 1 /\ Append(s, e)[Len(s) + 1] = e
      /\ \A i \in 1 .. Len(s) : Append(s, e)[i] = s[i]
  BY AppendProperties
<1>2. DOMAIN s = 1 .. Len(s) /\ DOMAIN Append(s, e) = 1 .. Len(s) + 1 /\ Len(s) \in Nat
  BY <1>1
<1> QED BY <1>1, <1>2 DEF ToSet

LEMMA TailKept ==
  ASSUME NEW S, NEW s \in Seq(S), s # <<>>
  PROVE  /\ Tail(s) \in Seq(S)
         /\ Head(s) \in S
         /\ ToSet(s) \subseteq {Head(s)} \cup ToSet(Tail(s))
<1>1. /\ Tail(s) \in Seq(S) /\ Len(Tail(s)) = Len(s) - 1 /\ Len(s) \in Nat \ {0}
      /\ \A i \in 1 .. Len(Tail(s)) : Tail(s)[i] = s[i + 1]
      /\ Head(s) = s[1] /\ Head(s) \in S
  BY HeadTailProperties
<1>2. ASSUME NEW i \in 1 .. Len(s), i # 1
      PROVE  s[i] \in ToSet(Tail(s))
  <2>1. i - 1 \in 1 .. Len(Tail(s)) /\ (i - 1) + 1 = i
    BY <1>1, <1>2
  <2>2. Tail(s)[i - 1] = s[i]
    BY <1>1, <2>1
  <2>3. DOMAIN Tail(s) = 1 .. Len(Tail(s))
    BY <1>1
  <2> QED BY <2>1, <2>2, <2>3 DEF ToSet
<1>3. DOMAIN s = 1 .. Len(s)
  OBVIOUS
<1> QED BY <1>1, <1>2, <1>3 DEF ToSet

LEMMA FrontIsSeq ==
  ASSUME NEW S, NEW s \in Seq(S), s # <<>>
  PROVE  Front(s) \in Seq(S) /\ ToSet(Front(s)) \subseteq ToSet(s)
<1>1. Len(s) \in Nat \ {0} /\ DOMAIN s = 1 .. Len(s)
  OBVIOUS
<1>2. \A i \in 1 .. Len(s) - 1 : s[i] \in S
  BY <1>1
<1>3. /\ Front(s) \in Seq(S) /\ Len(Front(s)) = Len(s) - 1
      /\ \A i \in 1 .. Len(s) - 1 : Front(s)[i] = s[i]
  BY <1>1, <1>2, SubSeqProperties DEF Front
<1>4. DOMAIN Front(s) = 1 .. Len(s) - 1
  BY <1>3
<1> QED BY <1>1, <1>3, <1>4 DEF ToSet

LEMMA NothingQueued == ToSet(<<>>) = {}
BY DEF ToSet

(***************************************************************************)
(* Steps that leave the thread and its flag alone: those of script, but    *)
(* for creating a watchdog and joining its thread, and of the browser.     *)
(***************************************************************************)
ScriptSteps ==
  \/ Start \/ Stop \/ Restart
  \/ \E api \in Apis : EnterCall(api)
  \/ ReturnFromCall \/ EnterHandler \/ ReturnFromHandler
BrowserSteps == HandleDeleteLogFile \/ Kill \/ RenderProcessGone

ThreadStands ==
  /\ UNCHANGED <<thread, tasks, unresponsive, resumed, monitored, slept>>
  /\ done' = done \/ done' = TRUE
  /\ done' \/ main' \notin {"stopping", "restarting"} \/ main' = main
  /\ main' # "opening" \/ ~Started \/ main' = main

LEMMA ScriptLeavesThread == ScriptSteps => ThreadStands
<1> USE DEF ThreadStands, mainVars, threadVars, nameVars, eventVars, logVars, browserVars
<1>1. Start \/ EnterHandler \/ ReturnFromHandler => ThreadStands
  BY DEF Start, EnterHandler, ReturnFromHandler
<1>2. Stop \/ Restart => ThreadStands
  BY DEF Stop, Restart, Destroy
<1>3. ASSUME NEW api \in Apis, EnterCall(api) PROVE ThreadStands
  BY <1>3 DEF EnterCall
<1>4. ReturnFromCall => ThreadStands
  BY DEF ReturnFromCall
<1> QED BY <1>1, <1>2, <1>3, <1>4 DEF ScriptSteps

LEMMA BrowserLeavesThread ==
  BrowserSteps => ThreadStands /\ UNCHANGED <<main, calls, nameVars>>
<1> USE DEF ThreadStands, mainVars, threadVars, nameVars, eventVars, logVars, browserVars
<1>1. HandleDeleteLogFile => ThreadStands /\ UNCHANGED <<main, calls, nameVars>>
  BY DEF HandleDeleteLogFile
<1>2. Kill => ThreadStands /\ UNCHANGED <<main, calls, nameVars>>
  BY DEF Kill
<1>3. RenderProcessGone => ThreadStands /\ UNCHANGED <<main, calls, nameVars>>
  BY DEF RenderProcessGone
<1> QED BY <1>1, <1>2, <1>3 DEF BrowserSteps

LEMMA WatchdogCases ==
  ASSUME WatchdogNext
  PROVE  \/ ScriptSteps \/ BrowserSteps
         \/ \E usePowerMonitor, opened \in BOOLEAN : Created(usePowerMonitor, opened)
         \/ \E asked \in BOOLEAN : Joined(asked)
         \/ RunTask \/ ThreadNext \/ Suspend \/ Sleep \/ Relaunch
BY DEF WatchdogNext, MainNext, BrowserNext, ScriptSteps, BrowserSteps

(* What the machine's events do to the queue.                              *)
LEMMA Notified ==
  ASSUME WatchdogInv, NEW task \in Tasks, Notify(task)
  PROVE  tasks' \in Seq(Tasks) /\ ToSet(tasks) \subseteq ToSet(tasks')
<1>1. tasks \in Seq(Tasks)
  BY DEF WatchdogInv, QueuesAndTimes
<1>2. CASE Observing
  BY <1>1, <1>2, Appended DEF Notify
<1>3. CASE ~Observing
  BY <1>1, <1>3 DEF Notify
<1> QED BY <1>2, <1>3

(***************************************************************************)
(* One lemma for each part of the invariant.                               *)
(***************************************************************************)
LEMMA QueuesStep == WatchdogInv /\ WatchdogNext => QueuesAndTimes'
<1> SUFFICES ASSUME WatchdogInv, WatchdogNext PROVE QueuesAndTimes'
  OBVIOUS
<1> USE DEF mainVars, threadVars, nameVars, eventVars, logVars, browserVars, QueuesAndTimes
<1>0. QueuesAndTimes
  BY DEF WatchdogInv
<1>1. CASE ScriptSteps
  <2>1. UNCHANGED <<tasks, unresponsive, resumed, deletes>>
    <3>1. UNCHANGED <<tasks, unresponsive, resumed>>
      BY <1>1, ScriptLeavesThread DEF ThreadStands
    <3>2. UNCHANGED deletes
      BY <1>1 DEF ScriptSteps, Start, Stop, Restart, Destroy, EnterCall, ReturnFromCall,
                  EnterHandler, ReturnFromHandler
    <3> QED BY <3>1, <3>2
  <2>2. CASE Start \/ Stop \/ Restart \/ EnterHandler \/ ReturnFromHandler
    BY <2>2, <2>1, <1>0 DEF Start, Stop, Restart, Destroy, EnterHandler, ReturnFromHandler, Running
  <2>3. ASSUME NEW api \in Apis, EnterCall(api) PROVE QueuesAndTimes'
    <3>1. calls' \in Seq(Apis) /\ calls' # <<>>
      BY <2>3, <1>0, Appended DEF EnterCall
    <3> QED BY <3>1, <2>1, <1>0
  <2>4. CASE ReturnFromCall
    <3>1. calls' \in Seq(Apis) /\ main' # "blocked"
      BY <2>4, <1>0, FrontIsSeq DEF ReturnFromCall
    <3> QED BY <3>1, <2>1, <1>0
  <2> QED BY <1>1, <2>2, <2>3, <2>4 DEF ScriptSteps
<1>2. CASE BrowserSteps
  <2>1. deletes' \in Nat
    BY <1>2, <1>0 DEF BrowserSteps, HandleDeleteLogFile, Kill, RenderProcessGone
  <2> QED BY <1>2, <2>1, <1>0, BrowserLeavesThread DEF ThreadStands
<1>3. ASSUME NEW usePowerMonitor \in BOOLEAN, NEW opened \in BOOLEAN,
             Created(usePowerMonitor, opened)
      PROVE  QueuesAndTimes'
  BY <1>3, <1>0 DEF Created, Create
<1>4. ASSUME NEW asked \in BOOLEAN, Joined(asked)
      PROVE  QueuesAndTimes'
  BY <1>4, <1>0 DEF Joined, DeleteLogFile
<1>5. CASE RunTask
  <2>1. tasks' \in Seq(Tasks)
    BY <1>5, <1>0, TailKept DEF RunTask
  <2>2. unresponsive' \in BOOLEAN /\ resumed' \in BOOLEAN
    BY <1>5, <1>0 DEF RunTask, OnResume
  <2> QED BY <1>5, <2>1, <2>2, <1>0 DEF RunTask
<1>6. CASE ThreadNext
  <2>1. CASE PostTask
    <3>1. tasks' \in Seq(Tasks)
      BY <2>1, <1>0, Appended DEF PostTask, Tasks
    <3> QED BY <2>1, <3>1, <1>0 DEF PostTask
  <2>2. CASE ~PostTask
    BY <1>6, <2>2, <1>0
       DEF ThreadNext, WaitSignalled, WaitExpired, WaitResumed, TestAndSet, ReadBlockingApi,
           WriteLog, Crash
  <2> QED BY <2>1, <2>2
<1>7. CASE Suspend \/ Sleep
  <2>1. tasks' \in Seq(Tasks)
    BY <1>7, Notified DEF Suspend, Sleep, Tasks
  <2> QED BY <1>7, <2>1, <1>0 DEF Suspend, Sleep
<1>8. CASE Relaunch
  <2>1. calls' \in Seq(Apis) /\ tasks' \in Seq(Tasks) /\ main' # "blocked"
    BY <1>8 DEF Relaunch
  <2>2. unresponsive' \in BOOLEAN /\ resumed' \in BOOLEAN /\ deletes' \in Nat
    BY <1>8, <1>0 DEF Relaunch
  <2> QED BY <2>1, <2>2
<1> QED BY <1>1, <1>2, <1>3, <1>4, <1>5, <1>6, <1>7, <1>8, WatchdogCases

LEMMA FlagStep == WatchdogInv /\ WatchdogNext => FlagHasATask'
<1> SUFFICES ASSUME WatchdogInv, WatchdogNext PROVE FlagHasATask'
  OBVIOUS
<1> USE DEF eventVars, nameVars, threadVars, logVars, browserVars, FlagHasATask, Waiting, Queued
<1>0. FlagHasATask /\ tasks \in Seq(Tasks)
  BY DEF WatchdogInv, QueuesAndTimes
<1>1. CASE ScriptSteps \/ BrowserSteps
  BY <1>1, <1>0, ScriptLeavesThread, BrowserLeavesThread DEF ThreadStands
<1>2. ASSUME NEW usePowerMonitor \in BOOLEAN, NEW opened \in BOOLEAN,
             Created(usePowerMonitor, opened)
      PROVE  FlagHasATask'
  BY <1>2 DEF Created, Create
<1>3. ASSUME NEW asked \in BOOLEAN, Joined(asked)
      PROVE  FlagHasATask'
  BY <1>3 DEF Joined
<1>4. CASE RunTask
  <2>1. ToSet(tasks) \subseteq {Head(tasks)} \cup ToSet(tasks')
    BY <1>4, <1>0, TailKept DEF RunTask
  <2>2. CASE Head(tasks) \in {"SetResponsive", "OnResume"}
    BY <2>2, <1>4 DEF RunTask, OnResume
  <2>3. CASE Head(tasks) \notin {"SetResponsive", "OnResume"}
    BY <2>1, <2>3, <1>4, <1>0 DEF RunTask
  <2> QED BY <2>2, <2>3
<1>5. CASE ThreadNext
  <2>1. CASE PostTask
    <3>1. "SetResponsive" \in ToSet(tasks')
      BY <2>1, <1>0, Appended DEF PostTask, Tasks
    <3> QED BY <3>1
  <2>2. CASE ~PostTask
    BY <1>5, <2>2, <1>0
       DEF ThreadNext, WaitSignalled, WaitExpired, WaitResumed, TestAndSet, ReadBlockingApi,
           WriteLog, Crash
  <2> QED BY <2>1, <2>2
<1>6. CASE Suspend \/ Sleep
  <2>1. ToSet(tasks) \subseteq ToSet(tasks')
    BY <1>6, Notified DEF Suspend, Sleep, Tasks
  <2> QED BY <1>6, <2>1, <1>0 DEF Suspend, Sleep
<1>7. CASE Relaunch
  BY <1>7 DEF Relaunch
<1> QED BY <1>1, <1>2, <1>3, <1>4, <1>5, <1>6, <1>7, WatchdogCases

LEMMA StopStep == WatchdogInv /\ WatchdogNext => StopIsTold'
<1> SUFFICES ASSUME WatchdogInv, WatchdogNext PROVE StopIsTold'
  OBVIOUS
<1> USE DEF mainVars, eventVars, nameVars, threadVars, logVars, browserVars, StopIsTold, Started
<1>0. StopIsTold
  BY DEF WatchdogInv
<1>1. CASE ScriptSteps \/ BrowserSteps
  BY <1>1, <1>0, ScriptLeavesThread, BrowserLeavesThread DEF ThreadStands
<1>2. ASSUME NEW usePowerMonitor \in BOOLEAN, NEW opened \in BOOLEAN,
             Created(usePowerMonitor, opened)
      PROVE  StopIsTold'
  BY <1>2 DEF Created
<1>3. ASSUME NEW asked \in BOOLEAN, Joined(asked)
      PROVE  StopIsTold'
  BY <1>3 DEF Joined, Started
<1>4. CASE RunTask
  BY <1>4, <1>0 DEF RunTask, Running
<1>5. CASE ThreadNext
  <2>1. CASE PostTask
    <3>1. thread = "post" /\ thread' = "timedWait" /\ UNCHANGED <<main, done>>
      BY <2>1 DEF PostTask
    <3> QED BY <3>1, <1>0
  <2>2. CASE ~PostTask
    BY <1>5, <2>2, <1>0
       DEF ThreadNext, WaitSignalled, WaitExpired, WaitResumed, TestAndSet, ReadBlockingApi,
           WriteLog, Crash
  <2> QED BY <2>1, <2>2
<1>6. CASE Suspend \/ Sleep
  BY <1>6, <1>0 DEF Suspend, Sleep
<1>7. CASE Relaunch
  BY <1>7 DEF Relaunch
<1> QED BY <1>1, <1>2, <1>3, <1>4, <1>5, <1>6, <1>7, WatchdogCases

LEMMA ApiStep == WatchdogInv /\ WatchdogNext => ApiIsTrue'
<1> SUFFICES ASSUME WatchdogInv, WatchdogNext PROVE ApiIsTrue'
  OBVIOUS
<1> USE DEF mainVars, eventVars, nameVars, threadVars, logVars, browserVars, ApiIsTrue, Started,
            GivenUp
<1>0. ApiIsTrue /\ calls \in Seq(Apis)
  BY DEF WatchdogInv, QueuesAndTimes
<1>1. CASE ScriptSteps
  <2>0. UNCHANGED thread
    BY <1>1, ScriptLeavesThread DEF ThreadStands
  <2>1. CASE Start \/ Stop \/ Restart \/ EnterHandler \/ ReturnFromHandler
    BY <2>1, <1>0 DEF Start, Stop, Restart, Destroy, EnterHandler, ReturnFromHandler
  <2>2. ASSUME NEW api \in Apis, EnterCall(api) PROVE ApiIsTrue'
    <3>1. ToSet(calls') = ToSet(calls) \cup {api}
      BY <2>2, <1>0, Appended DEF EnterCall
    <3> QED BY <3>1, <2>0, <2>2, <1>0 DEF EnterCall, SetBlockingApi
  <2>3. CASE ReturnFromCall
    BY <2>3, <2>0, <1>0 DEF ReturnFromCall, ClearBlockingApi, SetBlockingApi
  <2> QED BY <1>1, <2>1, <2>2, <2>3 DEF ScriptSteps
<1>2. CASE BrowserSteps
  BY <1>2, <1>0, BrowserLeavesThread DEF ThreadStands
<1>3. ASSUME NEW usePowerMonitor \in BOOLEAN, NEW opened \in BOOLEAN,
             Created(usePowerMonitor, opened)
      PROVE  ApiIsTrue'
  BY <1>3 DEF Created, Create
<1>4. ASSUME NEW asked \in BOOLEAN, Joined(asked)
      PROVE  ApiIsTrue'
  BY <1>4 DEF Joined
<1>5. CASE RunTask
  BY <1>5, <1>0 DEF RunTask, OnResume
<1>6. CASE ThreadNext
  BY <1>6, <1>0
     DEF ThreadNext, WaitSignalled, WaitExpired, WaitResumed, TestAndSet, ReadBlockingApi, WriteLog,
         Crash, PostTask
<1>7. CASE Suspend \/ Sleep
  BY <1>7, <1>0 DEF Suspend, Sleep
<1>8. CASE Relaunch
  BY <1>8 DEF Relaunch
<1> QED BY <1>1, <1>2, <1>3, <1>4, <1>5, <1>6, <1>7, <1>8, WatchdogCases

LEMMA SuspectsStep == WatchdogInv /\ WatchdogNext => CallsAreSuspect'
<1> SUFFICES ASSUME WatchdogInv, WatchdogNext PROVE CallsAreSuspect'
  OBVIOUS
<1> USE DEF mainVars, eventVars, nameVars, threadVars, logVars, browserVars, CallsAreSuspect,
            GivenUp
<1>0. CallsAreSuspect /\ calls \in Seq(Apis)
  BY DEF WatchdogInv, QueuesAndTimes
<1>1. CASE ScriptSteps
  <2>0. UNCHANGED thread
    BY <1>1, ScriptLeavesThread DEF ThreadStands
  <2>1. CASE Start \/ Stop \/ Restart \/ EnterHandler \/ ReturnFromHandler
    BY <2>1, <1>0 DEF Start, Stop, Restart, Destroy, EnterHandler, ReturnFromHandler
  <2>2. ASSUME NEW api \in Apis, EnterCall(api) PROVE CallsAreSuspect'
    <3>1. ToSet(calls') = ToSet(calls) \cup {api}
      BY <2>2, <1>0, Appended DEF EnterCall
    <3> QED BY <3>1, <2>0, <2>2, <1>0 DEF EnterCall
  <2>3. CASE ReturnFromCall
    <3>1. calls # <<>>
      BY <2>3 DEF ReturnFromCall, WatchdogInv, QueuesAndTimes
    <3>2. ToSet(calls') \subseteq ToSet(calls)
      BY <2>3, <3>1, <1>0, FrontIsSeq DEF ReturnFromCall
    <3> QED BY <2>3, <3>2, <2>0, <1>0 DEF ReturnFromCall
  <2> QED BY <1>1, <2>1, <2>2, <2>3 DEF ScriptSteps
<1>2. CASE BrowserSteps
  BY <1>2, <1>0, BrowserLeavesThread DEF ThreadStands
<1>3. ASSUME NEW usePowerMonitor \in BOOLEAN, NEW opened \in BOOLEAN,
             Created(usePowerMonitor, opened)
      PROVE  CallsAreSuspect'
  BY <1>3 DEF Created, Create
<1>4. ASSUME NEW asked \in BOOLEAN, Joined(asked)
      PROVE  CallsAreSuspect'
  BY <1>4 DEF Joined
<1>5. CASE RunTask
  BY <1>5, <1>0 DEF RunTask, OnResume
<1>6. CASE ThreadNext
  BY <1>6, <1>0
     DEF ThreadNext, WaitSignalled, WaitExpired, WaitResumed, TestAndSet, ReadBlockingApi, WriteLog,
         Crash, PostTask
<1>7. CASE Suspend \/ Sleep
  BY <1>7, <1>0 DEF Suspend, Sleep
<1>8. CASE Relaunch
  BY <1>8 DEF Relaunch
<1> QED BY <1>1, <1>2, <1>3, <1>4, <1>5, <1>6, <1>7, <1>8, WatchdogCases

(* A log is written by a thread that goes on to its crash only, and read   *)
(* when the process's end is noticed; in between nothing runs in it.       *)
LEMMA LogStep == WatchdogInv /\ WatchdogNext => LogIsTrue'
<1> SUFFICES ASSUME WatchdogInv, WatchdogNext PROVE LogIsTrue'
  OBVIOUS
<1> USE DEF mainVars, eventVars, nameVars, threadVars, logVars, browserVars,
            LogIsTrue, Suspect, Crashed, Logged, Alive
<1>0. LogIsTrue /\ ApiIsTrue /\ CallsAreSuspect
  BY DEF WatchdogInv
<1>1. Absent.state = "absent" /\ Empty.state = "empty" /\ Absent.api = NoApi
      /\ \A api : Written(api).state = "written" /\ Written(api).api = api
  BY DEF Absent, Empty, Written, Content
<1>2. CASE ScriptSteps
  <2>1. process = "alive" /\ UNCHANGED <<process, file, told, thread>>
    BY <1>2, ScriptLeavesThread
       DEF ScriptSteps, Start, Stop, Restart, Destroy, EnterCall, ReturnFromCall,
           EnterHandler, ReturnFromHandler, Running, ThreadStands
  <2>2. CASE Start \/ Stop \/ Restart \/ EnterHandler \/ ReturnFromHandler
    <3>1. UNCHANGED <<logged, suspects>>
      BY <2>2 DEF Start, Stop, Restart, Destroy, EnterHandler, ReturnFromHandler
    <3> QED BY <2>1, <3>1, <1>0
  <2>3. ASSUME NEW api \in Apis, EnterCall(api) PROVE LogIsTrue'
    <3>1. suspects \subseteq suspects' /\ (thread = "logging" => api \in suspects')
      BY <2>3 DEF EnterCall, GivenUp
    <3>2. logged' \in IF thread = "logging" THEN {logged, api, Garbled} ELSE {logged}
      BY <2>3 DEF EnterCall, SetBlockingApi
    <3> QED BY <2>1, <3>1, <3>2, <1>0
  <2>4. CASE ReturnFromCall
    <3>1. UNCHANGED suspects
          /\ logged' \in IF thread = "logging" THEN {logged, NoApi, Garbled} ELSE {logged}
      BY <2>4 DEF ReturnFromCall, ClearBlockingApi, SetBlockingApi
    <3> QED BY <2>1, <3>1, <1>0
  <2> QED BY <1>2, <2>2, <2>3, <2>4 DEF ScriptSteps
<1>3. CASE BrowserSteps
  <2>0. UNCHANGED <<thread, logged, suspects>>
    BY <1>3, BrowserLeavesThread DEF ThreadStands
  <2>1. CASE HandleDeleteLogFile
    BY <2>0, <2>1, <1>0, <1>1 DEF HandleDeleteLogFile
  <2>2. CASE Kill
    BY <2>0, <2>2, <1>0 DEF Kill
  <2>3. CASE RenderProcessGone
    BY <2>0, <2>3, <1>0, <1>1 DEF RenderProcessGone, Metadata
  <2> QED BY <1>3, <2>1, <2>2, <2>3 DEF BrowserSteps
<1>4. ASSUME NEW usePowerMonitor \in BOOLEAN, NEW opened \in BOOLEAN,
             Created(usePowerMonitor, opened)
      PROVE  LogIsTrue'
  <2>1. thread = "none"
    BY <1>4 DEF Created, WatchdogInv, StopIsTold, Started
  <2> QED BY <2>1, <1>0, <1>1, <1>4 DEF Created, Create, OpenLogFile
<1>5. ASSUME NEW asked \in BOOLEAN, Joined(asked)
      PROVE  LogIsTrue'
  BY <1>0, <1>5 DEF Joined
<1>6. CASE RunTask
  <2>1. /\ process = "alive" /\ UNCHANGED <<process, file, told, logged, suspects>>
        /\ thread' = thread \/ (thread = "parked" /\ thread' = "check")
    BY <1>6 DEF RunTask, OnResume, Running
  <2> QED BY <2>1, <1>0
<1>7. CASE ThreadNext
  <2>1. CASE TestAndSet
    <3>1. /\ process = "alive" /\ UNCHANGED <<process, file, told, logged>>
          /\ thread = "check" /\ thread' \in {"log", "post"}
      BY <2>1 DEF TestAndSet
    <3> QED BY <3>1, <1>0
  <2>2. CASE ReadBlockingApi
    <3>1. Suspect(blockingApi)
      BY <2>2, <1>0 DEF ReadBlockingApi, ApiIsTrue, CallsAreSuspect, GivenUp
    <3>2. /\ process = "alive" /\ UNCHANGED <<process, file, told, suspects>>
          /\ thread = "log"
          /\ thread' = "crash" \/ (thread' = "logging" /\ logged' = blockingApi)
      BY <2>2 DEF ReadBlockingApi
    <3> QED BY <3>1, <3>2, <1>0
  <2>3. CASE WriteLog
    BY <2>3, <1>0, <1>1 DEF WriteLog
  <2>4. CASE Crash
    BY <2>4, <1>0 DEF Crash
  <2>5. CASE WaitSignalled \/ WaitExpired \/ WaitResumed \/ PostTask
    <3>1. /\ process = "alive" /\ UNCHANGED <<process, file, told, logged, suspects>>
          /\ thread \notin {"logging", "crash", "crashed"}
          /\ thread' \notin {"logging", "crash", "crashed"}
      BY <2>5 DEF WaitSignalled, WaitExpired, WaitResumed, PostTask
    <3> QED BY <3>1, <1>0
  <2> QED BY <1>7, <2>1, <2>2, <2>3, <2>4, <2>5 DEF ThreadNext
<1>8. CASE Suspend \/ Sleep
  BY <1>8, <1>0 DEF Suspend, Sleep
<1>9. CASE Relaunch
  BY <1>9, <1>0, <1>1 DEF Relaunch
<1> QED BY <1>2, <1>3, <1>4, <1>5, <1>6, <1>7, <1>8, <1>9, WatchdogCases

LEMMA WatchdogInvStep == WatchdogInv /\ [WatchdogNext]_watchdogVars => WatchdogInv'
<1>1. WatchdogInv /\ WatchdogNext => WatchdogInv'
  BY QueuesStep, FlagStep, StopStep, ApiStep, SuspectsStep, LogStep DEF WatchdogInv
<1>2. WatchdogInv /\ UNCHANGED watchdogVars => WatchdogInv'
  BY DEF watchdogVars, mainVars, eventVars, nameVars, threadVars, logVars, browserVars, WatchdogInv,
         QueuesAndTimes, FlagHasATask, Waiting, Queued, StopIsTold, ApiIsTrue, Started,
         CallsAreSuspect, GivenUp, LogIsTrue, Suspect, Crashed, Logged, Alive
<1> QED BY <1>1, <1>2

LEMMA WatchdogInvInit == WatchdogInit => WatchdogInv
<1> SUFFICES ASSUME WatchdogInit PROVE WatchdogInv
  OBVIOUS
<1> USE DEF WatchdogInit
<1>1. Absent.state = "absent"
  BY DEF Absent, Content
<1>2. QueuesAndTimes
  <2>1. calls \in Seq(Apis) /\ tasks \in Seq(Tasks) /\ main # "blocked"
    OBVIOUS
  <2>2. unresponsive \in BOOLEAN /\ resumed \in BOOLEAN /\ deletes \in Nat
    OBVIOUS
  <2> QED BY <2>1, <2>2 DEF QueuesAndTimes
<1>3. FlagHasATask /\ StopIsTold /\ ApiIsTrue /\ CallsAreSuspect
  BY DEF FlagHasATask, Waiting, StopIsTold, ApiIsTrue, CallsAreSuspect, GivenUp
<1>4. LogIsTrue
  BY <1>1 DEF LogIsTrue, Crashed, Logged
<1> QED BY <1>2, <1>3, <1>4 DEF WatchdogInv

LEMMA WatchdogInvHolds == WatchdogSpec => []WatchdogInv
BY WatchdogInvInit, WatchdogInvStep, PTL DEF WatchdogSpec

LEMMA GiveUpIsTestAndSet ==
  ASSUME [WatchdogNext]_watchdogVars, GivesUp
  PROVE  TestAndSet
<1> USE DEF GivesUp, mainVars, eventVars, nameVars, threadVars, logVars, browserVars
<1>1. CASE ScriptSteps \/ BrowserSteps
  BY <1>1, ScriptLeavesThread, BrowserLeavesThread DEF ThreadStands
<1>2. ASSUME NEW usePowerMonitor \in BOOLEAN, NEW opened \in BOOLEAN,
             Created(usePowerMonitor, opened)
      PROVE  FALSE
  BY <1>2 DEF Created, Create
<1>3. ASSUME NEW asked \in BOOLEAN, Joined(asked)
      PROVE  FALSE
  BY <1>3 DEF Joined
<1>4. CASE RunTask
  BY <1>4 DEF RunTask, OnResume
<1>5. CASE ThreadNext
  BY <1>5 DEF ThreadNext, WaitSignalled, WaitExpired, WaitResumed, ReadBlockingApi, WriteLog,
              Crash, PostTask
<1>6. CASE Suspend \/ Sleep \/ Relaunch
  BY <1>6 DEF Suspend, Sleep, Relaunch
<1>7. CASE UNCHANGED watchdogVars
  BY <1>7 DEF watchdogVars
<1> QED BY <1>1, <1>2, <1>3, <1>4, <1>5, <1>6, <1>7, WatchdogCases

(***************************************************************************)
(* Where the thread stands, and what is queued.                            *)
(***************************************************************************)

(* Only a watchdog that is stopped is told to exit, and has; a thread is    *)
(* parked for a suspension, of which none is told without the monitor.     *)
PlacesFit ==
  /\ done => Stopping
  /\ thread = "exited" => Stopping /\ ~done
  /\ thread = "parked" => ~resumed
  /\ ~Started => tasks = <<>>
  /\ main = "opening" => ~Started
  /\ Stopping => Started
  /\ ~monitored => ~Queued("OnSuspend") /\ (Started => resumed)

(* A task of the watchdog's is posted after the flag was set, and what     *)
(* clears the flag leaves the queue: there is room for the task to come.   *)
Room(n) == Len(tasks) + n <= MaxTasks + 2
RoomForATask ==
  /\ Room(0)
  /\ thread = "post" \/ ~unresponsive => Room(1)
  /\ thread = "post" /\ ~unresponsive => Room(2)

Places == {"none", "timedWait", "expired", "parked", "check", "log", "logging", "crash",
           "post", "exited", "crashed"}

KindsFit ==
  /\ main \in {"running", "blocked", "opening", "stopping", "restarting"}
  /\ thread \in Places /\ done \in BOOLEAN /\ monitored \in BOOLEAN
  /\ blockingApi \in Apis \cup {NoApi} /\ logged \in Names /\ suspects \subseteq Apis
  /\ power \in {"awake", "suspending"} /\ slept \in BOOLEAN
  /\ process \in {"alive", "ended", "gone"}
  /\ logFile \in {"none", "invalid", "linked", "unlinked"}
  /\ file \in Contents /\ told \in Contents

(* A deletion is sent when the thread has exited.                          *)
BoundsFit ==
  /\ Len(calls) <= MaxDepth
  /\ deletes <= MaxDeletes + 1
  /\ Started \/ main = "opening" => deletes <= MaxDeletes
  /\ main = "restarting" => deletes < MaxDeletes

StandInv == PlacesFit /\ RoomForATask /\ KindsFit /\ BoundsFit

LEMMA QueueLengths ==
  /\ Len(<<>>) = 0
  /\ \A s \in Seq(Tasks) : Len(s) \in Nat
  /\ \A s \in Seq(Tasks), e \in Tasks : Len(Append(s, e)) = Len(s) + 1
  /\ \A s \in Seq(Tasks) : s # <<>> => Len(Tail(s)) = Len(s) - 1
  /\ \A s \in Seq(Tasks) : s # <<>> => ToSet(Tail(s)) \subseteq ToSet(s)
<1>1. \A s \in Seq(Tasks), e \in Tasks : Len(Append(s, e)) = Len(s) + 1
  BY AppendProperties
<1>2. ASSUME NEW s \in Seq(Tasks), s # <<>>
      PROVE  Len(Tail(s)) = Len(s) - 1 /\ ToSet(Tail(s)) \subseteq ToSet(s)
  <2>1. /\ Len(Tail(s)) = Len(s) - 1 /\ Len(s) \in Nat /\ Tail(s) \in Seq(Tasks)
        /\ \A i \in 1 .. Len(Tail(s)) : Tail(s)[i] = s[i + 1]
    BY <1>2, HeadTailProperties
  <2>2. DOMAIN Tail(s) = 1 .. Len(Tail(s)) /\ DOMAIN s = 1 .. Len(s)
    BY <2>1
  <2>3. \A i \in 1 .. Len(Tail(s)) : i + 1 \in 1 .. Len(s)
    BY <2>1
  <2> QED BY <2>1, <2>2, <2>3 DEF ToSet
<1> QED BY <1>1, <1>2

LEMMA PlacesStep == WatchdogInv /\ StandInv /\ WatchdogNext => PlacesFit'
<1> SUFFICES ASSUME WatchdogInv, StandInv, WatchdogNext PROVE PlacesFit'
  OBVIOUS
<1> USE DEF PlacesFit, Stopping, Started, mainVars, threadVars, nameVars, eventVars, logVars,
            browserVars
<1>0. PlacesFit /\ tasks \in Seq(Tasks) /\ thread \in Places
  BY NothingQueued DEF StandInv, WatchdogInv, QueuesAndTimes, KindsFit
<1>1. CASE ScriptSteps
  BY <1>0, <1>1, ScriptLeavesThread
     DEF ScriptSteps, Start, Stop, Restart, Destroy, EnterCall, ReturnFromCall, EnterHandler,
         ReturnFromHandler,
         Running, Queued
<1>2. CASE BrowserSteps
  BY <1>0, <1>2 DEF BrowserSteps, HandleDeleteLogFile, Kill, RenderProcessGone, Queued
<1>3. ASSUME NEW usePowerMonitor \in BOOLEAN, NEW opened \in BOOLEAN, Created(usePowerMonitor, opened)
      PROVE  PlacesFit'
  BY <1>0, <1>3, NothingQueued DEF Created, Create, Queued
<1>4. ASSUME NEW asked \in BOOLEAN, Joined(asked) PROVE PlacesFit'
  BY <1>0, <1>4, NothingQueued DEF Joined, DeleteLogFile, Queued
<1>5. CASE RunTask
  <2>1. ToSet(tasks') \subseteq ToSet(tasks) /\ Head(tasks) \in ToSet(tasks)
    <3>1. tasks # <<>> /\ tasks' = Tail(tasks)
      BY <1>5 DEF RunTask
    <3>2. Head(tasks) = tasks[1] /\ 1 \in DOMAIN tasks
      BY <1>0, <3>1
    <3> QED BY <1>0, <3>1, <3>2, QueueLengths DEF ToSet
  <2>2. Started
    BY <1>0, <1>5 DEF RunTask
  <2> QED BY <1>0, <1>5, <2>1, <2>2 DEF RunTask, OnResume, Running, Queued
<1>6. CASE ThreadNext
  <2>1. CASE PostTask
    <3>1. ToSet(tasks') = ToSet(tasks) \cup {"SetResponsive"}
      BY <1>0, <2>1, Appended DEF PostTask, Tasks
    <3> QED BY <1>0, <2>1, <3>1 DEF PostTask, Queued
  <2>2. CASE ~PostTask
    BY <1>0, <1>6, <2>2
       DEF ThreadNext, WaitSignalled, WaitExpired, WaitResumed, TestAndSet, ReadBlockingApi,
           WriteLog, Crash, Queued
  <2> QED BY <2>1, <2>2
<1>7. CASE Suspend \/ Sleep
  <2>1. tasks' = tasks \/ (monitored /\ Started)
    BY <1>7 DEF Suspend, Sleep, Notify, Observing
  <2> QED BY <1>0, <1>7, <2>1 DEF Suspend, Sleep, Queued
<1>8. CASE Relaunch
  BY <1>8, NothingQueued DEF Relaunch, Queued
<1> QED BY <1>1, <1>2, <1>3, <1>4, <1>5, <1>6, <1>7, <1>8, WatchdogCases

LEMMA RoomStep == WatchdogInv /\ StandInv /\ WatchdogNext => RoomForATask'
<1> SUFFICES ASSUME WatchdogInv, StandInv, WatchdogNext PROVE RoomForATask'
  OBVIOUS
<1> USE DEF mainVars, threadVars, nameVars, eventVars, logVars, browserVars
<1>0. /\ RoomForATask /\ PlacesFit /\ tasks \in Seq(Tasks) /\ unresponsive \in BOOLEAN
      /\ MaxTasks \in Nat
  BY WatchdogAssumption DEF StandInv, WatchdogInv, QueuesAndTimes
<1> DEFINE n == Len(tasks)
<1>01. n \in Nat
  BY <1>0, QueueLengths
<1> HIDE DEF n
<1>02. ASSUME UNCHANGED <<tasks, unresponsive>>, thread' = thread \/ thread' # "post"
       PROVE  RoomForATask'
  BY <1>0, <1>02 DEF RoomForATask, Room
<1>03. ASSUME tasks' = <<>>, thread' # "post" PROVE RoomForATask'
  <2>1. Len(tasks') = 0
    BY <1>03, QueueLengths
  <2>2. Room(0)' /\ Room(1)'
    BY <1>0, <2>1 DEF Room
  <2> QED BY <1>03, <2>2 DEF RoomForATask
<1>1. CASE ScriptSteps \/ BrowserSteps
  BY <1>1, <1>02, ScriptLeavesThread, BrowserLeavesThread DEF ThreadStands
<1>2. ASSUME NEW usePowerMonitor \in BOOLEAN, NEW opened \in BOOLEAN, Created(usePowerMonitor, opened)
      PROVE  RoomForATask'
  <2>1. tasks' = <<>> /\ thread' # "post"
    BY <1>0, <1>2 DEF Created, Create, PlacesFit
  <2> QED BY <1>03, <2>1
<1>3. ASSUME NEW asked \in BOOLEAN, Joined(asked) PROVE RoomForATask'
  BY <1>03, <1>3 DEF Joined
<1>4. CASE RunTask
  <2>1. tasks # <<>> /\ tasks' = Tail(tasks)
        /\ (thread' = thread \/ (thread = "parked" /\ thread' = "check"))
    BY <1>4 DEF RunTask, OnResume
  <2>2. Len(tasks') = n - 1 /\ Len(tasks) = n
    BY <1>0, <2>1, QueueLengths DEF n
  <2>4. Room(0) => Room(0)' /\ Room(1)'
    BY <1>0, <1>01, <2>2 DEF Room
  <2>5. Room(1) => Room(2)'
    BY <1>0, <1>01, <2>2 DEF Room
  <2> QED BY <1>0, <2>1, <2>4, <2>5 DEF RoomForATask
<1>5. CASE ThreadNext
  <2>1. CASE PostTask
    <3>1. tasks' = Append(tasks, "SetResponsive") /\ thread = "post" /\ thread' # "post"
          /\ UNCHANGED unresponsive
      BY <2>1 DEF PostTask
    <3>2. Len(tasks') = n + 1 /\ Len(tasks) = n
      BY <1>0, <3>1, QueueLengths DEF n, Tasks
    <3>3. Room(1) => Room(0)'
      BY <1>0, <1>01, <3>2 DEF Room
    <3>4. Room(2) => Room(1)'
      BY <1>0, <1>01, <3>2 DEF Room
    <3> QED BY <1>0, <3>1, <3>3, <3>4 DEF RoomForATask
  <2>2. CASE TestAndSet
    <3>1. UNCHANGED tasks /\ unresponsive' /\ thread # "post" /\ (~unresponsive \/ thread' # "post")
      BY <1>0, <2>2 DEF TestAndSet
    <3>2. \A k \in {0, 1} : Room(k) => Room(k)'
      BY <3>1 DEF Room
    <3> QED BY <1>0, <3>1, <3>2 DEF RoomForATask
  <2>3. CASE ~PostTask /\ ~TestAndSet
    BY <1>02, <1>5, <2>3
       DEF ThreadNext, WaitSignalled, WaitExpired, WaitResumed, ReadBlockingApi, WriteLog, Crash
  <2> QED BY <2>1, <2>2, <2>3
<1>6. CASE Suspend \/ Sleep
  <2>1. UNCHANGED <<thread, unresponsive>> /\ n < MaxTasks
    BY <1>6 DEF Suspend, Sleep, n
  <2>2. tasks' = tasks \/ \E e \in Tasks : tasks' = Append(tasks, e)
    BY <1>6 DEF Suspend, Sleep, Notify, Tasks
  <2>3. Len(tasks') = n \/ Len(tasks') = n + 1
    BY <1>0, <2>2, QueueLengths DEF n
  <2>4. Room(0)' /\ Room(1)' /\ Room(2)'
    BY <1>0, <1>01, <2>1, <2>3 DEF Room
  <2> QED BY <2>4 DEF RoomForATask
<1>7. CASE Relaunch
  BY <1>03, <1>7 DEF Relaunch
<1> QED BY <1>1, <1>2, <1>3, <1>4, <1>5, <1>6, <1>7, WatchdogCases

LEMMA KindsStep == WatchdogInv /\ StandInv /\ WatchdogNext => KindsFit'
<1> SUFFICES ASSUME WatchdogInv, StandInv, WatchdogNext PROVE KindsFit'
  OBVIOUS
<1> USE DEF KindsFit, Places, Names, mainVars, threadVars, nameVars, eventVars, logVars, browserVars
<1>0. KindsFit
  BY DEF StandInv
<1>1. Absent \in Contents /\ Empty \in Contents /\ \A api \in Names : Written(api) \in Contents
  BY DEF Contents
<1>2. CASE Start \/ Stop \/ Restart \/ EnterHandler \/ ReturnFromHandler
  BY <1>0, <1>2 DEF Start, Stop, Restart, Destroy, EnterHandler, ReturnFromHandler
<1>3. ASSUME NEW api \in Apis, EnterCall(api) PROVE KindsFit'
  BY <1>0, <1>3 DEF EnterCall, SetBlockingApi
<1>4. CASE ReturnFromCall
  BY <1>0, <1>4 DEF ReturnFromCall, ClearBlockingApi, SetBlockingApi
<1>5. CASE BrowserSteps
  <2>1. CASE HandleDeleteLogFile
    BY <1>0, <1>1, <2>1 DEF HandleDeleteLogFile
  <2>2. CASE Kill
    BY <1>0, <2>2 DEF Kill
  <2>3. CASE RenderProcessGone
    BY <1>0, <1>1, <2>3 DEF RenderProcessGone, Metadata
  <2> QED BY <1>5, <2>1, <2>2, <2>3 DEF BrowserSteps
<1>6. ASSUME NEW usePowerMonitor \in BOOLEAN, NEW opened \in BOOLEAN, Created(usePowerMonitor, opened)
      PROVE  KindsFit'
  BY <1>0, <1>1, <1>6 DEF Created, Create, OpenLogFile
<1>7. ASSUME NEW asked \in BOOLEAN, Joined(asked) PROVE KindsFit'
  BY <1>0, <1>7 DEF Joined, DeleteLogFile
<1>8. CASE RunTask
  BY <1>0, <1>8 DEF RunTask, OnResume
<1>9. CASE ThreadNext
  <2>1. CASE TestAndSet
    <3>1. ToSet(calls) \subseteq Apis
      BY DEF WatchdogInv, QueuesAndTimes, ToSet
    <3> QED BY <1>0, <2>1, <3>1 DEF TestAndSet
  <2>2. CASE ReadBlockingApi \/ WriteLog \/ Crash
    BY <1>0, <1>1, <2>2 DEF ReadBlockingApi, WriteLog, Crash
  <2>3. CASE WaitSignalled \/ WaitExpired \/ WaitResumed \/ PostTask
    BY <1>0, <2>3 DEF WaitSignalled, WaitExpired, WaitResumed, PostTask
  <2> QED BY <1>9, <2>1, <2>2, <2>3 DEF ThreadNext
<1>10. CASE Suspend \/ Sleep
  BY <1>0, <1>10 DEF Suspend, Sleep
<1>11. CASE Relaunch
  BY <1>0, <1>1, <1>11 DEF Relaunch
<1> QED BY <1>2, <1>3, <1>4, <1>5, <1>6, <1>7, <1>8, <1>9, <1>10, <1>11, WatchdogCases
   DEF ScriptSteps

LEMMA CallsBound == WatchdogInv /\ StandInv /\ WatchdogNext => Len(calls') <= MaxDepth
<1> SUFFICES ASSUME WatchdogInv, StandInv, WatchdogNext PROVE Len(calls') <= MaxDepth
  OBVIOUS
<1> USE DEF mainVars, threadVars, nameVars, eventVars, logVars, browserVars
<1> DEFINE n == Len(calls)
<1>0. calls \in Seq(Apis) /\ n \in Nat /\ n <= MaxDepth /\ MaxDepth \in Nat
  BY WatchdogAssumption DEF StandInv, BoundsFit, WatchdogInv, QueuesAndTimes
<1>1. ASSUME NEW api \in Apis, EnterCall(api) PROVE Len(calls') <= MaxDepth
  <2>1. Len(calls') = n + 1 /\ n < MaxDepth
    BY <1>0, <1>1, AppendProperties DEF EnterCall
  <2> HIDE DEF n
  <2> QED BY <1>0, <2>1
<1>2. CASE ReturnFromCall
  <2>1. calls # <<>> /\ calls' = SubSeq(calls, 1, n - 1)
    BY <1>2 DEF ReturnFromCall, Front, WatchdogInv, QueuesAndTimes
  <2>2. n \in Nat \ {0}
    BY <1>0, <2>1
  <2>3. \A i \in 1 .. n - 1 : calls[i] \in Apis
    BY <1>0, <2>2
  <2>4. Len(calls') = IF 1 <= n - 1 THEN (n - 1) - 1 + 1 ELSE 0
    BY <2>1, <2>2, <2>3, SubSeqProperties
  <2> HIDE DEF n
  <2> QED BY <1>0, <2>2, <2>4
<1>3. CASE Relaunch
  <2>1. Len(calls') = 0
    BY <1>3 DEF Relaunch
  <2> QED BY <1>0, <2>1
<1>4. ASSUME UNCHANGED calls PROVE Len(calls') <= MaxDepth
  BY <1>0, <1>4
<1>5. CASE Start \/ Stop \/ Restart \/ EnterHandler \/ ReturnFromHandler
  <2>1. UNCHANGED calls
    BY <1>5 DEF Start, Stop, Restart, Destroy, EnterHandler, ReturnFromHandler
  <2> QED BY <1>4, <2>1
<1>6. CASE BrowserSteps
  BY <1>4, <1>6, BrowserLeavesThread
<1>7. ASSUME NEW usePowerMonitor \in BOOLEAN, NEW opened \in BOOLEAN, Created(usePowerMonitor, opened)
      PROVE  UNCHANGED calls
  BY <1>7 DEF Created
<1>8. ASSUME NEW asked \in BOOLEAN, Joined(asked) PROVE UNCHANGED calls
  BY <1>8 DEF Joined
<1>9. CASE RunTask \/ ThreadNext \/ Suspend \/ Sleep
  <2>1. UNCHANGED calls
    BY <1>9 DEF RunTask, ThreadNext, WaitSignalled, WaitExpired, WaitResumed, TestAndSet,
                ReadBlockingApi, WriteLog, Crash, PostTask, Suspend, Sleep
  <2> QED BY <1>4, <2>1
<1> QED BY <1>1, <1>2, <1>3, <1>4, <1>5, <1>6, <1>7, <1>8, <1>9, WatchdogCases DEF ScriptSteps

LEMMA BoundsStep == WatchdogInv /\ StandInv /\ WatchdogNext => BoundsFit'
<1> SUFFICES ASSUME WatchdogInv, StandInv, WatchdogNext PROVE BoundsFit'
  OBVIOUS
<1> USE DEF mainVars, threadVars, nameVars, eventVars, logVars, browserVars, Started
<1>0. /\ deletes \in Nat /\ MaxDeletes \in Nat /\ deletes <= MaxDeletes + 1
      /\ Started \/ main = "opening" => deletes <= MaxDeletes
      /\ main = "restarting" => deletes < MaxDeletes
  BY WatchdogAssumption DEF StandInv, BoundsFit, WatchdogInv, QueuesAndTimes
<1> SUFFICES /\ deletes' <= MaxDeletes + 1
             /\ Started' \/ main' = "opening" => deletes' <= MaxDeletes
             /\ main' = "restarting" => deletes' < MaxDeletes
  BY CallsBound DEF BoundsFit
<1>1. CASE ScriptSteps
  <2>1. UNCHANGED <<thread, deletes>>
        /\ (main' = main \/ main' \in {"running", "blocked", "stopping"} \/ deletes < MaxDeletes)
    BY <1>1 DEF ScriptSteps, Start, Stop, Restart, Destroy, EnterCall, ReturnFromCall,
                EnterHandler, ReturnFromHandler
  <2> QED BY <1>0, <2>1
<1>2. CASE BrowserSteps
  <2>1. UNCHANGED <<main, thread>> /\ deletes' <= deletes /\ deletes' \in Nat
    BY <1>0, <1>2, BrowserLeavesThread
       DEF ThreadStands, BrowserSteps, HandleDeleteLogFile, Kill, RenderProcessGone
  <2> QED BY <1>0, <2>1
<1>3. ASSUME NEW usePowerMonitor \in BOOLEAN, NEW opened \in BOOLEAN, Created(usePowerMonitor, opened)
      PROVE  deletes' = deletes /\ deletes <= MaxDeletes /\ main' = "running"
  BY <1>0, <1>3 DEF Created
<1>4. ASSUME NEW asked \in BOOLEAN, Joined(asked)
      PROVE  /\ deletes' \in {deletes, deletes + 1} /\ deletes <= MaxDeletes /\ thread' = "none"
             /\ main' = "running" \/ (main' = "opening" /\ deletes < MaxDeletes)
  BY <1>0, <1>4 DEF Joined, DeleteLogFile
<1>5. CASE RunTask \/ ThreadNext \/ Suspend \/ Sleep
  <2>1. UNCHANGED <<main, deletes>> /\ (thread = "none" => thread' = "none")
    BY <1>5 DEF RunTask, OnResume, ThreadNext, WaitSignalled, WaitExpired, WaitResumed, TestAndSet,
                ReadBlockingApi, WriteLog, Crash, PostTask, Suspend, Sleep
  <2> QED BY <1>0, <2>1
<1>6. CASE Relaunch
  BY <1>0, <1>6 DEF Relaunch
<1> QED BY <1>0, <1>1, <1>2, <1>3, <1>4, <1>5, <1>6, WatchdogCases

LEMMA StandStep == WatchdogInv /\ StandInv /\ [WatchdogNext]_watchdogVars => StandInv'
<1>1. WatchdogInv /\ StandInv /\ WatchdogNext => StandInv'
  BY PlacesStep, RoomStep, KindsStep, BoundsStep DEF StandInv
<1>2. ASSUME StandInv, UNCHANGED watchdogVars PROVE StandInv'
  <2> USE DEF watchdogVars, mainVars, threadVars, nameVars, eventVars, logVars, browserVars,
              StandInv
  <2>1. PlacesFit'
    BY <1>2 DEF PlacesFit, Stopping, Started, Queued
  <2>2. RoomForATask'
    BY <1>2 DEF RoomForATask, Room
  <2>3. KindsFit'
    BY <1>2 DEF KindsFit
  <2>4. BoundsFit'
    BY <1>2 DEF BoundsFit, Started
  <2> QED BY <2>1, <2>2, <2>3, <2>4
<1> QED BY <1>1, <1>2

LEMMA StandInit == WatchdogInit => StandInv
<1> SUFFICES ASSUME WatchdogInit PROVE StandInv
  OBVIOUS
<1> USE DEF WatchdogInit
<1>1. PlacesFit
  BY NothingQueued DEF PlacesFit, Stopping, Started, Queued
<1>2. RoomForATask
  BY QueueLengths, WatchdogAssumption DEF RoomForATask, Room
<1>3. KindsFit
  BY DEF KindsFit, Places, Contents, Names
<1>4. BoundsFit
  <2>1. Len(calls) = 0
    OBVIOUS
  <2> QED BY <2>1, WatchdogAssumption DEF BoundsFit, Started
<1> QED BY <1>1, <1>2, <1>3, <1>4 DEF StandInv

LEMMA StandInvHolds == WatchdogSpec => []StandInv
BY StandInit, StandStep, WatchdogInvHolds, PTL DEF WatchdogSpec

(***************************************************************************)
(* The theorems.                                                           *)
(***************************************************************************)

(* A process is given up only with the task that would have cleared the    *)
(* flag still in its queue.                                                *)
THEOREM CrashesWhatIsStuck == WatchdogSpec => CrashMeansStuck
<1>1. WatchdogInv /\ [WatchdogNext]_watchdogVars
        => [GivesUp => Queued("SetResponsive")]_watchdogVars
  <2> SUFFICES ASSUME WatchdogInv, [WatchdogNext]_watchdogVars, GivesUp
               PROVE  Queued("SetResponsive")
    OBVIOUS
  <2>1. TestAndSet
    BY GiveUpIsTestAndSet
  <2>2. thread = "check" /\ unresponsive
    BY <2>1 DEF TestAndSet, GivesUp
  <2> QED BY <2>2 DEF WatchdogInv, FlagHasATask, Waiting
<1> QED BY <1>1, WatchdogInvHolds, PTL DEF WatchdogSpec, CrashMeansStuck

(* If the page is told of a watchdog, the watchdog had given the process   *)
(* up, and what is named is a call the process was in then or entered      *)
(* since, no name, or one torn by an assignment while it was read.         *)
THEOREM BlamesTruly == WatchdogSpec => []BlameIsTrue
<1>1. WatchdogInv => BlameIsTrue
  BY DEF WatchdogInv, LogIsTrue, Suspect, BlameIsTrue
<1> QED BY <1>1, WatchdogInvHolds, PTL

(***************************************************************************)
(* Sleep, on a machine that waits for OnSuspend.                           *)
(***************************************************************************)
LEMMA SleepStep ==
  ASSUME SleepWaits
  PROVE  WatchdogInv /\ SleepIsNoHang /\ [WatchdogNext]_watchdogVars => SleepIsNoHang'
<1> SUFFICES ASSUME WatchdogInv, SleepIsNoHang, [WatchdogNext]_watchdogVars PROVE SleepIsNoHang'
  OBVIOUS
<1> USE DEF mainVars, eventVars, nameVars, threadVars, logVars, browserVars, SleepIsNoHang, Waiting
<1>1. CASE ScriptSteps \/ BrowserSteps
  BY <1>1, ScriptLeavesThread, BrowserLeavesThread DEF ThreadStands
<1>2. ASSUME NEW usePowerMonitor \in BOOLEAN, NEW opened \in BOOLEAN,
             Created(usePowerMonitor, opened)
      PROVE  SleepIsNoHang'
  BY <1>2 DEF Created, Create
<1>3. ASSUME NEW asked \in BOOLEAN, Joined(asked)
      PROVE  SleepIsNoHang'
  BY <1>3 DEF Joined
<1>4. CASE RunTask
  <2>1. CASE Head(tasks) \in {"SetResponsive", "OnResume"}
    BY <2>1, <1>4 DEF RunTask, OnResume
  <2>2. CASE Head(tasks) = "OnSuspend"
    BY <2>2, <1>4 DEF RunTask
  <2> QED BY <2>1, <2>2, <1>4 DEF RunTask
<1>5. CASE ThreadNext
  <2>1. CASE WaitSignalled \/ WaitExpired \/ WaitResumed
    BY <1>5, <2>1 DEF WaitSignalled, WaitExpired, WaitResumed
  <2>2. CASE TestAndSet \/ ReadBlockingApi \/ WriteLog \/ Crash \/ PostTask
    BY <2>2 DEF TestAndSet, ReadBlockingApi, WriteLog, Crash, PostTask
  <2> QED BY <1>5, <2>1, <2>2 DEF ThreadNext
<1>6. CASE Suspend
  BY <1>6 DEF Suspend
<1>7. CASE Sleep
  <2>1. UNCHANGED <<main, thread, unresponsive, done, resumed, monitored>>
        /\ slept' = (slept \/ thread = "timedWait")
        /\ (Observing => ~resumed)
    BY <1>7 DEF Sleep
  <2>2. CASE thread = "timedWait" /\ Observing
    BY <2>1, <2>2
  <2>3. CASE thread = "timedWait" /\ ~Observing /\ monitored
    BY <2>1, <2>3 DEF Observing, Started, WatchdogInv, StopIsTold
  <2> QED BY <2>1, <2>2, <2>3
<1>8. CASE Relaunch
  BY <1>8 DEF Relaunch
<1>9. CASE UNCHANGED watchdogVars
  BY <1>9 DEF watchdogVars
<1> QED BY <1>1, <1>2, <1>3, <1>4, <1>5, <1>6, <1>7, <1>8, <1>9, WatchdogCases

(* With the power monitor, no timeout that ran out in a sleep counts.      *)
THEOREM SpareTheSleeping ==
  ASSUME SleepWaits
  PROVE  WatchdogSpec => NoCrashForSleep
<1>1. WatchdogInit => SleepIsNoHang
  BY DEF WatchdogInit, SleepIsNoHang
<1>2. WatchdogInv /\ SleepIsNoHang /\ [WatchdogNext]_watchdogVars
        => [GivesUp /\ monitored => ~slept]_watchdogVars
  <2> SUFFICES ASSUME SleepIsNoHang, [WatchdogNext]_watchdogVars, GivesUp, monitored
               PROVE  ~slept
    OBVIOUS
  <2>1. TestAndSet
    BY GiveUpIsTestAndSet
  <2>2. thread = "check" /\ unresponsive
    BY <2>1 DEF TestAndSet, GivesUp
  <2> QED BY <2>2 DEF SleepIsNoHang, Waiting
<1> QED BY <1>1, <1>2, SleepStep, WatchdogInvHolds, PTL DEF WatchdogSpec, NoCrashForSleep

(***************************************************************************)
(* The file, where deletions are handled in order.                         *)
(***************************************************************************)
LEMMA FileStep ==
  ASSUME DeletesInOrder
  PROVE  WatchdogInv /\ FileIsKept /\ [WatchdogNext]_watchdogVars => FileIsKept'
<1> SUFFICES ASSUME WatchdogInv, FileIsKept, [WatchdogNext]_watchdogVars PROVE FileIsKept'
  OBVIOUS
<1> USE DEF mainVars, eventVars, nameVars, threadVars, logVars, browserVars, FileIsKept, Started,
            Logged, Alive
<1>0. /\ Absent.state = "absent" /\ \A api : Written(api).state = "written"
  BY DEF Absent, Written, Content
<1>1. CASE ScriptSteps
  <2>1. Alive /\ UNCHANGED <<process, file, told, logFile, deletes>>
    BY <1>1 DEF ScriptSteps, Start, Stop, Restart, Destroy, EnterCall, ReturnFromCall,
                EnterHandler, ReturnFromHandler, Running
  <2> QED BY <1>1, <2>1, <1>0, ScriptLeavesThread DEF ThreadStands
<1>2. CASE BrowserSteps
  <2>0. UNCHANGED thread
    BY <1>2, BrowserLeavesThread DEF ThreadStands
  <2>1. CASE HandleDeleteLogFile
    <3>1. process # "gone" /\ deletes > 0 /\ UNCHANGED process
      BY <2>1 DEF HandleDeleteLogFile
    <3>2. ~Started
      BY <3>1
    <3> QED BY <3>1, <3>2, <2>0
  <2>2. CASE Kill
    BY <2>0, <2>2, <1>0 DEF Kill
  <2>3. CASE RenderProcessGone
    BY <2>0, <2>3, <1>0 DEF RenderProcessGone, Metadata
  <2> QED BY <1>2, <2>1, <2>2, <2>3 DEF BrowserSteps
<1>3. ASSUME NEW usePowerMonitor \in BOOLEAN, NEW opened \in BOOLEAN,
             Created(usePowerMonitor, opened)
      PROVE  FileIsKept'
  BY <1>3 DEF Created, Create, OpenLogFile
<1>4. ASSUME NEW asked \in BOOLEAN, Joined(asked)
      PROVE  FileIsKept'
  BY <1>4 DEF Joined
<1>5. CASE RunTask
  <2>1. Alive /\ UNCHANGED <<process, file, told, logFile, deletes>>
        /\ (thread' = thread \/ (thread = "parked" /\ thread' = "check"))
    BY <1>5 DEF RunTask, OnResume, Running
  <2> QED BY <2>1, <1>0
<1>6. CASE ThreadNext
  <2>1. CASE ReadBlockingApi
    BY <2>1, <1>0 DEF ReadBlockingApi
  <2>2. CASE WriteLog
    BY <2>2, <1>0 DEF WriteLog
  <2>3. CASE Crash
    BY <2>3, <1>0 DEF Crash
  <2>4. CASE WaitSignalled \/ WaitExpired \/ WaitResumed \/ TestAndSet \/ PostTask
    <3>1. /\ Alive /\ UNCHANGED <<process, file, told, logFile, deletes>>
          /\ thread # "none" /\ thread' \notin {"crash", "crashed"}
      BY <2>4 DEF WaitSignalled, WaitExpired, WaitResumed, TestAndSet, PostTask
    <3> QED BY <3>1, <1>0
  <2> QED BY <1>6, <2>1, <2>2, <2>3, <2>4 DEF ThreadNext
<1>7. CASE Suspend \/ Sleep
  BY <1>7 DEF Suspend, Sleep
<1>8. CASE Relaunch
  BY <1>8 DEF Relaunch
<1>9. CASE UNCHANGED watchdogVars
  BY <1>9 DEF watchdogVars
<1> QED BY <1>1, <1>2, <1>3, <1>4, <1>5, <1>6, <1>7, <1>8, <1>9, WatchdogCases

(* A watchdog that had its file is not silenced by an earlier one's end.   *)
THEOREM TellsOfTermination ==
  ASSUME DeletesInOrder
  PROVE  WatchdogSpec => []TerminationIsTold
<1>1. WatchdogInit => FileIsKept
  BY DEF WatchdogInit, FileIsKept, Started, Logged
<1>2. FileIsKept => TerminationIsTold
  BY DEF FileIsKept, TerminationIsTold, Started, Logged
<1> QED BY <1>1, <1>2, FileStep, WatchdogInvHolds, PTL DEF WatchdogSpec

(***************************************************************************)
(* The thread's progress.                                                  *)
(***************************************************************************)

(* The variables have their types, and the queue's bound never stops the   *)
(* thread: however many events of the machine are queued, there is room    *)
(* for the task it posts.                                                  *)
THEOREM WatchdogTypesHold == WatchdogSpec => []WatchdogTypeOK
<1>1. ASSUME WatchdogInv, StandInv PROVE WatchdogTypeOK
  <2>0. /\ MaxTasks \in Nat /\ MaxDeletes \in Nat /\ deletes \in Nat
        /\ tasks \in Seq(Tasks)
    BY <1>1, WatchdogAssumption DEF WatchdogInv, QueuesAndTimes
  <2> DEFINE n == Len(tasks)
  <2>1. n \in Nat
    BY <2>0, QueueLengths
  <2> HIDE DEF n
  <2>2. n <= MaxTasks + 2 /\ (thread = "post" => n < MaxTasks + 2)
    <3>1. n + 0 <= MaxTasks + 2 /\ (thread = "post" => n + 1 <= MaxTasks + 2)
      BY <1>1 DEF StandInv, RoomForATask, Room, n
    <3> QED BY <2>0, <2>1, <3>1
  <2>3. deletes \in 0 .. MaxDeletes + 1
    BY <1>1, <2>0 DEF StandInv, BoundsFit
  <2>4. KindsFit /\ QueuesAndTimes /\ Len(calls) <= MaxDepth
    BY <1>1 DEF StandInv, BoundsFit, WatchdogInv
  <2>5. tasks \in Seq({"SetResponsive", "OnSuspend", "OnResume"})
    BY <2>0 DEF Tasks
  <2> QED BY <2>2, <2>3, <2>4, <2>5 DEF WatchdogTypeOK, KindsFit, Places, QueuesAndTimes, n
<1> QED BY <1>1, WatchdogInvHolds, StandInvHolds, PTL

(* Where the thread is neither parked nor through.                         *)
Going == {"timedWait", "expired", "check", "log", "logging", "crash", "post"}

(* The guards of the thread's steps: what each place waits for.            *)
GoesOn ==
  \/ thread \in Going \ {"post"}
  \/ thread = "post" /\ Len(tasks) < MaxTasks + 2

(* The thread of a living process never waits for the main sequence, which *)
(* may wait for it: it can go on, or has exited and is being stopped, or   *)
(* the machine is about to sleep and the watchdog was asked to heed that.  *)
ThreadGoesOn ==
  Alive /\ Started =>
    \/ GoesOn
    \/ thread = "exited" /\ Stopping
    \/ thread = "parked" /\ monitored /\ ~resumed

THEOREM ThreadAlwaysGoesOn == WatchdogSpec => []ThreadGoesOn
<1>1. ASSUME WatchdogInv, StandInv, WatchdogTypeOK PROVE ThreadGoesOn
  <2> SUFFICES ASSUME Alive, Started PROVE ThreadGoesOn
    BY DEF ThreadGoesOn
  <2>1. thread \in Places \ {"none", "crashed"}
    BY <1>1 DEF StandInv, KindsFit, WatchdogInv, LogIsTrue, Crashed, Alive, Started
  <2>2. thread = "exited" => Stopping
    BY <1>1 DEF StandInv, PlacesFit
  <2>3. thread = "parked" => ~resumed /\ monitored
    BY <1>1 DEF StandInv, PlacesFit
  <2>4. thread = "post" => Len(tasks) < MaxTasks + 2
    BY <1>1 DEF WatchdogTypeOK
  <2> QED BY <2>1, <2>2, <2>3, <2>4 DEF ThreadGoesOn, GoesOn, Going, Places
<1> QED BY <1>1, WatchdogInvHolds, StandInvHolds, WatchdogTypesHold, PTL

(* How far the thread of a watchdog that is being stopped is from its end. *)
LeftToStop(place) ==
  CASE place = "expired" -> 5
    [] place = "check" -> 4
    [] place = "log" -> 3
    [] place \in {"logging", "post"} -> 2
    [] place \in {"crash", "timedWait"} -> 1
    [] OTHER -> 0

(* A stop has an end: without the power monitor, each step of the thread   *)
(* takes it nearer to its exit, and no step of another takes it back.  A   *)
(* timed wait is not begun again.                                          *)
StopAdvances ==
  [][Stopping /\ Stopping' /\ ~monitored =>
       thread' = thread \/ LeftToStop(thread') < LeftToStop(thread)]_watchdogVars

(* What a step may do to the thread, and to the flag.                      *)
LEMMA ThreadMoves ==
  ASSUME WatchdogInv, StandInv, [WatchdogNext]_watchdogVars, Started, Stopping \/ main = "blocked",
         Stopping' \/ main' = "blocked"
  PROVE  \/ UNCHANGED <<thread, unresponsive>>
         \/ WaitSignalled \/ WaitExpired \/ WaitResumed \/ TestAndSet
         \/ ReadBlockingApi \/ WriteLog \/ Crash \/ PostTask
<1> USE DEF mainVars, threadVars, nameVars, eventVars, logVars, browserVars
<1>1. CASE ScriptSteps \/ BrowserSteps
  BY <1>1, ScriptLeavesThread, BrowserLeavesThread DEF ThreadStands
<1>2. ASSUME NEW usePowerMonitor \in BOOLEAN, NEW opened \in BOOLEAN, Created(usePowerMonitor, opened)
      PROVE  FALSE
  BY <1>2 DEF Created, Stopping
<1>3. ASSUME NEW asked \in BOOLEAN, Joined(asked) PROVE FALSE
  BY <1>3 DEF Joined, Stopping
<1>4. CASE RunTask
  BY <1>4 DEF RunTask, Running, Stopping
<1>5. CASE ThreadNext
  BY <1>5 DEF ThreadNext
<1>6. CASE Suspend \/ Sleep
  BY <1>6 DEF Suspend, Sleep
<1>7. CASE Relaunch
  BY <1>7 DEF Relaunch, Stopping
<1>8. CASE UNCHANGED watchdogVars
  BY <1>8 DEF watchdogVars
<1> QED BY <1>1, <1>2, <1>3, <1>4, <1>5, <1>6, <1>7, <1>8, WatchdogCases

THEOREM StopsAdvance == WatchdogSpec => StopAdvances
<1>1. WatchdogInv /\ StandInv /\ [WatchdogNext]_watchdogVars
        => [Stopping /\ Stopping' /\ ~monitored =>
              thread' = thread \/ LeftToStop(thread') < LeftToStop(thread)]_watchdogVars
  <2> SUFFICES ASSUME WatchdogInv, StandInv, [WatchdogNext]_watchdogVars,
                      Stopping, Stopping', ~monitored, thread' # thread
               PROVE  LeftToStop(thread') < LeftToStop(thread)
    OBVIOUS
  <2>1. Started /\ resumed
    BY DEF StandInv, PlacesFit
  <2>2. thread = "timedWait" => done
    BY DEF WatchdogInv, StopIsTold, Stopping
  <2>3. \/ thread = "timedWait" /\ thread' = "exited"
        \/ thread = "expired" /\ thread' = "check"
        \/ thread = "check" /\ thread' \in {"log", "post"}
        \/ thread = "log" /\ thread' \in {"logging", "crash"}
        \/ thread = "logging" /\ thread' = "crash"
        \/ thread = "crash" /\ thread' = "crashed"
        \/ thread = "post" /\ thread' = "timedWait"
    BY <2>1, <2>2, ThreadMoves
       DEF WaitSignalled, WaitExpired, WaitResumed, TestAndSet, ReadBlockingApi, WriteLog,
           Crash, PostTask
  <2> QED BY <2>3 DEF LeftToStop
<1> QED BY <1>1, WatchdogInvHolds, StandInvHolds, PTL DEF WatchdogSpec, StopAdvances

(* The main sequence is blocked and the watchdog not suspended.            *)
Hangs == Alive /\ Started /\ main = "blocked" /\ resumed

(* How far the thread is from terminating a process that hangs: a second   *)
(* time round if its flag was clear.                                       *)
LeftToTerminate(place, flag) ==
  CASE place = "crash" -> 1
    [] place = "logging" -> 2
    [] place = "log" -> 3
    [] place = "check" -> IF flag THEN 4 ELSE 8
    [] place = "expired" -> IF flag THEN 5 ELSE 9
    [] place = "timedWait" -> IF flag THEN 6 ELSE 10
    [] place = "post" -> IF flag THEN 7 ELSE 11
    [] OTHER -> 0

(* A hang has an end: each step of the thread takes it nearer to the       *)
(* termination, which is the only place it can end at, and nothing that    *)
(* happens meanwhile takes it back.                                        *)
HangAdvances ==
  [][Hangs /\ Hangs' =>
       /\ thread \in Going
       /\ \/ UNCHANGED <<thread, unresponsive>>
          \/ LeftToTerminate(thread', unresponsive') < LeftToTerminate(thread, unresponsive)]_watchdogVars

THEOREM HangsAdvance == WatchdogSpec => HangAdvances
<1>1. WatchdogInv /\ StandInv /\ ThreadGoesOn /\ [WatchdogNext]_watchdogVars
        => [Hangs /\ Hangs' =>
              /\ thread \in Going
              /\ \/ UNCHANGED <<thread, unresponsive>>
                 \/ LeftToTerminate(thread', unresponsive') < LeftToTerminate(thread, unresponsive)]_watchdogVars
  <2> SUFFICES ASSUME WatchdogInv, StandInv, ThreadGoesOn, [WatchdogNext]_watchdogVars, Hangs, Hangs'
               PROVE  /\ thread \in Going
                      /\ \/ UNCHANGED <<thread, unresponsive>>
                         \/ LeftToTerminate(thread', unresponsive') < LeftToTerminate(thread, unresponsive)
    OBVIOUS
  <2>1. thread \in Going /\ ~done
    BY DEF ThreadGoesOn, GoesOn, Going, Hangs, Stopping, StandInv, PlacesFit
  <2>2. unresponsive \in BOOLEAN
    BY DEF WatchdogInv, QueuesAndTimes
  <2>3. \/ UNCHANGED <<thread, unresponsive>>
        \/ thread = "timedWait" /\ thread' = "expired" /\ UNCHANGED unresponsive
        \/ thread = "expired" /\ thread' = "check" /\ UNCHANGED unresponsive
        \/ thread = "check" /\ unresponsive' /\ thread' = IF unresponsive THEN "log" ELSE "post"
        \/ thread = "post" /\ thread' = "timedWait" /\ UNCHANGED unresponsive
        \/ thread = "log" /\ thread' \in {"logging", "crash"} /\ UNCHANGED unresponsive
        \/ thread = "logging" /\ thread' = "crash" /\ UNCHANGED unresponsive
    <3>1. Started /\ resumed /\ main = "blocked" /\ main' = "blocked" /\ Alive'
      BY DEF Hangs
    <3>2. ~WaitSignalled /\ ~Crash
      BY <2>1, <3>1 DEF WaitSignalled, Crash, Alive
    <3> QED BY <3>1, <3>2, ThreadMoves
            DEF WaitExpired, WaitResumed, TestAndSet, ReadBlockingApi, WriteLog, PostTask, eventVars
  <2> QED BY <2>1, <2>2, <2>3 DEF LeftToTerminate, Going
<1> QED BY <1>1, WatchdogInvHolds, StandInvHolds, ThreadAlwaysGoesOn, PTL
   DEF WatchdogSpec, HangAdvances
==============================================================================
