------------------------------ MODULE Watchdog ------------------------------
(***************************************************************************)
(* The renderer watchdog (src/electron/shell/common/api/watchdog.cc): a    *)
(* thread that sets a flag, asks the main sequence to clear it, waits for  *)
(* a timeout, and terminates the process if the flag is still set.         *)
(*                                                                         *)
(* The main sequence runs script and tasks, blocks in synchronous calls,   *)
(* during which it may answer a synchronous call of another renderer, and  *)
(* starts and stops the watchdog.  With usePowerMonitor the watchdog parks *)
(* its thread while the machine sleeps.  Time is not modelled: a timed     *)
(* wait may end at any moment, and the properties say what must not have   *)
(* happened, or must have happened, during it.                             *)
(*                                                                         *)
(* The browser process opens a file for the watchdog, into which it writes *)
(* the blocking call before it terminates the process, and which the       *)
(* browser reads then.  The time of the last ping, also written, is data.  *)
(***************************************************************************)
EXTENDS Integers, Sequences, SequencesExt

CONSTANTS
  Apis,             \* names of blocking calls
  NoApi,            \* the empty string in blocking_api_
  Garbled,          \* what a read of blocking_api_ may give while it is assigned
  SleepWaits,       \* no sleep before the watchdog has seen OnSuspend
  DeletesInOrder,   \* the browser handles a deletion before a later opening
  MaxDepth,         \* bound: nested blocking calls
  MaxTasks,         \* bound: tasks queued when the machine's next event comes
  MaxDeletes        \* bound: deletions of log files on their way

ASSUME WatchdogAssumption ==
  /\ NoApi \notin Apis /\ Garbled \notin Apis \cup {NoApi}
  /\ SleepWaits \in BOOLEAN /\ DeletesInOrder \in BOOLEAN
  /\ MaxDepth \in Nat /\ MaxTasks \in Nat /\ MaxDeletes \in Nat

VARIABLES
  main,         \* what the main sequence does
  calls,        \* the blocking calls it is in, the innermost last
  tasks,        \* tasks queued on it for the current watchdog
  thread,       \* the watchdog thread's place in ThreadMain
  unresponsive, \* unresponsive_
  done,         \* done_event_, reset when waited for
  resumed,      \* resumed_event_, reset by hand
  blockingApi,  \* blocking_api_ of the current watchdog
  logged,       \* the thread's copy of it, in Log
  monitored,    \* its option use_power_monitor
  power,        \* the machine: "awake" or "suspending"
  slept,        \* the machine slept during the thread's last timed wait
  process,      \* alive, ended, or gone: the browser has noticed
  logFile,      \* log_file_: none, invalid, linked to its name, or unlinked
  file,         \* what is in the directory for the process
  deletes,      \* WatchdogDeleteLogFile on its way to the browser
  told,         \* details.watchdog of render-process-gone
  suspects      \* history, for the properties only: the calls the process
                \* was in when the thread gave it up, or has entered since

mainVars == <<main, calls>>
eventVars == <<unresponsive, done, resumed>>
nameVars == <<blockingApi, logged, suspects>>
threadVars == <<thread, eventVars, nameVars, monitored, slept>>
browserVars == <<process, file, deletes, told>>
logVars == <<browserVars, logFile>>
watchdogVars == <<mainVars, tasks, threadVars, power, logVars>>

Alive == process = "alive"
Started == thread # "none"
Crashed == thread = "crashed"

Queued(task) == task \in ToSet(tasks)

(* The destructor removes the power observer, so events stop then.         *)
Observing == monitored /\ Started /\ main \notin {"stopping", "restarting"}

(***************************************************************************)
(* The log file.                                                           *)
(***************************************************************************)
Content(state, api) == [state |-> state, api |-> api]
Absent == Content("absent", NoApi)
Empty == Content("empty", NoApi)
Written(api) == Content("written", api)

(* The constructor has the browser create the file anew, which it can only *)
(* ask for from script, and which may fail.                                *)
OpenLogFile(opened) ==
  /\ logFile' = IF opened THEN "linked" ELSE "invalid"
  /\ file' = IF opened THEN Empty ELSE file

(* The destructor closes the file and asks for its deletion, from script   *)
(* only again: the one that runs at the process's end asks nothing.        *)
DeleteLogFile(asked) ==
  /\ logFile' = "none"
  /\ deletes' = IF asked THEN deletes + 1 ELSE deletes

(***************************************************************************)
(* The main sequence.                                                      *)
(***************************************************************************)
Running == Alive /\ main = "running"

(* startWatchdog, up to the opening of the log file, for which it waits.   *)
(* That a message let in meanwhile starts a watchdog too is left out.      *)
Start ==
  /\ Running /\ ~Started /\ deletes < MaxDeletes
  /\ main' = "opening"
  /\ UNCHANGED <<calls, tasks, threadVars, power, logVars>>

(* Mutation: the flag is not the watchdog's own and outlives it.           *)
CreateKeepingFlag(usePowerMonitor) ==
  /\ thread' = "timedWait"
  /\ done' = FALSE /\ resumed' = TRUE
  /\ blockingApi' = NoApi /\ monitored' = usePowerMonitor
  /\ slept' = FALSE /\ UNCHANGED <<logged, suspects>>
  /\ UNCHANGED unresponsive

(* The rest of the constructor.                                            *)
Create(usePowerMonitor) ==
  /\ thread' = "timedWait"
  /\ unresponsive' = FALSE /\ done' = FALSE /\ resumed' = TRUE
  /\ blockingApi' = NoApi /\ monitored' = usePowerMonitor
  /\ slept' = FALSE /\ UNCHANGED <<logged, suspects>>

(* Mutation: startWatchdog lets the assignment destroy the old watchdog.   *)
CreatedThenDestroyed(usePowerMonitor, opened) ==
  /\ Alive /\ main = "opening"
  /\ main' = "running"
  /\ OpenLogFile(opened)
  /\ Create(usePowerMonitor)
  /\ deletes' = deletes + 1
  /\ UNCHANGED <<calls, tasks, power, process, told>>

(* The browser has opened the file, and the watchdog is created.           *)
Created(usePowerMonitor, opened) ==
  /\ Alive /\ main = "opening"
  /\ DeletesInOrder => deletes = 0
  /\ main' = "running"
  /\ OpenLogFile(opened)
  /\ Create(usePowerMonitor)
  /\ UNCHANGED <<calls, tasks, power, process, deletes, told>>

(* Mutation: the destructor also resets resumed_event_, to keep the thread *)
(* from terminating the process meanwhile.                                 *)
DestroyPausing(next) ==
  /\ Running /\ Started
  /\ main' = next
  /\ done' = TRUE /\ resumed' = FALSE
  /\ UNCHANGED <<calls, tasks, thread, unresponsive, nameVars, monitored, power, slept, logVars>>

(* The destructor up to the join: the observer goes, the thread is told.   *)
(* No task runs before the join returns.                                   *)
Destroy(next) ==
  /\ Running /\ Started
  /\ main' = next
  /\ done' = TRUE
  /\ UNCHANGED <<calls, tasks, thread, unresponsive, resumed, nameVars, monitored, power, slept, logVars>>

Stop == Destroy("stopping")

(* Start while there is a watchdog stops it first.                         *)
Restart == deletes < MaxDeletes /\ Destroy("restarting")

(* The join returns, and the weak pointers of the tasks die; those of the   *)
(* machine's events find no observer.  A restart then goes on to create    *)
(* the new watchdog.                                                       *)
Joined(asked) ==
  /\ Alive /\ main \in {"stopping", "restarting"} /\ thread = "exited"
  /\ main' = IF main = "restarting" THEN "opening" ELSE "running"
  /\ tasks' = <<>>
  /\ thread' = "none"
  /\ blockingApi' = NoApi /\ monitored' = FALSE
  /\ DeleteLogFile(asked)
  /\ UNCHANGED <<calls, eventVars, logged, suspects, slept, power, process, file, told>>

(* An assignment of blocking_api_, which is not synchronized: while the    *)
(* thread is in Log, its copy may be of the value before, of the value     *)
(* after, or of a string that was half assigned.                           *)
SetBlockingApi(api) ==
  /\ blockingApi' = IF Started THEN api ELSE blockingApi
  /\ logged' \in IF thread = "logging" THEN {logged, api, Garbled} ELSE {logged}

GivenUp == thread \in {"log", "logging", "crash", "crashed"}

(* BlockingApi's constructor, and the call that blocks.                    *)
EnterCall(api) ==
  /\ Running /\ Len(calls) < MaxDepth
  /\ main' = "blocked"
  /\ calls' = Append(calls, api)
  /\ SetBlockingApi(api)
  /\ suspects' = IF GivenUp THEN suspects \cup {api} ELSE suspects
  /\ UNCHANGED <<tasks, thread, eventVars, monitored, power, slept, logVars>>

(* Mutation: BlockingApi has no destructor.                                *)
KeepBlockingApi == UNCHANGED <<blockingApi, logged>>

(* BlockingApi's destructor: the name is emptied, that of an outer call    *)
(* included.                                                               *)
ClearBlockingApi == SetBlockingApi(NoApi)

ReturnFromCall ==
  /\ Alive /\ main = "blocked"
  /\ main' = "running"
  /\ calls' = Front(calls)
  /\ ClearBlockingApi
  /\ UNCHANGED <<tasks, thread, eventVars, suspects, monitored, power, slept, logVars>>

(* A blocked call lets a synchronous message in, whose handler runs        *)
(* script, and returns.                                                    *)
EnterHandler ==
  /\ Alive /\ main = "blocked"
  /\ main' = "running"
  /\ UNCHANGED <<calls, tasks, threadVars, power, logVars>>

ReturnFromHandler ==
  /\ Running /\ calls # <<>>
  /\ main' = "blocked"
  /\ UNCHANGED <<calls, tasks, threadVars, power, logVars>>

(* Mutation: OnResume wakes the thread and leaves the flag as it is.       *)
ResumeKeepingFlag ==
  /\ resumed' = TRUE
  /\ thread' = IF thread = "parked" THEN "check" ELSE thread
  /\ UNCHANGED unresponsive

(* OnResume: the flag is cleared before the thread can look at it.         *)
OnResume ==
  /\ unresponsive' = FALSE
  /\ resumed' = TRUE
  /\ thread' = IF thread = "parked" THEN "check" ELSE thread

RunTask ==
  /\ Running /\ calls = <<>>
  /\ tasks # <<>>
  /\ tasks' = Tail(tasks)
  /\ LET task == Head(tasks) IN
     \/ /\ task = "SetResponsive"
        /\ unresponsive' = FALSE
        /\ UNCHANGED <<resumed, thread>>
     \/ /\ task = "OnSuspend"
        /\ resumed' = FALSE
        /\ UNCHANGED <<unresponsive, thread>>
     \/ task = "OnResume" /\ OnResume
  /\ UNCHANGED <<mainVars, done, nameVars, monitored, power, slept, logVars>>

(***************************************************************************)
(* The watchdog thread (ThreadMain).                                       *)
(***************************************************************************)
WaitSignalled ==
  /\ Alive /\ thread = "timedWait" /\ done
  /\ thread' = "exited"
  /\ done' = FALSE
  /\ UNCHANGED <<mainVars, tasks, unresponsive, resumed, nameVars, monitored, power, slept, logVars>>

WaitExpired ==
  /\ Alive /\ thread = "timedWait" /\ ~done
  /\ thread' = "expired"
  /\ UNCHANGED <<mainVars, tasks, eventVars, nameVars, monitored, power, slept, logVars>>

WaitResumed ==
  /\ Alive /\ thread = "expired"
  /\ thread' = IF resumed THEN "check" ELSE "parked"
  /\ UNCHANGED <<mainVars, tasks, eventVars, nameVars, monitored, power, slept, logVars>>

(* Mutation: the flag is tested and not set.                               *)
TestOnly ==
  /\ Alive /\ thread = "check"
  /\ thread' = IF unresponsive THEN "log" ELSE "post"
  /\ UNCHANGED <<mainVars, tasks, eventVars, nameVars, monitored, power, slept, logVars>>

TestAndSet ==
  /\ Alive /\ thread = "check"
  /\ thread' = IF unresponsive THEN "log" ELSE "post"
  /\ unresponsive' = TRUE
  /\ suspects' = IF unresponsive THEN ToSet(calls) ELSE suspects
  /\ UNCHANGED <<mainVars, tasks, done, resumed, blockingApi, logged, monitored, power, slept, logVars>>

(* Log, if there is a file: the name is read.  SetBlockingApi says what    *)
(* becomes of it meanwhile.                                                *)
ReadBlockingApi ==
  /\ Alive /\ thread = "log"
  /\ IF logFile = "invalid" THEN thread' = "crash" /\ UNCHANGED logged
                            ELSE thread' = "logging" /\ logged' = blockingApi
  /\ UNCHANGED <<mainVars, tasks, eventVars, blockingApi, suspects, monitored, power, slept, logVars>>

(* The rest of Log: what was read is written, to a file which may have     *)
(* lost its name.                                                          *)
WriteLog ==
  /\ Alive /\ thread = "logging"
  /\ thread' = "crash"
  /\ file' = IF logFile = "linked" THEN Written(logged) ELSE file
  /\ UNCHANGED <<mainVars, tasks, eventVars, nameVars, monitored, power, slept>>
  /\ UNCHANGED <<process, logFile, deletes, told>>

Crash ==
  /\ Alive /\ thread = "crash"
  /\ thread' = "crashed"
  /\ process' = "ended"
  /\ UNCHANGED <<mainVars, tasks, eventVars, nameVars, monitored, power, slept>>
  /\ UNCHANGED <<file, logFile, deletes, told>>

(* The bound on the queue is never met, as WatchdogTypeOK says: a task is   *)
(* posted after the flag was set only, and the flag cleared by a task.     *)
PostTask ==
  /\ Alive /\ thread = "post" /\ Len(tasks) < MaxTasks + 2
  /\ tasks' = Append(tasks, "SetResponsive")
  /\ thread' = "timedWait"
  /\ slept' = FALSE
  /\ UNCHANGED <<mainVars, eventVars, nameVars, monitored, power, logVars>>

(***************************************************************************)
(* The machine.  Observers are told of a suspension by a task each, which  *)
(* the main sequence gets to when it can.  The sleep itself is one step:   *)
(* nothing runs meanwhile, and timed waits go on.                          *)
(***************************************************************************)
Notify(task) == tasks' = IF Observing THEN Append(tasks, task) ELSE tasks

Suspend ==
  /\ Alive /\ power = "awake" /\ Len(tasks) < MaxTasks
  /\ power' = "suspending"
  /\ Notify("OnSuspend")
  /\ UNCHANGED <<mainVars, threadVars, logVars>>

Sleep ==
  /\ Alive /\ power = "suspending" /\ Len(tasks) < MaxTasks
  /\ SleepWaits /\ Observing => ~resumed
  /\ power' = "awake"
  /\ slept' = (slept \/ thread = "timedWait")
  /\ Notify("OnResume")
  /\ UNCHANGED <<mainVars, thread, eventVars, nameVars, monitored, logVars>>

(***************************************************************************)
(* The browser process.                                                    *)
(***************************************************************************)

(* WatchdogDeleteLogFile.  Where open files can be deleted, one that was   *)
(* opened since loses its name; elsewhere the deletion fails.              *)
HandleDeleteLogFile ==
  /\ process # "gone" /\ deletes > 0
  /\ deletes' = deletes - 1
  /\ \/ /\ file' = Absent
        /\ logFile' = IF logFile = "linked" THEN "unlinked" ELSE logFile
     \/ logFile = "linked" /\ UNCHANGED <<file, logFile>>
  /\ UNCHANGED <<mainVars, tasks, threadVars, power, process, told>>

(* The process is killed, or crashes on its own.                           *)
Kill ==
  /\ Alive
  /\ process' = "ended"
  /\ UNCHANGED <<mainVars, tasks, threadVars, power, file, deletes, told, logFile>>

(* GetMetadata reads the file, which the log was written to in full or not *)
(* at all.                                                                 *)
Metadata == IF file.state = "written" THEN file ELSE Absent

(* The process's end is noticed: the page, which was there before the      *)
(* process, is told, and RenderProcessExited deletes the file.  What the   *)
(* process has sent and the browser not handled goes with its frame.       *)
RenderProcessGone ==
  /\ process = "ended"
  /\ process' = "gone"
  /\ told' = Metadata
  /\ file' = Absent
  /\ deletes' = 0
  /\ UNCHANGED <<mainVars, tasks, threadVars, power, logFile>>

(***************************************************************************)
(* The system.                                                             *)
(***************************************************************************)
WatchdogInit ==
  /\ main = "running" /\ calls = <<>> /\ tasks = <<>>
  /\ thread = "none" /\ blockingApi = NoApi /\ monitored = FALSE
  /\ logged = NoApi /\ suspects = {}
  /\ unresponsive = FALSE /\ done = FALSE /\ resumed = TRUE
  /\ power = "awake" /\ slept = FALSE /\ logFile = "none"
  /\ process = "alive" /\ file = Absent /\ deletes = 0 /\ told = Absent

(* A new process takes the place of the one that is gone, with the number  *)
(* by which the browser names the file.                                    *)
Relaunch ==
  /\ process = "gone"
  /\ process' = "alive" /\ told' = Absent
  /\ main' = "running" /\ calls' = <<>> /\ tasks' = <<>>
  /\ thread' = "none" /\ blockingApi' = NoApi /\ monitored' = FALSE
  /\ logged' = NoApi /\ suspects' = {}
  /\ unresponsive' = FALSE /\ done' = FALSE /\ resumed' = TRUE
  /\ slept' = FALSE /\ logFile' = "none"
  /\ UNCHANGED <<power, file, deletes>>

MainNext ==
  \/ Start \/ Stop \/ Restart
  \/ \E usePowerMonitor, opened \in BOOLEAN : Created(usePowerMonitor, opened)
  \/ \E asked \in BOOLEAN : Joined(asked)
  \/ \E api \in Apis : EnterCall(api)
  \/ ReturnFromCall \/ EnterHandler \/ ReturnFromHandler
  \/ RunTask

ThreadNext ==
  \/ WaitSignalled \/ WaitExpired \/ WaitResumed \/ TestAndSet
  \/ ReadBlockingApi \/ WriteLog \/ Crash \/ PostTask

BrowserNext == HandleDeleteLogFile \/ Kill \/ RenderProcessGone \/ Relaunch

WatchdogNext == MainNext \/ ThreadNext \/ Suspend \/ Sleep \/ BrowserNext

WatchdogSpec == WatchdogInit /\ [][WatchdogNext]_watchdogVars

(* The thread runs, and a join returns once the thread has exited.  A call *)
(* need not return.                                                        *)
WatchdogFairness ==
  /\ WF_watchdogVars(ThreadNext)
  /\ WF_watchdogVars(\E asked \in BOOLEAN : Joined(asked))

WatchdogLiveSpec == WatchdogSpec /\ WatchdogFairness

(***************************************************************************)
(* Properties.                                                             *)
(***************************************************************************)
Names == Apis \cup {NoApi, Garbled}
Contents == {Absent, Empty} \cup {Written(api) : api \in Names}

(* The variables have their types.  Beyond what the machine's events found *)
(* the thread queues two tasks at most, so its bound never stops it.       *)
WatchdogTypeOK ==
  /\ main \in {"running", "blocked", "opening", "stopping", "restarting"}
  /\ calls \in Seq(Apis) /\ Len(calls) <= MaxDepth
  /\ main = "blocked" => calls # <<>>
  /\ tasks \in Seq({"SetResponsive", "OnSuspend", "OnResume"})
  /\ Len(tasks) <= MaxTasks + 2
  /\ thread = "post" => Len(tasks) < MaxTasks + 2
  /\ thread \in {"none", "timedWait", "expired", "parked", "check", "log", "logging",
                 "crash", "post", "exited", "crashed"}
  /\ unresponsive \in BOOLEAN /\ done \in BOOLEAN /\ resumed \in BOOLEAN
  /\ blockingApi \in Apis \cup {NoApi} /\ logged \in Names /\ suspects \subseteq Apis
  /\ monitored \in BOOLEAN
  /\ power \in {"awake", "suspending"} /\ slept \in BOOLEAN
  /\ process \in {"alive", "ended", "gone"}
  /\ logFile \in {"none", "invalid", "linked", "unlinked"}
  /\ file \in Contents /\ told \in Contents
  /\ deletes \in 0 .. MaxDeletes + 1

(* The thread gives the process up only if the main sequence did not get   *)
(* to a task that was queued before the thread's wait, however starts,     *)
(* stops, suspensions and the two threads interleave.                      *)
GivesUp == thread # "log" /\ thread' = "log"
CrashMeansStuck == [][GivesUp => Queued("SetResponsive")]_watchdogVars

(* With the power monitor, and a machine that sleeps after OnSuspend, the  *)
(* process is not terminated for a timeout that ran out in its sleep.      *)
NoCrashForSleep == [][GivesUp /\ monitored => ~slept]_watchdogVars

(* Log has returned: what it wrote is there.                               *)
Logged == thread \in {"crash", "crashed"}

(* If the page is told of a watchdog, then the watchdog had given that     *)
(* process up, and a call that is named is one the process was in then or  *)
(* entered before its end, which it may have returned from while the log   *)
(* was written.  A call that had returned before is never blamed, under    *)
(* whatever watchdog it was made, nor one of an earlier process.           *)
BlameIsTrue ==
  told # Absent => Logged /\ told.api \in suspects \cup {NoApi, Garbled}

(* And if the watchdog had its file, the page is told, when the browser    *)
(* handles deletions in order: neither the stop of an earlier watchdog nor *)
(* the end of the process deletes the file before it is read.              *)
TerminationIsTold ==
  process = "gone" /\ Logged /\ logFile # "invalid" => told # Absent

Stopping == main \in {"stopping", "restarting"}
StopsWhile(suspendable) == Stopping /\ (monitored => suspendable) ~> ~Stopping \/ ~Alive

(* stopWatchdog, or the stop in startWatchdog of a running watchdog,       *)
(* returns, unless the process ends first: without the power monitor.      *)
StopReturns == StopsWhile(FALSE)

(* "Stops the watchdog": with the power monitor too.                       *)
StopAlwaysReturns == StopsWhile(TRUE)

(* A renderer that stops responding is terminated, unless the watchdog is  *)
(* suspended all the while.                                                *)
HangIsTerminated ==
  <>[](Alive /\ Started /\ main = "blocked" /\ resumed) => <>Crashed
==============================================================================
