----------------------------- MODULE CrashReports -----------------------------
(***************************************************************************)
(* Crash reports on macOS: the reporter of a session, which tells script   *)
(* whether the last session crashed (electron/shell/browser/               *)
(* crash_checker.cc), and the upload of reports to App Center              *)
(* (electron/shell/common/appcenter_api.cc) by Crashpad's handler.         *)
(*                                                                         *)
(* The browser keeps the time its session started in session-state.dat and *)
(* may crash while it writes it.  A handler, a process of its own, writes  *)
(* the reports into a database and uploads them; it may outlive its        *)
(* session and upload reports of earlier ones.                             *)
(***************************************************************************)
EXTENDS Naturals, Sequences

CONSTANTS
  MaxTime,      \* bound: seconds; several events may share one
  MaxSessions,  \* bound: launches of the browser
  MaxReports,   \* bound: crashes that leave a report
  MaxAttempts   \* bound: uploads tried for one report

ASSUME CrashAssumption ==
  MaxTime \in Nat /\ MaxSessions \in Nat /\ MaxReports \in Nat /\ MaxAttempts \in Nat

VARIABLES
  now,       \* time(nullptr)
  session,   \* the latest session, counted from 1
  browser,   \* where its main thread is
  reporting, \* g_crash_reporter_initialized
  file,      \* session-state.dat
  started,   \* session_state.started_time, before it is written
  previous,  \* previous_session_state_ of g_crash_checker
  reports,   \* the database, in the order of the crashes
  validUrl,  \* the uploads' appcenter:// URL has a valid secret: rigid
  handlers,  \* sessions whose handler is alive
  jobs,      \* for each handler, the upload it is at
  logs       \* the crashes App Center has received

memory == <<browser, reporting, started, previous>>
browserVars == <<session, file, memory>>
handlerVars == <<handlers, jobs, logs>>
crashVars == <<now, browserVars, reports, validUrl, handlerVars>>

Times == 0 .. MaxTime
Sessions == 1 .. MaxSessions
Ids == 1 .. Len(reports)

(***************************************************************************)
(* The session file.  That it also names the session that wrote it is for  *)
(* the properties only.                                                    *)
(***************************************************************************)
Missing == [state |-> "missing", start |-> 0, by |-> 0]
Torn == [state |-> "torn", start |-> 0, by |-> 0]
Saved(time) == [state |-> "saved", start |-> time, by |-> session]

(* What previous_session_state_ is after a read: nothing from a file that  *)
(* is missing.  Of a torn file nothing is read, and the structure on the   *)
(* stack, which has never been set, may hold the magic number by chance.   *)
(* Mutation: the file is written before it is read.                        *)
ReadOwnState == {Saved(now)}
Garbage == [state : {"garbage"}, start : Times, by : {0}]
ReadState ==
  CASE file.state = "missing" -> {Missing}
    [] file.state = "torn" -> {Missing} \cup Garbage
    [] file.state = "saved" -> {file}


(* What the browser process has in memory goes with it.                    *)
EndBrowser == browser' = "down" /\ reporting' = FALSE /\ started' = 0 /\ previous' = Missing

Launch ==
  /\ browser = "down" /\ session < MaxSessions
  /\ session' = session + 1
  /\ browser' = "running"
  /\ UNCHANGED <<now, reporting, file, started, previous, reports, validUrl, handlerVars>>

(* crashReporter.start, which does something the first time: the handler   *)
(* is started, and then a CrashChecker is made.                            *)
StartReporter ==
  /\ browser = "running" /\ ~reporting
  /\ reporting' = TRUE
  /\ handlers' = handlers \cup {session}
  /\ browser' = "reading"
  /\ UNCHANGED <<now, session, file, started, previous, reports, validUrl, jobs, logs>>

(* CreateCache reads the state of the last session, and the time.          *)
ReadFile ==
  /\ browser = "reading"
  /\ previous' \in ReadState
  /\ started' = now
  /\ browser' = "truncating"
  /\ UNCHANGED <<now, session, reporting, file, reports, validUrl, handlerVars>>

(* The file is written in two steps, between which a crash leaves it torn. *)
TruncateFile ==
  /\ browser = "truncating"
  /\ file' = Torn
  /\ browser' = "writing"
  /\ UNCHANGED <<now, session, reporting, started, previous, reports, validUrl, handlerVars>>

WriteFile ==
  /\ browser = "writing"
  /\ file' = Saved(started)
  /\ browser' = "running"
  /\ started' = 0
  /\ UNCHANGED <<now, session, reporting, previous, reports, validUrl, handlerVars>>

(* crashReporter.didLastSessionCrash, once the reporter is started.        *)
(* Mutation: without a look at the time.                                   *)
AnyCompleted == \E r \in Ids : reports[r].state = "completed"
DidLastSessionCrash ==
  \E r \in Ids : reports[r].state = "completed" /\ reports[r].time >= previous.start

(***************************************************************************)
(* Crashes.                                                                *)
(***************************************************************************)
Report(process) ==
  [session |-> session, process |-> process, time |-> now, state |-> "pending",
   uploaded |-> FALSE, attempts |-> 0]

AddReport(process) ==
  IF session \in handlers
  THEN Len(reports) < MaxReports /\ reports' = Append(reports, Report(process))
  ELSE UNCHANGED reports

(* A process of the session crashes: the browser, which ends the session,  *)
(* or a child.                                                             *)
Crash(process) ==
  /\ browser # "down"
  /\ AddReport(process)
  /\ IF process = "browser" THEN EndBrowser ELSE UNCHANGED memory
  /\ UNCHANGED <<now, session, file, validUrl, handlerVars>>

Quit ==
  /\ browser = "running"
  /\ EndBrowser
  /\ UNCHANGED <<now, session, file, reports, validUrl, handlerVars>>

Tick ==
  /\ now < MaxTime
  /\ now' = now + 1
  /\ UNCHANGED <<browserVars, reports, validUrl, handlerVars>>

(***************************************************************************)
(* Uploads.                                                                *)
(***************************************************************************)
Idle == [report |-> 0, step |-> "idle"]
Job(r, step) == [report |-> r, step |-> step]
At(h, step) == h \in handlers /\ jobs[h].step = step
SetJob(h, job) == jobs' = [jobs EXCEPT ![h] = job]

(* The secret is a GUID, in a URL that can be parsed.  Without one,        *)
(* Crashpad's own upload goes to the same URL, which is of no server.      *)
Initialized == validUrl

(* The handler takes a pending report that no other handler has.           *)
Take(h, r) ==
  /\ At(h, "idle")
  /\ reports[r].state = "pending" /\ reports[r].attempts < MaxAttempts
  /\ \A other \in handlers : jobs[other].report # r
  /\ reports' = [reports EXCEPT ![r].attempts = @ + 1]
  /\ SetJob(h, Job(r, IF Initialized THEN "sending" ELSE "failed"))
  /\ UNCHANGED <<now, browserVars, validUrl, handlers, logs>>

(* CrashPadUploadReport reads the dump, each seek and read of which may    *)
(* fail, sends a log with an id of its own under the handler's session, and *)
(* waits for the answer, which may be lost with or without the log.        *)
Log(h) ==
  [report |-> jobs[h].report, sid |-> h, id |-> reports[jobs[h].report].attempts]
Answered(h) == SetJob(h, Job(jobs[h].report, "answered"))
Failed(h) == SetJob(h, Job(jobs[h].report, "failed"))

(* Mutation: whatever ExecuteSynchronously returns.                         *)
SentAnyway(h) == logs' \in {logs, logs \cup {Log(h)}} /\ Answered(h)
Sent(h) ==
  \/ logs' = logs \cup {Log(h)} /\ Answered(h)
  \/ logs' \in {logs, logs \cup {Log(h)}} /\ Failed(h)

SendLog(h) ==
  /\ At(h, "sending")
  /\ Sent(h)
  /\ UNCHANGED <<now, browserVars, reports, validUrl, handlers>>

(* kSuccess: the report is completed, and recorded as uploaded.            *)
RecordUploaded(h) ==
  /\ At(h, "answered")
  /\ reports' = [reports EXCEPT ![jobs[h].report].state = "completed",
                                ![jobs[h].report].uploaded = TRUE]
  /\ SetJob(h, Idle)
  /\ UNCHANGED <<now, browserVars, validUrl, handlers, logs>>

(* kRetry: it stays pending, or is completed without an upload.            *)
RecordFailed(h) ==
  /\ At(h, "failed")
  /\ \E state \in {"pending", "completed"} :
       reports' = [reports EXCEPT ![jobs[h].report].state = state]
  /\ SetJob(h, Idle)
  /\ UNCHANGED <<now, browserVars, validUrl, handlers, logs>>

(* The handler ends, with its session or on its own, maybe in an upload.   *)
HandlerEnds(h) ==
  /\ h \in handlers
  /\ handlers' = handlers \ {h}
  /\ SetJob(h, Idle)
  /\ UNCHANGED <<now, browserVars, reports, validUrl, logs>>

CrashInit ==
  /\ now = 0 /\ session = 0 /\ browser = "down" /\ reporting = FALSE
  /\ file = Missing /\ started = 0 /\ previous = Missing
  /\ reports = <<>>
  /\ validUrl \in BOOLEAN
  /\ handlers = {} /\ jobs = [h \in Sessions |-> Idle] /\ logs = {}

BrowserNext ==
  \/ Launch \/ StartReporter \/ ReadFile \/ TruncateFile \/ WriteFile \/ Quit
  \/ \E process \in {"browser", "child"} : Crash(process)
HandlerNext ==
  \E h \in Sessions :
    \/ \E r \in Ids : Take(h, r)
    \/ SendLog(h) \/ RecordUploaded(h) \/ RecordFailed(h)
    \/ HandlerEnds(h)

CrashNext == BrowserNext \/ HandlerNext \/ Tick
CrashSpec == CrashInit /\ [][CrashNext]_crashVars

(***************************************************************************)
(* Properties.                                                             *)
(***************************************************************************)
ReportRecords ==
  [session : Sessions, process : {"browser", "child"}, time : Times, state : {"pending", "completed"}, uploaded : BOOLEAN,
   attempts : 0 .. MaxAttempts]
Jobs == [report : 0 .. MaxReports, step : {"idle", "sending", "answered", "failed"}]
States == [state : {"missing", "torn", "saved", "garbage"}, start : Times, by : 0 .. MaxSessions]

CrashTypeOK ==
  /\ now \in Times /\ session \in 0 .. MaxSessions
  /\ browser \in {"down", "running", "reading", "truncating", "writing"} /\ reporting \in BOOLEAN
  /\ file \in States /\ previous \in States /\ started \in Times
  /\ reports \in Seq(ReportRecords) /\ Len(reports) <= MaxReports
  /\ validUrl \in BOOLEAN
  /\ handlers \in SUBSET Sessions /\ jobs \in [Sessions -> Jobs]
  /\ logs \in SUBSET [report : 1 .. MaxReports, sid : Sessions, id : 1 .. MaxAttempts]

Completed(r) == reports[r].state = "completed"
Asked == browser = "running" /\ reporting

(* That the last session ended by a crash of the browser is told, if its   *)
(* report is completed by then: also if the browser crashed before or      *)
(* while it wrote the file, or in the second in which it started.          *)
LastCrashIsTold ==
  Asked /\ previous.state # "garbage" =>
    \A r \in Ids :
      reports[r].session = session - 1 /\ reports[r].process = "browser" /\ Completed(r)
        => DidLastSessionCrash

(* A crash that is told was one of the last session or of this one, if the *)
(* last session wrote its file, but for one in the second in which it did. *)
NoFalseAlarm ==
  Asked /\ previous.state = "saved" /\ previous.by = session - 1 /\ DidLastSessionCrash =>
    \E r \in Ids :
      /\ Completed(r)
      /\ reports[r].session >= session - 1 \/ reports[r].time = previous.start

(* A report that is recorded as uploaded, which nothing uploads again, has *)
(* reached App Center, whatever the handlers of several sessions do to it  *)
(* and wherever they end; and what reached it is of a crash there was.     *)
UploadedIsThere ==
  /\ \A r \in Ids : reports[r].uploaded => \E log \in logs : log.report = r
  /\ \A log \in logs : log.report \in Ids /\ log.id <= reports[log.report].attempts
==============================================================================
