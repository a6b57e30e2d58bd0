-------------------------- MODULE CrashHandlingProofs --------------------------
(***************************************************************************)
(* Proofs about CrashHandling, for any threads, types of children and data *)
(* on Windows, and any number of sessions, reports and uploads on macOS.   *)
(***************************************************************************)
EXTENDS CrashHandling, SequenceTheorems, TLAPS

(***************************************************************************)
(* macOS: the inductive invariant.  Everything that happened, happened by  *)
(* now, and in a session there has been.                                   *)
(***************************************************************************)
PastTimes ==
  /\ file.state # "garbage" /\ file.start <= now /\ started <= now
  /\ file.by <= session /\ previous.by <= session
  /\ browser # "down" => session >= 1
  /\ browser \in {"reading", "truncating", "writing"} => reporting
  /\ browser = "down" => ~reporting
  /\ \A r \in Ids : reports[r].time <= now /\ reports[r].session <= session

(* A crash of the browser is the end of its session, and comes after what  *)
(* the session wrote; so does that of the last session, until the file is  *)
(* written again, and by then it has been read.                            *)
HasRead == browser \in {"truncating", "writing"} \/ Asked
LastCrashIsLater ==
  \A r \in Ids : reports[r].process = "browser" =>
    /\ reports[r].session = session => browser = "down" /\ reports[r].time >= file.start
    /\ reports[r].session = session - 1 /\ browser # "down" =>
         IF HasRead
         THEN previous.state # "garbage" => reports[r].time >= previous.start
         ELSE reports[r].time >= file.start

(* The reports of the sessions before the one that wrote a time are not    *)
(* later than that time.                                                   *)
OlderThan(s, time) == \A r \in Ids : reports[r].session < s => reports[r].time <= time
OlderCrashesAreEarlier ==
  /\ browser \in {"truncating", "writing"} => OlderThan(session, started)
  /\ file.state = "saved" => OlderThan(file.by, file.start)
  /\ previous.state = "saved" => OlderThan(previous.by, previous.start)

(* An upload is one of a report there is, and was tried; one that is       *)
(* answered has left its log.                                              *)
JobsAreOfReports ==
  \A h \in Sessions : jobs[h].step # "idle" =>
    /\ jobs[h].report \in Ids /\ reports[jobs[h].report].attempts >= 1
    /\ jobs[h].step = "answered" => \E log \in logs : log.report = jobs[h].report

CrashInv ==
  /\ CrashTypeOK
  /\ PastTimes
  /\ LastCrashIsLater
  /\ OlderCrashesAreEarlier
  /\ JobsAreOfReports
  /\ UploadedIsThere

(***************************************************************************)
(* The parts of the types that the steps need.                             *)
(***************************************************************************)
LEMMA ReportTypes ==
  ASSUME CrashTypeOK
  PROVE  /\ Len(reports) \in Nat
         /\ \A r \in Ids :
              /\ reports[r] \in ReportRecords
              /\ reports[r].time \in Nat /\ reports[r].session \in Nat
              /\ reports[r].attempts \in Nat
<1>1. Len(reports) \in Nat /\ \A r \in Ids : reports[r] \in ReportRecords
  BY DEF CrashTypeOK, Ids
<1> QED BY <1>1, CrashAssumption DEF ReportRecords, Times, Sessions

LEMMA TimeTypes ==
  ASSUME CrashTypeOK
  PROVE  /\ now \in Nat /\ session \in Nat /\ started \in Nat
         /\ file.start \in Nat /\ file.by \in Nat
         /\ previous.start \in Nat /\ previous.by \in Nat
BY CrashAssumption DEF CrashTypeOK, States, Times

(***************************************************************************)
(* Steps of the browser and of time that leave the reports as they are.    *)
(***************************************************************************)
UploadsStand == UNCHANGED <<reports, jobs, logs>>

LEMMA UploadsKept ==
  ASSUME CrashInv, UploadsStand
  PROVE  JobsAreOfReports' /\ UploadedIsThere'
BY DEF CrashInv, UploadsStand, JobsAreOfReports, UploadedIsThere, Ids

LEMMA LaunchStep == CrashInv /\ Launch => CrashInv'
<1> SUFFICES ASSUME CrashInv, Launch PROVE CrashInv'
  OBVIOUS
<1> USE DEF CrashInv, Launch, handlerVars
<1>1. CrashTypeOK'
  BY CrashAssumption DEF CrashTypeOK, Times, Sessions
<1>2. UploadsStand
  BY DEF UploadsStand
<1>3. PastTimes'
  BY ReportTypes, TimeTypes DEF PastTimes, Ids
<1>4. LastCrashIsLater'
  BY ReportTypes, TimeTypes DEF LastCrashIsLater, PastTimes, HasRead, Asked, Ids
<1>5. OlderCrashesAreEarlier'
  BY DEF OlderCrashesAreEarlier, OlderThan, Ids
<1> QED BY <1>1, <1>2, <1>3, <1>4, <1>5, UploadsKept

LEMMA StartReporterStep == CrashInv /\ StartReporter => CrashInv'
<1> SUFFICES ASSUME CrashInv, StartReporter PROVE CrashInv'
  OBVIOUS
<1> USE DEF CrashInv, StartReporter
<1>1. CrashTypeOK'
  <2>1. session \in Sessions
    BY CrashAssumption, TimeTypes DEF CrashTypeOK, PastTimes, Sessions
  <2>2. handlers' \in SUBSET Sessions
    BY <2>1 DEF CrashTypeOK
  <2>3. reporting' \in BOOLEAN /\ UNCHANGED <<now, session, file, started, previous, reports, validUrl, jobs, logs>>
    OBVIOUS
  <2>4. browser' \in {"down", "running", "reading", "truncating", "writing"}
    OBVIOUS
  <2> QED BY <2>2, <2>3, <2>4 DEF CrashTypeOK
<1>2. UploadsStand
  BY DEF UploadsStand
<1>3. PastTimes'
  BY ReportTypes, TimeTypes DEF PastTimes, Ids
<1>4. LastCrashIsLater'
  BY ReportTypes, TimeTypes DEF LastCrashIsLater, HasRead, Asked, Ids
<1>5. OlderCrashesAreEarlier'
  BY DEF OlderCrashesAreEarlier, OlderThan, Ids
<1> QED BY <1>1, <1>2, <1>3, <1>4, <1>5, UploadsKept

LEMMA ReadFileStep == CrashInv /\ ReadFile => CrashInv'
<1> SUFFICES ASSUME CrashInv, ReadFile PROVE CrashInv'
  OBVIOUS
<1> USE DEF CrashInv, ReadFile, handlerVars
<1>0. /\ previous' \in States /\ previous'.by <= session
      /\ previous'.state = "garbage" \/ previous' = Missing \/ (previous' = file /\ file.state = "saved")
  <2>1. file \in States /\ file.state # "garbage"
    BY DEF CrashTypeOK, PastTimes
  <2>2. CASE file.state \in {"missing", "torn"}
    <3>1. previous' = Missing \/ previous' \in Garbage
      BY <2>2 DEF ReadState
    <3>2. Missing \in States /\ Missing.by = 0
      BY CrashAssumption DEF Missing, States, Times
    <3>3. \A g \in Garbage : g \in States /\ g.by = 0 /\ g.state = "garbage"
      BY CrashAssumption DEF Garbage, States
    <3>4. previous' \in States /\ previous'.by = 0
      BY <3>1, <3>2, <3>3
    <3>5. 0 <= session
      BY TimeTypes
    <3>6. previous'.state = "garbage" \/ previous' = Missing
      BY <3>1, <3>3
    <3>7. previous'.by <= session
      BY ONLY <3>4, <3>5
    <3> QED BY ONLY <3>4, <3>6, <3>7
  <2>3. CASE file.state = "saved"
    <3>1. previous' = file
      BY <2>3 DEF ReadState
    <3> QED BY <3>1, <2>1, <2>3 DEF PastTimes
  <2> QED BY <2>1, <2>2, <2>3 DEF States
<1>1. CrashTypeOK'
  BY <1>0 DEF CrashTypeOK
<1>2. UploadsStand
  BY DEF UploadsStand
<1>3. PastTimes'
  BY <1>0, ReportTypes, TimeTypes DEF PastTimes, Ids
<1>4. LastCrashIsLater'
  BY <1>0, ReportTypes, TimeTypes DEF LastCrashIsLater, HasRead, Asked, Ids, Missing
<1>5. OlderCrashesAreEarlier'
  <2>1. OlderThan(session, started)'
    BY ReportTypes, TimeTypes DEF OlderThan, Ids, PastTimes
  <2>2. file.state = "saved" => OlderThan(file.by, file.start)'
    BY DEF OlderCrashesAreEarlier, OlderThan, Ids
  <2>3. previous'.state = "saved" => OlderThan(previous.by, previous.start)'
    BY <1>0, <2>2 DEF OlderThan, Missing
  <2> QED BY <2>1, <2>2, <2>3 DEF OlderCrashesAreEarlier
<1> QED BY <1>1, <1>2, <1>3, <1>4, <1>5, UploadsKept

LEMMA TruncateFileStep == CrashInv /\ TruncateFile => CrashInv'
<1> SUFFICES ASSUME CrashInv, TruncateFile PROVE CrashInv'
  OBVIOUS
<1> USE DEF CrashInv, TruncateFile, handlerVars
<1>1. CrashTypeOK'
  BY CrashAssumption DEF CrashTypeOK, States, Torn, Times
<1>2. UploadsStand
  BY DEF UploadsStand
<1>3. PastTimes'
  BY ReportTypes, TimeTypes DEF PastTimes, Ids, Torn
<1>4. LastCrashIsLater'
  BY ReportTypes, TimeTypes DEF LastCrashIsLater, HasRead, Asked, Ids, Torn
<1>5. OlderCrashesAreEarlier'
  BY DEF OlderCrashesAreEarlier, OlderThan, Ids, Torn
<1> QED BY <1>1, <1>2, <1>3, <1>4, <1>5, UploadsKept

LEMMA WriteFileStep == CrashInv /\ WriteFile => CrashInv'
<1> SUFFICES ASSUME CrashInv, WriteFile PROVE CrashInv'
  OBVIOUS
<1> USE DEF CrashInv, WriteFile, handlerVars
<1>1. CrashTypeOK'
  BY CrashAssumption DEF CrashTypeOK, States, Saved, Times
<1>2. UploadsStand
  BY DEF UploadsStand
<1>3. PastTimes'
  BY ReportTypes, TimeTypes DEF PastTimes, Ids, Saved
<1>4. LastCrashIsLater'
  BY ReportTypes, TimeTypes DEF LastCrashIsLater, PastTimes, HasRead, Asked, Ids, Saved
<1>5. OlderCrashesAreEarlier'
  BY DEF OlderCrashesAreEarlier, OlderThan, Ids, Saved
<1> QED BY <1>1, <1>2, <1>3, <1>4, <1>5, UploadsKept

LEMMA QuitStep == CrashInv /\ Quit => CrashInv'
<1> SUFFICES ASSUME CrashInv, Quit PROVE CrashInv'
  OBVIOUS
<1> USE DEF CrashInv, Quit, EndBrowser, handlerVars
<1>1. CrashTypeOK'
  <2>1. Missing \in States
    BY CrashAssumption DEF States, Missing, Times
  <2>2. previous' \in States /\ started' \in Times
    BY <2>1, CrashAssumption DEF Times
  <2>3. UNCHANGED <<now, session, file, reports, validUrl, handlers, jobs, logs>>
    OBVIOUS
  <2> QED BY <2>2, <2>3 DEF CrashTypeOK, Ids
<1>2. UploadsStand
  BY DEF UploadsStand
<1>3. PastTimes'
  BY ReportTypes, TimeTypes DEF PastTimes, Ids, Missing
<1>4. LastCrashIsLater'
  BY ReportTypes, TimeTypes DEF LastCrashIsLater, HasRead, Asked, Ids
<1>5. OlderCrashesAreEarlier'
  BY DEF OlderCrashesAreEarlier, OlderThan, Ids, Missing
<1> QED BY <1>1, <1>2, <1>3, <1>4, <1>5, UploadsKept

LEMMA TickStep == CrashInv /\ Tick => CrashInv'
<1> SUFFICES ASSUME CrashInv, Tick PROVE CrashInv'
  OBVIOUS
<1> USE DEF CrashInv, Tick, browserVars, memory, handlerVars
<1>1. CrashTypeOK'
  BY CrashAssumption DEF CrashTypeOK, Times
<1>2. UploadsStand
  BY DEF UploadsStand
<1>3. PastTimes'
  BY ReportTypes, TimeTypes DEF PastTimes, Ids
<1>4. LastCrashIsLater'
  BY ReportTypes, TimeTypes DEF LastCrashIsLater, HasRead, Asked, Ids
<1>5. OlderCrashesAreEarlier'
  BY DEF OlderCrashesAreEarlier, OlderThan, Ids
<1> QED BY <1>1, <1>2, <1>3, <1>4, <1>5, UploadsKept

(***************************************************************************)
(* A crash: what is added to the reports is of this session and of now.    *)
(***************************************************************************)
LEMMA CrashStep ==
  ASSUME CrashInv, NEW who \in {"browser", "child"}, Crash(who)
  PROVE  CrashInv'
<1> USE DEF CrashInv
<1>1. /\ UNCHANGED <<now, session, file, validUrl, handlers, jobs, logs>>
      /\ AddReport(who) /\ browser # "down"
      /\ IF who = "browser" THEN EndBrowser ELSE UNCHANGED memory
  BY DEF Crash, handlerVars
<1>2. PICK new : new = Report(who)
  OBVIOUS
<1>3. /\ new.session = session /\ new.process = who /\ new.time = now
      /\ new.uploaded = FALSE
  BY <1>2 DEF Report
<1>4. \/ UNCHANGED reports
      \/ /\ reports' \in Seq(ReportRecords) /\ Len(reports') = Len(reports) + 1
         /\ Len(reports') <= MaxReports
         /\ \A r \in Ids : reports'[r] = reports[r]
         /\ reports'[Len(reports')] = new
  <2>1. CASE session \in handlers
    <3>1. new \in ReportRecords
      BY <1>2, <2>1, CrashAssumption DEF Report, ReportRecords, CrashTypeOK
    <3>2. reports' = Append(reports, new) /\ Len(reports) < MaxReports
      BY <1>1, <1>2, <2>1 DEF AddReport
    <3> QED BY <3>1, <3>2, AppendProperties, CrashAssumption DEF CrashTypeOK, Ids
  <2>2. CASE session \notin handlers
    BY <1>1, <2>2 DEF AddReport
  <2> QED BY <2>1, <2>2
<1>5. \A r \in Ids : r \in Ids' /\ reports'[r] = reports[r]
  BY <1>4, ReportTypes DEF Ids
<1>6. \A r \in Ids' : r \in Ids \/ reports'[r] = new
  BY <1>4, ReportTypes DEF Ids
<1>7. \/ UNCHANGED memory /\ who = "child"
      \/ who = "browser" /\ browser' = "down" /\ reporting' = FALSE /\ started' = 0 /\ previous' = Missing
  BY <1>1 DEF EndBrowser
<1>8. CrashTypeOK'
  <2>1. Missing \in States
    BY CrashAssumption DEF States, Missing, Times
  <2>2. /\ previous' \in States /\ started' \in Times /\ reporting' \in BOOLEAN
        /\ browser' \in {"down", "running", "reading", "truncating", "writing"}
    <3>1. CASE UNCHANGED memory
      BY <3>1 DEF CrashTypeOK, memory
    <3>2. CASE browser' = "down" /\ reporting' = FALSE /\ started' = 0 /\ previous' = Missing
      <4>1. previous' \in States /\ started' \in Times
        BY <3>2, <2>1, CrashAssumption DEF Times
      <4>2. reporting' \in BOOLEAN
        BY <3>2
      <4>3. browser' \in {"down", "running", "reading", "truncating", "writing"}
        BY <3>2
      <4> QED BY <4>1, <4>2, <4>3
    <3> QED BY <3>1, <3>2, <1>7
  <2>3. reports' \in Seq(ReportRecords) /\ Len(reports') <= MaxReports
    BY <1>4 DEF CrashTypeOK
  <2> QED BY <2>2, <2>3, <1>1 DEF CrashTypeOK
<1>9. PastTimes'
  BY <1>1, <1>3, <1>5, <1>6, <1>7, ReportTypes, TimeTypes DEF PastTimes, memory, Missing
<1>10. LastCrashIsLater'
  BY <1>1, <1>3, <1>5, <1>6, <1>7, ReportTypes, TimeTypes
     DEF LastCrashIsLater, PastTimes, HasRead, Asked, memory
<1>11. OlderCrashesAreEarlier'
  <2>1. ASSUME NEW s \in Nat, s <= session, NEW time,
               \A r \in Ids : reports[r].session < s => reports[r].time <= time
        PROVE  \A r \in Ids' : reports'[r].session < s => reports'[r].time <= time
    BY <2>1, <1>3, <1>5, <1>6, TimeTypes
  <2>2. CASE UNCHANGED memory
    BY <2>1, <2>2, <1>1, TimeTypes DEF OlderCrashesAreEarlier, OlderThan, PastTimes, memory
  <2>3. CASE browser' = "down" /\ previous' = Missing
    BY <2>1, <2>3, <1>1, TimeTypes DEF OlderCrashesAreEarlier, OlderThan, PastTimes, Missing
  <2> QED BY <2>2, <2>3, <1>7
<1>12. JobsAreOfReports'
  BY <1>1, <1>5 DEF JobsAreOfReports
<1>13. UploadedIsThere'
  BY <1>1, <1>3, <1>5, <1>6 DEF UploadedIsThere
<1> QED BY <1>8, <1>9, <1>10, <1>11, <1>12, <1>13

(***************************************************************************)
(* Uploads.  They change how far a report is, not what it is of.           *)
(***************************************************************************)
SameCrashes ==
  /\ reports' \in Seq(ReportRecords) /\ Len(reports') = Len(reports)
  /\ \A r \in Ids :
       /\ reports'[r].session = reports[r].session
       /\ reports'[r].process = reports[r].process
       /\ reports'[r].time = reports[r].time

LEMMA BrowserKept ==
  ASSUME CrashInv, SameCrashes, UNCHANGED <<now, browserVars>>
  PROVE  PastTimes' /\ LastCrashIsLater' /\ OlderCrashesAreEarlier'
<1> USE DEF CrashInv
<1>1. Ids' = Ids
  BY DEF SameCrashes, Ids
<1>2. UNCHANGED <<now, session, file, browser, reporting, started, previous>>
  BY DEF browserVars, memory
<1>3. PastTimes'
  BY <1>1, <1>2 DEF SameCrashes, PastTimes
<1>4. LastCrashIsLater'
  BY <1>1, <1>2 DEF SameCrashes, LastCrashIsLater, HasRead, Asked
<1>5. OlderCrashesAreEarlier'
  BY <1>1, <1>2 DEF SameCrashes, OlderCrashesAreEarlier, OlderThan
<1> QED BY <1>3, <1>4, <1>5

(* One report goes on, and one handler's job.                              *)
LEMMA ReportChanged ==
  ASSUME CrashInv, NEW r \in Ids, NEW new \in ReportRecords,
         new.session = reports[r].session, new.process = reports[r].process,
         new.time = reports[r].time, reports' = [reports EXCEPT ![r] = new]
  PROVE  /\ SameCrashes /\ Ids' = Ids
         /\ reports'[r] = new /\ \A o \in Ids : o # r => reports'[o] = reports[o]
<1>1. reports \in Seq(ReportRecords)
  BY DEF CrashInv, CrashTypeOK
<1>2. /\ reports' \in Seq(ReportRecords) /\ Len(reports') = Len(reports)
      /\ \A o \in Ids : reports'[o] = IF o = r THEN new ELSE reports[o]
  BY <1>1, ExceptSeq DEF Ids
<1> QED BY <1>2 DEF SameCrashes, Ids

LEMMA JobChanged ==
  ASSUME CrashInv, NEW h \in Sessions, NEW job \in Jobs, SetJob(h, job)
  PROVE  /\ jobs' \in [Sessions -> Jobs] /\ jobs'[h] = job
         /\ \A o \in Sessions : o # h => jobs'[o] = jobs[o]
<1>1. jobs \in [Sessions -> Jobs]
  BY DEF CrashInv, CrashTypeOK
<1> QED BY <1>1 DEF SetJob

LEMMA IdleIsAJob == Idle \in Jobs /\ Idle.step = "idle"
BY CrashAssumption DEF Idle, Jobs

(* What a handler has left of the browser's state, and the type of the     *)
(* rest.                                                                   *)
LEMMA UploadType ==
  ASSUME CrashInv, SameCrashes, UNCHANGED <<now, browserVars, validUrl>>,
         handlers' \subseteq handlers, jobs' \in [Sessions -> Jobs],
         logs' \subseteq [report : 1 .. MaxReports, sid : Sessions, id : 1 .. MaxAttempts]
  PROVE  CrashTypeOK'
<1>1. CrashTypeOK
  BY DEF CrashInv
<1>2. UNCHANGED <<now, session, file, browser, reporting, started, previous, validUrl>>
  BY DEF browserVars, memory
<1>3. reports' \in Seq(ReportRecords) /\ Len(reports') <= MaxReports
  BY <1>1 DEF SameCrashes, CrashTypeOK
<1> QED BY <1>1, <1>2, <1>3 DEF CrashTypeOK

(* Logs stay, and attempts only grow.                                      *)
LEMMA UploadedKept ==
  ASSUME CrashInv, Ids' = Ids, logs' = logs, SameCrashes,
         \A o \in Ids :
           /\ reports'[o].attempts >= reports[o].attempts
           /\ reports'[o].uploaded =>
                reports[o].uploaded \/ \E log \in logs : log.report = o
  PROVE  UploadedIsThere'
<1> USE DEF CrashInv
<1>1. \A o \in Ids' : reports'[o].uploaded => \E log \in logs' : log.report = o
  BY DEF UploadedIsThere
<1>2. ASSUME NEW log \in logs'
      PROVE  log.report \in Ids' /\ log.id <= reports'[log.report].attempts
  <2>1. log.report \in Ids /\ log.id <= reports[log.report].attempts /\ log.id \in Nat
    BY DEF UploadedIsThere, CrashTypeOK
  <2>2. reports'[log.report].attempts \in Nat
    <3>1. reports'[log.report] \in ReportRecords
      BY <2>1 DEF SameCrashes, Ids
    <3> QED BY <3>1, CrashAssumption DEF ReportRecords
  <2> QED BY <2>1, <2>2, ReportTypes
<1> QED BY <1>1, <1>2 DEF UploadedIsThere

LEMMA TakeStep ==
  ASSUME CrashInv, NEW h \in Sessions, NEW r \in Ids, Take(h, r)
  PROVE  CrashInv'
<1> USE DEF CrashInv
<1>1. /\ UNCHANGED <<now, browserVars, validUrl, handlers, logs>>
      /\ reports[r].attempts < MaxAttempts
      /\ reports' = [reports EXCEPT ![r].attempts = @ + 1]
      /\ SetJob(h, Job(r, IF Initialized THEN "sending" ELSE "failed"))
  BY DEF Take
<1>2. PICK new : new = [reports[r] EXCEPT !.attempts = @ + 1]
  OBVIOUS
<1>3. reports[r] \in ReportRecords
  BY ReportTypes
<1>4. /\ new \in ReportRecords /\ new.attempts = reports[r].attempts + 1
      /\ new.session = reports[r].session /\ new.process = reports[r].process
      /\ new.time = reports[r].time /\ new.uploaded = reports[r].uploaded
  BY <1>1, <1>2, <1>3, CrashAssumption DEF ReportRecords
<1>5. reports' = [reports EXCEPT ![r] = new]
  BY <1>1, <1>2
<1>6. /\ SameCrashes /\ Ids' = Ids
      /\ reports'[r] = new /\ \A o \in Ids : o # r => reports'[o] = reports[o]
  BY <1>4, <1>5, ReportChanged
<1>7. \A o \in Ids : /\ reports'[o].attempts >= reports[o].attempts
                     /\ reports'[o].uploaded = reports[o].uploaded
  BY <1>4, <1>6, ReportTypes
<1>8. PICK job \in Jobs :
         /\ job = Job(r, IF Initialized THEN "sending" ELSE "failed")
         /\ job.report = r /\ job.step \in {"sending", "failed"}
  <2>1. PICK step \in {"sending", "failed"} : step = IF Initialized THEN "sending" ELSE "failed"
    OBVIOUS
  <2>2. r \in 0 .. MaxReports
    BY CrashAssumption, ReportTypes DEF Ids, CrashTypeOK
  <2>3. [report |-> r, step |-> step] \in Jobs
    BY <2>2 DEF Jobs
  <2> QED BY <2>1, <2>3 DEF Job
<1>9. job.report = r /\ job.step \in {"sending", "failed"}
  BY <1>8
<1>10. /\ jobs' \in [Sessions -> Jobs] /\ jobs'[h] = job
       /\ \A o \in Sessions : o # h => jobs'[o] = jobs[o]
  BY <1>1, <1>8, JobChanged
<1>11. CrashTypeOK'
  BY <1>1, <1>6, <1>10, UploadType DEF CrashTypeOK
<1>12. JobsAreOfReports'
  <2>1. reports'[r].attempts >= 1
    BY <1>4, <1>6, ReportTypes
  <2>2. ASSUME NEW o \in Sessions, jobs'[o].step # "idle"
        PROVE  /\ jobs'[o].report \in Ids' /\ reports'[jobs'[o].report].attempts >= 1
               /\ jobs'[o].step = "answered" => \E log \in logs' : log.report = jobs'[o].report
    <3>1. CASE o = h
      BY <3>1, <2>1, <1>6, <1>9, <1>10
    <3>2. CASE o # h
      <4>1. jobs'[o] = jobs[o] /\ jobs[o].report \in Ids
            /\ reports[jobs[o].report].attempts >= 1
        BY <2>2, <3>2, <1>10 DEF JobsAreOfReports
      <4>2. reports'[jobs[o].report].attempts >= 1
        BY <4>1, <1>4, <1>6, ReportTypes
      <4> QED BY <2>2, <4>1, <4>2, <1>1, <1>6 DEF JobsAreOfReports
    <3> QED BY <3>1, <3>2
  <2> QED BY <2>2 DEF JobsAreOfReports
<1>13. UploadedIsThere'
  BY <1>1, <1>6, <1>7, UploadedKept
<1> QED BY <1>1, <1>6, <1>11, <1>12, <1>13, BrowserKept

(* A log is of the report that is sent, and as old as its last attempt.    *)
LEMMA SendLogStep ==
  ASSUME CrashInv, NEW h \in Sessions, SendLog(h)
  PROVE  CrashInv'
<1> USE DEF CrashInv
<1>1. /\ UNCHANGED <<now, browserVars, reports, validUrl, handlers>>
      /\ h \in handlers /\ jobs[h].step = "sending" /\ Sent(h)
  BY DEF SendLog, At
<1>2. PICK r \in Ids : r = jobs[h].report /\ reports[r].attempts >= 1
  BY <1>1 DEF JobsAreOfReports
<1>3. SameCrashes /\ Ids' = Ids
  BY <1>1 DEF SameCrashes, Ids, CrashTypeOK
<1>4. PICK log : log = Log(h)
  OBVIOUS
<1>5. /\ log \in [report : 1 .. MaxReports, sid : Sessions, id : 1 .. MaxAttempts]
      /\ log.report = r /\ log.id = reports[r].attempts
  <2>1. r \in 1 .. MaxReports
    BY CrashAssumption, ReportTypes DEF Ids, CrashTypeOK
  <2>2. reports[r].attempts \in 1 .. MaxAttempts
    <3>1. reports[r] \in ReportRecords
      BY ReportTypes
    <3> QED BY <3>1, <1>2, CrashAssumption DEF ReportRecords
  <2> QED BY <2>1, <2>2, <1>2, <1>4 DEF Log
<1>6. logs' = logs \cup {log} \/ logs' = logs
  BY <1>1, <1>4 DEF Sent
<1>7. PICK step \in {"answered", "failed"} :
        /\ SetJob(h, Job(r, step))
        /\ step = "answered" => log \in logs'
  BY <1>1, <1>2, <1>4 DEF Sent, Answered, Failed
<1>8. Job(r, step) \in Jobs /\ Job(r, step).report = r /\ Job(r, step).step = step
  <2>1. r \in 0 .. MaxReports
    BY CrashAssumption, ReportTypes DEF Ids, CrashTypeOK
  <2> QED BY <2>1 DEF Job, Jobs
<1>9. /\ jobs' \in [Sessions -> Jobs] /\ jobs'[h] = Job(r, step)
      /\ \A o \in Sessions : o # h => jobs'[o] = jobs[o]
  BY <1>7, <1>8, JobChanged
<1>10. CrashTypeOK'
  BY <1>1, <1>3, <1>5, <1>6, <1>9, UploadType DEF CrashTypeOK
<1>11. JobsAreOfReports'
  <2>1. ASSUME NEW o \in Sessions, jobs'[o].step # "idle"
        PROVE  /\ jobs'[o].report \in Ids' /\ reports'[jobs'[o].report].attempts >= 1
               /\ jobs'[o].step = "answered" => \E l \in logs' : l.report = jobs'[o].report
    <3>1. CASE o = h
      BY <3>1, <1>1, <1>2, <1>3, <1>5, <1>7, <1>8, <1>9
    <3>2. CASE o # h
      BY <2>1, <3>2, <1>1, <1>3, <1>6, <1>9 DEF JobsAreOfReports
    <3> QED BY <3>1, <3>2
  <2> QED BY <2>1 DEF JobsAreOfReports
<1>12. UploadedIsThere'
  <2>1. reports[r].attempts <= reports[r].attempts
    BY ReportTypes
  <2> QED BY <2>1, <1>1, <1>3, <1>5, <1>6 DEF UploadedIsThere
<1> QED BY <1>1, <1>3, <1>10, <1>11, <1>12, BrowserKept

(* The end of an upload, of whichever kind: the job is idle, the report is *)
(* as far as it says, and recorded as uploaded only if it was answered.    *)
LEMMA RecordStep ==
  ASSUME CrashInv, NEW h \in Sessions, jobs[h].step # "idle", NEW new,
         UNCHANGED <<now, browserVars, validUrl, handlers, logs>>,
         SetJob(h, Idle), reports' = [reports EXCEPT ![jobs[h].report] = new],
         new \in ReportRecords,
         new.session = reports[jobs[h].report].session,
         new.process = reports[jobs[h].report].process,
         new.time = reports[jobs[h].report].time,
         new.attempts = reports[jobs[h].report].attempts,
         new.uploaded => reports[jobs[h].report].uploaded \/ jobs[h].step = "answered"
  PROVE  CrashInv'
<1> USE DEF CrashInv
<1>1. PICK r \in Ids : r = jobs[h].report
  BY DEF JobsAreOfReports
<1>2. /\ SameCrashes /\ Ids' = Ids
      /\ reports'[r] = new /\ \A o \in Ids : o # r => reports'[o] = reports[o]
  BY <1>1, ReportChanged
<1>3. /\ jobs' \in [Sessions -> Jobs] /\ jobs'[h].step = "idle"
      /\ \A o \in Sessions : o # h => jobs'[o] = jobs[o]
  BY IdleIsAJob, JobChanged
<1>4. CrashTypeOK'
  BY <1>2, <1>3, UploadType DEF CrashTypeOK
<1>5. \A o \in Ids : reports'[o].attempts = reports[o].attempts
  BY <1>1, <1>2
<1>6. JobsAreOfReports'
  BY <1>2, <1>3, <1>5 DEF JobsAreOfReports
<1>7. UploadedIsThere'
  <2>1. \A o \in Ids : reports'[o].attempts >= reports[o].attempts
    BY <1>5, ReportTypes
  <2>2. ASSUME NEW o \in Ids, reports'[o].uploaded
        PROVE  reports[o].uploaded \/ \E log \in logs : log.report = o
    BY <2>2, <1>1, <1>2 DEF JobsAreOfReports
  <2> QED BY <2>1, <2>2, <1>2, UploadedKept
<1> QED BY <1>2, <1>4, <1>6, <1>7, BrowserKept

LEMMA RecordUploadedStep ==
  ASSUME CrashInv, NEW h \in Sessions, RecordUploaded(h)
  PROVE  CrashInv'
<1>1. PICK r \in Ids : r = jobs[h].report /\ jobs[h].step = "answered"
  BY DEF RecordUploaded, At, CrashInv, JobsAreOfReports
<1>2. PICK new : new = [reports[r] EXCEPT !.state = "completed", !.uploaded = TRUE]
  OBVIOUS
<1>3. reports[r] \in ReportRecords
  BY ReportTypes DEF CrashInv
<1>4. /\ new \in ReportRecords /\ new.attempts = reports[r].attempts
      /\ new.session = reports[r].session /\ new.process = reports[r].process
      /\ new.time = reports[r].time
  BY <1>2, <1>3 DEF ReportRecords
<1>5. reports' = [reports EXCEPT ![r] = new]
  <2>1. reports \in Seq(ReportRecords) /\ r \in 1 .. Len(reports)
    BY DEF CrashInv, CrashTypeOK, Ids
  <2> QED BY <1>1, <1>2, <2>1 DEF RecordUploaded
<1> QED BY <1>1, <1>4, <1>5, RecordStep DEF RecordUploaded

LEMMA RecordFailedStep ==
  ASSUME CrashInv, NEW h \in Sessions, RecordFailed(h)
  PROVE  CrashInv'
<1>1. PICK r \in Ids : r = jobs[h].report /\ jobs[h].step = "failed"
  BY DEF RecordFailed, At, CrashInv, JobsAreOfReports
<1>2. PICK state \in {"pending", "completed"} : reports' = [reports EXCEPT ![r].state = state]
  BY <1>1 DEF RecordFailed
<1>3. PICK new : new = [reports[r] EXCEPT !.state = state]
  OBVIOUS
<1>4. reports[r] \in ReportRecords
  BY ReportTypes DEF CrashInv
<1>5. /\ new \in ReportRecords /\ new.attempts = reports[r].attempts
      /\ new.session = reports[r].session /\ new.process = reports[r].process
      /\ new.time = reports[r].time /\ new.uploaded = reports[r].uploaded
  BY <1>3, <1>4 DEF ReportRecords
<1>6. reports' = [reports EXCEPT ![r] = new]
  BY <1>2, <1>3
<1> QED BY <1>1, <1>5, <1>6, RecordStep DEF RecordFailed

LEMMA HandlerEndsStep ==
  ASSUME CrashInv, NEW h \in Sessions, HandlerEnds(h)
  PROVE  CrashInv'
<1> USE DEF CrashInv
<1>1. /\ UNCHANGED <<now, browserVars, reports, validUrl, logs>>
      /\ handlers' \subseteq handlers /\ SetJob(h, Idle)
  BY DEF HandlerEnds
<1>2. SameCrashes /\ Ids' = Ids
  BY <1>1 DEF SameCrashes, Ids, CrashTypeOK
<1>3. /\ jobs' \in [Sessions -> Jobs] /\ jobs'[h].step = "idle"
      /\ \A o \in Sessions : o # h => jobs'[o] = jobs[o]
  BY <1>1, IdleIsAJob, JobChanged
<1>4. CrashTypeOK'
  BY <1>1, <1>2, <1>3, UploadType DEF CrashTypeOK
<1>5. JobsAreOfReports'
  BY <1>1, <1>2, <1>3 DEF JobsAreOfReports
<1>6. UploadedIsThere'
  BY <1>1, <1>2 DEF UploadedIsThere
<1> QED BY <1>1, <1>2, <1>4, <1>5, <1>6, BrowserKept

(***************************************************************************)
(* The invariant holds, and the properties follow.                         *)
(***************************************************************************)
LEMMA CrashInvInit == CrashInit => CrashInv
<1> SUFFICES ASSUME CrashInit PROVE CrashInv
  OBVIOUS
<1> USE CrashAssumption DEF CrashInit
<1>1. Ids = {}
  BY DEF Ids
<1>2. CrashTypeOK
  <2>1. Missing \in States
    BY DEF Missing, States, Times
  <2>2. reports \in Seq(ReportRecords) /\ Len(reports) <= MaxReports
    OBVIOUS
  <2>3. jobs \in [Sessions -> Jobs]
    BY IdleIsAJob
  <2>4. /\ now \in Times /\ session \in 0 .. MaxSessions /\ started \in Times
        /\ handlers \in SUBSET Sessions
    BY DEF Times
  <2>5. browser \in {"down", "running", "reading", "truncating", "writing"} /\ reporting \in BOOLEAN
    OBVIOUS
  <2>6. file \in States /\ previous \in States
    BY <2>1
  <2>7. validUrl \in BOOLEAN
    OBVIOUS
  <2>8. logs \in SUBSET [report : 1 .. MaxReports, sid : Sessions, id : 1 .. MaxAttempts]
    OBVIOUS
  <2> QED BY <2>2, <2>3, <2>4, <2>5, <2>6, <2>7, <2>8 DEF CrashTypeOK
<1>3. PastTimes
  BY <1>1 DEF PastTimes, Missing
<1>4. LastCrashIsLater /\ UploadedIsThere
  BY <1>1 DEF LastCrashIsLater, UploadedIsThere
<1>5. OlderCrashesAreEarlier
  BY <1>1 DEF OlderCrashesAreEarlier, OlderThan
<1>6. JobsAreOfReports
  BY IdleIsAJob DEF JobsAreOfReports
<1> QED BY <1>2, <1>3, <1>4, <1>5, <1>6 DEF CrashInv

LEMMA CrashInvStep == CrashInv /\ [CrashNext]_crashVars => CrashInv'
<1> SUFFICES ASSUME CrashInv, [CrashNext]_crashVars PROVE CrashInv'
  OBVIOUS
<1>1. CASE BrowserNext
  BY <1>1, LaunchStep, StartReporterStep, ReadFileStep, TruncateFileStep, WriteFileStep,
     QuitStep, CrashStep DEF BrowserNext
<1>2. CASE HandlerNext
  BY <1>2, TakeStep, SendLogStep, RecordUploadedStep, RecordFailedStep, HandlerEndsStep
     DEF HandlerNext
<1>3. CASE UNCHANGED crashVars
  <2> USE DEF CrashInv
  <2>1. UNCHANGED <<now, browserVars, reports, validUrl, handlers, jobs, logs>>
    BY <1>3 DEF crashVars, handlerVars, browserVars
  <2>2. SameCrashes /\ Ids' = Ids
    BY <2>1 DEF SameCrashes, Ids, CrashTypeOK
  <2>3. CrashTypeOK'
    BY <2>1, <2>2, UploadType DEF CrashTypeOK
  <2>4. JobsAreOfReports' /\ UploadedIsThere'
    BY <2>1, UploadsKept DEF UploadsStand
  <2> QED BY <2>1, <2>2, <2>3, <2>4, BrowserKept
<1> QED BY <1>1, <1>2, <1>3, TickStep DEF CrashNext

LEMMA LastCrashTold == CrashInv => LastCrashIsTold
<1> SUFFICES ASSUME CrashInv, Asked, previous.state # "garbage", NEW r \in Ids,
                    reports[r].session = session - 1, reports[r].process = "browser",
                    Completed(r)
             PROVE  DidLastSessionCrash
  BY DEF LastCrashIsTold
<1>1. reports[r].time >= previous.start
  BY DEF CrashInv, LastCrashIsLater, HasRead, Asked
<1> QED BY <1>1 DEF DidLastSessionCrash, Completed

LEMMA AlarmIsTrue == CrashInv => NoFalseAlarm
<1> SUFFICES ASSUME CrashInv, previous.state = "saved", previous.by = session - 1,
                    DidLastSessionCrash
             PROVE  \E r \in Ids :
                      /\ Completed(r)
                      /\ reports[r].session >= session - 1 \/ reports[r].time = previous.start
  BY DEF NoFalseAlarm
<1>1. PICK r \in Ids : Completed(r) /\ reports[r].time >= previous.start
  BY DEF DidLastSessionCrash, Completed
<1>2. reports[r].session < session - 1 => reports[r].time <= previous.start
  BY DEF CrashInv, OlderCrashesAreEarlier, OlderThan
<1>3. /\ reports[r].time \in Nat /\ reports[r].session \in Nat
      /\ previous.start \in Nat /\ session \in Nat
  BY ReportTypes, TimeTypes DEF CrashInv
<1>4. reports[r].session >= session - 1 \/ reports[r].time = previous.start
  BY <1>1, <1>2, <1>3
<1> QED BY <1>1, <1>4

(***************************************************************************)
(* Windows: reports are whole.  A frame holds what its calls have filled   *)
(* in so far, in their order; one that has submitted left its report.      *)
(***************************************************************************)
Filled(n) == {Calls[i] : i \in 1 .. n - 1}

FrameOK(frame) ==
  /\ frame \in Frames
  /\ frame.call <= Submitting => frame.parts = Filled(frame.call)
  /\ frame.call > Submitting => \E report \in submitted : report.fault = frame.fault

StackOK(s) == s \in Seq(Frames) /\ \A i \in 1 .. Len(s) : FrameOK(s[i])

WerInv ==
  /\ frames \in [Threads -> Seq(Frames)]
  /\ \A t \in Threads : StackOK(frames[t])
  /\ ReportsAreWhole

LEMMA ElevenCalls ==
  /\ Submitting = 11
  /\ Filled(Submitting) = Parts
<1>1. Submitting = 11
  BY DEF Submitting, Calls
<1>2. Filled(Submitting) = Parts
  BY DEF Filled, Parts
<1> QED BY <1>1, <1>2

LEMMA FilledGrows ==
  ASSUME NEW n \in 1 .. Submitting - 1
  PROVE  /\ Filled(n + 1) = Filled(n) \cup {Calls[n]}
         /\ Filled(n) \subseteq Parts
<1>1. n \in Nat \ {0} /\ Submitting \in Nat
  BY ElevenCalls
<1>2. \A i : i \in 1 .. (n + 1) - 1 <=> i \in 1 .. n - 1 \/ i = n
  BY <1>1
<1>3. Filled(n + 1) = Filled(n) \cup {Calls[n]}
  BY <1>2 DEF Filled
<1>4. \A i \in 1 .. n - 1 : i \in 1 .. Submitting - 1
  BY <1>1
<1>5. Filled(n) \subseteq Parts
  BY <1>4 DEF Filled, Parts
<1> QED BY <1>3, <1>5

(* Sequences: the last element is replaced, or goes.                       *)
LEMMA LastReplaced ==
  ASSUME NEW S, NEW s \in Seq(S), s # <<>>, NEW e \in S
  PROVE  LET rest == SubSeq(s, 1, Len(s) - 1)
             new == Append(rest, e)
         IN  /\ rest \in Seq(S) /\ Len(rest) = Len(s) - 1
             /\ \A i \in 1 .. Len(rest) : rest[i] = s[i]
             /\ new \in Seq(S) /\ Len(new) = Len(s)
             /\ new[Len(s)] = e
             /\ \A i \in 1 .. Len(s) - 1 : new[i] = s[i]
<1> DEFINE rest == SubSeq(s, 1, Len(s) - 1)
           new == Append(rest, e)
<1>1. Len(s) \in Nat \ {0}
  OBVIOUS
<1>2. rest \in Seq(S) /\ Len(rest) = Len(s) - 1 /\ \A i \in 1 .. Len(s) - 1 : rest[i] = s[i]
  <2>1. \A i \in 1 .. Len(s) - 1 : s[i] \in S
    BY <1>1
  <2>2. /\ rest \in Seq(S)
        /\ Len(rest) = IF 1 <= Len(s) - 1 THEN (Len(s) - 1) - 1 + 1 ELSE 0
        /\ \A i \in 1 .. (Len(s) - 1) - 1 + 1 : rest[i] = s[1 + i - 1]
    BY <1>1, <2>1, SubSeqProperties
  <2> HIDE DEF rest
  <2>3. \A i : i \in 1 .. (Len(s) - 1) - 1 + 1 <=> i \in 1 .. Len(s) - 1
    BY <1>1
  <2>4. \A i \in 1 .. Len(s) - 1 : 1 + i - 1 = i
    OBVIOUS
  <2>5. Len(rest) = Len(s) - 1
    <3> DEFINE n == Len(s) - 1
    <3>1. n \in Nat
      BY <1>1
    <3>2. Len(rest) = IF 1 <= n THEN n - 1 + 1 ELSE 0
      BY <2>2
    <3> HIDE DEF n
    <3>3. Len(rest) = n
      BY <3>1, <3>2
    <3> QED BY <3>3 DEF n
  <2>6. \A i \in 1 .. Len(s) - 1 : rest[i] = s[i]
    BY <2>2, <2>3, <2>4
  <2> QED BY <2>2, <2>5, <2>6
<1> HIDE DEF rest
<1>3. /\ new \in Seq(S) /\ Len(new) = Len(s) /\ new[Len(s)] = e
      /\ \A i \in 1 .. Len(s) - 1 : new[i] = s[i]
  BY <1>1, <1>2
<1> QED BY <1>2, <1>3 DEF rest

(* What was submitted stays, so frames stay as good as they were.          *)
LEMMA StackStays ==
  ASSUME NEW s, StackOK(s), submitted \subseteq submitted'
  PROVE  StackOK(s)'
BY DEF StackOK, FrameOK

LEMMA StacksStep ==
  ASSUME WerInv, NEW t \in Threads, NEW s,
         SetFrames(t, s), StackOK(s)', submitted \subseteq submitted'
  PROVE  /\ frames' \in [Threads -> Seq(Frames)]
         /\ \A u \in Threads : StackOK(frames[u])'
<1>1. s \in Seq(Frames)
  BY DEF StackOK
<1>2. frames' \in [Threads -> Seq(Frames)]
  BY <1>1 DEF SetFrames, WerInv
<1>3. ASSUME NEW u \in Threads
      PROVE  StackOK(frames[u])'
  <2>1. CASE u = t
    <3>1. frames'[u] = s
      BY <2>1 DEF SetFrames, WerInv
    <3> QED BY <3>1 DEF StackOK, FrameOK
  <2>2. CASE u # t
    <3>1. frames'[u] = frames[u]
      BY <2>2 DEF SetFrames, WerInv
    <3>2. \A i \in 1 .. Len(frames[u]) : FrameOK(frames[u][i])'
      <4>1. StackOK(frames[u])
        BY DEF WerInv
      <4> QED BY <3>1, <4>1 DEF StackOK, FrameOK
    <3>3. frames[u] \in Seq(Frames)
      BY DEF WerInv
    <3> QED BY <3>1, <3>2, <3>3 DEF StackOK, FrameOK
  <2> QED BY <2>1, <2>2
<1> QED BY <1>2, <1>3

(* The top frame is replaced.                                              *)
LEMMA TopStep ==
  ASSUME WerInv, NEW t \in Threads, InHandler(t), NEW frame,
         SetTop(t, frame), FrameOK(frame)', submitted \subseteq submitted'
  PROVE  /\ frames' \in [Threads -> Seq(Frames)]
         /\ \A u \in Threads : StackOK(frames[u])'
<1>1. PICK s : s = frames[t]
  OBVIOUS
<1> DEFINE new == Append(SubSeq(s, 1, Len(s) - 1), frame)
<1>2. s \in Seq(Frames) /\ s # <<>> /\ StackOK(s)
  BY <1>1 DEF WerInv, InHandler
<1>3. frame \in Frames
  BY DEF FrameOK
<1>4. /\ new \in Seq(Frames) /\ Len(new) = Len(s) /\ new[Len(s)] = frame
      /\ \A i \in 1 .. Len(s) - 1 : new[i] = s[i]
  BY <1>2, <1>3, LastReplaced
<1>5. SetFrames(t, new)
  BY <1>1 DEF SetTop, Below
<1> HIDE DEF new
<1>6. StackOK(new)'
  <2>1. ASSUME NEW i \in 1 .. Len(new)
        PROVE  FrameOK(new[i])'
    <3>1. CASE i = Len(s)
      BY <3>1, <1>4
    <3>2. CASE i # Len(s)
      <4>1. i \in 1 .. Len(s) - 1 /\ i \in 1 .. Len(s)
        BY <3>2, <1>2, <1>4
      <4>2. FrameOK(s[i])
        BY <4>1, <1>2 DEF StackOK
      <4> QED BY <4>1, <4>2, <1>4 DEF FrameOK
    <3> QED BY <3>1, <3>2
  <2> QED BY <2>1, <1>4 DEF StackOK
<1> QED BY <1>5, <1>6, StacksStep

(* A frame that is entered has filled in nothing yet.                      *)
LEMMA NewFrameOK ==
  ASSUME NEW t \in Threads, NEW kind \in Kinds \cup {"nested"}, NEW found \in BOOLEAN
  PROVE  /\ NewFrame(Fault(t, kind), found) \in Frames
         /\ FrameOK(NewFrame(Fault(t, kind), found))'
<1> DEFINE frame == NewFrame(Fault(t, kind), found)
<1>1. /\ frame.fault \in Faults /\ frame.module \in BOOLEAN
      /\ frame.call = 1 /\ frame.parts = {} /\ frame \in Frames
  BY ElevenCalls DEF NewFrame, Fault, Faults, Frames
<1>2. Filled(1) = {}
  BY DEF Filled
<1> QED BY <1>1, <1>2, ElevenCalls DEF FrameOK

LEMMA ModulesAreFound == \A kind \in Kinds : ModuleFound(kind) \subseteq BOOLEAN
BY DEF Kinds, ModuleFound

LEMMA TopOK ==
  ASSUME WerInv, NEW t \in Threads, InHandler(t)
  PROVE  FrameOK(Top(t)) /\ Top(t) \in Frames
<1>1. frames[t] \in Seq(Frames) /\ frames[t] # <<>> /\ StackOK(frames[t])
  BY DEF WerInv, InHandler
<1>2. Len(frames[t]) \in 1 .. Len(frames[t])
  BY <1>1
<1> QED BY <1>1, <1>2 DEF StackOK, FrameOK, Top

LEMMA CrashThreadStep ==
  ASSUME WerInv, NEW t \in Threads, NEW kind \in Kinds, CrashThread(t, kind)
  PROVE  WerInv'
<1>1. UNCHANGED <<exitCode, submitted>>
  BY DEF CrashThread
<1>2. CASE handler = "custom"
  <2>1. PICK found \in ModuleFound(kind) :
          SetFrames(t, <<NewFrame(Fault(t, kind), found)>>)
    BY <1>2 DEF CrashThread
  <2>2. FrameOK(NewFrame(Fault(t, kind), found))' /\ NewFrame(Fault(t, kind), found) \in Frames
    BY NewFrameOK, ModulesAreFound
  <2>3. StackOK(<<NewFrame(Fault(t, kind), found)>>)'
    BY <2>2 DEF StackOK
  <2> QED BY <2>1, <2>3, <1>1, StacksStep DEF WerInv, ReportsAreWhole
<1>3. CASE handler # "custom"
  BY <1>1, <1>3 DEF CrashThread, WerInv, ReportsAreWhole, StackOK, FrameOK
<1> QED BY <1>2, <1>3

LEMMA WerCallStep ==
  ASSUME WerInv, NEW t \in Threads, WerCall(t)
  PROVE  WerInv'
<1>0. PICK top : top = Top(t)
  OBVIOUS
<1>1. /\ FrameOK(top) /\ top \in Frames /\ InHandler(t) /\ top.call < Submitting
      /\ UNCHANGED <<exitCode, submitted>>
  BY <1>0, TopOK DEF WerCall
<1>2. /\ top.call \in 1 .. Submitting - 1 /\ top.call + 1 \in 1 .. Submitting
      /\ top.parts = Filled(top.call)
  BY <1>1, ElevenCalls DEF FrameOK, Frames
<1>3. PICK call, parts : call = top.call + 1 /\ parts = top.parts \cup {Calls[top.call]}
  OBVIOUS
<1>4. call \in 1 .. Submitting /\ call \in 1 .. Submitting + 1 /\ parts = Filled(call)
  BY <1>2, <1>3, FilledGrows, ElevenCalls
<1>5. parts \subseteq Parts
  <2>1. Calls[top.call] \in Parts
    BY <1>2 DEF Parts
  <2>2. top.parts \subseteq Parts
    BY <1>1 DEF Frames
  <2> QED BY <2>1, <2>2, <1>3
<1>6. PICK frame : frame = [top EXCEPT !.call = call, !.parts = parts]
  OBVIOUS
<1>7. frame \in Frames /\ frame.call = call /\ frame.parts = parts
  <2>1. /\ [top EXCEPT !.call = call, !.parts = parts] \in Frames
        /\ [top EXCEPT !.call = call, !.parts = parts].call = call
        /\ [top EXCEPT !.call = call, !.parts = parts].parts = parts
    <3>1. top \in Frames /\ call \in 1 .. Submitting + 1
      BY <1>1, <1>4
    <3> QED BY ONLY <3>1, <1>5 DEF Frames
  <2> QED BY <1>6, <2>1
<1>8. FrameOK(frame)'
  BY <1>4, <1>7, ElevenCalls DEF FrameOK
<1>9. SetTop(t, frame)
  BY <1>0, <1>3, <1>6 DEF WerCall
<1> QED BY <1>1, <1>8, <1>9, TopStep DEF WerInv, ReportsAreWhole

LEMMA ReadNoModuleStep ==
  ASSUME WerInv, NEW t \in Threads, ReadNoModule(t)
  PROVE  WerInv'
<1>1. UNCHANGED <<exitCode, submitted>> /\ InHandler(t)
  BY DEF ReadNoModule
<1>2. CASE SetFrames(t, Append(frames[t], NewFrame(Fault(t, "nested"), TRUE)))
  <2>1. PICK s : s = frames[t]
    OBVIOUS
  <2>2. s \in Seq(Frames) /\ StackOK(s)
    BY <2>1 DEF WerInv
  <2>3. PICK frame : frame = NewFrame(Fault(t, "nested"), TRUE)
    OBVIOUS
  <2>4. FrameOK(frame)' /\ frame \in Frames
    BY <2>3, NewFrameOK
  <2> DEFINE new == Append(s, frame)
  <2>5. new \in Seq(Frames) /\ Len(new) = Len(s) + 1
        /\ new[Len(s) + 1] = frame /\ \A i \in 1 .. Len(s) : new[i] = s[i]
    BY <2>2, <2>4
  <2>6. SetFrames(t, new)
    BY <1>2, <2>1, <2>3
  <2> HIDE DEF new
  <2>7. StackOK(new)'
    <3>1. ASSUME NEW i \in 1 .. Len(new)
          PROVE  FrameOK(new[i])'
      <4>1. CASE i = Len(s) + 1
        BY <4>1, <2>4, <2>5
      <4>2. CASE i # Len(s) + 1
        <5>1. i \in 1 .. Len(s)
          BY <4>2, <2>2, <2>5
        <5> QED BY <5>1, <2>2, <2>5, <1>1 DEF StackOK, FrameOK
      <4> QED BY <4>1, <4>2
    <3> QED BY <3>1, <2>5 DEF StackOK
  <2> QED BY <2>6, <2>7, <1>1, StacksStep DEF WerInv, ReportsAreWhole
<1>3. CASE UNCHANGED frames
  BY <1>1, <1>3 DEF WerInv, ReportsAreWhole, StackOK, FrameOK
<1> QED BY <1>2, <1>3 DEF ReadNoModule

LEMMA SubmitStep ==
  ASSUME WerInv, NEW t \in Threads, Submit(t)
  PROVE  WerInv'
<1> DEFINE top == Top(t)
<1>1. PICK frame : frame = [top EXCEPT !.call = @ + 1]
  OBVIOUS
<1>2. /\ FrameOK(top) /\ top \in Frames /\ InHandler(t) /\ top.call = Submitting
      /\ SetTop(t, frame) /\ UNCHANGED exitCode
      /\ submitted' = submitted \cup {[fault |-> top.fault, parts |-> top.parts, data |-> registered]}
  BY <1>1, TopOK DEF Submit
<1>3. top.parts = Parts
  BY <1>2, ElevenCalls DEF FrameOK, Frames
<1>4. /\ frame \in Frames /\ frame.call = Submitting + 1 /\ frame.fault = top.fault
  BY <1>1, <1>2, ElevenCalls DEF Frames
<1>5. FrameOK(frame)'
  <2> DEFINE report == [fault |-> top.fault, parts |-> top.parts, data |-> registered]
  <2>1. report \in submitted' /\ report.fault = frame.fault
    BY <1>2, <1>4
  <2> QED BY <2>1, <1>4, ElevenCalls DEF FrameOK
<1>6. ReportsAreWhole'
  BY <1>2, <1>3 DEF WerInv, ReportsAreWhole
<1> QED BY <1>2, <1>5, <1>6, TopStep DEF WerInv

LEMMA TerminateStep ==
  ASSUME WerInv, NEW t \in Threads, Terminate(t)
  PROVE  WerInv'
<1>1. FrameOK(Top(t)) /\ Top(t).call > Submitting /\ UNCHANGED <<frames, submitted>>
      /\ exitCode' = {Top(t).fault}
  BY TopOK DEF Terminate
<1>2. \E report \in submitted : report.fault = Top(t).fault
  BY <1>1 DEF FrameOK
<1> QED BY <1>1, <1>2 DEF WerInv, ReportsAreWhole, StackOK, FrameOK

LEMMA WerCallFailsStep ==
  ASSUME WerInv, NEW t \in Threads, WerCallFails(t)
  PROVE  WerInv'
<1>1. UNCHANGED <<exitCode, submitted>> /\ InHandler(t) /\ Returns(t)
  BY DEF WerCallFails
<1>2. CASE UNCHANGED frames
  BY <1>1, <1>2 DEF WerInv, ReportsAreWhole, StackOK, FrameOK
<1>3. CASE SetTop(t, NewFrame(Fault(t, "filter"), Top(t).module))
  <2>1. PICK found \in BOOLEAN : found = Top(t).module
    BY <1>1, TopOK DEF Frames
  <2>2. PICK frame : frame = NewFrame(Fault(t, "filter"), found)
    OBVIOUS
  <2>3. FrameOK(frame)'
    BY <2>2, NewFrameOK DEF Kinds
  <2>4. SetTop(t, frame)
    BY <1>3, <2>1, <2>2
  <2> QED BY <2>3, <2>4, <1>1, TopStep DEF WerInv, ReportsAreWhole
<1>4. CASE SetFrames(t, Below(t))
  <2>1. PICK s : s = frames[t]
    OBVIOUS
  <2>2. s \in Seq(Frames) /\ s # <<>> /\ StackOK(s) /\ Top(t) \in Frames
    BY <2>1, <1>1, TopOK DEF WerInv, InHandler
  <2>3. PICK rest : rest = SubSeq(s, 1, Len(s) - 1)
    OBVIOUS
  <2>4. /\ rest \in Seq(Frames) /\ Len(rest) = Len(s) - 1
        /\ \A i \in 1 .. Len(rest) : rest[i] = s[i]
    BY <2>2, <2>3, LastReplaced
  <2>5. StackOK(rest)'
    <3>1. \A i \in 1 .. Len(rest) : i \in 1 .. Len(s)
      BY <2>2, <2>4
    <3> QED BY <3>1, <2>2, <2>4, <1>1 DEF StackOK, FrameOK
  <2>6. SetFrames(t, rest)
    BY <1>4, <2>1, <2>3 DEF Below
  <2> QED BY <2>5, <2>6, <1>1, StacksStep DEF WerInv, ReportsAreWhole
<1> QED BY <1>1, <1>2, <1>3, <1>4 DEF Returns

LEMMA WerInvInit == WerInit => WerInv
BY DEF WerInit, WerInv, ReportsAreWhole, StackOK

LEMMA WerInvStep == WerInv /\ [WerNext]_werVars => WerInv'
<1> SUFFICES ASSUME WerInv, [WerNext]_werVars PROVE WerInv'
  OBVIOUS
<1>1. CASE UNCHANGED crash
  BY <1>1 DEF crash, WerInv, ReportsAreWhole, StackOK, FrameOK
<1>2. ASSUME NEW types \in SUBSET ChildTypes, WerInitialize(types)
      PROVE  UNCHANGED crash
  BY <1>2 DEF WerInitialize
<1>3. StartChild => UNCHANGED crash
  BY DEF StartChild
<1>4. ASSUME NEW d \in Data, Register(d) \/ Unregister(d)
      PROVE  UNCHANGED crash
  BY <1>4 DEF Register, Unregister
<1>5. ASSUME NEW t \in Threads, InCrash(t)
      PROVE  WerInv'
  BY <1>5, WerCallStep, ReadNoModuleStep, SubmitStep, TerminateStep, WerCallFailsStep DEF InCrash
<1>6. ASSUME NEW t \in Threads, NEW kind \in Kinds, CrashThread(t, kind)
      PROVE  WerInv'
  BY <1>6, CrashThreadStep
<1>7. UNCHANGED werVars => UNCHANGED crash
  BY DEF werVars
<1> QED BY <1>1, <1>2, <1>3, <1>4, <1>5, <1>6, <1>7 DEF WerNext

(* Whatever call fails, and however many threads crash, also in the        *)
(* handler: no half-filled report reaches the service, and a process that  *)
(* the handler ended has been reported.                                    *)
THEOREM ReportsWhole == HandlingSpec => []ReportsAreWhole
<1>1. HandlingInit => WerInv
  BY WerInvInit DEF HandlingInit
<1>2. WerInv /\ [HandlingNext]_handlingVars => WerInv'
  <2>1. [HandlingNext]_handlingVars => [WerNext]_werVars
    BY DEF HandlingNext, OnWindows, OnMac, handlingVars
  <2> QED BY <2>1, WerInvStep
<1>3. WerInv => ReportsAreWhole
  BY DEF WerInv
<1> QED BY <1>1, <1>2, <1>3, PTL DEF HandlingSpec

(***************************************************************************)
(* macOS: the invariant of CrashReports in the composition.                *)
(***************************************************************************)
LEMMA CrashInvInHandling == HandlingSpec => []CrashInv
<1>1. HandlingInit => CrashInv
  BY CrashInvInit DEF HandlingInit
<1>2. CrashInv /\ [HandlingNext]_handlingVars => CrashInv'
  <2>1. [HandlingNext]_handlingVars => [CrashNext]_crashVars
    BY DEF HandlingNext, OnWindows, OnMac, handlingVars
  <2> QED BY <2>1, CrashInvStep
<1> QED BY <1>1, <1>2, PTL DEF HandlingSpec

(* A browser that crashed is found out by its next session, if the report  *)
(* is completed: wherever in the writing of its file it was.               *)
THEOREM LastCrashTruthTold == HandlingSpec => []LastCrashIsTold
BY CrashInvInHandling, LastCrashTold, PTL

(* What is told was a crash of the last session or of this one, or one in  *)
(* the second in which the last session started.                           *)
THEOREM NoAlarmForOlderCrashes == HandlingSpec => []NoFalseAlarm
BY CrashInvInHandling, AlarmIsTrue, PTL

(* No handler, of however many sessions and wherever it ends, records as   *)
(* uploaded what has not been received.                                    *)
THEOREM UploadedIsReceived == HandlingSpec => []UploadedIsThere
<1>1. CrashInv => UploadedIsThere
  BY DEF CrashInv
<1> QED BY <1>1, CrashInvInHandling, PTL
==============================================================================
