------------------------------ MODULE WerReports ------------------------------
(***************************************************************************)
(* Windows Error Reporting (electron/shell/common/wer_api_win.cc).         *)
(*                                                                         *)
(* The browser process asks for reports and says which of its children     *)
(* make them too; a child learns it from its command line.  Before         *)
(* Windows 8 a process without a sandbox reports its own crashes: the      *)
(* thread that crashed fills a report call by call, submits it and         *)
(* terminates the process.  Nothing keeps a second thread from crashing    *)
(* meanwhile, nor the handler from crashing itself.                        *)
(*                                                                         *)
(* The model follows one process, the browser or one child, and what the   *)
(* browser did before it was started.                                      *)
(***************************************************************************)
EXTENDS Naturals, Sequences

CONSTANTS
  Threads,     \* of the process
  ChildTypes,  \* types of child processes that options can name
  Data         \* files and metadata that can be registered

ASSUME WerAssumption == "browser" \notin ChildTypes

VARIABLES
  system,      \* Windows' age, the sandbox and the type of the process: rigid
  initOptions, \* init_options: the types of children asked for
  handler,     \* who takes the crashes of the process
  process,     \* absent, running, or how it ended
  exitCode,    \* the fault whose code it was terminated with: none or one
  frames,      \* for each thread, its calls of CrashForException, the last on top
  registered,  \* files and metadata that go with a report
  submitted    \* reports the error reporting service has

asked == <<system, initOptions>>
crash == <<exitCode, frames, submitted>>
werVars == <<asked, handler, process, registered, crash>>

(***************************************************************************)
(* Asking for reports.                                                     *)
(***************************************************************************)
Systems ==
  [oldWindows : BOOLEAN, sandboxed : BOOLEAN, type : ChildTypes \cup {"browser"}]
IsBrowser == system.type = "browser"

(* What Initialize makes of the handler h of a process: setting the error  *)
(* mode and flags of the process may fail.                                 *)
Initialize(h) ==
  IF system.oldWindows
  THEN IF system.sandboxed THEN {h} ELSE {"custom"}
  ELSE {h, "background"}

(* process.werInitialize in the browser process.                           *)
WerInitialize(types) ==
  /\ ~IsBrowser \/ process = "running"
  /\ initOptions' = types
  /\ IF IsBrowser THEN handler' \in Initialize(handler) ELSE UNCHANGED handler
  /\ UNCHANGED <<system, process, registered, crash>>

(* --enable-wer on the command line of a child that is started now.        *)
EnableWer == system.type \in initOptions

(* The browser starts the child, which looks at its command line.          *)
StartChild ==
  /\ process = "absent"
  /\ process' = "running"
  /\ IF EnableWer THEN handler' \in Initialize(handler) ELSE UNCHANGED handler
  /\ UNCHANGED <<asked, registered, crash>>

(* Script registers and withdraws what goes with a report.  Both may fail, *)
(* for metadata always where the system does not offer it.                 *)
Register(d) ==
  /\ process = "running"
  /\ registered' = registered \cup {d}
  /\ UNCHANGED <<asked, handler, process, crash>>

Unregister(d) ==
  /\ process = "running"
  /\ registered' = registered \ {d}
  /\ UNCHANGED <<asked, handler, process, crash>>

(***************************************************************************)
(* Crashing.  A fault is known by its thread and its kind:                 *)
(*   "filter"            an exception in a module, which nobody handled    *)
(*   "jit"               an exception in code that V8 generated            *)
(*   "invalidParameter"  the C runtime refuses a parameter                 *)
(*   "purecall"          a pure virtual function was called                *)
(*   "nested"            an exception in CrashForException                 *)
(***************************************************************************)
Kinds == {"filter", "jit", "invalidParameter", "purecall"}
Fault(t, kind) == [thread |-> t, kind |-> kind]

(* The parts of a report, in the order in which they are filled in.        *)
Calls == <<"create", "P0", "P1", "P2", "P3", "P4", "P5", "P7", "P6", "dump", "submit">>
Submitting == Len(Calls)
Parts == {Calls[i] : i \in 1 .. Submitting - 1}

(* A thread enters CrashForException.  The module of a fault's address is  *)
(* not found for generated code; for a fault without an address the system *)
(* may find the executable, or nothing.                                    *)
ModuleFound(kind) ==
  CASE kind \in {"filter", "nested"} -> {TRUE}
    [] kind = "jit" -> {FALSE}
    [] kind \in {"invalidParameter", "purecall"} -> BOOLEAN

NewFrame(fault, found) == [fault |-> fault, module |-> found, call |-> 1, parts |-> {}]

Top(t) == frames[t][Len(frames[t])]
Below(t) == SubSeq(frames[t], 1, Len(frames[t]) - 1)
SetFrames(t, fs) == frames' = [frames EXCEPT ![t] = fs]
SetTop(t, frame) == SetFrames(t, Append(Below(t), frame))

InHandler(t) == process = "running" /\ frames[t] # <<>>

CrashThread(t, kind) ==
  /\ process = "running" /\ frames[t] = <<>>
  /\ \/ /\ handler = "custom"
        /\ \E found \in ModuleFound(kind) :
             SetFrames(t, <<NewFrame(Fault(t, kind), found)>>)
        /\ UNCHANGED process
     \/ /\ handler # "custom"  \* the system takes it
        /\ process' = "taken"
        /\ UNCHANGED frames
  /\ UNCHANGED <<asked, handler, exitCode, registered, submitted>>

(* P5 is read from the header of the module.                               *)
Readable(frame) == Calls[frame.call] = "P5" => frame.module

(* A call of the error reporting functions succeeds.                       *)
WerCall(t) ==
  /\ InHandler(t) /\ Top(t).call < Submitting /\ Readable(Top(t))
  /\ SetTop(t, [Top(t) EXCEPT !.call = @ + 1, !.parts = @ \cup {Calls[Top(t).call]}])
  /\ UNCHANGED <<asked, handler, process, exitCode, registered, submitted>>

(* The header of a module that was not found is read at address zero.  The *)
(* thread is in an exception handler already, and the system may take the  *)
(* exception to the handler again or end the process.                      *)
ReadNoModule(t) ==
  /\ InHandler(t) /\ Top(t).call < Submitting /\ ~Readable(Top(t))
  /\ \/ /\ SetFrames(t, Append(frames[t], NewFrame(Fault(t, "nested"), TRUE)))
        /\ UNCHANGED process
     \/ process' = "lost" /\ UNCHANGED frames
  /\ UNCHANGED <<asked, handler, exitCode, registered, submitted>>

Submit(t) ==
  /\ InHandler(t) /\ Top(t).call = Submitting
  /\ submitted' = submitted \cup
       {[fault |-> Top(t).fault, parts |-> Top(t).parts, data |-> registered]}
  /\ SetTop(t, [Top(t) EXCEPT !.call = @ + 1])
  /\ UNCHANGED <<asked, handler, process, exitCode, registered>>

(* TerminateProcess with the code of the exception.                        *)
Terminate(t) ==
  /\ InHandler(t) /\ Top(t).call > Submitting
  /\ process' = "terminated"
  /\ exitCode' = {Top(t).fault}
  /\ UNCHANGED <<asked, handler, registered, frames, submitted>>

(* Mutation: the filter has the thread go on where it crashed.              *)
ReturnsContinuing(t) ==
  /\ SetTop(t, NewFrame(Top(t).fault, Top(t).module))
  /\ UNCHANGED process

(* What follows when CrashForException gives up: the top-level filter lets *)
(* the process end; V8 looks on and comes to that filter; the C runtime    *)
(* goes on after an invalid parameter, and aborts after a pure call.       *)
Returns(t) ==
  \/ /\ Top(t).fault.kind \in {"filter", "nested", "purecall"}
     /\ process' = "lost"
     /\ UNCHANGED frames
  \/ /\ Top(t).fault.kind = "jit"
     /\ SetTop(t, NewFrame(Fault(t, "filter"), Top(t).module))
     /\ UNCHANGED process
  \/ /\ Top(t).fault.kind = "invalidParameter"
     /\ SetFrames(t, Below(t))
     /\ UNCHANGED process

(* Mutation: a call that fails is passed over.                             *)
FailureIgnored(t) ==
  /\ InHandler(t) /\ Top(t).call <= Submitting /\ Readable(Top(t))
  /\ SetTop(t, [Top(t) EXCEPT !.call = @ + 1])
  /\ UNCHANGED <<asked, handler, process, exitCode, registered, submitted>>

(* A call fails: the report is closed and thrown away.                     *)
WerCallFails(t) ==
  /\ InHandler(t) /\ Top(t).call <= Submitting /\ Readable(Top(t))
  /\ Returns(t)
  /\ UNCHANGED <<asked, handler, exitCode, registered, submitted>>

WerInit ==
  /\ system \in Systems
  /\ initOptions = {}
  /\ handler = "none"
  /\ process = IF IsBrowser THEN "running" ELSE "absent"
  /\ exitCode = {}
  /\ frames = [t \in Threads |-> <<>>]
  /\ registered = {}
  /\ submitted = {}

InCrash(t) == WerCall(t) \/ ReadNoModule(t) \/ Submit(t) \/ Terminate(t) \/ WerCallFails(t)

WerNext ==
  \/ \E types \in SUBSET ChildTypes : WerInitialize(types)
  \/ StartChild
  \/ \E d \in Data : Register(d) \/ Unregister(d)
  \/ \E t \in Threads : InCrash(t) \/ \E kind \in Kinds : CrashThread(t, kind)

WerSpec == WerInit /\ [][WerNext]_werVars

(* A thread of a running process gets on: the error reporting functions    *)
(* return.                                                                 *)
WerFairness == \A t \in Threads : WF_werVars(InCrash(t))
WerLiveSpec == WerSpec /\ WerFairness

(***************************************************************************)
(* Properties.                                                             *)
(***************************************************************************)
Faults == [thread : Threads, kind : Kinds \cup {"nested"}]
Frames == [fault : Faults, module : BOOLEAN, call : 1 .. Submitting + 1, parts : SUBSET Parts]

WerTypeOK ==
  /\ system \in Systems /\ initOptions \in SUBSET ChildTypes
  /\ handler \in {"none", "custom", "background"}
  /\ process \in {"absent", "running", "taken", "lost", "terminated"}
  /\ exitCode \in SUBSET Faults
  /\ frames \in [Threads -> Seq(Frames)]
  /\ registered \in SUBSET Data
  /\ submitted \in SUBSET [fault : Faults, parts : SUBSET Parts, data : SUBSET Data]

(* Whichever call fails, and however many threads crash and crash again in *)
(* the handler: what reaches the service is whole, parameters and dump,    *)
(* and a process that the handler terminated ended with the code of a      *)
(* fault that was reported.                                                *)
ReportsAreWhole ==
  /\ \A report \in submitted : report.parts = Parts
  /\ \A fault \in exitCode : \E report \in submitted : report.fault = fault

(* The handler comes to an end: the process does not stand still in it, or *)
(* fault and report for ever.                                              *)
CrashEnds == \A t \in Threads : InHandler(t) ~> ~InHandler(t)
==============================================================================
