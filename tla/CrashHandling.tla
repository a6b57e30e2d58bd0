---------------------------- MODULE CrashHandling ----------------------------
(***************************************************************************)
(* What becomes of a crash: reports of Windows Error Reporting on Windows, *)
(* the crash checker and the uploads to App Center on macOS.  A build has  *)
(* one of the two; the part it does not have stands still in one state.    *)
(***************************************************************************)
EXTENDS WerReports, CrashReports

VARIABLE platform

handlingVars == <<platform, werVars, crashVars>>

AnySystem == CHOOSE s \in Systems : TRUE

HandlingInit ==
  /\ WerInit /\ CrashInit
  /\ \/ platform = "windows" /\ validUrl = FALSE
     \/ platform = "mac" /\ system = AnySystem

OnWindows == platform = "windows" /\ WerNext /\ UNCHANGED <<platform, crashVars>>
OnMac == platform = "mac" /\ CrashNext /\ UNCHANGED <<platform, werVars>>

HandlingNext == OnWindows \/ OnMac

HandlingFairness ==
  \A t \in Threads :
    WF_handlingVars(platform = "windows" /\ InCrash(t) /\ UNCHANGED <<platform, crashVars>>)
HandlingSpec == HandlingInit /\ [][HandlingNext]_handlingVars /\ HandlingFairness
==============================================================================
