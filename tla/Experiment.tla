----------------------------- MODULE Experiment ------------------------------
(***************************************************************************)
(* What happens before and after a session: main of dhtperf-master loads   *)
(* the workload file before it listens for anybody (Workload), only then   *)
(* do the controllers of a host get the messages that make them build      *)
(* their wrappers, profiles and programs (Launch), and in the end the      *)
(* measurements become rows of the result files (Results).                 *)
(***************************************************************************)
EXTENDS Workload, Launch, Results

\* Bounds: the files after which the controllers of a host are looked at, and
\* those after which the results are; both are pools with all lines in order.
CONSTANTS ControllersFollowed, ResultsFollowed

experimentVars == <<vars, launchVars, resultsVars>>

\* Controllers that are not looked at need no different hosts and profiles.
ExperimentInit ==
    /\ Init /\ LaunchInit /\ ResultsInit
    /\ pool \notin ControllersFollowed =>
          entry = "absent" /\ setSize = Min(SetSizes) /\ profile = "random"

Loaded(followed) == outcome = "loaded" /\ File = pool /\ pool \in followed

\* loadWorkloadFile: anything but a loaded workload ends the master.
LoadWorkloadFile ==
    /\ \/ \E k \in DOMAIN pool : ProcessConfigLine(k)
       \/ EndOfFile
    /\ UNCHANGED <<launchVars, resultsVars>>

\* run(): the messages DhtType, Profile and Start, and what follows on them in
\* a controller.
RunControllers ==
    /\ Loaded(ControllersFollowed)
    /\ LaunchNext
    /\ UNCHANGED <<vars, resultsVars>>

\* run() and processResults(), of this master and of those after it.
ReportAndProcess ==
    /\ Loaded(ResultsFollowed)
    /\ ResultsNext
    /\ UNCHANGED <<vars, launchVars>>

\* "Invalid workload config file!", an exit in loadConfig, or a workload
\* whose session is not looked at.
NoSession ==
    /\ Done
    /\ ~Loaded(ControllersFollowed) /\ ~Loaded(ResultsFollowed)
    /\ UNCHANGED experimentVars

ExperimentNext ==
    LoadWorkloadFile \/ RunControllers \/ ReportAndProcess \/ NoSession

ExperimentSpec ==
    ExperimentInit /\ [][ExperimentNext]_experimentVars
=============================================================================
