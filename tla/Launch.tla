------------------------------- MODULE Launch -------------------------------
(***************************************************************************)
(* What a controller builds before and while it takes part in a DHT, in    *)
(* the order of DhtperfController::run(): the wrapper, whose constructor   *)
(* needs the working directory that the other controllers of the host want *)
(* too (WorkDir), the profile with its words (Dictionary), and for every   *)
(* join an RWPopen (Popen), through which words are put and got.           *)
(***************************************************************************)
EXTENDS WorkDir, Dictionary, Popen

CONSTANT Self           \* the controller looked at

ASSUME SelfAssumption == Self \in Controllers

launchVars == <<dirVars, dictionaryVars, popenVars>>

LaunchTypeOK == DirTypeOK /\ DictionaryTypeOK /\ PopenTypeOK

LaunchInit == DirInit /\ DictionaryInit /\ PopenInit

-----------------------------------------------------------------------------
\* DhtNode::make, here and in the other controllers.
ConstructWrapper(c) ==
    MakeDirectory(c) /\ UNCHANGED <<dictionaryVars, popenVars>>

\* The Profile message, after DhtType.
ConstructProfile ==
    /\ place[Self] = "ready"
    /\ MakeProfile
    /\ UNCHANGED <<dirVars, popenVars>>

\* start(): joins, leaves and the end of the node.
RunProgram ==
    /\ process = "running"
    /\ ParentStep
    /\ UNCHANGED <<dirVars, dictionaryVars>>

ProgramRuns == ChildStep /\ UNCHANGED <<dirVars, dictionaryVars>>

\* A put or a get of a node that is in the DHT.
UseWord ==
    /\ pc = "using"
    /\ RandomWord \/ QueuedWord
    /\ UNCHANGED <<dirVars, popenVars>>

\* All controllers ended here, or reached the bound of launches.
Finished ==
    /\ \A c \in Controllers : place[c] \in Ended
    /\ \/ "exit" \in {place[Self], process, pc}
       \/ pc = "idle" /\ launch = Launches
    /\ UNCHANGED launchVars

LaunchNext ==
    \/ \E c \in Controllers : ConstructWrapper(c)
    \/ ConstructProfile \/ RunProgram \/ ProgramRuns \/ UseWord
    \/ Finished

LaunchSpec == LaunchInit /\ [][LaunchNext]_launchVars

(***************************************************************************)
(* However the constructors of the wrappers race, a controller of the host *)
(* gets to its profile and its program.                                    *)
(***************************************************************************)
PlaceInvariant == LaunchTypeOK /\ OneGetsThrough
=============================================================================
