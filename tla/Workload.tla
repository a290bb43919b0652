------------------------------ MODULE Workload ------------------------------
(***************************************************************************)
(* MasterWorkload::loadConfig: the workload file is read line by line and  *)
(* checked at its end. A file is any number of the lines of Pool in any    *)
(* order, so every order, omission and repetition of Pool's lines occurs.  *)
(* A line is what its regular expression captures. The text of a           *)
(* join/leave/put/get line is abstracted to the line's number: 0 is the    *)
(* empty string.                                                           *)
(***************************************************************************)
EXTENDS Maps, Naturals, Sequences, FiniteSetsExt, Functions

CONSTANTS
    Pools,          \* sequences of lines, one of which the file is made of
    Operations,     \* the four of DhtOperation
    NodesOptions    \* values of the command line's node count, 0 if not given

ASSUME NodesOptionsAssumption == NodesOptions \subseteq Nat

VARIABLES
    pool,
    option,         \* the nodes argument of loadConfig
    lines,          \* lines of the pool read so far, in the file's order
    nodes,          \* nodes_
    duration,       \* duration_
    profiles,       \* profiles_: from a name to its operations' texts
    nodeProfiles,   \* nodeProfiles_: from a node to a profile's name
    currentProfile, \* the static of processConfigLine: a set, empty if NULL
    outcome

vars == <<pool, option, lines, nodes, duration, profiles, nodeProfiles,
          currentProfile, outcome>>

\* The lines processConfigLine tells apart.
NodesLine(n) == [kind |-> "nodes", value |-> n]
DurationLine(d) == [kind |-> "duration", value |-> d]
ProfileLine(name) == [kind |-> "profile", name |-> name]
OperationLine(op) == [kind |-> "operation", op |-> op]
DefaultLine(name) == [kind |-> "default-profile", name |-> name]
NodeLine(id, name) == [kind |-> "node", id |-> id, name |-> name]
BadNodeLine == [kind |-> "badnode"]     \* the id is not a number
OtherLine == [kind |-> "other"]         \* comments, and anything unknown

\* A line as the regular expressions take it apart: "\d+" is a number.
Line ==
    [kind : {"nodes", "duration"}, value : Nat]
    \cup [kind : {"profile", "default-profile"}, name : STRING]
    \cup [kind : {"operation"}, op : Operations]
    \cup [kind : {"node"}, id : Nat, name : STRING]
    \cup [kind : {"badnode", "other"}]

ASSUME PoolsAssumption == Pools \subseteq Seq(Line)

Outcomes == {"reading", "loaded", "rejected", "exit"}
Names == {l.name : l \in {l \in UNION {Range(p) : p \in Pools} :
                            l.kind \in {"profile", "default-profile", "node"}}}
EmptyProfile == [op \in Operations |-> 0]

TypeOK ==
    /\ pool \in Pools
    /\ option \in NodesOptions
    /\ lines \in Seq(DOMAIN pool)
    /\ nodes \in Nat
    /\ duration \in Nat
    /\ DOMAIN profiles \subseteq Names
    /\ \A name \in DOMAIN profiles :
          profiles[name] \in [Operations -> 0 .. Len(lines)]
    /\ DOMAIN nodeProfiles \subseteq Nat
    /\ \A i \in DOMAIN nodeProfiles : nodeProfiles[i] \in Names
    /\ currentProfile \subseteq DOMAIN profiles
    /\ Cardinality(currentProfile) <= 1
    /\ outcome \in Outcomes

Init ==
    /\ pool \in Pools
    /\ option \in NodesOptions
    /\ lines = <<>>
    /\ nodes = option
    /\ duration = 0
    /\ profiles = <<>>
    /\ nodeProfiles = <<>>
    /\ currentProfile = {}
    /\ outcome = "reading"

-----------------------------------------------------------------------------
\* Mutant: the last "nodes" line wins, even over the command line.
ProcessNodesAlways(line) ==
    /\ line.kind = "nodes"
    /\ nodes' = line.value
    /\ UNCHANGED <<duration, profiles, nodeProfiles, currentProfile, outcome>>

ProcessNodes(line) ==
    /\ line.kind = "nodes"
    /\ nodes' = IF nodes = 0 THEN line.value ELSE nodes
    /\ UNCHANGED <<duration, profiles, nodeProfiles, currentProfile, outcome>>

ProcessDuration(line) ==
    /\ line.kind = "duration"
    /\ duration' = line.value
    /\ UNCHANGED <<nodes, profiles, nodeProfiles, currentProfile, outcome>>

\* A name declared again starts an empty profile over.
ProcessProfile(line) ==
    /\ line.kind = "profile"
    /\ profiles' = Assign(profiles, line.name, EmptyProfile)
    /\ currentProfile' = {line.name}
    /\ UNCHANGED <<nodes, duration, nodeProfiles, outcome>>

\* MasterWorkloadProfile::setProfile exits when the operation is set already;
\* the mutant overwrites.
SetProfileAgain(name, op) ==
    /\ profiles' = [profiles EXCEPT ![name][op] = Len(lines) + 1]
    /\ UNCHANGED outcome
SetProfile(name, op) ==
    IF profiles[name][op] = 0
    THEN /\ profiles' = [profiles EXCEPT ![name][op] = Len(lines) + 1]
         /\ UNCHANGED outcome
    ELSE outcome' = "exit" /\ UNCHANGED profiles

ProcessOperation(line) ==
    /\ line.kind = "operation"
    /\ \/ /\ currentProfile = {}
          /\ outcome' = "rejected"
          /\ UNCHANGED profiles
       \/ \E name \in currentProfile : SetProfile(name, line.op)
    /\ UNCHANGED <<nodes, duration, nodeProfiles, currentProfile>>

\* Every node of the count known so far.
ProcessDefaultProfile(line) ==
    /\ line.kind = "default-profile"
    /\ nodeProfiles' =
          [i \in DOMAIN nodeProfiles \cup {n \in 0 .. nodes : n < nodes} |->
              IF i < nodes THEN line.name ELSE nodeProfiles[i]]
    /\ UNCHANGED <<nodes, duration, profiles, currentProfile, outcome>>

ProcessNode(line) ==
    \/ /\ line.kind = "node"
       /\ nodeProfiles' = Assign(nodeProfiles, line.id, line.name)
       /\ UNCHANGED <<nodes, duration, profiles, currentProfile, outcome>>
    \/ /\ line.kind = "badnode"         \* bad_lexical_cast
       /\ outcome' = "exit"
       /\ UNCHANGED <<nodes, duration, profiles, nodeProfiles, currentProfile>>

ProcessOther(line) ==
    /\ line.kind = "other"
    /\ UNCHANGED <<nodes, duration, profiles, nodeProfiles, currentProfile,
                   outcome>>

(***************************************************************************)
(* One line of the file: processConfigLine.                                *)
(***************************************************************************)
ProcessConfigLine(k) ==
    /\ outcome = "reading"
    /\ k \notin Range(lines)
    /\ lines' = Append(lines, k)
    /\ \/ ProcessNodes(pool[k]) \/ ProcessDuration(pool[k])
       \/ ProcessProfile(pool[k]) \/ ProcessOperation(pool[k])
       \/ ProcessDefaultProfile(pool[k]) \/ ProcessNode(pool[k])
       \/ ProcessOther(pool[k])
    /\ UNCHANGED <<pool, option>>

\* MasterWorkloadProfile::isComplete.
IsComplete(name) == \A op \in Operations : profiles[name][op] # 0

\* The checks of loadConfig at the end of the file; the mutant does not look
\* for the profiles that the nodes name.
ChecksWithoutNames ==
    /\ nodes # 0
    /\ duration # 0
    /\ DOMAIN profiles # {}
    /\ \A name \in DOMAIN profiles : IsComplete(name)
    /\ \A i \in 0 .. nodes : i < nodes => i \in DOMAIN nodeProfiles
Checks ==
    /\ nodes # 0
    /\ duration # 0
    /\ DOMAIN profiles # {}
    /\ \A name \in DOMAIN profiles : IsComplete(name)
    /\ \A i \in 0 .. nodes :
          i < nodes => /\ i \in DOMAIN nodeProfiles
                       /\ nodeProfiles[i] \in DOMAIN profiles

EndOfFile ==
    /\ outcome = "reading"
    /\ outcome' = IF Checks THEN "loaded" ELSE "rejected"
    /\ UNCHANGED <<pool, option, lines, nodes, duration, profiles,
                   nodeProfiles, currentProfile>>

\* getNodeProfile, the texts sendProfileMessage sends to a node.
GetNodeProfile(i) == profiles[nodeProfiles[i]]

Done ==
    /\ outcome # "reading"
    /\ UNCHANGED vars

Next ==
    \/ \E k \in DOMAIN pool : ProcessConfigLine(k)
    \/ EndOfFile
    \/ Done

Spec == Init /\ [][Next]_vars

-----------------------------------------------------------------------------
(***************************************************************************)
(* What a file says, from its lines alone.                                 *)
(***************************************************************************)
File == [k \in 1 .. Len(lines) |-> pool[lines[k]]]
Of(kind) == {k \in 1 .. Len(lines) : File[k].kind = kind}
LastOf(S) == IF S = {} THEN 0 ELSE Max(S)

\* The number of nodes known from the command line and the first n lines: the
\* first that is not 0 counts.
NodesSaid(n) ==
    LET said == {k \in Of("nodes") : k <= n /\ File[k].value # 0}
    IN  IF option # 0 THEN option
        ELSE IF said = {} THEN 0 ELSE File[Min(said)].value

DurationSaid ==
    IF Of("duration") = {} THEN 0 ELSE File[Max(Of("duration"))].value

\* The line of the profile that line k is about.
BlockOf(k) == LastOf({j \in Of("profile") : j < k})
Declaration(name) == LastOf({k \in Of("profile") : File[k].name = name})
Declared == {File[k].name : k \in Of("profile")}

\* The lines that give a profile's operation: those below its last declaration.
TextsOf(name, op) ==
    {k \in Of("operation") :
        File[k].op = op /\ BlockOf(k) = Declaration(name)}

\* The last line about node i; default-profile is about the nodes known to it.
AssignmentOf(i) ==
    LastOf({k \in Of("node") : File[k].id = i}
           \cup {k \in Of("default-profile") : i < NodesSaid(k)})

WellFormed ==
    /\ NodesSaid(Len(lines)) # 0
    /\ DurationSaid # 0
    /\ Declared # {}
    /\ \A name \in Declared : \A op \in Operations : TextsOf(name, op) # {}
    /\ \A i \in 0 .. NodesSaid(Len(lines)) - 1 :
          AssignmentOf(i) # 0 /\ File[AssignmentOf(i)].name \in Declared

(***************************************************************************)
(* loadConfig returns true only for a file that says everything, and       *)
(* rejects only one that does not, or that has an operation before any     *)
(* profile: no order of the lines makes it accept a file with a node       *)
(* without a complete profile.                                             *)
(***************************************************************************)
LoadsWellFormedFiles ==
    /\ outcome = "loaded" => WellFormed
    /\ outcome = "rejected" =>
          ~WellFormed \/ \E k \in Of("operation") : BlockOf(k) = 0

(***************************************************************************)
(* In a loaded workload every node gets, for each operation, the one text  *)
(* that the file gives its profile: not one of an earlier declaration of   *)
(* that name, of another profile, or of a default that was overridden.     *)
(***************************************************************************)
NodesGetWhatTheFileSays ==
    outcome = "loaded" =>
        /\ nodes = NodesSaid(Len(lines))
        /\ \A i \in 0 .. nodes - 1 : \A op \in Operations :
              TextsOf(File[AssignmentOf(i)].name, op) =
                  {GetNodeProfile(i)[op]}

(***************************************************************************)
(* Every file keeps the state of loadConfig well formed, and the verdict   *)
(* is right.                                                               *)
(***************************************************************************)
VerdictInvariant == TypeOK /\ LoadsWellFormedFiles
=============================================================================
