------------------------------ MODULE WorkDir -------------------------------
(***************************************************************************)
(* The constructor of Wrapper in the controllers of one host: each becomes *)
(* a process group, makes the working directory of its DHT with            *)
(* Utils::mkdir_p and goes there. selfPort_ is still 0 when the base class *)
(* is constructed, so all of them want the same directory.                 *)
(***************************************************************************)
EXTENDS Naturals, FiniteSets

CONSTANT Controllers     \* those of one host

VARIABLES
    entry,      \* what is at the directory's name
    place,      \* where each controller is
    group       \* the controllers that lead a process group

dirVars == <<entry, place, group>>

\* Nothing, and nothing that can be made; a directory, and one that cannot be
\* entered; another file; a name for which stat fails with another error.
Entries ==
    {"absent", "uncreatable", "directory", "locked", "file", "unknown"}

Ended == {"ready", "exit"}
DirTypeOK ==
    /\ entry \in Entries
    /\ place \in [Controllers -> {"setpgid", "stat", "mkdir", "chdir"} \cup Ended]
    /\ group \subseteq Controllers
    /\ \A c \in Controllers : place[c] \in {"stat", "mkdir", "chdir", "ready"} =>
                                  c \in group

DirInit ==
    /\ entry \in Entries
    /\ place = [c \in Controllers |-> "setpgid"]
    /\ group = {}

Goto(c, next) == place' = [place EXCEPT ![c] = next]

\* setpgid(0,0), which may fail.
Setpgid(c) ==
    /\ place[c] = "setpgid"
    /\ \/ Goto(c, "stat") /\ group' = group \cup {c}
       \/ Goto(c, "exit") /\ UNCHANGED group
    /\ UNCHANGED entry

\* mkdir_p, its stat: on to mkdir when there is nothing, and out when there
\* is something else than a directory or stat failed otherwise. The mutant
\* takes nothing for an error too.
StatNeedsDirectory(c) ==
    /\ place[c] = "stat"
    /\ Goto(c, IF entry = "directory" THEN "chdir" ELSE "exit")
    /\ UNCHANGED <<entry, group>>
Stat(c) ==
    /\ place[c] = "stat"
    /\ Goto(c, CASE entry \in {"absent", "uncreatable"} -> "mkdir"
                 [] entry \in {"directory", "locked"} -> "chdir"
                 [] entry \in {"file", "unknown"} -> "exit")
    /\ UNCHANGED <<entry, group>>

\* mkdir_p, its mkdir: fails also when the name exists by now.
Mkdir(c) ==
    /\ place[c] = "mkdir"
    /\ IF entry = "absent"
       THEN entry' = "directory" /\ Goto(c, "chdir")
       ELSE Goto(c, "exit") /\ UNCHANGED entry
    /\ UNCHANGED group

Chdir(c) ==
    /\ place[c] = "chdir"
    /\ Goto(c, IF entry = "directory" THEN "ready" ELSE "exit")
    /\ UNCHANGED <<entry, group>>

MakeDirectory(c) == Setpgid(c) \/ Stat(c) \/ Mkdir(c) \/ Chdir(c)

-----------------------------------------------------------------------------
(***************************************************************************)
(* Whatever the race for the directory does to the others, it lets one     *)
(* through: when all are done, a controller that leads its group failed    *)
(* only if the name is unusable or another one is in the directory.        *)
(***************************************************************************)
OneGetsThrough ==
    (\A c \in Controllers : place[c] \in Ended) /\ group # {}
        /\ entry \in {"absent", "directory"} =>
    \E c \in Controllers : place[c] = "ready"
=============================================================================
