------------------------------- MODULE Popen --------------------------------
(***************************************************************************)
(* The descriptors of RWPopen: two pipes, the fork, what each side closes  *)
(* and duplicates, and the destructor. Parent and child run concurrently   *)
(* from the fork on. A descriptor table maps a descriptor to the open file *)
(* behind it; pipe() takes the lowest free descriptors. Launches RWPopen   *)
(* objects live one after the other, as the joins of a node make them.     *)
(***************************************************************************)
EXTENDS Naturals, FiniteSets

CONSTANTS
    Launches,   \* bound: RWPopen objects made by the controller
    MaxFd       \* highest descriptor of a process

ASSUME PopenAssumption ==
    Launches \in Nat \ {0} /\ MaxFd \in Nat /\ MaxFd >= 3

VARIABLES
    launch,     \* number of the present RWPopen object
    parent,     \* descriptor table of the controller
    child,      \* descriptor table of the child
    pair0, pair1,   \* the two arrays of initAndFork: <<read, write>>
    pc,         \* where the controller is
    cpc         \* where the child is

popenVars == <<launch, parent, child, pair0, pair1, pc, cpc>>

STDIN == 0
STDOUT == 1
STDERR == 2
Fds == 0 .. MaxFd
Closed == <<"closed", 0, "">>
Files == {Closed, <<"terminal", 0, "">>, <<"master", 0, "">>} \cup
         {<<pipe, k, end>> : pipe \in {"pair0", "pair1"}, k \in 1 .. Launches,
                             end \in {"read", "write"}}
Tables == [Fds -> Files]

\* main: standard streams, and the socket to the master.
Started == [fd \in Fds |-> IF fd <= STDERR THEN <<"terminal", 0, "">>
                           ELSE IF fd = 3 THEN <<"master", 0, "">> ELSE Closed]
Nothing == [fd \in Fds |-> Closed]

ChildSteps == {"none", "close0", "close1", "dupOut", "dupIn", "closeOut",
               "closeIn", "dupErr", "exec", "running", "ended"}
PopenTypeOK ==
    /\ launch \in 0 .. Launches
    /\ parent \in Tables /\ child \in Tables
    /\ pair0 \in Fds \X Fds /\ pair1 \in Fds \X Fds
    /\ pc \in {"idle", "pipe", "fork", "close0", "close1", "using", "closeIn",
               "closeOut", "kill", "wait", "exit"}
    /\ cpc \in ChildSteps
    /\ cpc \in {"none", "ended"} <=> child = Nothing

PopenInit ==
    /\ launch = 0 /\ parent = Started /\ child = Nothing
    /\ pair0 = <<0, 0>> /\ pair1 = <<0, 0>>
    /\ pc = "idle" /\ cpc = "none"

-----------------------------------------------------------------------------
\* The system calls, on a table.
CloseFd(table, fd) == [table EXCEPT ![fd] = Closed]
Dup2(table, from, to) ==
    IF table[from] = Closed THEN table ELSE [table EXCEPT ![to] = table[from]]
Free(table) == {fd \in Fds : table[fd] = Closed}
Lowest(S) == CHOOSE fd \in S : \A other \in S : fd <= other
Holds(table, file) == \E fd \in Fds : table[fd] = file

\* pipe(pair): fails when the table has no room for two, which ends the
\* process.
Pipe(name, pair) ==
    IF Cardinality(Free(parent)) < 2
    THEN pc' = "exit" /\ parent' = Nothing /\ UNCHANGED pair
    ELSE LET read == Lowest(Free(parent))
             write == Lowest(Free(parent) \ {read})
         IN  /\ pair' = <<read, write>>
             /\ parent' = [parent EXCEPT ![read] = <<name, launch', "read">>,
                                         ![write] = <<name, launch', "write">>]
             /\ pc' = IF name = "pair0" THEN "pipe" ELSE "fork"

Pipe0 ==
    /\ pc = "idle" /\ launch < Launches
    /\ launch' = launch + 1
    /\ Pipe("pair0", pair0)
    /\ UNCHANGED <<child, pair1, cpc>>

Pipe1 ==
    /\ pc = "pipe"
    /\ UNCHANGED launch
    /\ Pipe("pair1", pair1)
    /\ UNCHANGED <<child, pair0, cpc>>

\* "Error: failed to fork" ends the process.
Fork ==
    /\ pc = "fork"
    /\ \/ pc' = "close0" /\ child' = parent /\ cpc' = "close0"
          /\ UNCHANGED parent
       \/ pc' = "exit" /\ parent' = Nothing /\ UNCHANGED <<child, cpc>>
    /\ UNCHANGED <<launch, pair0, pair1>>

-----------------------------------------------------------------------------
(* The parent *)
ParentCloses(from, fd, to) ==
    /\ pc = from
    /\ parent' = CloseFd(parent, fd)
    /\ pc' = to
    /\ UNCHANGED <<launch, child, pair0, pair1, cpc>>

\* The rest of initAndFork. The mutant keeps the child's end of its output.
ParentKeepsWriteEnd ==
    \/ pc = "close0" /\ pc' = "close1"
          /\ UNCHANGED <<launch, parent, child, pair0, pair1, cpc>>
    \/ ParentCloses("close1", pair1[1], "using")
ParentSetsUp ==
    \/ ParentCloses("close0", pair0[2], "close1")
    \/ ParentCloses("close1", pair1[1], "using")

\* ~RWPopen: close(in_), close(out_), kill, wait.
Delete ==
    \/ ParentCloses("using", pair0[1], "closeOut")
    \/ ParentCloses("closeOut", pair1[2], "kill")

\* SIGTERM ends the child, which is a process until wait() returns.
Kill ==
    /\ pc = "kill"
    /\ pc' = "wait"
    /\ child' = Nothing /\ cpc' = "ended"
    /\ UNCHANGED <<launch, parent, pair0, pair1>>

Wait ==
    /\ pc = "wait" /\ cpc = "ended"
    /\ pc' = "idle" /\ cpc' = "none"
    /\ UNCHANGED <<launch, parent, child, pair0, pair1>>

-----------------------------------------------------------------------------
(* The child *)
ChildDoes(from, table, to) ==
    /\ cpc = from
    /\ child' = table
    /\ cpc' = to
    /\ UNCHANGED <<launch, parent, pair0, pair1, pc>>

ChildSetsUp ==
    \/ ChildDoes("close0", CloseFd(child, pair0[1]), "close1")
    \/ ChildDoes("close1", CloseFd(child, pair1[2]), "dupOut")
    \/ ChildDoes("dupOut", Dup2(child, pair0[2], STDOUT), "dupIn")
    \/ ChildDoes("dupIn", Dup2(child, pair1[1], STDIN), "closeOut")
    \/ ChildDoes("closeOut", CloseFd(child, pair0[2]), "closeIn")
    \/ ChildDoes("closeIn", CloseFd(child, pair1[1]), "dupErr")
    \/ ChildDoes("dupErr", Dup2(child, pair0[2], STDERR), "exec")

\* exec keeps the descriptors: none of them is closed on exec.
Exec == ChildDoes("exec", child, "running")

\* The program ends by itself, exec failed, or a signal came before.
ChildEnds == cpc \notin {"none", "ended"} /\ ChildDoes(cpc, Nothing, "ended")

ParentStep == Pipe0 \/ Pipe1 \/ Fork \/ ParentSetsUp \/ Delete \/ Kill \/ Wait
ChildStep == ChildSetsUp \/ Exec \/ ChildEnds

-----------------------------------------------------------------------------
(***************************************************************************)
(* A node that leaves and joins for as long as its workload says never     *)
(* runs out of descriptors: between two programs the controller has        *)
(* exactly those it started with, and it never exits for want of them.     *)
(***************************************************************************)
NoDescriptorLeak ==
    /\ pc = "idle" => parent = Started
    /\ pc = "pipe" => Cardinality(Free(parent)) >= 2

(***************************************************************************)
(* readline() gets its end of file (RWPopenEOF) when the program has       *)
(* ended, however the two processes were interleaved: the wrappers see a   *)
(* program that died because nobody else has the writing end.              *)
(***************************************************************************)
EofWhenProgramEnds ==
    pc = "using" /\ cpc = "ended" =>
        ~Holds(parent, <<"pair0", launch, "write">>)

(***************************************************************************)
(* A program that reads its input until the end sees the end when the      *)
(* destructor has closed out_, before any signal; and it has both ends of  *)
(* its side on its standard streams.                                       *)
(***************************************************************************)
ProgramSeesEndOfInput ==
    cpc = "running" =>
        /\ child[STDIN] = <<"pair1", launch, "read">>
        /\ child[STDOUT] = <<"pair0", launch, "write">>
        /\ ~Holds(child, <<"pair1", launch, "write">>)
        /\ pc = "kill" => ~Holds(parent, <<"pair1", launch, "write">>)

(***************************************************************************)
(* The pipes of every program are held by those that should hold them, for *)
(* as long as they should: none is lost to the controller, and each side   *)
(* sees the end of the other.                                              *)
(***************************************************************************)
DescriptorInvariant ==
    NoDescriptorLeak /\ EofWhenProgramEnds /\ ProgramSeesEndOfInput
=============================================================================
