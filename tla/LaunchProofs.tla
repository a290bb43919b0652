---------------------------- MODULE LaunchProofs ----------------------------
(***************************************************************************)
(* Theorems about what a controller builds, for any number of controllers  *)
(* on the host, any dictionary, any number of programs and any limit on    *)
(* the descriptors.                                                        *)
(***************************************************************************)
EXTENDS Launch, FiniteSetTheorems, TLAPS

(***************************************************************************)
(* Where the race for the directory stands: while the name is free nobody  *)
(* who has looked for it is further than its mkdir, and once there is a    *)
(* directory one of them will enter it or has.                             *)
(***************************************************************************)
DirInvariant ==
    /\ entry = "absent" => \A c \in group : place[c] \in {"stat", "mkdir"}
    /\ entry = "directory" /\ group # {} =>
          \E c \in Controllers : place[c] \in {"stat", "chdir", "ready"}

\* What the constructors of the profiles made sure of.
WordInvariant ==
    /\ word < DictionarySize
    /\ profile = "random" /\ process = "running" => setSize < DictionarySize
    /\ \A j \in queued : j < DictionarySize

(***************************************************************************)
(* The descriptors that the two pipes get, and who has which end when:     *)
(* those behind the standard streams and the socket are always the same,   *)
(* because nothing is left open from one program to the next.              *)
(***************************************************************************)
PairsKnown ==
    /\ pc \notin {"idle", "exit"} => MaxFd >= 5 /\ pair0 = <<4, 5>> /\ launch >= 1
    /\ pc \notin {"idle", "pipe", "exit"} => MaxFd >= 7 /\ pair1 = <<6, 7>>

Terminal == <<"terminal", 0, "">>
Socket == <<"master", 0, "">>
ReadEnd(pipe, k) == <<pipe, k, "read">>
WriteEnd(pipe, k) == <<pipe, k, "write">>
FirstFile(fd) == IF fd <= 2 THEN Terminal ELSE IF fd = 3 THEN Socket ELSE Closed

ParentFile(fd) ==
    CASE fd = 4 /\ pc \in {"pipe", "fork", "close0", "close1", "using"} ->
            ReadEnd("pair0", launch)
      [] fd = 5 /\ pc \in {"pipe", "fork", "close0"} -> WriteEnd("pair0", launch)
      [] fd = 6 /\ pc \in {"fork", "close0", "close1"} -> ReadEnd("pair1", launch)
      [] fd = 7 /\ pc \in {"fork", "close0", "close1", "using", "closeOut"} ->
            WriteEnd("pair1", launch)
      [] OTHER -> FirstFile(fd)

ChildFile(fd) ==
    CASE fd = 0 /\ cpc \notin {"close0", "close1", "dupOut", "dupIn"} ->
            ReadEnd("pair1", launch)
      [] fd = 1 /\ cpc \notin {"close0", "close1", "dupOut"} ->
            WriteEnd("pair0", launch)
      [] fd = 4 /\ cpc = "close0" -> ReadEnd("pair0", launch)
      [] fd = 5 /\ cpc \in {"close0", "close1", "dupOut", "dupIn", "closeOut"} ->
            WriteEnd("pair0", launch)
      [] fd = 6 /\ cpc \in {"close0", "close1", "dupOut", "dupIn", "closeOut",
                            "closeIn"} -> ReadEnd("pair1", launch)
      [] fd = 7 /\ cpc \in {"close0", "close1"} -> WriteEnd("pair1", launch)
      [] OTHER -> FirstFile(fd)

TablesKnown ==
    /\ parent = IF pc = "exit" THEN Nothing ELSE [fd \in Fds |-> ParentFile(fd)]
    /\ child = IF cpc \in {"none", "ended"} THEN Nothing
                                            ELSE [fd \in Fds |-> ChildFile(fd)]
    /\ cpc = "none" <=> pc \in {"idle", "pipe", "fork", "exit"}
    /\ pc = "wait" => cpc = "ended"

LaunchInvariant ==
    /\ LaunchTypeOK /\ DirInvariant /\ WordInvariant /\ PairsKnown /\ TablesKnown

-----------------------------------------------------------------------------
(* The working directory *)

\* Nobody has looked for the directory.
LEMMA InitDir ==
    DirInit => DirTypeOK /\ DirInvariant
  BY DEF DirInit, DirTypeOK, DirInvariant, Ended

\* One step of one constructor.
LEMMA DirStep ==
    ASSUME DirTypeOK, DirInvariant, NEW c \in Controllers, MakeDirectory(c)
    PROVE  DirTypeOK' /\ DirInvariant'
  <1> USE DEF DirTypeOK, Goto, Ended
  <1>1. CASE Setpgid(c)
    <2>1. DirTypeOK'
      BY <1>1 DEF Setpgid
    <2>2. DirInvariant'
      BY <1>1 DEF DirInvariant, Setpgid
    <2> QED  BY <2>1, <2>2
  <1>2. CASE Stat(c)
    <2>1. PICK next \in {"mkdir", "chdir", "exit"} :
             /\ place' = [place EXCEPT ![c] = next]
             /\ entry = "absent" => next = "mkdir"
             /\ entry = "directory" => next = "chdir"
      BY <1>2 DEF Stat, Entries
    <2>2. DirTypeOK'
      BY <1>2, <2>1 DEF Stat
    <2>3. DirInvariant'
      BY <1>2, <2>1 DEF DirInvariant, Stat
    <2> QED  BY <2>2, <2>3
  <1>3. CASE Mkdir(c)
    <2>1. DirTypeOK'
      BY <1>3 DEF Mkdir, Entries
    <2>2. DirInvariant'
      BY <1>3 DEF DirInvariant, Mkdir
    <2> QED  BY <2>1, <2>2
  <1>4. CASE Chdir(c)
    <2>1. DirTypeOK'
      BY <1>4 DEF Chdir
    <2>2. DirInvariant'
      BY <1>4 DEF DirInvariant, Chdir
    <2> QED  BY <2>1, <2>2
  <1> QED  BY <1>1, <1>2, <1>3, <1>4 DEF MakeDirectory

\* When all constructors are over, the one that would enter the directory is
\* in it.
LEMMA DirOver ==
    ASSUME DirTypeOK, DirInvariant
    PROVE  OneGetsThrough
  BY DEF DirTypeOK, DirInvariant, OneGetsThrough, Ended

-----------------------------------------------------------------------------
(* The words *)

\* No profile has been made.
LEMMA InitWords ==
    DictionaryInit => DictionaryTypeOK /\ WordInvariant
  BY DictionaryAssumption DEF DictionaryInit, DictionaryTypeOK, WordInvariant

\* The constructors accept no size that the words drawn or queued exceed.
LEMMA WordStep ==
    ASSUME DictionaryTypeOK, WordInvariant, MakeProfile \/ RandomWord \/ QueuedWord
    PROVE  DictionaryTypeOK' /\ WordInvariant'
  <1> USE DictionaryAssumption DEF DictionaryTypeOK, WordInvariant
  <1>1. CASE MakeProfile
    <2>1. CASE profile = "random"
      BY <1>1, <2>1 DEF MakeProfile, RandomFits
    <2>2. CASE profile = "fulldictionary"
      <3>1. /\ queued' \subseteq 0 .. setSize
            /\ \A j \in queued' : j < DictionarySize
        BY <1>1, <2>2 DEF MakeProfile, FullFits, AllWords
      <3> QED  BY <1>1, <2>2, <3>1 DEF MakeProfile
    <2> QED  BY <1>1, <2>1, <2>2 DEF MakeProfile
  <1>2. CASE RandomWord
    BY <1>2 DEF RandomWord, Draws
  <1>3. CASE QueuedWord
    BY <1>3 DEF QueuedWord
  <1> QED  BY <1>1, <1>2, <1>3

-----------------------------------------------------------------------------
(* The descriptors *)

\* The files that the tables hold.
LEMMA FilesTyped ==
    /\ Closed \in Files /\ \A fd \in Fds : FirstFile(fd) \in Files
    /\ \A k \in 1 .. Launches, pipe \in {"pair0", "pair1"} :
          ReadEnd(pipe, k) \in Files /\ WriteEnd(pipe, k) \in Files
  BY DEF Files, FirstFile, Terminal, Socket, ReadEnd, WriteEnd

\* No end of a pipe is taken for nothing, a stream or the socket, and no two
\* are taken for each other.
LEMMA FilesDiffer ==
    ASSUME NEW k
    PROVE  /\ Terminal # Closed /\ Socket # Closed
           /\ \A pipe \in {"pair0", "pair1"} :
                 /\ ReadEnd(pipe, k) \notin {Closed, Terminal, Socket}
                 /\ WriteEnd(pipe, k) \notin {Closed, Terminal, Socket}
                 /\ \A other \in {"pair0", "pair1"} :
                       ReadEnd(pipe, k) # WriteEnd(other, k)
           /\ WriteEnd("pair0", k) # WriteEnd("pair1", k)
  <1>1. \A a, b, c, d, e, f : <<a, b, c>> = <<d, e, f>> => a = d /\ c = f
    OBVIOUS
  <1> QED  BY <1>1 DEF Terminal, Socket, Closed, ReadEnd, WriteEnd

\* Which descriptors are free in the first table of the controller.
LEMMA FirstFree ==
    /\ Started = [fd \in Fds |-> FirstFile(fd)]
    /\ \A fd \in Fds : FirstFile(fd) = Closed <=> fd >= 4
  <1>1. Started = [fd \in Fds |-> FirstFile(fd)]
    <2>1. ASSUME NEW fd \in Fds
          PROVE  Started[fd] = FirstFile(fd)
      BY PopenAssumption DEF Started, FirstFile, Terminal, Socket, STDERR, Fds
    <2>2. Started = [fd \in Fds |-> Started[fd]]
      BY DEF Started
    <2> QED  BY <2>1, <2>2
  <1>2. \A fd \in Fds : FirstFile(fd) = Closed <=> fd >= 4
    BY FilesDiffer, PopenAssumption DEF FirstFile, Fds
  <1> QED  BY <1>1, <1>2

\* The lowest of an interval.
LEMMA LowestOf ==
    ASSUME NEW S, S \subseteq Nat, NEW n \in S, \A m \in S : n <= m
    PROVE  Lowest(S) = n
  <1>1. \A fd \in S : (\A other \in S : fd <= other) => fd = n
    OBVIOUS
  <1> QED  BY <1>1 DEF Lowest

\* What is free behind k descriptors in use: pipe() finds room for two just
\* when there are two more, and takes them in order.
LEMMA NextTwo ==
    ASSUME NEW k \in Nat, Free(parent) = k .. MaxFd
    PROVE  /\ Cardinality(Free(parent)) < 2 <=> MaxFd < k + 1
           /\ MaxFd >= k + 1 =>
                 /\ Lowest(Free(parent)) = k
                 /\ Lowest(Free(parent) \ {Lowest(Free(parent))}) = k + 1
  <1>1. Cardinality(k .. MaxFd) = IF k > MaxFd THEN 0 ELSE MaxFd - k + 1
    BY PopenAssumption, FS_Interval
  <1>2. Cardinality(Free(parent)) < 2 <=> MaxFd < k + 1
    BY <1>1, PopenAssumption
  <1>3. ASSUME MaxFd >= k + 1
        PROVE  /\ Lowest(Free(parent)) = k
               /\ Lowest(Free(parent) \ {Lowest(Free(parent))}) = k + 1
    <2>1. Lowest(Free(parent)) = k
      <3>1. /\ Free(parent) \subseteq Nat /\ k \in Free(parent)
            /\ \A m \in Free(parent) : k <= m
        BY <1>3, PopenAssumption
      <3> QED  BY <3>1, LowestOf
    <2>2. Lowest(Free(parent) \ {k}) = k + 1
      <3>1. /\ Free(parent) \ {k} \subseteq Nat /\ k + 1 \in Free(parent) \ {k}
            /\ \A m \in Free(parent) \ {k} : k + 1 <= m
        BY <1>3, PopenAssumption
      <3> QED  BY <3>1, LowestOf
    <2> QED  BY <2>1, <2>2
  <1> QED  BY <1>2, <1>3

PopenInvariant == PopenTypeOK /\ PairsKnown /\ TablesKnown

\* Tables without files, and the first one of the controller.
LEMMA NothingTyped ==
    Started \in Tables /\ Nothing \in Tables
  BY FilesTyped, FirstFree DEF Nothing, Tables

\* After any step, tables that are known are well typed, and the one of a
\* child is not empty.
LEMMA TablesTyped ==
    ASSUME TablesKnown', launch' \in 0 .. Launches, cpc' \in ChildSteps,
           pc' \notin {"idle", "exit"} => launch' >= 1
    PROVE  /\ parent' \in Tables /\ child' \in Tables
           /\ cpc' \in {"none", "ended"} <=> child' = Nothing
  <1>1. parent' \in Tables
    <2>1. CASE pc' = "exit"
      BY <2>1, NothingTyped DEF TablesKnown
    <2>2. CASE pc' # "exit"
      <3>1. ASSUME NEW fd \in Fds
            PROVE  ParentFile(fd)' \in Files
        BY FilesTyped, PopenAssumption DEF ParentFile
      <3> QED  BY <2>2, <3>1 DEF TablesKnown, Tables
    <2> QED  BY <2>1, <2>2
  <1>2. CASE cpc' \in {"none", "ended"}
    BY <1>1, <1>2, NothingTyped DEF TablesKnown
  <1>3. CASE cpc' \notin {"none", "ended"}
    <2>1. launch' \in 1 .. Launches
      BY <1>3, PopenAssumption DEF TablesKnown
    <2>2. ASSUME NEW fd \in Fds
          PROVE  ChildFile(fd)' \in Files
      BY <2>1, FilesTyped DEF ChildFile
    <2>3. 3 \in Fds /\ ChildFile(3)' # Closed
      BY FilesDiffer, PopenAssumption DEF Fds, ChildFile, FirstFile
    <2> QED  BY <1>1, <1>3, <2>2, <2>3 DEF TablesKnown, Tables, Nothing
  <1> QED  BY <1>2, <1>3

\* No program has been started.
LEMMA InitPopen ==
    PopenInit => PopenInvariant
  <1> SUFFICES ASSUME PopenInit PROVE PopenInvariant
    OBVIOUS
  <1>1. PopenTypeOK
    BY NothingTyped, PopenAssumption DEF PopenInit, PopenTypeOK, ChildSteps, Fds
  <1>2. PairsKnown /\ TablesKnown
    BY FirstFree DEF PopenInit, PairsKnown, TablesKnown, ParentFile, Nothing
  <1> QED  BY <1>1, <1>2 DEF PopenInvariant

\* The first pipe gets 4 and 5.
LEMMA Pipe0Step ==
    ASSUME PopenInvariant, Pipe0
    PROVE  PopenInvariant'
  <1> USE DEF PopenInvariant
  <1>1. parent = Started /\ cpc = "none" /\ child = Nothing
    BY FirstFree DEF Pipe0, TablesKnown, ParentFile, Nothing
  <1>2. Free(parent) = 4 .. MaxFd
    BY <1>1, FirstFree, PopenAssumption DEF Free, Fds
  <1>3. CASE Cardinality(Free(parent)) < 2
    <2>1. /\ pc' = "exit" /\ parent' = Nothing /\ UNCHANGED <<child, cpc, pair0, pair1>>
          /\ launch' \in 0 .. Launches
      BY <1>3, PopenAssumption DEF Pipe0, Pipe, PopenTypeOK
    <2>2. PopenTypeOK'
      BY <1>1, <2>1, NothingTyped DEF PopenTypeOK
    <2>3. PairsKnown' /\ TablesKnown'
      BY <1>1, <2>1 DEF PairsKnown, TablesKnown, Nothing
    <2> QED  BY <2>2, <2>3
  <1>4. CASE ~(Cardinality(Free(parent)) < 2)
    <2>1. /\ MaxFd >= 5 /\ Lowest(Free(parent)) = 4
          /\ Lowest(Free(parent) \ {Lowest(Free(parent))}) = 5
      <3>1. MaxFd >= 4 + 1
        BY <1>2, <1>4, NextTwo, PopenAssumption
      <3>2. Lowest(Free(parent)) = 4
        BY <1>2, <3>1, NextTwo
      <3>3. Lowest(Free(parent) \ {Lowest(Free(parent))}) = 4 + 1
        BY <1>2, <3>1, NextTwo
      <3> QED  BY <3>1, <3>2, <3>3
    <2>2. launch' \in 1 .. Launches /\ UNCHANGED <<child, pair1, cpc>>
      BY PopenAssumption DEF Pipe0, PopenTypeOK
    <2>3. /\ pc' = "pipe" /\ pair0' = <<4, 5>>
          /\ parent' = [Started EXCEPT ![4] = ReadEnd("pair0", launch'),
                                       ![5] = WriteEnd("pair0", launch')]
      BY <1>1, <1>4, <2>1 DEF Pipe0, Pipe, ReadEnd, WriteEnd
    <2>4. parent' = [fd \in Fds |-> ParentFile(fd)']
      BY <2>1, <2>3, FirstFree DEF ParentFile
    <2>5. PairsKnown' /\ TablesKnown'
      <3>1. PairsKnown'
        BY <2>1, <2>2, <2>3 DEF PairsKnown
      <3>2. TablesKnown'
        BY <1>1, <2>2, <2>3, <2>4 DEF TablesKnown
      <3> QED  BY <3>1, <3>2
    <2>6. PopenTypeOK'
      <3>1. /\ cpc' \in ChildSteps /\ launch' \in 0 .. Launches /\ launch' >= 1
            /\ pair0' \in Fds \X Fds /\ pair1' \in Fds \X Fds
        BY <2>1, <2>2, <2>3, PopenAssumption DEF PopenTypeOK, Fds
      <3> QED  BY <2>3, <2>5, <3>1, TablesTyped DEF PopenTypeOK
    <2> QED  BY <2>5, <2>6
  <1> QED  BY <1>3, <1>4

\* The second pipe gets 6 and 7.
LEMMA Pipe1Step ==
    ASSUME PopenInvariant, Pipe1
    PROVE  PopenInvariant'
  <1> USE DEF PopenInvariant
  <1>1. /\ parent = [fd \in Fds |-> ParentFile(fd)] /\ cpc = "none" /\ child = Nothing
        /\ MaxFd >= 5 /\ pair0 = <<4, 5>> /\ launch >= 1
    BY DEF Pipe1, TablesKnown, PairsKnown
  <1>2. Free(parent) = 6 .. MaxFd
    <2>1. ASSUME NEW fd \in Fds
          PROVE  ParentFile(fd) = Closed <=> fd >= 6
      BY FirstFree, FilesDiffer, PopenAssumption DEF Pipe1, ParentFile, Fds
    <2> QED  BY <1>1, <2>1, PopenAssumption DEF Free, Fds
  <1>3. CASE Cardinality(Free(parent)) < 2
    <2>1. /\ pc' = "exit" /\ parent' = Nothing
          /\ UNCHANGED <<child, cpc, pair0, pair1, launch>>
      BY <1>3 DEF Pipe1, Pipe
    <2>2. PopenTypeOK'
      BY <1>1, <2>1, NothingTyped DEF PopenTypeOK
    <2>3. PairsKnown' /\ TablesKnown'
      BY <1>1, <2>1 DEF PairsKnown, TablesKnown, Nothing
    <2> QED  BY <2>2, <2>3
  <1>4. CASE ~(Cardinality(Free(parent)) < 2)
    <2>1. /\ MaxFd >= 7 /\ Lowest(Free(parent)) = 6
          /\ Lowest(Free(parent) \ {Lowest(Free(parent))}) = 7
      <3>1. MaxFd >= 6 + 1
        BY <1>2, <1>4, NextTwo, PopenAssumption
      <3>2. Lowest(Free(parent)) = 6
        BY <1>2, <3>1, NextTwo
      <3>3. Lowest(Free(parent) \ {Lowest(Free(parent))}) = 6 + 1
        BY <1>2, <3>1, NextTwo
      <3> QED  BY <3>1, <3>2, <3>3
    <2>2. /\ pc' = "fork" /\ pair1' = <<6, 7>> /\ UNCHANGED <<launch, child, pair0, cpc>>
          /\ parent' = [parent EXCEPT ![6] = ReadEnd("pair1", launch),
                                      ![7] = WriteEnd("pair1", launch)]
      BY <1>4, <2>1 DEF Pipe1, Pipe, ReadEnd, WriteEnd
    <2>3. parent' = [fd \in Fds |-> ParentFile(fd)']
      <3>1. ASSUME NEW fd \in Fds
            PROVE  parent'[fd] = ParentFile(fd)'
        BY <1>1, <2>1, <2>2 DEF Pipe1, ParentFile
      <3> QED  BY <1>1, <2>2, <3>1
    <2>4. PairsKnown'
      BY <1>1, <2>1, <2>2 DEF PairsKnown
    <2>5. TablesKnown'
      BY <1>1, <2>2, <2>3 DEF TablesKnown
    <2>6. PopenTypeOK'
      <3>1. /\ cpc' \in ChildSteps /\ launch' \in 0 .. Launches /\ launch' >= 1
            /\ pair0' \in Fds \X Fds /\ pair1' \in Fds \X Fds
        BY <1>1, <2>1, <2>2, PopenAssumption DEF PopenTypeOK, Fds
      <3> QED  BY <2>2, <2>5, <3>1, TablesTyped DEF PopenTypeOK
    <2> QED  BY <2>4, <2>5, <2>6
  <1> QED  BY <1>3, <1>4

\* The child begins with all the controller has.
LEMMA ForkStep ==
    ASSUME PopenInvariant, Fork
    PROVE  PopenInvariant'
  <1> USE DEF PopenInvariant
  <1>1. /\ parent = [fd \in Fds |-> ParentFile(fd)] /\ cpc = "none" /\ child = Nothing
        /\ MaxFd >= 7 /\ pair0 = <<4, 5>> /\ pair1 = <<6, 7>> /\ launch >= 1
    BY DEF Fork, TablesKnown, PairsKnown
  <1>2. CASE pc' = "close0"
    <2>1. /\ child' = parent /\ cpc' = "close0"
          /\ UNCHANGED <<launch, pair0, pair1, parent>>
      BY <1>2 DEF Fork
    <2>2. ASSUME NEW fd \in Fds
          PROVE  ParentFile(fd)' = ParentFile(fd) /\ ChildFile(fd)' = ParentFile(fd)
      BY <1>2, <2>1 DEF Fork, ParentFile, ChildFile
    <2>3. PairsKnown' /\ TablesKnown'
      <3>1. /\ parent' = [fd \in Fds |-> ParentFile(fd)']
            /\ child' = [fd \in Fds |-> ChildFile(fd)']
        BY <1>1, <2>1, <2>2
      <3>2. PairsKnown'
        BY <1>1, <2>1, PopenAssumption DEF PairsKnown
      <3>3. TablesKnown'
        BY <1>2, <2>1, <3>1 DEF TablesKnown
      <3> QED  BY <3>2, <3>3
    <2>4. /\ cpc' \in ChildSteps /\ launch' \in 0 .. Launches /\ launch' >= 1
      BY <1>1, <2>1 DEF PopenTypeOK, ChildSteps
    <2>5. PopenTypeOK'
      BY <1>2, <2>1, <2>3, <2>4, TablesTyped DEF PopenTypeOK
    <2> QED  BY <2>3, <2>5
  <1>3. CASE pc' # "close0"
    <2>1. pc' = "exit" /\ parent' = Nothing /\ UNCHANGED <<launch, pair0, pair1, child, cpc>>
      BY <1>3 DEF Fork
    <2>2. PopenTypeOK'
      BY <1>1, <2>1, NothingTyped DEF PopenTypeOK
    <2>3. PairsKnown' /\ TablesKnown'
      BY <1>1, <2>1 DEF PairsKnown, TablesKnown
    <2> QED  BY <2>2, <2>3
  <1> QED  BY <1>2, <1>3

\* The controller closes an end, and has all the others.
LEMMA ParentClosesStep ==
    ASSUME PopenInvariant, ParentSetsUp \/ Delete
    PROVE  PopenInvariant'
  <1> USE DEF PopenInvariant
  <1>1. PICK fd0 \in {4, 5, 6, 7}, from \in {"close0", "close1", "using", "closeOut"},
             to \in {"close1", "using", "closeOut", "kill"} :
           /\ pc = from /\ pc' = to /\ parent' = CloseFd(parent, fd0)
           /\ <<from, fd0, to>> \in {<<"close0", 5, "close1">>, <<"close1", 6, "using">>,
                                     <<"using", 4, "closeOut">>, <<"closeOut", 7, "kill">>}
           /\ UNCHANGED <<launch, child, pair0, pair1, cpc>>
    BY DEF ParentSetsUp, Delete, ParentCloses, PairsKnown
  <1>2. /\ parent = [fd \in Fds |-> ParentFile(fd)] /\ cpc # "none"
        /\ MaxFd >= 7 /\ pair0 = <<4, 5>> /\ pair1 = <<6, 7>> /\ launch >= 1
    BY <1>1 DEF TablesKnown, PairsKnown
  <1>3. parent' = [fd \in Fds |-> ParentFile(fd)']
    <2>1. ASSUME NEW fd \in Fds
          PROVE  parent'[fd] = ParentFile(fd)'
      BY <1>1, <1>2, FirstFree DEF CloseFd, ParentFile
    <2> QED  BY <1>1, <1>2, <2>1 DEF CloseFd
  <1>4. ASSUME NEW fd \in Fds
        PROVE  ChildFile(fd)' = ChildFile(fd)
    BY <1>1 DEF ChildFile
  <1>5. PairsKnown' /\ TablesKnown'
    BY <1>1, <1>2, <1>3, <1>4 DEF PairsKnown, TablesKnown
  <1>6. PopenTypeOK'
    BY <1>1, <1>2, <1>5, TablesTyped DEF PopenTypeOK
  <1> QED  BY <1>5, <1>6

\* The child is dead, and then waited for: the controller has what it had
\* before its pipes.
LEMMA KillAndWaitStep ==
    ASSUME PopenInvariant, Kill \/ Wait
    PROVE  PopenInvariant'
  <1> USE DEF PopenInvariant
  <1>1. /\ UNCHANGED <<launch, parent, pair0, pair1>>
        /\ child' = Nothing /\ cpc' \in {"none", "ended"}
        /\ \/ pc' = "wait" /\ cpc' = "ended" /\ pc = "kill"
           \/ pc' = "idle" /\ cpc' = "none" /\ pc = "wait"
    BY DEF Kill, Wait, TablesKnown
  <1>2. ASSUME NEW fd \in Fds
        PROVE  ParentFile(fd)' = ParentFile(fd)
    BY <1>1 DEF ParentFile
  <1>3. PairsKnown'
    BY <1>1 DEF PairsKnown
  <1>4. TablesKnown'
    BY <1>1, <1>2 DEF TablesKnown
  <1>5. PopenTypeOK'
    BY <1>1, NothingTyped DEF PopenTypeOK, ChildSteps
  <1> QED  BY <1>3, <1>4, <1>5

\* The child closes and duplicates its ends, becomes the program, or ends.
LEMMA ChildStepStep ==
    ASSUME PopenInvariant, ChildStep
    PROVE  PopenInvariant'
  <1> USE DEF PopenInvariant
  <1>1. /\ cpc \notin {"none", "ended"} /\ UNCHANGED <<launch, parent, pair0, pair1, pc>>
        /\ cpc' \in ChildSteps \ {"none"}
    BY DEF ChildStep, ChildSetsUp, Exec, ChildEnds, ChildDoes, ChildSteps
  <1>2. /\ child = [fd \in Fds |-> ChildFile(fd)]
        /\ pc \notin {"idle", "pipe", "fork", "exit", "wait"}
        /\ MaxFd >= 7 /\ pair0 = <<4, 5>> /\ pair1 = <<6, 7>> /\ launch >= 1
    BY <1>1 DEF TablesKnown, PairsKnown
  <1>3. CASE cpc' = "ended"
    <2>1. child' = Nothing
      BY <1>3 DEF ChildStep, ChildSetsUp, Exec, ChildEnds, ChildDoes
    <2>2. ASSUME NEW fd \in Fds
          PROVE  ParentFile(fd)' = ParentFile(fd)
      BY <1>1 DEF ParentFile
    <2>3. PairsKnown' /\ TablesKnown'
      BY <1>1, <1>2, <1>3, <2>1, <2>2 DEF PairsKnown, TablesKnown
    <2> QED  BY <1>1, <1>2, <2>3, TablesTyped DEF PopenTypeOK
  <1>4. CASE cpc' # "ended"
    <2>1. ASSUME NEW fd \in Fds
          PROVE  child'[fd] = ChildFile(fd)'
      <3>1. CASE ChildDoes("close0", CloseFd(child, 4), "close1")
        BY <1>2, <3>1, FirstFree DEF ChildDoes, CloseFd, ChildFile
      <3>2. CASE ChildDoes("close1", CloseFd(child, 7), "dupOut")
        BY <1>2, <3>2, FirstFree DEF ChildDoes, CloseFd, ChildFile
      <3>3. CASE ChildDoes("dupOut", Dup2(child, 5, 1), "dupIn")
        <4>1. 5 \in Fds /\ child[5] = WriteEnd("pair0", launch)
          BY <1>2, <3>3, PopenAssumption DEF ChildDoes, ChildFile, Fds
        <4>2. child' = [child EXCEPT ![1] = WriteEnd("pair0", launch)]
          BY <3>3, <4>1, FilesDiffer DEF ChildDoes, Dup2
        <4> QED  BY <1>2, <3>3, <4>2 DEF ChildDoes, ChildFile
      <3>4. CASE ChildDoes("dupIn", Dup2(child, 6, 0), "closeOut")
        <4>1. 6 \in Fds /\ child[6] = ReadEnd("pair1", launch)
          BY <1>2, <3>4, PopenAssumption DEF ChildDoes, ChildFile, Fds
        <4>2. child' = [child EXCEPT ![0] = ReadEnd("pair1", launch)]
          BY <3>4, <4>1, FilesDiffer DEF ChildDoes, Dup2
        <4> QED  BY <1>2, <3>4, <4>2 DEF ChildDoes, ChildFile
      <3>5. CASE ChildDoes("closeOut", CloseFd(child, 5), "closeIn")
        BY <1>2, <3>5, FirstFree DEF ChildDoes, CloseFd, ChildFile
      <3>6. CASE ChildDoes("closeIn", CloseFd(child, 6), "dupErr")
        BY <1>2, <3>6, FirstFree DEF ChildDoes, CloseFd, ChildFile
      <3>7. CASE ChildDoes("dupErr", Dup2(child, 5, 2), "exec")
        <4>1. 5 \in Fds /\ child[5] = Closed
          BY <1>2, <3>7, FirstFree, PopenAssumption DEF ChildDoes, ChildFile, Fds
        <4>2. child' = child
          BY <3>7, <4>1 DEF ChildDoes, Dup2
        <4> QED  BY <1>2, <3>7, <4>2 DEF ChildDoes, ChildFile
      <3>8. CASE ChildDoes("exec", child, "running")
        BY <1>2, <3>8 DEF ChildDoes, ChildFile
      <3> QED  BY <1>2, <1>4, <3>1, <3>2, <3>3, <3>4, <3>5, <3>6, <3>7, <3>8
               DEF ChildStep, ChildSetsUp, Exec, ChildEnds, ChildDoes, STDIN, STDOUT, STDERR
    <2>2. child' = [fd \in Fds |-> child'[fd]]
      BY <1>2, <1>4
         DEF ChildStep, ChildSetsUp, Exec, ChildEnds, ChildDoes, CloseFd, Dup2
    <2>3. ASSUME NEW fd \in Fds
          PROVE  ParentFile(fd)' = ParentFile(fd)
      BY <1>1 DEF ParentFile
    <2>4. PairsKnown' /\ TablesKnown'
      <3>1. parent' = [fd \in Fds |-> ParentFile(fd)']
        BY <1>1, <1>2, <2>3 DEF TablesKnown
      <3>2. child' = [fd \in Fds |-> ChildFile(fd)']
        BY <2>1, <2>2
      <3> QED  BY <1>1, <1>2, <1>4, <3>1, <3>2 DEF PairsKnown, TablesKnown
    <2> QED  BY <1>1, <1>2, <2>4, TablesTyped DEF PopenTypeOK
  <1> QED  BY <1>3, <1>4

\* Between two programs the controller has just what it started with, and with
\* eight descriptors there is room for both pipes; each side sees the other's
\* end.
LEMMA DescriptorsRight ==
    ASSUME PopenInvariant, MaxFd >= 7
    PROVE  DescriptorInvariant
  <1> USE DEF PopenInvariant
  <1>1. NoDescriptorLeak
    <2>1. ASSUME pc = "idle" PROVE parent = Started
      BY <2>1, FirstFree DEF TablesKnown, ParentFile
    <2>2. ASSUME pc = "pipe" PROVE Cardinality(Free(parent)) >= 2
      <3>1. ASSUME NEW fd \in Fds
            PROVE  ParentFile(fd) = Closed <=> fd >= 6
        BY <2>2, FirstFree, FilesDiffer, PopenAssumption DEF ParentFile, Fds
      <3>2. Free(parent) = 6 .. MaxFd
        BY <2>2, <3>1, PopenAssumption DEF TablesKnown, Free, Fds
      <3>3. Cardinality(6 .. MaxFd) = MaxFd - 6 + 1
        BY PopenAssumption, FS_Interval
      <3> QED  BY <3>2, <3>3, PopenAssumption
    <2> QED  BY <2>1, <2>2 DEF NoDescriptorLeak
  <1>2. EofWhenProgramEnds
    <2>1. ASSUME pc = "using", NEW fd \in Fds
          PROVE  parent[fd] # WriteEnd("pair0", launch)
      BY <2>1, FilesDiffer DEF TablesKnown, ParentFile, FirstFile
    <2> QED  BY <2>1 DEF EofWhenProgramEnds, Holds, WriteEnd
  <1>3. ProgramSeesEndOfInput
    <2> SUFFICES ASSUME cpc = "running"
                 PROVE  /\ child[STDIN] = <<"pair1", launch, "read">>
                        /\ child[STDOUT] = <<"pair0", launch, "write">>
                        /\ ~Holds(child, <<"pair1", launch, "write">>)
                        /\ pc = "kill" => ~Holds(parent, <<"pair1", launch, "write">>)
      BY DEF ProgramSeesEndOfInput
    <2>1. child[0] = ReadEnd("pair1", launch) /\ child[1] = WriteEnd("pair0", launch)
      BY PopenAssumption DEF TablesKnown, ChildFile, Fds
    <2>2. ASSUME NEW fd \in Fds
          PROVE  child[fd] # WriteEnd("pair1", launch)
      BY FilesDiffer DEF TablesKnown, ChildFile, FirstFile
    <2>3. ASSUME pc = "kill", NEW fd \in Fds
          PROVE  parent[fd] # WriteEnd("pair1", launch)
      BY <2>3, FilesDiffer DEF TablesKnown, ParentFile, FirstFile
    <2> QED  BY <2>1, <2>2, <2>3 DEF STDIN, STDOUT, Holds, ReadEnd, WriteEnd
  <1> QED  BY <1>1, <1>2, <1>3 DEF DescriptorInvariant

-----------------------------------------------------------------------------
(* The specification *)

\* Nothing has been built.
LEMMA InitLaunch ==
    LaunchInit => LaunchInvariant
  BY InitDir, InitWords, InitPopen DEF LaunchInit, LaunchInvariant, LaunchTypeOK, PopenInvariant

\* Every step is one of the directory, of the words or of the descriptors.
LEMMA LaunchStep ==
    ASSUME LaunchInvariant, [LaunchNext]_launchVars
    PROVE  LaunchInvariant'
  <1> USE DEF LaunchInvariant, LaunchTypeOK
  <1>1. PopenInvariant
    BY DEF PopenInvariant
  <1>2. DirTypeOK' /\ DirInvariant'
    <2>1. CASE UNCHANGED dirVars
      BY <2>1 DEF dirVars, DirTypeOK, DirInvariant
    <2>2. CASE \E c \in Controllers : MakeDirectory(c)
      BY <2>2, DirStep
    <2> QED  BY <2>1, <2>2 DEF LaunchNext, launchVars, ConstructWrapper, ConstructProfile, RunProgram,
                               ProgramRuns, UseWord, Finished
  <1>3. DictionaryTypeOK' /\ WordInvariant'
    <2>1. CASE UNCHANGED dictionaryVars
      BY <2>1 DEF dictionaryVars, DictionaryTypeOK, WordInvariant
    <2>2. CASE MakeProfile \/ RandomWord \/ QueuedWord
      BY <2>2, WordStep
    <2> QED  BY <2>1, <2>2 DEF LaunchNext, launchVars, ConstructWrapper, ConstructProfile, RunProgram,
                               ProgramRuns, UseWord, Finished
  <1>4. PopenInvariant'
    <2>1. CASE UNCHANGED popenVars
      <3>1. ASSUME NEW fd \in Fds
            PROVE  ParentFile(fd)' = ParentFile(fd) /\ ChildFile(fd)' = ChildFile(fd)
        BY <2>1 DEF popenVars, ParentFile, ChildFile
      <3>2. PopenTypeOK' /\ PairsKnown'
        BY <2>1 DEF popenVars, PopenTypeOK, PairsKnown
      <3>3. TablesKnown'
        BY <2>1, <3>1 DEF popenVars, TablesKnown
      <3> QED  BY <3>2, <3>3 DEF PopenInvariant
    <2>2. CASE ParentStep
      BY <1>1, <2>2, Pipe0Step, Pipe1Step, ForkStep, ParentClosesStep, KillAndWaitStep
         DEF ParentStep
    <2>3. CASE ChildStep
      BY <1>1, <2>3, ChildStepStep
    <2> QED  BY <2>1, <2>2, <2>3 DEF LaunchNext, launchVars, ConstructWrapper, ConstructProfile,
                                     RunProgram, ProgramRuns, UseWord, Finished
  <1> QED  BY <1>2, <1>3, <1>4 DEF PopenInvariant

(***************************************************************************)
(* For any number of controllers on the host: whatever the race of their   *)
(* mkdir_p calls does to the others, one of them gets into the directory.  *)
(***************************************************************************)
THEOREM OneEnters == LaunchSpec => []PlaceInvariant
  <1>1. LaunchInvariant => PlaceInvariant
    BY DirOver DEF LaunchInvariant, PlaceInvariant, LaunchTypeOK
  <1> QED  BY <1>1, InitLaunch, LaunchStep, PTL DEF LaunchSpec

(***************************************************************************)
(* For any dictionary and any size a workload file may ask for, no word    *)
(* that a profile accepted by its constructor gives is past the end.       *)
(***************************************************************************)
THEOREM WordsInside == LaunchSpec => []ReadsInsideDictionary
  <1>1. LaunchInvariant => ReadsInsideDictionary
    BY DEF LaunchInvariant, WordInvariant, ReadsInsideDictionary
  <1> QED  BY <1>1, InitLaunch, LaunchStep, PTL DEF LaunchSpec

(***************************************************************************)
(* For any number of programs started one after the other by a controller  *)
(* that may open eight descriptors: no descriptor is lost, the wrappers    *)
(* see the end of a dead program, and a program the end of its input. (The *)
(* eight are the streams, the socket and the four ends of the pipes.)      *)
(***************************************************************************)
THEOREM DescriptorsKept ==
    ASSUME MaxFd >= 7
    PROVE  LaunchSpec => []DescriptorInvariant
  <1>1. LaunchInvariant => DescriptorInvariant
    BY DescriptorsRight DEF LaunchInvariant, LaunchTypeOK, PopenInvariant
  <1> QED  BY <1>1, InitLaunch, LaunchStep, PTL DEF LaunchSpec
=============================================================================
