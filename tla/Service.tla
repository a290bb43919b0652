------------------------------ MODULE Service -------------------------------
(***************************************************************************)
(* dhtperfd, the service that runs on every host, and dhtperfd-client,     *)
(* which sends it one command. The service accepts one connection at a     *)
(* time, reads the command, calls system() and answers; a client gives up  *)
(* when its timeout thread calls exit.                                     *)
(***************************************************************************)
EXTENDS Integers, Sequences, FiniteSets

CONSTANTS
    Clients,            \* runs of dhtperfd-client, one command each
    UsedCommands,       \* the commands they are called with
    MayVanish,          \* the clients whose host may disappear without a FIN
    SystemMayFail,      \* whether system() may find no process to fork
    NoClient,           \* nobody is being served
    ClientTimeout       \* the 20 seconds of timeout_thread_function, in ticks

\* "usage" is any argument that main does not know: it connects all the same.
Commands == {"ping", "start", "stop", "update", "version", "usage"}

ASSUME ClientsAssumption ==
    /\ MayVanish \subseteq Clients /\ NoClient \notin Clients
    /\ SystemMayFail \in BOOLEAN
ASSUME UsedAssumption == UsedCommands \subseteq Commands
ASSUME TimeoutsAssumption == ClientTimeout \in Nat \ {0}

Programs == {"sh", "dhtperf-controller", "java", "dhtperf-master"}

\* The kernel keeps 15 characters of a program's name, and pkill without -f
\* compares its pattern with those.
Comm == [program \in Programs |->
            IF program = "dhtperf-controller" THEN "dhtperf-control" ELSE program]

\* Why a pkill leaves a process running that it was meant for: it is a shell
\* that will become one, its kernel name does not match, or system() failed.
Excuse(program) ==
    CASE program = "sh" -> "shell"
      [] Comm[program] # program -> "name"
      [] OTHER -> "system"
Live == {"connecting", "connected", "waitVersion", "waitReply"}
ClientEnded == {"ok", "failed", "timeout", "vanished"}
Steps == {"accept", "read", "pkillMaster", "pkillController", "pkillJava", "ack"}

VARIABLES
    command,            \* argv[2] of each client
    client,             \* where its main thread is, or how it ended
    age,                \* ticks since its timeout thread started
    arrivals,           \* clients in the order of their connections
    sent,               \* clients whose command reached the service
    answer,             \* words written to each client and not read yet
    accepted,           \* how many of the arrivals were accepted
    serving,            \* the client handle_client is called for
    step,               \* where handle_client is
    hungup,             \* clients whose stream the service has closed
    launches,           \* whose start made a shell, in their order
    unlaunched,         \* history: the clients whose start system() failed
    processes,          \* the programs that run on the host, <<program, client>>
    missed              \* history: <<excuse, whose program, whose stop missed it>>

clientVars == <<client, age, arrivals, sent>>
serverVars == <<accepted, serving, step, hungup>>
hostVars == <<launches, unlaunched, processes, missed>>
vars == <<command, clientVars, answer, serverVars, hostVars>>

TypeOK ==
    /\ command \in [Clients -> Commands]
    /\ client \in [Clients -> {"idle"} \cup Live \cup ClientEnded]
    /\ age \in [Clients -> 0 .. ClientTimeout]
    /\ arrivals \in Seq(Clients) /\ accepted \in 0 .. Len(arrivals)
    /\ sent \subseteq Clients /\ hungup \subseteq Clients
    /\ serving \in Clients \cup {NoClient} /\ step \in Steps
    /\ answer \in [Clients -> Seq({"version", "ack"})]
    /\ launches \in Seq(Clients) /\ unlaunched \subseteq Clients
    /\ processes \subseteq Programs \X (Clients \cup {NoClient})
    /\ missed \subseteq
          {"shell", "name", "system"} \X (Clients \cup {NoClient}) \X Clients

\* A master that somebody started by hand may already run on the host.
Init ==
    /\ command \in [Clients -> UsedCommands]
    /\ client = [c \in Clients |-> "idle"]
    /\ age = [c \in Clients |-> 0]
    /\ arrivals = <<>> /\ sent = {}
    /\ answer = [c \in Clients |-> <<>>]
    /\ accepted = 0 /\ serving = NoClient /\ step = "accept" /\ hungup = {}
    /\ launches = <<>> /\ unlaunched = {}
    /\ processes \in {{}, {<<"dhtperf-master", NoClient>>}}
    /\ missed = {}

-----------------------------------------------------------------------------
(* dhtperfd-client *)

Become(c, state) == client' = [client EXCEPT ![c] = state]

\* main: the timeout thread starts, and then the stream begins to connect.
StartClient(c) ==
    /\ client[c] = "idle"
    /\ Become(c, "connecting")
    /\ UNCHANGED <<age, arrivals, sent, answer>>

\* The kernel of the host completes the connection, whatever dhtperfd does.
Connect(c) ==
    /\ client[c] = "connecting"
    /\ Become(c, "connected")
    /\ arrivals' = Append(arrivals, c)
    /\ UNCHANGED <<age, sent, answer>>

\* Nobody listens: the stream is bad, and so is the empty reply read from it.
Refused(c) ==
    /\ client[c] = "connecting"
    /\ Become(c, "failed")
    /\ UNCHANGED <<age, arrivals, sent, answer>>

SendCommand(c) ==
    /\ client[c] = "connected"
    /\ Become(c, CASE command[c] = "usage" -> "failed"
                   [] command[c] = "version" -> "waitVersion"
                   [] OTHER -> "waitReply")
    /\ sent' = IF command[c] = "usage" THEN sent ELSE sent \cup {c}
    /\ UNCHANGED <<age, arrivals, answer>>

\* One word of the stream; the version may be any, the reply must be the ack.
ReadWord(c) ==
    /\ client[c] \in {"waitVersion", "waitReply"} /\ answer[c] # <<>>
    /\ Become(c, IF client[c] = "waitVersion" THEN "waitReply"
                 ELSE IF Head(answer[c]) = "ack" THEN "ok" ELSE "failed")
    /\ answer' = [answer EXCEPT ![c] = Tail(@)]
    /\ UNCHANGED <<age, arrivals, sent>>

\* The stream ended: the reply is the empty string.
ReadEof(c) ==
    /\ client[c] \in {"waitVersion", "waitReply"} /\ answer[c] = <<>>
    /\ c \in hungup
    /\ Become(c, "failed")
    /\ UNCHANGED <<age, arrivals, sent, answer>>

\* Mutant: the thread prints its message and ends alone.
TimeoutNoExit(c) ==
    /\ client[c] \in Live /\ age[c] = ClientTimeout
    /\ UNCHANGED <<clientVars, answer>>

Timeout(c) ==
    /\ client[c] \in Live /\ age[c] = ClientTimeout
    /\ Become(c, "timeout")
    /\ UNCHANGED <<age, arrivals, sent, answer>>

\* The host of the client is gone, and no FIN ever reaches dhtperfd.
Vanish(c) ==
    /\ c \in MayVanish /\ client[c] \in Live
    /\ Become(c, "vanished")
    /\ UNCHANGED <<age, arrivals, sent, answer>>

ClientFrame == UNCHANGED <<command, serverVars, hostVars>>
ClientStep(c) ==
    (SendCommand(c) \/ ReadWord(c) \/ ReadEof(c)) /\ ClientFrame
TimeoutThread(c) == Timeout(c) /\ ClientFrame

-----------------------------------------------------------------------------
(* dhtperfd *)

\* Mutant: the newest connection first.
AcceptNewest ==
    /\ step = "accept" /\ accepted < Len(arrivals)
    /\ accepted' = accepted + 1
    /\ LET waiting == {i \in 1 .. Len(arrivals) : arrivals[i] \notin hungup}
       IN  serving' = arrivals[CHOOSE i \in waiting : \A j \in waiting : j <= i]
    /\ step' = "read"
    /\ UNCHANGED <<answer, hungup, hostVars>>

Accept ==
    /\ step = "accept" /\ accepted < Len(arrivals)
    /\ accepted' = accepted + 1
    /\ serving' = arrivals[accepted + 1]
    /\ step' = "read"
    /\ UNCHANGED <<answer, hungup, hostVars>>

\* handle_client returns and do_serve destroys the stream.
Return ==
    /\ step' = "accept"
    /\ serving' = NoClient
    /\ hungup' = hungup \cup {serving}
    /\ UNCHANGED accepted

Received(cmd) == step = "read" /\ serving \in sent /\ command[serving] = cmd
Go(next) == step' = next /\ UNCHANGED <<accepted, serving, hungup>>

\* update runs yum in the background: nothing this model tells apart.
HandlePing ==
    /\ Received("ping") \/ Received("update")
    /\ Go("ack")
    /\ UNCHANGED <<answer, hostVars>>

\* A shell that puts the controller in the background.
Launch ==
    /\ launches' = Append(launches, serving)
    /\ processes' = processes \cup {<<"sh", serving>>}
    /\ UNCHANGED unlaunched

\* Mutant: a host has one controller at a time.
HandleStartUnlessRunning ==
    /\ Received("start")
    /\ IF processes = {} THEN Launch
                         ELSE UNCHANGED <<launches, unlaunched, processes>>
    /\ Go("ack")
    /\ UNCHANGED <<answer, missed>>

\* do_system says so in its own log, and handle_client goes on as if system()
\* had not failed.
SystemFails == SystemMayFail /\ UNCHANGED <<launches, processes>>

HandleStart ==
    /\ Received("start")
    /\ Launch \/ (SystemFails /\ unlaunched' = unlaunched \cup {serving})
    /\ Go("ack")
    /\ UNCHANGED <<answer, missed>>

HandleStop ==
    /\ Received("stop")
    /\ Go("pkillMaster")
    /\ UNCHANGED <<answer, hostVars>>

\* One of the three pkill commands: the processes whose kernel name is its
\* pattern get SIGTERM, or none when system() fails.
Pkill(at, pattern, next) ==
    /\ step = at
    /\ SystemFails \/ processes' = {q \in processes : Comm[q[1]] # pattern}
    /\ missed' = missed \cup
          {<<Excuse(q[1]), q[2], serving>> : q \in {r \in processes' :
              \/ r[1] = pattern
              \/ r[1] = "sh" /\ pattern = "dhtperf-controller"}}
    /\ Go(next)
    /\ UNCHANGED <<answer, launches, unlaunched>>

\* The three, in their order; the mutant ends the consoles before the
\* controllers.
PkillAllControllersLast ==
    \/ Pkill("pkillMaster", "dhtperf-master", "pkillController")
    \/ Pkill("pkillController", "java", "pkillJava")
    \/ Pkill("pkillJava", "dhtperf-controller", "ack")
PkillAll ==
    \/ Pkill("pkillMaster", "dhtperf-master", "pkillController")
    \/ Pkill("pkillController", "dhtperf-controller", "pkillJava")
    \/ Pkill("pkillJava", "java", "ack")

HandleVersion ==
    /\ Received("version")
    /\ answer' = [answer EXCEPT ![serving] = Append(@, "version")]
    /\ Go("ack")
    /\ UNCHANGED hostVars

\* Mutant: reads again until there is a message.
HandleUnknownReadsAgain ==
    /\ step = "read" /\ serving \notin sent
    /\ client[serving] \in ClientEnded \ {"vanished"}
    /\ UNCHANGED <<answer, serverVars, hostVars>>

\* The client ended and said nothing: msg is the empty string.
HandleUnknown ==
    /\ step = "read" /\ serving \notin sent
    /\ client[serving] \in ClientEnded \ {"vanished"}
    /\ Return
    /\ UNCHANGED <<answer, hostVars>>

Ack ==
    /\ step = "ack"
    /\ answer' = [answer EXCEPT ![serving] = Append(@, "ack")]
    /\ Return
    /\ UNCHANGED hostVars

ServerStep ==
    /\ \/ Accept \/ HandlePing \/ HandleStart \/ HandleStop
       \/ PkillAll \/ HandleVersion \/ HandleUnknown \/ Ack
    /\ UNCHANGED <<command, clientVars>>

-----------------------------------------------------------------------------
(* The host: the background shell becomes the controller, which runs a java *)
(* console; any program may end at any time.                                *)
HostStep ==
    /\ \E q \in processes :
          \/ q[1] = "sh"
             /\ processes' = (processes \ {q}) \cup {<<"dhtperf-controller", q[2]>>}
          \/ q[1] = "dhtperf-controller"
             /\ processes' = processes \cup {<<"java", q[2]>>}
          \/ processes' = processes \ {q}
    /\ UNCHANGED <<command, clientVars, answer, serverVars, launches,
                   unlaunched, missed>>

\* A timeout that is due is served before the clock moves again.
Tick ==
    /\ \E c \in Clients : client[c] \in Live
    /\ \A c \in Clients : client[c] \in Live => age[c] < ClientTimeout
    /\ age' = [c \in Clients |-> IF client[c] \in Live THEN age[c] + 1 ELSE age[c]]
    /\ UNCHANGED <<command, client, arrivals, sent, answer, serverVars, hostVars>>

\* dhtperfd waits in accept for ever once its clients are gone.
Idle ==
    /\ \A c \in Clients : client[c] \in ClientEnded
    /\ UNCHANGED vars

Next ==
    \/ \E c \in Clients :
          \/ (StartClient(c) \/ Connect(c) \/ Refused(c) \/ Vanish(c)) /\ ClientFrame
          \/ ClientStep(c) \/ TimeoutThread(c)
    \/ ServerStep \/ HostStep \/ Tick \/ Idle

Spec == Init /\ [][Next]_vars

\* The scheduler runs every thread that can run, and the clock goes on.
Fairness ==
    /\ WF_vars(ServerStep)
    /\ WF_vars(Tick)
    /\ \A c \in Clients : WF_vars(ClientStep(c)) /\ WF_vars(TimeoutThread(c))

FairSpec == Spec /\ Fairness

-----------------------------------------------------------------------------
Launched(c) == {n \in 1 .. Len(launches) : launches[n] = c}
Before(b, c) ==
    \E i, j \in 1 .. Len(arrivals) :
        i < j /\ arrivals[i] = b /\ arrivals[j] = c

(***************************************************************************)
(* A client whose start was acknowledged has had exactly one controller    *)
(* launched, or none because its system() failed, and no client ever has   *)
(* two or another's, whatever order it times out, vanishes and is served   *)
(* in: an ack is never somebody else's.                                    *)
(***************************************************************************)
AckedStartLaunchedOnce ==
    \A c \in Clients :
        /\ Cardinality(Launched(c)) <= 1
        /\ Launched(c) # {} => command[c] = "start" /\ c \notin unlaunched
        /\ command[c] = "start" /\ client[c] = "ok" =>
              Launched(c) # {} \/ c \in unlaunched
        /\ c \in unlaunched => SystemMayFail

(***************************************************************************)
(* handle_client runs to its end before the next accept: once a stop is    *)
(* acknowledged, no start that connected before it is carried out any      *)
(* more, those whose client gave up long ago included.                     *)
(***************************************************************************)
StopCoversEarlierStarts ==
    [][\A s, c \in Clients :
          /\ command[s] = "stop" /\ client[s] = "ok" /\ Before(c, s)
          /\ Launched(c) = {}
          => Launched(c)' = {}]_vars

(***************************************************************************)
(* timeout_thread_function ends every client, be the service stuck for     *)
(* ever with a client that vanished.                                       *)
(***************************************************************************)
EveryClientEnds ==
    \A c \in Clients : client[c] \in Live ~> client[c] \in ClientEnded

(***************************************************************************)
(* Unless a host vanishes, do_serve comes back to accept after each        *)
(* client: one that says nothing is gone after its timeout at the latest.  *)
(***************************************************************************)
ServiceComesBack ==
    [](\A c \in Clients : client[c] # "vanished") => []<>(serving = NoClient)

\* A stop of s was acknowledged, and before it came c or a master by hand.
StoppedBy(s, c) == command[s] = "stop" /\ client[s] = "ok" /\ Before(c, s)

(***************************************************************************)
(* After an acknowledged stop no master runs and no program of an earlier  *)
(* start, unless this very stop found, when it came to its pkill, a        *)
(* controller of that start whose name does not match, a shell that would  *)
(* become one, or a program that a failing system() spared. A console is   *)
(* never left alone: those are ended after the controllers were looked     *)
(* for, and by that time only a controller found then can start another.   *)
(***************************************************************************)
NothingElseSurvivesStop ==
    \A s, c \in Clients :
        StoppedBy(s, c) =>
            \A q \in processes : q[2] \in {c, NoClient} =>
                \E excuse \in {"shell", "name", "system"} :
                    <<excuse, q[2], s>> \in missed

(***************************************************************************)
(* What dhtperfd.cpp:88 says of the ack, that what had to be done has been *)
(* done: nothing of the earlier starts runs on and no master, except what  *)
(* was still a shell or a failing system() spared. pkill dhtperf-controller *)
(* matches no process, and so the controllers run on.                      *)
(***************************************************************************)
AckedStopStopped ==
    \A s, c \in Clients :
        StoppedBy(s, c) =>
            \A q \in processes : q[2] \in {c, NoClient} =>
                \E excuse \in {"shell", "system"} :
                    <<excuse, q[2], s>> \in missed

(***************************************************************************)
(* An acknowledged start launched a controller, once, or could not because *)
(* system() failed, whatever is left in the connections of those that gave *)
(* up.                                                                     *)
(***************************************************************************)
AckInvariant == TypeOK /\ AckedStartLaunchedOnce
=============================================================================
