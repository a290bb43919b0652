------------------------- MODULE DhtperfController --------------------------
(***************************************************************************)
(* dhtperf-controller processes: connect, read DhtType, Profile and Start, *)
(* run the workload for Duration, write the six reports and Finish, clean  *)
(* up. A timeout thread ends the process when DHT operations never return. *)
(* The workload itself is in EventLoop; here start() is one long state.    *)
(*                                                                         *)
(* process[p] is where the main thread of p is, or how p ended:            *)
(*   "done"      main returned 0                                           *)
(*   "error"     exit(1), an uncaught exception, or a signal               *)
(*   "timeout"   the timeout thread called exit                            *)
(*   "vanished"  the host is gone: its kernel says nothing to the master   *)
(***************************************************************************)
EXTENDS Network

CONSTANT Grace      \* the 10 seconds of timeoutThreadFunction, in ticks

ASSUME GraceAssumption == Grace \in Nat

VARIABLES
    process,
    startMessage,   \* what setEntryPoint and setSelfPortOffset recorded
    reportsSent,    \* reports written so far
    elapsed         \* ticks since start() armed its timer and its thread

controllerVars == <<process, startMessage, reportsSent, elapsed>>

\* How long timeoutThreadFunction sleeps; the mutant waits no longer than the
\* master.
KillTimeoutLikeMaster == Duration + ReportAndFinishTimeout
KillTimeout == Duration + ReportAndFinishTimeout + Grace

Ended == {"done", "error", "timeout", "vanished"}
Reading == {"getDhtType", "getProfile", "waitForStart"}
\* The states in which the timeout thread exists.
Threaded == {"start", "report", "finish", "cleanup"}
ProcessStates == {"idle"} \cup Reading \cup Threaded \cup Ended
NotStarted == Profile       \* stands for "no Start message yet"

\* The wrappers of DhtNode::make, and what their portOffsetToPort makes of an
\* offset in 16 bits. The mutant forgets that kaddemo needs two ports.
DhtTypes == {"dummy", "kaddemo", "openchord", "owdhtshell", "pastconsole"}
PortOffsetToPortAlike(dht, offset) == (offset + 5000) % PortOffsetModulus
PortOffsetToPort(dht, offset) ==
    CASE dht = "dummy" -> offset
      [] dht = "kaddemo" -> (offset * 2 + 5000) % PortOffsetModulus
      [] OTHER -> (offset + 5000) % PortOffsetModulus

\* The id server of kaddemo listens at selfPort_ + 1.
PortsOf(dht, offset) ==
    {PortOffsetToPort(dht, offset)} \cup
    IF dht = "kaddemo" THEN {PortOffsetToPort(dht, offset) + 1} ELSE {}

ControllerTypeOK ==
    /\ process \in [Controllers -> ProcessStates]
    /\ startMessage \in [Controllers -> StartMessages \cup {NotStarted}]
    /\ reportsSent \in [Controllers -> 0 .. Len(ReportTypes)]
    /\ elapsed \in [Controllers -> 0 .. KillTimeout]

ControllerInit ==
    /\ process = [p \in Controllers |-> "idle"]
    /\ startMessage = [p \in Controllers |-> NotStarted]
    /\ reportsSent = [p \in Controllers |-> 0]
    /\ elapsed = [p \in Controllers |-> 0]

-----------------------------------------------------------------------------
\* The process of p ends: how, and what the network sees of it.
EndProcess(p, how) ==
    /\ process' = [process EXCEPT ![p] = how]
    /\ elapsed' = [elapsed EXCEPT ![p] = 0]
    /\ link' = Hangup(p)

Connect(p) ==
    /\ process[p] = "idle"
    /\ IF acceptorOpen
       THEN /\ process' = [process EXCEPT ![p] = "getDhtType"]
            /\ link' = [link EXCEPT ![p] = "open"]
            /\ backlog' = Append(backlog, p)
            /\ UNCHANGED elapsed
       ELSE EndProcess(p, "error") /\ UNCHANGED backlog
    /\ UNCHANGED <<startMessage, reportsSent, acceptorOpen, toController,
                   toMaster>>

(***************************************************************************)
(* getNextMessage(opcode): a blocking read; another opcode is fatal.       *)
(***************************************************************************)
GetNextMessage(p, opcode, next) ==
    /\ toController[p] # <<>>
    /\ toController' = [toController EXCEPT ![p] = Tail(@)]
    /\ IF Head(toController[p]).opcode = opcode
       THEN /\ process' = [process EXCEPT ![p] = next]
            /\ UNCHANGED <<elapsed, link>>
       ELSE EndProcess(p, "error")
    /\ UNCHANGED <<reportsSent, acceptorOpen, backlog, toMaster>>

GetDhtType(p) ==
    /\ process[p] = "getDhtType"
    /\ GetNextMessage(p, "DhtType", "getProfile")
    /\ UNCHANGED startMessage

GetProfile(p) ==
    /\ process[p] = "getProfile"
    /\ GetNextMessage(p, "Profile", "waitForStart")
    /\ UNCHANGED startMessage

\* waitForStartMessage, and the head of start(): the timeout thread and the
\* timer of the workload start here.
WaitForStartMessage(p) ==
    /\ process[p] = "waitForStart"
    /\ GetNextMessage(p, "Start", "start")
    /\ startMessage' = [startMessage EXCEPT ![p] =
          IF Head(toController[p]).opcode = "Start"
          THEN Head(toController[p]) ELSE @]

\* The blocking read fails because the master's end is gone.
ReadError(p) ==
    /\ process[p] \in Reading
    /\ link[p] = "closed" /\ toController[p] = <<>>
    /\ EndProcess(p, "error")
    /\ UNCHANGED <<startMessage, reportsSent, acceptorOpen, backlog,
                   toController, toMaster>>

\* start() returns: less than one second of the duration remains.
WorkloadDone(p) ==
    /\ process[p] = "start"
    /\ elapsed[p] >= Duration - 1
    /\ process' = [process EXCEPT ![p] = "report"]
    /\ UNCHANGED <<startMessage, reportsSent, elapsed, networkVars>>

(***************************************************************************)
(* A blocking write. When the master's end is gone the bytes are lost or   *)
(* the write fails, and then the process exits.                            *)
(***************************************************************************)
Write(p, message, next) ==
    \/ /\ process' = [process EXCEPT ![p] = next]
       /\ toMaster' = IF link[p] = "closed" THEN toMaster
                      ELSE [toMaster EXCEPT ![p] = Append(@, message)]
       /\ UNCHANGED <<elapsed, link>>
    \/ /\ link[p] = "closed"
       /\ EndProcess(p, "error")
       /\ UNCHANGED toMaster

\* Mutant: leaves out the last report.
ReportAllButOne(p) ==
    /\ process[p] = "report"
    /\ LET k == reportsSent[p] + 1
       IN  /\ Write(p, Report(ReportTypes[k]),
                    IF k + 1 = Len(ReportTypes) THEN "finish" ELSE "report")
           /\ reportsSent' = [reportsSent EXCEPT ![p] = k]
    /\ UNCHANGED <<startMessage, acceptorOpen, backlog, toController>>

ReportResult(p) ==
    /\ process[p] = "report"
    /\ reportsSent[p] < Len(ReportTypes)
    /\ LET k == reportsSent[p] + 1
       IN  /\ Write(p, Report(ReportTypes[k]),
                    IF k = Len(ReportTypes) THEN "finish" ELSE "report")
           /\ reportsSent' = [reportsSent EXCEPT ![p] = k]
    /\ UNCHANGED <<startMessage, acceptorOpen, backlog, toController>>

SendFinishMessage(p) ==
    /\ process[p] = "finish"
    /\ Write(p, Finish, "cleanup")
    /\ UNCHANGED <<startMessage, reportsSent, acceptorOpen, backlog,
                   toController>>

\* The destructor: cleanup(), then the timeout thread is interrupted and
\* joined; main returns.
Destroy(p) ==
    /\ process[p] = "cleanup"
    /\ EndProcess(p, "done")
    /\ UNCHANGED <<startMessage, reportsSent, acceptorOpen, backlog,
                   toController, toMaster>>

\* Mutant: cleans up and does not exit.
TimeoutThreadNoExit(p) ==
    /\ process[p] \in Threaded
    /\ elapsed[p] = KillTimeout
    /\ UNCHANGED <<controllerVars, networkVars>>

TimeoutThread(p) ==
    /\ process[p] \in Threaded
    /\ elapsed[p] = KillTimeout
    /\ EndProcess(p, "timeout")
    /\ UNCHANGED <<startMessage, reportsSent, acceptorOpen, backlog,
                   toController, toMaster>>

\* exit(1) in a profile or a DHT wrapper, an uncaught RWPopenEOF, a signal.
Die(p) ==
    /\ process[p] \in Reading \cup Threaded
    /\ EndProcess(p, "error")
    /\ UNCHANGED <<startMessage, reportsSent, acceptorOpen, backlog,
                   toController, toMaster>>

\* The host is gone, and no FIN ever reaches the master.
Vanish(p) ==
    /\ process[p] \in Reading \cup Threaded
    /\ process' = [process EXCEPT ![p] = "vanished"]
    /\ elapsed' = [elapsed EXCEPT ![p] = 0]
    /\ UNCHANGED <<startMessage, reportsSent, networkVars>>

\* The steps the scheduler owes a live controller.
ControllerStep(p) ==
    \/ GetDhtType(p) \/ GetProfile(p) \/ WaitForStartMessage(p)
    \/ ReadError(p) \/ ReportResult(p) \/ SendFinishMessage(p)
    \/ Destroy(p) \/ TimeoutThread(p)

ControllerNext(p) ==
    \/ Connect(p) \/ ControllerStep(p) \/ WorkloadDone(p)
    \/ Die(p) \/ Vanish(p)

\* One tick of the clock, as the timers of the controllers see it.
ControllerTick ==
    /\ \A p \in Controllers :
          process[p] \in Threaded => elapsed[p] < KillTimeout
    /\ elapsed' = [p \in Controllers |->
          IF process[p] \in Threaded THEN elapsed[p] + 1 ELSE elapsed[p]]
=============================================================================
