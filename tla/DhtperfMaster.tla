--------------------------- MODULE DhtperfMaster ----------------------------
(***************************************************************************)
(* dhtperf-master: accepts Nodes controllers, hands each its DHT type and  *)
(* profile, starts them all, collects their reports until every one has    *)
(* finished or failed or the workload timeout fires, and publishes.        *)
(* One thread runs the handlers of an io_service one at a time; the loop   *)
(* of sendStartMessages is one step per controller because the controllers *)
(* already started run meanwhile.                                          *)
(***************************************************************************)
EXTENDS Network

CONSTANTS
    Nodes,      \* workload_.nodes()
    HostOf      \* address of each controller process

ASSUME NodesAssumption == Nodes \in Nat \ {0} /\ Nodes <= PortOffsetModulus
ASSUME HostOfAssumption == HostOf \in [Controllers -> Hosts]

VARIABLES
    phase,                \* where run() is
    fatal,                \* what ended the process early, or "none"
    controllers,          \* controllers_: accepted processes, in order
    startIndex,           \* loop variable of sendStartMessages (from 1)
    nodesPerHost,         \* its local map
    reading,              \* per controller: what became of asyncWaitForMessage
    writeFailed,          \* some async_write completed with an error
    finishedControllers,
    failedControllers,
    results,              \* reports pushed to resultProcessor_, by sender
    nodesStatus,          \* the NodesStatus result, or NoStatus
    workloadTimer         \* ticks left on the deadline_timer of run()

startVars == <<controllers, startIndex, nodesPerHost>>
countVars == <<finishedControllers, failedControllers>>
masterVars == <<phase, fatal, startVars, reading, writeFailed, countVars,
                results, nodesStatus, workloadTimer>>

WorkloadTimeout == Duration + ReportAndFinishTimeout

Phases == {"accepting", "starting", "startSent", "running", "stopped",
           "reported", "aborted"}
FatalReasons == {"none", "accept", "remote_endpoint", "write", "opcode",
                 "results"}
NoStatus == [finished |-> 0, failed |-> 0, unfinished |-> 0]

MasterTypeOK ==
    /\ phase \in Phases
    /\ fatal \in FatalReasons
    /\ controllers \in Seq(Controllers)
    /\ startIndex \in 1 .. Nodes + 1
    /\ nodesPerHost \in [Hosts -> 0 .. Nodes]
    /\ reading \in [Controllers -> {"none", "pending", "finished", "failed"}]
    /\ writeFailed \in BOOLEAN
    /\ finishedControllers \in 0 .. Nodes
    /\ failedControllers \in 0 .. Nodes
    /\ results \in [Controllers -> Seq(ReportTypeSet)]
    /\ nodesStatus \in [finished : 0 .. Nodes, failed : 0 .. Nodes,
                        unfinished : 0 .. Nodes]
    /\ workloadTimer \in 0 .. WorkloadTimeout

MasterInit ==
    /\ phase = "accepting"
    /\ fatal = "none"
    /\ controllers = <<>>
    /\ startIndex = 1
    /\ nodesPerHost = [h \in Hosts |-> 0]
    /\ reading = [p \in Controllers |-> "none"]
    /\ writeFailed = FALSE
    /\ finishedControllers = 0
    /\ failedControllers = 0
    /\ results = [p \in Controllers |-> <<>>]
    /\ nodesStatus = NoStatus
    /\ workloadTimer = WorkloadTimeout

-----------------------------------------------------------------------------
\* The process ends: the kernel closes every socket it holds and drops what
\* it had not read.
ProcessEnds ==
    /\ acceptorOpen' = FALSE
    /\ backlog' = <<>>
    /\ link' = CloseAll(Controllers)
    /\ toMaster' = [p \in Controllers |-> <<>>]

\* exit(1), or an exception that nobody catches.
Abort(reason) ==
    /\ phase' = "aborted"
    /\ fatal' = reason
    /\ ProcessEnds
    /\ UNCHANGED <<startVars, reading, writeFailed, countVars, results,
                   nodesStatus, workloadTimer, toController>>

\* The async_write of sendMessage, links being the other connections' states:
\* it succeeds at once, unless the RST of a dead peer comes just before it.
WriteCompletes(p, links) ==
    \/ link' = links /\ UNCHANGED writeFailed
    \/ /\ link[p] = "fin"
       /\ link' = [links EXCEPT ![p] = "reset"]
       /\ writeFailed' = TRUE

\* Accepting fails (no descriptors left, for instance): exit(1).
AcceptError ==
    /\ phase = "accepting"
    /\ Abort("accept")

\* What an accepted controller is sent (sendDhtTypeMessage,
\* sendProfileMessage); the mutant starts it at once.
AcceptMessagesAndStart == <<DhtType, Profile, Start(NoHost, 0, 0)>>
AcceptMessages == <<DhtType, Profile>>

(***************************************************************************)
(* handleAccept: number the controller, send it DhtType and Profile; the   *)
(* last one closes the acceptor, which drops whoever still waits in its    *)
(* queue, and enters sendStartMessages.                                    *)
(***************************************************************************)
HandleAccept ==
    /\ phase = "accepting"
    /\ backlog # <<>>
    /\ LET p == Head(backlog)
           last == Len(controllers) + 1 = Nodes
           dropped == {Tail(backlog)[k] : k \in 1 .. Len(Tail(backlog))}
       IN /\ controllers' = Append(controllers, p)
          /\ toController' =
                [toController EXCEPT ![p] = @ \o AcceptMessages]
          /\ WriteCompletes(p, IF last THEN CloseAll(dropped) ELSE link)
          /\ phase' = IF last THEN "starting" ELSE phase
          /\ acceptorOpen' = ~last
          /\ backlog' = IF last THEN <<>> ELSE Tail(backlog)
    /\ UNCHANGED <<fatal, startIndex, nodesPerHost, reading, countVars, results,
                   nodesStatus, workloadTimer, toMaster>>

\* nodePortOffset is the uint16_t nodesPerHost - 1; the mutant counts
\* from 1.
NodePortOffsetFromOne(count) == count % PortOffsetModulus
NodePortOffset(count) == (count - 1) % PortOffsetModulus

(***************************************************************************)
(* One iteration of sendStartMessages: asks both endpoints' addresses,     *)
(* numbers the node on its host, sends Start and begins to wait for the    *)
(* reports.                                                                *)
(***************************************************************************)
SendStartMessage ==
    /\ phase = "starting"
    /\ LET p == controllers[startIndex]
           entry == controllers[1]
           count == nodesPerHost[HostOf[p]] + 1
       IN /\ HasPeer(p) /\ HasPeer(entry)
          /\ nodesPerHost' = [nodesPerHost EXCEPT ![HostOf[p]] = count]
          /\ toController' =
                [toController EXCEPT ![p] =
                    Append(@, Start(IF startIndex = 1 THEN NoHost
                                                      ELSE HostOf[entry],
                                    0, NodePortOffset(count)))]
          /\ WriteCompletes(p, link)
          /\ reading' = [reading EXCEPT ![p] = "pending"]
    /\ startIndex' = startIndex + 1
    /\ phase' = IF startIndex = Nodes THEN "startSent" ELSE phase
    /\ UNCHANGED <<fatal, controllers, countVars, results, nodesStatus,
                   workloadTimer, acceptorOpen, backlog, toMaster>>

\* remote_endpoint() of the node, or of the entry point, throws.
StartEndpointLost ==
    /\ phase = "starting"
    /\ ~ (HasPeer(controllers[startIndex]) /\ HasPeer(controllers[1]))
    /\ Abort("remote_endpoint")

\* run() arms the timer once every Start has been sent.
ArmWorkloadTimer ==
    /\ phase = "startSent"
    /\ phase' = "running"
    /\ workloadTimer' = WorkloadTimeout
    /\ UNCHANGED <<fatal, startVars, reading, writeFailed, countVars, results,
                   nodesStatus, networkVars>>

-----------------------------------------------------------------------------
\* controllerFinished(): the last one stops the io_service; the mutant does
\* not stop it.
ControllerFinishedNoStop ==
    /\ finishedControllers' = finishedControllers + 1
    /\ UNCHANGED phase
ControllerFinished ==
    /\ finishedControllers' = finishedControllers + 1
    /\ phase' = IF finishedControllers + 1 = Nodes THEN "stopped" ELSE phase

(***************************************************************************)
(* A message of p was read: header, body, fromBits, handleMessage.         *)
(***************************************************************************)
HandleReportMessage(p, report) ==
    /\ toMaster' = [toMaster EXCEPT ![p] = Tail(@)]
    /\ results' = [results EXCEPT ![p] = Append(@, report.type)]
    /\ UNCHANGED <<phase, fatal, startVars, reading, writeFailed, countVars,
                   nodesStatus, workloadTimer, acceptorOpen, backlog, link,
                   toController>>

\* Mutant: waits for more messages after Finish, as after a report.
HandleFinishMessageAndWait(p) ==
    /\ toMaster' = [toMaster EXCEPT ![p] = Tail(@)]
    /\ ControllerFinished
    /\ UNCHANGED <<fatal, startVars, reading, writeFailed, failedControllers,
                   results, nodesStatus, workloadTimer, acceptorOpen, backlog,
                   link, toController>>

HandleFinishMessage(p) ==
    /\ toMaster' = [toMaster EXCEPT ![p] = Tail(@)]
    /\ reading' = [reading EXCEPT ![p] = "finished"]
    /\ ControllerFinished
    /\ UNCHANGED <<fatal, startVars, writeFailed, failedControllers, results,
                   nodesStatus, workloadTimer, acceptorOpen, backlog, link,
                   toController>>

HandleMessage(p) ==
    /\ phase = "running"
    /\ reading[p] = "pending" /\ HasPeer(p)
    /\ toMaster[p] # <<>>
    /\ LET message == Head(toMaster[p])
       IN  IF message.opcode = "Report" THEN HandleReportMessage(p, message)
           ELSE IF message.opcode = "Finish" THEN HandleFinishMessage(p)
           ELSE Abort("opcode")

\* The read ends with EOF: handleDisconnection.
HandleDisconnection(p) ==
    /\ phase = "running"
    /\ reading[p] = "pending"
    /\ link[p] = "fin" /\ toMaster[p] = <<>>
    /\ reading' = [reading EXCEPT ![p] = "failed"]
    /\ failedControllers' = failedControllers + 1
    /\ ControllerFinished
    /\ UNCHANGED <<fatal, startVars, writeFailed, results, nodesStatus,
                   workloadTimer, networkVars>>

\* The read of a reset connection completes: both branches of
\* handleHeaderRead log remote_endpoint(), which throws.
HandleReadOnReset(p) ==
    /\ phase = "running"
    /\ reading[p] = "pending" /\ ~HasPeer(p)
    /\ Abort("remote_endpoint")

\* handleWrite with an error: exit(1).
HandleWriteError ==
    /\ phase \in {"accepting", "running"}
    /\ writeFailed
    /\ Abort("write")

\* Mutant: forgets to stop the io_service.
HandleWorkloadTimeoutNoStop ==
    /\ phase = "running"
    /\ workloadTimer = 0
    /\ UNCHANGED <<masterVars, networkVars>>

HandleWorkloadTimeout ==
    /\ phase = "running"
    /\ workloadTimer = 0
    /\ phase' = "stopped"
    /\ UNCHANGED <<fatal, startVars, reading, writeFailed, countVars, results,
                   nodesStatus, workloadTimer, networkVars>>

\* The value pushNodesStatus computes; the mutants forget that the finished
\* controllers include the failed ones.
StatusValueFailedApart ==
    [finished |-> finishedControllers, failed |-> failedControllers,
     unfinished |-> Nodes - finishedControllers - failedControllers]
StatusValueFailedTwice ==
    [finished |-> finishedControllers, failed |-> failedControllers,
     unfinished |-> Nodes - finishedControllers]
StatusValue ==
    [finished |-> finishedControllers - failedControllers,
     failed |-> failedControllers,
     unfinished |-> Nodes - finishedControllers]

(***************************************************************************)
(* The io_service has stopped: closeConnections, pushNodesStatus,          *)
(* processResults; then main returns.                                      *)
(***************************************************************************)
PublishResults ==
    /\ phase = "stopped"
    /\ phase' = "reported"
    /\ nodesStatus' = StatusValue
    /\ ProcessEnds
    /\ UNCHANGED <<fatal, startVars, reading, writeFailed, countVars, results,
                   workloadTimer, toController>>

\* ResultProcessor::process cannot open a result file: exit(1).
ResultsError ==
    /\ phase = "stopped"
    /\ Abort("results")

MasterNext ==
    \/ AcceptError \/ HandleAccept
    \/ SendStartMessage \/ StartEndpointLost \/ ArmWorkloadTimer
    \/ \E p \in Controllers : HandleMessage(p)
    \/ \E p \in Controllers : HandleDisconnection(p)
    \/ \E p \in Controllers : HandleReadOnReset(p)
    \/ HandleWriteError \/ HandleWorkloadTimeout
    \/ PublishResults \/ ResultsError

\* One tick of the clock, as the master's timer sees it.
MasterTick ==
    /\ ~ (phase = "running" /\ workloadTimer = 0)
    /\ workloadTimer' = IF phase = "running" THEN workloadTimer - 1
                                             ELSE workloadTimer
=============================================================================
