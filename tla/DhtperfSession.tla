--------------------------- MODULE DhtperfSession ---------------------------
(***************************************************************************)
(* One experiment: the master, the controller processes, the connections   *)
(* between them and the clock they share.                                  *)
(***************************************************************************)
EXTENDS DhtperfMaster, DhtperfController, FiniteSets

CONSTANT StartSlack     \* ticks sendStartMessages may take

ASSUME StartSlackAssumption == StartSlack \in Nat /\ StartSlack < Grace
ASSUME EnoughControllers ==
    IsFiniteSet(Controllers) /\ Nodes <= Cardinality(Controllers)

VARIABLE slack          \* what is left of StartSlack

vars == <<masterVars, controllerVars, networkVars, slack>>

Init ==
    /\ NetworkInit
    /\ MasterInit
    /\ ControllerInit
    /\ slack = StartSlack

(***************************************************************************)
(* Time passes for everybody at once. A timer that is due is served before *)
(* the clock moves again, and sending the Start messages takes at most     *)
(* StartSlack ticks: a few writes against the code's margin of 10 seconds. *)
(***************************************************************************)
Tick ==
    /\ \/ phase \in {"starting", "startSent"} /\ slack > 0
          /\ slack' = slack - 1
       \/ phase \notin {"starting", "startSent"} /\ UNCHANGED slack
    /\ phase = "running" \/ \E p \in Controllers : process[p] \in Threaded
    /\ MasterTick
    /\ ControllerTick
    /\ UNCHANGED <<phase, fatal, startVars, reading, writeFailed, countVars,
                   results, nodesStatus, process, startMessage, reportsSent,
                   networkVars>>

\* Nothing is left to happen: the master ended, and so did every controller.
Terminated ==
    /\ phase \in {"reported", "aborted"}
    /\ \A p \in Controllers : process[p] \in Ended
    /\ UNCHANGED vars

MasterAction == MasterNext /\ UNCHANGED <<controllerVars, slack>>
ControllerAction(p) == ControllerNext(p) /\ UNCHANGED <<masterVars, slack>>
NetworkAction(p) ==
    RstArrives(p) /\ UNCHANGED <<masterVars, controllerVars, slack>>

Next ==
    \/ MasterAction
    \/ \E p \in Controllers : ControllerAction(p)
    \/ \E p \in Controllers : NetworkAction(p)
    \/ Tick
    \/ Terminated

Spec == Init /\ [][Next]_vars

(***************************************************************************)
(* Scheduling: the master's thread, each live controller's threads and the *)
(* clock go on. Nothing is assumed of the operations of a DHT (start() may *)
(* never end), of when a controller is launched, or of faults: accepting   *)
(* and opening a result file need not fail.                                *)
(***************************************************************************)
MasterStep == MasterAction /\ fatal' \notin {"accept", "results"}

Fairness ==
    /\ WF_vars(MasterStep)
    /\ WF_vars(Tick)
    /\ \A p \in Controllers :
          WF_vars(ControllerStep(p) /\ UNCHANGED <<masterVars, slack>>)

FairSpec == Spec /\ Fairness

-----------------------------------------------------------------------------
TypeOK ==
    /\ NetworkTypeOK
    /\ MasterTypeOK
    /\ ControllerTypeOK
    /\ slack \in 0 .. StartSlack

Accepted == {controllers[k] : k \in 1 .. Len(controllers)}
Verdict(v) == {p \in Controllers : reading[p] = v}

\* The master has not stopped collecting.
Collecting == phase \in {"accepting", "starting", "startSent", "running"}

(***************************************************************************)
(* What TypeOK rests on: how far accepting, starting and counting are in   *)
(* each phase.                                                             *)
(***************************************************************************)
PhaseInvariant ==
    /\ phase = "accepting" => Len(controllers) < Nodes
    /\ phase \in {"starting", "startSent", "running", "stopped", "reported"}
          => Len(controllers) = Nodes
    /\ phase \in {"accepting", "starting"} => startIndex <= Nodes
    /\ \A h \in Hosts : nodesPerHost[h] < startIndex
    /\ Collecting => finishedControllers < Nodes
    /\ failedControllers <= finishedControllers

(***************************************************************************)
(* The counters of controllerFinished and handleDisconnection are exactly  *)
(* the numbers of accepted controllers that finished or failed: nobody is  *)
(* counted twice, whatever the order of Finish, EOF and timeout.           *)
(***************************************************************************)
EveryControllerCountedOnce ==
    /\ failedControllers = Cardinality(Verdict("failed"))
    /\ finishedControllers =
          Cardinality(Verdict("finished") \cup Verdict("failed"))
    /\ Verdict("finished") \cup Verdict("failed") \subseteq Accepted

(***************************************************************************)
(* "Nodes that closed successfully, reporting results": when the master    *)
(* counts a controller as finished it has stored that controller's six     *)
(* reports, once each and in the order of reportResults.                   *)
(***************************************************************************)
FinishedMeansReported ==
    \A p \in Controllers : reading[p] = "finished" => results[p] = ReportTypes

(***************************************************************************)
(* sendStartMessages is a barrier: no controller runs its workload before  *)
(* the master has accepted all the nodes of the experiment, and one that   *)
(* found the acceptor closed never runs it.                                *)
(***************************************************************************)
StartBarrier ==
    \A p \in Controllers :
        startMessage[p] # NotStarted =>
            /\ Len(controllers) = Nodes
            /\ p \in Accepted

(***************************************************************************)
(* Controllers on one host get port offsets (nodesPerHost) that every      *)
(* wrapper's portOffsetToPort, in 16 bits, turns into different ports: no  *)
(* two DHT nodes of a host, nor a node and the id server of another, ever  *)
(* fight for one.                                                          *)
(***************************************************************************)
PortsDistinct ==
    \A p, q \in Controllers :
        /\ p # q
        /\ HostOf[p] = HostOf[q]
        /\ startMessage[p] # NotStarted
        /\ startMessage[q] # NotStarted
        => \A dht \in DhtTypes :
              PortsOf(dht, startMessage[p].selfPortOffset)
                  \cap PortsOf(dht, startMessage[q].selfPortOffset) = {}

(***************************************************************************)
(* The entry point a controller is told (host of node 0, offset 0) is      *)
(* where the first accepted controller, and nobody else, listens: only     *)
(* that one starts a new DHT, and its own offset is the advertised one.    *)
(***************************************************************************)
EntryPointIsNodeZero ==
    \A p \in Controllers :
        startMessage[p] # NotStarted =>
            IF p = controllers[1]
            THEN /\ startMessage[p].entryPointHost = NoHost
                 /\ startMessage[p].selfPortOffset = 0
            ELSE /\ startMessage[p].entryPointHost = HostOf[controllers[1]]
                 /\ <<HostOf[p], startMessage[p].selfPortOffset>> #
                    <<startMessage[p].entryPointHost,
                      startMessage[p].entryPointPortOffset>>

(***************************************************************************)
(* timeoutThreadFunction waits 10 seconds more than the master "so that it *)
(* will detect us as Unfinished": a controller its timeout thread ended is *)
(* never counted as failed.                                                *)
(***************************************************************************)
TimedOutNeverFailed ==
    \A p \in Controllers : process[p] = "timeout" => reading[p] # "failed"

(***************************************************************************)
(* The master implements NodesStatus: its verdicts are final and what      *)
(* pushNodesStatus computes from two counters is the number of nodes with  *)
(* each verdict.                                                           *)
(***************************************************************************)
Status == INSTANCE NodesStatus WITH
    Candidates <- Controllers,
    NodeCount <- Nodes,
    Count <- Cardinality,
    verdict <- [p \in Controllers |->
                   IF reading[p] \in {"finished", "failed"} THEN reading[p]
                                                            ELSE "none"],
    published <- nodesStatus,
    over <- phase \in {"reported", "aborted"}

ImplementsNodesStatus == Status!StatusSpec

(***************************************************************************)
(* "Sorry, life happens, we must move on": once the Start messages are     *)
(* sent, hung, dead or vanished controllers cannot keep the master from    *)
(* ending.                                                                 *)
(***************************************************************************)
MasterMovesOn ==
    phase = "startSent" ~> phase \in {"reported", "aborted"}

(***************************************************************************)
(* No controller process outlives the experiment: one whose DHT operations *)
(* never end is ended by its timeout thread, one that was not accepted or  *)
(* lost its master by its failing read or write.                           *)
(***************************************************************************)
ControllersEnd ==
    phase # "accepting" ~>
        \A p \in Controllers : process[p] \in Ended \cup {"idle"}

-----------------------------------------------------------------------------
(***************************************************************************)
(* DhtperfMaster.cpp:218, when a controller disconnects: Just don't wait   *)
(* for more messages and it's "okay".                                      *)
(***************************************************************************)
DisconnectionIsOkay == fatal # "remote_endpoint"
=============================================================================
