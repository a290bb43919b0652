------------------------ MODULE DhtperfSessionProofs ------------------------
(***************************************************************************)
(* Theorems about DhtperfSession, for every set of controllers and hosts   *)
(* and every value of the time constants.                                  *)
(***************************************************************************)
EXTENDS DhtperfSession, FiniteSetTheorems, TLAPS

-----------------------------------------------------------------------------
(* Messages and links *)

\* The number of nodes is a positive number.
LEMMA NodesNat == Nodes \in Nat /\ Nodes >= 1
  BY NodesAssumption

\* Every controller has a host.
LEMMA HostTyped == \A c \in Controllers : HostOf[c] \in Hosts
  BY HostOfAssumption

\* Every message the code builds is a message of the protocol.
LEMMA MessagesTyped ==
    /\ DhtType \in ToControllerMessages
    /\ Profile \in ToControllerMessages
    /\ Finish \in ToMasterMessages
    /\ \A k \in 1 .. Len(ReportTypes) :
          /\ Report(ReportTypes[k]) \in ToMasterMessages
          /\ ReportTypes[k] \in ReportTypeSet
    /\ \A h \in Hosts \cup {NoHost}, n \in PortOffsets :
          Start(h, 0, n) \in StartMessages
  <1>1. DhtType \in ToControllerMessages /\ Profile \in ToControllerMessages
    BY DEF ToControllerMessages
  <1>2. Finish \in ToMasterMessages
    BY DEF ToMasterMessages
  <1>3. ASSUME NEW k \in 1 .. Len(ReportTypes)
        PROVE  /\ Report(ReportTypes[k]) \in ToMasterMessages
               /\ ReportTypes[k] \in ReportTypeSet
    BY DEF ToMasterMessages, ReportTypeSet
  <1>4. ASSUME NEW h \in Hosts \cup {NoHost}, NEW n \in PortOffsets
        PROVE  Start(h, 0, n) \in StartMessages
    <2>1. 0 \in PortOffsets
      BY DEF PortOffsets, PortOffsetModulus
    <2>2. QED
      BY <2>1 DEF Start, StartMessages
  <1>5. QED
    BY <1>1, <1>2, <1>3, <1>4

\* A message with opcode Report carries a report type.
LEMMA ReportTyped ==
    ASSUME NEW m \in ToMasterMessages, m.opcode = "Report"
    PROVE  m.type \in ReportTypeSet
  BY DEF ToMasterMessages, Report, Finish

\* A message with opcode Start is a Start message.
LEMMA StartTyped ==
    ASSUME NEW m \in ToControllerMessages, m.opcode = "Start"
    PROVE  m \in StartMessages
  BY DEF ToControllerMessages, DhtType, Profile

\* Closing and hanging up keep the links well typed.
LEMMA LinksTyped ==
    ASSUME link \in [Controllers -> LinkStates]
    PROVE  /\ \A S : CloseAll(S) \in [Controllers -> LinkStates]
           /\ \A p \in Controllers : Hangup(p) \in [Controllers -> LinkStates]
  BY DEF CloseAll, Hangup, LinkStates

\* A port offset is a uint16_t, and counts from 0 while it fits.
LEMMA PortOffsetTyped ==
    ASSUME NEW n \in 1 .. Nodes
    PROVE  NodePortOffset(n) \in PortOffsets /\ NodePortOffset(n) = n - 1
  <1>1. n - 1 \in Nat /\ n - 1 < 65536
    BY NodesAssumption DEF PortOffsetModulus
  <1>2. (n - 1) % 65536 = n - 1
    BY <1>1
  <1>3. QED
    BY <1>1, <1>2 DEF NodePortOffset, PortOffsets, PortOffsetModulus

-----------------------------------------------------------------------------
(* Type correctness *)

TypeInvariant == TypeOK /\ PhaseInvariant



LEMMA InitType == Init => TypeInvariant
  <1> SUFFICES ASSUME Init PROVE TypeInvariant
    OBVIOUS
  <1> USE NodesNat, TimesAssumption, GraceAssumption,
          StartSlackAssumption, ReportTypesAssumption
  <1>1. NetworkTypeOK
    BY DEF Init, NetworkInit, NetworkTypeOK, LinkStates
  <1>2. MasterTypeOK
    <2>1. WorkloadTimeout \in 0 .. WorkloadTimeout
      BY DEF WorkloadTimeout
    <2>2. NoStatus \in [finished : 0 .. Nodes, failed : 0 .. Nodes,
                        unfinished : 0 .. Nodes]
      BY DEF NoStatus
    <2>3. [h \in Hosts |-> 0] \in [Hosts -> 0 .. Nodes]
      OBVIOUS
    <2>4. /\ phase \in Phases /\ fatal \in FatalReasons
          /\ startIndex \in 1 .. Nodes + 1 
          /\ finishedControllers \in 0 .. Nodes
          /\ failedControllers \in 0 .. Nodes
      BY DEF Init, MasterInit, Phases, FatalReasons
    <2>5. /\ controllers \in Seq(Controllers)
          /\ results \in [Controllers -> Seq(ReportTypeSet)]
          /\ reading \in [Controllers ->
                {"none", "pending", "finished", "failed"}]
      BY DEF Init, MasterInit
    <2>6. writeFailed \in BOOLEAN
      BY DEF Init, MasterInit
    <2>7. QED
      BY <2>1, <2>2, <2>3, <2>4, <2>5, <2>6 DEF Init, MasterInit, MasterTypeOK
  <1>3. ControllerTypeOK
    BY DEF Init, ControllerInit, ControllerTypeOK, ProcessStates, KillTimeout
  <1>4. PhaseInvariant
    BY DEF Init, MasterInit, PhaseInvariant, Collecting
  <1>5. QED
    BY <1>1, <1>2, <1>3, <1>4 DEF TypeOK, Init, TypeInvariant

\* Ending the process keeps everything well typed.
LEMMA AbortType ==
    ASSUME TypeInvariant, NEW reason \in FatalReasons, Abort(reason)
    PROVE  NetworkTypeOK' /\ MasterTypeOK' /\ PhaseInvariant'
  <1> USE DEF TypeInvariant, TypeOK, Abort, ProcessEnds, startVars, countVars
  <1>1. NetworkTypeOK'
    <2>1. link' \in [Controllers -> LinkStates]
      BY LinksTyped DEF NetworkTypeOK
    <2>2. acceptorOpen' \in BOOLEAN
      OBVIOUS
    <2>3. backlog' \in Seq(Controllers)
      OBVIOUS
    <2>4. /\ toMaster' \in [Controllers -> Seq(ToMasterMessages)]
          /\ toController' \in [Controllers -> Seq(ToControllerMessages)]
      BY DEF NetworkTypeOK
    <2>5. QED
      BY <2>1, <2>2, <2>3, <2>4 DEF NetworkTypeOK
  <1>2. MasterTypeOK'
    BY DEF MasterTypeOK, Phases
  <1>3. PhaseInvariant'
    BY DEF PhaseInvariant, Collecting
  <1>4. QED
    BY <1>1, <1>2, <1>3

LEMMA HandleAcceptType ==
    ASSUME TypeInvariant, HandleAccept
    PROVE  NetworkTypeOK' /\ MasterTypeOK' /\ PhaseInvariant'
  <1> USE NodesNat DEF TypeInvariant, TypeOK, countVars
  <1> DEFINE p == Head(backlog)
             last == Len(controllers) + 1 = Nodes
             dropped == {Tail(backlog)[k] : k \in 1 .. Len(Tail(backlog))}
             links == IF last THEN CloseAll(dropped) ELSE link
  <1>1. /\ backlog \in Seq(Controllers) /\ backlog # <<>>
        /\ p \in Controllers /\ Tail(backlog) \in Seq(Controllers)
    BY DEF HandleAccept, NetworkTypeOK
  <1>2. links \in [Controllers -> LinkStates]
    BY LinksTyped DEF NetworkTypeOK
  <1>3. WriteCompletes(p, links)
    BY DEF HandleAccept
  <1>4. link' \in [Controllers -> LinkStates] /\ writeFailed' \in BOOLEAN
    <2>1. CASE link' = links /\ UNCHANGED writeFailed
      BY <1>2, <2>1 DEF MasterTypeOK
    <2>2. CASE link' = [links EXCEPT ![p] = "reset"] /\ writeFailed' = TRUE
      BY <1>2, <2>2 DEF LinkStates
    <2>3. QED
      BY <1>3, <2>1, <2>2 DEF WriteCompletes
  <1>5. toController' \in [Controllers -> Seq(ToControllerMessages)]
    <2>1. AcceptMessages \in Seq(ToControllerMessages)
      BY MessagesTyped DEF AcceptMessages
    <2>2. toController[p] \o AcceptMessages \in Seq(ToControllerMessages)
      BY <1>1, <2>1 DEF NetworkTypeOK
    <2>3. QED
      BY <1>1, <2>2 DEF HandleAccept, NetworkTypeOK
  <1>6. NetworkTypeOK'
    BY <1>1, <1>4, <1>5 DEF HandleAccept, NetworkTypeOK
  <1>7. MasterTypeOK'
    BY <1>1, <1>4 DEF HandleAccept, MasterTypeOK, Phases
  <1>8. PhaseInvariant'
    <2>1. Len(controllers') = Len(controllers) + 1
      BY <1>1 DEF HandleAccept, MasterTypeOK
    <2>2. /\ phase = "accepting"
          /\ phase' = IF last THEN "starting" ELSE phase
          /\ UNCHANGED <<startIndex, nodesPerHost, finishedControllers,
                         failedControllers>>
      BY DEF HandleAccept
    <2>3. CASE last
      BY <2>1, <2>2, <2>3 DEF MasterTypeOK, PhaseInvariant, Collecting
    <2>4. CASE ~last
      <3>1. Len(controllers) \in Nat /\ Len(controllers) + 1 < Nodes
        BY <2>2, <2>4 DEF MasterTypeOK, PhaseInvariant
      <3>2. QED
        BY <2>1, <2>2, <2>4, <3>1 DEF MasterTypeOK, PhaseInvariant, Collecting
    <2>5. QED
      BY <2>3, <2>4
  <1>9. QED
    BY <1>6, <1>7, <1>8

LEMMA SendStartMessageType ==
    ASSUME TypeInvariant, SendStartMessage
    PROVE  NetworkTypeOK' /\ MasterTypeOK' /\ PhaseInvariant'
  <1> USE NodesNat DEF TypeInvariant, TypeOK, countVars
  <1> DEFINE p == controllers[startIndex]
             entry == controllers[1]
             count == nodesPerHost[HostOf[p]] + 1
             host == IF startIndex = 1 THEN NoHost ELSE HostOf[entry]
  <1>1. /\ p \in Controllers /\ entry \in Controllers
        /\ startIndex \in 1 .. Nodes
    BY DEF SendStartMessage, MasterTypeOK, PhaseInvariant
  <1>2. HostOf[p] \in Hosts /\ host \in Hosts \cup {NoHost}
    <2>1. HostOf[p] \in Hosts /\ HostOf[entry] \in Hosts
      BY <1>1, HostTyped
    <2>2. QED
      BY <2>1
  <1>3. /\ toController' = [toController EXCEPT ![p] =
                Append(@, Start(host, 0, NodePortOffset(count)))]
        /\ nodesPerHost' = [nodesPerHost EXCEPT ![HostOf[p]] = count]
        /\ reading' = [reading EXCEPT ![p] = "pending"]
        /\ WriteCompletes(p, link)
    BY DEF SendStartMessage
  <1>4. count \in 1 .. startIndex
    <2>1. \A h \in Hosts : nodesPerHost[h] \in Nat /\ nodesPerHost[h] < startIndex
      <3>1. nodesPerHost \in [Hosts -> 0 .. Nodes]
        BY DEF MasterTypeOK
      <3>2. \A h \in Hosts : nodesPerHost[h] < startIndex
        BY DEF PhaseInvariant
      <3>3. \A h \in Hosts : nodesPerHost[h] \in 0 .. Nodes
        BY <3>1
      <3>4. \A n \in 0 .. Nodes : n \in Nat
        OBVIOUS
      <3>5. QED
        BY <3>2, <3>3, <3>4
    <2>2. nodesPerHost[HostOf[p]] \in Nat /\ nodesPerHost[HostOf[p]] < startIndex
      BY <1>2, <2>1
    <2>3. QED
      BY <1>1, <2>2
  <1> HIDE DEF p, entry, count, host
  <1>5. Start(host, 0, NodePortOffset(count)) \in ToControllerMessages
    <2>1. NodePortOffset(count) \in PortOffsets
      BY <1>1, <1>4, PortOffsetTyped
    <2>2. QED
      BY <1>2, <2>1, MessagesTyped DEF ToControllerMessages
  <1>6. link' \in [Controllers -> LinkStates] /\ writeFailed' \in BOOLEAN
    <2>1. CASE link' = link /\ UNCHANGED writeFailed
      BY <2>1 DEF MasterTypeOK, NetworkTypeOK
    <2>2. CASE link' = [link EXCEPT ![p] = "reset"] /\ writeFailed' = TRUE
      BY <2>2 DEF LinkStates, NetworkTypeOK
    <2>3. QED
      BY <1>3, <2>1, <2>2 DEF WriteCompletes
  <1>7. NetworkTypeOK'
    <2>1. toController' \in [Controllers -> Seq(ToControllerMessages)]
      BY <1>1, <1>3, <1>5 DEF NetworkTypeOK
    <2>2. QED
      BY <1>6, <2>1 DEF SendStartMessage, NetworkTypeOK
  <1>8. /\ nodesPerHost' \in [Hosts -> 0 .. Nodes]
        /\ \A h \in Hosts : nodesPerHost'[h] < startIndex + 1
    <2>1. /\ nodesPerHost \in [Hosts -> 0 .. Nodes]
          /\ \A h \in Hosts : nodesPerHost[h] < startIndex
      BY DEF MasterTypeOK, PhaseInvariant
    <2>2. count \in 0 .. Nodes /\ count < startIndex + 1
      BY <1>1, <1>4
    <2>3. \A h \in Hosts : nodesPerHost[h] < startIndex + 1
      <3>1. \A m \in 0 .. Nodes : m < startIndex => m < startIndex + 1
        BY <1>1
      <3>2. QED
        BY <2>1, <3>1
    <2>4. /\ nodesPerHost' \in [Hosts -> 0 .. Nodes]
          /\ \A h \in Hosts :
                nodesPerHost'[h] = IF h = HostOf[p] THEN count
                                                    ELSE nodesPerHost[h]
      BY <1>2, <1>3, <2>1, <2>2
    <2>5. QED
      BY <2>2, <2>3, <2>4
  <1>9. /\ startIndex' = startIndex + 1
        /\ phase = "starting"
        /\ phase' = IF startIndex = Nodes THEN "startSent" ELSE phase
    BY DEF SendStartMessage
  <1>10. MasterTypeOK'
    <2>1. startIndex' \in 1 .. Nodes + 1 /\ phase' \in Phases
      BY <1>1, <1>9 DEF Phases
    <2>2. reading' \in [Controllers ->
                           {"none", "pending", "finished", "failed"}]
      BY <1>3 DEF MasterTypeOK
    <2>3. QED
      BY <1>6, <1>8, <2>1, <2>2 DEF SendStartMessage, MasterTypeOK
  <1>11. PhaseInvariant'
    <2>1. UNCHANGED <<controllers, finishedControllers, failedControllers>>
      BY DEF SendStartMessage
    <2>2. QED
      BY <1>1, <1>8, <1>9, <2>1 DEF PhaseInvariant, Collecting
  <1>12. QED
    BY <1>7, <1>10, <1>11

LEMMA HandleMessageType ==
    ASSUME TypeInvariant, NEW p \in Controllers, HandleMessage(p)
    PROVE  NetworkTypeOK' /\ MasterTypeOK' /\ PhaseInvariant'
  <1> USE NodesNat DEF TypeInvariant, TypeOK, startVars, countVars
  <1> DEFINE message == Head(toMaster[p])
  <1>1. message \in ToMasterMessages
    BY DEF HandleMessage, NetworkTypeOK
  <1>2. CASE HandleReportMessage(p, message) /\ message.opcode = "Report"
    <2>1. message.type \in ReportTypeSet
      BY <1>1, <1>2, ReportTyped
    <2>2. NetworkTypeOK'
      BY <1>2 DEF HandleMessage, HandleReportMessage, NetworkTypeOK
    <2>3. MasterTypeOK'
      BY <1>2, <2>1 DEF HandleReportMessage, MasterTypeOK
    <2>4. PhaseInvariant'
      BY <1>2 DEF HandleReportMessage, PhaseInvariant, Collecting
    <2>5. QED
      BY <2>2, <2>3, <2>4
  <1>3. CASE HandleFinishMessage(p)
    <2>1. NetworkTypeOK'
      BY <1>3 DEF HandleMessage, HandleFinishMessage, NetworkTypeOK
    <2>2. finishedControllers' \in 0 .. Nodes /\ phase' \in Phases
      BY <1>3 DEF HandleMessage, HandleFinishMessage, ControllerFinished,
                  MasterTypeOK, PhaseInvariant, Collecting, Phases
    <2>3. MasterTypeOK'
      BY <1>3, <2>2 DEF HandleFinishMessage, MasterTypeOK
    <2>4. PhaseInvariant'
      BY <1>3 DEF HandleMessage, HandleFinishMessage, ControllerFinished,
                  MasterTypeOK, PhaseInvariant, Collecting
    <2>5. QED
      BY <2>1, <2>3, <2>4
  <1>4. CASE Abort("opcode")
    BY <1>4, AbortType DEF FatalReasons
  <1>5. QED
    BY <1>2, <1>3, <1>4 DEF HandleMessage

LEMMA HandleDisconnectionType ==
    ASSUME TypeInvariant, NEW p \in Controllers, HandleDisconnection(p)
    PROVE  NetworkTypeOK' /\ MasterTypeOK' /\ PhaseInvariant'
  <1>1. /\ finishedControllers \in 0 .. Nodes /\ failedControllers \in 0 .. Nodes
        /\ finishedControllers < Nodes
        /\ failedControllers <= finishedControllers
    BY DEF TypeInvariant, TypeOK, MasterTypeOK, PhaseInvariant, Collecting,
           HandleDisconnection
  <1>2. /\ finishedControllers' = finishedControllers + 1
        /\ failedControllers' = failedControllers + 1
        /\ phase' \in {"running", "stopped"}
    BY DEF HandleDisconnection, ControllerFinished
  <1>3. /\ finishedControllers' \in 0 .. Nodes /\ failedControllers' \in 0 .. Nodes
        /\ phase' \in Phases
    BY <1>1, <1>2, NodesNat DEF Phases
  <1>4. NetworkTypeOK'
    BY DEF TypeInvariant, TypeOK, HandleDisconnection, NetworkTypeOK,
           networkVars
  <1>5. MasterTypeOK'
    BY <1>3, NodesNat DEF TypeInvariant, TypeOK, startVars,
                          HandleDisconnection, MasterTypeOK
  <1>6. PhaseInvariant'
    <2>1. /\ UNCHANGED <<controllers, startIndex, nodesPerHost>>
          /\ phase = "running"
      BY DEF HandleDisconnection, startVars
    <2>2. Collecting' => finishedControllers' < Nodes
      <3>1. phase' = "running" => finishedControllers + 1 # Nodes
        BY DEF HandleDisconnection, ControllerFinished
      <3>2. Collecting' => phase' = "running"
        BY <1>2 DEF Collecting
      <3>3. QED
        BY <1>1, <1>2, <3>1, <3>2, NodesNat
    <2>3. failedControllers' <= finishedControllers'
      BY <1>1, <1>2
    <2>4. QED
      BY <1>2, <2>1, <2>2, <2>3 DEF TypeInvariant, PhaseInvariant
  <1>7. QED
    BY <1>4, <1>5, <1>6

LEMMA PublishResultsType ==
    ASSUME TypeInvariant, PublishResults
    PROVE  NetworkTypeOK' /\ MasterTypeOK' /\ PhaseInvariant'
  <1> USE NodesNat DEF TypeInvariant, TypeOK, startVars, countVars,
                       PublishResults, ProcessEnds
  <1>1. NetworkTypeOK'
    <2>1. link' \in [Controllers -> LinkStates]
      BY LinksTyped DEF NetworkTypeOK
    <2>2. acceptorOpen' \in BOOLEAN
      OBVIOUS
    <2>3. backlog' \in Seq(Controllers)
      OBVIOUS
    <2>4. /\ toMaster' \in [Controllers -> Seq(ToMasterMessages)]
          /\ toController' \in [Controllers -> Seq(ToControllerMessages)]
      BY DEF NetworkTypeOK
    <2>5. QED
      BY <2>1, <2>2, <2>3, <2>4 DEF NetworkTypeOK
  <1>2. nodesStatus' \in [finished : 0 .. Nodes, failed : 0 .. Nodes,
                          unfinished : 0 .. Nodes]
    BY DEF StatusValue, MasterTypeOK, PhaseInvariant
  <1>3. MasterTypeOK'
    BY <1>2 DEF MasterTypeOK, Phases
  <1>4. PhaseInvariant'
    BY DEF PhaseInvariant, Collecting
  <1>5. QED
    BY <1>1, <1>3, <1>4

\* Every step of the master keeps the type invariant.
LEMMA MasterType ==
    ASSUME TypeInvariant, MasterAction
    PROVE  TypeInvariant'
  <1>1. NetworkTypeOK' /\ MasterTypeOK' /\ PhaseInvariant'
    <2> USE DEF FatalReasons
    <2>1. CASE AcceptError
      BY <2>1, AbortType DEF AcceptError
    <2>2. CASE HandleAccept
      BY <2>2, HandleAcceptType
    <2>3. CASE SendStartMessage
      BY <2>3, SendStartMessageType
    <2>4. CASE StartEndpointLost
      BY <2>4, AbortType DEF StartEndpointLost
    <2>5. CASE ArmWorkloadTimer
      <3> USE <2>5, TimesAssumption
          DEF ArmWorkloadTimer, TypeInvariant, TypeOK, startVars, countVars
      <3>1. NetworkTypeOK'
        BY DEF NetworkTypeOK, networkVars
      <3>2. WorkloadTimeout \in 0 .. WorkloadTimeout
        BY DEF WorkloadTimeout
      <3>3. MasterTypeOK'
        BY <3>2 DEF MasterTypeOK, Phases
      <3>4. QED
        BY <3>1, <3>3 DEF PhaseInvariant, Collecting
    <2>6. CASE \E p \in Controllers : HandleMessage(p)
      BY <2>6, HandleMessageType
    <2>7. CASE \E p \in Controllers : HandleDisconnection(p)
      BY <2>7, HandleDisconnectionType
    <2>8. CASE \E p \in Controllers : HandleReadOnReset(p)
      BY <2>8, AbortType DEF HandleReadOnReset
    <2>9. CASE HandleWriteError
      BY <2>9, AbortType DEF HandleWriteError
    <2>10. CASE HandleWorkloadTimeout
      <3> USE <2>10
          DEF HandleWorkloadTimeout, TypeInvariant, TypeOK, startVars, countVars
      <3>1. NetworkTypeOK'
        BY DEF NetworkTypeOK, networkVars
      <3>2. MasterTypeOK'
        BY DEF MasterTypeOK, Phases
      <3>3. QED
        BY <3>1, <3>2 DEF PhaseInvariant, Collecting
    <2>11. CASE PublishResults
      BY <2>11, PublishResultsType
    <2>12. CASE ResultsError
      BY <2>12, AbortType DEF ResultsError
    <2>13. QED
      BY <2>1, <2>2, <2>3, <2>4, <2>5, <2>6, <2>7, <2>8, <2>9, <2>10, <2>11,
         <2>12 DEF MasterAction, MasterNext
  <1>2. ControllerTypeOK' /\ slack' \in 0 .. StartSlack
    BY DEF MasterAction, TypeInvariant, TypeOK, ControllerTypeOK,
           controllerVars
  <1>3. QED
    BY <1>1, <1>2 DEF TypeInvariant, TypeOK

\* Ending a controller process keeps everything well typed.
LEMMA EndProcessType ==
    ASSUME TypeInvariant, NEW p \in Controllers, NEW how \in Ended,
           EndProcess(p, how)
    PROVE  /\ link' \in [Controllers -> LinkStates]
           /\ process' \in [Controllers -> ProcessStates]
           /\ elapsed' \in [Controllers -> 0 .. KillTimeout]
  <1> USE TimesAssumption, GraceAssumption
      DEF TypeInvariant, TypeOK, EndProcess
  <1>1. link' \in [Controllers -> LinkStates]
    BY LinksTyped DEF NetworkTypeOK
  <1>2. process' \in [Controllers -> ProcessStates]
    BY DEF ControllerTypeOK, ProcessStates
  <1>3. 0 \in 0 .. KillTimeout
    BY DEF KillTimeout
  <1>4. elapsed' \in [Controllers -> 0 .. KillTimeout]
    BY <1>3 DEF ControllerTypeOK
  <1>5. QED
    BY <1>1, <1>2, <1>4

LEMMA GetNextMessageType ==
    ASSUME TypeInvariant, NEW p \in Controllers, NEW opcode,
           NEW next \in ProcessStates, GetNextMessage(p, opcode, next)
    PROVE  /\ NetworkTypeOK'
           /\ process' \in [Controllers -> ProcessStates]
           /\ elapsed' \in [Controllers -> 0 .. KillTimeout]
           /\ Head(toController[p]) \in ToControllerMessages
  <1> USE DEF TypeInvariant, TypeOK
  <1>1. /\ toController' \in [Controllers -> Seq(ToControllerMessages)]
        /\ Head(toController[p]) \in ToControllerMessages
    BY DEF GetNextMessage, NetworkTypeOK
  <1>2. /\ link' \in [Controllers -> LinkStates]
        /\ process' \in [Controllers -> ProcessStates]
        /\ elapsed' \in [Controllers -> 0 .. KillTimeout]
    <2>1. CASE EndProcess(p, "error")
      BY <2>1, EndProcessType DEF Ended
    <2>2. CASE /\ process' = [process EXCEPT ![p] = next]
               /\ UNCHANGED <<elapsed, link>>
      BY <2>2 DEF ControllerTypeOK, NetworkTypeOK
    <2>3. QED
      BY <2>1, <2>2 DEF GetNextMessage
  <1>3. QED
    BY <1>1, <1>2 DEF GetNextMessage, NetworkTypeOK

LEMMA WriteType ==
    ASSUME TypeInvariant, NEW p \in Controllers,
           NEW message \in ToMasterMessages, NEW next \in ProcessStates,
           Write(p, message, next)
    PROVE  /\ link' \in [Controllers -> LinkStates]
           /\ toMaster' \in [Controllers -> Seq(ToMasterMessages)]
           /\ process' \in [Controllers -> ProcessStates]
           /\ elapsed' \in [Controllers -> 0 .. KillTimeout]
  <1> USE DEF TypeInvariant, TypeOK
  <1>1. CASE EndProcess(p, "error") /\ UNCHANGED toMaster
    BY <1>1, EndProcessType DEF Ended, NetworkTypeOK
  <1>2. CASE /\ process' = [process EXCEPT ![p] = next]
             /\ toMaster' = IF link[p] = "closed" THEN toMaster
                            ELSE [toMaster EXCEPT ![p] = Append(@, message)]
             /\ UNCHANGED <<elapsed, link>>
    BY <1>2 DEF ControllerTypeOK, NetworkTypeOK
  <1>3. QED
    BY <1>1, <1>2 DEF Write

\* Every step of a controller keeps the type invariant.
LEMMA ControllerType ==
    ASSUME TypeInvariant, NEW p \in Controllers, ControllerAction(p)
    PROVE  TypeInvariant'
  <1> USE DEF ProcessStates, Reading, Threaded, Ended
  <1>1. NetworkTypeOK' /\ ControllerTypeOK'
    <2>1. ASSUME NEW how \in Ended, EndProcess(p, how),
                 UNCHANGED <<startMessage, reportsSent, acceptorOpen, backlog,
                             toController, toMaster>>
          PROVE  NetworkTypeOK' /\ ControllerTypeOK'
      BY <2>1, EndProcessType
      DEF TypeInvariant, TypeOK, NetworkTypeOK, ControllerTypeOK
    <2>2. CASE Connect(p)
      <3>1. CASE acceptorOpen
        <4>1. /\ process' = [process EXCEPT ![p] = "getDhtType"]
              /\ link' = [link EXCEPT ![p] = "open"]
              /\ backlog' = Append(backlog, p)
              /\ UNCHANGED <<elapsed, startMessage, reportsSent, acceptorOpen,
                             toController, toMaster>>
          BY <2>2, <3>1 DEF Connect
        <4>2. backlog' \in Seq(Controllers)
          BY <4>1 DEF TypeInvariant, TypeOK, NetworkTypeOK
        <4>3. link' \in [Controllers -> LinkStates]
          BY <4>1 DEF TypeInvariant, TypeOK, NetworkTypeOK, LinkStates
        <4>4. ControllerTypeOK'
          BY <4>1 DEF TypeInvariant, TypeOK, ControllerTypeOK
        <4>5. QED
          BY <4>1, <4>2, <4>3, <4>4 DEF TypeInvariant, TypeOK, NetworkTypeOK
      <3>2. CASE ~acceptorOpen
        BY <2>1, <2>2, <3>2 DEF Connect
      <3>3. QED
        BY <3>1, <3>2
    <2>3. CASE GetDhtType(p)
      BY <2>3, GetNextMessageType
      DEF GetDhtType, GetNextMessage, TypeInvariant, TypeOK, ControllerTypeOK
    <2>4. CASE GetProfile(p)
      BY <2>4, GetNextMessageType
      DEF GetProfile, GetNextMessage, TypeInvariant, TypeOK, ControllerTypeOK
    <2>5. CASE WaitForStartMessage(p)
      <3>1. GetNextMessage(p, "Start", "start")
        BY <2>5 DEF WaitForStartMessage
      <3>2. startMessage' \in [Controllers -> StartMessages \cup {NotStarted}]
        BY <2>5, <3>1, GetNextMessageType, StartTyped
        DEF WaitForStartMessage, TypeInvariant, TypeOK, ControllerTypeOK
      <3>3. QED
        BY <3>1, <3>2, GetNextMessageType
        DEF GetNextMessage, TypeInvariant, TypeOK, ControllerTypeOK
    <2>6. CASE ReadError(p)
      BY <2>1, <2>6 DEF ReadError
    <2>7. CASE ReportResult(p)
      <3> DEFINE k == reportsSent[p] + 1
      <3>1. k \in 1 .. Len(ReportTypes) /\ Len(ReportTypes) \in Nat
        BY <2>7, ReportTypesAssumption
        DEF ReportResult, TypeInvariant, TypeOK, ControllerTypeOK
      <3>2. /\ Write(p, Report(ReportTypes[k]),
                     IF k = Len(ReportTypes) THEN "finish" ELSE "report")
            /\ reportsSent' = [reportsSent EXCEPT ![p] = k]
        BY <2>7 DEF ReportResult
      <3> HIDE DEF k
      <3>3. Report(ReportTypes[k]) \in ToMasterMessages
        BY <3>1, MessagesTyped
      <3>4. reportsSent' \in [Controllers -> 0 .. Len(ReportTypes)]
        BY <3>1, <3>2 DEF TypeInvariant, TypeOK, ControllerTypeOK
      <3>5. QED
        BY <2>7, <3>2, <3>3, <3>4, WriteType
        DEF ReportResult, TypeInvariant, TypeOK, ControllerTypeOK,
            NetworkTypeOK
    <2>8. CASE SendFinishMessage(p)
      BY <2>8, MessagesTyped, WriteType
      DEF SendFinishMessage, TypeInvariant, TypeOK, ControllerTypeOK,
          NetworkTypeOK
    <2>9. CASE Destroy(p)
      BY <2>1, <2>9 DEF Destroy
    <2>10. CASE TimeoutThread(p)
      BY <2>1, <2>10 DEF TimeoutThread
    <2>11. CASE WorkloadDone(p)
      BY <2>11 DEF WorkloadDone, networkVars, TypeInvariant, TypeOK,
                   ControllerTypeOK, NetworkTypeOK
    <2>12. CASE Die(p)
      BY <2>1, <2>12 DEF Die
    <2>13. CASE Vanish(p)
      <3>1. 0 \in 0 .. KillTimeout
        BY TimesAssumption, GraceAssumption DEF KillTimeout
      <3>2. QED
        BY <2>13, <3>1 DEF Vanish, networkVars, TypeInvariant, TypeOK,
                           ControllerTypeOK, NetworkTypeOK
    <2>14. QED
      BY <2>2, <2>3, <2>4, <2>5, <2>6, <2>7, <2>8, <2>9, <2>10, <2>11, <2>12,
         <2>13
      DEF ControllerAction, ControllerNext, ControllerStep
  <1>2. MasterTypeOK' /\ PhaseInvariant' /\ slack' \in 0 .. StartSlack
    BY DEF ControllerAction, masterVars, startVars, countVars, TypeInvariant,
           TypeOK, MasterTypeOK, PhaseInvariant, Collecting
  <1>3. QED
    BY <1>1, <1>2 DEF TypeInvariant, TypeOK

\* The clock keeps the type invariant: no timer runs past its end.
LEMMA TickType ==
    ASSUME TypeInvariant, Tick
    PROVE  TypeInvariant'
  <1> USE DEF TypeInvariant, TypeOK, Tick
  <1>1. NetworkTypeOK'
    BY DEF NetworkTypeOK, networkVars
  <1>2. workloadTimer' \in 0 .. WorkloadTimeout
    BY TimesAssumption DEF MasterTick, MasterTypeOK, WorkloadTimeout
  <1>3. MasterTypeOK'
    BY <1>2 DEF MasterTypeOK, startVars, countVars
  <1>4. elapsed' \in [Controllers -> 0 .. KillTimeout]
    <2>1. KillTimeout \in Nat
      BY TimesAssumption, GraceAssumption DEF KillTimeout
    <2>2. QED
      BY <2>1 DEF ControllerTick, ControllerTypeOK
  <1>5. ControllerTypeOK'
    BY <1>4 DEF ControllerTypeOK
  <1>6. slack' \in 0 .. StartSlack
    BY StartSlackAssumption
  <1>7. PhaseInvariant'
    BY DEF PhaseInvariant, Collecting, startVars, countVars
  <1>8. QED
    BY <1>1, <1>3, <1>5, <1>6, <1>7

LEMMA StepType ==
    ASSUME TypeInvariant, [Next]_vars
    PROVE  TypeInvariant'
  <1>1. CASE MasterAction
    BY <1>1, MasterType
  <1>2. CASE \E p \in Controllers : ControllerAction(p)
    BY <1>2, ControllerType
  <1>3. CASE \E p \in Controllers : NetworkAction(p)
    <2>1. NetworkTypeOK'
      BY <1>3 DEF NetworkAction, RstArrives, TypeInvariant, TypeOK,
                  NetworkTypeOK, LinkStates
    <2>2. QED
      BY <1>3, <2>1
      DEF NetworkAction, masterVars, controllerVars, startVars, countVars,
          TypeInvariant, TypeOK, MasterTypeOK, ControllerTypeOK,
          PhaseInvariant, Collecting
  <1>4. CASE Tick
    BY <1>4, TickType
  <1>5. CASE UNCHANGED vars
    BY <1>5
    DEF vars, masterVars, controllerVars, networkVars, startVars, countVars,
        TypeInvariant, TypeOK, NetworkTypeOK, MasterTypeOK, ControllerTypeOK,
        PhaseInvariant, Collecting
  <1>6. QED
    BY <1>1, <1>2, <1>3, <1>4, <1>5 DEF Next, Terminated

(***************************************************************************)
(* The type invariant and the progress of accepting, starting and counting *)
(* in each phase of the master hold together, and only together are they   *)
(* inductive.                                                              *)
(***************************************************************************)
THEOREM TypeAndPhase == Spec => []TypeInvariant
  <1>1. Init => TypeInvariant
    BY InitType
  <1>2. TypeInvariant /\ [Next]_vars => TypeInvariant'
    BY StepType
  <1>3. QED
    BY <1>1, <1>2, PTL DEF Spec

(***************************************************************************)
(* The session is type correct: every variable of the master, of the       *)
(* controllers and of the connections keeps its type, array indices and    *)
(* counters included.                                                      *)
(***************************************************************************)
THEOREM TypeCorrect == Spec => []TypeOK
  <1>1. TypeInvariant => TypeOK
    BY DEF TypeInvariant
  <1>2. QED
    BY <1>1, TypeAndPhase, PTL

(***************************************************************************)
(* controllerFinished() never lets the io_service run on once Nodes        *)
(* controllers have been counted, and accepting and sendStartMessages      *)
(* never go past the last node.                                            *)
(***************************************************************************)
THEOREM PhaseCorrect == Spec => []PhaseInvariant
  <1>1. TypeInvariant => PhaseInvariant
    BY DEF TypeInvariant
  <1>2. QED
    BY <1>1, TypeAndPhase, PTL

-----------------------------------------------------------------------------
(***************************************************************************)
(* The counters of the master are the numbers of controllers with each     *)
(* verdict, and the session implements NodesStatus.                        *)
(***************************************************************************)

\* What the counts rest on: before run() arms its timer nobody has a verdict,
\* so sendStartMessages overwrites none.
CountInvariant ==
    /\ EveryControllerCountedOnce
    /\ \A p \in Controllers : reading[p] # "none" => p \in Accepted
    /\ phase \in {"accepting", "starting", "startSent"} =>
          \A p \in Controllers : reading[p] \in {"none", "pending"}

-----------------------------------------------------------------------------
\* A controller that gets verdict v, and had none, is counted once more.
LEMMA VerdictAdded ==
    ASSUME NEW p \in Controllers, NEW v \in {"finished", "failed"},
           reading \in [Controllers ->
                           {"none", "pending", "finished", "failed"}],
           reading[p] = "pending",
           reading' = [reading EXCEPT ![p] = v]
    PROVE  /\ Cardinality(Verdict("finished") \cup Verdict("failed"))' =
                Cardinality(Verdict("finished") \cup Verdict("failed")) + 1
           /\ Cardinality(Verdict(v))' = Cardinality(Verdict(v)) + 1
           /\ \A w \in {"finished", "failed"} : w # v =>
                 Verdict(w)' = Verdict(w)
  <1> DEFINE S == Verdict("finished") \cup Verdict("failed")
  <1>1. IsFiniteSet(Controllers)
    BY EnoughControllers
  <1>2. S \subseteq Controllers /\ Verdict(v) \subseteq Controllers
    BY DEF Verdict
  <1>3. IsFiniteSet(S) /\ IsFiniteSet(Verdict(v))
    BY <1>1, <1>2, FS_Subset
  <1>4. p \notin S /\ p \notin Verdict(v)
    BY DEF Verdict
  <1>5. S' = S \cup {p} /\ Verdict(v)' = Verdict(v) \cup {p}
    BY DEF Verdict
  <1>6. \A w \in {"finished", "failed"} : w # v => Verdict(w)' = Verdict(w)
    BY DEF Verdict
  <1>7. /\ Cardinality(S \cup {p}) = Cardinality(S) + 1
        /\ Cardinality(Verdict(v) \cup {p}) = Cardinality(Verdict(v)) + 1
    BY <1>3, <1>4, FS_AddElement
  <1>8. QED
    BY <1>5, <1>6, <1>7

\* A step that leaves verdicts, counters and accepted controllers alone, and
\* does not go back to an earlier phase, keeps the counts.
LEMMA CountUnchanged ==
    ASSUME CountInvariant, UNCHANGED <<reading, countVars, controllers>>,
           phase' \in {"accepting", "starting", "startSent"} =>
              phase \in {"accepting", "starting", "startSent"}
    PROVE  CountInvariant'
  BY DEF CountInvariant, EveryControllerCountedOnce, Verdict, Accepted,
         countVars

LEMMA AbortCount ==
    ASSUME CountInvariant, NEW reason, Abort(reason)
    PROVE  CountInvariant'
  BY CountUnchanged DEF Abort, startVars

LEMMA HandleAcceptCount ==
    ASSUME TypeInvariant, CountInvariant, HandleAccept
    PROVE  CountInvariant'
  <1>1. UNCHANGED <<reading, countVars>> /\ phase = "accepting"
    BY DEF HandleAccept
  <1>2. Accepted \subseteq Accepted'
    <2>1. controllers \in Seq(Controllers) /\ Head(backlog) \in Controllers
      BY DEF HandleAccept, TypeInvariant, TypeOK, NetworkTypeOK, MasterTypeOK
    <2>2. controllers' = Append(controllers, Head(backlog))
      BY DEF HandleAccept
    <2>3. /\ Len(controllers') = Len(controllers) + 1
          /\ \A k \in 1 .. Len(controllers) : controllers'[k] = controllers[k]
      BY <2>1, <2>2
    <2>4. Len(controllers) \in Nat
      BY <2>1
    <2>5. QED
      BY <2>3, <2>4 DEF Accepted
  <1>3. Verdict("finished")' = Verdict("finished")
        /\ Verdict("failed")' = Verdict("failed")
    BY <1>1 DEF Verdict
  <1>4. QED
    BY <1>1, <1>2, <1>3
    DEF CountInvariant, EveryControllerCountedOnce, countVars

LEMMA SendStartMessageCount ==
    ASSUME TypeInvariant, CountInvariant, SendStartMessage
    PROVE  CountInvariant'
  <1> DEFINE p == controllers[startIndex]
  <1>1. p \in Controllers /\ p \in Accepted
    <2>1. startIndex \in 1 .. Len(controllers) /\ controllers \in Seq(Controllers)
      BY NodesNat DEF SendStartMessage, TypeInvariant, TypeOK, MasterTypeOK,
                      PhaseInvariant
    <2>2. QED
      BY <2>1 DEF Accepted
  <1>2. /\ reading' = [reading EXCEPT ![p] = "pending"]
        /\ UNCHANGED <<countVars, controllers>>
        /\ phase = "starting"
    BY DEF SendStartMessage
  <1>3. reading \in [Controllers -> {"none", "pending", "finished", "failed"}]
    BY DEF TypeInvariant, TypeOK, MasterTypeOK
  <1>4. \A q \in Controllers : reading[q] \in {"none", "pending"}
    BY <1>2 DEF CountInvariant
  <1> HIDE DEF p
  <1>5. \A q \in Controllers : reading'[q] \in {"none", "pending"}
    BY <1>1, <1>2, <1>3, <1>4
  <1>6. /\ Verdict("finished")' = Verdict("finished")
        /\ Verdict("failed")' = Verdict("failed")
    BY <1>4, <1>5 DEF Verdict
  <1>7. Accepted' = Accepted
    BY <1>2 DEF Accepted
  <1>8. \A q \in Controllers : reading'[q] # "none" => q \in Accepted
    BY <1>1, <1>2, <1>3 DEF CountInvariant
  <1>9. QED
    BY <1>2, <1>5, <1>6, <1>7, <1>8
    DEF CountInvariant, EveryControllerCountedOnce, countVars

\* A verdict given while running, and the counters that go with it.
LEMMA DecideCount ==
    ASSUME TypeInvariant, CountInvariant, NEW p \in Controllers,
           NEW v \in {"finished", "failed"},
           phase = "running", reading[p] = "pending",
           reading' = [reading EXCEPT ![p] = v],
           ControllerFinished,
           failedControllers' =
              IF v = "failed" THEN failedControllers + 1 ELSE failedControllers,
           UNCHANGED controllers
    PROVE  CountInvariant'
  <1>1. reading \in [Controllers -> {"none", "pending", "finished", "failed"}]
    BY DEF TypeInvariant, TypeOK, MasterTypeOK
  <1>2. /\ Cardinality(Verdict("finished") \cup Verdict("failed"))' =
             Cardinality(Verdict("finished") \cup Verdict("failed")) + 1
        /\ Cardinality(Verdict(v))' = Cardinality(Verdict(v)) + 1
        /\ \A w \in {"finished", "failed"} : w # v =>
              Verdict(w)' = Verdict(w)
    BY <1>1, VerdictAdded
  <1>3. finishedControllers' = finishedControllers + 1
    BY DEF ControllerFinished
  <1>4. failedControllers' = Cardinality(Verdict("failed"))'
    <2>1. CASE v = "failed"
      BY <1>2, <2>1 DEF CountInvariant, EveryControllerCountedOnce
    <2>2. CASE v = "finished"
      <3>1. Verdict("failed")' = Verdict("failed")
        BY <1>2, <2>2
      <3>2. failedControllers' = failedControllers
        BY <2>2
      <3>3. QED
        BY <3>1, <3>2 DEF CountInvariant, EveryControllerCountedOnce
    <2>3. QED
      BY <2>1, <2>2
  <1>5. Accepted' = Accepted
    BY DEF Accepted
  <1>6. \A q \in Controllers : reading'[q] # "none" => q \in Accepted
    BY <1>1 DEF CountInvariant
  <1>7. Verdict("finished")' \cup Verdict("failed")' \subseteq Accepted'
    BY <1>5, <1>6 DEF Verdict
  <1>8. phase' \in {"running", "stopped"}
    BY DEF ControllerFinished
  <1>9. QED
    BY <1>2, <1>3, <1>4, <1>5, <1>6, <1>7, <1>8
    DEF CountInvariant, EveryControllerCountedOnce

LEMMA HandleMessageCount ==
    ASSUME TypeInvariant, CountInvariant, NEW p \in Controllers,
           HandleMessage(p)
    PROVE  CountInvariant'
  <1>1. CASE HandleReportMessage(p, Head(toMaster[p]))
    BY <1>1, CountUnchanged DEF HandleReportMessage, startVars
  <1>2. CASE HandleFinishMessage(p)
    BY <1>2, DecideCount DEF HandleFinishMessage, HandleMessage, startVars
  <1>3. CASE Abort("opcode")
    BY <1>3, AbortCount
  <1>4. QED
    BY <1>1, <1>2, <1>3 DEF HandleMessage

LEMMA MasterCount ==
    ASSUME TypeInvariant, CountInvariant, MasterNext
    PROVE  CountInvariant'
  <1>1. CASE AcceptError
    BY <1>1, AbortCount DEF AcceptError
  <1>2. CASE HandleAccept
    BY <1>2, HandleAcceptCount
  <1>3. CASE SendStartMessage
    BY <1>3, SendStartMessageCount
  <1>4. CASE StartEndpointLost
    BY <1>4, AbortCount DEF StartEndpointLost
  <1>5. CASE ArmWorkloadTimer
    BY <1>5, CountUnchanged DEF ArmWorkloadTimer, startVars
  <1>6. CASE \E p \in Controllers : HandleMessage(p)
    BY <1>6, HandleMessageCount
  <1>7. CASE \E p \in Controllers : HandleDisconnection(p)
    BY <1>7, DecideCount DEF HandleDisconnection, startVars
  <1>8. CASE \E p \in Controllers : HandleReadOnReset(p)
    BY <1>8, AbortCount DEF HandleReadOnReset
  <1>9. CASE HandleWriteError
    BY <1>9, AbortCount DEF HandleWriteError
  <1>10. CASE HandleWorkloadTimeout
    BY <1>10, CountUnchanged DEF HandleWorkloadTimeout, startVars
  <1>11. CASE PublishResults
    BY <1>11, CountUnchanged DEF PublishResults, startVars
  <1>12. CASE ResultsError
    BY <1>12, AbortCount DEF ResultsError
  <1>13. QED
    BY <1>1, <1>2, <1>3, <1>4, <1>5, <1>6, <1>7, <1>8, <1>9, <1>10, <1>11,
       <1>12 DEF MasterNext

LEMMA InitCount == Init => CountInvariant
  <1> SUFFICES ASSUME Init PROVE CountInvariant
    OBVIOUS
  <1>1. reading = [p \in Controllers |-> "none"]
        /\ finishedControllers = 0 /\ failedControllers = 0
    BY DEF Init, MasterInit
  <1>2. Verdict("finished") = {} /\ Verdict("failed") = {}
    BY <1>1 DEF Verdict
  <1>3. Cardinality({}) = 0
    BY FS_EmptySet
  <1>4. QED
    BY <1>1, <1>2, <1>3 DEF CountInvariant, EveryControllerCountedOnce

LEMMA StepCount ==
    ASSUME TypeInvariant, CountInvariant, [Next]_vars
    PROVE  CountInvariant'
  <1>1. CASE MasterAction
    BY <1>1, MasterCount DEF MasterAction
  <1>2. CASE UNCHANGED <<phase, startVars, reading, countVars>>
    BY <1>2, CountUnchanged DEF startVars
  <1>3. QED
    BY <1>1, <1>2 DEF Next, ControllerAction, NetworkAction, Tick, Terminated,
                      vars, masterVars

(***************************************************************************)
(* For any number of controllers and any order of Finish messages, EOFs,   *)
(* resets and timeouts, controllerFinished and handleDisconnection count   *)
(* every accepted controller at most once.                                 *)
(***************************************************************************)
THEOREM CountedOnce == Spec => []EveryControllerCountedOnce
  <1>1. Init => CountInvariant
    BY InitCount
  <1>2. TypeInvariant /\ CountInvariant /\ [Next]_vars => CountInvariant'
    BY StepCount
  <1>3. CountInvariant => EveryControllerCountedOnce
    BY DEF CountInvariant
  <1>4. QED
    BY <1>1, <1>2, <1>3, TypeAndPhase, PTL DEF Spec

-----------------------------------------------------------------------------
(* The session implements NodesStatus *)

\* The abstract verdicts, and whether the abstract experiment is over.
Verdicts == [p \in Controllers |->
                IF reading[p] \in {"finished", "failed"} THEN reading[p]
                                                         ELSE "none"]
Over == phase \in {"reported", "aborted"}

LEMMA WithIsVerdict ==
    ASSUME NEW v \in {"finished", "failed"}
    PROVE  Status!With(v) = Verdict(v)
  BY DEF Status!With, Verdict

\* The published numbers are the numbers of verdicts.
LEMMA StatusCounts ==
    ASSUME CountInvariant
    PROVE  StatusValue =
             [finished |-> Cardinality(Verdict("finished")),
              failed |-> Cardinality(Verdict("failed")),
              unfinished |-> Nodes - Cardinality(Verdict("finished")
                                                 \cup Verdict("failed"))]
  <1> DEFINE F == Verdict("finished")
             G == Verdict("failed")
  <1>1. IsFiniteSet(F) /\ IsFiniteSet(G)
    <2>1. F \subseteq Controllers /\ G \subseteq Controllers
      BY DEF Verdict
    <2>2. QED
      BY <2>1, EnoughControllers, FS_Subset
  <1>2. F \cap G = {}
    BY DEF Verdict
  <1>3. Cardinality(F \cup G) =
            Cardinality(F) + Cardinality(G) - Cardinality(F \cap G)
    BY <1>1, FS_Union
  <1>4. Cardinality(F \cap G) = 0
    BY <1>2, FS_EmptySet
  <1>5. Cardinality(F) \in Nat /\ Cardinality(G) \in Nat
    BY <1>1, FS_CardinalityType
  <1>6. /\ failedControllers = Cardinality(G)
        /\ finishedControllers = Cardinality(F \cup G)
    BY DEF CountInvariant, EveryControllerCountedOnce
  <1> HIDE DEF F, G
  <1>7. finishedControllers - failedControllers = Cardinality(F)
    BY <1>3, <1>4, <1>5, <1>6
  <1>8. QED
    BY <1>6, <1>7 DEF StatusValue, F, G

\* Ending early is giving the experiment up.
LEMMA AbortGivesUp ==
    ASSUME NEW reason, Abort(reason), phase \notin {"reported", "aborted"}
    PROVE  Status!GiveUp
  <1>1. phase' = "aborted" /\ UNCHANGED <<reading, nodesStatus>>
    BY DEF Abort
  <1>2. QED
    BY <1>1 DEF Status!GiveUp

\* A verdict given while running is an abstract decision.
LEMMA FinishedDecides ==
    ASSUME TypeInvariant, CountInvariant, NEW p \in Controllers,
           NEW v \in {"finished", "failed"},
           phase = "running", reading[p] = "pending",
           reading' = [reading EXCEPT ![p] = v],
           ControllerFinished, UNCHANGED nodesStatus
    PROVE  Status!Decide(p, v)
  <1>1. reading \in [Controllers -> {"none", "pending", "finished", "failed"}]
    BY DEF TypeInvariant, TypeOK, MasterTypeOK
  <1>2. Cardinality(Status!With("finished") \cup Status!With("failed")) < Nodes
    <2>1. finishedControllers < Nodes
      BY DEF TypeInvariant, PhaseInvariant, Collecting
    <2>2. finishedControllers =
              Cardinality(Verdict("finished") \cup Verdict("failed"))
      BY DEF CountInvariant, EveryControllerCountedOnce
    <2>3. QED
      BY <2>1, <2>2, WithIsVerdict
  <1>3. Verdicts[p] = "none"
    BY DEF Verdicts
  <1>4. Verdicts' = [Verdicts EXCEPT ![p] = v]
    BY <1>1 DEF Verdicts
  <1>5. phase' \in {"running", "stopped"}
    BY DEF ControllerFinished
  <1>6. QED
    BY <1>2, <1>3, <1>4, <1>5 DEF Status!Decide, Verdicts

LEMMA MasterImplements ==
    ASSUME TypeInvariant, CountInvariant, MasterNext
    PROVE  Status!StatusNext \/ UNCHANGED <<Verdicts, nodesStatus, Over>>
  <1> USE DEF Status!StatusNext
  <1>1. CASE AcceptError
    BY <1>1, AbortGivesUp DEF AcceptError
  <1>2. CASE HandleAccept
    BY <1>2 DEF HandleAccept, Verdicts, Over
  <1>3. CASE SendStartMessage
    <2> DEFINE p == controllers[startIndex]
    <2>1. /\ phase = "starting" /\ phase' \in {"starting", "startSent"}
          /\ reading' = [reading EXCEPT ![p] = "pending"]
          /\ UNCHANGED nodesStatus
      BY <1>3 DEF SendStartMessage
    <2>2. /\ reading \in [Controllers ->
                             {"none", "pending", "finished", "failed"}]
          /\ \A q \in Controllers : reading[q] \in {"none", "pending"}
      BY <2>1 DEF TypeInvariant, TypeOK, MasterTypeOK, CountInvariant
    <2> HIDE DEF p
    <2>3. \A q \in Controllers : reading'[q] \in {"none", "pending"}
      BY <2>1, <2>2
    <2>4. Verdicts' = Verdicts
      BY <2>2, <2>3 DEF Verdicts
    <2>5. QED
      BY <2>1, <2>4 DEF Over
  <1>4. CASE StartEndpointLost
    BY <1>4, AbortGivesUp DEF StartEndpointLost
  <1>5. CASE ArmWorkloadTimer
    BY <1>5 DEF ArmWorkloadTimer, Verdicts, Over
  <1>6. CASE \E p \in Controllers : HandleMessage(p)
    <2> PICK p \in Controllers : HandleMessage(p)
      BY <1>6
    <2>1. CASE HandleReportMessage(p, Head(toMaster[p]))
      BY <2>1 DEF HandleReportMessage, Verdicts, Over
    <2>2. CASE HandleFinishMessage(p)
      <3>1. Status!Decide(p, "finished")
        BY <2>2, FinishedDecides DEF HandleFinishMessage, HandleMessage
      <3>2. QED
        BY <3>1
    <2>3. CASE Abort("opcode")
      BY <2>3, AbortGivesUp DEF HandleMessage
    <2>4. QED
      BY <2>1, <2>2, <2>3 DEF HandleMessage
  <1>7. CASE \E p \in Controllers : HandleDisconnection(p)
    <2> PICK p \in Controllers : HandleDisconnection(p)
      BY <1>7
    <2>1. Status!Decide(p, "failed")
      BY FinishedDecides DEF HandleDisconnection
    <2>2. QED
      BY <2>1
  <1>8. CASE \E p \in Controllers : HandleReadOnReset(p)
    BY <1>8, AbortGivesUp DEF HandleReadOnReset
  <1>9. CASE HandleWriteError
    BY <1>9, AbortGivesUp DEF HandleWriteError
  <1>10. CASE HandleWorkloadTimeout
    BY <1>10 DEF HandleWorkloadTimeout, Verdicts, Over
  <1>11. CASE PublishResults
    <2>1. /\ phase = "stopped" /\ phase' = "reported"
          /\ nodesStatus' = StatusValue
          /\ UNCHANGED reading
      BY <1>11 DEF PublishResults
    <2>2. Status!Publish
      BY <2>1, StatusCounts, WithIsVerdict DEF Status!Publish
    <2>3. QED
      BY <2>2
  <1>12. CASE ResultsError
    BY <1>12, AbortGivesUp DEF ResultsError
  <1>13. QED
    BY <1>1, <1>2, <1>3, <1>4, <1>5, <1>6, <1>7, <1>8, <1>9, <1>10, <1>11,
       <1>12 DEF MasterNext

(***************************************************************************)
(* The session implements NodesStatus for any number of controllers: a     *)
(* verdict is given once and never taken back, and pushNodesStatus         *)
(* publishes, from two counters, the number of nodes with each verdict.    *)
(***************************************************************************)
THEOREM SessionImplementsNodesStatus == Spec => ImplementsNodesStatus
  <1>1. Init => Status!StatusInit
    BY DEF Init, MasterInit, NoStatus, Status!StatusInit
  <1>2. TypeInvariant /\ CountInvariant /\ [Next]_vars
        => [Status!StatusNext]_(Status!statusVars)
    <2> SUFFICES ASSUME TypeInvariant, CountInvariant, [Next]_vars
                 PROVE  Status!StatusNext
                        \/ UNCHANGED <<Verdicts, nodesStatus, Over>>
      BY DEF Status!statusVars, Verdicts, Over
    <2>1. CASE MasterAction
      BY <2>1, MasterImplements DEF MasterAction
    <2>2. CASE UNCHANGED <<phase, reading, nodesStatus>>
      BY <2>2 DEF Verdicts, Over
    <2>3. QED
      BY <2>1, <2>2 DEF Next, ControllerAction, NetworkAction, Tick,
                        Terminated, vars, masterVars
  <1>3. Init => CountInvariant
    BY InitCount
  <1>4. TypeInvariant /\ CountInvariant /\ [Next]_vars => CountInvariant'
    BY StepCount
  <1>5. QED
    BY <1>1, <1>2, <1>3, <1>4, TypeAndPhase, PTL
    DEF Spec, ImplementsNodesStatus, Status!StatusSpec

-----------------------------------------------------------------------------
(***************************************************************************)
(* What the master hands out and what it collects: the start barrier, the  *)
(* entry point and the ports, the reports behind "finished", and the race  *)
(* of the two timeouts.                                                    *)
(***************************************************************************)

Members(s) == {s[k] : k \in 1 .. Len(s)}
Distinct(s) == \A i, j \in 1 .. Len(s) : s[i] = s[j] => i = j

\* Appending a new element adds it, and repeats none.
LEMMA AppendMembers ==
    ASSUME NEW S, NEW s \in Seq(S), NEW e \in S
    PROVE  /\ Members(Append(s, e)) = Members(s) \cup {e}
           /\ Distinct(s) /\ e \notin Members(s) => Distinct(Append(s, e))
  <1> DEFINE t == Append(s, e)
  <1>1. /\ Len(t) = Len(s) + 1 /\ Len(s) \in Nat
        /\ \A k \in 1 .. Len(s) : t[k] = s[k]
        /\ t[Len(s) + 1] = e
    OBVIOUS
  <1> HIDE DEF t
  <1>2. Members(t) = Members(s) \cup {e}
    <2>1. ASSUME NEW x \in Members(t)
          PROVE  x \in Members(s) \cup {e}
      <3>1. PICK k \in 1 .. Len(s) + 1 : x = t[k]
        BY <1>1, <2>1 DEF Members
      <3>2. CASE k \in 1 .. Len(s)
        BY <1>1, <3>1, <3>2 DEF Members
      <3>3. CASE k = Len(s) + 1
        BY <1>1, <3>1, <3>3
      <3>4. QED
        BY <1>1, <3>2, <3>3
    <2>2. ASSUME NEW x \in Members(s)
          PROVE  x \in Members(t)
      <3>1. PICK k \in 1 .. Len(s) : x = s[k]
        BY <2>2 DEF Members
      <3>2. k \in 1 .. Len(t) /\ x = t[k]
        BY <1>1, <3>1
      <3>3. QED
        BY <3>2 DEF Members
    <2>3. e \in Members(t)
      <3>1. Len(s) + 1 \in 1 .. Len(t)
        BY <1>1
      <3>2. QED
        BY <1>1, <3>1 DEF Members
    <2>4. QED
      BY <2>1, <2>2, <2>3
  <1>3. ASSUME Distinct(s), e \notin Members(s)
        PROVE  Distinct(t)
    <2>1. \A k \in 1 .. Len(s) : s[k] # e
      BY <1>3 DEF Members
    <2>2. QED
      BY <1>1, <1>3, <2>1 DEF Distinct
  <1>4. QED
    BY <1>2, <1>3 DEF t

\* The head of a sequence without repetition is not in its tail.
LEMMA TailMembers ==
    ASSUME NEW S, NEW s \in Seq(S), s # <<>>
    PROVE  /\ Members(s) = {Head(s)} \cup Members(Tail(s))
           /\ Head(s) \in S /\ Tail(s) \in Seq(S)
           /\ Distinct(s) => /\ Distinct(Tail(s))
                             /\ Head(s) \notin Members(Tail(s))
  <1> DEFINE t == Tail(s)
  <1>1. /\ Len(t) = Len(s) - 1 /\ Len(s) \in Nat \ {0}
        /\ \A k \in 1 .. Len(s) - 1 : t[k] = s[k + 1]
        /\ Head(s) = s[1]
        /\ Head(s) \in S /\ t \in Seq(S)
    OBVIOUS
  <1> HIDE DEF t
  <1>2. Members(s) = {Head(s)} \cup Members(t)
    <2>1. ASSUME NEW x \in Members(s)
          PROVE  x \in {Head(s)} \cup Members(t)
      <3>1. PICK k \in 1 .. Len(s) : x = s[k]
        BY <2>1 DEF Members
      <3>2. CASE k = 1
        BY <1>1, <3>1, <3>2
      <3>3. CASE k # 1
        <4>1. k - 1 \in 1 .. Len(t) /\ (k - 1) + 1 = k
          BY <1>1, <3>3
        <4>2. x = t[k - 1]
          BY <1>1, <3>1, <4>1
        <4>3. QED
          BY <4>1, <4>2 DEF Members
      <3>4. QED
        BY <3>2, <3>3
    <2>2. ASSUME NEW x \in Members(t)
          PROVE  x \in Members(s)
      <3>1. PICK k \in 1 .. Len(t) : x = t[k]
        BY <2>2 DEF Members
      <3>2. k + 1 \in 1 .. Len(s) /\ x = s[k + 1]
        BY <1>1, <3>1
      <3>3. QED
        BY <3>2 DEF Members
    <2>3. Head(s) \in Members(s)
      BY <1>1 DEF Members
    <2>4. QED
      BY <2>1, <2>2, <2>3
  <1>3. ASSUME Distinct(s)
        PROVE  Distinct(t) /\ Head(s) \notin Members(t)
    <2>1. \A i \in 1 .. Len(t) : t[i] = s[i + 1] /\ i + 1 \in 1 .. Len(s)
      BY <1>1
    <2>2. Distinct(t)
      BY <1>1, <1>3, <2>1 DEF Distinct
    <2>3. \A i \in 1 .. Len(t) : t[i] # Head(s)
      BY <1>1, <1>3, <2>1 DEF Distinct
    <2>4. QED
      BY <2>2, <2>3 DEF Members
  <1>4. QED
    BY <1>1, <1>2, <1>3 DEF t

-----------------------------------------------------------------------------
(* Admission *)

OverPhases == {"reported", "aborted"}

(***************************************************************************)
(* A controller connects once and is accepted once; until the master ends  *)
(* it closes nobody who was accepted or still waits to be.                 *)
(***************************************************************************)
AdmissionInvariant ==
    /\ Distinct(controllers) /\ Distinct(backlog)
    /\ Members(controllers) \cap Members(backlog) = {}
    /\ \A p \in Members(controllers) \cup Members(backlog) :
          /\ process[p] # "idle"
          /\ link[p] = "closed" => phase \in OverPhases
    /\ \A p \in Controllers :
          /\ process[p] = "idle" => link[p] = "idle"
          /\ link[p] = "idle" => process[p] \in Ended \cup {"idle"}

\* Steps that accept and connect nobody.
LEMMA AdmissionFrame ==
    ASSUME TypeInvariant, AdmissionInvariant,
           UNCHANGED controllers, backlog' \in {backlog, <<>>},
           phase \in OverPhases => phase' \in OverPhases,
           \A p \in Controllers :
              /\ process'[p] = "idle" <=> process[p] = "idle"
              /\ link'[p] = "idle" <=> link[p] = "idle"
              /\ process[p] \in Ended => process'[p] \in Ended
              /\ link'[p] = "closed" => link[p] = "closed" \/ phase' \in OverPhases
    PROVE  AdmissionInvariant'
  <1>1. /\ controllers \in Seq(Controllers) /\ backlog \in Seq(Controllers)
        /\ Members(<<>>) = {} /\ Distinct(<<>>)
    BY DEF TypeInvariant, TypeOK, NetworkTypeOK, MasterTypeOK, Members, Distinct
  <1>2. \A s \in Seq(Controllers) : Members(s) \subseteq Controllers
    BY DEF Members
  <1>3. /\ Distinct(controllers') /\ Distinct(backlog')
        /\ Members(controllers') = Members(controllers)
        /\ Members(backlog') \subseteq Members(backlog)
    BY <1>1 DEF AdmissionInvariant
  <1>4. Members(controllers) \cup Members(backlog) \subseteq Controllers
    BY <1>1, <1>2
  <1>5. QED
    BY <1>3, <1>4 DEF AdmissionInvariant

LEMMA HandleAcceptAdmission ==
    ASSUME TypeInvariant, AdmissionInvariant, HandleAccept, UNCHANGED process
    PROVE  AdmissionInvariant'
  <1> DEFINE p == Head(backlog)
             last == Len(controllers) + 1 = Nodes
             links == IF last THEN CloseAll(Members(Tail(backlog))) ELSE link
  <1>1. /\ controllers \in Seq(Controllers) /\ backlog \in Seq(Controllers)
        /\ link \in [Controllers -> LinkStates]
        /\ backlog # <<>> /\ phase = "accepting"
    BY DEF HandleAccept, TypeInvariant, TypeOK, NetworkTypeOK, MasterTypeOK
  <1>2. /\ controllers' = Append(controllers, p)
        /\ backlog' = IF last THEN <<>> ELSE Tail(backlog)
        /\ phase' = IF last THEN "starting" ELSE phase
        /\ WriteCompletes(p, links)
    BY DEF HandleAccept, Members
  <1> HIDE DEF p, last
  <1>3. /\ Members(backlog) = {p} \cup Members(Tail(backlog))
        /\ p \in Controllers /\ Tail(backlog) \in Seq(Controllers)
        /\ Distinct(Tail(backlog)) /\ p \notin Members(Tail(backlog))
    BY <1>1, TailMembers DEF p, AdmissionInvariant
  <1>4. p \notin Members(controllers)
    BY <1>3 DEF AdmissionInvariant
  <1>5. /\ Members(controllers') = Members(controllers) \cup {p}
        /\ Distinct(controllers')
    BY <1>1, <1>2, <1>3, <1>4, AppendMembers DEF AdmissionInvariant
  <1>6. /\ Distinct(backlog') /\ Members(backlog') \subseteq Members(Tail(backlog))
        /\ last => Members(backlog') = {}
    <2>1. Members(<<>>) = {} /\ Distinct(<<>>)
      BY DEF Members, Distinct
    <2>2. QED
      BY <1>2, <1>3, <2>1
  <1>7. Members(controllers') \cap Members(backlog') = {}
    BY <1>3, <1>5, <1>6 DEF AdmissionInvariant
  <1>8. \A q \in Controllers :
           /\ link'[q] = "idle" <=> link[q] = "idle"
           /\ link'[q] = "closed" =>
                 link[q] = "closed" \/ (last /\ q \in Members(Tail(backlog)))
    <2>1. \A q \in Controllers :
             /\ links[q] = "idle" <=> link[q] = "idle"
             /\ links[q] = "closed" =>
                   link[q] = "closed" \/ (last /\ q \in Members(Tail(backlog)))
      BY <1>1 DEF CloseAll
    <2>2. links \in [Controllers -> LinkStates]
      BY <1>1, LinksTyped
    <2> HIDE DEF links
    <2>3. CASE link' = links
      BY <2>1, <2>3
    <2>4. CASE link[p] = "fin" /\ link' = [links EXCEPT ![p] = "reset"]
      BY <2>1, <2>2, <2>4, <1>3
    <2>5. QED
      BY <1>2, <2>3, <2>4 DEF WriteCompletes
  <1>9. Members(controllers') \cup Members(backlog') \subseteq
           Members(controllers) \cup Members(backlog)
    BY <1>3, <1>5, <1>6
  <1>10. Members(controllers) \cup Members(backlog) \subseteq Controllers
    BY <1>1 DEF Members
  <1>11. ASSUME NEW q \in Members(controllers') \cup Members(backlog')
         PROVE  process[q] # "idle" /\ link'[q] # "closed"
    <2>1. q \in Controllers /\ process[q] # "idle" /\ link[q] # "closed"
      BY <1>1, <1>9, <1>10 DEF AdmissionInvariant, OverPhases
    <2>2. last => q \notin Members(Tail(backlog))
      BY <1>3, <1>5, <1>6 DEF AdmissionInvariant
    <2>3. QED
      BY <1>8, <2>1, <2>2
  <1>12. QED
    BY <1>5, <1>6, <1>7, <1>8, <1>11 DEF AdmissionInvariant

LEMMA ConnectAdmission ==
    ASSUME TypeInvariant, AdmissionInvariant, NEW p \in Controllers,
           Connect(p), UNCHANGED masterVars
    PROVE  AdmissionInvariant'
  <1> USE DEF masterVars, startVars
  <1>1. /\ process \in [Controllers -> ProcessStates]
        /\ link \in [Controllers -> LinkStates]
        /\ backlog \in Seq(Controllers) /\ controllers \in Seq(Controllers)
        /\ process[p] = "idle" /\ link[p] = "idle"
    BY DEF TypeInvariant, TypeOK, ControllerTypeOK, NetworkTypeOK,
           MasterTypeOK, Connect, AdmissionInvariant
  <1>2. Members(controllers) \cup Members(backlog) \subseteq Controllers
    BY <1>1 DEF Members
  <1>3. CASE acceptorOpen
    <2>1. /\ process' = [process EXCEPT ![p] = "getDhtType"]
          /\ link' = [link EXCEPT ![p] = "open"]
          /\ backlog' = Append(backlog, p)
      BY <1>3 DEF Connect
    <2>2. p \notin Members(controllers) /\ p \notin Members(backlog)
      BY <1>1 DEF AdmissionInvariant
    <2>3. /\ Members(backlog') = Members(backlog) \cup {p}
          /\ Distinct(backlog')
      BY <1>1, <2>1, <2>2, AppendMembers DEF AdmissionInvariant
    <2>4. UNCHANGED <<controllers, phase>>
      OBVIOUS
    <2>5. QED
      BY <1>1, <1>2, <2>1, <2>2, <2>3, <2>4 DEF AdmissionInvariant
  <1>4. CASE ~acceptorOpen
    <2>1. process' = [process EXCEPT ![p] = "error"] /\ link' = link
      BY <1>1, <1>4 DEF Connect, EndProcess, Hangup
    <2>2. UNCHANGED <<controllers, phase, backlog>>
      BY <1>4 DEF Connect
    <2>3. p \notin Members(controllers) /\ p \notin Members(backlog)
      BY <1>1 DEF AdmissionInvariant
    <2>4. QED
      BY <1>1, <1>2, <2>1, <2>2, <2>3 DEF AdmissionInvariant, Ended
  <1>5. QED
    BY <1>3, <1>4

\* How the end of the master's process looks to the controllers.
LEMMA ProcessEndsAdmission ==
    ASSUME TypeInvariant, AdmissionInvariant, ProcessEnds,
           phase' \in OverPhases, UNCHANGED <<controllers, process>>
    PROVE  AdmissionInvariant'
  BY AdmissionFrame DEF ProcessEnds, CloseAll

LEMMA MasterAdmission ==
    ASSUME TypeInvariant, AdmissionInvariant, MasterAction
    PROVE  AdmissionInvariant'
  <1>1. UNCHANGED process
    BY DEF MasterAction, controllerVars
  <1>2. ASSUME NEW reason, Abort(reason)
        PROVE  AdmissionInvariant'
    BY <1>1, <1>2, ProcessEndsAdmission DEF Abort, startVars, OverPhases
  <1>3. ASSUME UNCHANGED <<controllers, backlog, link>>, phase \notin OverPhases
        PROVE  AdmissionInvariant'
    BY <1>1, <1>3, AdmissionFrame
  <1>4. CASE HandleAccept
    BY <1>1, <1>4, HandleAcceptAdmission
  <1>5. CASE SendStartMessage
    <2>1. UNCHANGED <<controllers, backlog>> /\ phase = "starting"
      BY <1>5 DEF SendStartMessage
    <2>2. PICK p \in Controllers : WriteCompletes(p, link)
      BY <1>5, NodesNat DEF SendStartMessage, TypeInvariant, TypeOK,
                            MasterTypeOK, PhaseInvariant
    <2>3. \A q \in Controllers :
             /\ link'[q] = "idle" <=> link[q] = "idle"
             /\ link'[q] = "closed" => link[q] = "closed"
      BY <2>2 DEF WriteCompletes, TypeInvariant, TypeOK, NetworkTypeOK
    <2>4. QED
      BY <1>1, <2>1, <2>3, AdmissionFrame DEF OverPhases
  <1>6. CASE \E p \in Controllers : HandleMessage(p)
    <2>1. PICK p \in Controllers : HandleMessage(p)
      BY <1>6
    <2>2. CASE Abort("opcode")
      BY <1>2, <2>2
    <2>3. CASE HandleFinishMessage(p) \/ HandleReportMessage(p, Head(toMaster[p]))
      BY <1>3, <2>1, <2>3 DEF HandleMessage, HandleFinishMessage,
                              HandleReportMessage, startVars, OverPhases
    <2>4. QED
      BY <2>1, <2>2, <2>3 DEF HandleMessage
  <1>7. CASE \/ ArmWorkloadTimer \/ HandleWorkloadTimeout
             \/ \E p \in Controllers : HandleDisconnection(p)
    BY <1>3, <1>7 DEF ArmWorkloadTimer, HandleWorkloadTimeout,
                      HandleDisconnection, startVars, networkVars, OverPhases
  <1>8. CASE PublishResults
    BY <1>1, <1>8, ProcessEndsAdmission DEF PublishResults, startVars, OverPhases
  <1>9. QED
    BY <1>2, <1>4, <1>5, <1>6, <1>7, <1>8
    DEF MasterAction, MasterNext, AcceptError, StartEndpointLost,
        HandleReadOnReset, HandleWriteError, ResultsError

\* A controller that ends hangs up; its place in the queues stays.
LEMMA ControllerAdmission ==
    ASSUME TypeInvariant, AdmissionInvariant, NEW p \in Controllers,
           ControllerAction(p)
    PROVE  AdmissionInvariant'
  <1>1. /\ process \in [Controllers -> ProcessStates]
        /\ link \in [Controllers -> LinkStates]
        /\ UNCHANGED <<controllers, phase>>
    BY DEF TypeInvariant, TypeOK, ControllerTypeOK, NetworkTypeOK,
           ControllerAction, masterVars, startVars
  <1>2. ASSUME NEW how \in Ended, EndProcess(p, how), process[p] # "idle",
               UNCHANGED backlog
        PROVE  AdmissionInvariant'
    BY <1>1, <1>2, AdmissionFrame DEF EndProcess, Hangup, Ended
  <1>3. ASSUME NEW next \in ProcessStates \ {"idle"},
               process[p] \notin Ended \cup {"idle"},
               process' = [process EXCEPT ![p] = next],
               UNCHANGED <<link, backlog>>
        PROVE  AdmissionInvariant'
    BY <1>1, <1>3, AdmissionFrame
  <1> USE DEF Ended, Reading, Threaded, ProcessStates
  <1>4. CASE Connect(p)
    BY <1>4, ConnectAdmission DEF ControllerAction
  <1>5. ASSUME NEW opcode, NEW next \in ProcessStates \ {"idle"},
               process[p] \in Reading, GetNextMessage(p, opcode, next)
        PROVE  AdmissionInvariant'
    BY <1>2, <1>3, <1>5 DEF GetNextMessage
  <1>6. CASE GetDhtType(p) \/ GetProfile(p) \/ WaitForStartMessage(p)
    BY <1>5, <1>6 DEF GetDhtType, GetProfile, WaitForStartMessage
  <1>7. ASSUME NEW message, NEW next \in ProcessStates \ {"idle"},
               process[p] \in Threaded, Write(p, message, next),
               UNCHANGED backlog
        PROVE  AdmissionInvariant'
    BY <1>2, <1>3, <1>7 DEF Write
  <1>8. CASE ReportResult(p) \/ SendFinishMessage(p)
    BY <1>7, <1>8 DEF ReportResult, SendFinishMessage
  <1>9. CASE ReadError(p) \/ Destroy(p) \/ TimeoutThread(p) \/ Die(p)
    BY <1>2, <1>9 DEF ReadError, Destroy, TimeoutThread, Die
  <1>10. CASE WorkloadDone(p) \/ Vanish(p)
    BY <1>3, <1>10 DEF WorkloadDone, Vanish, networkVars
  <1>11. QED
    BY <1>4, <1>6, <1>8, <1>9, <1>10
    DEF ControllerAction, ControllerNext, ControllerStep

LEMMA InitAdmission == Init => AdmissionInvariant
  BY DEF Init, NetworkInit, MasterInit, ControllerInit, AdmissionInvariant,
         Members, Distinct

LEMMA StepAdmission ==
    ASSUME TypeInvariant, AdmissionInvariant, [Next]_vars
    PROVE  AdmissionInvariant'
  <1>1. CASE MasterAction
    BY <1>1, MasterAdmission
  <1>2. CASE \E p \in Controllers : ControllerAction(p)
    BY <1>2, ControllerAdmission
  <1>3. CASE \E p \in Controllers : NetworkAction(p)
    <2>1. UNCHANGED <<controllers, backlog, phase, process>>
      BY <1>3 DEF NetworkAction, RstArrives, masterVars, startVars,
                  controllerVars
    <2>2. \A q \in Controllers :
             /\ link'[q] = "idle" <=> link[q] = "idle"
             /\ link'[q] = "closed" => link[q] = "closed"
      BY <1>3 DEF NetworkAction, RstArrives, TypeInvariant, TypeOK,
                  NetworkTypeOK
    <2>3. QED
      BY <2>1, <2>2, AdmissionFrame
  <1>4. CASE Tick \/ UNCHANGED vars
    <2>1. UNCHANGED <<controllers, backlog, phase, process, link>>
      BY <1>4 DEF Tick, vars, masterVars, startVars, controllerVars,
                  networkVars
    <2>2. QED
      BY <2>1, AdmissionFrame
  <1>5. QED
    BY <1>1, <1>2, <1>3, <1>4 DEF Next, Terminated

-----------------------------------------------------------------------------
(* The Start messages *)

\* The Start messages on their way to p, and the one it acts upon.
Offers(p) ==
    {m \in {startMessage[p]} \cup Members(toController[p]) :
        m.opcode = "Start"}

\* What is true of a Start message m for p, once the loop that sends them has
\* numbered p on its host.
RightOffer(p, m) ==
    /\ Len(controllers) = Nodes /\ p \in Accepted
    /\ m.entryPointPortOffset = 0
    /\ m.selfPortOffset < nodesPerHost[HostOf[p]]
    /\ p = controllers[1] =>
          m.entryPointHost = NoHost /\ m.selfPortOffset = 0
    /\ p # controllers[1] =>
          /\ m.entryPointHost = HostOf[controllers[1]]
          /\ HostOf[p] = HostOf[controllers[1]] => m.selfPortOffset # 0

(***************************************************************************)
(* nodesPerHost is ahead of every offset handed out on a host, and the     *)
(* first controller has taken offset 0 on its host before the second one   *)
(* is numbered.                                                            *)
(***************************************************************************)
StartInvariant ==
    /\ phase = "accepting" => startIndex = 1
    /\ startIndex > 1 => nodesPerHost[HostOf[controllers[1]]] > 0
    /\ \A p \in Controllers : \A m \in Offers(p) : RightOffer(p, m)
    /\ \A p, q \in Controllers : p # q /\ HostOf[p] = HostOf[q] =>
          \A m \in Offers(p), n \in Offers(q) :
              m.selfPortOffset # n.selfPortOffset

\* Steps that send no Start and accept nobody.
LEMMA StartFrame ==
    ASSUME StartInvariant, UNCHANGED startVars,
           phase' = "accepting" => phase = "accepting",
           \A p \in Controllers : Offers(p)' \subseteq Offers(p)
    PROVE  StartInvariant'
  <1>1. \A p, m : RightOffer(p, m)' <=> RightOffer(p, m)
    BY DEF startVars, RightOffer, Accepted
  <1>2. \A p \in Controllers : \A m \in Offers(p)' : RightOffer(p, m)'
    BY <1>1 DEF StartInvariant
  <1>3. QED
    BY <1>2 DEF StartInvariant, startVars

\* Nothing is on offer to anybody as long as nothing is sent or read.
LEMMA OffersUnchanged ==
    ASSUME UNCHANGED <<startMessage, toController>>
    PROVE  \A p \in Controllers : Offers(p)' = Offers(p)
  BY DEF Offers, Members

LEMMA HandleAcceptStart ==
    ASSUME TypeInvariant, StartInvariant, HandleAccept, UNCHANGED startMessage
    PROVE  StartInvariant'
  <1>1. /\ phase = "accepting" /\ startIndex = 1
        /\ Len(controllers) < Nodes
        /\ UNCHANGED <<startIndex, nodesPerHost>>
    BY DEF HandleAccept, StartInvariant, TypeInvariant, PhaseInvariant
  <1>2. \A p \in Controllers : Offers(p) = {}
    BY <1>1, NodesNat DEF StartInvariant, RightOffer, TypeInvariant, TypeOK,
                          MasterTypeOK
  <1>3. ASSUME NEW p \in Controllers PROVE Offers(p)' = {}
    <2>1. CASE p # Head(backlog)
      <3>1. toController'[p] = toController[p]
        BY <2>1 DEF HandleAccept, TypeInvariant, TypeOK, NetworkTypeOK
      <3>2. Offers(p)' = Offers(p)
        BY <3>1 DEF Offers, Members
      <3>3. QED
        BY <1>2, <3>2
    <2>2. CASE p = Head(backlog)
      <3>1. toController'[p] = toController[p] \o <<DhtType, Profile>>
        BY <2>2 DEF HandleAccept, TypeInvariant, TypeOK, NetworkTypeOK,
                    AcceptMessages
      <3>2. /\ toController[p] \in Seq(ToControllerMessages)
            /\ <<DhtType, Profile>> \in Seq(ToControllerMessages)
        BY MessagesTyped DEF TypeInvariant, TypeOK, NetworkTypeOK
      <3>3. \A m \in Members(toController'[p]) :
               m \in Members(toController[p]) \cup {DhtType, Profile}
        <4> DEFINE s == toController[p]
                   t == <<DhtType, Profile>>
        <4>1. /\ Len(s \o t) = Len(s) + 2 /\ Len(s) \in Nat
              /\ \A k \in 1 .. Len(s) : (s \o t)[k] = s[k]
              /\ (s \o t)[Len(s) + 1] = DhtType
              /\ (s \o t)[Len(s) + 2] = Profile
          BY <3>2
        <4>2. \A k \in 1 .. Len(s) + 2 :
                 k \in 1 .. Len(s) \/ k = Len(s) + 1 \/ k = Len(s) + 2
          BY <4>1
        <4>3. QED
          BY <3>1, <4>1, <4>2 DEF Members
      <3>4. \A m \in Offers(p)' : m \in Offers(p)
        BY <3>3 DEF Offers, DhtType, Profile
      <3>5. QED
        BY <1>2, <3>4
    <2>3. QED
      BY <2>1, <2>2
  <1>4. QED
    BY <1>1, <1>3 DEF StartInvariant

LEMMA SendStartMessageStart ==
    ASSUME TypeInvariant, AdmissionInvariant, StartInvariant,
           SendStartMessage, UNCHANGED startMessage
    PROVE  StartInvariant'
  <1>0. PICK p \in Controllers : p = controllers[startIndex]
    BY NodesNat
    DEF SendStartMessage, TypeInvariant, TypeOK, MasterTypeOK, PhaseInvariant
  <1> DEFINE entry == controllers[1]
             count == nodesPerHost[HostOf[p]] + 1
             host == IF startIndex = 1 THEN NoHost ELSE HostOf[entry]
             new == Start(host, 0, NodePortOffset(count))
  <1>1. /\ p \in Controllers /\ entry \in Controllers
        /\ HostOf[p] \in Hosts /\ HostOf[entry] \in Hosts
        /\ startIndex \in 1 .. Nodes /\ p \in Accepted
        /\ Len(controllers) = Nodes
        /\ p = entry <=> startIndex = 1
    <2>1. /\ startIndex \in 1 .. Nodes /\ 1 \in 1 .. Nodes
          /\ Len(controllers) = Nodes /\ controllers \in Seq(Controllers)
      BY NodesNat
      DEF SendStartMessage, TypeInvariant, TypeOK, MasterTypeOK, PhaseInvariant
    <2>2. QED
      BY <1>0, <2>1, HostTyped DEF Accepted, AdmissionInvariant, Distinct
  <1>2. /\ nodesPerHost \in [Hosts -> 0 .. Nodes]
        /\ \A h \in Hosts : nodesPerHost[h] < startIndex
        /\ toController \in [Controllers -> Seq(ToControllerMessages)]
    BY DEF TypeInvariant, TypeOK, MasterTypeOK, NetworkTypeOK, PhaseInvariant
  <1>3. count \in 1 .. Nodes /\ nodesPerHost[HostOf[p]] \in Nat
    BY <1>1, <1>2, NodesNat
  <1>4. /\ nodesPerHost' = [nodesPerHost EXCEPT ![HostOf[p]] = count]
        /\ toController' = [toController EXCEPT ![p] = Append(@, new)]
        /\ startIndex' = startIndex + 1
        /\ phase' # "accepting"
        /\ UNCHANGED controllers
    BY <1>0 DEF SendStartMessage
  <1>5. /\ new \in ToControllerMessages /\ new.opcode = "Start"
        /\ new.entryPointHost = host /\ new.entryPointPortOffset = 0
        /\ new.selfPortOffset = nodesPerHost[HostOf[p]]
    <2>1. /\ NodePortOffset(count) \in PortOffsets
          /\ NodePortOffset(count) = nodesPerHost[HostOf[p]]
      BY <1>3, PortOffsetTyped
    <2>2. host \in Hosts \cup {NoHost}
      BY <1>1
    <2>3. new \in ToControllerMessages
      BY <2>1, <2>2, MessagesTyped DEF ToControllerMessages
    <2>4. QED
      BY <2>1, <2>3 DEF Start
  <1> HIDE DEF entry, count, host, new
  <1>6. /\ \A q \in Controllers : q # p => Offers(q)' = Offers(q)
        /\ Offers(p)' \subseteq Offers(p) \cup {new}
    <2>1. /\ \A q \in Controllers : q # p => toController'[q] = toController[q]
          /\ toController'[p] = Append(toController[p], new)
      BY <1>1, <1>2, <1>4
    <2>2. Members(toController'[p]) = Members(toController[p]) \cup {new}
      BY <1>1, <1>2, <1>5, <2>1, AppendMembers
    <2>3. QED
      BY <2>1, <2>2 DEF Offers, Members
  <1>7. \A h \in Hosts :
           /\ nodesPerHost[h] \in Nat /\ nodesPerHost'[h] \in Nat
           /\ nodesPerHost'[h] >= nodesPerHost[h]
    BY <1>1, <1>2, <1>3, <1>4 DEF count
  <1>8. nodesPerHost'[HostOf[p]] = nodesPerHost[HostOf[p]] + 1
    BY <1>1, <1>2, <1>4 DEF count
  <1>9. startIndex > 1 => nodesPerHost[HostOf[entry]] > 0
    BY DEF StartInvariant, entry
  <1>10. \A q \in Controllers : \A m \in Offers(q) :
            m.selfPortOffset \in Nat /\ m.selfPortOffset < nodesPerHost[HostOf[q]]
    <2>1. \A q \in Controllers : \A m \in Offers(q) : m \in StartMessages
      <3>1. \A q \in Controllers : \A m \in Offers(q) : m \in ToControllerMessages
        BY <1>2 DEF Offers, Members, TypeInvariant, TypeOK, ControllerTypeOK,
                    ToControllerMessages, NotStarted
      <3>2. QED
        BY <3>1, StartTyped DEF Offers
    <2>2. QED
      BY <2>1 DEF StartMessages, PortOffsets, StartInvariant, RightOffer
  <1>11. ASSUME NEW q \in Controllers, NEW m \in Offers(q)'
         PROVE  RightOffer(q, m)'
    <2>1. CASE m \in Offers(q)
      <3>1. RightOffer(q, m) /\ HostOf[q] \in Hosts /\ m.selfPortOffset \in Nat
        BY <1>10, <2>1, HostTyped DEF StartInvariant
      <3>2. m.selfPortOffset < nodesPerHost'[HostOf[q]]
        BY <1>7, <3>1 DEF RightOffer
      <3>3. QED
        BY <1>4, <3>1, <3>2 DEF RightOffer, Accepted
    <2>2. CASE m \notin Offers(q)
      <3>1. q = p /\ m = new
        BY <1>6, <2>2
      <3>2. startIndex = 1 => new.selfPortOffset = 0
        BY <1>1, <1>2, <1>3, <1>5
      <3>3. startIndex # 1 => startIndex > 1
        BY <1>1
      <3>4. QED
        BY <1>1, <1>3, <1>4, <1>5, <1>8, <1>9, <3>1, <3>2, <3>3
        DEF RightOffer, Accepted, host, entry
    <2>3. QED
      BY <2>1, <2>2
  <1>12. ASSUME NEW q \in Controllers, NEW r \in Controllers, q # r,
                HostOf[q] = HostOf[r], NEW m \in Offers(q)', NEW n \in Offers(r)'
         PROVE  m.selfPortOffset # n.selfPortOffset
    <2>1. CASE m \in Offers(q) /\ n \in Offers(r)
      BY <1>12, <2>1 DEF StartInvariant
    <2>2. CASE m \notin Offers(q)
      <3>1. q = p /\ m = new /\ n \in Offers(r)
        BY <1>6, <1>12, <2>2
      <3>2. QED
        BY <1>3, <1>5, <1>10, <1>12, <3>1
    <2>3. CASE n \notin Offers(r)
      <3>1. r = p /\ n = new /\ m \in Offers(q)
        BY <1>6, <1>12, <2>3
      <3>2. QED
        BY <1>3, <1>5, <1>10, <1>12, <3>1
    <2>4. QED
      BY <2>1, <2>2, <2>3
  <1>13. nodesPerHost'[HostOf[entry]] > 0
    <2>1. CASE startIndex = 1
      BY <1>1, <1>3, <1>8, <2>1
    <2>2. CASE startIndex # 1
      BY <1>1, <1>7, <1>9, <2>2
    <2>3. QED
      BY <2>1, <2>2
  <1>14. QED
    BY <1>4, <1>11, <1>12, <1>13 DEF StartInvariant, entry

LEMMA MasterStart ==
    ASSUME TypeInvariant, AdmissionInvariant, StartInvariant, MasterAction
    PROVE  StartInvariant'
  <1>1. UNCHANGED startMessage
    BY DEF MasterAction, controllerVars
  <1>2. ASSUME UNCHANGED <<startVars, toController>>,
               phase' = "accepting" => phase = "accepting"
        PROVE  StartInvariant'
    <2>1. \A p \in Controllers : Offers(p)' \subseteq Offers(p)
      BY <1>1, <1>2, OffersUnchanged
    <2>2. QED
      BY <1>2, <2>1, StartFrame
  <1>3. ASSUME NEW reason, Abort(reason)
        PROVE  StartInvariant'
    BY <1>2, <1>3 DEF Abort
  <1>4. CASE HandleAccept
    BY <1>1, <1>4, HandleAcceptStart
  <1>5. CASE SendStartMessage
    BY <1>1, <1>5, SendStartMessageStart
  <1>6. CASE \E p \in Controllers : HandleMessage(p)
    <2>1. PICK p \in Controllers : HandleMessage(p)
      BY <1>6
    <2>2. CASE Abort("opcode")
      BY <1>3, <2>2
    <2>3. CASE HandleReportMessage(p, Head(toMaster[p]))
      BY <1>2, <2>3 DEF HandleReportMessage
    <2>4. CASE HandleFinishMessage(p)
      BY <1>2, <2>4 DEF HandleFinishMessage, ControllerFinished
    <2>5. QED
      BY <2>1, <2>2, <2>3, <2>4 DEF HandleMessage
  <1>7. CASE \/ ArmWorkloadTimer \/ HandleWorkloadTimeout \/ PublishResults
             \/ \E p \in Controllers : HandleDisconnection(p)
    BY <1>2, <1>7 DEF ArmWorkloadTimer, HandleWorkloadTimeout, PublishResults,
                      HandleDisconnection, ControllerFinished, networkVars
  <1>8. QED
    BY <1>3, <1>4, <1>5, <1>6, <1>7
    DEF MasterAction, MasterNext, AcceptError, StartEndpointLost,
        HandleReadOnReset, HandleWriteError, ResultsError

\* Reading a message takes it from the connection; a Start is then acted upon.
LEMMA ControllerStart ==
    ASSUME TypeInvariant, StartInvariant, NEW p \in Controllers,
           ControllerAction(p)
    PROVE  StartInvariant'
  <1>1. UNCHANGED <<startVars, phase>>
    BY DEF ControllerAction, masterVars
  <1>2. CASE UNCHANGED <<startMessage, toController>>
    BY <1>1, <1>2, OffersUnchanged, StartFrame
  <1>3. CASE GetDhtType(p) \/ GetProfile(p) \/ WaitForStartMessage(p)
    <2>1. /\ toController \in [Controllers -> Seq(ToControllerMessages)]
          /\ startMessage \in [Controllers -> StartMessages \cup {NotStarted}]
          /\ toController[p] # <<>>
          /\ toController' = [toController EXCEPT ![p] = Tail(@)]
          /\ \/ UNCHANGED startMessage
             \/ startMessage' = [startMessage EXCEPT ![p] =
                   IF Head(toController[p]).opcode = "Start"
                   THEN Head(toController[p]) ELSE @]
      BY <1>3 DEF GetDhtType, GetProfile, WaitForStartMessage, GetNextMessage,
                  TypeInvariant, TypeOK, NetworkTypeOK, ControllerTypeOK
    <2>2. Members(toController[p]) =
             {Head(toController[p])} \cup Members(Tail(toController[p]))
      BY <2>1, TailMembers
    <2>3. \A q \in Controllers : q # p => Offers(q)' = Offers(q)
      <3>1. \A q \in Controllers : q # p => /\ startMessage'[q] = startMessage[q]
                                            /\ toController'[q] = toController[q]
        BY <2>1
      <3>2. QED
        BY <3>1 DEF Offers, Members
    <2>4. Offers(p)' \subseteq Offers(p)
      <3>1. Members(toController'[p]) \subseteq Members(toController[p])
        BY <2>1, <2>2
      <3>2. \/ startMessage'[p] = startMessage[p]
            \/ startMessage'[p] \in Members(toController[p])
        BY <2>1, <2>2
      <3>3. QED
        BY <3>1, <3>2 DEF Offers
    <2>5. \A q \in Controllers : Offers(q)' \subseteq Offers(q)
      BY <2>3, <2>4
    <2>6. QED
      BY <1>1, <2>5, StartFrame
  <1>4. QED
    BY <1>2, <1>3
    DEF ControllerAction, ControllerNext, ControllerStep, Connect, ReadError,
        ReportResult, SendFinishMessage, Destroy, TimeoutThread, WorkloadDone,
        Die, Vanish, networkVars

LEMMA InitStart == Init => StartInvariant
  <1> SUFFICES ASSUME Init PROVE StartInvariant
    OBVIOUS
  <1>1. \A p \in Controllers : Offers(p) = {}
    BY DEF Init, NetworkInit, ControllerInit, Offers, Members, NotStarted,
           Profile
  <1>2. QED
    BY <1>1 DEF Init, MasterInit, StartInvariant

LEMMA StepStart ==
    ASSUME TypeInvariant, AdmissionInvariant, StartInvariant, [Next]_vars
    PROVE  StartInvariant'
  <1>1. CASE MasterAction
    BY <1>1, MasterStart
  <1>2. CASE \E p \in Controllers : ControllerAction(p)
    BY <1>2, ControllerStart
  <1>3. CASE \/ \E p \in Controllers : NetworkAction(p)
             \/ Tick \/ UNCHANGED vars
    <2>1. UNCHANGED <<startVars, phase, startMessage, toController>>
      BY <1>3 DEF NetworkAction, RstArrives, Tick, vars, masterVars,
                  controllerVars, networkVars
    <2>2. QED
      BY <2>1, OffersUnchanged, StartFrame
  <1>4. QED
    BY <1>1, <1>2, <1>3 DEF Next, Terminated

\* The two invariants hold along every behaviour.
LEMMA AdmissionAndStart ==
    Spec => [](TypeInvariant /\ AdmissionInvariant /\ StartInvariant)
  <1> DEFINE Inv == TypeInvariant /\ AdmissionInvariant /\ StartInvariant
  <1>1. Init => Inv
    BY InitType, InitAdmission, InitStart
  <1>2. Inv /\ [Next]_vars => Inv'
    BY StepType, StepAdmission, StepStart
  <1>3. QED
    BY <1>1, <1>2, PTL DEF Spec

\* The Start message a controller acts upon is one that was offered to it.
LEMMA StartedByOffer ==
    ASSUME TypeInvariant, StartInvariant, NEW p \in Controllers,
           startMessage[p] # NotStarted
    PROVE  /\ startMessage[p] \in Offers(p)
           /\ RightOffer(p, startMessage[p])
           /\ startMessage[p] \in StartMessages
  <1>1. startMessage[p] \in StartMessages
    BY DEF TypeInvariant, TypeOK, ControllerTypeOK
  <1>2. startMessage[p].opcode = "Start"
    BY <1>1 DEF StartMessages
  <1>3. startMessage[p] \in Offers(p)
    BY <1>2 DEF Offers
  <1>4. QED
    BY <1>1, <1>3 DEF StartInvariant

(***************************************************************************)
(* sendStartMessages is a barrier in every execution: nobody runs the      *)
(* workload before handleAccept has accepted all the nodes, or without     *)
(* being one of them.                                                      *)
(***************************************************************************)
THEOREM StartIsBarrier == Spec => []StartBarrier
  <1>1. TypeInvariant /\ StartInvariant => StartBarrier
    BY StartedByOffer DEF StartBarrier, RightOffer
  <1>2. QED
    BY <1>1, AdmissionAndStart, PTL

(***************************************************************************)
(* Only the first accepted controller starts a new DHT, it takes offset 0  *)
(* on its host, and what the others are told as entryPointHost and         *)
(* entryPointPortOffset is where it, and nobody else, listens.             *)
(***************************************************************************)
THEOREM EntryPointRight == Spec => []EntryPointIsNodeZero
  <1>1. TypeInvariant /\ StartInvariant => EntryPointIsNodeZero
    BY StartedByOffer DEF EntryPointIsNodeZero, RightOffer
  <1>2. QED
    BY <1>1, AdmissionAndStart, PTL

\* 16-bit numbers wrap around once below 131072.
LEMMA WrapAround ==
    ASSUME NEW x \in Nat
    PROVE  /\ x < 65536 => x % 65536 = x
           /\ x >= 65536 /\ x < 131072 => x % 65536 = x - 65536
  OBVIOUS

\* kaddemo's port for an offset is even, and its own below offset 32768.
LEMMA KaddemoPort ==
    ASSUME NEW n \in Nat, n <= 32767
    PROVE  \/ PortOffsetToPort("kaddemo", n) = n * 2 + 5000
           \/ PortOffsetToPort("kaddemo", n) = n * 2 - 60536
  <1>1. n * 2 + 5000 \in Nat /\ n * 2 + 5000 < 131072
    OBVIOUS
  <1>2. \/ (n * 2 + 5000) % 65536 = n * 2 + 5000
        \/ (n * 2 + 5000) % 65536 = (n * 2 + 5000) - 65536
    BY <1>1, WrapAround
  <1>3. QED
    BY <1>2 DEF PortOffsetToPort, PortOffsetModulus

\* Ports of different offsets below 32768 are different, kaddemo's second
\* port included.
LEMMA PortsDisjoint ==
    ASSUME NEW a \in Nat, NEW b \in Nat, a <= 32767, b <= 32767, a # b,
           NEW dht \in DhtTypes
    PROVE  PortsOf(dht, a) \cap PortsOf(dht, b) = {}
  <1>1. CASE dht = "kaddemo"
    <2>1. PICK x \in {a * 2 + 5000, a * 2 - 60536} :
             PortsOf(dht, a) = {x, x + 1}
      BY <1>1, KaddemoPort DEF PortsOf
    <2>2. PICK y \in {b * 2 + 5000, b * 2 - 60536} :
             PortsOf(dht, b) = {y, y + 1}
      BY <1>1, KaddemoPort DEF PortsOf
    <2>3. x # y /\ x # y + 1 /\ x + 1 # y /\ x + 1 # y + 1
      OBVIOUS
    <2>4. QED
      BY <2>1, <2>2, <2>3
  <1>2. CASE dht = "dummy"
    BY <1>2 DEF PortsOf, PortOffsetToPort
  <1>3. CASE dht \notin {"dummy", "kaddemo"}
    <2>1. (a + 5000) % 65536 = a + 5000 /\ (b + 5000) % 65536 = b + 5000
      BY WrapAround
    <2>2. PortsOf(dht, a) = {a + 5000} /\ PortsOf(dht, b) = {b + 5000}
      BY <1>3, <2>1 DEF PortsOf, PortOffsetToPort, PortOffsetModulus
    <2>3. QED
      BY <2>2
  <1>4. QED
    BY <1>1, <1>2, <1>3

(***************************************************************************)
(* As long as kaddemo's two ports per node fit in 16 bits (32768 nodes),   *)
(* no two nodes of one host ever share a port, whichever wrapper turns the *)
(* offsets of sendStartMessages into ports.                                *)
(***************************************************************************)
THEOREM PortsNeverShared ==
    ASSUME Nodes <= 32768
    PROVE  Spec => []PortsDistinct
  <1>1. TypeInvariant /\ StartInvariant => PortsDistinct
    <2> SUFFICES ASSUME TypeInvariant, StartInvariant,
                        NEW p \in Controllers, NEW q \in Controllers,
                        p # q, HostOf[p] = HostOf[q],
                        startMessage[p] # NotStarted,
                        startMessage[q] # NotStarted,
                        NEW dht \in DhtTypes
                 PROVE  PortsOf(dht, startMessage[p].selfPortOffset)
                           \cap PortsOf(dht, startMessage[q].selfPortOffset) = {}
      BY DEF PortsDistinct
    <2>1. startMessage[p].selfPortOffset # startMessage[q].selfPortOffset
      BY StartedByOffer DEF StartInvariant
    <2>2. ASSUME NEW c \in Controllers, startMessage[c] # NotStarted
          PROVE  /\ startMessage[c].selfPortOffset \in Nat
                 /\ startMessage[c].selfPortOffset <= 32767
      <3>1. /\ startMessage[c].selfPortOffset \in Nat
            /\ startMessage[c].selfPortOffset < nodesPerHost[HostOf[c]]
        BY <2>2, StartedByOffer DEF RightOffer, StartMessages, PortOffsets
      <3>2. nodesPerHost[HostOf[c]] \in 0 .. Nodes
        BY HostTyped DEF TypeInvariant, TypeOK, MasterTypeOK
      <3>3. QED
        BY <3>1, <3>2, NodesNat
    <2>3. QED
      BY <2>1, <2>2, PortsDisjoint
  <1>2. QED
    BY <1>1, AdmissionAndStart, PTL

-----------------------------------------------------------------------------
(* The reports *)

Stored(p) == Len(results[p])

(***************************************************************************)
(* What the master has stored of p and what is still on the connection are *)
(* together an initial part of the reports in reportResults' order, then   *)
(* Finish; while p is alive and writing, exactly the reports it has sent.  *)
(***************************************************************************)
Delivered(p) ==
    /\ Stored(p) <= Len(ReportTypes)
    /\ \A k \in 1 .. Stored(p) : results[p][k] = ReportTypes[k]
    /\ reading[p] = "finished" => Stored(p) = Len(ReportTypes)
    /\ link[p] = "idle" => toMaster[p] = <<>>
    /\ link[p] # "closed" =>
          /\ Stored(p) + Len(toMaster[p]) <= Len(ReportTypes) + 1
          /\ \A k \in 1 .. Len(toMaster[p]) : toMaster[p][k] =
                IF Stored(p) + k <= Len(ReportTypes)
                THEN Report(ReportTypes[Stored(p) + k]) ELSE Finish
          /\ process[p] \notin Ended \cup {"cleanup"} =>
                Stored(p) + Len(toMaster[p]) = reportsSent[p]
    /\ process[p] = "finish" => reportsSent[p] = Len(ReportTypes)

DeliveryInvariant == \A p \in Controllers : Delivered(p)

\* Steps that neither write nor read a message of p.
LEMMA DeliveredFrame ==
    ASSUME NEW p \in Controllers, Delivered(p),
           results'[p] = results[p], toMaster'[p] = toMaster[p],
           reportsSent'[p] = reportsSent[p],
           reading'[p] = "finished" => reading[p] = "finished",
           link[p] = "closed" => link'[p] = "closed",
           link'[p] = "idle" => link[p] = "idle",
           process[p] \in Ended \cup {"cleanup"} =>
              process'[p] \in Ended \cup {"cleanup"},
           process'[p] = "finish" => process[p] = "finish"
    PROVE  Delivered(p)'
  BY DEF Delivered, Stored

\* The end of the master's process drops what it had not read.
LEMMA ProcessEndsDelivery ==
    ASSUME TypeInvariant, DeliveryInvariant, ProcessEnds,
           UNCHANGED <<results, reading, process, reportsSent>>
    PROVE  DeliveryInvariant'
  <1> SUFFICES ASSUME NEW p \in Controllers PROVE Delivered(p)'
    BY DEF DeliveryInvariant
  <1>1. Delivered(p) /\ toMaster'[p] = <<>>
    BY DEF DeliveryInvariant, ProcessEnds
  <1>2. CASE link[p] = "idle"
    <2>1. link'[p] = "idle" /\ toMaster'[p] = toMaster[p]
      BY <1>1, <1>2 DEF ProcessEnds, CloseAll, Delivered
    <2>2. QED
      BY <1>1, <1>2, <2>1, DeliveredFrame
  <1>3. CASE link[p] # "idle"
    <2>1. link'[p] = "closed"
      BY <1>3 DEF ProcessEnds, CloseAll
    <2>2. QED
      BY <1>1, <2>1 DEF Delivered, Stored
  <1>4. QED
    BY <1>2, <1>3

\* A message of p is read: the master still holds the connection, and the
\* message is the next report, or Finish when there are none left.
LEMMA HandleMessageDelivery ==
    ASSUME TypeInvariant, CountInvariant, AdmissionInvariant,
           DeliveryInvariant, NEW p \in Controllers, HandleMessage(p),
           UNCHANGED <<process, reportsSent>>
    PROVE  DeliveryInvariant'
  <1> DEFINE message == Head(toMaster[p])
             n == Stored(p)
             last == Len(ReportTypes)
  <1>1. /\ toMaster \in [Controllers -> Seq(ToMasterMessages)]
        /\ results \in [Controllers -> Seq(ReportTypeSet)]
        /\ reading \in [Controllers -> {"none", "pending", "finished", "failed"}]
        /\ toMaster[p] # <<>> /\ phase = "running" /\ reading[p] = "pending"
    BY DEF HandleMessage, TypeInvariant, TypeOK, NetworkTypeOK, MasterTypeOK
  <1>2. link[p] # "closed" /\ Delivered(p)
    <2>1. p \in Members(controllers)
      BY <1>1 DEF CountInvariant, Accepted, Members
    <2>2. QED
      BY <1>1, <2>1 DEF AdmissionInvariant, OverPhases, DeliveryInvariant
  <1>3. n \in Nat /\ last \in Nat /\ n <= last
    BY <1>1, <1>2, ReportTypesAssumption DEF Delivered, Stored
  <1>4. message = IF n + 1 <= last THEN Report(ReportTypes[n + 1]) ELSE Finish
    BY <1>1, <1>2 DEF Delivered
  <1>5. /\ Len(Tail(toMaster[p])) = Len(toMaster[p]) - 1
        /\ Len(toMaster[p]) \in Nat \ {0}
        /\ \A k \in 1 .. Len(toMaster[p]) - 1 :
              Tail(toMaster[p])[k] = toMaster[p][k + 1]
    BY <1>1
  <1>6. CASE HandleReportMessage(p, message) /\ message.opcode = "Report"
    <2>1. /\ toMaster' = [toMaster EXCEPT ![p] = Tail(@)]
          /\ results' = [results EXCEPT ![p] = Append(@, message.type)]
          /\ UNCHANGED <<reading, link>>
      BY <1>6 DEF HandleReportMessage
    <2>2. n + 1 <= last /\ message.type = ReportTypes[n + 1]
      BY <1>3, <1>4, <1>6 DEF Report, Finish
    <2>3. /\ results'[p] = Append(results[p], ReportTypes[n + 1])
          /\ toMaster'[p] = Tail(toMaster[p])
      BY <1>1, <2>1, <2>2
    <2> HIDE DEF message
    <2>4. /\ Len(results'[p]) = n + 1
          /\ \A k \in 1 .. n + 1 : results'[p][k] =
                IF k <= n THEN results[p][k] ELSE ReportTypes[n + 1]
      BY <1>1, <1>3, <2>3 DEF Stored
    <2>5. \A k \in 1 .. n + 1 : results'[p][k] = ReportTypes[k]
      BY <1>2, <1>3, <2>4 DEF Delivered
    <2>6. \A k \in 1 .. Len(toMaster'[p]) : toMaster'[p][k] =
             IF (n + 1) + k <= last
             THEN Report(ReportTypes[(n + 1) + k]) ELSE Finish
      <3> SUFFICES ASSUME NEW k \in 1 .. Len(toMaster'[p])
                   PROVE  toMaster'[p][k] =
                             IF (n + 1) + k <= last
                             THEN Report(ReportTypes[(n + 1) + k]) ELSE Finish
        OBVIOUS
      <3>1. k + 1 \in 1 .. Len(toMaster[p]) /\ n + (k + 1) = (n + 1) + k
        BY <1>3, <1>5, <2>3
      <3>2. toMaster'[p][k] = toMaster[p][k + 1]
        BY <1>5, <2>3, <3>1
      <3>3. toMaster[p][k + 1] = IF n + (k + 1) <= last
                THEN Report(ReportTypes[n + (k + 1)]) ELSE Finish
        BY <1>2, <3>1 DEF Delivered
      <3>4. QED
        BY <3>1, <3>2, <3>3
    <2>7. (n + 1) + Len(toMaster'[p]) = n + Len(toMaster[p])
      BY <1>3, <1>5, <2>3
    <2>8. Delivered(p)'
      <3>1. Stored(p)' = n + 1 /\ link'[p] # "closed" /\ reading'[p] # "finished"
        BY <1>1, <1>2, <2>1, <2>4 DEF Stored
      <3>2. link'[p] # "idle"
        BY <1>1, <1>2, <2>1 DEF Delivered
      <3> HIDE DEF n
      <3>3. QED
        BY <1>2, <2>2, <2>5, <2>6, <2>7, <3>1, <3>2 DEF Delivered, n
    <2>9. \A q \in Controllers : q # p => Delivered(q)'
      BY <1>1, <2>1, DeliveredFrame DEF DeliveryInvariant
    <2>10. QED
      BY <2>8, <2>9 DEF DeliveryInvariant
  <1>7. CASE HandleFinishMessage(p) /\ message.opcode # "Report"
    <2>1. /\ toMaster' = [toMaster EXCEPT ![p] = Tail(@)]
          /\ reading' = [reading EXCEPT ![p] = "finished"]
          /\ UNCHANGED <<results, link>>
      BY <1>7 DEF HandleFinishMessage
    <2>2. n = last
      BY <1>3, <1>4, <1>7 DEF Report
    <2>3. /\ Len(toMaster[p]) = 1 /\ toMaster'[p] = <<>>
      <3>1. Len(toMaster[p]) = 1
        <4>1. n + Len(toMaster[p]) <= last + 1
          BY <1>2 DEF Delivered
        <4> DEFINE pending == Len(toMaster[p])
        <4>2. pending \in Nat /\ pending # 0
          BY <1>5
        <4>3. n + pending <= n + 1
          BY <2>2, <4>1
        <4> HIDE DEF n, last, pending
        <4>4. pending = 1
          BY <1>3, <4>2, <4>3
        <4>5. QED
          BY <4>4 DEF pending
      <3>2. QED
        BY <1>1, <2>1, <3>1
    <2>4. process[p] \in Ended \cup {"cleanup"}
      <3>1. reportsSent[p] \in 0 .. last
        BY DEF TypeInvariant, TypeOK, ControllerTypeOK
      <3>2. n + 1 # reportsSent[p]
        BY <1>3, <2>2, <3>1
      <3>3. QED
        BY <1>2, <2>3, <3>2 DEF Delivered
    <2>5. Delivered(p)'
      <3>1. Stored(p)' = n /\ link'[p] # "closed"
        BY <1>2, <2>1 DEF Stored
      <3>2. process[p] # "finish"
        BY <2>4 DEF Ended
      <3>3. QED
        BY <1>2, <1>3, <2>1, <2>2, <2>3, <2>4, <3>1, <3>2 DEF Delivered
    <2>6. \A q \in Controllers : q # p => Delivered(q)'
      BY <1>1, <2>1, DeliveredFrame DEF DeliveryInvariant
    <2>7. QED
      BY <2>5, <2>6 DEF DeliveryInvariant
  <1>8. CASE Abort("opcode")
    BY <1>8, ProcessEndsDelivery DEF Abort
  <1>9. QED
    BY <1>6, <1>7, <1>8 DEF HandleMessage

LEMMA MasterDelivery ==
    ASSUME TypeInvariant, CountInvariant, AdmissionInvariant,
           DeliveryInvariant, MasterAction
    PROVE  DeliveryInvariant'
  <1>1. UNCHANGED <<process, reportsSent>>
    BY DEF MasterAction, controllerVars
  <1>2. ASSUME NEW reason, Abort(reason)
        PROVE  DeliveryInvariant'
    BY <1>1, <1>2, ProcessEndsDelivery DEF Abort
  <1>3. ASSUME UNCHANGED <<results, toMaster>>,
               \A p \in Controllers :
                  /\ reading'[p] = "finished" => reading[p] = "finished"
                  /\ link[p] = "closed" => link'[p] = "closed"
                  /\ link'[p] = "idle" => link[p] = "idle"
        PROVE  DeliveryInvariant'
    BY <1>1, <1>3, DeliveredFrame DEF DeliveryInvariant
  <1>4. ASSUME NEW p \in Controllers, NEW links \in [Controllers -> LinkStates],
               WriteCompletes(p, links),
               \A q \in Controllers :
                  /\ link[q] = "closed" => links[q] = "closed"
                  /\ links[q] = "idle" => link[q] = "idle"
        PROVE  \A q \in Controllers :
                  /\ link[q] = "closed" => link'[q] = "closed"
                  /\ link'[q] = "idle" => link[q] = "idle"
    BY <1>4 DEF WriteCompletes
  <1>5. link \in [Controllers -> LinkStates]
    BY DEF TypeInvariant, TypeOK, NetworkTypeOK
  <1>6. CASE HandleAccept
    <2> DEFINE p == Head(backlog)
               links == IF Len(controllers) + 1 = Nodes
                        THEN CloseAll(Members(Tail(backlog))) ELSE link
    <2>1. /\ WriteCompletes(p, links)
          /\ UNCHANGED <<results, toMaster, reading>>
      BY <1>6 DEF HandleAccept, Members
    <2>2. p \in Controllers
      BY <1>6 DEF HandleAccept, TypeInvariant, TypeOK, NetworkTypeOK
    <2>3. /\ links \in [Controllers -> LinkStates]
          /\ \A q \in Controllers :
                /\ link[q] = "closed" => links[q] = "closed"
                /\ links[q] = "idle" => link[q] = "idle"
      BY <1>5, LinksTyped DEF CloseAll
    <2> HIDE DEF p, links
    <2>4. QED
      BY <1>3, <1>4, <2>1, <2>2, <2>3
  <1>7. CASE SendStartMessage
    <2>0. controllers[startIndex] \in Controllers
      BY <1>7, NodesNat DEF SendStartMessage, TypeInvariant, TypeOK,
                            MasterTypeOK, PhaseInvariant
    <2>1. PICK p \in Controllers : /\ WriteCompletes(p, link)
                                   /\ reading' = [reading EXCEPT ![p] = "pending"]
      BY <1>7, <2>0 DEF SendStartMessage
    <2>2. /\ UNCHANGED <<results, toMaster>>
          /\ reading \in [Controllers ->
                             {"none", "pending", "finished", "failed"}]
      BY <1>7 DEF SendStartMessage, TypeInvariant, TypeOK, MasterTypeOK
    <2>3. \A q \in Controllers : reading'[q] = "finished" => reading[q] = "finished"
      BY <2>1, <2>2
    <2>4. QED
      BY <1>3, <1>4, <1>5, <2>1, <2>2, <2>3
  <1>8. CASE \E p \in Controllers : HandleMessage(p)
    BY <1>1, <1>8, HandleMessageDelivery
  <1>9. CASE \E p \in Controllers : HandleDisconnection(p)
    <2>1. /\ UNCHANGED <<results, toMaster, link>>
          /\ \E p \in Controllers : reading' = [reading EXCEPT ![p] = "failed"]
          /\ reading \in [Controllers ->
                             {"none", "pending", "finished", "failed"}]
      BY <1>9 DEF HandleDisconnection, networkVars, TypeInvariant, TypeOK,
                  MasterTypeOK
    <2>2. QED
      BY <1>3, <2>1
  <1>10. CASE ArmWorkloadTimer \/ HandleWorkloadTimeout
    BY <1>3, <1>10 DEF ArmWorkloadTimer, HandleWorkloadTimeout, networkVars
  <1>11. CASE PublishResults
    BY <1>1, <1>11, ProcessEndsDelivery DEF PublishResults
  <1>12. QED
    BY <1>2, <1>6, <1>7, <1>8, <1>9, <1>10, <1>11
    DEF MasterAction, MasterNext, AcceptError, StartEndpointLost,
        HandleReadOnReset, HandleWriteError, ResultsError

\* A report or Finish that p writes is the next one the master expects.
LEMMA WriteDelivery ==
    ASSUME TypeInvariant, AdmissionInvariant, DeliveryInvariant,
           NEW p \in Controllers, NEW message, NEW k \in 0 .. Len(ReportTypes),
           NEW next \in {"report", "finish", "cleanup"},
           process[p] \in {"report", "finish"},
           UNCHANGED <<results, reading>>,
           reportsSent' = [reportsSent EXCEPT ![p] = k],
           Write(p, message, next),
           message = IF reportsSent[p] < Len(ReportTypes)
                     THEN Report(ReportTypes[reportsSent[p] + 1]) ELSE Finish,
           next # "cleanup" => k = reportsSent[p] + 1,
           next = "finish" => k = Len(ReportTypes)
    PROVE  DeliveryInvariant'
  <1>1. /\ process \in [Controllers -> ProcessStates]
        /\ reportsSent \in [Controllers -> 0 .. Len(ReportTypes)]
        /\ toMaster \in [Controllers -> Seq(ToMasterMessages)]
        /\ results \in [Controllers -> Seq(ReportTypeSet)]
        /\ link \in [Controllers -> LinkStates]
        /\ Len(ReportTypes) \in Nat
    <2>1. Len(ReportTypes) \in Nat
      BY ReportTypesAssumption
    <2>2. QED
      BY <2>1 DEF TypeInvariant, TypeOK, ControllerTypeOK, NetworkTypeOK,
                  MasterTypeOK
  <1>2. link[p] # "idle" /\ Delivered(p)
    BY DEF AdmissionInvariant, Ended, DeliveryInvariant
  <1>3. /\ \A q \in Controllers : q # p =>
              /\ process'[q] = process[q] /\ toMaster'[q] = toMaster[q]
              /\ link'[q] = link[q] /\ reportsSent'[q] = reportsSent[q]
        /\ reportsSent'[p] = k
    BY <1>1 DEF Write, EndProcess, Hangup
  <1>4. \A q \in Controllers : q # p => Delivered(q)'
    BY <1>3, DeliveredFrame DEF DeliveryInvariant
  <1>5. CASE link[p] = "closed"
    <2>1. link'[p] = "closed" /\ process'[p] \in {next, "error"}
      BY <1>1, <1>5 DEF Write, EndProcess, Hangup
    <2>2. Delivered(p)'
      BY <1>2, <1>3, <2>1 DEF Delivered, Stored
    <2>3. QED
      BY <1>4, <2>2 DEF DeliveryInvariant
  <1>6. CASE link[p] # "closed"
    <2> DEFINE n == Stored(p)
               s == toMaster[p]
               sent == reportsSent[p]
    <2>1. /\ link'[p] = link[p] /\ process'[p] = next
          /\ toMaster'[p] = Append(s, message)
      BY <1>1, <1>6 DEF Write
    <2>2. /\ n + Len(s) = sent
          /\ sent \in 0 .. Len(ReportTypes) /\ n \in Nat /\ Len(s) \in Nat
      BY <1>1, <1>2, <1>6 DEF Delivered, Ended, Stored
    <2>3. /\ Len(Append(s, message)) = Len(s) + 1
          /\ \A j \in 1 .. Len(s) : Append(s, message)[j] = s[j]
          /\ Append(s, message)[Len(s) + 1] = message
      BY <1>1
    <2>4. \A j \in 1 .. Len(s) : s[j] =
             IF n + j <= Len(ReportTypes) THEN Report(ReportTypes[n + j])
                                          ELSE Finish
      BY <1>2, <1>6 DEF Delivered
    <2>5. message = IF n + (Len(s) + 1) <= Len(ReportTypes)
                    THEN Report(ReportTypes[n + (Len(s) + 1)]) ELSE Finish
      <3>1. n + (Len(s) + 1) = sent + 1
        BY <2>2
      <3>2. sent + 1 <= Len(ReportTypes) <=> sent < Len(ReportTypes)
        BY <1>1, <2>2
      <3>3. QED
        BY <3>1, <3>2
    <2>6. Stored(p)' = n
      BY DEF Stored
    <2> HIDE DEF n, s, sent
    <2>7. \A j \in 1 .. Len(toMaster'[p]) : toMaster'[p][j] =
             IF n + j <= Len(ReportTypes) THEN Report(ReportTypes[n + j])
                                          ELSE Finish
      <3>1. \A j \in 1 .. Len(s) + 1 : j \in 1 .. Len(s) \/ j = Len(s) + 1
        BY <2>2
      <3>2. QED
        BY <2>1, <2>3, <2>4, <2>5, <3>1
    <2>8. n + Len(toMaster'[p]) = sent + 1
      BY <2>1, <2>2, <2>3
    <2>9. Delivered(p)'
      <3>1. /\ n <= Len(ReportTypes)
            /\ \A j \in 1 .. n : results[p][j] = ReportTypes[j]
            /\ reading[p] = "finished" => n = Len(ReportTypes)
        BY <1>2 DEF Delivered, n
      <3>2. sent + 1 <= Len(ReportTypes) + 1
        BY <1>1, <2>2
      <3>3. process'[p] \notin Ended \cup {"cleanup"} => k = sent + 1
        BY <2>1 DEF sent
      <3>4. QED
        BY <1>2, <1>3, <1>6, <2>1, <2>6, <2>7, <2>8, <3>1, <3>2, <3>3
        DEF Delivered
    <2>10. QED
      BY <1>4, <2>9 DEF DeliveryInvariant
  <1>7. QED
    BY <1>5, <1>6

LEMMA ControllerDelivery ==
    ASSUME TypeInvariant, AdmissionInvariant, DeliveryInvariant,
           NEW p \in Controllers, ControllerAction(p)
    PROVE  DeliveryInvariant'
  <1>1. /\ process \in [Controllers -> ProcessStates]
        /\ link \in [Controllers -> LinkStates]
        /\ reportsSent \in [Controllers -> 0 .. Len(ReportTypes)]
        /\ Len(ReportTypes) \in Nat
        /\ UNCHANGED <<results, reading>>
    BY ReportTypesAssumption
    DEF TypeInvariant, TypeOK, ControllerTypeOK, NetworkTypeOK,
        ControllerAction, masterVars
  <1>2. ASSUME NEW how \in Ended, EndProcess(p, how),
               UNCHANGED <<toMaster, reportsSent>>
        PROVE  DeliveryInvariant'
    BY <1>1, <1>2, DeliveredFrame
    DEF EndProcess, Hangup, DeliveryInvariant, Ended
  <1>3. ASSUME NEW next \in ProcessStates \ {"finish"},
               process[p] \notin Ended \cup {"cleanup"},
               process' = [process EXCEPT ![p] = next],
               UNCHANGED <<link, toMaster, reportsSent>>
        PROVE  DeliveryInvariant'
    BY <1>1, <1>3, DeliveredFrame DEF DeliveryInvariant
  <1> USE DEF Ended, Reading, Threaded, ProcessStates
  <1>4. CASE Connect(p)
    <2>1. CASE acceptorOpen
      <3>1. /\ process' = [process EXCEPT ![p] = "getDhtType"]
            /\ link' = [link EXCEPT ![p] = "open"]
            /\ UNCHANGED <<toMaster, reportsSent>>
            /\ process[p] = "idle" /\ link[p] = "idle"
        BY <1>4, <2>1 DEF Connect, AdmissionInvariant
      <3>2. QED
        BY <1>1, <3>1, DeliveredFrame DEF DeliveryInvariant
    <2>2. CASE ~acceptorOpen
      BY <1>2, <1>4, <2>2 DEF Connect
    <2>3. QED
      BY <2>1, <2>2
  <1>5. ASSUME NEW opcode, NEW next \in ProcessStates \ {"finish"},
               process[p] \in Reading, GetNextMessage(p, opcode, next)
        PROVE  DeliveryInvariant'
    BY <1>2, <1>3, <1>5 DEF GetNextMessage
  <1>6. CASE GetDhtType(p) \/ GetProfile(p) \/ WaitForStartMessage(p)
    BY <1>5, <1>6 DEF GetDhtType, GetProfile, WaitForStartMessage
  <1>7. CASE ReportResult(p)
    <2> DEFINE k == reportsSent[p] + 1
               next == IF k = Len(ReportTypes) THEN "finish" ELSE "report"
    <2>1. /\ process[p] = "report" /\ reportsSent[p] < Len(ReportTypes)
          /\ Write(p, Report(ReportTypes[k]), next)
          /\ reportsSent' = [reportsSent EXCEPT ![p] = k]
      BY <1>7 DEF ReportResult
    <2>2. /\ k \in 0 .. Len(ReportTypes)
          /\ next \in {"report", "finish", "cleanup"} /\ next # "cleanup"
          /\ next = "finish" => k = Len(ReportTypes)
      BY <1>1, <2>1
    <2> DEFINE message == Report(ReportTypes[k])
    <2>3. /\ message = IF reportsSent[p] < Len(ReportTypes)
                       THEN Report(ReportTypes[reportsSent[p] + 1]) ELSE Finish
          /\ Write(p, message, next) /\ k = reportsSent[p] + 1
      BY <2>1
    <2> HIDE DEF k, next, message
    <2>4. process[p] \in {"report", "finish"}
      BY <2>1
    <2>5. QED
      BY <1>1, <2>1, <2>2, <2>3, <2>4, WriteDelivery
  <1>8. CASE SendFinishMessage(p)
    <2>1. /\ process[p] = "finish" /\ Write(p, Finish, "cleanup")
          /\ UNCHANGED reportsSent
          /\ reportsSent[p] = Len(ReportTypes)
      BY <1>8 DEF SendFinishMessage, DeliveryInvariant, Delivered
    <2>2. /\ reportsSent' = [reportsSent EXCEPT ![p] = Len(ReportTypes)]
          /\ Len(ReportTypes) \in 0 .. Len(ReportTypes)
      BY <1>1, <2>1
    <2> DEFINE message == Finish
    <2>3. /\ message = IF reportsSent[p] < Len(ReportTypes)
                       THEN Report(ReportTypes[reportsSent[p] + 1]) ELSE Finish
          /\ Write(p, message, "cleanup")
          /\ process[p] \in {"report", "finish"}
      BY <1>1, <2>1
    <2> HIDE DEF message
    <2>4. QED
      BY <1>1, <2>2, <2>3, WriteDelivery
  <1>9. CASE ReadError(p) \/ Destroy(p) \/ TimeoutThread(p) \/ Die(p)
    BY <1>2, <1>9 DEF ReadError, Destroy, TimeoutThread, Die
  <1>10. CASE WorkloadDone(p)
    BY <1>3, <1>10 DEF WorkloadDone, networkVars
  <1>11. CASE Vanish(p)
    BY <1>1, <1>11, DeliveredFrame DEF Vanish, networkVars, DeliveryInvariant
  <1>12. QED
    BY <1>4, <1>6, <1>7, <1>8, <1>9, <1>10, <1>11
    DEF ControllerAction, ControllerNext, ControllerStep

LEMMA InitDelivery == Init => DeliveryInvariant
  BY ReportTypesAssumption
  DEF Init, NetworkInit, MasterInit, ControllerInit, DeliveryInvariant,
      Delivered, Stored

LEMMA StepDelivery ==
    ASSUME TypeInvariant, CountInvariant, AdmissionInvariant,
           DeliveryInvariant, [Next]_vars
    PROVE  DeliveryInvariant'
  <1>1. CASE MasterAction
    BY <1>1, MasterDelivery
  <1>2. CASE \E p \in Controllers : ControllerAction(p)
    BY <1>2, ControllerDelivery
  <1>3. CASE \/ \E p \in Controllers : NetworkAction(p)
             \/ Tick \/ UNCHANGED vars
    <2>1. /\ UNCHANGED <<results, reading, toMaster, process, reportsSent>>
          /\ \A q \in Controllers :
                /\ link[q] = "closed" => link'[q] = "closed"
                /\ link'[q] = "idle" => link[q] = "idle"
      BY <1>3 DEF NetworkAction, RstArrives, Tick, vars, masterVars,
                  controllerVars, networkVars, TypeInvariant, TypeOK,
                  NetworkTypeOK
    <2>2. QED
      BY <2>1, DeliveredFrame DEF DeliveryInvariant
  <1>4. QED
    BY <1>1, <1>2, <1>3 DEF Next, Terminated

(***************************************************************************)
(* A controller counted as finished has had each of its reports stored     *)
(* once, in the order of reportResults: whatever crashes, resets and       *)
(* timeouts come between, Finish is never handled before the last report.  *)
(***************************************************************************)
THEOREM FinishedReported == Spec => []FinishedMeansReported
  <1> DEFINE Inv == /\ TypeInvariant /\ CountInvariant
                    /\ AdmissionInvariant /\ DeliveryInvariant
  <1>1. Init => Inv
    BY InitType, InitCount, InitAdmission, InitDelivery
  <1>2. Inv /\ [Next]_vars => Inv'
    BY StepType, StepCount, StepAdmission, StepDelivery
  <1>3. Inv => FinishedMeansReported
    <2> SUFFICES ASSUME Inv, NEW p \in Controllers, reading[p] = "finished"
                 PROVE  results[p] = ReportTypes
      BY DEF FinishedMeansReported
    <2>1. /\ results[p] = [k \in 1 .. Len(results[p]) |-> results[p][k]]
          /\ ReportTypes = [k \in 1 .. Len(ReportTypes) |-> ReportTypes[k]]
      <3>1. results[p] \in Seq(ReportTypeSet)
        BY DEF TypeInvariant, TypeOK, MasterTypeOK
      <3>2. QED
        BY <3>1, ReportTypesAssumption
    <2>2. /\ Len(results[p]) = Len(ReportTypes)
          /\ \A k \in 1 .. Len(ReportTypes) : results[p][k] = ReportTypes[k]
      BY DEF DeliveryInvariant, Delivered, Stored
    <2>3. QED
      BY <2>1, <2>2
  <1>4. QED
    BY <1>1, <1>2, <1>3, PTL DEF Spec

-----------------------------------------------------------------------------
(* The two timeouts *)

\* Before the master's timer fires, the clock of a threaded controller has run
\* no longer than the master's timer and what sending the Starts took.
OnTime(p) ==
    /\ process[p] \in Threaded =>
          /\ startMessage[p] # NotStarted
          /\ phase \in {"starting", "startSent", "running"} =>
                elapsed[p] + workloadTimer + slack
                    <= WorkloadTimeout + StartSlack
    /\ process[p] \notin Threaded => elapsed[p] = 0
    /\ process[p] = "timeout" => phase \in {"stopped"} \cup OverPhases
    /\ link[p] \in {"fin", "reset"} => process[p] \in Ended
    /\ reading[p] = "failed" => process[p] \in Ended

(***************************************************************************)
(* The timer has not moved before run() arms it, a link is half closed or  *)
(* reset only when its controller ended, and a timed out controller ended  *)
(* after the master stopped collecting.                                    *)
(***************************************************************************)
ClockInvariant ==
    /\ phase \in {"accepting", "starting", "startSent"} =>
          workloadTimer = WorkloadTimeout
    /\ \A p \in Controllers :
          /\ OnTime(p)
          /\ process[p] = "timeout" => reading[p] # "failed"

\* The clocks are numbers.
LEMMA ClockTypes ==
    ASSUME TypeInvariant
    PROVE  /\ WorkloadTimeout \in Nat /\ workloadTimer \in 0 .. WorkloadTimeout
           /\ StartSlack \in Nat /\ slack \in 0 .. StartSlack
           /\ StartSlack < Grace /\ Grace \in Nat
           /\ KillTimeout = WorkloadTimeout + Grace
           /\ elapsed \in [Controllers -> 0 .. KillTimeout]
           /\ process \in [Controllers -> ProcessStates]
           /\ link \in [Controllers -> LinkStates]
  <1>1. WorkloadTimeout \in Nat /\ KillTimeout = WorkloadTimeout + Grace
    BY TimesAssumption, GraceAssumption DEF WorkloadTimeout, KillTimeout
  <1>2. QED
    BY <1>1, StartSlackAssumption, GraceAssumption
    DEF TypeInvariant, TypeOK, MasterTypeOK, ControllerTypeOK, NetworkTypeOK

\* While the master accepts, nobody has a timeout thread.
LEMMA NobodyThreaded ==
    ASSUME TypeInvariant, StartInvariant, ClockInvariant, phase = "accepting",
           NEW p \in Controllers
    PROVE  process[p] \notin Threaded
  <1> SUFFICES ASSUME process[p] \in Threaded PROVE FALSE
    OBVIOUS
  <1>1. Len(controllers) = Nodes
    BY StartedByOffer DEF ClockInvariant, OnTime, RightOffer
  <1>2. Len(controllers) < Nodes
    BY DEF TypeInvariant, PhaseInvariant
  <1>3. QED
    BY <1>1, <1>2, NodesNat

\* The order of the master's phases.
PhaseAdvances ==
    /\ phase' = "accepting" => phase = "accepting"
    /\ phase' = "running" => phase \in {"startSent", "running"}
    /\ phase' = "startSent" => phase \in {"starting", "startSent"}
    /\ phase' = "starting" => phase \in {"accepting", "starting"}

\* Steps of the master that give no verdict "failed" and stop no timer.
LEMMA MasterClockFrame ==
    ASSUME TypeInvariant, StartInvariant, ClockInvariant,
           UNCHANGED <<controllerVars, slack>>, PhaseAdvances,
           \/ UNCHANGED workloadTimer
           \/ workloadTimer' = WorkloadTimeout /\ phase = "startSent",
           phase \in {"stopped"} \cup OverPhases => phase' \in {"stopped"} \cup OverPhases,
           \A p \in Controllers :
              /\ link'[p] \in {"fin", "reset"} => link[p] \in {"fin", "reset"}
              /\ reading'[p] = "failed" =>
                    \/ reading[p] = "failed"
                    \/ phase = "running" /\ link[p] = "fin"
    PROVE  ClockInvariant'
  <1> USE DEF controllerVars
  <1>1. workloadTimer' = workloadTimer
    BY DEF ClockInvariant
  <1>2. phase' \in {"accepting", "starting", "startSent"} =>
           workloadTimer' = WorkloadTimeout
    BY <1>1 DEF ClockInvariant, PhaseAdvances
  <1>3. ASSUME NEW p \in Controllers
        PROVE  OnTime(p)' /\ (process'[p] = "timeout" => reading'[p] # "failed")
    <2>1. OnTime(p) /\ (process[p] = "timeout" => reading[p] # "failed")
      BY DEF ClockInvariant
    <2>2. process[p] \in Threaded /\ phase' \in {"starting", "startSent", "running"}
             => phase \in {"starting", "startSent", "running"}
      BY NobodyThreaded DEF PhaseAdvances
    <2>3. phase = "running" => process[p] # "timeout"
      BY <2>1 DEF OnTime, OverPhases
    <2>4. QED
      BY <1>1, <2>1, <2>2, <2>3 DEF OnTime
  <1>4. QED
    BY <1>2, <1>3 DEF ClockInvariant

LEMMA MasterClock ==
    ASSUME TypeInvariant, StartInvariant, ClockInvariant, MasterAction
    PROVE  ClockInvariant'
  <1>1. UNCHANGED <<controllerVars, slack>>
    BY DEF MasterAction
  <1>2. ASSUME ProcessEnds, phase' \in OverPhases, UNCHANGED <<reading, workloadTimer>>
        PROVE  ClockInvariant'
    BY <1>1, <1>2, MasterClockFrame
    DEF ProcessEnds, CloseAll, PhaseAdvances, OverPhases
  <1>3. ASSUME NEW reason, Abort(reason)
        PROVE  ClockInvariant'
    BY <1>2, <1>3 DEF Abort, OverPhases
  <1>4. ASSUME NEW p \in Controllers, NEW links \in [Controllers -> LinkStates],
               WriteCompletes(p, links),
               \A q \in Controllers : links[q] \in {"fin", "reset"} =>
                  link[q] \in {"fin", "reset"}
        PROVE  \A q \in Controllers : link'[q] \in {"fin", "reset"} =>
                  link[q] \in {"fin", "reset"}
    BY <1>4 DEF WriteCompletes
  <1>5. link \in [Controllers -> LinkStates]
    BY ClockTypes
  <1>6. CASE HandleAccept
    <2> DEFINE p == Head(backlog)
               links == IF Len(controllers) + 1 = Nodes
                        THEN CloseAll(Members(Tail(backlog))) ELSE link
    <2>1. /\ WriteCompletes(p, links) /\ phase = "accepting"
          /\ phase' \in {"accepting", "starting"}
          /\ UNCHANGED <<reading, workloadTimer>>
      BY <1>6 DEF HandleAccept, Members
    <2>2. p \in Controllers
      BY <1>6 DEF HandleAccept, TypeInvariant, TypeOK, NetworkTypeOK
    <2>3. /\ links \in [Controllers -> LinkStates]
          /\ \A q \in Controllers : links[q] \in {"fin", "reset"} =>
                link[q] \in {"fin", "reset"}
      BY <1>5, LinksTyped DEF CloseAll
    <2> HIDE DEF p, links
    <2>4. \A q \in Controllers : link'[q] \in {"fin", "reset"} =>
             link[q] \in {"fin", "reset"}
      BY <1>4, <2>1, <2>2, <2>3
    <2>5. QED
      BY <1>1, <2>1, <2>4, MasterClockFrame DEF PhaseAdvances, OverPhases
  <1>7. CASE SendStartMessage
    <2>1. controllers[startIndex] \in Controllers
      BY <1>7, NodesNat DEF SendStartMessage, TypeInvariant, TypeOK,
                            MasterTypeOK, PhaseInvariant
    <2>2. PICK p \in Controllers : /\ WriteCompletes(p, link)
                                   /\ reading' = [reading EXCEPT ![p] = "pending"]
      BY <1>7, <2>1 DEF SendStartMessage
    <2>3. /\ phase = "starting" /\ phase' \in {"starting", "startSent"}
          /\ UNCHANGED workloadTimer
          /\ reading \in [Controllers ->
                             {"none", "pending", "finished", "failed"}]
      BY <1>7 DEF SendStartMessage, TypeInvariant, TypeOK, MasterTypeOK
    <2>4. \A q \in Controllers : link'[q] \in {"fin", "reset"} =>
             link[q] \in {"fin", "reset"}
      BY <1>4, <1>5, <2>2
    <2>5. \A q \in Controllers : reading'[q] = "failed" => reading[q] = "failed"
      BY <2>2, <2>3
    <2>6. QED
      BY <1>1, <2>3, <2>4, <2>5, MasterClockFrame DEF PhaseAdvances, OverPhases
  <1>8. CASE \E p \in Controllers : HandleMessage(p)
    <2>1. PICK p \in Controllers : HandleMessage(p)
      BY <1>8
    <2>2. CASE Abort("opcode")
      BY <1>3, <2>2
    <2>3. CASE HandleReportMessage(p, Head(toMaster[p]))
      BY <1>1, <2>1, <2>3, MasterClockFrame
      DEF HandleMessage, HandleReportMessage, PhaseAdvances, OverPhases
    <2>4. CASE HandleFinishMessage(p)
      <3>1. /\ phase = "running" /\ phase' \in {"running", "stopped"}
            /\ UNCHANGED <<workloadTimer, link>>
            /\ \A q \in Controllers : reading'[q] = "failed" => reading[q] = "failed"
        BY <2>1, <2>4
        DEF HandleMessage, HandleFinishMessage, ControllerFinished,
            TypeInvariant, TypeOK, MasterTypeOK
      <3>2. QED
        BY <1>1, <3>1, MasterClockFrame DEF PhaseAdvances, OverPhases
    <2>5. QED
      BY <2>1, <2>2, <2>3, <2>4 DEF HandleMessage
  <1>9. CASE \E p \in Controllers : HandleDisconnection(p)
    <2>1. PICK p \in Controllers : HandleDisconnection(p)
      BY <1>9
    <2>2. /\ phase = "running" /\ phase' \in {"running", "stopped"}
          /\ UNCHANGED <<workloadTimer, link>>
          /\ \A q \in Controllers : reading'[q] = "failed" =>
                reading[q] = "failed" \/ link[q] = "fin"
      BY <2>1 DEF HandleDisconnection, ControllerFinished, networkVars,
                  TypeInvariant, TypeOK, MasterTypeOK
    <2>3. QED
      BY <1>1, <2>2, MasterClockFrame DEF PhaseAdvances, OverPhases
  <1>10. CASE ArmWorkloadTimer \/ HandleWorkloadTimeout
    BY <1>1, <1>10, MasterClockFrame
    DEF ArmWorkloadTimer, HandleWorkloadTimeout, networkVars, PhaseAdvances,
        OverPhases
  <1>11. CASE PublishResults
    BY <1>2, <1>11 DEF PublishResults, OverPhases
  <1>12. QED
    BY <1>3, <1>6, <1>7, <1>8, <1>9, <1>10, <1>11
    DEF MasterAction, MasterNext, AcceptError, StartEndpointLost,
        HandleReadOnReset, HandleWriteError, ResultsError

LEMMA ControllerClock ==
    ASSUME TypeInvariant, AdmissionInvariant, StartInvariant, ClockInvariant,
           NEW p \in Controllers, ControllerAction(p)
    PROVE  ClockInvariant'
  <1>1. UNCHANGED <<phase, workloadTimer, slack, reading>>
    BY DEF ControllerAction, masterVars
  <1>2. ASSUME UNCHANGED startMessage
               \/ \E m : startMessage' = [startMessage EXCEPT ![p] = m],
               NEW next, process' = [process EXCEPT ![p] = next],
               \/ UNCHANGED elapsed \/ elapsed' = [elapsed EXCEPT ![p] = 0],
               \/ UNCHANGED link \/ link' = Hangup(p)
               \/ link' = [link EXCEPT ![p] = "open"],
               OnTime(p)', next = "timeout" => reading[p] # "failed"
        PROVE  ClockInvariant'
    <2>1. ASSUME NEW q \in Controllers, q # p
          PROVE  /\ process'[q] = process[q] /\ elapsed'[q] = elapsed[q]
                 /\ link'[q] = link[q] /\ startMessage'[q] = startMessage[q]
      BY <1>2, <2>1, ClockTypes
      DEF Hangup, TypeInvariant, TypeOK, ControllerTypeOK
    <2>2. ASSUME NEW q \in Controllers, q # p
          PROVE  OnTime(q)' /\ (process'[q] = "timeout" => reading'[q] # "failed")
      BY <1>1, <2>1, <2>2 DEF ClockInvariant, OnTime
    <2>3. process'[p] = next
      BY <1>2, ClockTypes
    <2>4. QED
      BY <1>1, <1>2, <2>2, <2>3 DEF ClockInvariant
  <1>3. OnTime(p) /\ (process[p] = "timeout" => reading[p] # "failed")
    BY DEF ClockInvariant
  <1> USE DEF Ended, Reading, Threaded, ProcessStates
  <1>4. ASSUME NEW how \in Ended, EndProcess(p, how), UNCHANGED startMessage,
               how = "timeout" => /\ phase \in {"stopped"} \cup OverPhases
                                  /\ process[p] \in Threaded
        PROVE  ClockInvariant'
    <2>1. process'[p] = how /\ elapsed'[p] = 0
      BY <1>4, ClockTypes DEF EndProcess
    <2>2. OnTime(p)'
      BY <1>1, <1>4, <2>1 DEF OnTime
    <2>3. how = "timeout" => reading[p] # "failed"
      BY <1>3, <1>4 DEF OnTime
    <2>4. QED
      BY <1>2, <1>4, <2>2, <2>3 DEF EndProcess
  <1>5. ASSUME NEW next \in Reading \cup Threaded,
               process[p] \in Reading \cup Threaded,
               process[p] \in Threaded <=> next \in Threaded,
               process' = [process EXCEPT ![p] = next],
               UNCHANGED <<elapsed, link, startMessage>>
        PROVE  ClockInvariant'
    <2>1. process'[p] = next
      BY <1>5, ClockTypes
    <2>2. OnTime(p)'
      BY <1>1, <1>3, <1>5, <2>1 DEF OnTime
    <2>3. QED
      BY <1>2, <1>5, <2>2
  <1>6. CASE Connect(p)
    <2>1. CASE acceptorOpen
      <3>1. /\ process' = [process EXCEPT ![p] = "getDhtType"]
            /\ link' = [link EXCEPT ![p] = "open"]
            /\ UNCHANGED <<elapsed, startMessage>> /\ process[p] = "idle"
        BY <1>6, <2>1 DEF Connect
      <3>2. process'[p] = "getDhtType" /\ link'[p] = "open"
        BY <3>1, ClockTypes
      <3>3. OnTime(p)'
        BY <1>1, <1>3, <3>1, <3>2 DEF OnTime
      <3>4. QED
        BY <1>2, <3>1, <3>3
    <2>2. CASE ~acceptorOpen
      BY <1>4, <1>6, <2>2 DEF Connect
    <2>3. QED
      BY <2>1, <2>2
  <1>7. CASE GetDhtType(p)
    BY <1>4, <1>5, <1>7 DEF GetDhtType, GetNextMessage
  <1>8. CASE GetProfile(p)
    BY <1>4, <1>5, <1>8 DEF GetProfile, GetNextMessage
  <1>9. CASE WaitForStartMessage(p)
    <2> DEFINE m == Head(toController[p])
    <2>1. CASE m.opcode # "Start"
      <3>1. /\ EndProcess(p, "error")
            /\ startMessage' = [startMessage EXCEPT ![p] = @]
        BY <1>9, <2>1 DEF WaitForStartMessage, GetNextMessage
      <3>2. UNCHANGED startMessage
        BY <3>1 DEF TypeInvariant, TypeOK, ControllerTypeOK
      <3>3. QED
        BY <1>4, <3>1, <3>2
    <2>2. CASE m.opcode = "Start"
      <3>1. /\ process' = [process EXCEPT ![p] = "start"]
            /\ startMessage' = [startMessage EXCEPT ![p] = m]
            /\ UNCHANGED <<elapsed, link>>
            /\ process[p] = "waitForStart"
        BY <1>9, <2>2 DEF WaitForStartMessage, GetNextMessage
      <3>2. process'[p] = "start" /\ startMessage'[p] = m /\ elapsed'[p] = 0
        BY <1>3, <3>1, ClockTypes
        DEF OnTime, TypeInvariant, TypeOK, ControllerTypeOK
      <3>3. m # NotStarted
        BY <2>2 DEF NotStarted, Profile
      <3> HIDE DEF m
      <3>4. elapsed'[p] + workloadTimer' + slack' <= WorkloadTimeout + StartSlack
        BY <1>1, <3>2, ClockTypes
      <3>5. OnTime(p)'
        BY <1>1, <1>3, <3>1, <3>2, <3>3, <3>4 DEF OnTime
      <3>6. QED
        BY <1>2, <3>1, <3>5
    <2>3. QED
      BY <2>1, <2>2
  <1>10. ASSUME NEW message, NEW next \in Threaded, process[p] \in Threaded,
                Write(p, message, next), UNCHANGED startMessage
         PROVE  ClockInvariant'
    BY <1>4, <1>5, <1>10 DEF Write
  <1>11. CASE ReportResult(p) \/ SendFinishMessage(p)
    BY <1>10, <1>11 DEF ReportResult, SendFinishMessage
  <1>12. CASE ReadError(p) \/ Destroy(p) \/ Die(p)
    BY <1>4, <1>12 DEF ReadError, Destroy, Die
  <1>13. CASE TimeoutThread(p)
    <2>1. /\ process[p] \in Threaded /\ elapsed[p] = KillTimeout
          /\ EndProcess(p, "timeout") /\ UNCHANGED startMessage
      BY <1>13 DEF TimeoutThread
    <2>2. phase \notin {"starting", "startSent", "running"}
      <3>1. elapsed[p] + workloadTimer + slack > WorkloadTimeout + StartSlack
        BY <2>1, ClockTypes
      <3>2. QED
        BY <1>3, <2>1, <3>1, ClockTypes DEF OnTime
    <2>3. phase # "accepting"
      BY <2>1, NobodyThreaded
    <2>4. phase \in {"stopped"} \cup OverPhases
      BY <2>2, <2>3 DEF TypeInvariant, TypeOK, MasterTypeOK, Phases, OverPhases
    <2>5. QED
      BY <1>4, <2>1, <2>4
  <1>14. CASE WorkloadDone(p)
    BY <1>5, <1>14 DEF WorkloadDone, networkVars
  <1>15. CASE Vanish(p)
    <2>1. /\ process' = [process EXCEPT ![p] = "vanished"]
          /\ elapsed' = [elapsed EXCEPT ![p] = 0]
          /\ UNCHANGED <<startMessage, link>>
      BY <1>15 DEF Vanish, networkVars
    <2>2. process'[p] = "vanished" /\ elapsed'[p] = 0
      BY <2>1, ClockTypes
    <2>3. OnTime(p)'
      BY <1>1, <2>2 DEF OnTime
    <2>4. QED
      BY <1>2, <2>1, <2>3
  <1>16. QED
    BY <1>6, <1>7, <1>8, <1>9, <1>11, <1>12, <1>13, <1>14, <1>15
    DEF ControllerAction, ControllerNext, ControllerStep

\* The clock: while the Starts are sent it takes from the slack, afterwards
\* from the master's timer, what it adds to the controllers' clocks.
LEMMA TickClock ==
    ASSUME TypeInvariant, StartInvariant, ClockInvariant, Tick
    PROVE  ClockInvariant'
  <1>1. UNCHANGED <<phase, process, startMessage, reading, link>>
    BY DEF Tick, networkVars
  <1>2. /\ workloadTimer' = IF phase = "running" THEN workloadTimer - 1
                                                 ELSE workloadTimer
        /\ \A p \in Controllers : elapsed'[p] =
              IF process[p] \in Threaded THEN elapsed[p] + 1 ELSE elapsed[p]
        /\ IF phase \in {"starting", "startSent"} THEN slack' = slack - 1
                                                  ELSE slack' = slack
    BY DEF Tick, MasterTick, ControllerTick
  <1>3. ASSUME NEW p \in Controllers
        PROVE  OnTime(p)' /\ (process'[p] = "timeout" => reading'[p] # "failed")
    <2>1. OnTime(p) /\ (process[p] = "timeout" => reading[p] # "failed")
      BY DEF ClockInvariant
    <2>2. ASSUME process[p] \in Threaded,
                 phase \in {"starting", "startSent", "running"}
          PROVE  elapsed'[p] + workloadTimer' + slack'
                    = elapsed[p] + workloadTimer + slack
      <3>1. elapsed[p] \in Nat /\ workloadTimer \in Nat /\ slack \in Nat
        BY ClockTypes
      <3>2. elapsed'[p] = elapsed[p] + 1
        BY <1>2, <2>2
      <3>3. CASE phase = "running"
        BY <1>2, <3>1, <3>2, <3>3
      <3>4. CASE phase \in {"starting", "startSent"}
        BY <1>2, <3>1, <3>2, <3>4
      <3>5. QED
        BY <2>2, <3>3, <3>4
    <2>3. QED
      BY <1>1, <1>2, <2>1, <2>2 DEF OnTime
  <1>4. QED
    BY <1>1, <1>2, <1>3 DEF ClockInvariant

LEMMA InitClock == Init => ClockInvariant
  BY DEF Init, NetworkInit, MasterInit, ControllerInit, ClockInvariant, OnTime,
         Threaded, Ended

LEMMA StepClock ==
    ASSUME TypeInvariant, AdmissionInvariant, StartInvariant, ClockInvariant,
           [Next]_vars
    PROVE  ClockInvariant'
  <1>1. CASE MasterAction
    BY <1>1, MasterClock
  <1>2. CASE \E p \in Controllers : ControllerAction(p)
    BY <1>2, ControllerClock
  <1>3. CASE Tick
    BY <1>3, TickClock
  <1>4. CASE (\E p \in Controllers : NetworkAction(p)) \/ UNCHANGED vars
    <2>1. /\ UNCHANGED <<phase, workloadTimer, slack, process, startMessage,
                         elapsed, reading>>
          /\ \A q \in Controllers : link'[q] \in {"fin", "reset"} =>
                link[q] \in {"fin", "reset"}
      BY <1>4, ClockTypes
      DEF NetworkAction, RstArrives, vars, masterVars, controllerVars,
          networkVars
    <2>2. QED
      BY <2>1 DEF ClockInvariant, OnTime
  <1>5. QED
    BY <1>1, <1>2, <1>3, <1>4 DEF Next, Terminated

(***************************************************************************)
(* The 10 seconds of timeoutThreadFunction are enough: as long as sending  *)
(* the Start messages takes less than that, a controller ended by its      *)
(* timeout thread is never counted as failed, whatever the durations are.  *)
(***************************************************************************)
THEOREM TimedOutIsUnfinished == Spec => []TimedOutNeverFailed
  <1> DEFINE Inv == /\ TypeInvariant /\ AdmissionInvariant
                    /\ StartInvariant /\ ClockInvariant
  <1>1. Init => Inv
    BY InitType, InitAdmission, InitStart, InitClock
  <1>2. Inv /\ [Next]_vars => Inv'
    BY StepType, StepAdmission, StepStart, StepClock
  <1>3. Inv => TimedOutNeverFailed
    BY DEF ClockInvariant, TimedOutNeverFailed
  <1>4. QED
    BY <1>1, <1>2, <1>3, PTL DEF Spec
=============================================================================
