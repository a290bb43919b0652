----------------------------- MODULE Connection -----------------------------
(***************************************************************************)
(* A connection from its first to its last cell: the master's messages to  *)
(* one controller (StartStream) and, once it has started, the controller's *)
(* reports (ReportStream), each in its own direction of one socket. The    *)
(* end of a process, or the close of its socket, ends both.                *)
(***************************************************************************)
EXTENDS Naturals, Sequences

CONSTANTS
    StartScript,    \* the messages to the controller: [opcode, bodySize]
    ReportScript,   \* the messages to the master
    StartBuffer,    \* cells the kernels hold on the way to the controller
    ReportBuffer,   \* and on the way to the master
    MasterMayDie

ASSUME ConnectionAssumption ==
    /\ {StartScript, ReportScript} \subseteq
          Seq([opcode : STRING, bodySize : Nat])
    /\ [m \in DOMAIN StartScript |-> StartScript[m].opcode] =
          <<"DhtType", "Profile", "Start">>
    /\ \A m \in DOMAIN ReportScript : ReportScript[m].opcode =
          IF m = Len(ReportScript) THEN "Finish" ELSE "Report"
    /\ {StartBuffer, ReportBuffer} \subseteq Nat \ {0}
    /\ MasterMayDie \in BOOLEAN

VARIABLES
    sending, arrived, master, sent, taken, controller, header, received,
    reportSending, reportArrived, writer, writing, written, reader,
    headerBuffer, bodyBuffer, handled

Down == INSTANCE StartStream WITH
    Script <- StartScript, SendBuffer <- StartBuffer
Up == INSTANCE ReportStream WITH
    Script <- ReportScript, SendBuffer <- ReportBuffer,
    sending <- reportSending, arrived <- reportArrived

startVars == <<sending, arrived, master, sent, taken, controller, header,
               received>>
reportVars == <<reportSending, reportArrived, writing, written, reader,
                headerBuffer, bodyBuffer, handled>>
vars == <<startVars, writer, reportVars>>

TypeOK == Down!TypeOK /\ Up!TypeOK

Init == Down!Init /\ Up!Init

-----------------------------------------------------------------------------
\* DhtperfController::run() reads its three messages; their error paths are
\* exit(1) and a failed assertion.
Failed == controller \in {"exit", "aborted"}

ControllerReads ==
    /\ writer = "running"
    /\ Down!ReadStep
    /\ writer' = IF Failed' THEN "dead" ELSE writer
    /\ UNCHANGED reportVars

\* It reports when start() has returned.
ControllerWrites ==
    controller = "started" /\ Up!WriteStep /\ UNCHANGED startVars

ControllerDies == Up!Die /\ UNCHANGED startVars

MasterSends == Down!MasterStep /\ UNCHANGED <<writer, reportVars>>

\* asyncWaitForMessage follows the Start message.
MasterReads ==
    sent = Len(StartScript) /\ Up!ReadStep /\ UNCHANGED startVars

MasterEnds == Down!Die /\ Up!Close

StartCarried == Down!Carry /\ UNCHANGED <<writer, reportVars>>
ReportsCarried == Up!Carry /\ UNCHANGED startVars

Finished == Up!Gone /\ Up!Concluded /\ UNCHANGED vars

Next ==
    \/ ControllerReads \/ ControllerWrites \/ ControllerDies
    \/ MasterSends \/ MasterReads \/ MasterEnds
    \/ StartCarried \/ ReportsCarried
    \/ Finished

\* Both programs and the network go on, the master has all its controllers;
\* nobody has to die or to close.
FairSpec ==
    /\ Init /\ [][Next]_vars
    /\ WF_vars(ControllerReads) /\ WF_vars(ControllerWrites)
    /\ WF_vars(MasterSends) /\ WF_vars(MasterReads)
    /\ WF_vars(StartCarried) /\ WF_vars(ReportsCarried)

-----------------------------------------------------------------------------
(***************************************************************************)
(* Each direction is the channel of whole messages that module Network     *)
(* takes it for: what ControllerConnection and getNextMessage put together *)
(* from the pieces. The parts say what this means for each of them.        *)
(***************************************************************************)
ConnectionIsFifo == []TypeOK /\ Down!ImplementsFifo /\ Up!ImplementsFifo

(***************************************************************************)
(* A controller starts or ends, it never waits for ever for a master that  *)
(* is gone; and it starts if nobody is killed.                             *)
(***************************************************************************)
StartsOrExits ==
    /\ <>(controller = "started" \/ writer = "dead")
    /\ [](master = "up" /\ (writer = "dead" => Failed)) =>
          <>(controller = "started")

(***************************************************************************)
(* The master always gets to a conclusion about the controller, a finish   *)
(* or a disconnection, unless it closes the connection itself; and it does *)
(* not take a controller that wrote everything for one that failed.        *)
(***************************************************************************)
ConnectionConcluded ==
    /\ <>Up!Concluded
    /\ [](writer = "done" => <>(reader \in {"finished", "closed"}))

(***************************************************************************)
(* protocol.cpp:134, in the constructor of Profile from what               *)
(* getNextMessage read: "assert(copied == header.bodySize)".               *)
(***************************************************************************)
ProfileSizesAddUp == controller # "aborted"
=============================================================================
