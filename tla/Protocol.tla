------------------------------ MODULE Protocol ------------------------------
(***************************************************************************)
(* The messages of protocol.h/protocol.cpp that the master and the         *)
(* controllers exchange, abstracted to what the two ends act upon.         *)
(* A message is a record whose opcode is the name of the C++ class.        *)
(***************************************************************************)
EXTENDS Naturals, Sequences

CONSTANTS
    Hosts,                  \* addresses a controller may connect from
    NoHost,                 \* the empty entryPointHost: start a new DHT
    Duration,               \* the workload's duration, in ticks
    ReportAndFinishTimeout, \* the 90 seconds of protocol.h, in ticks
    ReportTypes             \* the reports of reportResults, in its order:
                            \* JoinLatency, LeaveLatency, GetLatency,
                            \* PutLatency, JoinSuccessRate, GetSuccessRate

ASSUME NoHostAssumption == NoHost \notin Hosts
ASSUME TimesAssumption ==
    Duration \in Nat \ {0} /\ ReportAndFinishTimeout \in Nat
ASSUME ReportTypesAssumption ==
    ReportTypes # <<>> /\ ReportTypes \in Seq(STRING)

\* Port offsets are uint16_t.
PortOffsetModulus == 65536
PortOffsets == {n \in Nat : n < PortOffsetModulus}

DhtType == [opcode |-> "DhtType"]
Profile == [opcode |-> "Profile"]
Start(host, entryOffset, selfOffset) ==
    [opcode |-> "Start", entryPointHost |-> host,
     entryPointPortOffset |-> entryOffset, selfPortOffset |-> selfOffset]
Report(type) == [opcode |-> "Report", type |-> type]
Finish == [opcode |-> "Finish"]

StartMessages == [opcode : {"Start"}, entryPointHost : Hosts \cup {NoHost},
                  entryPointPortOffset : PortOffsets,
                  selfPortOffset : PortOffsets]

ToControllerMessages == {DhtType, Profile} \cup StartMessages

ReportTypeSet == {ReportTypes[k] : k \in 1 .. Len(ReportTypes)}
ToMasterMessages == {Report(t) : t \in ReportTypeSet} \cup {Finish}
=============================================================================
