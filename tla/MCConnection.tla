---------------------------- MODULE MCConnection ----------------------------
(***************************************************************************)
(* To the controller: DhtType with its string, Profile with the sizes and  *)
(* two cells for the profile strings, Start with its numbers and the host. *)
(* To the master: three reports (type and separator, and a value of up to  *)
(* two cells) and the finish message.                                      *)
(***************************************************************************)
EXTENDS Connection

MCStartScript == <<[opcode |-> "DhtType", bodySize |-> 1],
                   [opcode |-> "Profile", bodySize |-> 3],
                   [opcode |-> "Start", bodySize |-> 2]>>
MCReportScript == <<[opcode |-> "Report", bodySize |-> 3],
                    [opcode |-> "Report", bodySize |-> 2],
                    [opcode |-> "Report", bodySize |-> 3],
                    [opcode |-> "Finish", bodySize |-> 0]>>
=============================================================================
