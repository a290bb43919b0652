----------------------------- MODULE MCSession ------------------------------
(***************************************************************************)
(* Small instances of DhtperfSession.                                      *)
(***************************************************************************)
EXTENDS DhtperfSession, TLC

CONSTANTS c1, c2, c3, h1, h2

\* Two controllers share a host.
MCHostOf == [p \in Controllers |-> IF p \in {c1, c2} THEN h1 ELSE h2]

\* Controllers of one host are interchangeable (used by the safety run only).
MCSymmetry == Permutations({c1, c2})

MCReportTypes == <<"JoinLatency", "GetSuccessRate">>
=============================================================================
