----------------------------- MODULE NodesStatus ----------------------------
(***************************************************************************)
(* What the NodesStatus result promises, whatever the protocol: every node *)
(* of the experiment gets at most one verdict, a verdict is never taken    *)
(* back, and what is published, once, is the number of nodes with each     *)
(* verdict at that moment. The experiment may also be given up.            *)
(***************************************************************************)
EXTENDS Naturals

CONSTANTS
    Candidates,     \* processes that may become nodes
    NodeCount,      \* nodes of the experiment
    Count(_)        \* the size of a set of candidates

VARIABLES
    verdict,    \* per candidate: "none", "finished" or "failed"
    published,  \* the published counts
    over        \* the experiment has been published or given up

statusVars == <<verdict, published, over>>

With(v) == {c \in Candidates : verdict[c] = v}

StatusInit ==
    /\ verdict = [c \in Candidates |-> "none"]
    /\ published = [finished |-> 0, failed |-> 0, unfinished |-> 0]
    /\ over = FALSE

Decide(c, v) ==
    /\ ~over
    /\ verdict[c] = "none"
    /\ Count(With("finished") \cup With("failed")) < NodeCount
    /\ verdict' = [verdict EXCEPT ![c] = v]
    /\ UNCHANGED <<published, over>>

Publish ==
    /\ ~over
    /\ over' = TRUE
    /\ published' =
          [finished |-> Count(With("finished")),
           failed |-> Count(With("failed")),
           unfinished |-> NodeCount
                          - Count(With("finished") \cup With("failed"))]
    /\ UNCHANGED verdict

GiveUp ==
    /\ ~over
    /\ over' = TRUE
    /\ UNCHANGED <<verdict, published>>

StatusNext ==
    \/ \E c \in Candidates : Decide(c, "finished") \/ Decide(c, "failed")
    \/ Publish
    \/ GiveUp

StatusSpec == StatusInit /\ [][StatusNext]_statusVars
=============================================================================
