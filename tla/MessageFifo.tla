---------------------------- MODULE MessageFifo -----------------------------
(***************************************************************************)
(* What the two programs expect of a connection in one direction: whole    *)
(* messages, handled in the order they were sent, none twice, none         *)
(* invented, until the receiver gives up. It is what the sequences of      *)
(* module Network are.                                                     *)
(***************************************************************************)
EXTENDS Naturals, Sequences

CONSTANT Bits(_)    \* what the n-th message looks like

VARIABLES
    sent,       \* messages the sender has begun to send
    handled,    \* what the receiver acted upon
    over        \* the receiver reads no more

fifoVars == <<sent, handled, over>>

Init == sent = 0 /\ handled = <<>> /\ over = FALSE

Send == sent' = sent + 1 /\ UNCHANGED <<handled, over>>

\* The last message handled may be what ends the conversation.
Handle ==
    /\ ~over
    /\ Len(handled) < sent
    /\ handled' = Append(handled, Bits(Len(handled) + 1))
    /\ over' \in BOOLEAN
    /\ UNCHANGED sent

GiveUp == ~over /\ over' = TRUE /\ UNCHANGED <<sent, handled>>

Next == Send \/ Handle \/ GiveUp

Spec == Init /\ [][Next]_fifoVars
=============================================================================
