------------------------------ MODULE Network -------------------------------
(***************************************************************************)
(* The TCP connections between the controllers and the master, as the      *)
(* sockets of ControllerConnection and DhtperfController see them          *)
(* (external: the kernel and Boost.Asio).                                  *)
(*                                                                         *)
(* link[p] is the state of the connection that controller process p opened:*)
(*   "idle"    never connected                                             *)
(*   "open"    established                                                 *)
(*   "fin"     p's process ended: the master reads what p wrote, then EOF  *)
(*   "reset"   p's kernel answered data for the dead p with an RST: the    *)
(*             master's socket has no peer any more                        *)
(*   "closed"  the master's end is gone (socket destroyed, process ended,  *)
(*             or the connection was still in the closed acceptor's queue) *)
(***************************************************************************)
EXTENDS Protocol

CONSTANT Controllers        \* controller processes

VARIABLES
    acceptorOpen,   \* the master's acceptor_ is listening
    backlog,        \* connections established and not yet accepted
    link,           \* state of each controller's connection
    toController,   \* messages written by the master, not yet read
    toMaster        \* messages written by the controller, not yet read

networkVars == <<acceptorOpen, backlog, link, toController, toMaster>>

LinkStates == {"idle", "open", "fin", "reset", "closed"}

NetworkTypeOK ==
    /\ acceptorOpen \in BOOLEAN
    /\ backlog \in Seq(Controllers)
    /\ link \in [Controllers -> LinkStates]
    /\ toController \in [Controllers -> Seq(ToControllerMessages)]
    /\ toMaster \in [Controllers -> Seq(ToMasterMessages)]

NetworkInit ==
    /\ acceptorOpen = TRUE
    /\ backlog = <<>>
    /\ link = [p \in Controllers |-> "idle"]
    /\ toController = [p \in Controllers |-> <<>>]
    /\ toMaster = [p \in Controllers |-> <<>>]

\* The links once every connection in S has been closed by the master.
CloseAll(S) ==
    [p \in Controllers |->
        IF p \in S /\ link[p] # "idle" THEN "closed" ELSE link[p]]

\* The links once the process of p has ended.
Hangup(p) == [link EXCEPT ![p] = IF @ = "open" THEN "fin" ELSE @]

\* socket_.remote_endpoint() throws when the socket has no peer any more.
HasPeer(p) == link[p] # "reset"

(***************************************************************************)
(* Data addressed to a dead controller is answered with an RST.            *)
(***************************************************************************)
RstArrives(p) ==
    /\ link[p] = "fin"
    /\ toController[p] # <<>>
    /\ link' = [link EXCEPT ![p] = "reset"]
    /\ UNCHANGED <<acceptorOpen, backlog, toController, toMaster>>
=============================================================================
