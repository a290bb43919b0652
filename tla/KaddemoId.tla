------------------------------ MODULE KaddemoId -----------------------------
(***************************************************************************)
(* The node ids of kaddemo: the node that starts the DHT (node zero) runs  *)
(* KaddemoIdServer in a thread of its own from the end of its join until   *)
(* its leave; every other node asks it for the id in its own join, and its *)
(* controller exits when it does not get one. Module NodeZero puts the     *)
(* actions of node zero together with those of its wrapper.                *)
(***************************************************************************)
EXTENDS Integers

CONSTANTS
    Nodes,              \* the other nodes
    MaxStays            \* bound on the joins of node zero

ASSUME KaddemoAssumption == MaxStays \in Nat \ {0}

VARIABLES
    zero,               \* where the main thread of node zero is
    stays,              \* joins of node zero so far
    id,                 \* id_, a new one at each join; 0 is the empty string
    threadStop,         \* threadStop_
    server,             \* where the thread of the id server is
    serverId,           \* the id the server was made with
    node,               \* where the join of each other node is
    got                 \* the id it got

zeroVars == <<zero, stays, id, threadStop>>
serverVars == <<server, serverId>>
nodeVars == <<node, got>>
idVars == <<zeroVars, serverVars, nodeVars>>

IdTypeOK ==
    /\ zero \in {"out", "started", "joined", "leaving", "deleted", "ended"}
    /\ stays \in 0 .. MaxStays /\ id \in 0 .. stays /\ serverId \in 0 .. stays
    /\ threadStop \in BOOLEAN
    /\ server \in {"none", "created", "listening"}
    /\ node \in [Nodes -> {"idle", "connected", "answered", "hasId", "failed"}]
    /\ got \in [Nodes -> 0 .. stays]
    /\ \A n \in Nodes : node[n] = "hasId" => got[n] # 0

IdInit ==
    /\ zero = "out" /\ stays = 0 /\ id = 0 /\ threadStop = FALSE
    /\ server = "none" /\ serverId = 0
    /\ node = [n \in Nodes |-> "idle"] /\ got = [n \in Nodes |-> 0]

-----------------------------------------------------------------------------
(* Node zero, its main thread *)

\* startWrapped() has the prompt.
ZeroStarts ==
    /\ zero = "out" /\ stays < MaxStays
    /\ zero' = "started" /\ stays' = stays + 1
    /\ UNCHANGED <<id, threadStop, serverVars, nodeVars>>

\* getSelfId() and startIdWrapperServer().
ZeroJoins ==
    /\ zero = "started"
    /\ zero' = "joined" /\ id' = stays
    /\ server' = "created"
    /\ UNCHANGED <<stays, threadStop, serverId, nodeVars>>

ZeroLeaves ==
    /\ zero = "joined"
    /\ zero' = "leaving" /\ threadStop' = TRUE
    /\ UNCHANGED <<stays, id, serverVars, nodeVars>>

\* wrapperIdServerThread_->join() returns, and stopWrapped() ends the program.
ZeroLeft ==
    /\ zero = "leaving" /\ server = "none"
    /\ zero' = "out"
    /\ UNCHANGED <<stays, id, threadStop, serverVars, nodeVars>>

\* cleanup() deletes the node of a controller that is still connected; the
\* thread goes on and reads threadStop_ in freed memory.
ZeroDeleted ==
    /\ zero = "joined"
    /\ zero' = "deleted" /\ threadStop' \in BOOLEAN
    /\ UNCHANGED <<stays, id, serverVars, nodeVars>>

\* The process of node zero ends, and its sockets with it.
ZeroEnds ==
    /\ zero # "ended"
    /\ zero' = "ended" /\ server' = "none"
    /\ UNCHANGED <<stays, id, threadStop, serverId, nodeVars>>

-----------------------------------------------------------------------------
(* Node zero, the thread of the id server *)

\* Mutant: one server object for all stays.
ServerOpensAgain ==
    /\ server = "created"
    /\ server' = "listening" /\ serverId' = IF serverId = 0 THEN id ELSE serverId
    /\ UNCHANGED <<zeroVars, nodeVars>>

ServerOpens ==
    /\ server = "created"
    /\ server' = "listening" /\ serverId' = id
    /\ UNCHANGED <<zeroVars, nodeVars>>

Answer(n) ==
    /\ node' = [node EXCEPT ![n] = "answered"]
    /\ got' = [got EXCEPT ![n] = serverId]
    /\ UNCHANGED <<zeroVars, serverVars>>

\* Mutant: handleAccept does not call asyncAccept again.
HandleAcceptOnce(n) ==
    /\ server = "listening" /\ node[n] = "connected"
    /\ \A m \in Nodes : got[m] = 0
    /\ Answer(n)

\* handleAccept, in any iteration of run(): the id is sent at once and the
\* next accept is started.
HandleAccept(n) ==
    /\ server = "listening" /\ node[n] = "connected"
    /\ Answer(n)

\* Mutant: run() never looks at *pStop again.
ServerStopsNot ==
    /\ server = "listening" /\ threadStop /\ zero = "ended"
    /\ server' = "none"
    /\ UNCHANGED <<zeroVars, serverId, nodeVars>>

ServerStops ==
    /\ server = "listening" /\ threadStop
    /\ server' = "none"
    /\ UNCHANGED <<zeroVars, serverId, nodeVars>>

-----------------------------------------------------------------------------
(* The other nodes: getEntryPointId() in their doJoin *)

Connect(n) ==
    /\ node[n] = "idle"
    /\ node' = [node EXCEPT ![n] =
                   IF server = "listening" THEN "connected" ELSE "failed"]
    /\ UNCHANGED <<zeroVars, serverVars, got>>

GetId(n) ==
    /\ node[n] = "answered"
    /\ node' = [node EXCEPT ![n] = "hasId"]
    /\ UNCHANGED <<zeroVars, serverVars, got>>

\* The server went away before it accepted this connection.
ReadError(n) ==
    /\ node[n] = "connected" /\ server # "listening"
    /\ node' = [node EXCEPT ![n] = "failed"]
    /\ UNCHANGED <<zeroVars, serverVars, got>>

ServerStep == ServerOpens \/ ServerStops
-----------------------------------------------------------------------------
(***************************************************************************)
(* The id a node is answered with is the one node zero has at that moment: *)
(* the server of one stay is gone before the next stay has its id.         *)
(***************************************************************************)
AnswersCurrentId ==
    [][\A n \in Nodes :
          node[n] = "connected" /\ node'[n] = "answered" => got'[n] = id]_idVars

\* The wait of doLeave for the id server's thread comes to an end.
LeaveReturns == zero = "leaving" ~> zero \in {"out", "ended"}

(***************************************************************************)
(* While node zero stays in the DHT it has joined for the first time, any  *)
(* number of nodes that found its server get the id.                       *)
(***************************************************************************)
ConnectedGetsId ==
    \A n \in Nodes :
        node[n] = "connected" /\ stays = 1 ~> node[n] = "hasId" \/ zero # "joined"
=============================================================================
