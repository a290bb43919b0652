------------------------------ MODULE NodeZero ------------------------------
(***************************************************************************)
(* The first node of a DHT: the dialogue of its wrapper with the program   *)
(* (Console) and, when the DHT is kaddemo, the id server that its join     *)
(* starts, its leave stops, and the joins of the other nodes depend on     *)
(* (KaddemoId).                                                            *)
(***************************************************************************)
EXTENDS Console, KaddemoId

vars == <<dialogueVars, idVars>>

HasIdServer == dht = "kaddemo"

TypeOK == ConsoleTypeOK /\ IdTypeOK

Init == ConsoleInit /\ IdInit

-----------------------------------------------------------------------------
\* The steps of KaddemoWrapper::doJoin that its main thread goes through as it
\* reads lines; whatever ends the process ends the id server's thread.
ReadsOn ==
    /\ WrapperStep
    /\ CASE HasIdServer /\ wrapper = "starting" /\ wrapper' = "getId" -> ZeroStarts
         [] HasIdServer /\ wrapper = "getIdPrompt" /\ wrapper' = "idle" -> ZeroJoins
         [] HasIdServer /\ wrapper' = "failed" -> ZeroEnds
         [] OTHER -> UNCHANGED idVars

Operates ==
    /\ UNCHANGED dht
    /\ DoPut \/ DoGet
    /\ IF HasIdServer /\ wrapper' = "failed" THEN ZeroEnds ELSE UNCHANGED idVars

\* KaddemoWrapper::doLeave writes its command before it stops the server.
Leaves ==
    /\ UNCHANGED dht
    /\ DoLeave
    /\ IF HasIdServer
       THEN IF wrapper' = "failed" THEN ZeroEnds ELSE ZeroLeaves
       ELSE UNCHANGED idVars

ThreadJoined == ZeroLeft /\ UNCHANGED dialogueVars

\* The next join begins when the leave has returned.
Rejoins ==
    /\ UNCHANGED dht
    /\ HasIdServer => zero = "out" /\ stays < MaxStays
    /\ DoJoin
    /\ UNCHANGED idVars

\* cleanup() of a node in the DHT: its wrapper reads and writes no more.
Deleted ==
    /\ wrapper = "idle"
    /\ wrapper' = "failed"
    /\ IF HasIdServer THEN ZeroDeleted ELSE UNCHANGED idVars
    /\ UNCHANGED <<dht, ret, stdin, stdout, consoleVars>>

\* The controller's process ends.
ProcessEnds ==
    /\ wrapper # "failed" \/ (HasIdServer /\ zero # "ended")
    /\ wrapper' = "failed"
    /\ IF HasIdServer THEN ZeroEnds ELSE UNCHANGED idVars
    /\ UNCHANGED <<dht, ret, stdin, stdout, consoleVars>>

ProgramRuns == (ConsoleStep \/ SeesDone \/ DhtAnswers) /\ UNCHANGED idVars
ProgramDies == UNCHANGED dht /\ Die /\ UNCHANGED idVars

ServerRuns == ServerStep /\ UNCHANGED dialogueVars
ServerAnswers(n) == HandleAccept(n) /\ UNCHANGED dialogueVars

OtherJoins(n) ==
    /\ HasIdServer
    /\ Connect(n) \/ GetId(n) \/ ReadError(n)
    /\ UNCHANGED dialogueVars

\* Whoever runs on, there is nobody left to talk to.
Over == wrapper = "failed" /\ UNCHANGED vars

Next ==
    \/ ReadsOn \/ Operates \/ Leaves \/ ThreadJoined \/ Rejoins
    \/ Deleted \/ ProcessEnds
    \/ ProgramRuns \/ ProgramDies
    \/ ServerRuns \/ \E n \in Nodes : ServerAnswers(n) \/ OtherJoins(n)
    \/ Over

\* The threads of both processes run, run() polls its accepts and its flag
\* again and again, and the DHT answers in the end. Nothing makes the loop of
\* PastConsole see what another thread wrote; the other consoles, which are
\* not in the repository, are taken to get their answers.
FairSpec ==
    /\ Init /\ [][Next]_vars
    /\ WF_vars(ReadsOn) /\ WF_vars(ThreadJoined)
    /\ WF_vars(ConsoleStep /\ UNCHANGED idVars)
    /\ WF_vars(dht # "pastconsole" /\ SeesDone /\ UNCHANGED idVars)
    /\ WF_vars(DhtAnswers /\ UNCHANGED idVars)
    /\ WF_vars(ServerRuns)
    /\ \A n \in Nodes : WF_vars(ServerAnswers(n)) /\ WF_vars(OtherJoins(n))

(***************************************************************************)
(* The wrapper and its program agree on whose turn it is, in every state of *)
(* the id server beside them.                                              *)
(***************************************************************************)
DialogueInvariant == TypeOK /\ InSync
=============================================================================
